----------------------------- MODULE TxEncoding -----------------------------
(***************************************************************************)
(* encode_tx and encode_tx_replace_signature of                            *)
(* src/src/algorand/algorand_transaction.c: how a transaction becomes the  *)
(* MessagePack map that is signed and posted.  The payload is a header     *)
(* (the outer map, an empty signature, the key "txn") followed by the      *)
(* body, the map of the transaction's fields; only the body is signed.     *)
(* Sizes are in bytes; an integer is its encoded size, a string or a       *)
(* binary its length.                                                      *)
(***************************************************************************)
EXTENDS Integers, Sequences, FiniteSets

CONSTANTS OPTIONAL_TX_FIELDS_MAX_SIZE_BYTES,  \* 128
          APPS_KV_MAX_COUNT,                  \* 8
          APPS_KV_SLICE_MAX_SIZE,             \* 8
          NoteLength,                         \* lengths of notes clients pass
          IntSize,                            \* sizes of the integers' encodings
          ArgType                             \* types of application arguments

ASSUME EncodingAssumption ==
  /\ OPTIONAL_TX_FIELDS_MAX_SIZE_BYTES \in Nat
  /\ APPS_KV_MAX_COUNT \in 0 .. 15
  /\ APPS_KV_SLICE_MAX_SIZE \in 1 .. 255

ASSUME BinAssumption == OPTIONAL_TX_FIELDS_MAX_SIZE_BYTES < 65536      \* the headers of Bin
ASSUME NoteAssumption == NoteLength \subseteq Nat
ASSUME ArgAssumption == ArgType \subseteq {"INTEGER", "BYTESLICE", "NONE"}
ASSUME IntAssumption == IntSize \subseteq {1, 2, 3, 5, 9}        \* mpack_write_uint

SizeOfPointer == 8                            \* mutant: the size of `data'
TX_PAYLOAD_MAX_LENGTH == 512 + OPTIONAL_TX_FIELDS_MAX_SIZE_BYTES
ADDRESS_LENGTH == 32
BLOCK_HASH_LENGTH == 32
SIGNATURE_LENGTH == 64
NULL == -1                                    \* no note

(* the types of the arguments of an application call: app_values_t *)
Args == UNION {[1 .. n -> ArgType] : n \in 0 .. APPS_KV_MAX_COUNT}

(* What transaction_pay and transaction_appl hand to encode_tx: a note     *)
(* longer than the optional bytes is refused before, and application calls *)
(* have none.                                                              *)
Payment == [type : {"pay"}, note : {NULL} \cup {n \in NoteLength : n <= OPTIONAL_TX_FIELDS_MAX_SIZE_BYTES},
            amount : IntSize, fee : IntSize, first_valid : IntSize, last_valid : IntSize]
Call == [type : {"appl"}, note : {NULL}, app_id : IntSize, opt_in : BOOLEAN, args : Args,
         fee : IntSize, first_valid : IntSize, last_valid : IntSize]
-----------------------------------------------------------------------------
(* the sizes mpack_write_cstr and mpack_write_bin use *)
Str(length) == (IF length < 32 THEN 1 ELSE 2) + length
Bin(length) == (IF length < 256 THEN 2 ELSE 3) + length
FixedMap == 1           \* a map or an array of at most 15 entries

SignatureOffset == FixedMap + Str(3)                             \* "sig"
payload_header_length == SignatureOffset + Bin(SIGNATURE_LENGTH) + Str(3)   \* "txn"

(* txn_map_element_count, counted before anything is written *)
CountNoteless(tx) == 7 + (IF tx.type = "pay" THEN 2 ELSE 1)      \* mutant

txn_map_element_count(tx) ==
  7 + (IF tx.type = "pay" THEN 2
       ELSE 1 + (IF tx.opt_in THEN 1 ELSE 0) + (IF tx.args # << >> THEN 1 ELSE 0))
    + (IF tx.note # NULL THEN 1 ELSE 0)

IsWritten(tx, key) ==
  CASE key \in {"amt", "rcv"} -> tx.type = "pay"
    [] key = "apaa" -> tx.type = "appl" /\ tx.args # << >>
    [] key = "apan" -> tx.type = "appl" /\ tx.opt_in
    [] key = "apid" -> tx.type = "appl"
    [] key = "note" -> tx.note # NULL
    [] OTHER -> TRUE

Written(tx, key) == IF IsWritten(tx, key) THEN << key >> ELSE << >>

KeysAsDeclared(tx) ==                                            \* mutant
  Written(tx, "fee") \o Written(tx, "fv") \o Written(tx, "gen") \o Written(tx, "gh")
    \o Written(tx, "lv") \o Written(tx, "snd") \o Written(tx, "type") \o Written(tx, "amt")
    \o Written(tx, "rcv") \o Written(tx, "apaa") \o Written(tx, "apan")
    \o Written(tx, "apid") \o Written(tx, "note")

(* The keys in the order of the writes. *)
KeysWritten(tx) ==
  Written(tx, "amt") \o Written(tx, "apaa") \o Written(tx, "apan") \o Written(tx, "apid")
    \o Written(tx, "fee") \o Written(tx, "fv") \o Written(tx, "gen") \o Written(tx, "gh")
    \o Written(tx, "lv") \o Written(tx, "note") \o Written(tx, "rcv")
    \o Written(tx, "snd") \o Written(tx, "type")

(* An argument of an unknown type is counted in the array and not written. *)
ArgsWritten(args) == {i \in 1 .. Len(args) : args[i] # "NONE"}

(* the bytes after the key *)
ValueSize(tx, key) ==
  CASE key = "amt" -> tx.amount
    [] key = "apaa" -> FixedMap + Cardinality(ArgsWritten(tx.args)) * Bin(APPS_KV_SLICE_MAX_SIZE)
    [] key = "apan" -> 1
    [] key = "apid" -> tx.app_id
    [] key = "fee" -> tx.fee
    [] key = "fv" -> tx.first_valid
    [] key = "gen" -> Str(12)                                    \* "testnet-v1.0"
    [] key = "gh" -> Bin(BLOCK_HASH_LENGTH)
    [] key = "lv" -> tx.last_valid
    [] key = "note" -> Bin(tx.note)
    [] key \in {"rcv", "snd"} -> Bin(ADDRESS_LENGTH)
    [] key = "type" -> IF tx.type = "pay" THEN Str(3) ELSE Str(4)

KeyLength(key) ==
  CASE key \in {"fv", "gh", "lv"} -> 2
    [] key \in {"amt", "fee", "gen", "rcv", "snd"} -> 3
    [] OTHER -> 4

EntrySize(tx, key) ==
  IF IsWritten(tx, key) THEN Str(KeyLength(key)) + ValueSize(tx, key) ELSE 0

BodyLength(tx) ==
  FixedMap + EntrySize(tx, "amt") + EntrySize(tx, "apaa") + EntrySize(tx, "apan")
           + EntrySize(tx, "apid") + EntrySize(tx, "fee") + EntrySize(tx, "fv")
           + EntrySize(tx, "gen") + EntrySize(tx, "gh") + EntrySize(tx, "lv")
           + EntrySize(tx, "note") + EntrySize(tx, "rcv") + EntrySize(tx, "snd")
           + EntrySize(tx, "type")
-----------------------------------------------------------------------------
VARIABLES tx,                    \* the transaction
          payload_body_length,   \* bytes of the encoded body
          stage                  \* what became of it

vars == <<tx, payload_body_length, stage>>

Init ==
  /\ tx \in Payment \cup Call
  /\ payload_body_length = 0
  /\ stage = "new"

(* The writer flags an error when the payload is full. *)
encode_tx ==
  /\ stage = "new"
  /\ IF payload_header_length + BodyLength(tx) <= TX_PAYLOAD_MAX_LENGTH
     THEN stage' = "encoded" /\ payload_body_length' = BodyLength(tx)
     ELSE stage' = "failed" /\ UNCHANGED payload_body_length
  /\ UNCHANGED tx

(* The reader is given only payload_body_length bytes of the payload, of   *)
(* which it has to read the map, "sig" and the signature.                  *)
encode_tx_replace_signature ==
  /\ stage = "encoded"
  /\ stage' = IF SignatureOffset + Bin(SIGNATURE_LENGTH) <= payload_body_length
              THEN "signed" ELSE "failed"
  /\ UNCHANGED <<tx, payload_body_length>>

Next == encode_tx \/ encode_tx_replace_signature

Spec == Init /\ [][Next]_vars
-----------------------------------------------------------------------------
(* Every transaction transaction_pay and transaction_appl accept can be    *)
(* encoded in the payload, and its signature can be put in place although  *)
(* the reader is given the length of the body and not of the payload.      *)
NeverFails == stage # "failed"

(* The number of fields the map of the body declares, which is worked out  *)
(* first, is the number of fields that are written.                        *)
CountIsRight == txn_map_element_count(tx) = Len(KeysWritten(tx))

(* The letters of the keys: a is 1, z is 26. *)
Letters ==
  [amt |-> <<1, 13, 20>>, apaa |-> <<1, 16, 1, 1>>, apan |-> <<1, 16, 1, 14>>,
   apid |-> <<1, 16, 9, 4>>, fee |-> <<6, 5, 5>>, fv |-> <<6, 22>>, gen |-> <<7, 5, 14>>,
   gh |-> <<7, 8>>, lv |-> <<12, 22>>, note |-> <<14, 15, 20, 5>>, rcv |-> <<18, 3, 22>>,
   snd |-> <<19, 14, 4>>, type |-> <<20, 25, 16, 5>>]

Before(k, l) ==
  \E i \in 1 .. Len(Letters[l]) :
    /\ \A j \in 1 .. i - 1 : j <= Len(Letters[k]) /\ Letters[k][j] = Letters[l][j]
    /\ i > Len(Letters[k]) \/ Letters[k][i] < Letters[l][i]

(* Each key is written once, and in the order of their letters: a part of  *)
(* the canonical encoding over which Algorand verifies a signature.  (That *)
(* fields with value 0 are left out is another part, and not said here.)   *)
KeysAscend ==
  \A i, j \in 1 .. Len(KeysWritten(tx)) : i < j => Before(KeysWritten(tx)[i], KeysWritten(tx)[j])
=============================================================================
