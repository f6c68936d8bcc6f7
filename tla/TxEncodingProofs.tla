-------------------------- MODULE TxEncodingProofs --------------------------
(* For every note, every number of arguments and every integer the payload *)
(* has room for the encoding and for the reader of its signature, and the  *)
(* encoding has the entries it declares, in the order of their keys.       *)
EXTENDS TxEncoding, FiniteSetTheorems, TLAPS

(* The argument sizes vertices_config.h sets.  A build may raise them, and *)
(* then encode_tx may fail (TxPipeline's "toobig").                        *)
DefaultSizes == APPS_KV_MAX_COUNT <= 8 /\ APPS_KV_SLICE_MAX_SIZE <= 8

(* A call has at most APPS_KV_MAX_COUNT arguments, all or some are written. *)
LEMMA FewArgsWritten ==
  ASSUME NEW args \in Args
  PROVE  Cardinality(ArgsWritten(args)) \in 0 .. APPS_KV_MAX_COUNT
<1>1. PICK n \in 0 .. APPS_KV_MAX_COUNT : args \in [1 .. n -> ArgType]
  BY DEF Args
<1>2. n \in Nat /\ n <= APPS_KV_MAX_COUNT
  BY <1>1, EncodingAssumption
<1>3. Len(args) = n
  BY <1>1, <1>2
<1>4. ArgsWritten(args) \subseteq 1 .. n
  BY <1>3 DEF ArgsWritten
<1>5. IsFiniteSet(1 .. n) /\ Cardinality(1 .. n) = n
  <2>1. 1 \in Int /\ n \in Int
    BY <1>2
  <2>2. /\ IsFiniteSet(1 .. n)
        /\ Cardinality(1 .. n) = IF 1 > n THEN 0 ELSE n - 1 + 1
    BY <2>1, FS_Interval
  <2> QED BY <2>2, <1>2
<1>6. /\ IsFiniteSet(ArgsWritten(args))
      /\ Cardinality(ArgsWritten(args)) <= n
  BY <1>4, <1>5, FS_Subset
<1>7. Cardinality(ArgsWritten(args)) \in Nat
  BY <1>6, FS_CardinalityType
<1> QED BY <1>2, <1>6, <1>7, EncodingAssumption

(* The array of the arguments with its header. *)
LEMMA ArgsFit ==
  ASSUME DefaultSizes, NEW args \in Args
  PROVE  FixedMap + Cardinality(ArgsWritten(args)) * Bin(APPS_KV_SLICE_MAX_SIZE) \in 1 .. 81
<1> DEFINE c == Cardinality(ArgsWritten(args))
           b == Bin(APPS_KV_SLICE_MAX_SIZE)
<1>1. c \in 0 .. 8
  BY FewArgsWritten, EncodingAssumption DEF DefaultSizes
<1>2. b \in 3 .. 10
  BY EncodingAssumption DEF DefaultSizes, Bin
<1>3. c * b \in 0 .. 80
  <2> HIDE DEF c, b
  <2>1. c = 0 \/ c = 1 \/ c = 2 \/ c = 3 \/ c = 4 \/ c = 5 \/ c = 6 \/ c = 7 \/ c = 8
    BY <1>1
  <2> QED BY <2>1, <1>2
<1> QED BY <1>3 DEF FixedMap

LEMMA IntSizes == IntSize \subseteq 1 .. 9
  BY IntAssumption

(* The sizes of a payment's body. *)
LEMMA PaymentFits ==
  ASSUME NEW t \in Payment
  PROVE  /\ BodyLength(t) \in Nat
         /\ BodyLength(t) >= 71
         /\ payload_header_length + BodyLength(t) <= TX_PAYLOAD_MAX_LENGTH
<1>1. /\ t.type = "pay"
      /\ t.amount \in 1 .. 9 /\ t.fee \in 1 .. 9
      /\ t.first_valid \in 1 .. 9 /\ t.last_valid \in 1 .. 9
  <2>1. /\ t.type = "pay"
        /\ t.amount \in IntSize /\ t.fee \in IntSize
        /\ t.first_valid \in IntSize /\ t.last_valid \in IntSize
    BY DEF Payment
  <2> QED BY <2>1, IntSizes
<1>2. t.note = NULL \/ t.note \in 0 .. OPTIONAL_TX_FIELDS_MAX_SIZE_BYTES
  <2>1. t.note \in {NULL} \cup {n \in NoteLength : n <= OPTIONAL_TX_FIELDS_MAX_SIZE_BYTES}
    BY DEF Payment
  <2>2. OPTIONAL_TX_FIELDS_MAX_SIZE_BYTES \in Int /\ NoteLength \subseteq Nat
    BY EncodingAssumption, NoteAssumption
  <2>3. CASE t.note \in NoteLength /\ t.note <= OPTIONAL_TX_FIELDS_MAX_SIZE_BYTES
    <3>1. t.note \in Nat
      BY <2>2, <2>3
    <3> QED BY <2>2, <2>3, <3>1
  <2> QED BY <2>1, <2>3
<1>3. EntrySize(t, "note") \in 0 .. OPTIONAL_TX_FIELDS_MAX_SIZE_BYTES + 8
  <2>1. KeyLength("note") = 4 /\ Str(4) = 5 /\ ValueSize(t, "note") = Bin(t.note)
    BY DEF KeyLength, Str, ValueSize
  <2>2. EntrySize(t, "note") = IF t.note # NULL THEN 5 + Bin(t.note) ELSE 0
    BY <2>1 DEF EntrySize, IsWritten
  <2>3. OPTIONAL_TX_FIELDS_MAX_SIZE_BYTES \in Nat
    BY EncodingAssumption
  <2>4. CASE t.note = NULL
    BY <2>2, <2>3, <2>4
  <2>5. CASE t.note # NULL
    <3>1. t.note \in Nat /\ t.note <= OPTIONAL_TX_FIELDS_MAX_SIZE_BYTES
      BY <1>2, <2>3, <2>5
    <3>2. Bin(t.note) \in Nat /\ Bin(t.note) <= t.note + 3
      BY <3>1 DEF Bin
    <3> QED BY <2>2, <2>3, <2>5, <3>1, <3>2
  <2> QED BY <2>4, <2>5
<1>4. /\ EntrySize(t, "amt") \in 5 .. 13
      /\ EntrySize(t, "apaa") = 0
      /\ EntrySize(t, "apan") = 0
      /\ EntrySize(t, "apid") = 0
      /\ EntrySize(t, "fee") \in 5 .. 13
  BY <1>1 DEF EntrySize, IsWritten, KeyLength, ValueSize, Str
<1>5. /\ EntrySize(t, "fv") \in 4 .. 12
      /\ EntrySize(t, "gen") = 17
      /\ EntrySize(t, "gh") = 37
      /\ EntrySize(t, "lv") \in 4 .. 12
  BY <1>1 DEF EntrySize, IsWritten, KeyLength, ValueSize, Str, Bin, BLOCK_HASH_LENGTH
<1>6. /\ EntrySize(t, "rcv") = 38
      /\ EntrySize(t, "snd") = 38
      /\ EntrySize(t, "type") = 9
  BY <1>1 DEF EntrySize, IsWritten, KeyLength, ValueSize, Str, Bin, ADDRESS_LENGTH
<1>7. payload_header_length = 75
  BY DEF payload_header_length, SignatureOffset, FixedMap, Str, Bin, SIGNATURE_LENGTH
<1>8. OPTIONAL_TX_FIELDS_MAX_SIZE_BYTES \in Nat
  BY EncodingAssumption
<1>9. BodyLength(t) \in 158 .. 198 + OPTIONAL_TX_FIELDS_MAX_SIZE_BYTES
  <2> DEFINE E(key) == EntrySize(t, key)
  <2>1. BodyLength(t) = 1 + E("amt") + E("apaa") + E("apan") + E("apid") + E("fee") + E("fv")
                          + E("gen") + E("gh") + E("lv") + E("note") + E("rcv") + E("snd") + E("type")
    BY DEF BodyLength, FixedMap
  <2>2. /\ E("amt") \in 5 .. 13 /\ E("apaa") = 0 /\ E("apan") = 0 /\ E("apid") = 0
        /\ E("fee") \in 5 .. 13 /\ E("fv") \in 4 .. 12 /\ E("gen") = 17 /\ E("gh") = 37
        /\ E("lv") \in 4 .. 12 /\ E("note") \in 0 .. OPTIONAL_TX_FIELDS_MAX_SIZE_BYTES + 8
        /\ E("rcv") = 38 /\ E("snd") = 38 /\ E("type") = 9
    BY <1>3, <1>4, <1>5, <1>6
  <2> HIDE DEF E
  <2> QED BY <2>1, <2>2, <1>8
<1> QED BY <1>7, <1>8, <1>9 DEF TX_PAYLOAD_MAX_LENGTH

(* The sizes of an application call's body. *)
LEMMA CallFits ==
  ASSUME DefaultSizes, NEW t \in Call
  PROVE  /\ BodyLength(t) \in Nat
         /\ BodyLength(t) >= 71
         /\ payload_header_length + BodyLength(t) <= TX_PAYLOAD_MAX_LENGTH
<1>1. /\ t.type = "appl" /\ t.note = NULL
      /\ t.app_id \in 1 .. 9 /\ t.fee \in 1 .. 9
      /\ t.first_valid \in 1 .. 9 /\ t.last_valid \in 1 .. 9
      /\ t.args \in Args
  <2>1. /\ t.type = "appl" /\ t.note = NULL
        /\ t.app_id \in IntSize /\ t.fee \in IntSize
        /\ t.first_valid \in IntSize /\ t.last_valid \in IntSize
        /\ t.args \in Args
    BY DEF Call
  <2> QED BY <2>1, IntSizes
<1>2. EntrySize(t, "apaa") \in 0 .. 86
  <2>1. ValueSize(t, "apaa") \in 1 .. 81
    BY <1>1, ArgsFit DEF ValueSize
  <2> QED BY <2>1 DEF EntrySize, KeyLength, Str
<1>3. /\ EntrySize(t, "amt") = 0
      /\ EntrySize(t, "apan") \in 0 .. 6
      /\ EntrySize(t, "apid") \in 6 .. 14
      /\ EntrySize(t, "fee") \in 5 .. 13
  BY <1>1 DEF EntrySize, IsWritten, KeyLength, ValueSize, Str
<1>4. /\ EntrySize(t, "fv") \in 4 .. 12
      /\ EntrySize(t, "gen") = 17
      /\ EntrySize(t, "gh") = 37
      /\ EntrySize(t, "lv") \in 4 .. 12
  BY <1>1 DEF EntrySize, IsWritten, KeyLength, ValueSize, Str, Bin, BLOCK_HASH_LENGTH
<1>5. /\ EntrySize(t, "note") = 0
      /\ EntrySize(t, "rcv") = 0
      /\ EntrySize(t, "snd") = 38
      /\ EntrySize(t, "type") = 10
  BY <1>1 DEF EntrySize, IsWritten, KeyLength, ValueSize, Str, Bin, ADDRESS_LENGTH
<1>6. payload_header_length = 75
  BY DEF payload_header_length, SignatureOffset, FixedMap, Str, Bin, SIGNATURE_LENGTH
<1>7. OPTIONAL_TX_FIELDS_MAX_SIZE_BYTES \in Nat
  BY EncodingAssumption
<1>8. BodyLength(t) \in 122 .. 246
  <2> DEFINE E(key) == EntrySize(t, key)
  <2>1. BodyLength(t) = 1 + E("amt") + E("apaa") + E("apan") + E("apid") + E("fee") + E("fv")
                          + E("gen") + E("gh") + E("lv") + E("note") + E("rcv") + E("snd") + E("type")
    BY DEF BodyLength, FixedMap
  <2>2. /\ E("amt") = 0 /\ E("apaa") \in 0 .. 86 /\ E("apan") \in 0 .. 6 /\ E("apid") \in 6 .. 14
        /\ E("fee") \in 5 .. 13 /\ E("fv") \in 4 .. 12 /\ E("gen") = 17 /\ E("gh") = 37
        /\ E("lv") \in 4 .. 12 /\ E("note") = 0
        /\ E("rcv") = 0 /\ E("snd") = 38 /\ E("type") = 10
    BY <1>2, <1>3, <1>4, <1>5
  <2> HIDE DEF E
  <2> QED BY <2>1, <2>2, <1>7, SMTT(30)
<1> QED BY <1>6, <1>7, <1>8 DEF TX_PAYLOAD_MAX_LENGTH
-----------------------------------------------------------------------------
(* What encode_tx leaves: nothing failed, and an encoded body is long      *)
(* enough for encode_tx_replace_signature.                                 *)
EncodingInv ==
  /\ tx \in Payment \cup Call
  /\ NeverFails
  /\ stage = "encoded" => payload_body_length \in Nat /\ payload_body_length >= 71

LEMMA InitEncoding == Init => EncodingInv
  BY DEF Init, EncodingInv, NeverFails

LEMMA StepEncoding ==
  ASSUME DefaultSizes
  PROVE  EncodingInv /\ [Next]_vars => EncodingInv'
<1> SUFFICES ASSUME EncodingInv, [Next]_vars PROVE EncodingInv'
  OBVIOUS
<1>1. CASE encode_tx
  <2>1. /\ BodyLength(tx) \in Nat
        /\ BodyLength(tx) >= 71
        /\ payload_header_length + BodyLength(tx) <= TX_PAYLOAD_MAX_LENGTH
    BY PaymentFits, CallFits DEF EncodingInv
  <2> QED BY <2>1, <1>1 DEF encode_tx, EncodingInv, NeverFails
<1>2. CASE encode_tx_replace_signature
  <2>1. SignatureOffset + Bin(SIGNATURE_LENGTH) = 71
    BY DEF SignatureOffset, FixedMap, Str, Bin, SIGNATURE_LENGTH
  <2> QED BY <2>1, <1>2 DEF encode_tx_replace_signature, EncodingInv, NeverFails
<1>3. CASE UNCHANGED vars
  BY <1>3 DEF vars, EncodingInv, NeverFails
<1> QED BY <1>1, <1>2, <1>3 DEF Next

(* Whatever the note, the arguments and the integers, a transaction that   *)
(* transaction_pay or transaction_appl accepts is encoded and signed in    *)
(* the payload it is given: encode_tx (algorand_transaction.c:76-250) does *)
(* not fail and encode_tx_replace_signature (27-74) finds the signature.   *)
THEOREM EncodingNeverFails ==
  ASSUME DefaultSizes
  PROVE  Spec => []NeverFails
<1>1. EncodingInv => NeverFails
  BY DEF EncodingInv
<1> QED BY <1>1, InitEncoding, StepEncoding, PTL DEF Spec
-----------------------------------------------------------------------------
(* A key after those written before it: one more entry if it is written,   *)
(* and in order if it comes after them all.                                *)
Ordered(s) == \A i, j \in 1 .. Len(s) : i < j => Before(s[i], s[j])
OrderedOf(s, K) == s \in Seq(K) /\ Ordered(s)
AllBefore(K, key) == \A k \in K : Before(k, key)
Entries(t, key) == IF IsWritten(t, key) THEN 1 ELSE 0

LEMMA WriteIsOrdered ==
  ASSUME NEW t, NEW K, NEW key, NEW s, OrderedOf(s, K), AllBefore(K, key)
  PROVE  /\ OrderedOf(s \o Written(t, key), K \cup {key})
         /\ Len(s \o Written(t, key)) = Len(s) + Entries(t, key)
<1>0. s \in Seq(K) /\ Ordered(s) /\ (\A k \in K : Before(k, key))
  BY DEF OrderedOf, AllBefore
<1>1. Len(s) \in Nat /\ (\A i \in 1 .. Len(s) : s[i] \in K)
  BY <1>0
<1>2. CASE ~IsWritten(t, key)
  <2>1. Written(t, key) = << >>
    BY <1>2 DEF Written
  <2>2. s \o << >> = s
    BY <1>0
  <2>3. s \in Seq(K \cup {key})
    BY <1>0
  <2> QED BY <1>0, <1>1, <1>2, <2>1, <2>2, <2>3 DEF OrderedOf, Entries
<1>3. CASE IsWritten(t, key)
  <2>1. Written(t, key) = << key >>
    BY <1>3 DEF Written
  <2>2. s \in Seq(K \cup {key}) /\ << key >> \in Seq(K \cup {key})
    BY <1>0
  <2>3. /\ s \o << key >> \in Seq(K \cup {key})
        /\ Len(s \o << key >>) = Len(s) + 1
        /\ \A i \in 1 .. Len(s) : (s \o << key >>)[i] = s[i]
        /\ (s \o << key >>)[Len(s) + 1] = key
    BY <2>2
  <2>4. Ordered(s \o << key >>)
    <3> SUFFICES ASSUME NEW i \in 1 .. Len(s) + 1, NEW j \in 1 .. Len(s) + 1, i < j
                 PROVE  Before((s \o << key >>)[i], (s \o << key >>)[j])
      BY <2>3 DEF Ordered
    <3>1. i \in 1 .. Len(s) /\ (s \o << key >>)[i] = s[i]
      BY <1>1, <2>3
    <3>2. CASE j = Len(s) + 1
      BY <1>0, <1>1, <2>3, <3>1, <3>2
    <3>3. CASE j # Len(s) + 1
      <4>1. j \in 1 .. Len(s) /\ (s \o << key >>)[j] = s[j]
        BY <1>1, <2>3, <3>3
      <4> QED BY <1>0, <3>1, <4>1 DEF Ordered
    <3> QED BY <3>2, <3>3
  <2> QED BY <1>3, <2>1, <2>3, <2>4 DEF OrderedOf, Entries
<1> QED BY <1>2, <1>3

(* Keys whose first letters differ are in the order of these; the others   *)
(* are compared up to the letter that differs.                             *)
LEMMA FirstLetters ==
  /\ Letters["amt"][1] = 1 /\ Letters["apaa"][1] = 1 /\ Letters["apan"][1] = 1
  /\ Letters["apid"][1] = 1 /\ Letters["fee"][1] = 6 /\ Letters["fv"][1] = 6
  /\ Letters["gen"][1] = 7 /\ Letters["gh"][1] = 7 /\ Letters["lv"][1] = 12
  /\ Letters["note"][1] = 14 /\ Letters["rcv"][1] = 18 /\ Letters["snd"][1] = 19
  /\ Letters["type"][1] = 20
  BY DEF Letters

LEMMA FirstDiffers ==
  ASSUME NEW k, NEW l, Letters[k][1] < Letters[l][1], Len(Letters[l]) \in Nat \ {0}
  PROVE  Before(k, l)
<1> DEFINE first == 1
<1>1. first \in 1 .. Len(Letters[l]) /\ (\A j \in 1 .. first - 1 : FALSE)
  OBVIOUS
<1> QED BY <1>1 DEF Before

LEMMA SomeLetters ==
  /\ Len(Letters["amt"]) \in Nat \ {0}
  /\ Len(Letters["apaa"]) \in Nat \ {0}
  /\ Len(Letters["apan"]) \in Nat \ {0}
  /\ Len(Letters["apid"]) \in Nat \ {0}
  /\ Len(Letters["fee"]) \in Nat \ {0}
  /\ Len(Letters["fv"]) \in Nat \ {0}
  /\ Len(Letters["gen"]) \in Nat \ {0}
  /\ Len(Letters["gh"]) \in Nat \ {0}
  /\ Len(Letters["lv"]) \in Nat \ {0}
  /\ Len(Letters["note"]) \in Nat \ {0}
  /\ Len(Letters["rcv"]) \in Nat \ {0}
  /\ Len(Letters["snd"]) \in Nat \ {0}
  /\ Len(Letters["type"]) \in Nat \ {0}
  BY DEF Letters

LEMMA SameFirstLetter ==
  /\ Before("amt", "apaa")
  /\ Before("amt", "apan")
  /\ Before("amt", "apid")
  /\ Before("apaa", "apan")
  /\ Before("apaa", "apid")
  /\ Before("apan", "apid")
  /\ Before("fee", "fv")
  /\ Before("gen", "gh")
<1>1. Before("amt", "apaa")
  <2>1. /\ 2 \in 1 .. Len(Letters["apaa"])
        /\ \A j \in 1 .. 2 - 1 : j <= Len(Letters["amt"]) /\ Letters["amt"][j] = Letters["apaa"][j]
        /\ Letters["amt"][2] < Letters["apaa"][2]
    BY DEF Letters
  <2> QED BY <2>1 DEF Before
<1>2. Before("amt", "apan")
  <2>1. /\ 2 \in 1 .. Len(Letters["apan"])
        /\ \A j \in 1 .. 2 - 1 : j <= Len(Letters["amt"]) /\ Letters["amt"][j] = Letters["apan"][j]
        /\ Letters["amt"][2] < Letters["apan"][2]
    BY DEF Letters
  <2> QED BY <2>1 DEF Before
<1>3. Before("amt", "apid")
  <2>1. /\ 2 \in 1 .. Len(Letters["apid"])
        /\ \A j \in 1 .. 2 - 1 : j <= Len(Letters["amt"]) /\ Letters["amt"][j] = Letters["apid"][j]
        /\ Letters["amt"][2] < Letters["apid"][2]
    BY DEF Letters
  <2> QED BY <2>1 DEF Before
<1>4. Before("apaa", "apan")
  <2>1. /\ 4 \in 1 .. Len(Letters["apan"])
        /\ \A j \in 1 .. 4 - 1 : j <= Len(Letters["apaa"]) /\ Letters["apaa"][j] = Letters["apan"][j]
        /\ Letters["apaa"][4] < Letters["apan"][4]
    BY DEF Letters
  <2> QED BY <2>1 DEF Before
<1>5. Before("apaa", "apid")
  <2>1. /\ 3 \in 1 .. Len(Letters["apid"])
        /\ \A j \in 1 .. 3 - 1 : j <= Len(Letters["apaa"]) /\ Letters["apaa"][j] = Letters["apid"][j]
        /\ Letters["apaa"][3] < Letters["apid"][3]
    BY DEF Letters
  <2> QED BY <2>1 DEF Before
<1>6. Before("apan", "apid")
  <2>1. /\ 3 \in 1 .. Len(Letters["apid"])
        /\ \A j \in 1 .. 3 - 1 : j <= Len(Letters["apan"]) /\ Letters["apan"][j] = Letters["apid"][j]
        /\ Letters["apan"][3] < Letters["apid"][3]
    BY DEF Letters
  <2> QED BY <2>1 DEF Before
<1>7. Before("fee", "fv")
  <2>1. /\ 2 \in 1 .. Len(Letters["fv"])
        /\ \A j \in 1 .. 2 - 1 : j <= Len(Letters["fee"]) /\ Letters["fee"][j] = Letters["fv"][j]
        /\ Letters["fee"][2] < Letters["fv"][2]
    BY DEF Letters
  <2> QED BY <2>1 DEF Before
<1>8. Before("gen", "gh")
  <2>1. /\ 2 \in 1 .. Len(Letters["gh"])
        /\ \A j \in 1 .. 2 - 1 : j <= Len(Letters["gen"]) /\ Letters["gen"][j] = Letters["gh"][j]
        /\ Letters["gen"][2] < Letters["gh"][2]
    BY DEF Letters
  <2> QED BY <2>1 DEF Before
<1> QED BY <1>1, <1>2, <1>3, <1>4, <1>5, <1>6, <1>7, <1>8

(* Every key comes after those written before it. *)
LEMMA KeysInOrder ==
  /\ AllBefore({"amt"}, "apaa")
  /\ AllBefore({"amt", "apaa"}, "apan")
  /\ AllBefore({"amt", "apaa", "apan"}, "apid")
  /\ AllBefore({"amt", "apaa", "apan", "apid"}, "fee")
  /\ AllBefore({"amt", "apaa", "apan", "apid", "fee"}, "fv")
  /\ AllBefore({"amt", "apaa", "apan", "apid", "fee", "fv"}, "gen")
  /\ AllBefore({"amt", "apaa", "apan", "apid", "fee", "fv", "gen"}, "gh")
  /\ AllBefore({"amt", "apaa", "apan", "apid", "fee", "fv", "gen", "gh"}, "lv")
  /\ AllBefore({"amt", "apaa", "apan", "apid", "fee", "fv", "gen", "gh", "lv"}, "note")
  /\ AllBefore({"amt", "apaa", "apan", "apid", "fee", "fv", "gen", "gh", "lv", "note"}, "rcv")
  /\ AllBefore({"amt", "apaa", "apan", "apid", "fee", "fv", "gen", "gh", "lv", "note", "rcv"}, "snd")
  /\ AllBefore({"amt", "apaa", "apan", "apid", "fee", "fv", "gen", "gh", "lv", "note", "rcv", "snd"}, "type")
<1>1. AllBefore({"amt"}, "apaa")
  BY SameFirstLetter DEF AllBefore
<1>2. AllBefore({"amt", "apaa"}, "apan")
  BY SameFirstLetter DEF AllBefore
<1>3. AllBefore({"amt", "apaa", "apan"}, "apid")
  BY SameFirstLetter DEF AllBefore
<1>4. AllBefore({"amt", "apaa", "apan", "apid"}, "fee")
  <2>1. \A k \in {"amt", "apaa", "apan", "apid"} : Letters[k][1] < Letters["fee"][1]
    BY FirstLetters
  <2>2. \A k \in {"amt", "apaa", "apan", "apid"} : Before(k, "fee")
    BY <2>1, FirstDiffers, SomeLetters
  <2> QED BY <2>2 DEF AllBefore
<1>5. AllBefore({"amt", "apaa", "apan", "apid", "fee"}, "fv")
  <2>1. \A k \in {"amt", "apaa", "apan", "apid"} : Letters[k][1] < Letters["fv"][1]
    BY FirstLetters
  <2>2. \A k \in {"amt", "apaa", "apan", "apid"} : Before(k, "fv")
    BY <2>1, FirstDiffers, SomeLetters
  <2> QED BY <2>2, SameFirstLetter DEF AllBefore
<1>6. AllBefore({"amt", "apaa", "apan", "apid", "fee", "fv"}, "gen")
  <2>1. \A k \in {"amt", "apaa", "apan", "apid", "fee", "fv"} : Letters[k][1] < Letters["gen"][1]
    BY FirstLetters
  <2>2. \A k \in {"amt", "apaa", "apan", "apid", "fee", "fv"} : Before(k, "gen")
    BY <2>1, FirstDiffers, SomeLetters
  <2> QED BY <2>2 DEF AllBefore
<1>7. AllBefore({"amt", "apaa", "apan", "apid", "fee", "fv", "gen"}, "gh")
  <2>1. \A k \in {"amt", "apaa", "apan", "apid", "fee", "fv"} : Letters[k][1] < Letters["gh"][1]
    BY FirstLetters
  <2>2. \A k \in {"amt", "apaa", "apan", "apid", "fee", "fv"} : Before(k, "gh")
    BY <2>1, FirstDiffers, SomeLetters
  <2> QED BY <2>2, SameFirstLetter DEF AllBefore
<1>8. AllBefore({"amt", "apaa", "apan", "apid", "fee", "fv", "gen", "gh"}, "lv")
  <2>1. \A k \in {"amt", "apaa", "apan", "apid", "fee", "fv", "gen", "gh"} : Letters[k][1] < Letters["lv"][1]
    BY FirstLetters
  <2>2. \A k \in {"amt", "apaa", "apan", "apid", "fee", "fv", "gen", "gh"} : Before(k, "lv")
    BY <2>1, FirstDiffers, SomeLetters
  <2> QED BY <2>2 DEF AllBefore
<1>9. AllBefore({"amt", "apaa", "apan", "apid", "fee", "fv", "gen", "gh", "lv"}, "note")
  <2>1. \A k \in {"amt", "apaa", "apan", "apid", "fee", "fv", "gen", "gh", "lv"} : Letters[k][1] < Letters["note"][1]
    BY FirstLetters
  <2>2. \A k \in {"amt", "apaa", "apan", "apid", "fee", "fv", "gen", "gh", "lv"} : Before(k, "note")
    BY <2>1, FirstDiffers, SomeLetters
  <2> QED BY <2>2 DEF AllBefore
<1>10. AllBefore({"amt", "apaa", "apan", "apid", "fee", "fv", "gen", "gh", "lv", "note"}, "rcv")
  <2>1. \A k \in {"amt", "apaa", "apan", "apid", "fee", "fv", "gen", "gh", "lv", "note"} : Letters[k][1] < Letters["rcv"][1]
    BY FirstLetters
  <2>2. \A k \in {"amt", "apaa", "apan", "apid", "fee", "fv", "gen", "gh", "lv", "note"} : Before(k, "rcv")
    BY <2>1, FirstDiffers, SomeLetters
  <2> QED BY <2>2 DEF AllBefore
<1>11. AllBefore({"amt", "apaa", "apan", "apid", "fee", "fv", "gen", "gh", "lv", "note", "rcv"}, "snd")
  <2>1. \A k \in {"amt", "apaa", "apan", "apid", "fee", "fv", "gen", "gh", "lv", "note", "rcv"} : Letters[k][1] < Letters["snd"][1]
    BY FirstLetters
  <2>2. \A k \in {"amt", "apaa", "apan", "apid", "fee", "fv", "gen", "gh", "lv", "note", "rcv"} : Before(k, "snd")
    BY <2>1, FirstDiffers, SomeLetters
  <2> QED BY <2>2 DEF AllBefore
<1>12. AllBefore({"amt", "apaa", "apan", "apid", "fee", "fv", "gen", "gh", "lv", "note", "rcv", "snd"}, "type")
  <2>1. \A k \in {"amt", "apaa", "apan", "apid", "fee", "fv", "gen", "gh", "lv", "note", "rcv", "snd"} : Letters[k][1] < Letters["type"][1]
    BY FirstLetters
  <2>2. \A k \in {"amt", "apaa", "apan", "apid", "fee", "fv", "gen", "gh", "lv", "note", "rcv", "snd"} : Before(k, "type")
    BY <2>1, FirstDiffers, SomeLetters
  <2> QED BY <2>2 DEF AllBefore
<1> QED BY <1>1, <1>2, <1>3, <1>4, <1>5, <1>6, <1>7, <1>8, <1>9, <1>10, <1>11, <1>12

(* encode_tx writes the keys in their order, each at most once. *)
LEMMA KeysAreOrdered ==
  ASSUME NEW t
  PROVE  /\ Ordered(KeysWritten(t))
         /\ Len(KeysWritten(t)) =
              Entries(t, "amt")
            + Entries(t, "apaa")
            + Entries(t, "apan")
            + Entries(t, "apid")
            + Entries(t, "fee")
            + Entries(t, "fv")
            + Entries(t, "gen")
            + Entries(t, "gh")
            + Entries(t, "lv")
            + Entries(t, "note")
            + Entries(t, "rcv")
            + Entries(t, "snd")
            + Entries(t, "type")
<1> DEFINE s1 == Written(t, "amt")
           s2 == s1 \o Written(t, "apaa")
           s3 == s2 \o Written(t, "apan")
           s4 == s3 \o Written(t, "apid")
           s5 == s4 \o Written(t, "fee")
           s6 == s5 \o Written(t, "fv")
           s7 == s6 \o Written(t, "gen")
           s8 == s7 \o Written(t, "gh")
           s9 == s8 \o Written(t, "lv")
           s10 == s9 \o Written(t, "note")
           s11 == s10 \o Written(t, "rcv")
           s12 == s11 \o Written(t, "snd")
           s13 == s12 \o Written(t, "type")
<1>1. OrderedOf(s1, {"amt"}) /\ Len(s1) = Entries(t, "amt")
  <2>1. << >> \in Seq({"amt"}) /\ << "amt" >> \in Seq({"amt"})
    OBVIOUS
  <2>2. s1 \in Seq({"amt"}) /\ Len(s1) \in 0 .. 1 /\ Len(s1) = Entries(t, "amt")
    <3>1. CASE IsWritten(t, "amt")
      <4>1. s1 = << "amt" >> /\ Entries(t, "amt") = 1
        BY <3>1 DEF Written, Entries
      <4>2. Len(<< "amt" >>) = 1
        OBVIOUS
      <4> QED BY <2>1, <4>1, <4>2
    <3>2. CASE ~IsWritten(t, "amt")
      <4>1. s1 = << >> /\ Entries(t, "amt") = 0
        BY <3>2 DEF Written, Entries
      <4>2. Len(<< >>) = 0
        OBVIOUS
      <4>3. s1 \in Seq({"amt"})
        BY <2>1, <4>1
      <4> HIDE DEF s1
      <4> QED BY <4>1, <4>2, <4>3
    <3> QED BY <3>1, <3>2
  <2>3. Ordered(s1)
    <3> HIDE DEF s1
    <3> QED BY <2>2 DEF Ordered
  <2> QED BY <2>2, <2>3 DEF OrderedOf
<1>2. OrderedOf(s2, {"amt", "apaa"}) /\ Len(s2) = Len(s1) + Entries(t, "apaa")
  <2> HIDE DEF s1
  <2>1. AllBefore({"amt"}, "apaa")
    BY KeysInOrder
  <2>2. /\ OrderedOf(s1 \o Written(t, "apaa"), {"amt"} \cup {"apaa"})
        /\ Len(s1 \o Written(t, "apaa")) = Len(s1) + Entries(t, "apaa")
    BY <1>1, <2>1, WriteIsOrdered
  <2>3. {"amt"} \cup {"apaa"} = {"amt", "apaa"}
    OBVIOUS
  <2> QED BY <2>2, <2>3
<1>3. OrderedOf(s3, {"amt", "apaa", "apan"}) /\ Len(s3) = Len(s2) + Entries(t, "apan")
  <2> HIDE DEF s2
  <2>1. AllBefore({"amt", "apaa"}, "apan")
    BY KeysInOrder
  <2>2. /\ OrderedOf(s2 \o Written(t, "apan"), {"amt", "apaa"} \cup {"apan"})
        /\ Len(s2 \o Written(t, "apan")) = Len(s2) + Entries(t, "apan")
    BY <1>2, <2>1, WriteIsOrdered
  <2>3. {"amt", "apaa"} \cup {"apan"} = {"amt", "apaa", "apan"}
    OBVIOUS
  <2> QED BY <2>2, <2>3
<1>4. OrderedOf(s4, {"amt", "apaa", "apan", "apid"}) /\ Len(s4) = Len(s3) + Entries(t, "apid")
  <2> HIDE DEF s3
  <2>1. AllBefore({"amt", "apaa", "apan"}, "apid")
    BY KeysInOrder
  <2>2. /\ OrderedOf(s3 \o Written(t, "apid"), {"amt", "apaa", "apan"} \cup {"apid"})
        /\ Len(s3 \o Written(t, "apid")) = Len(s3) + Entries(t, "apid")
    BY <1>3, <2>1, WriteIsOrdered
  <2>3. {"amt", "apaa", "apan"} \cup {"apid"} = {"amt", "apaa", "apan", "apid"}
    OBVIOUS
  <2> QED BY <2>2, <2>3
<1>5. OrderedOf(s5, {"amt", "apaa", "apan", "apid", "fee"}) /\ Len(s5) = Len(s4) + Entries(t, "fee")
  <2> HIDE DEF s4
  <2>1. AllBefore({"amt", "apaa", "apan", "apid"}, "fee")
    BY KeysInOrder
  <2>2. /\ OrderedOf(s4 \o Written(t, "fee"), {"amt", "apaa", "apan", "apid"} \cup {"fee"})
        /\ Len(s4 \o Written(t, "fee")) = Len(s4) + Entries(t, "fee")
    BY <1>4, <2>1, WriteIsOrdered
  <2>3. {"amt", "apaa", "apan", "apid"} \cup {"fee"} = {"amt", "apaa", "apan", "apid", "fee"}
    OBVIOUS
  <2> QED BY <2>2, <2>3
<1>6. OrderedOf(s6, {"amt", "apaa", "apan", "apid", "fee", "fv"}) /\ Len(s6) = Len(s5) + Entries(t, "fv")
  <2> HIDE DEF s5
  <2>1. AllBefore({"amt", "apaa", "apan", "apid", "fee"}, "fv")
    BY KeysInOrder
  <2>2. /\ OrderedOf(s5 \o Written(t, "fv"), {"amt", "apaa", "apan", "apid", "fee"} \cup {"fv"})
        /\ Len(s5 \o Written(t, "fv")) = Len(s5) + Entries(t, "fv")
    BY <1>5, <2>1, WriteIsOrdered
  <2>3. {"amt", "apaa", "apan", "apid", "fee"} \cup {"fv"} = {"amt", "apaa", "apan", "apid", "fee", "fv"}
    OBVIOUS
  <2> QED BY <2>2, <2>3
<1>7. OrderedOf(s7, {"amt", "apaa", "apan", "apid", "fee", "fv", "gen"}) /\ Len(s7) = Len(s6) + Entries(t, "gen")
  <2> HIDE DEF s6
  <2>1. AllBefore({"amt", "apaa", "apan", "apid", "fee", "fv"}, "gen")
    BY KeysInOrder
  <2>2. /\ OrderedOf(s6 \o Written(t, "gen"), {"amt", "apaa", "apan", "apid", "fee", "fv"} \cup {"gen"})
        /\ Len(s6 \o Written(t, "gen")) = Len(s6) + Entries(t, "gen")
    BY <1>6, <2>1, WriteIsOrdered
  <2>3. {"amt", "apaa", "apan", "apid", "fee", "fv"} \cup {"gen"} = {"amt", "apaa", "apan", "apid", "fee", "fv", "gen"}
    OBVIOUS
  <2> QED BY <2>2, <2>3
<1>8. OrderedOf(s8, {"amt", "apaa", "apan", "apid", "fee", "fv", "gen", "gh"}) /\ Len(s8) = Len(s7) + Entries(t, "gh")
  <2> HIDE DEF s7
  <2>1. AllBefore({"amt", "apaa", "apan", "apid", "fee", "fv", "gen"}, "gh")
    BY KeysInOrder
  <2>2. /\ OrderedOf(s7 \o Written(t, "gh"), {"amt", "apaa", "apan", "apid", "fee", "fv", "gen"} \cup {"gh"})
        /\ Len(s7 \o Written(t, "gh")) = Len(s7) + Entries(t, "gh")
    BY <1>7, <2>1, WriteIsOrdered
  <2>3. {"amt", "apaa", "apan", "apid", "fee", "fv", "gen"} \cup {"gh"} = {"amt", "apaa", "apan", "apid", "fee", "fv", "gen", "gh"}
    OBVIOUS
  <2> QED BY <2>2, <2>3
<1>9. OrderedOf(s9, {"amt", "apaa", "apan", "apid", "fee", "fv", "gen", "gh", "lv"}) /\ Len(s9) = Len(s8) + Entries(t, "lv")
  <2> HIDE DEF s8
  <2>1. AllBefore({"amt", "apaa", "apan", "apid", "fee", "fv", "gen", "gh"}, "lv")
    BY KeysInOrder
  <2>2. /\ OrderedOf(s8 \o Written(t, "lv"), {"amt", "apaa", "apan", "apid", "fee", "fv", "gen", "gh"} \cup {"lv"})
        /\ Len(s8 \o Written(t, "lv")) = Len(s8) + Entries(t, "lv")
    BY <1>8, <2>1, WriteIsOrdered
  <2>3. {"amt", "apaa", "apan", "apid", "fee", "fv", "gen", "gh"} \cup {"lv"} = {"amt", "apaa", "apan", "apid", "fee", "fv", "gen", "gh", "lv"}
    OBVIOUS
  <2> QED BY <2>2, <2>3
<1>10. OrderedOf(s10, {"amt", "apaa", "apan", "apid", "fee", "fv", "gen", "gh", "lv", "note"}) /\ Len(s10) = Len(s9) + Entries(t, "note")
  <2> HIDE DEF s9
  <2>1. AllBefore({"amt", "apaa", "apan", "apid", "fee", "fv", "gen", "gh", "lv"}, "note")
    BY KeysInOrder
  <2>2. /\ OrderedOf(s9 \o Written(t, "note"), {"amt", "apaa", "apan", "apid", "fee", "fv", "gen", "gh", "lv"} \cup {"note"})
        /\ Len(s9 \o Written(t, "note")) = Len(s9) + Entries(t, "note")
    BY <1>9, <2>1, WriteIsOrdered
  <2>3. {"amt", "apaa", "apan", "apid", "fee", "fv", "gen", "gh", "lv"} \cup {"note"} = {"amt", "apaa", "apan", "apid", "fee", "fv", "gen", "gh", "lv", "note"}
    OBVIOUS
  <2> QED BY <2>2, <2>3
<1>11. OrderedOf(s11, {"amt", "apaa", "apan", "apid", "fee", "fv", "gen", "gh", "lv", "note", "rcv"}) /\ Len(s11) = Len(s10) + Entries(t, "rcv")
  <2> HIDE DEF s10
  <2>1. AllBefore({"amt", "apaa", "apan", "apid", "fee", "fv", "gen", "gh", "lv", "note"}, "rcv")
    BY KeysInOrder
  <2>2. /\ OrderedOf(s10 \o Written(t, "rcv"), {"amt", "apaa", "apan", "apid", "fee", "fv", "gen", "gh", "lv", "note"} \cup {"rcv"})
        /\ Len(s10 \o Written(t, "rcv")) = Len(s10) + Entries(t, "rcv")
    BY <1>10, <2>1, WriteIsOrdered
  <2>3. {"amt", "apaa", "apan", "apid", "fee", "fv", "gen", "gh", "lv", "note"} \cup {"rcv"} = {"amt", "apaa", "apan", "apid", "fee", "fv", "gen", "gh", "lv", "note", "rcv"}
    OBVIOUS
  <2> QED BY <2>2, <2>3
<1>12. OrderedOf(s12, {"amt", "apaa", "apan", "apid", "fee", "fv", "gen", "gh", "lv", "note", "rcv", "snd"}) /\ Len(s12) = Len(s11) + Entries(t, "snd")
  <2> HIDE DEF s11
  <2>1. AllBefore({"amt", "apaa", "apan", "apid", "fee", "fv", "gen", "gh", "lv", "note", "rcv"}, "snd")
    BY KeysInOrder
  <2>2. /\ OrderedOf(s11 \o Written(t, "snd"), {"amt", "apaa", "apan", "apid", "fee", "fv", "gen", "gh", "lv", "note", "rcv"} \cup {"snd"})
        /\ Len(s11 \o Written(t, "snd")) = Len(s11) + Entries(t, "snd")
    BY <1>11, <2>1, WriteIsOrdered
  <2>3. {"amt", "apaa", "apan", "apid", "fee", "fv", "gen", "gh", "lv", "note", "rcv"} \cup {"snd"} = {"amt", "apaa", "apan", "apid", "fee", "fv", "gen", "gh", "lv", "note", "rcv", "snd"}
    OBVIOUS
  <2> QED BY <2>2, <2>3
<1>13. OrderedOf(s13, {"amt", "apaa", "apan", "apid", "fee", "fv", "gen", "gh", "lv", "note", "rcv", "snd", "type"}) /\ Len(s13) = Len(s12) + Entries(t, "type")
  <2> HIDE DEF s12
  <2>1. AllBefore({"amt", "apaa", "apan", "apid", "fee", "fv", "gen", "gh", "lv", "note", "rcv", "snd"}, "type")
    BY KeysInOrder
  <2>2. /\ OrderedOf(s12 \o Written(t, "type"), {"amt", "apaa", "apan", "apid", "fee", "fv", "gen", "gh", "lv", "note", "rcv", "snd"} \cup {"type"})
        /\ Len(s12 \o Written(t, "type")) = Len(s12) + Entries(t, "type")
    BY <1>12, <2>1, WriteIsOrdered
  <2>3. {"amt", "apaa", "apan", "apid", "fee", "fv", "gen", "gh", "lv", "note", "rcv", "snd"} \cup {"type"} = {"amt", "apaa", "apan", "apid", "fee", "fv", "gen", "gh", "lv", "note", "rcv", "snd", "type"}
    OBVIOUS
  <2> QED BY <2>2, <2>3
<1>14. KeysWritten(t) = s13
  BY DEF KeysWritten
<1>15. Len(s13) = Entries(t, "amt") + Entries(t, "apaa") + Entries(t, "apan") + Entries(t, "apid") + Entries(t, "fee") + Entries(t, "fv") + Entries(t, "gen")
                   + Entries(t, "gh") + Entries(t, "lv") + Entries(t, "note") + Entries(t, "rcv") + Entries(t, "snd") + Entries(t, "type")
  <2> HIDE DEF s1, s2, s3, s4, s5, s6, s7, s8, s9, s10, s11, s12, s13
  <2> QED BY <1>1, <1>2, <1>3, <1>4, <1>5, <1>6, <1>7, <1>8, <1>9, <1>10, <1>11, <1>12, <1>13
<1> HIDE DEF s13
<1> QED BY <1>13, <1>14, <1>15 DEF OrderedOf

(* The number declared is the number of the writes. *)
LEMMA CountOfKeys ==
  ASSUME NEW t \in Payment \cup Call
  PROVE  txn_map_element_count(t) = Len(KeysWritten(t))
<1>1. /\ Entries(t, "fee") = 1 /\ Entries(t, "fv") = 1 /\ Entries(t, "gen") = 1
      /\ Entries(t, "gh") = 1 /\ Entries(t, "lv") = 1 /\ Entries(t, "snd") = 1
      /\ Entries(t, "type") = 1
      /\ Entries(t, "note") = IF t.note # NULL THEN 1 ELSE 0
  BY DEF Entries, IsWritten
<1>2. CASE t \in Payment
  <2>1. t.type = "pay"
    BY <1>2 DEF Payment
  <2>2. /\ Entries(t, "amt") = 1 /\ Entries(t, "rcv") = 1 /\ Entries(t, "apaa") = 0
        /\ Entries(t, "apan") = 0 /\ Entries(t, "apid") = 0
    BY <2>1 DEF Entries, IsWritten
  <2>3. txn_map_element_count(t) = 9 + Entries(t, "note")
    BY <1>1, <2>1 DEF txn_map_element_count
  <2>4. Entries(t, "note") \in 0 .. 1
    BY <1>1
  <2>5. Len(KeysWritten(t)) = 9 + Entries(t, "note")
    BY <1>1, <2>2, <2>4, KeysAreOrdered
  <2> QED BY <2>3, <2>5
<1>3. CASE t \in Call
  <2>1. t.type = "appl" /\ t.opt_in \in BOOLEAN /\ t.note = NULL
    BY <1>3 DEF Call
  <2>2. /\ Entries(t, "amt") = 0 /\ Entries(t, "rcv") = 0 /\ Entries(t, "apid") = 1
        /\ Entries(t, "apaa") = IF t.args # << >> THEN 1 ELSE 0
        /\ Entries(t, "apan") = IF t.opt_in THEN 1 ELSE 0
    BY <2>1 DEF Entries, IsWritten
  <2>3. Entries(t, "note") = 0
    BY <1>1, <2>1
  <2>4. Entries(t, "apaa") \in 0 .. 1 /\ Entries(t, "apan") \in 0 .. 1
    BY <2>2
  <2>5. txn_map_element_count(t) = 8 + Entries(t, "apan") + Entries(t, "apaa")
    BY <2>1, <2>2, <2>4 DEF txn_map_element_count
  <2>6. Len(KeysWritten(t)) = 8 + Entries(t, "apan") + Entries(t, "apaa")
    BY <1>1, <2>2, <2>3, <2>4, KeysAreOrdered
  <2> QED BY <2>5, <2>6
<1> QED BY <1>2, <1>3

(* The transaction is never another than the one accepted. *)
LEMMA TransactionStays == Spec => [](tx \in Payment \cup Call)
<1>1. Init => tx \in Payment \cup Call
  BY DEF Init
<1>2. tx \in Payment \cup Call /\ [Next]_vars => (tx \in Payment \cup Call)'
  BY DEF Next, vars, encode_tx, encode_tx_replace_signature
<1> QED BY <1>1, <1>2, PTL DEF Spec

(* The map of the body has as many entries as its header declares, for     *)
(* every transaction that is accepted (algorand_transaction.c:98-125: the  *)
(* count is worked out apart from the writes).                             *)
THEOREM DeclaredIsWritten == Spec => []CountIsRight
<1>1. tx \in Payment \cup Call => CountIsRight
  BY CountOfKeys DEF CountIsRight
<1> QED BY <1>1, TransactionStays, PTL

(* The keys of the body are in the order of their letters, and so none is  *)
(* written twice, as a canonical encoding demands                          *)
(* (algorand_transaction.c:127-230).                                       *)
THEOREM EncodingKeepsKeyOrder == Spec => []KeysAscend
<1>1. KeysAscend
  BY KeysAreOrdered DEF KeysAscend, Ordered
<1> QED BY <1>1, PTL
=============================================================================
