------------------------------- MODULE Codecs -------------------------------
(***************************************************************************)
(* Keys, hashes and seeds as text: b32_encode and b32_decode               *)
(* (src/src/utils/base32.c), b64_encode and b64_decode (base64.c),         *)
(* b2048_encode (base2048.c) and the mnemonics (src/src/mnemonic.c), loop  *)
(* by loop, with the calls of vertices.c, account.c and the provider that  *)
(* use them.                                                               *)
(*                                                                         *)
(* Bytes, characters and words are sequences of bits, and an integer that  *)
(* bits are shifted through is the sequence of those that are still to be  *)
(* used, in the order in which they are: what an int drops at its upper    *)
(* end is never used.  Base 32 and base 64 use the high bit of a byte      *)
(* first, mnemonics the low one.                                           *)
(***************************************************************************)
EXTENDS Integers, Sequences

CONSTANTS ADDRESS_LENGTH,      \* bytes of a public key, 32 in the code
          CHECKSUM_LENGTH,     \* bytes of its checksum, 4
          ADDRESS_STR_LENGTH,  \* characters of an address, 58
          SEED_LENGTH,         \* bytes of a seed, 32
          SEED_WORDS,          \* words of a mnemonic without its checksum, 24
          Digest(_),           \* SHA-512/256 of bytes
          Key, Seed,           \* keys and seeds clients have
          Address,             \* what clients give as an address
          Value, Text,         \* what is encoded in base 64, and what else is decoded
          Capacity,            \* sizes of the buffers for decoded values
          Phrase               \* what clients give as a mnemonic

BYTE == 8
DIGIT32 == 5
DIGIT64 == 6
WORD == 11
Bits(width) == [1 .. width -> {0, 1}]

Zeros(n) == [i \in 1 .. n |-> 0]
Widened(s, width) == s \o Zeros(width - Len(s))
FromNext(s, n) == SubSeq(s, n + 1, Len(s))      \* mutant: a bit more is used up
From(s, n) == SubSeq(s, n, Len(s))
Smaller(a, b) == IF a < b THEN a ELSE b

Char(bits) == [kind |-> "digit", bits |-> bits]
Pad == [kind |-> "=", bits |-> <<>>]
Blank == [kind |-> "blank", bits |-> <<>>]
Invalid == [kind |-> "invalid", bits |-> <<>>]
Pads(n) == [i \in 1 .. n |-> Pad]
Character == [kind : {"digit", "=", "blank", "invalid"}, bits : Seq({0, 1})]

ASSUME LengthAssumption ==
  /\ ADDRESS_LENGTH \in Nat /\ CHECKSUM_LENGTH \in Nat /\ ADDRESS_STR_LENGTH \in Nat
  /\ ADDRESS_STR_LENGTH * DIGIT32 >= (ADDRESS_LENGTH + CHECKSUM_LENGTH) * BYTE

ASSUME KeyAssumption ==
  /\ Key \subseteq [1 .. ADDRESS_LENGTH -> Bits(BYTE)]
  /\ \A key \in Key : Digest(key) \in Seq(Bits(BYTE)) /\ Len(Digest(key)) >= CHECKSUM_LENGTH

(* The words of a seed have a byte more than the seed, so that the last of *)
(* them has 3 bits of it.                                                  *)
ASSUME WordsAssumption ==
  /\ SEED_LENGTH \in Nat \ {0} /\ SEED_WORDS \in Nat
  /\ SEED_WORDS * WORD = (SEED_LENGTH + 1) * BYTE

ASSUME SeedAssumption ==
  /\ Seed \subseteq [1 .. SEED_LENGTH -> Bits(BYTE)]
  /\ \A seed \in Seed : Digest(seed) \in Seq(Bits(BYTE)) /\ Len(Digest(seed)) >= 2

ASSUME CapacityAssumption == Capacity \subseteq Nat

ASSUME TextAssumption ==
  /\ Value \subseteq Seq(Bits(BYTE))
  /\ Text \subseteq Seq(Character) /\ Address \subseteq Seq(Character)

(* A word that is not in the list has no bits. *)
ASSUME PhraseAssumption ==
  \A phrase \in Phrase : phrase.words \in Seq(Bits(WORD) \cup {<<>>})

VARIABLES op, given,     \* the client's call and its argument
          fn,            \* the loop that runs for it
          in, next,      \* its input, and the position of what is used next
          bits,          \* buffer and bitsLeft, val and bits
          out, cap,      \* its output, and the size of the buffer for it
          ret,           \* what the call returned; "exit" if it never does
          got            \* what the call gave its client

loopVars == <<fn, in, next, bits, out, cap>>
vars == <<op, given, loopVars, ret, got>>

Idle == fn = "none" /\ ret = "none"
NoPhrase == [separator |-> "none", words |-> <<>>]
InputLeft == next <= Len(in)

Init ==
  /\ op = "none" /\ given = <<>> /\ fn = "none" /\ in = <<>> /\ next = 1 /\ bits = <<>>
  /\ out = <<>> /\ cap = 0 /\ ret = "none" /\ got = NoPhrase

Loop(f, input, size) ==
  fn' = f /\ in' = input /\ next' = 1 /\ bits' = <<>> /\ out' = <<>> /\ cap' = size

Call(o, argument) ==
  /\ Idle
  /\ op' = o /\ given' = argument /\ ret' = "none" /\ got' = NoPhrase

(* The client is done with what it got. *)
Forget ==
  /\ fn = "none" /\ ret \notin {"none", "exit"}
  /\ op' = "none" /\ given' = <<>> /\ ret' = "none" /\ got' = NoPhrase
  /\ Loop("none", <<>>, 0)

Return(code, value) ==
  /\ ret' = code /\ got' = value /\ fn' = "none"
  /\ UNCHANGED <<op, given, in, next, bits, out, cap>>
-----------------------------------------------------------------------------
(* Base 32: a byte is taken when the buffer has less than a digit, and the *)
(* last digit is filled with zeros.                                        *)
DigitDue == Len(out) < cap /\ (bits # <<>> \/ InputLeft)

b32_encode ==
  /\ fn = "b32_encode" /\ DigitDue
  /\ LET buffer == IF Len(bits) >= DIGIT32 THEN bits
                   ELSE IF InputLeft THEN bits \o in[next]
                   ELSE Widened(bits, DIGIT32)
     IN /\ out' = Append(out, Char(SubSeq(buffer, 1, DIGIT32)))
        /\ bits' = From(buffer, DIGIT32 + 1)
  /\ next' = IF Len(bits) < DIGIT32 /\ InputLeft THEN next + 1 ELSE next
  /\ UNCHANGED <<op, given, fn, in, cap, ret, got>>

(* `=' up to a multiple of 8 characters, as far as there is room *)
Encoded32 == out \o Pads(Smaller((8 - (Len(out) % 8)) % 8, cap - Len(out)))

(* Letters in either case, and the digits 0, 1 and 8 that are mistyped for *)
(* O, L and B, are the digits they stand for.  Another character ends the  *)
(* loop, with an error its only caller ignores.                            *)
Emitted(buffer) ==
  IF Len(buffer) >= BYTE
  THEN out' = Append(out, SubSeq(buffer, 1, BYTE)) /\ bits' = From(buffer, BYTE + 1)
  ELSE out' = out /\ bits' = buffer

CharDue == Len(out) < cap /\ InputLeft /\ in[next].kind \in {"digit", "blank"}

b32_decode ==
  /\ fn = "b32_decode" /\ CharDue
  /\ IF in[next].kind = "blank" THEN UNCHANGED <<out, bits>> ELSE Emitted(bits \o in[next].bits)
  /\ next' = next + 1
  /\ UNCHANGED <<op, given, fn, in, cap, ret, got>>
-----------------------------------------------------------------------------
(* vertices_account_new_from_bin, vertices_s_account_new_from_keys: the    *)
(* key and the last bytes of its digest                                    *)
vertices_account_new_from_bin(key) ==
  /\ Call("from_bin", key)
  /\ Loop("b32_encode",
          key \o From(Digest(key), Len(Digest(key)) - CHECKSUM_LENGTH + 1), ADDRESS_STR_LENGTH)

vertices_account_new_from_b32(public_b32) ==
  /\ Call("from_b32", public_b32)
  /\ Loop("b32_decode", public_b32, ADDRESS_LENGTH + CHECKSUM_LENGTH)

AddressEncoded ==
  /\ fn = "b32_encode" /\ ~DigitDue
  /\ Loop("b32_decode", Encoded32, ADDRESS_LENGTH + CHECKSUM_LENGTH)
  /\ UNCHANGED <<op, given, ret, got>>

(* The checksum is not compared, and what was not decoded is 0. *)
PublicKey == [i \in 1 .. ADDRESS_LENGTH |-> IF i <= Len(out) THEN out[i] ELSE Zeros(BYTE)]

from_b32_init == fn = "b32_decode" /\ ~CharDue /\ Return("SUCCESS", PublicKey)
-----------------------------------------------------------------------------
(* Base 64: three bytes, or the last one or two, become four characters.   *)
b64_encode ==
  /\ fn = "b64_encode" /\ InputLeft
  /\ LET last == Smaller(next + 2, Len(in))
         triple == Widened(in[next] \o (IF next < last THEN in[next + 1] ELSE <<>>)
                                    \o (IF next + 1 < last THEN in[next + 2] ELSE <<>>), 3 * BYTE)
         digits == last - next + 2
     IN out' = out \o [i \in 1 .. digits |->
                         Char(SubSeq(triple, (i - 1) * DIGIT64 + 1, i * DIGIT64))]
                   \o Pads(4 - digits)
  /\ next' = next + 3
  /\ UNCHANGED <<op, given, fn, in, bits, cap, ret, got>>

(* The characters up to the first that is not of the alphabet *)
Digits == {n \in 0 .. Len(in) : /\ \A k \in 1 .. n : in[k].kind = "digit"
                                /\ n = Len(in) \/ in[n + 1].kind # "digit"}
nprbytes == (CHOOSE n \in Digits : TRUE) - (next - 1)

(* What is left of at most four characters: one of them gives nothing.     *)
(* The bits of a character past the last whole byte are dropped.           *)
Decoded(n) ==
  LET sextets == in[next].bits \o (IF n > 1 THEN in[next + 1].bits ELSE <<>>)
                 \o (IF n > 2 THEN in[next + 2].bits ELSE <<>>)
                 \o (IF n > 3 THEN in[next + 3].bits ELSE <<>>)
  IN [i \in 1 .. n - 1 |-> SubSeq(sextets, (i - 1) * BYTE + 1, i * BYTE)]

b64_decode ==
  /\ fn = "b64_decode" /\ nprbytes > 4
  /\ out' = out \o Decoded(4)
  /\ next' = next + 4
  /\ UNCHANGED <<op, given, fn, in, bits, cap, ret, got>>

RestWithoutThird == out \o Decoded(Smaller(nprbytes, 3))     \* mutant
DecodedToEnd == IF nprbytes > 0 THEN out \o Decoded(nprbytes) ELSE out

b64_decode_done ==
  /\ fn = "b64_decode" /\ nprbytes <= 4
  /\ ret' = "SUCCESS" /\ got' = DecodedToEnd /\ fn' = "none"
  /\ out' = DecodedToEnd
  /\ UNCHANGED <<op, given, in, next, bits, cap>>

(* `*output_size < ((input_length / 4 * 3) - 1)': without sign, so that a  *)
(* text of less than 4 characters is never decoded.                        *)
RoomUnchecked(length, size) == length >= 4                   \* mutant
HasRoom(length, size) == length >= 4 /\ size >= (length \div 4) * 3 - 1

StartDecoding(text, size) ==
  IF text = <<>> THEN Return("SUCCESS", <<>>)
  ELSE IF ~HasRoom(Len(text), size) THEN Return("NO_MEM", <<>>)
  ELSE Loop("b64_decode", text, size) /\ UNCHANGED <<op, given, ret, got>>

(* A value is encoded, by the node or with b64_encode, and decoded by      *)
(* provider_version_get, provider_tx_params_load or                        *)
(* parser_application_json.                                                *)
EncodeValue(value) ==
  /\ Call("value", value)
  /\ Loop("b64_encode", value, 4 * ((Len(value) + 2) \div 3))

ValueEncoded ==
  /\ fn = "b64_encode" /\ ~InputLeft
  /\ \E size \in Capacity : StartDecoding(out, size)

DecodeText(text, size) ==
  /\ Idle
  /\ op' = "text" /\ given' = text
  /\ IF text # <<>> /\ HasRoom(Len(text), size)
     THEN Loop("b64_decode", text, size) /\ ret' = "none" /\ got' = NoPhrase
     ELSE /\ ret' = (IF text = <<>> THEN "SUCCESS" ELSE "NO_MEM") /\ got' = NoPhrase
          /\ UNCHANGED loopVars
-----------------------------------------------------------------------------
(* b2048_encode *)
b2048_encode ==
  /\ fn = "b2048_encode" /\ InputLeft
  /\ LET val == bits \o in[next] IN
     IF Len(val) >= WORD THEN out' = Append(out, SubSeq(val, 1, WORD)) /\ bits' = From(val, WORD + 1)
     ELSE UNCHANGED out /\ bits' = val
  /\ next' = next + 1
  /\ UNCHANGED <<op, given, fn, in, cap, ret, got>>

WholeWords == out                                            \* mutant: the last is lost
Words == IF bits # <<>> THEN Append(out, Widened(bits, WORD)) ELSE out

(* The first word of the first two bytes of the digest *)
checksum(b) == SubSeq(Digest(b)[1] \o Digest(b)[2], 1, WORD)

vertices_mnemonic_from_sk(seed) ==
  /\ Call("mnemonic", seed)
  /\ Loop("b2048_encode", seed, 0)

(* The words are joined with blanks. *)
mnemonic_from_seed ==
  /\ fn = "b2048_encode" /\ ~InputLeft
  /\ Return("SUCCESS", [separator |-> " ", words |-> Append(Words, checksum(given))])

(* make_word_vector splits at newlines only. *)
Tokens(phrase) == IF phrase.separator = "\n" THEN Len(phrase.words)
                  ELSE Smaller(Len(phrase.words), 1)
Unknown == <<>>                             \* a word that is not in the list
Checkword == given.words[Len(given.words)]

(* What is given as a mnemonic: words of the client's, or those a call     *)
(* made, one to a line or as they were made                                *)
Phrases == Phrase \cup (IF op = "mnemonic" /\ ret = "SUCCESS"
                        THEN {got, [got EXCEPT !.separator = "\n"]} ELSE {})

(* Of an empty phrase the word before the first is read, from the header   *)
(* malloc keeps there; it is not used, since the number of words is wrong. *)
vertices_s_account_new_from_mnemonic(phrase) ==
  /\ Idle \/ (op = "mnemonic" /\ ret = "SUCCESS")
  /\ phrase \in Phrases
  /\ op' = "seed"
  /\ given' = [separator |-> phrase.separator, words |-> phrase.words,
               seed |-> IF op = "mnemonic" /\ phrase.words = got.words THEN given ELSE <<>>]
  /\ got' = NoPhrase
  /\ IF Tokens(phrase) - 1 # SEED_WORDS
     THEN ret' = "INTERNAL" /\ UNCHANGED loopVars
     ELSE IF phrase.words[Len(phrase.words)] = Unknown
     THEN ret' = "exit" /\ UNCHANGED loopVars
     ELSE ret' = "none"
          /\ Loop("seed_from_mnemonic", SubSeq(phrase.words, 1, SEED_WORDS), SEED_LENGTH)

(* The bytes of a word are stored before the next word is looked up.  The  *)
(* last byte is past the SEED_LENGTH bytes that were allocated.            *)
WordAdded ==
  /\ fn = "seed_from_mnemonic" /\ Len(bits) < BYTE /\ InputLeft
  /\ in[next] # Unknown
  /\ bits' = bits \o in[next] /\ next' = next + 1
  /\ UNCHANGED <<op, given, fn, in, out, cap, ret, got>>

UnknownWord ==
  /\ fn = "seed_from_mnemonic" /\ Len(bits) < BYTE /\ InputLeft
  /\ in[next] = Unknown
  /\ Return("exit", NoPhrase)

ByteStored ==
  /\ fn = "seed_from_mnemonic" /\ Len(bits) >= BYTE
  /\ out' = Append(out, SubSeq(bits, 1, BYTE)) /\ bits' = From(bits, BYTE + 1)
  /\ UNCHANGED <<op, given, fn, in, next, cap, ret, got>>

SeedStored == IF bits # <<>> THEN Append(out, Widened(bits, BYTE)) ELSE out

(* The last byte is asserted to be 0 and dropped; a wrong checksum ends    *)
(* the program.                                                            *)
SeedRecovered ==
  /\ fn = "seed_from_mnemonic" /\ Len(bits) < BYTE /\ ~InputLeft
  /\ LET seed == SubSeq(SeedStored, 1, Len(SeedStored) - 1) IN
     IF SeedStored[Len(SeedStored)] = Zeros(BYTE) /\ checksum(seed) = Checkword
     THEN Return("SUCCESS", seed) ELSE Return("exit", NoPhrase)
-----------------------------------------------------------------------------
Next ==
  \/ \E key \in Key : vertices_account_new_from_bin(key)
  \/ \E public_b32 \in Address : vertices_account_new_from_b32(public_b32)
  \/ b32_encode \/ AddressEncoded \/ b32_decode \/ from_b32_init
  \/ \E value \in Value : EncodeValue(value)
  \/ \E text \in Text, size \in Capacity : DecodeText(text, size)
  \/ b64_encode \/ ValueEncoded \/ b64_decode \/ b64_decode_done
  \/ \E seed \in Seed : vertices_mnemonic_from_sk(seed)
  \/ b2048_encode \/ mnemonic_from_seed
  \/ \E phrase \in Phrases : vertices_s_account_new_from_mnemonic(phrase)
  \/ WordAdded \/ UnknownWord \/ ByteStored \/ SeedRecovered
  \/ Forget

Spec == Init /\ [][Next]_vars
=============================================================================
