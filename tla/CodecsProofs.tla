---------------------------- MODULE CodecsProofs ----------------------------
(***************************************************************************)
(* For keys, checksums, seeds and values of every length, and whatever the *)
(* digest is: the account of a binary key has that key, the words written  *)
(* for a seed are read back as that seed, a value in base 64 is decoded to *)
(* itself, and what is written stays in its buffer but for a few bytes.    *)
(* All codecs move bits from one row of equal blocks to another; the       *)
(* invariants say of every sequence of bits where it lies in the bytes     *)
(* that were given.                                                        *)
(***************************************************************************)
EXTENDS CodecsProps, SequenceTheorems, WellFoundedInduction, TLAPS

BitSeq == Seq({0, 1})
Bytes(n) == {s \in Seq(Bits(BYTE)) : Len(s) = n}

(* s is what lies in the bytes after the first `from' bits, as far as      *)
(* there are bytes.                                                        *)
Holds(s, from, bytes) ==
  \A i \in 1 .. Len(bytes), k \in 1 .. BYTE, m \in 1 .. Len(s) :
    BYTE * (i - 1) + k = from + m => s[m] = bytes[i][k]

(* Bits of a width are a sequence of bits of that length.                    *)
LEMMA BitsAreASeq ==
  ASSUME NEW n \in Nat, NEW b \in Bits(n)
  PROVE  b \in BitSeq /\ Len(b) = n
<1>1. b \in [1 .. n -> {0, 1}]
  BY DEF Bits
<1>2. b \in BitSeq
  BY <1>1, SeqDef DEF BitSeq
<1> QED BY <1>1, <1>2, LenProperties DEF BitSeq

(* Two groups of bits that agree everywhere are one.                         *)
LEMMA SameBits ==
  ASSUME NEW n \in Nat, NEW f \in Bits(n), NEW g \in Bits(n), \A k \in 1 .. n : f[k] = g[k]
  PROVE  f = g
BY DEF Bits

(* A function to bytes is a sequence of bytes.                               *)
LEMMA BytesAreASeq ==
  ASSUME NEW n \in Nat, NEW b \in [1 .. n -> Bits(BYTE)]
  PROVE  b \in Bytes(n)
<1>1. b \in Seq(Bits(BYTE))
  BY SeqDef
<1> QED BY <1>1, LenProperties DEF Bytes

(* A sequence of bits is a group as wide as it is long.                      *)
LEMMA SeqIsBits ==
  ASSUME NEW b \in BitSeq
  PROVE  b \in Bits(Len(b)) /\ Len(b) \in Nat
BY LenProperties DEF BitSeq, Bits

(* The zero bits of padding are a sequence of bits.                          *)
LEMMA ZerosAreASeq ==
  ASSUME NEW n \in Nat
  PROVE  Zeros(n) \in BitSeq /\ Len(Zeros(n)) = n
<1>1. Zeros(n) \in Bits(n)
  BY DEF Zeros, Bits
<1> QED BY <1>1, BitsAreASeq

(* Bits that lie side by side in the bytes lie there when joined.            *)
LEMMA JoinedHolds ==
  ASSUME NEW s \in BitSeq, NEW t \in BitSeq, NEW from \in Nat, NEW bytes, Len(bytes) \in Nat,
         Holds(s, from, bytes), Holds(t, from + Len(s), bytes)
  PROVE  s \o t \in BitSeq /\ Len(s \o t) = Len(s) + Len(t) /\ Holds(s \o t, from, bytes)
<1>1. /\ s \o t \in BitSeq /\ Len(s \o t) = Len(s) + Len(t)
      /\ Len(s) \in Nat /\ Len(t) \in Nat
      /\ \A i \in 1 .. Len(s) + Len(t) : (s \o t)[i] = IF i <= Len(s) THEN s[i] ELSE t[i - Len(s)]
  BY ConcatProperties, LenProperties DEF BitSeq
<1>2. ASSUME NEW i \in 1 .. Len(bytes), NEW k \in 1 .. BYTE, NEW m \in 1 .. Len(s \o t),
             BYTE * (i - 1) + k = from + m
      PROVE  (s \o t)[m] = bytes[i][k]
  <2>1. CASE m <= Len(s)
    <3>1. (s \o t)[m] = s[m] /\ m \in 1 .. Len(s)
      BY <1>1, <2>1
    <3> QED BY <1>2, <3>1 DEF Holds
  <2>2. CASE m > Len(s)
    <3>1. (s \o t)[m] = t[m - Len(s)] /\ m - Len(s) \in 1 .. Len(t)
      BY <1>1, <2>2
    <3>2. m \in Int /\ Len(s) \in Int
      BY <1>1
    <3>3. from + m = (from + Len(s)) + (m - Len(s))
      BY <3>2
    <3>4. BYTE * (i - 1) + k = (from + Len(s)) + (m - Len(s))
      BY <1>2, <3>3
    <3> QED BY <3>1, <3>4 DEF Holds
  <2> QED BY <1>1, <2>1, <2>2
<1> QED BY <1>1, <1>2 DEF Holds

(* The first bits of what lies in the bytes lie there, and the rest.         *)
LEMMA PartHolds ==
  ASSUME NEW s \in BitSeq, NEW from \in Nat, NEW bytes, Len(bytes) \in Nat,
         Holds(s, from, bytes), NEW n \in 0 .. Len(s)
  PROVE  /\ SubSeq(s, 1, n) \in Bits(n) /\ Holds(SubSeq(s, 1, n), from, bytes)
         /\ From(s, n + 1) \in BitSeq /\ Len(From(s, n + 1)) = Len(s) - n
         /\ Holds(From(s, n + 1), from + n, bytes)
<1>1. Len(s) \in Nat /\ \A i \in 1 .. Len(s) : s[i] \in {0, 1}
  BY LenProperties, ElementOfSeq DEF BitSeq
<1>2. /\ SubSeq(s, 1, n) \in BitSeq /\ Len(SubSeq(s, 1, n)) = n
      /\ \A i \in 1 .. n : SubSeq(s, 1, n)[i] = s[i]
  <2>1. \A i \in 1 .. n : s[i] \in {0, 1}
    BY <1>1
  <2> QED BY <1>1, <2>1, SubSeqProperties DEF BitSeq
<1>3. /\ From(s, n + 1) \in BitSeq /\ Len(From(s, n + 1)) = Len(s) - n
      /\ \A i \in 1 .. Len(s) - n : From(s, n + 1)[i] = s[n + i]
  <2>1. \A i \in n + 1 .. Len(s) : s[i] \in {0, 1}
    BY <1>1
  <2>2. n + 1 \in Int /\ Len(s) \in Int
    BY <1>1
  <2>3. /\ SubSeq(s, n + 1, Len(s)) \in BitSeq
        /\ Len(SubSeq(s, n + 1, Len(s))) = IF n + 1 <= Len(s) THEN Len(s) - (n + 1) + 1 ELSE 0
        /\ \A i \in 1 .. Len(s) - (n + 1) + 1 : SubSeq(s, n + 1, Len(s))[i] = s[(n + 1) + i - 1]
    BY <2>1, <2>2, SubSeqProperties DEF BitSeq
  <2> QED BY <1>1, <2>3 DEF From
<1>4. SubSeq(s, 1, n) \in Bits(n)
  BY <1>2, SeqIsBits
<1>5. Holds(SubSeq(s, 1, n), from, bytes)
  BY <1>1, <1>2 DEF Holds
<1>6. Holds(From(s, n + 1), from + n, bytes)
  <2>1. ASSUME NEW i \in 1 .. Len(bytes), NEW k \in 1 .. BYTE, NEW m \in 1 .. Len(s) - n,
               BYTE * (i - 1) + k = (from + n) + m
        PROVE  From(s, n + 1)[m] = bytes[i][k]
    <3>1. n + m \in 1 .. Len(s) /\ From(s, n + 1)[m] = s[n + m]
      BY <1>1, <1>3
    <3>2. BYTE * (i - 1) + k = from + (n + m)
      BY <1>1, <2>1 DEF BYTE
    <3> QED BY <3>1, <3>2 DEF Holds
  <2> QED BY <1>3, <2>1 DEF Holds
<1> QED BY <1>3, <1>4, <1>5, <1>6

(* Each byte lies where it is.                                               *)
LEMMA ByteHolds ==
  ASSUME NEW n \in Nat, NEW bytes \in Bytes(n), NEW j \in 1 .. n
  PROVE  /\ bytes[j] \in BitSeq /\ Len(bytes[j]) = BYTE
         /\ Holds(bytes[j], BYTE * (j - 1), bytes)
<1>1. bytes[j] \in Bits(BYTE)
  BY ElementOfSeq DEF Bytes
<1>2. bytes[j] \in BitSeq /\ Len(bytes[j]) = BYTE
  BY <1>1, BitsAreASeq DEF BYTE
<1>3. ASSUME NEW i \in 1 .. n, NEW k \in 1 .. BYTE, NEW m \in 1 .. BYTE,
             BYTE * (i - 1) + k = BYTE * (j - 1) + m
      PROVE  i = j /\ k = m
  BY <1>3 DEF BYTE
<1> QED BY <1>2, <1>3 DEF Holds, Bytes

(* Behind the last byte everything lies in the bytes.                        *)
LEMMA HoldsBehind ==
  ASSUME NEW s, NEW n \in Nat, NEW bytes \in Bytes(n), NEW from \in Nat, from >= BYTE * n
  PROVE  Holds(s, from, bytes)
<1>1. ASSUME NEW i \in 1 .. n, NEW k \in 1 .. BYTE, NEW m \in 1 .. Len(s)
      PROVE  BYTE * (i - 1) + k # from + m
  BY DEF BYTE
<1> QED BY <1>1 DEF Holds, Bytes

(* What lies in bytes lies in their beginning.                               *)
LEMMA BeginningHolds ==
  ASSUME NEW s, NEW from \in Nat, NEW m \in Nat, NEW n \in 0 .. m,
         NEW bytes \in Bytes(m), NEW first \in Bytes(n), \A i \in 1 .. n : bytes[i] = first[i],
         Holds(s, from, bytes)
  PROVE  Holds(s, from, first)
<1>1. Len(bytes) = m /\ Len(first) = n /\ \A i \in 1 .. n : i \in 1 .. m
  BY DEF Bytes
<1> QED BY <1>1 DEF Holds

(* A byte that lies where the j-th one is, is the j-th one.                  *)
LEMMA HeldByte ==
  ASSUME NEW n \in Nat, NEW bytes \in Bytes(n), NEW j \in 1 .. n, NEW b \in Bits(BYTE),
         Holds(b, BYTE * (j - 1), bytes)
  PROVE  b = bytes[j]
<1>1. bytes[j] \in Bits(BYTE)
  BY ElementOfSeq DEF Bytes
<1>2. Len(b) = BYTE
  BY BitsAreASeq DEF BYTE
<1>3. \A k \in 1 .. BYTE : b[k] = bytes[j][k]
  BY <1>2 DEF Holds, Bytes
<1>4. BYTE \in Nat
  BY DEF BYTE
<1> QED BY <1>1, <1>3, <1>4, SameBits
-----------------------------------------------------------------------------
(* From a key to its account: the address is written from the bytes in     *)
(* `in', which begin with the key, and read back.                          *)
AllBytes == ADDRESS_LENGTH + CHECKSUM_LENGTH
Digit32 == [kind : {"digit"}, bits : Bits(DIGIT32)]

EncodeTypes ==
  /\ in \in Bytes(AllBytes) /\ cap = ADDRESS_STR_LENGTH
  /\ next \in 1 .. AllBytes + 1
  /\ bits \in BitSeq /\ Len(bits) < BYTE
  /\ out \in Seq(Digit32) /\ Len(out) <= cap

(* All bits of the bytes that were taken are in a digit or in `bits', or,  *)
(* when the last digit was filled with zeros, in digits.                   *)
EncodeCounts ==
  \/ BYTE * (next - 1) = DIGIT32 * Len(out) + Len(bits)
  \/ next = AllBytes + 1 /\ bits = <<>> /\ DIGIT32 * Len(out) >= BYTE * AllBytes

EncodeHolds ==
  /\ \A i \in 1 .. ADDRESS_LENGTH : in[i] = given[i]
  /\ Holds(bits, DIGIT32 * Len(out), in)
  /\ \A j \in 1 .. Len(out) : Holds(out[j].bits, DIGIT32 * (j - 1), in)

DecodeTypes ==
  /\ cap = AllBytes
  /\ in \in Seq(Character) /\ next \in Nat \ {0}
  /\ bits \in BitSeq /\ Len(bits) < BYTE
  /\ out \in Seq(Bits(BYTE)) /\ Len(out) <= AllBytes

(* The first characters are digits that hold all the bytes.                *)
Digits32 == {n \in 0 .. Len(in) : /\ DIGIT32 * n >= BYTE * AllBytes
                                  /\ next <= n + 1
                                  /\ \A j \in 1 .. n :
                                       /\ in[j] \in Digit32
                                       /\ Holds(in[j].bits, DIGIT32 * (j - 1), given)}

DecodeHolds ==
  /\ Digits32 # {}
  /\ DIGIT32 * (next - 1) = BYTE * Len(out) + Len(bits)
  /\ Holds(bits, BYTE * Len(out), given)
  /\ \A j \in 1 .. Len(out) : Holds(out[j], BYTE * (j - 1), given)

AddressInv ==
  op = "from_bin" =>
    /\ given \in Bytes(ADDRESS_LENGTH)
    /\ fn \in {"none", "b32_encode", "b32_decode"}
    /\ fn # "none" => ret = "none"
    /\ fn = "b32_encode" => EncodeTypes /\ EncodeCounts /\ EncodeHolds
    /\ fn = "b32_decode" => DecodeTypes /\ DecodeHolds
    /\ ret = "SUCCESS" => got = given

(* An address has room for all bytes of key and checksum.                    *)
LEMMA Lengths ==
  /\ AllBytes \in Nat /\ ADDRESS_LENGTH \in Nat /\ ADDRESS_STR_LENGTH \in Nat
  /\ AllBytes >= ADDRESS_LENGTH
  /\ DIGIT32 * ADDRESS_STR_LENGTH >= BYTE * AllBytes
BY LengthAssumption DEF AllBytes, BYTE, DIGIT32

(* The call: the last bytes of the digest come after those of the key.     *)
LEMMA KeyGiven ==
  ASSUME NEW key \in Key, vertices_account_new_from_bin(key)
  PROVE  AddressInv'
<1> DEFINE sum == From(Digest(key), Len(Digest(key)) - CHECKSUM_LENGTH + 1)
<1>1. key \in Bytes(ADDRESS_LENGTH)
  BY KeyAssumption, LengthAssumption, BytesAreASeq
<1>2. sum \in Bytes(CHECKSUM_LENGTH)
  <2> DEFINE d == Digest(key)
             first == Len(d) - CHECKSUM_LENGTH + 1
  <2>1. d \in Seq(Bits(BYTE)) /\ Len(d) >= CHECKSUM_LENGTH /\ CHECKSUM_LENGTH \in Nat
    BY KeyAssumption, LengthAssumption
  <2>2. Len(d) \in Nat /\ \A i \in 1 .. Len(d) : d[i] \in Bits(BYTE)
    BY <2>1, LenProperties, ElementOfSeq
  <2> HIDE DEF d
  <2>3. first \in Int /\ first >= 1 /\ Len(d) \in Int
    BY <2>1, <2>2
  <2>4. \A i \in first .. Len(d) : d[i] \in Bits(BYTE)
    BY <2>2, <2>3
  <2>5. /\ SubSeq(d, first, Len(d)) \in Seq(Bits(BYTE))
        /\ Len(SubSeq(d, first, Len(d))) = IF first <= Len(d) THEN Len(d) - first + 1 ELSE 0
    BY <2>3, <2>4, SubSeqProperties
  <2>6. Len(SubSeq(d, first, Len(d))) = CHECKSUM_LENGTH
    BY <2>1, <2>2, <2>5
  <2> QED BY <2>5, <2>6 DEF Bytes, From, d
<1> HIDE DEF sum
<1>3. /\ key \o sum \in Bytes(AllBytes)
      /\ \A i \in 1 .. ADDRESS_LENGTH : (key \o sum)[i] = key[i]
  <2>1. /\ key \o sum \in Seq(Bits(BYTE))
        /\ Len(key \o sum) = Len(key) + Len(sum)
        /\ \A i \in 1 .. Len(key) + Len(sum) :
             (key \o sum)[i] = IF i <= Len(key) THEN key[i] ELSE sum[i - Len(key)]
    BY <1>1, <1>2, ConcatProperties DEF Bytes
  <2>2. Len(key) = ADDRESS_LENGTH /\ Len(sum) = CHECKSUM_LENGTH
    BY <1>1, <1>2 DEF Bytes
  <2>3. Len(key \o sum) = AllBytes
    BY <2>1, <2>2 DEF AllBytes
  <2>4. \A i \in 1 .. ADDRESS_LENGTH : (key \o sum)[i] = key[i]
    BY <2>1, <2>2, LengthAssumption
  <2> QED BY <2>1, <2>3, <2>4 DEF Bytes
<1>4. /\ op' = "from_bin" /\ given' = key /\ fn' = "b32_encode" /\ ret' = "none"
      /\ in' = key \o sum /\ next' = 1 /\ bits' = <<>> /\ out' = <<>> /\ cap' = ADDRESS_STR_LENGTH
  BY DEF vertices_account_new_from_bin, Call, Loop, sum
<1>5. EncodeTypes'
  BY <1>3, <1>4, Lengths, EmptySeq DEF EncodeTypes, BitSeq, BYTE
<1>6. EncodeCounts'
  BY <1>4, EmptySeq DEF EncodeCounts, BYTE, DIGIT32
<1>7. EncodeHolds'
  <2>1. Len(<<>>) = 0
    BY EmptySeq
  <2>2. Len(bits') = 0 /\ Len(out') = 0
    BY <1>4, <2>1
  <2>3. Holds(bits', DIGIT32 * Len(out'), in')
    BY <2>2 DEF Holds
  <2>4. \A i \in 1 .. ADDRESS_LENGTH : in'[i] = given'[i]
    BY <1>3, <1>4
  <2> QED BY <2>2, <2>3, <2>4 DEF EncodeHolds
<1> QED BY <1>1, <1>4, <1>5, <1>6, <1>7 DEF AddressInv

(* A digit is taken from a buffer that holds at least one, and what is     *)
(* filled up with zeros lies behind all bytes.                             *)
LEMMA DigitTaken ==
  ASSUME AddressInv, op = "from_bin", b32_encode
  PROVE  AddressInv'
<1> USE DEF BYTE, DIGIT32
<1> DEFINE buffer == IF Len(bits) >= DIGIT32 THEN bits
                     ELSE IF InputLeft THEN bits \o in[next]
                     ELSE Widened(bits, DIGIT32)
           digit == SubSeq(buffer, 1, DIGIT32)
           from == DIGIT32 * Len(out)
           n == Len(bits)
<1>1. /\ EncodeTypes /\ EncodeCounts /\ EncodeHolds /\ DigitDue
      /\ given \in Bytes(ADDRESS_LENGTH) /\ ret = "none"
  BY DEF AddressInv, b32_encode
<1>2. /\ out' = Append(out, Char(digit)) /\ bits' = From(buffer, DIGIT32 + 1)
      /\ next' = IF Len(bits) < DIGIT32 /\ InputLeft THEN next + 1 ELSE next
      /\ UNCHANGED <<op, given, fn, in, cap, ret, got>>
  BY DEF b32_encode
<1>3. /\ Len(in) = AllBytes /\ AllBytes \in Nat /\ next \in 1 .. AllBytes + 1
      /\ bits \in BitSeq /\ n \in Nat /\ n < BYTE
      /\ Len(out) \in Nat /\ Len(out) < cap
  BY <1>1, Lengths, LenProperties DEF EncodeTypes, DigitDue, Bytes, BitSeq
<1>4. from \in Nat /\ from = DIGIT32 * Len(out)
  BY <1>3
<1>5. /\ n >= DIGIT32 => buffer = bits /\ next' = next
      /\ n < DIGIT32 /\ InputLeft => buffer = bits \o in[next] /\ next' = next + 1
      /\ n < DIGIT32 /\ ~InputLeft => buffer = Widened(bits, DIGIT32) /\ next' = next
  BY <1>2, <1>3
<1>6. BYTE * (next - 1) = from + n
  <2>1. n # 0 \/ next \in 1 .. AllBytes
    BY <1>1, <1>3, EmptySeq DEF DigitDue, InputLeft, BitSeq
  <2>2. n = 0 \/ bits # <<>>
    BY EmptySeq
  <2> QED BY <1>1, <1>3, <2>1, <2>2, EmptySeq DEF EncodeCounts
<1> HIDE DEF buffer, from
<1>7. /\ buffer \in BitSeq /\ Len(buffer) \in Nat /\ Holds(buffer, from, in)
      /\ DIGIT32 <= Len(buffer) /\ Len(buffer) < BYTE + DIGIT32
      /\ \/ BYTE * (next' - 1) = from + Len(buffer)
         \/ /\ next' = AllBytes + 1 /\ Len(buffer) = DIGIT32
            /\ from + DIGIT32 >= BYTE * AllBytes
  <2>1. Holds(bits, from, in)
    BY <1>1, <1>4 DEF EncodeHolds
  <2> HIDE DEF n
  <2>2. CASE n >= DIGIT32
    <3>1. buffer = bits /\ next' = next
      BY <1>5, <2>2
    <3> QED BY <1>3, <1>6, <2>1, <2>2, <3>1 DEF n
  <2>3. CASE n < DIGIT32 /\ InputLeft
    <3>1. buffer = bits \o in[next] /\ next' = next + 1 /\ next \in 1 .. AllBytes
      BY <1>3, <1>5, <2>3 DEF InputLeft
    <3>2. in[next] \in BitSeq /\ Len(in[next]) = BYTE /\ Holds(in[next], BYTE * (next - 1), in)
      BY <1>1, <1>3, <3>1, ByteHolds DEF EncodeTypes
    <3>3. Holds(in[next], from + Len(bits), in)
      BY <1>6, <3>2 DEF n
    <3>4. buffer \in BitSeq /\ Len(buffer) = n + BYTE /\ Holds(buffer, from, in)
      BY <1>3, <1>4, <2>1, <3>1, <3>2, <3>3, JoinedHolds DEF n
    <3>5. BYTE * (next' - 1) = from + Len(buffer)
      <4>1. next \in Int /\ n \in Int /\ from \in Int
        BY <1>3, <1>4
      <4>2. next' - 1 = next
        BY <3>1, <4>1
      <4>3. from + Len(buffer) = (from + n) + BYTE
        BY <3>4, <4>1
      <4> QED BY <1>6, <4>1, <4>2, <4>3
    <3> QED BY <1>3, <2>3, <3>4, <3>5
  <2>4. CASE n < DIGIT32 /\ ~InputLeft
    <3>1. buffer = Widened(bits, DIGIT32) /\ next' = next /\ next = AllBytes + 1
      BY <1>3, <1>5, <2>4 DEF InputLeft
    <3>2. DIGIT32 - n \in Nat /\ from + n \in Nat /\ from + n = BYTE * AllBytes
      BY <1>3, <1>4, <1>6, <2>4, <3>1
    <3>3. Zeros(DIGIT32 - n) \in BitSeq /\ Len(Zeros(DIGIT32 - n)) = DIGIT32 - n
      BY <3>2, ZerosAreASeq
    <3>4. Holds(Zeros(DIGIT32 - n), from + n, in)
      BY <1>1, <1>3, <3>2, HoldsBehind DEF EncodeTypes
    <3>5. buffer \in BitSeq /\ Len(buffer) = n + (DIGIT32 - n) /\ Holds(buffer, from, in)
      BY <1>3, <1>4, <2>1, <3>1, <3>3, <3>4, JoinedHolds DEF Widened, n
    <3>6. Len(buffer) = DIGIT32 /\ from + DIGIT32 >= BYTE * AllBytes
      BY <1>3, <1>4, <2>4, <3>2, <3>5
    <3>7. Len(buffer) \in Nat /\ DIGIT32 <= Len(buffer) /\ Len(buffer) < BYTE + DIGIT32
      BY <3>6
    <3>8. next' = AllBytes + 1
      BY <3>1
    <3> QED BY <3>5, <3>6, <3>7, <3>8
  <2> QED BY <1>3, <2>2, <2>3, <2>4
<1>8. /\ digit \in Bits(DIGIT32) /\ Holds(digit, from, in)
      /\ bits' \in BitSeq /\ Len(bits') = Len(buffer) - DIGIT32
      /\ Holds(bits', from + DIGIT32, in)
  <2>1. DIGIT32 \in 0 .. Len(buffer)
    BY <1>7
  <2> QED BY <1>2, <1>3, <1>4, <1>7, <2>1, PartHolds
<1> HIDE DEF digit
<1>9. /\ out' \in Seq(Digit32) /\ Len(out') = Len(out) + 1
      /\ \A j \in 1 .. Len(out) : out'[j] = out[j]
      /\ out'[Len(out) + 1] = Char(digit)
  <2>1. Char(digit) \in Digit32
    BY <1>8 DEF Char, Digit32
  <2> QED BY <1>1, <1>2, <2>1 DEF EncodeTypes
<1>10. EncodeTypes'
  <2>1. next' \in 1 .. AllBytes + 1
    BY <1>2, <1>3 DEF InputLeft
  <2>2. Len(bits') < BYTE
    BY <1>7, <1>8
  <2>3. Len(out') <= cap /\ cap' = cap /\ in' = in
    BY <1>1, <1>2, <1>3, <1>9, Lengths DEF EncodeTypes
  <2> QED BY <1>1, <1>8, <1>9, <2>1, <2>2, <2>3 DEF EncodeTypes
<1>11. DIGIT32 * Len(out') = from + DIGIT32
  BY <1>3, <1>4, <1>9
<1>12. EncodeCounts'
  <2>1. CASE BYTE * (next' - 1) = from + Len(buffer)
    <3>1. BYTE * (next' - 1) = DIGIT32 * Len(out') + Len(bits')
      BY <1>4, <1>7, <1>8, <1>11, <2>1
    <3> QED BY <3>1 DEF EncodeCounts
  <2>2. CASE /\ next' = AllBytes + 1 /\ Len(buffer) = DIGIT32
             /\ from + DIGIT32 >= BYTE * AllBytes
    <3>1. Len(bits') = 0
      BY <1>8, <2>2
    <3>2. bits' = <<>>
      BY <1>8, <3>1, EmptySeq DEF BitSeq
    <3> QED BY <1>11, <2>2, <3>2 DEF EncodeCounts
  <2> QED BY <1>7, <2>1, <2>2
<1>13. EncodeHolds'
  <2>1. ASSUME NEW j \in 1 .. Len(out')
        PROVE  Holds(out'[j].bits, DIGIT32 * (j - 1), in)
    <3>1. CASE j \in 1 .. Len(out)
      BY <1>1, <1>9, <3>1 DEF EncodeHolds
    <3>2. CASE j = Len(out) + 1
      <4>1. out'[j].bits = digit /\ DIGIT32 * (j - 1) = from
        BY <1>3, <1>4, <1>9, <3>2 DEF Char
      <4> QED BY <1>8, <4>1
    <3> QED BY <1>3, <1>9, <3>1, <3>2
  <2> QED BY <1>1, <1>2, <1>8, <1>11, <2>1 DEF EncodeHolds
<1> QED BY <1>1, <1>2, <1>10, <1>12, <1>13 DEF AddressInv, b32_encode

(* The whole address is read, and its first digits hold all the bytes.     *)
LEMMA AddressIsRead ==
  ASSUME AddressInv, op = "from_bin", AddressEncoded
  PROVE  AddressInv'
<1> USE DEF BYTE, DIGIT32
<1> DEFINE pads == Smaller((8 - (Len(out) % 8)) % 8, cap - Len(out))
<1>1. /\ EncodeTypes /\ EncodeCounts /\ EncodeHolds /\ ~DigitDue
      /\ given \in Bytes(ADDRESS_LENGTH) /\ ret = "none"
  BY DEF AddressInv, AddressEncoded
<1>2. /\ fn' = "b32_decode" /\ in' = out \o Pads(pads) /\ next' = 1 /\ bits' = <<>>
      /\ out' = <<>> /\ cap' = AllBytes /\ UNCHANGED <<op, given, ret, got>>
  BY DEF AddressEncoded, Loop, Encoded32, AllBytes
<1>3. /\ Len(out) \in Nat /\ Len(out) <= cap /\ cap = ADDRESS_STR_LENGTH
      /\ AllBytes \in Nat /\ Len(in) = AllBytes /\ next \in 1 .. AllBytes + 1
  BY <1>1, Lengths, LenProperties DEF EncodeTypes, Bytes
<1>4. pads \in Nat
  <2>1. (8 - (Len(out) % 8)) % 8 \in Nat /\ cap - Len(out) \in Nat
    BY <1>3, Lengths
  <2> QED BY <2>1 DEF Smaller
<1> HIDE DEF pads
<1>5. DIGIT32 * Len(out) >= BYTE * AllBytes
  <2>1. CASE Len(out) = cap
    BY <1>3, <2>1, Lengths
  <2>2. CASE bits = <<>> /\ next = AllBytes + 1
    <3>1. Len(bits) = 0
      BY <2>2, EmptySeq
    <3> QED BY <1>1, <1>3, <2>2, <3>1 DEF EncodeCounts
  <2>3. Len(out) = cap \/ (bits = <<>> /\ ~InputLeft)
    BY <1>1, <1>3, Lengths DEF DigitDue
  <2>4. ~InputLeft => next = AllBytes + 1
    BY <1>3 DEF InputLeft
  <2> QED BY <2>1, <2>2, <2>3, <2>4
<1>6. out \in Seq(Character)
  <2>1. Digit32 \subseteq Character
    <3>1. \A b \in Bits(5) : b \in BitSeq
      BY BitsAreASeq
    <3> QED BY <3>1 DEF Digit32, Character, BitSeq
  <2> QED BY <1>1, <2>1, SeqMonotonic DEF EncodeTypes
<1>7. Pads(pads) \in Seq(Character)
  <2>1. Pad \in Character
    BY EmptySeq DEF Pad, Character, BitSeq
  <2>2. Pads(pads) \in [1 .. pads -> Character]
    BY <2>1 DEF Pads
  <2> QED BY <1>4, <2>2, SeqDef
<1>8. /\ in' \in Seq(Character) /\ Len(in') \in Nat /\ Len(out) <= Len(in')
      /\ \A j \in 1 .. Len(out) : in'[j] = out[j]
  <2>1. /\ in' \in Seq(Character) /\ Len(in') = Len(out) + Len(Pads(pads))
        /\ \A j \in 1 .. Len(out) + Len(Pads(pads)) :
             in'[j] = IF j <= Len(out) THEN out[j] ELSE Pads(pads)[j - Len(out)]
    BY <1>2, <1>6, <1>7, ConcatProperties
  <2>2. Len(Pads(pads)) \in Nat
    BY <1>7, LenProperties
  <2> QED BY <1>3, <2>1, <2>2
<1>9. ASSUME NEW j \in 1 .. Len(out)
      PROVE  in'[j] \in Digit32 /\ Holds(in'[j].bits, DIGIT32 * (j - 1), given)
  <2>1. in'[j] = out[j] /\ out[j] \in Digit32
    BY <1>1, <1>8, ElementOfSeq DEF EncodeTypes
  <2>2. Holds(out[j].bits, DIGIT32 * (j - 1), in)
    BY <1>1 DEF EncodeHolds
  <2>3. ADDRESS_LENGTH \in 0 .. AllBytes /\ DIGIT32 * (j - 1) \in Nat
    BY <1>3, Lengths
  <2>4. Holds(out[j].bits, DIGIT32 * (j - 1), given)
    BY <1>1, <1>3, <2>2, <2>3, BeginningHolds DEF EncodeTypes, EncodeHolds
  <2> QED BY <2>1, <2>4
<1>10. Len(out) \in Digits32'
  BY <1>2, <1>3, <1>5, <1>8, <1>9 DEF Digits32
<1>11. DecodeTypes'
  BY <1>2, <1>3, <1>8, EmptySeq DEF DecodeTypes, BitSeq
<1>12. DecodeHolds'
  <2>1. Len(bits') = 0 /\ Len(out') = 0 /\ next' = 1
    BY <1>2, EmptySeq
  <2>2. Holds(bits', BYTE * Len(out'), given')
    BY <2>1 DEF Holds
  <2> QED BY <1>10, <2>1, <2>2 DEF DecodeHolds
<1> QED BY <1>1, <1>2, <1>11, <1>12 DEF AddressInv

(* A character gives its bits, of which a byte is taken when it is whole.  *)
LEMMA CharacterRead ==
  ASSUME AddressInv, op = "from_bin", b32_decode
  PROVE  AddressInv'
<1> USE DEF BYTE, DIGIT32
<1> DEFINE buffer == bits \o in[next].bits
           from == BYTE * Len(out)
<1>1. /\ DecodeTypes /\ DecodeHolds /\ CharDue
      /\ given \in Bytes(ADDRESS_LENGTH) /\ ret = "none" /\ fn = "b32_decode"
  BY DEF AddressInv, b32_decode
<1>2. PICK n \in Digits32 : TRUE
  BY <1>1 DEF DecodeHolds
<1>3. /\ Len(out) \in Nat /\ Len(out) < AllBytes /\ AllBytes \in Nat
      /\ Len(bits) \in Nat /\ Len(bits) < BYTE /\ bits \in BitSeq /\ next \in Nat \ {0}
      /\ n \in Nat /\ DIGIT32 * n >= BYTE * AllBytes /\ next <= n + 1
      /\ DIGIT32 * (next - 1) = BYTE * Len(out) + Len(bits)
      /\ Len(given) \in Nat
  BY <1>1, <1>2, Lengths, LenProperties DEF DecodeTypes, DecodeHolds, CharDue, Digits32, BitSeq, Bytes
<1>4. next \in 1 .. n
  BY <1>3
<1>5. /\ in[next] \in Digit32 /\ Holds(in[next].bits, DIGIT32 * (next - 1), given)
      /\ in[next].bits \in BitSeq /\ Len(in[next].bits) = DIGIT32
  <2>1. in[next] \in Digit32 /\ Holds(in[next].bits, DIGIT32 * (next - 1), given)
    BY <1>2, <1>4 DEF Digits32
  <2>2. in[next].bits \in Bits(DIGIT32)
    BY <2>1 DEF Digit32
  <2> QED BY <2>1, <2>2, BitsAreASeq
<1>6. /\ Emitted(buffer) /\ next' = next + 1
      /\ UNCHANGED <<op, given, fn, in, cap, ret, got>>
  BY <1>5 DEF b32_decode, Digit32
<1>7. from \in Nat /\ from = BYTE * Len(out) /\ Holds(bits, from, given)
  BY <1>1, <1>3 DEF DecodeHolds
<1> HIDE DEF from
<1>8. Holds(in[next].bits, from + Len(bits), given)
  BY <1>3, <1>5, <1>7
<1>9. buffer \in BitSeq /\ Len(buffer) = Len(bits) + DIGIT32 /\ Holds(buffer, from, given)
  BY <1>3, <1>5, <1>7, <1>8, JoinedHolds
<1> HIDE DEF buffer
<1>10. Len(buffer) \in Nat /\ DIGIT32 * (next' - 1) = from + Len(buffer)
  BY <1>3, <1>6, <1>7, <1>9
<1>11. n \in Digits32'
  BY <1>2, <1>3, <1>4, <1>6 DEF Digits32
<1>12. CASE Len(buffer) < BYTE
  <2>1. out' = out /\ bits' = buffer
    BY <1>6, <1>10, <1>12 DEF Emitted
  <2>2. DecodeTypes'
    BY <1>1, <1>6, <1>9, <1>12, <2>1 DEF DecodeTypes
  <2>3. DIGIT32 * (next' - 1) = BYTE * Len(out') + Len(bits')
    BY <1>7, <1>10, <2>1
  <2>4. DecodeHolds'
    BY <1>1, <1>6, <1>7, <1>9, <1>11, <2>1, <2>3 DEF DecodeHolds
  <2> QED BY <1>1, <1>6, <2>2, <2>4 DEF AddressInv
<1>13. CASE Len(buffer) >= BYTE
  <2> DEFINE byte == SubSeq(buffer, 1, BYTE)
  <2>1. out' = Append(out, byte) /\ bits' = From(buffer, BYTE + 1)
    BY <1>6, <1>13 DEF Emitted
  <2>2. /\ byte \in Bits(BYTE) /\ Holds(byte, from, given)
        /\ bits' \in BitSeq /\ Len(bits') = Len(buffer) - BYTE
        /\ Holds(bits', from + BYTE, given)
    <3>1. BYTE \in 0 .. Len(buffer)
      BY <1>10, <1>13
    <3> QED BY <1>3, <1>7, <1>9, <2>1, <3>1, PartHolds
  <2> HIDE DEF byte
  <2>3. /\ out' \in Seq(Bits(BYTE)) /\ Len(out') = Len(out) + 1
        /\ \A j \in 1 .. Len(out) : out'[j] = out[j]
        /\ out'[Len(out) + 1] = byte
    BY <1>1, <2>1, <2>2 DEF DecodeTypes
  <2>4. DecodeTypes'
    <3>1. Len(bits') < BYTE /\ Len(out') <= AllBytes /\ next' \in Nat \ {0}
      BY <1>3, <1>6, <1>9, <2>2, <2>3
    <3> QED BY <1>1, <1>6, <2>2, <2>3, <3>1 DEF DecodeTypes
  <2>5. BYTE * Len(out') = from + BYTE
    BY <1>3, <1>7, <2>3
  <2>6. DIGIT32 * (next' - 1) = BYTE * Len(out') + Len(bits')
    BY <1>7, <1>10, <2>2, <2>5
  <2>7. ASSUME NEW j \in 1 .. Len(out')
        PROVE  Holds(out'[j], BYTE * (j - 1), given)
    <3>1. CASE j \in 1 .. Len(out)
      BY <1>1, <2>3, <3>1 DEF DecodeHolds
    <3>2. CASE j = Len(out) + 1
      BY <1>3, <1>7, <2>2, <2>3, <3>2
    <3> QED BY <1>3, <2>3, <3>1, <3>2
  <2>8. DecodeHolds'
    BY <1>6, <1>11, <2>2, <2>5, <2>6, <2>7 DEF DecodeHolds
  <2> QED BY <1>1, <1>6, <2>4, <2>8 DEF AddressInv
<1> QED BY <1>10, <1>12, <1>13

(* The loop ends when there are all the bytes, and not before.             *)
LEMMA KeyRead ==
  ASSUME AddressInv, op = "from_bin", from_b32_init
  PROVE  AddressInv'
<1> USE DEF BYTE, DIGIT32
<1>1. /\ DecodeTypes /\ DecodeHolds /\ ~CharDue
      /\ given \in Bytes(ADDRESS_LENGTH)
  BY DEF AddressInv, from_b32_init
<1>2. /\ ret' = "SUCCESS" /\ got' = PublicKey /\ fn' = "none"
      /\ UNCHANGED <<op, given, in, next, bits, out, cap>>
  BY DEF from_b32_init, Return
<1>3. PICK n \in Digits32 : TRUE
  BY <1>1 DEF DecodeHolds
<1>4. /\ Len(out) \in Nat /\ Len(out) <= AllBytes /\ AllBytes \in Nat /\ cap = AllBytes
      /\ Len(bits) \in Nat /\ Len(bits) < BYTE /\ next \in Nat \ {0}
      /\ n \in 0 .. Len(in) /\ DIGIT32 * n >= BYTE * AllBytes /\ next <= n + 1
      /\ DIGIT32 * (next - 1) = BYTE * Len(out) + Len(bits)
      /\ Len(in) \in Nat
  BY <1>1, <1>3, Lengths, LenProperties DEF DecodeTypes, DecodeHolds, Digits32, BitSeq
<1>5. Len(out) = AllBytes
  <2>1. SUFFICES ASSUME Len(out) < AllBytes PROVE next \in 1 .. n
    <3>1. ASSUME next \in 1 .. n PROVE CharDue \/ ~(Len(out) < AllBytes)
      <4>1. in[next].kind = "digit"
        BY <1>3, <3>1 DEF Digits32, Digit32
      <4> QED BY <1>4, <3>1, <4>1 DEF CharDue, InputLeft
    <3> QED BY <1>1, <1>4, <3>1
  <2> QED BY <1>4, <2>1
<1>6. ASSUME NEW i \in 1 .. ADDRESS_LENGTH
      PROVE  PublicKey[i] = given[i]
  <2>1. i \in 1 .. Len(out) /\ i \in Nat
    BY <1>4, <1>5, Lengths
  <2>2. out[i] \in Bits(BYTE) /\ Holds(out[i], BYTE * (i - 1), given)
    BY <1>1, <2>1, ElementOfSeq DEF DecodeTypes, DecodeHolds
  <2>3. out[i] = given[i]
    BY <1>1, <2>2, Lengths, HeldByte
  <2> QED BY <2>1, <2>3 DEF PublicKey
<1>7. PublicKey = given
  <2>1. DOMAIN given = 1 .. ADDRESS_LENGTH /\ given = [i \in 1 .. ADDRESS_LENGTH |-> given[i]]
    BY <1>1, LenProperties DEF Bytes
  <2>2. DOMAIN PublicKey = 1 .. ADDRESS_LENGTH
        /\ PublicKey = [i \in 1 .. ADDRESS_LENGTH |-> PublicKey[i]]
    BY DEF PublicKey
  <2> QED BY <1>6, <2>1, <2>2
<1> QED BY <1>1, <1>2, <1>7 DEF AddressInv

(* Other calls, and the end of one, say nothing of a key.                  *)
LEMMA AddressStep == AddressInv /\ [Next]_vars => AddressInv'
<1> SUFFICES ASSUME AddressInv, [Next]_vars PROVE AddressInv'
  OBVIOUS
<1>1. ASSUME op' # "from_bin" PROVE AddressInv'
  BY <1>1 DEF AddressInv
<1>2. CASE UNCHANGED vars
  BY <1>2 DEF vars, loopVars, AddressInv, EncodeTypes, EncodeCounts, EncodeHolds, DecodeTypes,
              DecodeHolds, Digits32
<1>3. CASE \E key \in Key : vertices_account_new_from_bin(key)
  BY <1>3, KeyGiven
<1>4. CASE b32_encode
  BY <1>1, <1>4, DigitTaken DEF b32_encode
<1>5. CASE AddressEncoded
  BY <1>1, <1>5, AddressIsRead DEF AddressEncoded
<1>6. CASE b32_decode
  BY <1>1, <1>6, CharacterRead DEF b32_decode
<1>7. CASE from_b32_init
  BY <1>1, <1>7, KeyRead DEF from_b32_init, Return
<1>8. CASE \/ \E public_b32 \in Address : vertices_account_new_from_b32(public_b32)
           \/ \E value \in Value : EncodeValue(value)
           \/ \E seed \in Seed : vertices_mnemonic_from_sk(seed)
  BY <1>1, <1>8 DEF vertices_account_new_from_b32, EncodeValue, vertices_mnemonic_from_sk, Call
<1>9. CASE \E text \in Text, size \in Capacity : DecodeText(text, size)
  BY <1>1, <1>9 DEF DecodeText
<1>10. CASE \E phrase \in Phrases : vertices_s_account_new_from_mnemonic(phrase)
  BY <1>1, <1>10 DEF vertices_s_account_new_from_mnemonic
<1>11. CASE b64_encode \/ ValueEncoded \/ b64_decode \/ b64_decode_done
  BY <1>1, <1>11 DEF AddressInv, b64_encode, ValueEncoded, b64_decode, b64_decode_done,
                    StartDecoding, Return, Loop
<1>12. CASE \/ b2048_encode \/ mnemonic_from_seed
            \/ WordAdded \/ UnknownWord \/ ByteStored \/ SeedRecovered
  BY <1>1, <1>12 DEF AddressInv, b2048_encode, mnemonic_from_seed, WordAdded, UnknownWord,
                    ByteStored, SeedRecovered, Return
<1>13. CASE Forget
  BY <1>1, <1>13 DEF Forget
<1> QED BY <1>2, <1>3, <1>4, <1>5, <1>6, <1>7, <1>8, <1>9, <1>10, <1>11, <1>12, <1>13 DEF Next

(* The account of a binary key has that key, whatever the lengths are, as  *)
(* long as the address has room for the bits, and whatever else is called. *)
THEOREM AddressKeepsKey == Spec => []AddressGivesItsKey
<1>1. Init => AddressInv
  BY DEF Init, AddressInv
<1>2. AddressInv => AddressGivesItsKey
  BY DEF AddressInv, AddressGivesItsKey
<1> QED BY <1>1, <1>2, AddressStep, PTL DEF Spec
-----------------------------------------------------------------------------
(* From a seed to its words and back.  The words hold a byte more than the *)
(* seed, which is 0: all is said of the seed with that byte.               *)
Padded(seed) == Append(seed, Zeros(BYTE))

IsPhraseOf(words, seed) ==
  /\ words \in Seq(BitSeq) /\ Len(words) = SEED_WORDS + 1
  /\ \A j \in 1 .. SEED_WORDS : /\ words[j] \in Bits(WORD)
                                /\ Holds(words[j], WORD * (j - 1), Padded(seed))
  /\ words[SEED_WORDS + 1] = checksum(seed)

WriteTypes ==
  /\ in = given /\ next \in 1 .. SEED_LENGTH + 1
  /\ bits \in BitSeq /\ Len(bits) < WORD
  /\ out \in Seq(Bits(WORD))

WriteHolds ==
  /\ BYTE * (next - 1) = WORD * Len(out) + Len(bits)
  /\ Holds(bits, WORD * Len(out), Padded(given))
  /\ \A j \in 1 .. Len(out) : Holds(out[j], WORD * (j - 1), Padded(given))

ReadTypes ==
  /\ next \in 1 .. SEED_WORDS + 1 /\ Len(in) = SEED_WORDS
  /\ \A j \in 1 .. SEED_WORDS : in[j] \in Bits(WORD)
  /\ bits \in BitSeq /\ Len(bits) < WORD + BYTE
  /\ out \in Seq(Bits(BYTE))

ReadHolds ==
  /\ WORD * (next - 1) = BYTE * Len(out) + Len(bits)
  /\ \A j \in 1 .. SEED_WORDS : Holds(in[j], WORD * (j - 1), Padded(given.seed))
  /\ Holds(bits, BYTE * Len(out), Padded(given.seed))
  /\ \A j \in 1 .. Len(out) : Holds(out[j], BYTE * (j - 1), Padded(given.seed))

Written ==
  /\ given \in Seed /\ fn \in {"none", "b2048_encode"}
  /\ fn = "b2048_encode" => ret = "none" /\ WriteTypes /\ WriteHolds
  /\ fn = "none" => ret = "SUCCESS" /\ IsPhraseOf(got.words, given)

ReadBack ==
  /\ given.seed \in Seed /\ fn \in {"none", "seed_from_mnemonic"}
  /\ fn = "seed_from_mnemonic" =>
       ret = "none" /\ Checkword = checksum(given.seed) /\ ReadTypes /\ ReadHolds
  /\ fn = "none" => ret = "SUCCESS" /\ got = given.seed

OwnWords == op = "seed" /\ given.seed # <<>> /\ given.separator = "\n"

MnemonicInv == (op = "mnemonic" => Written) /\ (OwnWords => ReadBack)

(* The words of a mnemonic hold a byte more than the seed.                   *)
LEMMA WordsHoldSeed ==
  /\ SEED_LENGTH \in Nat /\ SEED_LENGTH # 0 /\ SEED_WORDS \in Nat
  /\ WORD * SEED_WORDS = BYTE * (SEED_LENGTH + 1)
BY WordsAssumption DEF BYTE, WORD

(* The seed is the beginning of the bytes the words hold.                    *)
LEMMA PaddedSeed ==
  ASSUME NEW seed \in Seed
  PROVE  /\ seed \in Bytes(SEED_LENGTH) /\ Padded(seed) \in Bytes(SEED_LENGTH + 1)
         /\ \A i \in 1 .. SEED_LENGTH : Padded(seed)[i] = seed[i]
         /\ Padded(seed)[SEED_LENGTH + 1] = Zeros(BYTE)
<1>1. seed \in Bytes(SEED_LENGTH)
  BY SeedAssumption, WordsHoldSeed, BytesAreASeq
<1>2. Zeros(BYTE) \in Bits(BYTE)
  BY DEF Zeros, Bits
<1> DEFINE zero == Zeros(BYTE)
<1> HIDE DEF zero
<1>3. /\ Append(seed, zero) \in Seq(Bits(BYTE)) /\ Len(Append(seed, zero)) = SEED_LENGTH + 1
      /\ \A i \in 1 .. SEED_LENGTH : Append(seed, zero)[i] = seed[i]
      /\ Append(seed, zero)[SEED_LENGTH + 1] = zero
  BY <1>1, <1>2, WordsHoldSeed DEF Bytes, zero
<1> QED BY <1>1, <1>3 DEF Bytes, Padded, zero

(* The checksum of a seed is a known word.                                   *)
LEMMA ChecksumIsAWord ==
  ASSUME NEW seed \in Seed
  PROVE  checksum(seed) \in BitSeq /\ checksum(seed) # Unknown
<1> DEFINE d == Digest(seed)[1] \o Digest(seed)[2]
<1>1. Digest(seed)[1] \in Bits(8) /\ Digest(seed)[2] \in Bits(8)
  <2>1. Digest(seed) \in Seq(Bits(BYTE)) /\ Len(Digest(seed)) >= 2
    BY SeedAssumption
  <2>2. 1 \in 1 .. Len(Digest(seed)) /\ 2 \in 1 .. Len(Digest(seed))
    BY <2>1, LenProperties
  <2> QED BY <2>1, <2>2, ElementOfSeq DEF BYTE
<1>2. /\ Digest(seed)[1] \in BitSeq /\ Len(Digest(seed)[1]) = 8
      /\ Digest(seed)[2] \in BitSeq /\ Len(Digest(seed)[2]) = 8
  BY <1>1, BitsAreASeq
<1>3. d \in BitSeq /\ Len(d) = Len(Digest(seed)[1]) + Len(Digest(seed)[2])
  BY <1>2, ConcatProperties DEF BitSeq
<1>4. Len(d) \in Nat /\ Len(d) >= WORD
  BY <1>2, <1>3 DEF WORD
<1> HIDE DEF d
<1>5. SubSeq(d, 1, WORD) \in Bits(WORD)
  <2>1. 0 \in Nat /\ WORD \in 0 .. Len(d)
    BY <1>4 DEF WORD
  <2>2. Holds(d, 0, <<>>) /\ Len(<<>>) \in Nat
    BY EmptySeq DEF Holds
  <2> QED BY <1>3, <2>1, <2>2, PartHolds
<1>6. SubSeq(d, 1, WORD) \in BitSeq /\ Len(SubSeq(d, 1, WORD)) = WORD
  <2>1. WORD \in Nat
    BY DEF WORD
  <2> QED BY <1>5, <2>1, BitsAreASeq
<1>7. SubSeq(d, 1, WORD) # Unknown
  <2>1. Len(Unknown) = 0 /\ WORD # 0
    BY EmptySeq DEF Unknown, WORD
  <2> QED BY <1>6, <2>1
<1> QED BY <1>6, <1>7 DEF checksum, d

(* The state vertices_mnemonic_from_sk leaves is the encoder's first.        *)
LEMMA SeedGiven ==
  ASSUME NEW seed \in Seed, vertices_mnemonic_from_sk(seed)
  PROVE  MnemonicInv'
<1> USE DEF BYTE, WORD
<1>1. /\ op' = "mnemonic" /\ given' = seed /\ fn' = "b2048_encode" /\ ret' = "none"
      /\ in' = seed /\ next' = 1 /\ bits' = <<>> /\ out' = <<>>
  BY DEF vertices_mnemonic_from_sk, Call, Loop
<1>2. Len(bits') = 0 /\ Len(out') = 0
  BY <1>1, EmptySeq
<1>3. WriteTypes'
  BY <1>1, <1>2, WordsHoldSeed, EmptySeq DEF WriteTypes, BitSeq
<1>4. WriteHolds'
  BY <1>1, <1>2 DEF WriteHolds, Holds
<1> QED BY <1>1, <1>3, <1>4 DEF MnemonicInv, OwnWords, Written

(* A byte goes into the integer, and a word out of it when there is one.   *)
LEMMA ByteWritten ==
  ASSUME MnemonicInv, op = "mnemonic", b2048_encode
  PROVE  MnemonicInv'
<1> USE DEF BYTE, WORD
<1> DEFINE val == bits \o in[next]
           word == SubSeq(val, 1, WORD)
           from == WORD * Len(out)
           bytes == Padded(given)
<1>1. /\ WriteTypes /\ WriteHolds /\ InputLeft /\ given \in Seed /\ ret = "none"
      /\ fn = "b2048_encode"
  BY DEF MnemonicInv, Written, b2048_encode
<1>2. /\ given \in Bytes(SEED_LENGTH) /\ bytes \in Bytes(SEED_LENGTH + 1)
      /\ \A i \in 1 .. SEED_LENGTH : bytes[i] = given[i]
  BY <1>1, PaddedSeed
<1> HIDE DEF bytes
<1>3. /\ SEED_LENGTH \in Nat /\ Len(given) = SEED_LENGTH /\ Len(bytes) \in Nat
      /\ next \in 1 .. SEED_LENGTH /\ Len(out) \in Nat
      /\ bits \in BitSeq /\ Len(bits) \in Nat /\ Len(bits) < WORD
  BY <1>1, <1>2, WordsHoldSeed, LenProperties DEF WriteTypes, Bytes, BitSeq, InputLeft
<1>4. /\ val = bits \o bytes[next] /\ bytes[next] \in BitSeq /\ Len(bytes[next]) = BYTE
      /\ Holds(bytes[next], BYTE * (next - 1), bytes)
  <2>1. next \in 1 .. SEED_LENGTH + 1 /\ SEED_LENGTH + 1 \in Nat
    BY <1>3
  <2>2. in[next] = bytes[next]
    BY <1>1, <1>2, <1>3 DEF WriteTypes
  <2> QED BY <1>2, <2>1, <2>2, ByteHolds
<1>5. from \in Nat /\ from = WORD * Len(out) /\ BYTE * (next - 1) = from + Len(bits)
  BY <1>1, <1>3 DEF WriteHolds
<1>6. Holds(bits, from, bytes)
  BY <1>1 DEF WriteHolds, bytes
<1> HIDE DEF from
<1>7. val \in BitSeq /\ Len(val) = Len(bits) + BYTE /\ Holds(val, from, bytes)
  BY <1>3, <1>4, <1>5, <1>6, JoinedHolds
<1>8. /\ next' = next + 1
      /\ Len(val) >= WORD => out' = Append(out, word) /\ bits' = From(val, WORD + 1)
      /\ Len(val) < WORD => out' = out /\ bits' = val
      /\ UNCHANGED <<op, given, fn, in, ret, got>>
  <2>1. Len(val) < WORD <=> ~(Len(val) >= WORD)
    BY <1>3, <1>7
  <2> QED BY <2>1 DEF b2048_encode
<1> HIDE DEF val
<1>9. BYTE * (next' - 1) = from + Len(val) /\ next' \in 1 .. SEED_LENGTH + 1
  <2>1. next \in Int /\ from \in Int /\ Len(bits) \in Int
    BY <1>3, <1>5
  <2>2. next' - 1 = next /\ from + Len(val) = (from + Len(bits)) + BYTE
    BY <1>7, <1>8, <2>1
  <2>3. BYTE * (next' - 1) = from + Len(val)
    BY <1>5, <2>1, <2>2
  <2> QED BY <1>3, <1>8, <2>3
<1>10. CASE Len(val) < WORD
  <2>1. WriteTypes'
    BY <1>1, <1>7, <1>8, <1>9, <1>10 DEF WriteTypes
  <2>2. WriteHolds'
    BY <1>1, <1>5, <1>7, <1>8, <1>9, <1>10 DEF WriteHolds, bytes
  <2> QED BY <1>1, <1>8, <2>1, <2>2 DEF MnemonicInv, OwnWords, Written
<1>11. CASE Len(val) >= WORD
  <2>1. /\ word \in Bits(WORD) /\ Holds(word, from, bytes)
        /\ bits' \in BitSeq /\ Len(bits') = Len(val) - WORD
        /\ Holds(bits', from + WORD, bytes)
    <3>1. WORD \in 0 .. Len(val)
      BY <1>3, <1>7, <1>11
    <3> QED BY <1>3, <1>5, <1>7, <1>8, <1>11, <3>1, PartHolds
  <2> HIDE DEF word
  <2>2. /\ out' \in Seq(Bits(WORD)) /\ Len(out') = Len(out) + 1
        /\ \A j \in 1 .. Len(out) : out'[j] = out[j]
        /\ out'[Len(out) + 1] = word
    BY <1>1, <1>8, <1>11, <2>1, SMTT(30) DEF WriteTypes
  <2>3. WORD * Len(out') = from + WORD /\ Len(bits') < WORD
    BY <1>3, <1>5, <1>7, <2>1, <2>2
  <2>4. WriteTypes'
    BY <1>1, <1>8, <1>9, <2>1, <2>2, <2>3 DEF WriteTypes
  <2>5. BYTE * (next' - 1) = WORD * Len(out') + Len(bits')
    <3>1. from \in Int /\ Len(val) \in Int
      BY <1>3, <1>5, <1>7
    <3>2. (from + WORD) + (Len(val) - WORD) = from + Len(val)
      BY <3>1
    <3> QED BY <1>9, <2>1, <2>3, <3>2
  <2>6. ASSUME NEW j \in 1 .. Len(out')
        PROVE  Holds(out'[j], WORD * (j - 1), bytes)
    <3>1. CASE j \in 1 .. Len(out)
      BY <1>1, <2>2, <3>1 DEF WriteHolds, bytes
    <3>2. CASE j = Len(out) + 1
      BY <1>3, <1>5, <2>1, <2>2, <3>2
    <3> QED BY <1>3, <2>2, <3>1, <3>2
  <2>7. WriteHolds'
    BY <1>8, <2>1, <2>3, <2>5, <2>6 DEF WriteHolds, bytes
  <2> QED BY <1>1, <1>8, <2>4, <2>7 DEF MnemonicInv, OwnWords, Written
<1> QED BY <1>3, <1>7, <1>10, <1>11

(* What is left is 3 bits, and the last word is filled with zeros.         *)
LEMMA ThreeBitsLeft ==
  ASSUME NEW words \in Nat, NEW n \in Nat, NEW whole \in Nat, NEW rest \in Nat,
         11 * words = 8 * (n + 1), 8 * n = 11 * whole + rest, rest < 11
  PROVE  whole = words - 1 /\ rest = 3
OBVIOUS

(* b2048_encode leaves three bits; the last word is filled with zeros.       *)
LEMMA WordsWritten ==
  ASSUME MnemonicInv, op = "mnemonic", mnemonic_from_seed
  PROVE  MnemonicInv'
<1> USE DEF BYTE, WORD
<1> DEFINE bytes == Padded(given)
           from == WORD * Len(out)
           last == Widened(bits, WORD)
<1>1. /\ WriteTypes /\ WriteHolds /\ ~InputLeft /\ given \in Seed /\ ret = "none"
  BY DEF MnemonicInv, Written, mnemonic_from_seed
<1>2. /\ given \in Bytes(SEED_LENGTH) /\ bytes \in Bytes(SEED_LENGTH + 1)
      /\ bytes[SEED_LENGTH + 1] = Zeros(BYTE)
  BY <1>1, PaddedSeed
<1> HIDE DEF bytes
<1>3. /\ SEED_LENGTH \in Nat /\ SEED_WORDS \in Nat /\ Len(bytes) = SEED_LENGTH + 1
      /\ WORD * SEED_WORDS = BYTE * (SEED_LENGTH + 1)
      /\ next = SEED_LENGTH + 1 /\ Len(out) \in Nat
      /\ bits \in BitSeq /\ Len(bits) \in Nat /\ Len(bits) < WORD
  <2>1. Len(in) = SEED_LENGTH
    BY <1>1, <1>2 DEF WriteTypes, Bytes
  <2> QED BY <1>1, <1>2, <2>1, WordsHoldSeed, LenProperties DEF WriteTypes, Bytes, BitSeq, InputLeft
<1>4. Len(out) = SEED_WORDS - 1 /\ Len(bits) = 3
  <2>1. BYTE * SEED_LENGTH = WORD * Len(out) + Len(bits)
    BY <1>1, <1>3 DEF WriteHolds
  <2> QED BY <1>3, <2>1, ThreeBitsLeft
<1>5. from \in Nat /\ from = WORD * (SEED_WORDS - 1) /\ from + 3 = BYTE * SEED_LENGTH
  BY <1>3, <1>4
<1>6. Holds(bits, from, bytes)
  BY <1>1 DEF WriteHolds, bytes
<1> HIDE DEF from
<1> DEFINE fill == Zeros(WORD - 3)
<1>7. fill \in BitSeq /\ Len(fill) = WORD - 3 /\ \A m \in 1 .. WORD - 3 : fill[m] = 0
  <2>1. WORD - 3 \in Nat
    OBVIOUS
  <2> QED BY <2>1, ZerosAreASeq DEF Zeros
<1>8. last = bits \o fill
  BY <1>4 DEF Widened
<1> HIDE DEF fill, last
<1>9. Holds(fill, from + Len(bits), bytes)
  <2>1. ASSUME NEW i \in 1 .. SEED_LENGTH + 1, NEW k \in 1 .. BYTE, NEW m \in 1 .. WORD - 3,
               BYTE * (i - 1) + k = (from + Len(bits)) + m
        PROVE  fill[m] = bytes[i][k]
    <3>1. i = SEED_LENGTH + 1
      BY <1>3, <1>4, <1>5, <2>1
    <3> QED BY <1>2, <1>7, <3>1 DEF Zeros
  <2> QED BY <1>3, <1>7, <2>1 DEF Holds
<1>10. last \in Bits(WORD) /\ Holds(last, from, bytes)
  <2>1. Len(bytes) \in Nat
    BY <1>3
  <2>2. last \in BitSeq /\ Len(last) = Len(bits) + Len(fill) /\ Holds(last, from, bytes)
    BY <1>3, <1>5, <1>6, <1>7, <1>8, <1>9, <2>1, JoinedHolds
  <2>3. Len(last) = WORD
    BY <1>4, <1>7, <2>2
  <2> QED BY <2>2, <2>3, SeqIsBits
<1> DEFINE sum == checksum(given)
           words == Append(Append(out, last), sum)
<1>11. /\ ret' = "SUCCESS" /\ fn' = "none" /\ got'.words = words
       /\ UNCHANGED <<op, given>>
  <2>1. bits # <<>>
    BY <1>4, EmptySeq, SMTT(30)
  <2> QED BY <2>1 DEF mnemonic_from_seed, Return, Words, last
<1>12. sum \in BitSeq /\ last \in BitSeq /\ out \in Seq(BitSeq)
  <2>1. \A b \in Bits(11) : b \in BitSeq
    BY BitsAreASeq
  <2>2. Bits(WORD) \subseteq BitSeq
    BY <2>1
  <2> QED BY <1>1, <1>10, <2>2, ChecksumIsAWord, SeqMonotonic DEF WriteTypes
<1> HIDE DEF sum
<1>13. /\ words \in Seq(BitSeq) /\ Len(words) = SEED_WORDS + 1
       /\ \A j \in 1 .. SEED_WORDS - 1 : words[j] = out[j]
       /\ words[SEED_WORDS] = last /\ words[SEED_WORDS + 1] = sum
  <2>1. /\ Append(out, last) \in Seq(BitSeq) /\ Len(Append(out, last)) = SEED_WORDS
        /\ \A j \in 1 .. SEED_WORDS - 1 : Append(out, last)[j] = out[j]
        /\ Append(out, last)[SEED_WORDS] = last
    BY <1>3, <1>4, <1>12
  <2> DEFINE head == Append(out, last)
  <2> HIDE DEF head
  <2>2. /\ Append(head, sum) \in Seq(BitSeq) /\ Len(Append(head, sum)) = SEED_WORDS + 1
        /\ \A j \in 1 .. SEED_WORDS : Append(head, sum)[j] = head[j]
        /\ Append(head, sum)[SEED_WORDS + 1] = sum
    BY <1>3, <1>12, <2>1 DEF head
  <2>3. SEED_WORDS \in 1 .. SEED_WORDS
    BY <1>3, <1>4
  <2> QED BY <1>3, <2>1, <2>2, <2>3 DEF head
<1> HIDE DEF words
<1>14. ASSUME NEW j \in 1 .. SEED_WORDS
       PROVE  words[j] \in Bits(WORD) /\ Holds(words[j], WORD * (j - 1), bytes)
  <2>1. CASE j \in 1 .. SEED_WORDS - 1
    <3>1. out[j] \in Bits(WORD) /\ Holds(out[j], WORD * (j - 1), bytes)
      BY <1>1, <1>4, <2>1, ElementOfSeq DEF WriteTypes, WriteHolds, bytes
    <3> QED BY <1>13, <2>1, <3>1
  <2>2. CASE j = SEED_WORDS
    BY <1>5, <1>10, <1>13, <2>2
  <2> QED BY <1>3, <2>1, <2>2
<1>15. IsPhraseOf(words, given)
  BY <1>13, <1>14 DEF IsPhraseOf, bytes, sum
<1> QED BY <1>1, <1>11, <1>15 DEF MnemonicInv, OwnWords, Written

(* The words a call made, one to a line, are as many as there have to be.  *)
LEMMA PhraseGiven ==
  ASSUME MnemonicInv, NEW phrase, vertices_s_account_new_from_mnemonic(phrase)
  PROVE  MnemonicInv'
<1> USE DEF BYTE, WORD
<1>1. /\ op' = "seed" /\ given'.separator = phrase.separator /\ given'.words = phrase.words
      /\ given'.seed = IF op = "mnemonic" /\ phrase.words = got.words THEN given ELSE <<>>
  BY DEF vertices_s_account_new_from_mnemonic
<1>2. SUFFICES ASSUME OwnWords' PROVE ReadBack'
  BY <1>1 DEF MnemonicInv
<1> DEFINE words == phrase.words
<1>3. op = "mnemonic" /\ words = got.words /\ given'.seed = given /\ phrase.separator = "\n"
  BY <1>1, <1>2 DEF OwnWords
<1>4. given \in Seed /\ IsPhraseOf(words, given)
  BY <1>3 DEF MnemonicInv, Written, vertices_s_account_new_from_mnemonic, Idle
<1> HIDE DEF words
<1>5. /\ SEED_WORDS \in Nat /\ Len(words) = SEED_WORDS + 1 /\ words \in Seq(BitSeq)
      /\ words[Len(words)] = checksum(given) /\ words[Len(words)] # Unknown
  BY <1>4, WordsHoldSeed, ChecksumIsAWord DEF IsPhraseOf
<1>6. Tokens(phrase) - 1 = SEED_WORDS
  BY <1>3, <1>5 DEF Tokens, words
<1>7. /\ ret' = "none" /\ fn' = "seed_from_mnemonic" /\ in' = SubSeq(words, 1, SEED_WORDS)
      /\ next' = 1 /\ bits' = <<>> /\ out' = <<>>
  BY <1>5, <1>6 DEF vertices_s_account_new_from_mnemonic, Loop, words
<1>8. Len(in') = SEED_WORDS /\ \A j \in 1 .. SEED_WORDS : in'[j] = words[j]
  <2>1. \A j \in 1 .. SEED_WORDS : words[j] \in BitSeq
    BY <1>5, ElementOfSeq
  <2>2. /\ Len(SubSeq(words, 1, SEED_WORDS)) = IF 1 <= SEED_WORDS THEN SEED_WORDS - 1 + 1 ELSE 0
        /\ \A j \in 1 .. SEED_WORDS - 1 + 1 : SubSeq(words, 1, SEED_WORDS)[j] = words[1 + j - 1]
    BY <1>5, <2>1, SubSeqProperties
  <2> QED BY <1>5, <1>7, <2>2
<1>9. Checkword' = checksum(given'.seed)
  BY <1>1, <1>3, <1>5 DEF Checkword, words
<1>10. Len(bits') = 0 /\ Len(out') = 0
  BY <1>7, EmptySeq
<1>11. ReadTypes'
  BY <1>4, <1>5, <1>7, <1>8, <1>10, EmptySeq DEF ReadTypes, IsPhraseOf, BitSeq
<1>12. ReadHolds'
  <2>1. \A j \in 1 .. SEED_WORDS : Holds(in'[j], WORD * (j - 1), Padded(given'.seed))
    BY <1>3, <1>4, <1>8 DEF IsPhraseOf
  <2>2. Holds(bits', BYTE * Len(out'), Padded(given'.seed))
    BY <1>10 DEF Holds
  <2>3. WORD * (next' - 1) = BYTE * Len(out') + Len(bits')
    BY <1>7, <1>10
  <2>4. 1 .. Len(out') = {}
    BY <1>10
  <2> QED BY <2>1, <2>2, <2>3, <2>4 DEF ReadHolds
<1> QED BY <1>3, <1>4, <1>7, <1>9, <1>11, <1>12 DEF ReadBack

(* What is known while a mnemonic is read *)
LEMMA Reading ==
  ASSUME MnemonicInv, OwnWords, fn = "seed_from_mnemonic"
  PROVE  /\ ReadTypes /\ ReadHolds /\ given.seed \in Seed /\ ret = "none"
         /\ Checkword = checksum(given.seed)
         /\ Padded(given.seed) \in Bytes(SEED_LENGTH + 1) /\ Len(Padded(given.seed)) \in Nat
         /\ SEED_LENGTH \in Nat /\ SEED_WORDS \in Nat
         /\ next \in 1 .. SEED_WORDS + 1 /\ Len(in) = SEED_WORDS
         /\ Len(out) \in Nat /\ bits \in BitSeq /\ Len(bits) \in Nat
<1>1. ReadTypes /\ ReadHolds /\ given.seed \in Seed /\ ret = "none" /\ Checkword = checksum(given.seed)
  BY DEF MnemonicInv, ReadBack
<1>2. Padded(given.seed) \in Bytes(SEED_LENGTH + 1) /\ Len(Padded(given.seed)) = SEED_LENGTH + 1
  BY <1>1, PaddedSeed DEF Bytes
<1> QED BY <1>1, <1>2, WordsHoldSeed, LenProperties DEF ReadTypes, BitSeq

(* None of its words is unknown.                                           *)
LEMMA WordIsKnown ==
  ASSUME MnemonicInv, OwnWords, fn = "seed_from_mnemonic", InputLeft
  PROVE  /\ next \in 1 .. SEED_WORDS /\ in[next] # Unknown
         /\ in[next] \in BitSeq /\ Len(in[next]) = WORD
<1>1. next \in 1 .. SEED_WORDS
  BY Reading DEF InputLeft
<1>2. in[next] \in Bits(WORD) /\ WORD \in Nat
  BY <1>1, Reading DEF ReadTypes, WORD
<1>3. in[next] \in BitSeq /\ Len(in[next]) = WORD
  BY <1>2, BitsAreASeq
<1>4. in[next] # Unknown
  <2>1. Len(Unknown) = 0 /\ WORD # 0
    BY EmptySeq DEF Unknown, WORD
  <2> QED BY <1>3, <2>1
<1> QED BY <1>1, <1>3, <1>4

(* One more word joins the bits that are left: none of it is lost.           *)
LEMMA WordRead ==
  ASSUME MnemonicInv, OwnWords, WordAdded
  PROVE  MnemonicInv'
<1> USE DEF BYTE, WORD
<1> DEFINE bytes == Padded(given.seed)
           from == BYTE * Len(out)
<1>1. /\ fn = "seed_from_mnemonic" /\ Len(bits) < BYTE /\ InputLeft
      /\ bits' = bits \o in[next] /\ next' = next + 1
      /\ UNCHANGED <<op, given, fn, in, out, cap, ret, got>>
  BY DEF WordAdded
<1>2. /\ next \in 1 .. SEED_WORDS /\ SEED_WORDS \in Nat
      /\ in[next] \in BitSeq /\ Len(in[next]) = WORD
      /\ bits \in BitSeq /\ Len(bits) \in Nat /\ Len(out) \in Nat /\ Len(bytes) \in Nat
  BY <1>1, WordIsKnown, Reading
<1>3. /\ from \in Nat /\ WORD * (next - 1) = from + Len(bits)
      /\ Holds(in[next], WORD * (next - 1), bytes) /\ Holds(bits, from, bytes)
  BY <1>1, <1>2, Reading DEF ReadHolds
<1> HIDE DEF bytes
<1>4. Holds(in[next], from + Len(bits), bytes)
  BY <1>3
<1>5. bits' \in BitSeq /\ Len(bits') = Len(bits) + WORD /\ Holds(bits', from, bytes)
  BY <1>1, <1>2, <1>3, <1>4, JoinedHolds
<1>6. ReadTypes'
  <2>1. next' \in 1 .. SEED_WORDS + 1 /\ Len(bits') < WORD + BYTE
    BY <1>1, <1>2, <1>5
  <2> QED BY <1>1, <1>5, <2>1, Reading DEF ReadTypes
<1>7. WORD * (next' - 1) = from + Len(bits')
  <2> DEFINE n == Len(bits)
  <2>1. next \in Int /\ from \in Int /\ n \in Int
    BY <1>2, <1>3
  <2>2. WORD * (next' - 1) = WORD * next /\ WORD * next = WORD * (next - 1) + WORD
    BY <1>1, <2>1
  <2>3. Len(bits') = n + WORD /\ WORD * (next - 1) = from + n
    BY <1>3, <1>5
  <2> HIDE DEF n, from
  <2>4. (from + n) + WORD = from + (n + WORD)
    BY <2>1
  <2> QED BY <2>2, <2>3, <2>4
<1>8. ReadHolds'
  BY <1>1, <1>5, <1>7, Reading DEF ReadHolds, bytes
<1> QED BY <1>1, <1>6, <1>8, Reading DEF MnemonicInv, OwnWords, ReadBack, Checkword

(* The byte that is taken off the bits is the next one of the seed.          *)
LEMMA ByteRead ==
  ASSUME MnemonicInv, OwnWords, ByteStored
  PROVE  MnemonicInv'
<1> USE DEF BYTE, WORD
<1> DEFINE bytes == Padded(given.seed)
           from == BYTE * Len(out)
           byte == SubSeq(bits, 1, BYTE)
<1>1. /\ fn = "seed_from_mnemonic" /\ Len(bits) >= BYTE
      /\ out' = Append(out, byte) /\ bits' = From(bits, BYTE + 1)
      /\ UNCHANGED <<op, given, fn, in, next, cap, ret, got>>
  BY DEF ByteStored
<1>2. /\ bits \in BitSeq /\ Len(bits) \in Nat /\ Len(bits) < WORD + BYTE
      /\ Len(out) \in Nat /\ Len(bytes) \in Nat /\ next \in 1 .. SEED_WORDS + 1
      /\ out \in Seq(Bits(BYTE))
  BY <1>1, Reading DEF ReadTypes
<1>3. /\ from \in Nat /\ WORD * (next - 1) = from + Len(bits) /\ Holds(bits, from, bytes)
      /\ \A j \in 1 .. Len(out) : Holds(out[j], BYTE * (j - 1), bytes)
  BY <1>1, <1>2, Reading DEF ReadHolds
<1> HIDE DEF bytes
<1>4. /\ byte \in Bits(BYTE) /\ Holds(byte, from, bytes)
      /\ bits' \in BitSeq /\ Len(bits') = Len(bits) - BYTE
      /\ Holds(bits', from + BYTE, bytes)
  <2>1. BYTE \in 0 .. Len(bits)
    BY <1>1, <1>2
  <2> QED BY <1>1, <1>2, <1>3, <2>1, PartHolds
<1> HIDE DEF byte
<1>5. /\ out' \in Seq(Bits(BYTE)) /\ Len(out') = Len(out) + 1
      /\ \A j \in 1 .. Len(out) : out'[j] = out[j]
      /\ out'[Len(out) + 1] = byte
  BY <1>1, <1>2, <1>4
<1>6. BYTE * Len(out') = from + BYTE /\ Len(bits') < WORD + BYTE
  BY <1>2, <1>4, <1>5
<1>7. ReadTypes'
  BY <1>1, <1>4, <1>5, <1>6, Reading DEF ReadTypes
<1>8. WORD * (next' - 1) = BYTE * Len(out') + Len(bits')
  <2>1. (from + BYTE) + (Len(bits) - BYTE) = from + Len(bits)
    BY <1>2, <1>3
  <2> QED BY <1>1, <1>3, <1>4, <1>6, <2>1
<1>9. ASSUME NEW j \in 1 .. Len(out')
      PROVE  Holds(out'[j], BYTE * (j - 1), bytes)
  <2>1. CASE j \in 1 .. Len(out)
    BY <1>3, <1>5, <2>1
  <2>2. CASE j = Len(out) + 1
    BY <1>2, <1>4, <1>5, <2>2
  <2> QED BY <1>2, <1>5, <2>1, <2>2
<1>10. ReadHolds'
  BY <1>1, <1>4, <1>6, <1>8, <1>9, Reading DEF ReadHolds, bytes
<1> QED BY <1>1, <1>7, <1>10, Reading DEF MnemonicInv, OwnWords, ReadBack, Checkword

(* The last byte is the one of zeros, and no bits are left.                *)
LEMMA SeedRead ==
  ASSUME MnemonicInv, OwnWords, SeedRecovered
  PROVE  MnemonicInv'
<1> USE DEF BYTE, WORD
<1> DEFINE bytes == Padded(given.seed)
           seed == SubSeq(out, 1, SEED_LENGTH)
<1>1. fn = "seed_from_mnemonic" /\ Len(bits) < BYTE /\ ~InputLeft
  BY DEF SeedRecovered
<1>2. /\ SEED_LENGTH \in Nat /\ SEED_WORDS \in Nat /\ next = SEED_WORDS + 1
      /\ WORD * SEED_WORDS = BYTE * (SEED_LENGTH + 1)
      /\ Len(out) \in Nat /\ Len(bits) \in Nat /\ bits \in BitSeq /\ out \in Seq(Bits(BYTE))
      /\ bytes \in Bytes(SEED_LENGTH + 1) /\ given.seed \in Seed
  BY <1>1, Reading, WordsHoldSeed DEF ReadTypes, InputLeft
<1>3. /\ given.seed \in Bytes(SEED_LENGTH)
      /\ \A i \in 1 .. SEED_LENGTH : bytes[i] = given.seed[i]
      /\ bytes[SEED_LENGTH + 1] = Zeros(BYTE)
  BY <1>2, PaddedSeed
<1> HIDE DEF bytes
<1>4. Len(out) = SEED_LENGTH + 1 /\ Len(bits) = 0
  <2>1. WORD * (next - 1) = BYTE * Len(out) + Len(bits)
    BY <1>1, Reading DEF ReadHolds
  <2>2. WORD * (next - 1) = WORD * SEED_WORDS
    BY <1>2
  <2>3. BYTE * (SEED_LENGTH + 1) = BYTE * Len(out) + Len(bits)
    BY <1>2, <2>1, <2>2
  <2> QED BY <1>1, <1>2, <2>3
<1>5. ASSUME NEW j \in 1 .. SEED_LENGTH + 1
      PROVE  out[j] = bytes[j]
  <2>1. out[j] \in Bits(BYTE) /\ Holds(out[j], BYTE * (j - 1), bytes)
    BY <1>1, <1>2, <1>4, Reading, ElementOfSeq DEF ReadHolds, bytes
  <2> QED BY <1>2, <2>1, HeldByte
<1>6. SeedStored = out
  BY <1>2, <1>4, EmptySeq DEF SeedStored, BitSeq
<1>7. SeedStored[Len(SeedStored)] = Zeros(BYTE)
  <2>1. SEED_LENGTH + 1 \in 1 .. SEED_LENGTH + 1
    BY <1>2
  <2> QED BY <1>3, <1>4, <1>5, <1>6, <2>1
<1>8. seed \in Bytes(SEED_LENGTH) /\ \A j \in 1 .. SEED_LENGTH : seed[j] = given.seed[j]
  <2>1. \A j \in 1 .. SEED_LENGTH : j \in 1 .. Len(out) /\ out[j] \in Bits(BYTE) /\ out[j] = given.seed[j]
    BY <1>2, <1>3, <1>4, <1>5, ElementOfSeq
  <2>2. /\ seed \in Seq(Bits(BYTE))
        /\ Len(seed) = IF 1 <= SEED_LENGTH THEN SEED_LENGTH - 1 + 1 ELSE 0
        /\ \A j \in 1 .. SEED_LENGTH - 1 + 1 : seed[j] = out[1 + j - 1]
    BY <1>2, <2>1, SubSeqProperties
  <2>3. Len(seed) = SEED_LENGTH /\ \A j \in 1 .. SEED_LENGTH : seed[j] = out[j]
    BY <1>2, <2>2
  <2> QED BY <2>1, <2>2, <2>3 DEF Bytes
<1> HIDE DEF seed
<1>9. seed = given.seed
  BY <1>3, <1>8, SeqEqual DEF Bytes
<1>10. SubSeq(SeedStored, 1, Len(SeedStored) - 1) = given.seed
  BY <1>2, <1>4, <1>6, <1>9 DEF seed
<1>11. ret' = "SUCCESS" /\ got' = given.seed /\ fn' = "none" /\ UNCHANGED <<op, given>>
  BY <1>1, <1>7, <1>10, Reading DEF SeedRecovered, Return
<1> QED BY <1>2, <1>11 DEF MnemonicInv, OwnWords, ReadBack

(* Every step keeps it.                                                    *)
LEMMA MnemonicStep == MnemonicInv /\ [Next]_vars => MnemonicInv'
<1> SUFFICES ASSUME MnemonicInv, [Next]_vars PROVE MnemonicInv'
  OBVIOUS
<1>1. ASSUME op' \notin {"mnemonic", "seed"} PROVE MnemonicInv'
  BY <1>1 DEF MnemonicInv, OwnWords
<1>2. ASSUME op' = "seed", ~OwnWords' PROVE MnemonicInv'
  BY <1>2 DEF MnemonicInv
<1>3. CASE UNCHANGED vars
  BY <1>3 DEF vars, loopVars, MnemonicInv, OwnWords, Written, ReadBack, WriteTypes, WriteHolds,
              ReadTypes, ReadHolds, Checkword
<1>4. CASE \E seed \in Seed : vertices_mnemonic_from_sk(seed)
  BY <1>4, SeedGiven
<1>5. CASE \E phrase \in Phrases : vertices_s_account_new_from_mnemonic(phrase)
  BY <1>5, PhraseGiven
<1>6. CASE b2048_encode \/ mnemonic_from_seed
  <2>1. UNCHANGED <<op, given>> /\ fn = "b2048_encode"
    BY <1>6 DEF b2048_encode, mnemonic_from_seed, Return
  <2>2. OwnWords => FALSE
    BY <2>1 DEF MnemonicInv, ReadBack
  <2> QED BY <1>1, <1>2, <1>6, <2>1, <2>2, ByteWritten, WordsWritten DEF OwnWords, MnemonicInv
<1>7. CASE WordAdded \/ UnknownWord \/ ByteStored \/ SeedRecovered
  <2>1. UNCHANGED <<op, given>> /\ fn = "seed_from_mnemonic"
    BY <1>7 DEF WordAdded, UnknownWord, ByteStored, SeedRecovered, Return
  <2>2. op # "mnemonic"
    BY <2>1 DEF MnemonicInv, Written
  <2>3. CASE OwnWords
    <3>1. ~UnknownWord
      BY <2>3, WordIsKnown DEF UnknownWord
    <3> QED BY <1>7, <2>3, <3>1, WordRead, ByteRead, SeedRead
  <2> QED BY <2>1, <2>2, <2>3 DEF OwnWords, MnemonicInv
<1>8. CASE \/ \E key \in Key : vertices_account_new_from_bin(key)
           \/ \E public_b32 \in Address : vertices_account_new_from_b32(public_b32)
           \/ \E value \in Value : EncodeValue(value)
  BY <1>1, <1>8 DEF vertices_account_new_from_bin, vertices_account_new_from_b32, EncodeValue, Call
<1>9. CASE \E text \in Text, size \in Capacity : DecodeText(text, size)
  BY <1>1, <1>9 DEF DecodeText
<1>10. CASE \/ b32_encode \/ AddressEncoded \/ b32_decode \/ from_b32_init
            \/ b64_encode \/ ValueEncoded \/ b64_decode \/ b64_decode_done
  <2>1. UNCHANGED <<op, given>> /\ fn \notin {"none", "b2048_encode", "seed_from_mnemonic"}
    BY <1>10 DEF b32_encode, AddressEncoded, b32_decode, from_b32_init, b64_encode, ValueEncoded,
                 b64_decode, b64_decode_done, StartDecoding, Return
  <2> QED BY <2>1 DEF MnemonicInv, OwnWords, Written, ReadBack
<1>11. CASE Forget
  BY <1>1, <1>11 DEF Forget
<1> QED BY <1>3, <1>4, <1>5, <1>6, <1>7, <1>8, <1>9, <1>10, <1>11 DEF Next

(* The words of a seed give that seed, whatever its length and digest.     *)
THEOREM MnemonicKeepsSeed == Spec => []MnemonicGivesItsSeed
<1>1. Init => MnemonicInv
  BY DEF Init, MnemonicInv, OwnWords
<1>2. MnemonicInv => MnemonicGivesItsSeed
  BY DEF MnemonicInv, OwnWords, ReadBack, MnemonicGivesItsSeed
<1> QED BY <1>1, <1>2, MnemonicStep, PTL DEF Spec
-----------------------------------------------------------------------------
(* From a value to its text in base 64 and back.  Three bytes become four  *)
(* characters: g groups of them have been written, or, of the text that is *)
(* read, h groups.                                                         *)
DigitCount(v, g) == IF 3 * g <= Len(v) THEN 4 * g ELSE Len(v) + g

IsSextet(c, k, v) ==
  c.kind = "digit" /\ c.bits \in Bits(DIGIT64) /\ Holds(c.bits, DIGIT64 * (k - 1), v)

IsTextOf(t, v, g) ==
  /\ t \in Seq(Character) /\ Len(t) = 4 * g /\ 3 * g <= Len(v) + 2
  /\ \A k \in 1 .. 4 * g : IF k <= DigitCount(v, g) THEN IsSextet(t[k], k, v)
                           ELSE t[k].kind # "digit"

Encoding64 ==
  /\ ret = "none" /\ in = given /\ cap = 4 * ((Len(given) + 2) \div 3)
  /\ \E g \in 0 .. Len(given) : next = 3 * g + 1 /\ IsTextOf(out, given, g)

(* The first bytes of the value that was given *)
IsBeginning(s, count) ==
  /\ s \in Seq(Bits(BYTE)) /\ Len(s) = count /\ count <= Len(given)
  /\ \A i \in 1 .. count : s[i] = given[i]

Decoding64 ==
  /\ ret = "none" /\ cap \in Nat
  /\ \E g \in 1 .. Len(given), h \in 0 .. Len(given) :
       /\ IsTextOf(in, given, g) /\ 3 * g >= Len(given) /\ cap >= 3 * g - 1
       /\ next = 4 * h + 1 /\ h < g
       /\ IsBeginning(out, 3 * h)

(* A value that needs no `=' may take a byte more than there is. *)
ValueFits == \/ Len(out) <= cap
             \/ Len(out) = cap + 1 /\ Len(out) % 3 = 0 /\ Len(given) = Len(out)

ValueInv ==
  op = "value" =>
    /\ given \in Value
    /\ fn \in {"none", "b64_encode", "b64_decode"}
    /\ fn = "b64_encode" => Encoding64
    /\ fn = "b64_decode" => Decoding64
    /\ fn = "none" => ret \in {"SUCCESS", "NO_MEM"} /\ (ret = "SUCCESS" => got = given)
    /\ Len(out) \in Nat /\ cap \in Nat /\ ValueFits

(* Whatever lies in the bytes, each piece of it does.                        *)
LEMMA PieceHolds ==
  ASSUME NEW s \in BitSeq, NEW from \in Nat, NEW bytes, Len(bytes) \in Nat,
         Holds(s, from, bytes), NEW a \in Nat, NEW w \in Nat, a + w <= Len(s)
  PROVE  /\ SubSeq(s, a + 1, a + w) \in Bits(w)
         /\ Holds(SubSeq(s, a + 1, a + w), from + a, bytes)
<1>1. Len(s) \in Nat /\ \A i \in 1 .. Len(s) : s[i] \in {0, 1}
  BY LenProperties, ElementOfSeq DEF BitSeq
<1>2. /\ SubSeq(s, a + 1, a + w) \in BitSeq /\ Len(SubSeq(s, a + 1, a + w)) = w
      /\ \A i \in 1 .. w : SubSeq(s, a + 1, a + w)[i] = s[a + i]
  <2>1. \A i \in a + 1 .. a + w : s[i] \in {0, 1}
    BY <1>1
  <2>2. a + 1 \in Int /\ a + w \in Int
    OBVIOUS
  <2>3. /\ SubSeq(s, a + 1, a + w) \in BitSeq
        /\ Len(SubSeq(s, a + 1, a + w)) = IF a + 1 <= a + w THEN (a + w) - (a + 1) + 1 ELSE 0
        /\ \A i \in 1 .. (a + w) - (a + 1) + 1 : SubSeq(s, a + 1, a + w)[i] = s[(a + 1) + i - 1]
    BY <2>1, <2>2, SubSeqProperties, SMTT(30) DEF BitSeq
  <2> QED BY <2>3, SMTT(30)
<1>3. SubSeq(s, a + 1, a + w) \in Bits(w)
  BY <1>2, SeqIsBits
<1>4. ASSUME NEW i \in 1 .. Len(bytes), NEW k \in 1 .. BYTE, NEW m \in 1 .. w,
             BYTE * (i - 1) + k = (from + a) + m
      PROVE  SubSeq(s, a + 1, a + w)[m] = bytes[i][k]
  <2>1. a + m \in 1 .. Len(s) /\ SubSeq(s, a + 1, a + w)[m] = s[a + m]
    BY <1>1, <1>2
  <2>2. BYTE * (i - 1) + k = from + (a + m)
    BY <1>4 DEF BYTE
  <2> QED BY <2>1, <2>2 DEF Holds
<1>5. Holds(SubSeq(s, a + 1, a + w), from + a, bytes)
  BY <1>2, <1>4 DEF Holds
<1> QED BY <1>3, <1>5

(* No bits lie anywhere. *)
LEMMA NothingHolds ==
  ASSUME NEW from, NEW bytes
  PROVE  << >> \in BitSeq /\ Len(<< >>) = 0 /\ Holds(<< >>, from, bytes)
BY EmptySeq DEF Holds, BitSeq

LEMMA ValueIsBytes ==
  ASSUME NEW v \in Value
  PROVE  v \in Bytes(Len(v)) /\ Len(v) \in Nat
BY TextAssumption, LenProperties DEF Bytes

(* The call: nothing is written yet. *)
LEMMA ValueGiven ==
  ASSUME NEW v \in Value, EncodeValue(v)
  PROVE  ValueInv'
<1>1. /\ op' = "value" /\ given' = v /\ fn' = "b64_encode" /\ ret' = "none"
      /\ in' = v /\ next' = 1 /\ out' = <<>> /\ cap' = 4 * ((Len(v) + 2) \div 3)
  BY DEF EncodeValue, Call, Loop
<1>2. Len(v) \in Nat /\ (Len(v) + 2) \div 3 \in Nat
  BY ValueIsBytes
<1>3. out' \in Seq(Character) /\ Len(out') = 0
  BY <1>1, EmptySeq
<1>4. IsTextOf(out', v, 0)
  BY <1>2, <1>3 DEF IsTextOf
<1>5. 0 \in 0 .. Len(v) /\ next' = 3 * 0 + 1
  BY <1>1, <1>2
<1>6. Encoding64'
  BY <1>1, <1>4, <1>5 DEF Encoding64
<1>7. Len(out') \in Nat /\ cap' \in Nat /\ ValueFits'
  BY <1>1, <1>2, <1>3 DEF ValueFits
<1> QED BY <1>1, <1>6, <1>7 DEF ValueInv

(* The bytes of one group, filled with zeros, lie where they lie in the    *)
(* value.                                                                  *)
Triple(v, g, c) ==
  Widened(v[3 * g + 1] \o (IF c > 1 THEN v[3 * g + 2] ELSE <<>>)
                       \o (IF c > 2 THEN v[3 * g + 3] ELSE <<>>), 3 * BYTE)

LEMMA TripleHolds ==
  ASSUME NEW n \in Nat, NEW v \in Bytes(n), NEW g \in Nat, NEW c \in 1 .. 3,
         3 * g + c <= n, c = 3 \/ n = 3 * g + c
  PROVE  Triple(v, g, c) \in BitSeq /\ Len(Triple(v, g, c)) = 24 /\ Holds(Triple(v, g, c), 24 * g, v)
<1> USE DEF BYTE
<1> DEFINE s1 == v[3 * g + 1]
           s2 == IF c > 1 THEN v[3 * g + 2] ELSE <<>>
           s3 == IF c > 2 THEN v[3 * g + 3] ELSE <<>>
           l2 == IF c > 1 THEN 8 ELSE 0
           l3 == IF c > 2 THEN 8 ELSE 0
           from == 24 * g
<1>1. Len(v) = n /\ Len(v) \in Nat /\ from \in Nat /\ from = 24 * g
  BY DEF Bytes
<1>2. s1 \in BitSeq /\ Len(s1) = 8 /\ Holds(s1, from, v)
  <2>1. 3 * g + 1 \in 1 .. n
    OBVIOUS
  <2>2. /\ v[3 * g + 1] \in BitSeq /\ Len(v[3 * g + 1]) = BYTE
        /\ Holds(v[3 * g + 1], BYTE * ((3 * g + 1) - 1), v)
    BY <2>1, ByteHolds
  <2>3. BYTE * ((3 * g + 1) - 1) = from
    OBVIOUS
  <2> QED BY <2>2, <2>3
<1>3. s2 \in BitSeq /\ Len(s2) = l2 /\ Holds(s2, from + 8, v)
  <2>1. CASE c > 1
    <3>1. 3 * g + 2 \in 1 .. n
      BY <2>1
    <3>2. /\ v[3 * g + 2] \in BitSeq /\ Len(v[3 * g + 2]) = BYTE
          /\ Holds(v[3 * g + 2], BYTE * ((3 * g + 2) - 1), v)
      BY <3>1, ByteHolds
    <3>3. BYTE * ((3 * g + 2) - 1) = from + 8
      OBVIOUS
    <3> QED BY <2>1, <3>2, <3>3
  <2>2. CASE ~(c > 1)
    BY <2>2, NothingHolds
  <2> QED BY <2>1, <2>2
<1>4. s3 \in BitSeq /\ Len(s3) = l3 /\ Holds(s3, from + 16, v)
  <2>1. CASE c > 2
    <3>1. 3 * g + 3 \in 1 .. n
      BY <2>1
    <3>2. /\ v[3 * g + 3] \in BitSeq /\ Len(v[3 * g + 3]) = BYTE
          /\ Holds(v[3 * g + 3], BYTE * ((3 * g + 3) - 1), v)
      BY <3>1, ByteHolds
    <3>3. BYTE * ((3 * g + 3) - 1) = from + 16
      OBVIOUS
    <3> QED BY <2>1, <3>2, <3>3
  <2>2. CASE ~(c > 2)
    BY <2>2, NothingHolds
  <2> QED BY <2>1, <2>2
<1> HIDE DEF s1, s2, s3
<1>5. s1 \o s2 \in BitSeq /\ Len(s1 \o s2) = 8 + l2 /\ Holds(s1 \o s2, from, v)
  BY <1>1, <1>2, <1>3, JoinedHolds
<1>6. Holds(s3, from + Len(s1 \o s2), v)
  <2>1. CASE c > 1
    BY <1>1, <1>4, <1>5, <2>1
  <2>2. CASE ~(c > 1)
    <3>1. s3 = <<>>
      BY <2>2 DEF s3
    <3> QED BY <3>1, NothingHolds
  <2> QED BY <2>1, <2>2
<1> DEFINE s == s1 \o s2 \o s3
<1>7. s \in BitSeq /\ Len(s) = 8 + l2 + l3 /\ Holds(s, from, v)
  <2>1. Len(s1 \o s2) \in Nat /\ l2 \in Nat /\ l3 \in Nat
    BY <1>5
  <2>2. s \in BitSeq /\ Len(s) = Len(s1 \o s2) + Len(s3) /\ Holds(s, from, v)
    BY <1>1, <1>4, <1>5, <1>6, JoinedHolds
  <2> QED BY <1>4, <1>5, <2>1, <2>2
<1>8. 8 + l2 + l3 = 8 * c
  OBVIOUS
<1> DEFINE zeros == Zeros(24 - Len(s))
<1>9. zeros \in BitSeq /\ Len(zeros) = 24 - 8 * c /\ Holds(zeros, from + Len(s), v)
  <2>1. 24 - Len(s) \in Nat /\ 24 - Len(s) = 24 - 8 * c
    BY <1>7, <1>8
  <2>2. zeros \in BitSeq /\ Len(zeros) = 24 - 8 * c
    BY <2>1, ZerosAreASeq
  <2>3. CASE c = 3
    <3>1. Len(zeros) = 0
      BY <2>2, <2>3
    <3> HIDE DEF zeros
    <3> QED BY <2>2, <3>1 DEF Holds
  <2>4. CASE c # 3
    <3>1. from + Len(s) \in Nat /\ from + Len(s) >= BYTE * n
      BY <1>1, <1>7, <1>8, <2>4
    <3> HIDE DEF zeros, from
    <3> QED BY <2>2, <3>1, HoldsBehind
  <2> QED BY <2>2, <2>3, <2>4
<1> HIDE DEF s, zeros
<1>10. s \o zeros \in BitSeq /\ Len(s \o zeros) = 24 /\ Holds(s \o zeros, from, v)
  <2>1. /\ s \o zeros \in BitSeq /\ Len(s \o zeros) = Len(s) + Len(zeros)
        /\ Holds(s \o zeros, from, v)
    BY <1>1, <1>7, <1>9, JoinedHolds
  <2> QED BY <1>7, <1>8, <1>9, <2>1
<1>11. Triple(v, g, c) = s \o zeros
  BY DEF Triple, Widened, s, zeros, s1, s2, s3
<1> QED BY <1>1, <1>10, <1>11

(* Three sequences of characters written one after another. *)
LEMMA ThreeJoined ==
  ASSUME NEW S, NEW s \in Seq(S), NEW t \in Seq(S), NEW u \in Seq(S)
  PROVE  /\ s \o t \o u \in Seq(S) /\ Len(s \o t \o u) = Len(s) + Len(t) + Len(u)
         /\ \A k \in 1 .. Len(s) : (s \o t \o u)[k] = s[k]
         /\ \A k \in 1 .. Len(t) : (s \o t \o u)[Len(s) + k] = t[k]
         /\ \A k \in 1 .. Len(u) : (s \o t \o u)[Len(s) + Len(t) + k] = u[k]
<1>1. Len(s) \in Nat /\ Len(t) \in Nat /\ Len(u) \in Nat
  BY LenProperties
<1> DEFINE st == s \o t
<1>2. /\ st \in Seq(S) /\ Len(st) = Len(s) + Len(t)
      /\ \A k \in 1 .. Len(s) : st[k] = s[k]
      /\ \A k \in 1 .. Len(t) : st[Len(s) + k] = t[k]
  <2>1. /\ st \in Seq(S) /\ Len(st) = Len(s) + Len(t)
        /\ \A k \in 1 .. Len(s) + Len(t) : st[k] = IF k <= Len(s) THEN s[k] ELSE t[k - Len(s)]
    BY ConcatProperties
  <2> HIDE DEF st
  <2>2. ASSUME NEW k \in 1 .. Len(t) PROVE st[Len(s) + k] = t[k]
    <3>1. /\ Len(s) + k \in 1 .. Len(s) + Len(t) /\ ~(Len(s) + k <= Len(s))
          /\ (Len(s) + k) - Len(s) = k
      BY <1>1
    <3> QED BY <2>1, <3>1
  <2>3. \A k \in 1 .. Len(s) : st[k] = s[k]
    BY <1>1, <2>1
  <2> QED BY <2>1, <2>2, <2>3
<1> HIDE DEF st
<1> DEFINE stu == st \o u
<1>3. /\ stu \in Seq(S) /\ Len(stu) = Len(st) + Len(u)
      /\ \A k \in 1 .. Len(st) + Len(u) : stu[k] = IF k <= Len(st) THEN st[k] ELSE u[k - Len(st)]
  <2>1. st \in Seq(S) /\ u \in Seq(S)
    BY <1>2
  <2> QED BY <2>1, ConcatProperties
<1> HIDE DEF stu
<1>4. \A k \in 1 .. Len(s) : stu[k] = s[k]
  BY <1>1, <1>2, <1>3
<1>5. \A k \in 1 .. Len(t) : stu[Len(s) + k] = t[k]
  <2> SUFFICES ASSUME NEW k \in 1 .. Len(t) PROVE stu[Len(s) + k] = t[k]
    OBVIOUS
  <2>1. Len(s) + k \in 1 .. Len(st) + Len(u) /\ Len(s) + k <= Len(st)
    BY <1>1, <1>2
  <2> QED BY <1>2, <1>3, <2>1
<1>6. \A k \in 1 .. Len(u) : stu[Len(s) + Len(t) + k] = u[k]
  <2> SUFFICES ASSUME NEW k \in 1 .. Len(u) PROVE stu[Len(s) + Len(t) + k] = u[k]
    OBVIOUS
  <2>1. Len(st) + k \in 1 .. Len(st) + Len(u) /\ ~(Len(st) + k <= Len(st))
        /\ (Len(st) + k) - Len(st) = k
    BY <1>1, <1>2
  <2>2. stu[Len(st) + k] = u[k]
    BY <1>3, <2>1
  <2> QED BY <1>2, <2>2
<1> QED BY <1>1, <1>2, <1>3, <1>4, <1>5, <1>6 DEF stu, st

(* The characters of a group, as many as hold its bytes. *)
GroupOf(v, g, c) ==
  [i \in 1 .. c + 1 |-> Char(SubSeq(Triple(v, g, c), (i - 1) * DIGIT64 + 1, i * DIGIT64))]

LEMMA DigitsOfGroup ==
  ASSUME NEW n \in Nat, NEW v \in Bytes(n), NEW g \in Nat, NEW c \in 1 .. 3,
         3 * g + c <= n, c = 3 \/ n = 3 * g + c
  PROVE  /\ GroupOf(v, g, c) \in Seq(Character) /\ Len(GroupOf(v, g, c)) = c + 1
         /\ \A i \in 1 .. c + 1 : IsSextet(GroupOf(v, g, c)[i], 4 * g + i, v)
<1> DEFINE t == Triple(v, g, c)
           digits == GroupOf(v, g, c)
<1>1. t \in BitSeq /\ Len(t) = 24 /\ Holds(t, 24 * g, v)
  BY TripleHolds
<1>2. Len(v) \in Nat /\ 24 * g \in Nat
  BY DEF Bytes
<1> HIDE DEF t
<1>3. ASSUME NEW i \in 1 .. c + 1
      PROVE  digits[i] \in Character /\ IsSextet(digits[i], 4 * g + i, v)
  <2> DEFINE a == 6 * (i - 1)
             piece == SubSeq(t, a + 1, a + 6)
             from == 24 * g + a
  <2>1. a \in Nat /\ a + 6 <= Len(t)
    BY <1>1
  <2>2. (i - 1) * DIGIT64 + 1 = a + 1 /\ i * DIGIT64 = a + 6
    BY DEF DIGIT64
  <2>3. digits[i] = Char(piece)
    BY <2>2 DEF t, GroupOf
  <2>4. piece \in Bits(6) /\ Holds(piece, from, v)
    <3> HIDE DEF a
    <3>1. 24 * g \in Nat /\ a \in Nat /\ 6 \in Nat
      BY <1>2, <2>1
    <3> HIDE DEF from, piece
    <3>2. /\ SubSeq(t, a + 1, a + 6) \in Bits(6)
          /\ Holds(SubSeq(t, a + 1, a + 6), 24 * g + a, v)
      BY <1>1, <1>2, <2>1, <3>1, PieceHolds
    <3> QED BY <3>2 DEF from, piece
  <2>5. from = DIGIT64 * ((4 * g + i) - 1)
    BY DEF DIGIT64
  <2> HIDE DEF piece, from
  <2>6. piece \in BitSeq
    BY <2>4, BitsAreASeq
  <2>7. /\ Char(piece).kind = "digit" /\ Char(piece).bits = piece
        /\ Char(piece) \in Character
    BY <2>6 DEF Char, Character, BitSeq
  <2> QED BY <2>3, <2>4, <2>5, <2>7 DEF IsSextet, DIGIT64
<1>4. digits \in [1 .. c + 1 -> Character]
  BY <1>3 DEF GroupOf
<1>5. digits \in Seq(Character) /\ Len(digits) = c + 1
  BY <1>4, SeqDef, LenProperties
<1> QED BY <1>3, <1>5

LEMMA PadsAreCharacters ==
  ASSUME NEW n \in Nat
  PROVE  /\ Pads(n) \in Seq(Character) /\ Len(Pads(n)) = n
         /\ \A i \in 1 .. n : Pads(n)[i].kind # "digit"
<1>1. Pad \in Character
  BY EmptySeq DEF Pad, Character
<1>2. Pads(n) \in [1 .. n -> Character] /\ \A i \in 1 .. n : Pads(n)[i] = Pad
  BY <1>1 DEF Pads
<1>3. Pads(n) \in Seq(Character) /\ Len(Pads(n)) = n
  BY <1>2, SeqDef, LenProperties
<1> QED BY <1>2, <1>3 DEF Pad

(* A group more is written. *)
LEMMA GroupWritten ==
  ASSUME ValueInv, op = "value", b64_encode
  PROVE  ValueInv'
<1> DEFINE n == Len(given)
<1>1. /\ fn = "b64_encode" /\ given \in Value /\ ret = "none" /\ in = given
      /\ cap = 4 * ((n + 2) \div 3) /\ InputLeft
      /\ next' = next + 3 /\ UNCHANGED <<op, given, fn, in, cap, ret, got>>
  BY DEF ValueInv, b64_encode, Encoding64
<1>2. PICK g \in 0 .. n : next = 3 * g + 1 /\ IsTextOf(out, given, g)
  BY <1>1 DEF ValueInv, Encoding64
<1>3. n \in Nat /\ g \in Nat /\ given \in Bytes(n) /\ 3 * g < n
  BY <1>1, <1>2, ValueIsBytes DEF InputLeft
<1> DEFINE last == Smaller(next + 2, Len(in))
           c == last - 3 * g
           triple == Widened(in[next] \o (IF next < last THEN in[next + 1] ELSE <<>>)
                                      \o (IF next + 1 < last THEN in[next + 2] ELSE <<>>), 3 * BYTE)
           digits == [i \in 1 .. last - next + 2 |->
                        Char(SubSeq(triple, (i - 1) * DIGIT64 + 1, i * DIGIT64))]
           pads == Pads(4 - (last - next + 2))
<1>4. out' = out \o digits \o pads
  BY DEF b64_encode
<1>5. last = IF 3 * g + 3 < n THEN 3 * g + 3 ELSE n
  BY <1>1, <1>2, <1>3 DEF Smaller
<1>6. c \in 1 .. 3 /\ 3 * g + c <= n /\ (c = 3 \/ n = 3 * g + c) /\ last = 3 * g + c
  BY <1>3, <1>5
<1>7. triple = Triple(given, g, c)
  <2> HIDE DEF last, c
  <2>1. /\ next + 1 = 3 * g + 2 /\ next + 2 = 3 * g + 3
        /\ (next < last <=> c > 1) /\ (next + 1 < last <=> c > 2)
    BY <1>2, <1>3, <1>6
  <2> QED BY <1>1, <1>2, <2>1 DEF Triple
<1>8. last - next + 2 = c + 1 /\ 4 - (last - next + 2) = 3 - c
  <2> HIDE DEF last, c
  <2> QED BY <1>2, <1>3, <1>6
<1> HIDE DEF c, last
<1>9. digits = GroupOf(given, g, c)
  BY <1>7, <1>8, Zenon DEF GroupOf
<1> HIDE DEF digits, triple
<1>10. /\ digits \in Seq(Character) /\ Len(digits) = c + 1
       /\ \A i \in 1 .. c + 1 : IsSextet(digits[i], 4 * g + i, given)
  <2>1. /\ n \in Nat /\ given \in Bytes(n) /\ g \in Nat /\ c \in 1 .. 3
        /\ 3 * g + c <= n /\ (c = 3 \/ n = 3 * g + c)
    BY <1>3, <1>6
  <2> HIDE DEF n
  <2> QED BY <2>1, <1>9, DigitsOfGroup
<1>11. /\ pads \in Seq(Character) /\ Len(pads) = 3 - c
       /\ \A i \in 1 .. 3 - c : pads[i].kind # "digit"
  <2>1. pads = Pads(3 - c) /\ 3 - c \in Nat
    BY <1>6, <1>8
  <2> HIDE DEF pads
  <2> QED BY <2>1, PadsAreCharacters
<1> HIDE DEF pads
<1>12. out \in Seq(Character) /\ Len(out) = 4 * g /\ 3 * g <= n + 2
  BY <1>2 DEF IsTextOf
<1>13. /\ out' \in Seq(Character) /\ Len(out') = Len(out) + Len(digits) + Len(pads)
       /\ \A k \in 1 .. Len(out) : out'[k] = out[k]
       /\ \A k \in 1 .. Len(digits) : out'[Len(out) + k] = digits[k]
       /\ \A k \in 1 .. Len(pads) : out'[Len(out) + Len(digits) + k] = pads[k]
  <2>1. out \in Seq(Character) /\ digits \in Seq(Character) /\ pads \in Seq(Character)
    BY <1>10, <1>11, <1>12
  <2> QED BY <1>4, <2>1, ThreeJoined
<1>14. Len(out') = 4 * (g + 1)
  BY <1>3, <1>6, <1>10, <1>11, <1>12, <1>13
<1>15. DigitCount(given, g) = 4 * g /\ DigitCount(given, g + 1) = 4 * g + c + 1
  BY <1>3, <1>6 DEF DigitCount
<1>16. ASSUME NEW k \in 1 .. 4 * (g + 1)
       PROVE  IF k <= 4 * g + c + 1 THEN IsSextet(out'[k], k, given) ELSE out'[k].kind # "digit"
  <2>1. CASE k <= 4 * g
    <3>1. k \in 1 .. 4 * g /\ k <= 4 * g + c + 1 /\ k <= DigitCount(given, g)
      BY <1>3, <1>6, <1>15, <2>1
    <3>2. out'[k] = out[k]
      BY <1>12, <1>13, <3>1
    <3>3. IsSextet(out[k], k, given)
      BY <1>2, <3>1 DEF IsTextOf
    <3> QED BY <3>1, <3>2, <3>3
  <2>2. CASE k > 4 * g /\ k <= 4 * g + c + 1
    <3> DEFINE i == k - 4 * g
    <3>1. i \in 1 .. c + 1 /\ k = 4 * g + i
      BY <1>3, <1>6, <2>2
    <3> HIDE DEF i
    <3>2. out'[k] = digits[i]
      BY <1>10, <1>12, <1>13, <3>1
    <3> QED BY <1>10, <2>2, <3>1, <3>2
  <2>3. CASE k > 4 * g + c + 1
    <3> DEFINE i == k - (4 * g + c + 1)
    <3>1. i \in 1 .. 3 - c /\ k = 4 * g + (c + 1) + i
      BY <1>3, <1>6, <2>3
    <3> HIDE DEF i
    <3>2. out'[k] = pads[i]
      BY <1>10, <1>11, <1>12, <1>13, <3>1
    <3> QED BY <1>3, <1>6, <1>11, <2>3, <3>1, <3>2
  <2> QED BY <1>3, <1>6, <2>1, <2>2, <2>3
<1>17. IsTextOf(out', given, g + 1)
  <2>1. 3 * (g + 1) <= n + 2
    BY <1>3
  <2> QED BY <1>13, <1>14, <1>15, <1>16, <2>1 DEF IsTextOf
<1>18. g + 1 \in 0 .. n /\ next' = 3 * (g + 1) + 1
  BY <1>1, <1>2, <1>3
<1>19. Encoding64'
  BY <1>1, <1>17, <1>18 DEF Encoding64
<1>20. Len(out') \in Nat /\ cap' \in Nat /\ Len(out') <= cap'
  BY <1>1, <1>3, <1>14
<1> QED BY <1>1, <1>19, <1>20 DEF ValueInv, ValueFits

(* The bits of at most four characters, one after another. *)
Sextets(t, h, r) ==
  t[4 * h + 1].bits \o (IF r > 1 THEN t[4 * h + 2].bits ELSE <<>>)
                    \o (IF r > 2 THEN t[4 * h + 3].bits ELSE <<>>)
                    \o (IF r > 3 THEN t[4 * h + 4].bits ELSE <<>>)

LEMMA CountOfDigits ==
  ASSUME NEW n \in Nat, NEW v \in Bytes(n), NEW g \in Nat, 3 * g <= n + 2
  PROVE  /\ DigitCount(v, g) \in 0 .. 4 * g /\ DigitCount(v, g) >= 4 * g - 2
         /\ 3 * g >= n => DigitCount(v, g) = n + g
<1>1. Len(v) = n
  BY DEF Bytes
<1> QED BY <1>1 DEF DigitCount

LEMMA SextetOfText ==
  ASSUME NEW n \in Nat, NEW v \in Bytes(n), NEW g \in Nat, NEW t, IsTextOf(t, v, g),
         NEW h \in Nat, NEW j \in 1 .. 4, 4 * h + j <= DigitCount(v, g)
  PROVE  /\ t[4 * h + j].bits \in BitSeq /\ Len(t[4 * h + j].bits) = 6
         /\ Holds(t[4 * h + j].bits, 24 * h + 6 * (j - 1), v)
<1> DEFINE k == 4 * h + j
<1>1. 3 * g <= n + 2
  BY DEF IsTextOf, Bytes
<1>2. DigitCount(v, g) \in 0 .. 4 * g
  BY <1>1, CountOfDigits
<1>3. k \in 1 .. 4 * g /\ k <= DigitCount(v, g)
  BY <1>2
<1>4. DIGIT64 * (k - 1) = 24 * h + 6 * (j - 1)
  BY DEF DIGIT64
<1> HIDE DEF k
<1>5. t[k].bits \in Bits(6) /\ Holds(t[k].bits, DIGIT64 * (k - 1), v)
  BY <1>3 DEF IsTextOf, IsSextet, DIGIT64
<1>6. t[k].bits \in BitSeq /\ Len(t[k].bits) = 6
  BY <1>5, BitsAreASeq
<1> QED BY <1>4, <1>5, <1>6 DEF k

LEMMA SextetsHold ==
  ASSUME NEW n \in Nat, NEW v \in Bytes(n), NEW g \in Nat, NEW t, IsTextOf(t, v, g),
         NEW h \in Nat, NEW r \in 1 .. 4, 4 * h + r <= DigitCount(v, g)
  PROVE  /\ Sextets(t, h, r) \in BitSeq /\ Len(Sextets(t, h, r)) = 6 * r
         /\ Holds(Sextets(t, h, r), 24 * h, v)
<1> DEFINE from == 24 * h
           s1 == t[4 * h + 1].bits
           s2 == IF r > 1 THEN t[4 * h + 2].bits ELSE <<>>
           s3 == IF r > 2 THEN t[4 * h + 3].bits ELSE <<>>
           s4 == IF r > 3 THEN t[4 * h + 4].bits ELSE <<>>
           l2 == IF r > 1 THEN 6 ELSE 0
           l3 == IF r > 2 THEN 6 ELSE 0
           l4 == IF r > 3 THEN 6 ELSE 0
<1>1. Len(v) \in Nat /\ from \in Nat /\ from = 24 * h /\ 3 * g <= n + 2
  BY DEF Bytes, IsTextOf
<1>2. DigitCount(v, g) \in Nat
  BY <1>1, CountOfDigits
<1>3. ASSUME NEW j \in 1 .. 4, r >= j
      PROVE  /\ t[4 * h + j].bits \in BitSeq /\ Len(t[4 * h + j].bits) = 6
             /\ Holds(t[4 * h + j].bits, from + 6 * (j - 1), v)
  <2>1. 4 * h + j <= DigitCount(v, g)
    BY <1>2, <1>3
  <2> QED BY <2>1, SextetOfText
<1>4. s1 \in BitSeq /\ Len(s1) = 6 /\ Holds(s1, from, v)
  <2>1. /\ t[4 * h + 1].bits \in BitSeq /\ Len(t[4 * h + 1].bits) = 6
        /\ Holds(t[4 * h + 1].bits, from + 6 * (1 - 1), v)
    BY <1>3
  <2>2. from + 6 * (1 - 1) = from
    BY <1>1
  <2> QED BY <2>1, <2>2
<1>5. s2 \in BitSeq /\ Len(s2) = l2 /\ Holds(s2, from + 6, v)
  <2>1. CASE r > 1
    <3>1. /\ t[4 * h + 2].bits \in BitSeq /\ Len(t[4 * h + 2].bits) = 6
          /\ Holds(t[4 * h + 2].bits, from + 6 * (2 - 1), v)
      BY <1>3, <2>1
    <3> QED BY <2>1, <3>1
  <2>2. CASE ~(r > 1)
    BY <2>2, NothingHolds
  <2> QED BY <2>1, <2>2
<1>6. s3 \in BitSeq /\ Len(s3) = l3 /\ Holds(s3, from + 6 + l2, v)
  <2>1. CASE r > 2
    <3>1. /\ t[4 * h + 3].bits \in BitSeq /\ Len(t[4 * h + 3].bits) = 6
          /\ Holds(t[4 * h + 3].bits, from + 6 * (3 - 1), v)
      BY <1>3, <2>1
    <3>2. from + 6 * (3 - 1) = from + 6 + l2
      BY <1>1, <2>1
    <3> QED BY <2>1, <3>1, <3>2
  <2>2. CASE ~(r > 2)
    BY <2>2, NothingHolds
  <2> QED BY <2>1, <2>2
<1>7. s4 \in BitSeq /\ Len(s4) = l4 /\ Holds(s4, from + 6 + l2 + l3, v)
  <2>1. CASE r > 3
    <3>1. /\ t[4 * h + 4].bits \in BitSeq /\ Len(t[4 * h + 4].bits) = 6
          /\ Holds(t[4 * h + 4].bits, from + 6 * (4 - 1), v)
      BY <1>3, <2>1
    <3>2. from + 6 * (4 - 1) = from + 6 + l2 + l3
      BY <1>1, <2>1
    <3> QED BY <2>1, <3>1, <3>2
  <2>2. CASE ~(r > 3)
    BY <2>2, NothingHolds
  <2> QED BY <2>1, <2>2
<1>8. 6 + l2 + l3 + l4 = 6 * r /\ l2 \in Nat /\ l3 \in Nat /\ l4 \in Nat
  OBVIOUS
<1> HIDE DEF s1, s2, s3, s4, l2, l3, l4, from
<1> DEFINE s12 == s1 \o s2
<1>9. s12 \in BitSeq /\ Len(s12) = 6 + l2 /\ Holds(s12, from, v)
  BY <1>1, <1>4, <1>5, JoinedHolds
<1> HIDE DEF s12
<1> DEFINE s123 == s12 \o s3
<1>10. s123 \in BitSeq /\ Len(s123) = 6 + l2 + l3 /\ Holds(s123, from, v)
  <2>1. Holds(s3, from + Len(s12), v)
    <3>1. from + Len(s12) = from + 6 + l2
      BY <1>1, <1>8, <1>9
    <3> QED BY <1>6, <3>1
  <2>2. s123 \in BitSeq /\ Len(s123) = Len(s12) + Len(s3) /\ Holds(s123, from, v)
    BY <1>1, <1>6, <1>9, <2>1, JoinedHolds
  <2> QED BY <1>6, <1>9, <2>2
<1> HIDE DEF s123
<1> DEFINE s1234 == s123 \o s4
<1>11. s1234 \in BitSeq /\ Len(s1234) = 6 * r /\ Holds(s1234, from, v)
  <2>1. Holds(s4, from + Len(s123), v)
    <3>1. from + Len(s123) = from + 6 + l2 + l3
      BY <1>1, <1>8, <1>10
    <3> QED BY <1>7, <3>1
  <2>2. s1234 \in BitSeq /\ Len(s1234) = Len(s123) + Len(s4) /\ Holds(s1234, from, v)
    BY <1>1, <1>7, <1>10, <2>1, JoinedHolds
  <2> QED BY <1>7, <1>8, <1>10, <2>2
<1>12. Sextets(t, h, r) = s1234
  BY DEF Sextets, s1234, s123, s12, s1, s2, s3, s4
<1> QED BY <1>1, <1>11, <1>12

(* What is decoded of them are the bytes of the value that come next.      *)
AreNext(b, v, first, count) ==
  /\ b \in Seq(Bits(BYTE)) /\ Len(b) = count /\ first + count <= Len(v)
  /\ \A i \in 1 .. count : b[i] = v[first + i]

LEMMA DecodedAreBytes ==
  ASSUME NEW n \in Nat, NEW v \in Bytes(n), NEW g \in Nat, IsTextOf(in, v, g),
         NEW h \in Nat, next = 4 * h + 1, NEW r \in 1 .. 4, 4 * h + r <= DigitCount(v, g)
  PROVE  AreNext(Decoded(r), v, 3 * h, r - 1)
<1> DEFINE s == Sextets(in, h, r)
<1>1. s \in BitSeq /\ Len(s) = 6 * r /\ Holds(s, 24 * h, v)
  BY SextetsHold
<1>2. Len(v) = n /\ 3 * g <= n + 2
  BY DEF Bytes, IsTextOf
<1>3. 3 * h + (r - 1) <= n
  <2>1. DigitCount(v, g) = IF 3 * g <= n THEN 4 * g ELSE n + g
    BY <1>2 DEF DigitCount
  <2> QED BY <1>2, <2>1
<1>4. Decoded(r) = [i \in 1 .. r - 1 |-> SubSeq(s, (i - 1) * BYTE + 1, i * BYTE)]
  <2>1. next + 1 = 4 * h + 2 /\ next + 2 = 4 * h + 3 /\ next + 3 = 4 * h + 4
    OBVIOUS
  <2> QED BY <2>1 DEF Decoded, Sextets
<1> HIDE DEF s
<1>5. ASSUME NEW i \in 1 .. r - 1
      PROVE  SubSeq(s, (i - 1) * BYTE + 1, i * BYTE) \in Bits(BYTE)
             /\ SubSeq(s, (i - 1) * BYTE + 1, i * BYTE) = v[3 * h + i]
  <2> DEFINE a == 8 * (i - 1)
             from == 24 * h
             byte == SubSeq(s, a + 1, a + 8)
  <2>1. (i - 1) * BYTE + 1 = a + 1 /\ i * BYTE = a + 8
    BY DEF BYTE
  <2>2. a \in Nat /\ from \in Nat /\ a + 8 <= Len(s) /\ 8 \in Nat
    BY <1>1
  <2>3. from + a = BYTE * ((3 * h + i) - 1) /\ 3 * h + i \in 1 .. n
    BY <1>3 DEF BYTE
  <2>4. Holds(s, from, v) /\ Len(v) \in Nat
    BY <1>1, <1>2
  <2> HIDE DEF a, from
  <2>5. byte \in Bits(8) /\ Holds(byte, from + a, v)
    BY <1>1, <2>2, <2>4, PieceHolds
  <2> DEFINE j == 3 * h + i
  <2>6. j \in 1 .. n /\ byte \in Bits(BYTE) /\ Holds(byte, BYTE * (j - 1), v)
    BY <2>3, <2>5 DEF BYTE
  <2> HIDE DEF j, byte
  <2>7. byte = v[j]
    BY <2>6, HeldByte
  <2> QED BY <2>1, <2>6, <2>7 DEF byte, j
<1>6. Decoded(r) \in [1 .. r - 1 -> Bits(BYTE)]
  BY <1>4, <1>5
<1>7. Decoded(r) \in Seq(Bits(BYTE)) /\ Len(Decoded(r)) = r - 1
  <2>1. r - 1 \in Nat
    OBVIOUS
  <2> QED BY <1>6, <2>1, SeqDef, LenProperties
<1> QED BY <1>2, <1>3, <1>4, <1>5, <1>7 DEF AreNext

(* The characters of the text up to its `=' are those counted. *)
LEMMA DigitsAreCounted ==
  ASSUME NEW n \in Nat, NEW v \in Bytes(n), NEW g \in Nat, IsTextOf(in, v, g), next \in Nat
  PROVE  nprbytes = DigitCount(v, g) - (next - 1)
<1> DEFINE d == DigitCount(v, g)
<1>1. Len(in) = 4 * g /\ 3 * g <= n + 2
  BY DEF IsTextOf, Bytes
<1>2. d \in 0 .. 4 * g
  BY <1>1, CountOfDigits
<1>3. \A k \in 1 .. 4 * g : in[k].kind = "digit" <=> k <= d
  BY DEF IsTextOf, IsSextet
<1> HIDE DEF d
<1>4. d \in Digits
  <2>1. \A k \in 1 .. d : in[k].kind = "digit"
    BY <1>2, <1>3
  <2>2. d = Len(in) \/ in[d + 1].kind # "digit"
    BY <1>1, <1>2, <1>3
  <2> QED BY <1>1, <1>2, <2>1, <2>2 DEF Digits
<1>5. ASSUME NEW m \in Digits PROVE m = d
  <2>1. /\ m \in 0 .. 4 * g /\ (\A k \in 1 .. m : in[k].kind = "digit")
        /\ m = 4 * g \/ in[m + 1].kind # "digit"
    BY <1>1 DEF Digits
  <2>2. CASE m < d
    <3>1. m + 1 \in 1 .. 4 * g /\ m + 1 <= d /\ m # 4 * g
      BY <1>2, <2>1, <2>2
    <3> QED BY <1>3, <2>1, <3>1
  <2>3. CASE m > d
    <3>1. d + 1 \in 1 .. m /\ d + 1 \in 1 .. 4 * g /\ ~(d + 1 <= d)
      BY <1>2, <2>1, <2>3
    <3> QED BY <1>3, <2>1, <3>1
  <2> QED BY <1>2, <2>1, <2>2, <2>3
<1>6. (CHOOSE m \in Digits : TRUE) = d
  BY <1>4, <1>5
<1> QED BY <1>6 DEF nprbytes, d

(* All is written: the text is decoded, or refused, or there is none. *)
LEMMA TextWritten ==
  ASSUME ValueInv, op = "value", ValueEncoded
  PROVE  ValueInv'
<1> DEFINE n == Len(given)
<1>1. /\ fn = "b64_encode" /\ given \in Value /\ ret = "none" /\ in = given /\ ~InputLeft
      /\ Len(out) \in Nat /\ cap \in Nat /\ ValueFits
  BY DEF ValueInv, ValueEncoded, Encoding64
<1>2. PICK g \in 0 .. n : next = 3 * g + 1 /\ IsTextOf(out, given, g)
  BY <1>1 DEF ValueInv, Encoding64
<1>3. n \in Nat /\ g \in Nat /\ given \in Bytes(n) /\ 3 * g >= n
  BY <1>1, <1>2, ValueIsBytes DEF InputLeft
<1>4. out \in Seq(Character) /\ Len(out) = 4 * g
  BY <1>2 DEF IsTextOf
<1>5. PICK size \in Capacity : StartDecoding(out, size)
  BY DEF ValueEncoded
<1>6. size \in Nat
  BY CapacityAssumption
<1>7. CASE out = <<>>
  <2>1. Return("SUCCESS", <<>>)
    BY <1>5, <1>7 DEF StartDecoding
  <2>2. n = 0
    BY <1>3, <1>4, <1>7, EmptySeq
  <2>3. given = <<>>
    BY <1>3, <2>2, EmptySeq DEF Bytes
  <2>4. /\ ret' = "SUCCESS" /\ got' = given' /\ fn' = "none"
        /\ UNCHANGED <<op, given, in, next, out, cap>>
    BY <2>1, <2>3 DEF Return
  <2> QED BY <1>1, <2>4 DEF ValueInv, ValueFits
<1>8. CASE out # <<>> /\ ~HasRoom(Len(out), size)
  <2>1. Return("NO_MEM", <<>>)
    BY <1>5, <1>8 DEF StartDecoding
  <2>2. ret' = "NO_MEM" /\ fn' = "none" /\ UNCHANGED <<op, given, in, next, out, cap>>
    BY <2>1 DEF Return
  <2> QED BY <1>1, <2>2 DEF ValueInv, ValueFits
<1>9. CASE out # <<>> /\ HasRoom(Len(out), size)
  <2>1. /\ fn' = "b64_decode" /\ in' = out /\ next' = 1 /\ out' = <<>> /\ cap' = size
        /\ UNCHANGED <<op, given, ret, got>>
    BY <1>5, <1>9 DEF StartDecoding, Loop
  <2>2. g # 0 /\ g \in 1 .. n
    BY <1>2, <1>3, <1>4, <1>9, EmptySeq
  <2>3. size >= 3 * g - 1
    <3>1. (4 * g) \div 4 = g
      BY <1>3
    <3> QED BY <1>3, <1>4, <1>9, <3>1 DEF HasRoom
  <2>4. Len(out') = 0 /\ out' \in Seq(Bits(BYTE))
    BY <2>1, EmptySeq
  <2>5. IsBeginning(out, 3 * 0)' /\ 0 \in 0 .. n /\ 0 < g /\ next' = 4 * 0 + 1
    BY <1>3, <2>1, <2>2, <2>4 DEF IsBeginning
  <2>6. IsTextOf(in', given', g)
    BY <1>2, <2>1
  <2>7. Decoding64'
    BY <1>1, <1>3, <1>6, <2>1, <2>2, <2>3, <2>5, <2>6 DEF Decoding64, IsBeginning
  <2>8. Len(out') \in Nat /\ cap' \in Nat /\ Len(out') <= cap'
    BY <1>6, <2>1, <2>4
  <2> QED BY <1>1, <2>1, <2>7, <2>8 DEF ValueInv, ValueFits
<1> QED BY <1>7, <1>8, <1>9

(* What is known in the loop of b64_decode. *)
LEMMA Decoding ==
  ASSUME ValueInv, op = "value", fn = "b64_decode"
  PROVE  /\ given \in Value /\ ret = "none" /\ cap \in Nat
         /\ Len(given) \in Nat /\ given \in Bytes(Len(given))
         /\ \E g \in 1 .. Len(given), h \in 0 .. Len(given) :
              /\ g \in Nat /\ h \in Nat
              /\ IsTextOf(in, given, g) /\ 3 * g >= Len(given) /\ 3 * g <= Len(given) + 2
              /\ cap >= 3 * g - 1 /\ next = 4 * h + 1 /\ h < g
              /\ IsBeginning(out, 3 * h)
              /\ DigitCount(given, g) = Len(given) + g
              /\ nprbytes = Len(given) + g - 4 * h
<1>1. given \in Value /\ Decoding64
  BY DEF ValueInv
<1>2. Len(given) \in Nat /\ given \in Bytes(Len(given))
  BY <1>1, ValueIsBytes
<1>3. PICK g \in 1 .. Len(given), h \in 0 .. Len(given) :
        /\ IsTextOf(in, given, g) /\ 3 * g >= Len(given) /\ cap >= 3 * g - 1
        /\ next = 4 * h + 1 /\ h < g /\ IsBeginning(out, 3 * h)
  BY <1>1 DEF Decoding64
<1>4. g \in Nat /\ h \in Nat /\ next \in Nat /\ 3 * g <= Len(given) + 2
  BY <1>2, <1>3 DEF IsTextOf
<1>5. DigitCount(given, g) = Len(given) + g
  BY <1>2, <1>3, <1>4, CountOfDigits
<1>6. nprbytes = DigitCount(given, g) - (next - 1)
  BY <1>2, <1>3, <1>4, DigitsAreCounted
<1>7. nprbytes = Len(given) + g - 4 * h
  BY <1>2, <1>3, <1>4, <1>5, <1>6
<1> QED BY <1>1, <1>2, <1>3, <1>4, <1>5, <1>7 DEF Decoding64

(* The bytes of a group after those before it. *)
LEMMA MoreBytes ==
  ASSUME NEW count \in Nat, NEW m \in Nat, NEW b, Len(given) \in Nat,
         IsBeginning(out, count), AreNext(b, given, count, m)
  PROVE  IsBeginning(out \o b, count + m)
<1>1. out \in Seq(Bits(BYTE)) /\ Len(out) = count /\ \A i \in 1 .. count : out[i] = given[i]
  BY DEF IsBeginning
<1>2. b \in Seq(Bits(BYTE)) /\ Len(b) = m /\ \A i \in 1 .. m : b[i] = given[count + i]
  BY DEF AreNext
<1>3. /\ out \o b \in Seq(Bits(BYTE)) /\ Len(out \o b) = count + m
      /\ \A i \in 1 .. count + m : (out \o b)[i] = IF i <= count THEN out[i] ELSE b[i - count]
  <2>1. /\ out \o b \in Seq(Bits(BYTE)) /\ Len(out \o b) = Len(out) + Len(b)
        /\ \A i \in 1 .. Len(out) + Len(b) :
             (out \o b)[i] = IF i <= Len(out) THEN out[i] ELSE b[i - Len(out)]
    BY <1>1, <1>2, ConcatProperties, ZenonT(30)
  <2> QED BY <1>1, <1>2, <2>1
<1>4. ASSUME NEW i \in 1 .. count + m
      PROVE  (out \o b)[i] = given[i]
  <2>1. CASE i <= count
    BY <1>1, <1>3, <2>1
  <2>2. CASE i > count
    <3> DEFINE j == i - count
    <3>1. j \in 1 .. m /\ count + j = i /\ ~(i <= count)
      BY <2>2
    <3> HIDE DEF j
    <3>2. b[j] = given[count + j]
      BY <1>2, <3>1
    <3>3. (out \o b)[i] = b[j]
      BY <1>3, <3>1 DEF j
    <3> QED BY <3>1, <3>2, <3>3
  <2>3. i <= count \/ i > count
    OBVIOUS
  <2> QED BY <2>1, <2>2, <2>3, Zenon
<1>5. count + m <= Len(given)
  BY DEF AreNext
<1> QED BY <1>3, <1>4, <1>5 DEF IsBeginning

LEMMA GroupRead ==
  ASSUME ValueInv, op = "value", b64_decode
  PROVE  ValueInv'
<1> DEFINE n == Len(given)
<1>1. /\ fn = "b64_decode" /\ nprbytes > 4 /\ out' = out \o Decoded(4) /\ next' = next + 4
      /\ UNCHANGED <<op, given, fn, in, cap, ret, got>>
  BY DEF b64_decode
<1>2. given \in Value /\ ret = "none" /\ cap \in Nat /\ n \in Nat /\ given \in Bytes(n)
  BY <1>1, Decoding
<1>3. PICK g \in 1 .. n, h \in 0 .. n :
        /\ g \in Nat /\ h \in Nat
        /\ IsTextOf(in, given, g) /\ 3 * g >= n /\ 3 * g <= n + 2
        /\ cap >= 3 * g - 1 /\ next = 4 * h + 1 /\ h < g
        /\ IsBeginning(out, 3 * h)
        /\ DigitCount(given, g) = n + g
        /\ nprbytes = n + g - 4 * h
  BY <1>1, Decoding
<1>4. n + g > 4 * h + 4 /\ h + 1 < g /\ h + 1 \in 0 .. n
  BY <1>1, <1>2, <1>3
<1>5. AreNext(Decoded(4), given, 3 * h, 4 - 1)
  <2>1. 4 \in 1 .. 4 /\ 4 * h + 4 <= DigitCount(given, g)
    BY <1>2, <1>3, <1>4
  <2>2. /\ n \in Nat /\ given \in Bytes(n) /\ g \in Nat /\ IsTextOf(in, given, g)
        /\ h \in Nat /\ next = 4 * h + 1
    BY <1>2, <1>3
  <2> HIDE DEF n
  <2> QED BY <2>1, <2>2, DecodedAreBytes
<1>6. IsBeginning(out', 3 * h + 3)
  <2> DEFINE count == 3 * h
             b == Decoded(4)
  <2>1. /\ count \in Nat /\ 3 \in Nat /\ Len(given) \in Nat /\ IsBeginning(out, count)
        /\ AreNext(b, given, count, 3) /\ out' = out \o b
    BY <1>1, <1>2, <1>3, <1>5
  <2> HIDE DEF count, b
  <2>2. IsBeginning(out \o b, count + 3)
    BY <2>1, MoreBytes
  <2> QED BY <2>1, <2>2 DEF count
<1>7. 3 * h + 3 = 3 * (h + 1) /\ next' = 4 * (h + 1) + 1
  BY <1>1, <1>3
<1>8. IsBeginning(out, 3 * (h + 1))'
  BY <1>1, <1>6, <1>7 DEF IsBeginning
<1>9. Decoding64'
  BY <1>1, <1>2, <1>3, <1>4, <1>7, <1>8 DEF Decoding64
<1>10. Len(out') \in Nat /\ cap' \in Nat /\ Len(out') <= cap'
  <2>1. Len(out') = 3 * h + 3
    BY <1>6 DEF IsBeginning
  <2> QED BY <1>1, <1>2, <1>3, <1>4, <2>1
<1> QED BY <1>1, <1>2, <1>9, <1>10 DEF ValueInv, ValueFits

(* The last characters give the last bytes: there is one group left.       *)
LEMMA ValueRead ==
  ASSUME ValueInv, op = "value", b64_decode_done
  PROVE  ValueInv'
<1> DEFINE n == Len(given)
<1>1. /\ fn = "b64_decode" /\ nprbytes <= 4
      /\ out' = DecodedToEnd /\ ret' = "SUCCESS" /\ got' = out' /\ fn' = "none"
      /\ UNCHANGED <<op, given, in, next, cap>>
  BY DEF b64_decode_done
<1>2. given \in Value /\ ret = "none" /\ cap \in Nat /\ n \in Nat /\ given \in Bytes(n)
  BY <1>1, Decoding
<1>3. PICK g \in 1 .. n, h \in 0 .. n :
        /\ g \in Nat /\ h \in Nat
        /\ IsTextOf(in, given, g) /\ 3 * g >= n /\ 3 * g <= n + 2
        /\ cap >= 3 * g - 1 /\ next = 4 * h + 1 /\ h < g
        /\ IsBeginning(out, 3 * h)
        /\ DigitCount(given, g) = n + g
        /\ nprbytes = n + g - 4 * h
  BY <1>1, Decoding
<1> DEFINE r == nprbytes
<1>4. g = h + 1 /\ r \in 2 .. 4 /\ 3 * h + (r - 1) = n /\ 4 * h + r = n + g
  BY <1>1, <1>2, <1>3
<1> HIDE DEF r
<1>5. AreNext(Decoded(r), given, 3 * h, r - 1)
  <2>1. r \in 1 .. 4 /\ 4 * h + r <= DigitCount(given, g)
    BY <1>2, <1>3, <1>4
  <2>2. /\ n \in Nat /\ given \in Bytes(n) /\ g \in Nat /\ IsTextOf(in, given, g)
        /\ h \in Nat /\ next = 4 * h + 1
    BY <1>2, <1>3
  <2> HIDE DEF n
  <2> QED BY <2>1, <2>2, DecodedAreBytes
<1>6. out' = out \o Decoded(r)
  BY <1>1, <1>4 DEF DecodedToEnd, r
<1>7. IsBeginning(out', n)
  <2> DEFINE m == r - 1
             b == Decoded(r)
             count == 3 * h
  <2>1. /\ count \in Nat /\ m \in Nat /\ Len(given) \in Nat /\ IsBeginning(out, count)
        /\ AreNext(b, given, count, m) /\ out' = out \o b /\ count + m = n
    BY <1>2, <1>3, <1>4, <1>5, <1>6
  <2> HIDE DEF m, b, count
  <2>2. IsBeginning(out \o b, count + m)
    BY <2>1, MoreBytes
  <2> QED BY <2>1, <2>2
<1>8. out' = given /\ Len(out') = n
  BY <1>2, <1>7 DEF Bytes, IsBeginning
<1>9. ValueFits'
  <2>1. n <= 3 * g /\ cap >= 3 * g - 1
    BY <1>3
  <2>2. CASE n <= cap
    BY <1>1, <1>8, <2>2 DEF ValueFits
  <2>3. CASE n > cap
    <3>1. n = cap + 1 /\ n = 3 * g
      BY <1>2, <1>3, <2>1, <2>3
    <3>2. n % 3 = 0
      BY <1>3, <3>1
    <3> QED BY <1>1, <1>8, <3>1, <3>2 DEF ValueFits
  <2> QED BY <1>2, <2>2, <2>3
<1>10. Len(out') \in Nat /\ cap' \in Nat
  BY <1>1, <1>2, <1>8
<1> QED BY <1>1, <1>2, <1>8, <1>9, <1>10 DEF ValueInv

LEMMA ValueStep == ValueInv /\ [Next]_vars => ValueInv'
<1> SUFFICES ASSUME ValueInv, [Next]_vars PROVE ValueInv'
  OBVIOUS
<1>1. ASSUME op' # "value" PROVE ValueInv'
  BY <1>1 DEF ValueInv
<1>2. CASE UNCHANGED vars
  BY <1>2 DEF vars, loopVars, ValueInv, Encoding64, Decoding64, ValueFits, IsBeginning
<1>3. CASE \E value \in Value : EncodeValue(value)
  BY <1>3, ValueGiven
<1>4. CASE b64_encode
  BY <1>1, <1>4, GroupWritten DEF b64_encode
<1>5. CASE ValueEncoded
  BY <1>1, <1>5, TextWritten DEF ValueEncoded, StartDecoding, Return
<1>6. CASE b64_decode
  BY <1>1, <1>6, GroupRead DEF b64_decode
<1>7. CASE b64_decode_done
  BY <1>1, <1>7, ValueRead DEF b64_decode_done
<1>8. CASE \/ \E key \in Key : vertices_account_new_from_bin(key)
           \/ \E public_b32 \in Address : vertices_account_new_from_b32(public_b32)
           \/ \E seed \in Seed : vertices_mnemonic_from_sk(seed)
  BY <1>1, <1>8 DEF vertices_account_new_from_bin, vertices_account_new_from_b32,
                    vertices_mnemonic_from_sk, Call
<1>9. CASE \E text \in Text, size \in Capacity : DecodeText(text, size)
  BY <1>1, <1>9 DEF DecodeText
<1>10. CASE \E phrase \in Phrases : vertices_s_account_new_from_mnemonic(phrase)
  BY <1>1, <1>10 DEF vertices_s_account_new_from_mnemonic
<1>11. CASE \/ b32_encode \/ AddressEncoded \/ b32_decode \/ from_b32_init
            \/ b2048_encode \/ mnemonic_from_seed
            \/ WordAdded \/ UnknownWord \/ ByteStored \/ SeedRecovered
  <2>1. UNCHANGED op /\ fn \notin {"none", "b64_encode", "b64_decode"}
    BY <1>11 DEF b32_encode, AddressEncoded, b32_decode, from_b32_init, b2048_encode,
                 mnemonic_from_seed, WordAdded, UnknownWord, ByteStored, SeedRecovered, Return
  <2> QED BY <1>1, <2>1 DEF ValueInv
<1>12. CASE Forget
  BY <1>1, <1>12 DEF Forget
<1> QED BY <1>2, <1>3, <1>4, <1>5, <1>6, <1>7, <1>8, <1>9, <1>10, <1>11, <1>12 DEF Next

(* A value of any length in base 64 is decoded to itself, byte for byte,   *)
(* unless b64_decode refuses it for want of room (base64.c:62-149): the    *)
(* `=' that end the text and the bits that fill its last character are     *)
(* dropped, and nothing else is.                                           *)
THEOREM Base64KeepsValue == Spec => []Base64GivesItsValue
<1>1. Init => ValueInv
  BY DEF Init, ValueInv
<1>2. ValueInv => Base64GivesItsValue
  BY DEF ValueInv, Encoding64, Decoding64, Base64GivesItsValue
<1> QED BY <1>1, <1>2, ValueStep, PTL DEF Spec
-----------------------------------------------------------------------------
(* The room for what the loops write.  A sequence is one of its elements,  *)
(* whatever these are: of a text that b64_encode has not written nothing   *)
(* is known but how much of it is decoded.                                 *)
SeqOfOwn(s) == s \in Seq({s[i] : i \in 1 .. Len(s)})

OpOfLoop ==
  /\ fn = "b64_encode" => op = "value"
  /\ fn = "b64_decode" => op \in {"value", "text"}
  /\ fn \in {"b32_encode", "b32_decode"} => op \in {"from_bin", "from_b32"}
  /\ fn = "b2048_encode" => op = "mnemonic"
  /\ fn = "seed_from_mnemonic" => op = "seed"

ReadingAddress ==
  /\ fn \in {"none", "b32_decode"} /\ cap = AllBytes
  /\ in \in Seq(Character) /\ next \in Nat \ {0} /\ bits \in BitSeq
  /\ out \in Seq(BitSeq) /\ Len(out) <= cap

DecodingText ==
  /\ fn \in {"none", "b64_decode"} /\ cap \in Nat /\ Len(out) \in Nat
  /\ fn = "none" => Len(out) <= cap + 3
  /\ fn = "b64_decode" =>
       /\ Len(in) \in Nat /\ cap >= 3 * (Len(in) \div 4) - 1 /\ SeqOfOwn(out)
       /\ \E h \in 0 .. Len(in) : next = 4 * h + 1 /\ Len(out) = 3 * h /\ 4 * h <= Len(in)

ReadingWords ==
  /\ cap = SEED_LENGTH /\ Len(in) = SEED_WORDS /\ next \in 1 .. SEED_WORDS + 1
  /\ \A j \in 1 .. SEED_WORDS : in[j] \in Bits(WORD) \cup {Unknown}
  /\ bits \in BitSeq /\ out \in Seq(Bits(BYTE))
  /\ WORD * (next - 1) = BYTE * Len(out) + Len(bits)

RoomInv ==
  /\ OpOfLoop
  /\ Idle => out = <<>> /\ cap = 0
  /\ op = "from_bin" => Len(out) \in Nat /\ cap \in Nat /\ Len(out) <= cap
  /\ op = "from_b32" => ReadingAddress
  /\ op = "text" => DecodingText
  /\ fn = "seed_from_mnemonic" => ReadingWords
  /\ op = "mnemonic" /\ ret = "SUCCESS" => got = [separator |-> " ", words |-> got.words]

(* Each loop works for its calls, and where none has run nothing is written. *)
LEMMA LoopStep ==
  ASSUME RoomInv, MnemonicInv, [Next]_vars
  PROVE  OpOfLoop' /\ (Idle => out = <<>> /\ cap = 0)'
<1>0. OpOfLoop /\ (Idle => out = <<>> /\ cap = 0)
  BY DEF RoomInv
<1>1. CASE UNCHANGED vars
  BY <1>0, <1>1 DEF OpOfLoop, Idle, vars, loopVars
<1>2. CASE \/ \E key \in Key : vertices_account_new_from_bin(key)
           \/ \E public_b32 \in Address : vertices_account_new_from_b32(public_b32)
           \/ \E value \in Value : EncodeValue(value)
           \/ \E seed \in Seed : vertices_mnemonic_from_sk(seed)
  BY <1>2 DEF OpOfLoop, Idle, Call, Loop, vertices_account_new_from_bin,
              vertices_account_new_from_b32, EncodeValue, vertices_mnemonic_from_sk
<1>3. CASE \E text \in Text, size \in Capacity : DecodeText(text, size)
  BY <1>0, <1>3 DEF OpOfLoop, Idle, DecodeText, Loop, loopVars
<1>4. CASE \E phrase \in Phrases : vertices_s_account_new_from_mnemonic(phrase)
  <2>1. PICK phrase \in Phrases : vertices_s_account_new_from_mnemonic(phrase)
    BY <1>4
  <2>2. fn = "none" /\ op' = "seed"
    BY <2>1 DEF MnemonicInv, Written, Idle, vertices_s_account_new_from_mnemonic
  <2>3. \/ ret' # "none" /\ UNCHANGED loopVars
        \/ fn' = "seed_from_mnemonic"
    BY <2>1 DEF vertices_s_account_new_from_mnemonic, Loop
  <2> QED BY <2>2, <2>3 DEF OpOfLoop, Idle, loopVars
<1>5. CASE \/ b32_encode \/ b32_decode \/ b64_encode \/ b64_decode \/ b2048_encode
           \/ WordAdded \/ ByteStored
  BY <1>0, <1>5 DEF OpOfLoop, Idle, b32_encode, b32_decode, b64_encode, b64_decode, b2048_encode,
                    WordAdded, ByteStored
<1>6. CASE from_b32_init \/ b64_decode_done \/ mnemonic_from_seed \/ UnknownWord \/ SeedRecovered
  BY <1>6 DEF OpOfLoop, Idle, Return, from_b32_init, b64_decode_done, mnemonic_from_seed,
              UnknownWord, SeedRecovered
<1>7. CASE AddressEncoded
  BY <1>0, <1>7 DEF OpOfLoop, Idle, AddressEncoded, Loop
<1>8. CASE ValueEncoded
  BY <1>0, <1>8 DEF OpOfLoop, Idle, ValueEncoded, StartDecoding, Return, Loop
<1>9. CASE Forget
  BY <1>9 DEF OpOfLoop, Idle, Forget, Loop
<1> QED BY <1>1, <1>2, <1>3, <1>4, <1>5, <1>6, <1>7, <1>8, <1>9 DEF Next

(* The encoder's loop has its room, and after the decoder's nothing more is  *)
(* written for a binary key.                                               *)
LEMMA KeyFits ==
  ASSUME RoomInv, AddressInv, AddressInv', [Next]_vars, op' = "from_bin"
  PROVE  Len(out') \in Nat /\ cap' \in Nat /\ Len(out') <= cap'
<1>1. fn' \in {"none", "b32_encode", "b32_decode"}
  BY DEF AddressInv
<1>2. CASE fn' = "b32_encode"
  <2>1. EncodeTypes'
    BY <1>2 DEF AddressInv
  <2> QED BY <2>1, Lengths, LenProperties DEF EncodeTypes
<1>3. CASE fn' = "b32_decode"
  <2>1. DecodeTypes'
    BY <1>3 DEF AddressInv
  <2> QED BY <2>1, Lengths, LenProperties DEF DecodeTypes
<1>4. CASE fn' = "none"
  <2>1. UNCHANGED <<op, out, cap>>
    <3>1. CASE UNCHANGED vars
      BY <3>1 DEF vars, loopVars
    <3>2. CASE from_b32_init
      BY <3>2 DEF from_b32_init, Return
    <3>3. ~\E key \in Key : vertices_account_new_from_bin(key)
      BY <1>4 DEF vertices_account_new_from_bin, Loop
    <3>4. ~(\/ \E public_b32 \in Address : vertices_account_new_from_b32(public_b32)
            \/ \E value \in Value : EncodeValue(value)
            \/ \E text \in Text, size \in Capacity : DecodeText(text, size)
            \/ \E seed \in Seed : vertices_mnemonic_from_sk(seed)
            \/ \E phrase \in Phrases : vertices_s_account_new_from_mnemonic(phrase)
            \/ Forget)
      BY DEF vertices_account_new_from_b32, EncodeValue, DecodeText, vertices_mnemonic_from_sk,
             vertices_s_account_new_from_mnemonic, Forget, Call
    <3>5. ~(\/ b32_encode \/ b32_decode \/ AddressEncoded \/ b64_encode \/ b64_decode
            \/ b2048_encode \/ WordAdded \/ ByteStored)
      BY <1>4 DEF b32_encode, b32_decode, AddressEncoded, b64_encode, b64_decode, b2048_encode,
                  WordAdded, ByteStored, Loop
    <3>6. ~(ValueEncoded \/ b64_decode_done \/ mnemonic_from_seed \/ UnknownWord \/ SeedRecovered)
      BY DEF RoomInv, OpOfLoop, ValueEncoded, StartDecoding, b64_decode_done, mnemonic_from_seed,
             UnknownWord, SeedRecovered, Return
    <3> QED BY <3>1, <3>2, <3>3, <3>4, <3>5, <3>6 DEF Next
  <2> QED BY <2>1 DEF RoomInv
<1> QED BY <1>1, <1>2, <1>3, <1>4

(* A step is a call, of its kind, or a step of the loop that runs for one.   *)
LEMMA Steps ==
  ASSUME [Next]_vars
  PROVE  \/ op' = "from_bin" /\ \E key \in Key : vertices_account_new_from_bin(key)
         \/ op' = "from_b32" /\ \E public_b32 \in Address : vertices_account_new_from_b32(public_b32)
         \/ op' = "value" /\ \E value \in Value : EncodeValue(value)
         \/ op' = "text" /\ \E text \in Text, size \in Capacity : DecodeText(text, size)
         \/ op' = "mnemonic" /\ \E seed \in Seed : vertices_mnemonic_from_sk(seed)
         \/ op' = "seed" /\ \E phrase \in Phrases : vertices_s_account_new_from_mnemonic(phrase)
         \/ op' = "none" /\ Forget
         \/ op' = op /\ \/ b32_encode \/ AddressEncoded \/ b32_decode \/ from_b32_init
                        \/ b64_encode \/ ValueEncoded \/ b64_decode \/ b64_decode_done
                        \/ b2048_encode \/ mnemonic_from_seed
                        \/ WordAdded \/ UnknownWord \/ ByteStored \/ SeedRecovered
                        \/ UNCHANGED vars
<1>1. UNCHANGED vars => op' = op
  BY DEF vars
<1>2. \/ b32_encode \/ AddressEncoded \/ b32_decode \/ from_b32_init \/ b64_encode
      \/ ValueEncoded \/ b64_decode \/ b64_decode_done \/ b2048_encode \/ mnemonic_from_seed
      \/ WordAdded \/ UnknownWord \/ ByteStored \/ SeedRecovered
      => op' = op
  BY DEF b32_encode, AddressEncoded, b32_decode, from_b32_init, b64_encode, ValueEncoded,
         StartDecoding, b64_decode, b64_decode_done, b2048_encode, mnemonic_from_seed, WordAdded,
         UnknownWord, ByteStored, SeedRecovered, Return
<1>3. (\E key \in Key : vertices_account_new_from_bin(key)) => op' = "from_bin"
  BY DEF vertices_account_new_from_bin, Call
<1>4. (\E public_b32 \in Address : vertices_account_new_from_b32(public_b32)) => op' = "from_b32"
  BY DEF vertices_account_new_from_b32, Call
<1>5. (\E value \in Value : EncodeValue(value)) => op' = "value"
  BY DEF EncodeValue, Call
<1>6. (\E text \in Text, size \in Capacity : DecodeText(text, size)) => op' = "text"
  BY DEF DecodeText
<1>7. (\E seed \in Seed : vertices_mnemonic_from_sk(seed)) => op' = "mnemonic"
  BY DEF vertices_mnemonic_from_sk, Call
<1>8. (\E phrase \in Phrases : vertices_s_account_new_from_mnemonic(phrase)) => op' = "seed"
  BY DEF vertices_s_account_new_from_mnemonic
<1>9. Forget => op' = "none"
  BY DEF Forget
<1> QED BY <1>1, <1>2, <1>3, <1>4, <1>5, <1>6, <1>7, <1>8, <1>9 DEF Next

(* Bits can be cut in two. *)
LEMMA CutInTwo ==
  ASSUME NEW s \in BitSeq, NEW n \in 0 .. Len(s)
  PROVE  /\ SubSeq(s, 1, n) \in Bits(n)
         /\ From(s, n + 1) \in BitSeq /\ Len(From(s, n + 1)) = Len(s) - n
<1>1. Len(<<>>) = 0 /\ 0 \in Nat
  BY EmptySeq
<1>2. Holds(s, 0, <<>>)
  BY <1>1 DEF Holds
<1> QED BY <1>1, <1>2, PartHolds

(* Characters are read as long as there is room. *)
LEMMA AddressFits ==
  ASSUME RoomInv, [Next]_vars, op' = "from_b32"
  PROVE  ReadingAddress'
<1>1. CASE \E public_b32 \in Address : vertices_account_new_from_b32(public_b32)
  <2>1. PICK public_b32 \in Address : vertices_account_new_from_b32(public_b32)
    BY <1>1
  <2>2. public_b32 \in Seq(Character)
    BY TextAssumption
  <2>3. /\ fn' = "b32_decode" /\ in' = public_b32 /\ cap' = AllBytes
        /\ next' = 1 /\ bits' = <<>> /\ out' = <<>>
    BY <2>1 DEF vertices_account_new_from_b32, Loop, AllBytes
  <2>4. Len(out') = 0 /\ out' \in Seq(BitSeq) /\ bits' \in BitSeq
    BY <2>3, EmptySeq DEF BitSeq
  <2> QED BY <2>2, <2>3, <2>4, Lengths DEF ReadingAddress
<1>2. CASE op = "from_b32"
  <2>1. ReadingAddress
    BY <1>2 DEF RoomInv
  <2>2. CASE UNCHANGED loopVars
    BY <2>1, <2>2 DEF loopVars, ReadingAddress
  <2>3. CASE from_b32_init
    BY <2>1, <2>3 DEF from_b32_init, Return, ReadingAddress
  <2>4. CASE b32_decode
    <3>1. /\ fn = "b32_decode" /\ Len(out) < cap /\ InputLeft /\ next' = next + 1
          /\ UNCHANGED <<fn, in, cap>>
      BY <2>4 DEF b32_decode, CharDue
    <3>2. /\ in \in Seq(Character) /\ next \in 1 .. Len(in) /\ bits \in BitSeq /\ out \in Seq(BitSeq)
          /\ Len(out) \in Nat /\ cap \in Nat
      BY <2>1, <3>1, Lengths, LenProperties DEF ReadingAddress, InputLeft
    <3>3. in[next].bits \in BitSeq
      <4>1. in[next] \in Character
        BY <3>2, ElementOfSeq
      <4> QED BY <4>1 DEF Character, BitSeq
    <3> DEFINE buffer == bits \o in[next].bits
    <3>4. buffer \in BitSeq /\ Len(buffer) \in Nat
      BY <3>2, <3>3, ConcatProperties, LenProperties DEF BitSeq
    <3>5. CASE UNCHANGED <<out, bits>>
      BY <2>1, <3>1, <3>2, <3>5 DEF ReadingAddress
    <3>6. CASE ~UNCHANGED <<out, bits>>
      <4>1. Emitted(buffer)
        BY <2>4, <3>6 DEF b32_decode
      <4> HIDE DEF buffer
      <4>2. CASE Len(buffer) >= BYTE
        <5>1. out' = Append(out, SubSeq(buffer, 1, BYTE)) /\ bits' = From(buffer, BYTE + 1)
          BY <4>1, <4>2 DEF Emitted
        <5>2. SubSeq(buffer, 1, BYTE) \in BitSeq /\ From(buffer, BYTE + 1) \in BitSeq
          <6>1. BYTE \in 0 .. Len(buffer) /\ BYTE \in Nat
            BY <3>4, <4>2 DEF BYTE
          <6> QED BY <3>4, <6>1, CutInTwo, BitsAreASeq
        <5>3. out' \in Seq(BitSeq) /\ Len(out') = Len(out) + 1
          BY <3>2, <5>1, <5>2
        <5> QED BY <2>1, <3>1, <3>2, <5>1, <5>2, <5>3 DEF ReadingAddress
      <4>3. CASE ~(Len(buffer) >= BYTE)
        <5>1. out' = out /\ bits' = buffer
          BY <4>1, <4>3 DEF Emitted
        <5> QED BY <2>1, <3>1, <3>2, <3>4, <5>1 DEF ReadingAddress
      <4> QED BY <4>2, <4>3
    <3> QED BY <3>5, <3>6
  <2>5. fn \in {"none", "b32_decode"}
    BY <2>1 DEF ReadingAddress
  <2>6. ~(\/ b32_encode \/ AddressEncoded \/ b64_encode \/ ValueEncoded \/ b64_decode
          \/ b64_decode_done \/ b2048_encode \/ mnemonic_from_seed
          \/ WordAdded \/ UnknownWord \/ ByteStored \/ SeedRecovered)
    BY <2>5 DEF b32_encode, AddressEncoded, b64_encode, ValueEncoded, b64_decode, b64_decode_done,
                b2048_encode, mnemonic_from_seed, WordAdded, UnknownWord, ByteStored, SeedRecovered
  <2>7. \/ \E public_b32 \in Address : vertices_account_new_from_b32(public_b32)
        \/ from_b32_init \/ b32_decode \/ UNCHANGED loopVars
    BY <2>6, Steps DEF vars
  <2> QED BY <1>1, <2>2, <2>3, <2>4, <2>7
<1>3. op # "from_b32" => \E public_b32 \in Address : vertices_account_new_from_b32(public_b32)
  BY Steps
<1> QED BY <1>1, <1>2, <1>3

(* There is a number of characters up to the first that is not a digit.      *)
LEMMA DigitsExist ==
  ASSUME Len(in) \in Nat
  PROVE  (CHOOSE n \in Digits : TRUE) \in 0 .. Len(in)
<1> DEFINE ends == {k \in 0 .. Len(in) : k = Len(in) \/ in[k + 1].kind # "digit"}
<1>1. ends \subseteq Nat /\ Len(in) \in ends
  OBVIOUS
<1>2. PICK n \in ends : \A k \in ends : ~(<<k, n>> \in OpToRel(<, Nat))
  BY <1>1, WFMin, NatLessThanWellFounded, Zenon
<1>3. \A k \in ends : ~(k < n)
  BY <1>1, <1>2 DEF OpToRel
<1>4. n \in Digits
  <2>1. ASSUME NEW k \in 1 .. n PROVE in[k].kind = "digit"
    <3>1. k - 1 \in 0 .. Len(in) /\ k - 1 < n /\ (k - 1) + 1 = k /\ k - 1 # Len(in)
      BY <1>1
    <3>2. k - 1 \notin ends
      BY <1>3, <3>1
    <3> QED BY <3>1, <3>2
  <2> QED BY <1>1, <2>1 DEF Digits
<1> QED BY <1>4 DEF Digits

(* A function on positions is a sequence. *)
LEMMA RowIsASeq ==
  ASSUME NEW T, NEW n \in Nat, NEW s \in [1 .. n -> T]
  PROVE  s \in Seq(T) /\ Len(s) = n
<1>1. s \in Seq(T)
  BY SeqDef
<1> QED BY <1>1, LenProperties

(* Rows joined are a row, of any elements. *)
LEMMA RowsJoined ==
  ASSUME NEW s, NEW f, NEW m \in Nat, SeqOfOwn(s), f = [i \in 1 .. m |-> f[i]]
  PROVE  SeqOfOwn(s \o f) /\ Len(s \o f) = Len(s) + m /\ Len(s) \in Nat
<1> DEFINE T == {s[i] : i \in 1 .. Len(s)} \cup {f[i] : i \in 1 .. m}
           U == {(s \o f)[i] : i \in 1 .. Len(s \o f)}
<1>1. s \in Seq({s[i] : i \in 1 .. Len(s)})
  BY DEF SeqOfOwn
<1>2. Len(s) \in Nat /\ s \in [1 .. Len(s) -> {s[i] : i \in 1 .. Len(s)}]
  BY <1>1, LenProperties
<1>3. s \in [1 .. Len(s) -> T] /\ f \in [1 .. m -> T]
  BY <1>2
<1> HIDE DEF T
<1>4. s \in Seq(T) /\ f \in Seq(T) /\ Len(f) = m
  BY <1>2, <1>3, RowIsASeq
<1>5. s \o f \in Seq(T) /\ Len(s \o f) = Len(s) + m
  BY <1>4, ConcatProperties
<1>6. Len(s \o f) \in Nat /\ s \o f \in [1 .. Len(s \o f) -> T]
  BY <1>5, LenProperties
<1>7. s \o f \in [1 .. Len(s \o f) -> U]
  BY <1>6
<1> HIDE DEF U
<1>8. s \o f \in Seq(U)
  BY <1>6, <1>7, RowIsASeq
<1> QED BY <1>2, <1>5, <1>8 DEF SeqOfOwn, U

(* However many of its characters are digits: each group is decoded where    *)
(* three bytes are left, and the last characters give at most three.       *)
LEMMA TextFits ==
  ASSUME RoomInv, [Next]_vars, op' = "text"
  PROVE  DecodingText'
<1>1. CASE \E text \in Text, size \in Capacity : DecodeText(text, size)
  <2>1. PICK text \in Text, size \in Capacity : DecodeText(text, size)
    BY <1>1
  <2>2. text \in Seq(Character) /\ Len(text) \in Nat /\ size \in Nat
    BY TextAssumption, CapacityAssumption, LenProperties
  <2>3. CASE text # <<>> /\ HasRoom(Len(text), size)
    <3>1. fn' = "b64_decode" /\ in' = text /\ next' = 1 /\ out' = <<>> /\ cap' = size
      BY <2>1, <2>3 DEF DecodeText, Loop
    <3>2. size >= 3 * (Len(text) \div 4) - 1
      <4> DEFINE q == Len(text) \div 4
      <4>1. q \in Int /\ size >= q * 3 - 1
        BY <2>2, <2>3 DEF HasRoom
      <4> HIDE DEF q
      <4>2. q * 3 = 3 * q
        BY <4>1
      <4> QED BY <4>1, <4>2 DEF q
    <3>3. Len(out') = 0 /\ SeqOfOwn(out')
      BY <3>1, EmptySeq DEF SeqOfOwn
    <3>4. 0 \in 0 .. Len(in') /\ next' = 4 * 0 + 1 /\ Len(out') = 3 * 0 /\ 4 * 0 <= Len(in')
      BY <2>2, <3>1, <3>3
    <3> QED BY <2>2, <3>1, <3>2, <3>3, <3>4 DEF DecodingText, SeqOfOwn
  <2>4. CASE ~(text # <<>> /\ HasRoom(Len(text), size))
    <3>1. Idle /\ UNCHANGED loopVars
      BY <2>1, <2>4 DEF DecodeText
    <3>2. fn' = "none" /\ out' = <<>> /\ cap' = 0
      BY <3>1 DEF Idle, RoomInv, loopVars
    <3>3. Len(out') = 0
      BY <3>2, EmptySeq
    <3> QED BY <3>2, <3>3 DEF DecodingText
  <2> QED BY <2>3, <2>4
<1>2. CASE op = "text"
  <2>1. DecodingText
    BY <1>2 DEF RoomInv
  <2>2. CASE UNCHANGED loopVars
    BY <2>1, <2>2 DEF loopVars, DecodingText, SeqOfOwn
  <2>3. ASSUME fn = "b64_decode"
        PROVE  /\ Len(in) \in Nat /\ cap \in Nat /\ cap >= 3 * (Len(in) \div 4) - 1 /\ SeqOfOwn(out)
               /\ \E h \in Nat : /\ h \in 0 .. Len(in) /\ next = 4 * h + 1 /\ Len(out) = 3 * h
                                 /\ 4 * h <= Len(in) /\ nprbytes \in Int
                                 /\ nprbytes <= Len(in) - 4 * h
    <3>1. Len(in) \in Nat /\ cap \in Nat /\ cap >= 3 * (Len(in) \div 4) - 1 /\ SeqOfOwn(out)
      BY <2>1, <2>3 DEF DecodingText
    <3>2. PICK h \in 0 .. Len(in) : next = 4 * h + 1 /\ Len(out) = 3 * h /\ 4 * h <= Len(in)
      BY <2>1, <2>3 DEF DecodingText
    <3>3. nprbytes \in Int /\ nprbytes <= Len(in) - 4 * h
      <4> DEFINE d == CHOOSE n \in Digits : TRUE
      <4>1. d \in 0 .. Len(in)
        BY <3>1, DigitsExist
      <4> HIDE DEF d
      <4>2. d - (next - 1) \in Int /\ d - (next - 1) <= Len(in) - 4 * h
        BY <3>1, <3>2, <4>1
      <4> QED BY <4>2 DEF nprbytes, d
    <3> QED BY <3>1, <3>2, <3>3
  <2>4. CASE b64_decode
    <3>1. /\ fn = "b64_decode" /\ nprbytes > 4 /\ out' = out \o Decoded(4) /\ next' = next + 4
          /\ UNCHANGED <<fn, in, cap>>
      BY <2>4 DEF b64_decode
    <3>2. PICK h \in Nat : /\ h \in 0 .. Len(in) /\ next = 4 * h + 1 /\ Len(out) = 3 * h
                           /\ 4 * h <= Len(in) /\ nprbytes \in Int /\ nprbytes <= Len(in) - 4 * h
      BY <2>3, <3>1
    <3>3. SeqOfOwn(out') /\ Len(out') = Len(out) + 3
      <4> DEFINE b == Decoded(4)
      <4>1. b = [i \in 1 .. 4 - 1 |-> b[i]] /\ 4 - 1 = 3 /\ 3 \in Nat
        BY DEF Decoded
      <4>2. b = [i \in 1 .. 3 |-> b[i]] /\ SeqOfOwn(out) /\ out' = out \o b
        BY <2>3, <3>1, <4>1
      <4> HIDE DEF b
      <4> QED BY <4>1, <4>2, RowsJoined
    <3>4. /\ h + 1 \in 0 .. Len(in) /\ next' = 4 * (h + 1) + 1 /\ Len(out') = 3 * (h + 1)
          /\ 4 * (h + 1) <= Len(in)
      BY <2>3, <3>1, <3>2, <3>3
    <3>5. Len(out') \in Nat
      BY <3>2, <3>4
    <3> QED BY <2>3, <3>1, <3>3, <3>4, <3>5 DEF DecodingText, SeqOfOwn
  <2>5. CASE b64_decode_done
    <3>1. /\ fn = "b64_decode" /\ nprbytes <= 4 /\ out' = DecodedToEnd /\ fn' = "none"
          /\ UNCHANGED cap
      BY <2>5 DEF b64_decode_done
    <3>2. PICK h \in Nat : /\ h \in 0 .. Len(in) /\ next = 4 * h + 1 /\ Len(out) = 3 * h
                           /\ 4 * h <= Len(in) /\ nprbytes \in Int /\ nprbytes <= Len(in) - 4 * h
      BY <2>3, <3>1
    <3>3. cap \in Nat /\ Len(in) \in Nat /\ cap >= 3 * (Len(in) \div 4) - 1
      BY <2>3, <3>1
    <3> DEFINE r == nprbytes
    <3>4. CASE r <= 0
      <4>1. out' = out
        BY <3>1, <3>2, <3>4 DEF DecodedToEnd
      <4>2. Len(out') \in Nat /\ Len(out') <= cap + 3
        BY <3>2, <3>3, <4>1
      <4> QED BY <3>1, <3>3, <4>2 DEF DecodingText
    <3>5. CASE r > 0
      <4>1. r \in 1 .. 4 /\ r <= Len(in) - 4 * h
        BY <3>1, <3>2, <3>5
      <4> HIDE DEF r
      <4>2. out' = out \o Decoded(r)
        BY <3>1, <4>1 DEF DecodedToEnd, r
      <4>3. Len(out') = 3 * h + (r - 1)
        <5> DEFINE b == Decoded(r)
                   m == r - 1
        <5>1. b = [i \in 1 .. m |-> b[i]]
          BY DEF Decoded
        <5>2. m \in Nat /\ SeqOfOwn(out) /\ out' = out \o b
          BY <2>3, <3>1, <4>1, <4>2
        <5> HIDE DEF b, m
        <5>3. Len(out') = Len(out) + m
          BY <5>1, <5>2, RowsJoined
        <5> QED BY <3>2, <5>3 DEF m
      <4>4. Len(out') \in Nat /\ Len(out') <= cap + 3
        <5> DEFINE q == Len(in) \div 4
        <5>1. q \in Int /\ 4 * q + 3 >= Len(in) /\ cap >= 3 * q - 1
          BY <3>3
        <5> HIDE DEF q
        <5> QED BY <3>2, <3>3, <4>1, <4>3, <5>1
      <4> QED BY <3>1, <3>3, <4>4 DEF DecodingText
    <3> QED BY <3>2, <3>4, <3>5
  <2>6. fn \in {"none", "b64_decode"}
    BY <2>1 DEF DecodingText
  <2>7. ~(\/ b32_encode \/ AddressEncoded \/ b32_decode \/ from_b32_init \/ b64_encode
          \/ ValueEncoded \/ b2048_encode \/ mnemonic_from_seed
          \/ WordAdded \/ UnknownWord \/ ByteStored \/ SeedRecovered)
    BY <2>6 DEF b32_encode, AddressEncoded, b32_decode, from_b32_init, b64_encode, ValueEncoded,
                b2048_encode, mnemonic_from_seed, WordAdded, UnknownWord, ByteStored, SeedRecovered
  <2>8. \/ \E text \in Text, size \in Capacity : DecodeText(text, size)
        \/ b64_decode \/ b64_decode_done \/ UNCHANGED loopVars
    BY <2>7, Steps DEF vars
  <2> QED BY <1>1, <2>2, <2>4, <2>5, <2>8
<1>3. op # "text" => \E text \in Text, size \in Capacity : DecodeText(text, size)
  BY Steps
<1> QED BY <1>1, <1>2, <1>3

(* The phrase a call made is joined with blanks.                             *)
LEMMA PhraseIsJoined ==
  ASSUME RoomInv, MnemonicInv, [Next]_vars, op' = "mnemonic", ret' = "SUCCESS"
  PROVE  got' = [separator |-> " ", words |-> got'.words]
<1>1. ~\E seed \in Seed : vertices_mnemonic_from_sk(seed)
  BY DEF vertices_mnemonic_from_sk, Call
<1>2. op = "mnemonic"
  BY <1>1, Steps
<1>3. CASE mnemonic_from_seed
  BY <1>3 DEF mnemonic_from_seed, Return
<1>4. CASE UNCHANGED vars
  BY <1>2, <1>4 DEF vars, RoomInv
<1>5. CASE b2048_encode
  BY <1>2, <1>5 DEF b2048_encode, MnemonicInv, Written
<1>6. fn \in {"none", "b2048_encode"}
  BY <1>2 DEF MnemonicInv, Written
<1>7. ~(\/ b32_encode \/ AddressEncoded \/ b32_decode \/ from_b32_init \/ b64_encode
        \/ ValueEncoded \/ b64_decode \/ b64_decode_done
        \/ WordAdded \/ UnknownWord \/ ByteStored \/ SeedRecovered)
  BY <1>6 DEF b32_encode, AddressEncoded, b32_decode, from_b32_init, b64_encode, ValueEncoded,
              b64_decode, b64_decode_done, WordAdded, UnknownWord, ByteStored, SeedRecovered
<1> QED BY <1>1, <1>3, <1>4, <1>5, <1>7, Steps

(* Only as many words as a seed has are read, and each has its bits or is    *)
(* unknown, whether they are the client's or a call made them.             *)
LEMMA WordsGiven ==
  ASSUME RoomInv, MnemonicInv, NEW phrase \in Phrases,
         vertices_s_account_new_from_mnemonic(phrase), fn' = "seed_from_mnemonic"
  PROVE  ReadingWords'
<1> USE DEF BYTE, WORD
<1> DEFINE words == phrase.words
<1>1. SEED_WORDS \in Nat /\ SEED_LENGTH \in Nat /\ SEED_WORDS > 1
  <2>1. /\ SEED_LENGTH \in Nat /\ SEED_LENGTH # 0 /\ SEED_WORDS \in Nat
        /\ 11 * SEED_WORDS = 8 * (SEED_LENGTH + 1)
    BY WordsHoldSeed
  <2> QED BY <2>1
<1>2. fn = "none"
  BY DEF MnemonicInv, Written, Idle, vertices_s_account_new_from_mnemonic
<1>3. /\ Tokens(phrase) - 1 = SEED_WORDS /\ in' = SubSeq(words, 1, SEED_WORDS)
      /\ next' = 1 /\ bits' = <<>> /\ out' = <<>> /\ cap' = SEED_LENGTH
  BY <1>2 DEF vertices_s_account_new_from_mnemonic, Loop, loopVars
<1>4. \/ words \in Seq(Bits(WORD) \cup {Unknown})
      \/ words = got.words /\ IsPhraseOf(words, given)
  <2>1. CASE phrase \in Phrase
    BY <2>1, PhraseAssumption DEF Unknown
  <2>2. CASE op = "mnemonic" /\ ret = "SUCCESS" /\ phrase \in {got, [got EXCEPT !.separator = "\n"]}
    <3>1. got = [separator |-> " ", words |-> got.words]
      BY <2>2 DEF RoomInv
    <3>2. words = got.words
      BY <2>2, <3>1
    <3>3. IsPhraseOf(got.words, given)
      BY <1>2, <2>2 DEF MnemonicInv, Written
    <3> QED BY <2>2, <3>2, <3>3
  <2> QED BY <2>1, <2>2 DEF Phrases
<1> HIDE DEF words
<1>5. Len(words) \in Nat
  <2>1. CASE words \in Seq(Bits(WORD) \cup {Unknown})
    BY <2>1, LenProperties
  <2>2. CASE IsPhraseOf(words, given)
    BY <1>1, <2>2 DEF IsPhraseOf
  <2> QED BY <1>4, <2>1, <2>2
<1>6. Len(words) = SEED_WORDS + 1
  BY <1>1, <1>3, <1>5 DEF Tokens, Smaller, words
<1>7. \E T : words \in Seq(T) /\ \A j \in 1 .. SEED_WORDS : words[j] \in Bits(WORD) \cup {Unknown}
  <2>1. CASE words \in Seq(Bits(WORD) \cup {Unknown})
    BY <1>1, <1>6, <2>1, ElementOfSeq
  <2>2. CASE IsPhraseOf(words, given)
    BY <2>2 DEF IsPhraseOf
  <2> QED BY <1>4, <2>1, <2>2
<1>8. Len(in') = SEED_WORDS /\ \A j \in 1 .. SEED_WORDS : in'[j] = words[j]
  <2>1. PICK T : words \in Seq(T)
    BY <1>7
  <2>2. \A j \in 1 .. SEED_WORDS : words[j] \in T
    BY <1>1, <1>6, <2>1, ElementOfSeq
  <2>3. /\ Len(SubSeq(words, 1, SEED_WORDS)) = IF 1 <= SEED_WORDS THEN SEED_WORDS - 1 + 1 ELSE 0
        /\ \A j \in 1 .. SEED_WORDS - 1 + 1 : SubSeq(words, 1, SEED_WORDS)[j] = words[1 + j - 1]
    BY <1>1, <2>2, SubSeqProperties
  <2> QED BY <1>1, <1>3, <2>3
<1>9. Len(out') = 0 /\ out' \in Seq(Bits(BYTE)) /\ Len(bits') = 0 /\ bits' \in BitSeq
  BY <1>3, EmptySeq DEF BitSeq
<1>10. \A j \in 1 .. SEED_WORDS : in'[j] \in Bits(WORD) \cup {Unknown}
  BY <1>7, <1>8
<1>11. next' \in 1 .. SEED_WORDS + 1 /\ WORD * (next' - 1) = BYTE * Len(out') + Len(bits')
  BY <1>1, <1>3, <1>9
<1> QED BY <1>3, <1>8, <1>9, <1>10, <1>11 DEF ReadingWords, Unknown

(* The bits of the words that were read are in bytes or still to be used.    *)
LEMMA WordsFit ==
  ASSUME RoomInv, MnemonicInv, [Next]_vars, fn' = "seed_from_mnemonic"
  PROVE  ReadingWords'
<1> USE DEF BYTE, WORD
<1>1. CASE \E phrase \in Phrases : vertices_s_account_new_from_mnemonic(phrase)
  BY <1>1, WordsGiven
<1>2. CASE fn = "seed_from_mnemonic"
  <2>1. ReadingWords
    BY <1>2 DEF RoomInv
  <2>2. /\ next \in 1 .. SEED_WORDS + 1 /\ SEED_WORDS \in Nat /\ bits \in BitSeq
        /\ Len(bits) \in Nat /\ out \in Seq(Bits(BYTE)) /\ Len(out) \in Nat
        /\ WORD * (next - 1) = BYTE * Len(out) + Len(bits)
    BY <2>1, WordsHoldSeed, LenProperties DEF ReadingWords, BitSeq
  <2>3. CASE UNCHANGED vars
    BY <2>1, <2>3 DEF vars, loopVars, ReadingWords
  <2>4. CASE WordAdded
    <3>1. /\ InputLeft /\ in[next] # Unknown /\ bits' = bits \o in[next] /\ next' = next + 1
          /\ UNCHANGED <<in, out, cap>>
      BY <2>4 DEF WordAdded
    <3>2. next \in 1 .. SEED_WORDS
      BY <2>1, <2>2, <3>1 DEF ReadingWords, InputLeft
    <3>3. in[next] \in Bits(WORD) /\ WORD \in Nat
      BY <2>1, <3>1, <3>2 DEF ReadingWords
    <3>4. in[next] \in BitSeq /\ Len(in[next]) = WORD
      BY <3>3, BitsAreASeq
    <3> DEFINE word == in[next]
    <3>5. bits' \in BitSeq /\ Len(bits') = Len(bits) + WORD
      <4>1. word \in BitSeq /\ Len(word) = WORD /\ bits' = bits \o word
        BY <3>1, <3>4
      <4> HIDE DEF word
      <4>2. bits \in Seq({0, 1}) /\ word \in Seq({0, 1})
        BY <2>2, <4>1 DEF BitSeq
      <4>3. bits \o word \in Seq({0, 1}) /\ Len(bits \o word) = Len(bits) + Len(word)
        BY <4>2, ConcatProperties
      <4> QED BY <4>1, <4>3 DEF BitSeq
    <3>6. next' \in 1 .. SEED_WORDS + 1 /\ WORD * (next' - 1) = BYTE * Len(out) + Len(bits')
      <4>1. next' \in 1 .. SEED_WORDS + 1 /\ next' = next + 1
        BY <2>2, <3>1, <3>2
      <4> DEFINE a == Len(bits)
                 b == Len(out)
      <4>2. 11 * (next - 1) = 8 * b + a /\ a \in Int /\ b \in Int /\ next \in Int
        BY <2>2
      <4>3. Len(bits') = a + 11
        BY <3>5
      <4> HIDE DEF a, b
      <4>4. 11 * (next' - 1) = 8 * b + (a + 11)
        BY <4>1, <4>2
      <4> QED BY <4>1, <4>3, <4>4 DEF b
    <3> QED BY <2>1, <3>1, <3>5, <3>6 DEF ReadingWords
  <2>5. CASE ByteStored
    <3>1. /\ Len(bits) >= BYTE /\ out' = Append(out, SubSeq(bits, 1, BYTE))
          /\ bits' = From(bits, BYTE + 1) /\ UNCHANGED <<in, next, cap>>
      BY <2>5 DEF ByteStored
    <3>2. BYTE \in 0 .. Len(bits)
      BY <2>2, <3>1
    <3>3. SubSeq(bits, 1, BYTE) \in Bits(BYTE) /\ bits' \in BitSeq /\ Len(bits') = Len(bits) - BYTE
      BY <2>2, <3>1, <3>2, CutInTwo
    <3>4. out' \in Seq(Bits(BYTE)) /\ Len(out') = Len(out) + 1
      BY <2>2, <3>1, <3>3
    <3>5. WORD * (next - 1) = BYTE * Len(out') + Len(bits')
      BY <2>2, <3>3, <3>4
    <3> QED BY <2>1, <3>1, <3>3, <3>4, <3>5 DEF ReadingWords
  <2>6. ~(\/ b32_encode \/ AddressEncoded \/ b32_decode \/ from_b32_init \/ b64_encode
          \/ ValueEncoded \/ b64_decode \/ b64_decode_done \/ b2048_encode \/ mnemonic_from_seed
          \/ UnknownWord \/ SeedRecovered)
    BY <1>2 DEF b32_encode, AddressEncoded, b32_decode, from_b32_init, b64_encode, ValueEncoded,
                b64_decode, b64_decode_done, b2048_encode, mnemonic_from_seed, UnknownWord,
                SeedRecovered, Return
  <2>7. ~(\/ \E key \in Key : vertices_account_new_from_bin(key)
          \/ \E public_b32 \in Address : vertices_account_new_from_b32(public_b32)
          \/ \E value \in Value : EncodeValue(value)
          \/ \E text \in Text, size \in Capacity : DecodeText(text, size)
          \/ \E seed \in Seed : vertices_mnemonic_from_sk(seed)
          \/ Forget)
    BY <1>2 DEF vertices_account_new_from_bin, vertices_account_new_from_b32, EncodeValue,
                DecodeText, vertices_mnemonic_from_sk, Forget, Call, Idle
  <2> QED BY <1>1, <2>3, <2>4, <2>5, <2>6, <2>7 DEF Next
<1>3. fn # "seed_from_mnemonic" => \E phrase \in Phrases : vertices_s_account_new_from_mnemonic(phrase)
  <2> SUFFICES ASSUME fn # "seed_from_mnemonic"
               PROVE  \E phrase \in Phrases : vertices_s_account_new_from_mnemonic(phrase)
    OBVIOUS
  <2>1. OpOfLoop' /\ op' = "seed"
    BY LoopStep DEF OpOfLoop
  <2>2. ~UNCHANGED vars
    BY DEF vars, loopVars
  <2>3. ~(\/ b32_encode \/ AddressEncoded \/ b32_decode \/ from_b32_init \/ b64_encode
          \/ ValueEncoded \/ b64_decode \/ b64_decode_done \/ b2048_encode \/ mnemonic_from_seed
          \/ WordAdded \/ UnknownWord \/ ByteStored \/ SeedRecovered)
    BY DEF b32_encode, AddressEncoded, b32_decode, from_b32_init, b64_encode, ValueEncoded,
           StartDecoding, b64_decode, b64_decode_done, b2048_encode, mnemonic_from_seed, WordAdded,
           UnknownWord, ByteStored, SeedRecovered, Return, Loop
  <2> QED BY <2>1, <2>2, <2>3, Steps
<1> QED BY <1>1, <1>2, <1>3

LEMMA RoomStep ==
  ASSUME RoomInv, AddressInv, AddressInv', MnemonicInv, [Next]_vars
  PROVE  RoomInv'
<1>1. OpOfLoop' /\ (Idle => out = <<>> /\ cap = 0)'
  BY LoopStep
<1>2. (op = "from_bin" => Len(out) \in Nat /\ cap \in Nat /\ Len(out) <= cap)'
  BY KeyFits
<1>3. (op = "from_b32" => ReadingAddress)' /\ (op = "text" => DecodingText)'
  BY AddressFits, TextFits
<1>4. (fn = "seed_from_mnemonic" => ReadingWords)'
  BY WordsFit
<1>5. (op = "mnemonic" /\ ret = "SUCCESS" => got = [separator |-> " ", words |-> got.words])'
  BY PhraseIsJoined
<1> QED BY <1>1, <1>2, <1>3, <1>4, <1>5 DEF RoomInv

(* No loop writes past its buffer, but for the bytes TextsFit names, for     *)
(* inputs, keys and seeds of every length: b64_decode's by the byte or the *)
(* three that its check of the room leaves out (base64.c:95), and the      *)
(* mnemonic's by the byte it drops (mnemonic.c:169-189).                   *)
THEOREM TextsStayInRoom == Spec => []TextsFit
<1>1. Init => RoomInv /\ AddressInv /\ MnemonicInv /\ ValueInv
  BY EmptySeq DEF Init, RoomInv, OpOfLoop, AddressInv, MnemonicInv, OwnWords, ValueInv
<1>2. RoomInv /\ ValueInv => TextsFit
  <2> SUFFICES ASSUME RoomInv, ValueInv PROVE TextsFit
    OBVIOUS
  <2>1. CASE fn = "seed_from_mnemonic"
    <3>1. /\ cap = SEED_LENGTH /\ next \in 1 .. SEED_WORDS + 1
          /\ Len(out) \in Nat /\ Len(bits) \in Nat
          /\ WORD * (next - 1) = BYTE * Len(out) + Len(bits)
      BY <2>1, LenProperties DEF RoomInv, ReadingWords, BitSeq
    <3>2. Len(out) - cap <= 1
      BY <3>1, WordsHoldSeed DEF BYTE, WORD
    <3>3. op = "seed"
      BY <2>1 DEF RoomInv, OpOfLoop
    <3> QED BY <2>1, <3>2, <3>3 DEF TextsFit
  <2>2. CASE fn # "seed_from_mnemonic" /\ op = "value"
    <3>1. /\ Len(out) \in Nat /\ cap \in Nat
          /\ Len(out) <= cap \/ (Len(out) = cap + 1 /\ Len(out) % 3 = 0 /\ Len(given) = Len(out))
      BY <2>2 DEF ValueInv, ValueFits
    <3>2. Len(out) - cap <= 0 \/ (Len(out) - cap = 1 /\ Len(out) % 3 = 0 /\ Len(given) = Len(out))
      BY <3>1
    <3> QED BY <2>2, <3>2 DEF TextsFit
  <2>3. CASE fn # "seed_from_mnemonic" /\ op = "text"
    <3>1. DecodingText
      BY <2>3 DEF RoomInv
    <3>2. cap \in Nat /\ Len(out) \in Nat /\ fn \in {"none", "b64_decode"}
      BY <3>1 DEF DecodingText
    <3>3. Len(out) <= cap + 3
      <4>1. CASE fn = "none"
        BY <3>1, <4>1 DEF DecodingText
      <4>2. CASE fn = "b64_decode"
        <5>1. Len(in) \in Nat /\ cap >= 3 * (Len(in) \div 4) - 1
          BY <3>1, <4>2 DEF DecodingText
        <5>2. PICK h \in 0 .. Len(in) : Len(out) = 3 * h /\ 4 * h <= Len(in)
          BY <3>1, <4>2 DEF DecodingText
        <5> DEFINE q == Len(in) \div 4
        <5>3. q \in Int /\ 4 * q + 3 >= Len(in) /\ cap >= 3 * q - 1
          BY <5>1
        <5> HIDE DEF q
        <5> QED BY <3>2, <5>1, <5>2, <5>3
      <4> QED BY <3>2, <4>1, <4>2
    <3>4. Len(out) - cap <= 3
      BY <3>2, <3>3
    <3> QED BY <2>3, <3>4 DEF TextsFit
  <2>4. CASE fn # "seed_from_mnemonic" /\ op \in {"from_bin", "from_b32"}
    <3>1. Len(out) \in Nat /\ cap \in Nat /\ Len(out) <= cap
      BY <2>4, Lengths, LenProperties DEF RoomInv, ReadingAddress
    <3>2. Len(out) - cap <= 0
      BY <3>1
    <3> QED BY <2>4, <3>2 DEF TextsFit
  <2>5. CASE fn # "seed_from_mnemonic" /\ op \notin {"value", "text", "from_bin", "from_b32"}
    BY <2>5 DEF TextsFit
  <2> QED BY <2>1, <2>2, <2>3, <2>4, <2>5
<1>3. /\ RoomInv /\ AddressInv /\ MnemonicInv /\ ValueInv /\ [Next]_vars
      => (RoomInv /\ AddressInv /\ MnemonicInv /\ ValueInv)'
  BY RoomStep, AddressStep, MnemonicStep, ValueStep
<1> QED BY <1>1, <1>2, <1>3, PTL DEF Spec
=============================================================================
