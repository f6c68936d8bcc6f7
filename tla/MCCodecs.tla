------------------------------ MODULE MCCodecs ------------------------------
(***************************************************************************)
(* Bytes of the widths of the code, in keys, seeds and values that are     *)
(* shorter: 3 bytes make an address of 5 digits, and 21 bytes 16 words, of *)
(* which the last has 3 bits, as with the 32 bytes and 24 words of a seed. *)
(***************************************************************************)
EXTENDS CodecsProps, SequencesExt, FiniteSetsExt

MCByte == {<<0, 0, 0, 0, 0, 0, 0, 0>>, <<1, 0, 0, 0, 1, 1, 0, 1>>,
           <<0, 1, 1, 0, 0, 0, 1, 0>>, <<1, 1, 1, 1, 1, 1, 1, 1>>}
MCKey == [1 .. 2 -> MCByte]

(* Some two bytes that depend on all the bits *)
MCDigest(bytes) ==
  LET ones == SumSet({i * BYTE + k : <<i, k>> \in
                {<<i, k>> \in (1 .. Len(bytes)) \X (1 .. BYTE) : bytes[i][k] = 1}})
      bit(n) == (ones \div (2 ^ n)) % 2
  IN <<[k \in 1 .. BYTE |-> bit(k)], [k \in 1 .. BYTE |-> bit(BYTE - k)]>>

MCSeed == {[i \in 1 .. SEED_LENGTH |-> a] : a \in MCByte}
          \cup {[i \in 1 .. SEED_LENGTH |-> IF i % 2 = 0 THEN a ELSE b] :
                  a \in MCByte, b \in {<<1, 1, 0, 0, 0, 0, 0, 1>>}}

A == Char(<<0, 1, 0, 1, 1>>)
MCAddress == SeqOf({A, Char(<<1, 1, 1, 0, 0>>), Blank, Pad, Invalid}, 5)

B == Char(<<0, 1, 0, 1, 1, 0>>)
MCText == SeqOf({B, Pad}, 8) \cup SeqOf({Char(<<1, 0, 0, 1, 1, 1>>), Blank}, 4)
MCValue == UNION {[1 .. n -> MCByte] : n \in 0 .. 4}
           \cup {[i \in 1 .. n |-> <<1, 0, 0, 0, 1, 1, 0, 1>>] : n \in 5 .. 7}

Word(n) == [k \in 1 .. WORD |-> IF k <= n THEN 1 ELSE 0]
MCPhrase ==
  LET all == [i \in 1 .. SEED_WORDS |-> Word(i % WORD)]
      Phr(separator, words) == [separator |-> separator, words |-> words] IN
  {Phr("\n", <<>>), Phr("\n", <<Word(1)>>), Phr("\n", all \o <<Unknown>>),
   Phr("\n", all \o <<Word(3)>>), Phr("\n", [all EXCEPT ![5] = Unknown] \o <<Word(3)>>),
   Phr("\n", [all EXCEPT ![SEED_WORDS] = Word(0)] \o <<Word(2)>>)}
=============================================================================
