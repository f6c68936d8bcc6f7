---------------------------- MODULE CodecsProps ----------------------------
(* The properties of Codecs. *)
EXTENDS Codecs

(* The account of a binary key has that key: it goes through its address,  *)
(* cut to the length of the buffers on both ways, and nothing of it is     *)
(* lost, moved or mixed with the checksum.                                 *)
AddressGivesItsKey == op = "from_bin" /\ ret = "SUCCESS" => got = given

(* The words of a seed, one to a line, give back that seed, and are        *)
(* refused neither for their number nor for their checksum, although the   *)
(* last word is not full and is read as a byte more than there was.        *)
MnemonicGivesItsSeed ==
  op = "seed" /\ given.seed # <<>> /\ given.separator = "\n" /\ fn = "none" =>
    ret = "SUCCESS" /\ got = given.seed

(* A value in base 64 is decoded to itself, unless it is refused.          *)
Base64GivesItsValue == op = "value" /\ ret = "SUCCESS" => got = given

(* No loop writes past the buffer it was given, except the mnemonic's, by  *)
(* the byte it drops; b64_decode, by one byte, when it decodes a value of  *)
(* that length that needs no `=', and by at most three when the text is    *)
(* none b64_encode writes.                                                 *)
TextsFit ==
  LET excess == Len(out) - cap IN
  CASE fn = "seed_from_mnemonic" -> excess <= 1
    [] op = "value" -> excess <= 0 \/ (excess = 1 /\ Len(out) % 3 = 0 /\ Len(given) = Len(out))
    [] op = "text" -> excess <= 3
    [] op \in {"from_bin", "from_b32"} -> excess <= 0
    [] OTHER -> TRUE
=============================================================================
