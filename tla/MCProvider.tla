----------------------------- MODULE MCProvider -----------------------------
(* Values for TLC: functions and sets of sets a .cfg file cannot hold. *)
EXTENDS ProviderProps

MCMinFee == [n \in Network |-> IF n = "testnet" THEN 1 ELSE 3]
MCReleases == {[p \in Part |-> 1]}

(* GET /versions: whole, without the patch, and as it may be refused;      *)
(* GET /v2/transactions/params: whole, and with one field missing; bodies  *)
(* with all that is read of either, an error's JSON, and text.             *)
MCFields ==
  {{"json", "hash"} \cup Part, {"json", "hash", "major", "minor"},
   {"json", "id_too_long", "hash"} \cup Part, {"json", "bad_hash", "fee", "round"},
   {"json", "fee", "round"}, {"json", "fee"}, {"json", "round"},
   {"json", "hash", "fee", "round"}, {"json"}, {}}
=============================================================================
