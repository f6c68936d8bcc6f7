--------------------------- MODULE MCAccountInfo ---------------------------
(***************************************************************************)
(* Small answers: applications with and without variables and a schema, as *)
(* many variables as fit and one more, a byte slice, and an account that   *)
(* has created something.                                                  *)
(***************************************************************************)
EXTENDS AccountInfoProps

MCText == {"", "algo", "apar", "appl", "ebase", "ern", "onl", "tsch", "hsch", "tkv", "nbs", "nui",
           "tb", "tt", "ui", "am", "t", "slice", "c", "z", "s"}

Variable(name, type, value) == [name |-> name, type |-> type, value |-> value]
Counter == Variable("c", 2, 1)
Algo == Variable("algo", 2, 4)
Zero == Variable("z", 2, 0)
Slice == Variable("s", 1, 1)

Count(variables, type) == Len(SelectSeq(variables, LAMBDA v : v.type = type))
OptedIn(id, variables) ==
  [id |-> id, variables |-> variables, nbs |-> Count(variables, 1), nui |-> Count(variables, 2)]

Said(amount, created, apps) ==
  [amount |-> amount, created |-> created, apps |-> apps,
   others |-> <<<<Str("ebase"), UInt(3)>>>>
              \o (IF amount = 2 THEN <<<<Str("ern"), UInt(1)>>, <<Str("onl"), UInt(1)>>>> ELSE <<>>)
              \o (IF apps # <<>> THEN <<<<Str("tsch"), Map(1), Str("nui"), UInt(1)>>>> ELSE <<>>)]

MCAccountAnswer ==
  {Said(0, FALSE, <<>>),
   Said(2, FALSE, <<OptedIn(1, <<Counter, Algo>>)>>),
   Said(5, FALSE, <<OptedIn(1, <<Zero>>), OptedIn(2, <<>>)>>),
   Said(9, FALSE, <<OptedIn(1, <<Counter>>), OptedIn(2, <<Counter, Zero>>), OptedIn(3, <<Algo>>)>>),
   Said(3, FALSE, <<[OptedIn(1, <<>>) EXCEPT !.nbs = 1, !.nui = 1], OptedIn(3, <<Algo>>)>>),
   Said(1, TRUE, <<OptedIn(1, <<Counter>>)>>),
   Said(1, FALSE, <<OptedIn(1, <<Slice, Algo>>), OptedIn(2, <<Counter>>)>>),
   Said(1, FALSE, <<OptedIn(1, <<Counter, Zero, Algo>>)>>)}

(* Nothing, a text (its first byte is a number), and what nests too deeply. *)
MCOtherAnswer == {<<>>, <<UInt(60)>>, <<Arr(1), Map(1), Arr(2), Element("other", "", 0), Map(1), Str("appl"), Map(1), UInt(1)>>}

MCUninitialised ==
  {Zeroed, [Zeroed EXCEPT !.app_idx = APPS_MAX_COUNT + 3],
   [Zeroed EXCEPT !.apps_local[0].count = APPS_KV_MAX_COUNT]}

Global(key, type, value) == [key |-> key, type |-> type, value |-> value]
MCGlobalsAnswer ==
  {<<>>,
   <<Global("a", "int", 3), Global("none", "int", 4), Global("long", "bytes", 5)>>,
   <<Global("a", "other", 0), Global("b", "int", 6)>>,
   <<Global("b", "int", 6), Global("a", "absent", -1), Global("c", "int", 1)>>,
   <<Global("a", "bytes", -1)>>,
   <<Global("a", "int", 1), Global("b", "int", 2), Global("c", "int", 3)>>}
=============================================================================
