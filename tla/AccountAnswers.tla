--------------------------- MODULE AccountAnswers ---------------------------
(***************************************************************************)
(* What the node says of an account and the MessagePack it sends for it,   *)
(* which is no code of the repository: maps with their keys in order, and  *)
(* without the fields that are 0 or empty.                                 *)
(***************************************************************************)
EXTENDS AccountParser, SequencesExt

CONSTANT AccountAnswer     \* what the node may say of an account

(* An application the account has opted in to, with the schema it was      *)
(* created with, which limits its variables, and an answer.  "others" are  *)
(* the fields after the applications.                                      *)
App == [id : Nat, nbs : Nat, nui : Nat, variables : Seq(KeyValue)]
Answer == [amount : Nat, created : BOOLEAN, apps : Seq(App), others : Seq(Seq(Elements))]

HasSchema(app) == app.nbs + app.nui > 0
Keys == {"algo", "apar", "appl", "hsch", "tkv", "nbs", "nui", "tb", "tt", "ui"}

(* Nothing the node puts after the applications is one of the two keys of  *)
(* the fields before them, and the encoding nests no deeper than the       *)
(* parser follows it.                                                      *)
ASSUME AnswerAssumption ==
  /\ AccountAnswer \subseteq Answer /\ Keys \cup {"slice", "am", "t"} \subseteq Text
  /\ \A a \in AccountAnswer :
       /\ \A i \in DOMAIN a.apps : a.apps[i].variables # <<>> => HasSchema(a.apps[i])
       /\ \A n \in DOMAIN a.others : \A m \in DOMAIN a.others[n] :
            a.others[n][m].kind = "str" => a.others[n][m].s \notin {"algo", "appl"}
  /\ MAX_DEPTH >= 6

Field(present, key, value) == IF present THEN << <<Str(key)>> \o value >> ELSE <<>>
Fields(fields) == <<Map(Len(fields))>> \o FlattenSeq(fields)

VariableFields(v) ==
  <<Str(v.name)>> \o Fields(Field(v.type = 1 /\ v.value # 0, "tb", <<Str("slice")>>)
                            \o Field(TRUE, "tt", <<UInt(v.type)>>)
                            \o Field(v.type = 2 /\ v.value # 0, "ui", <<UInt(v.value)>>))

Schema(app) == Fields(Field(app.nbs > 0, "nbs", <<UInt(app.nbs)>>)
                      \o Field(app.nui > 0, "nui", <<UInt(app.nui)>>))
Variables(app) ==
  <<Map(Len(app.variables))>>
  \o FlattenSeq([k \in DOMAIN app.variables |-> VariableFields(app.variables[k])])
AppFields(app) ==
  <<UInt(app.id)>> \o Fields(Field(HasSchema(app), "hsch", Schema(app))
                             \o Field(app.variables # <<>>, "tkv", Variables(app)))

Asset == <<Map(1), UInt(7), Map(2), Str("am"), Element("bin", "", 0), Str("t"), UInt(2)>>
Apps(a) == <<Map(Len(a.apps))>> \o FlattenSeq([i \in DOMAIN a.apps |-> AppFields(a.apps[i])])
AccountBody(a) ==
  Fields(Field(a.amount # 0, "algo", <<UInt(a.amount)>>)
         \o Field(a.created, "apar", Asset)
         \o Field(a.apps # <<>>, "appl", Apps(a))
         \o a.others)
=============================================================================
