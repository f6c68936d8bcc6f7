-------------------------- MODULE AccountInfoProps --------------------------
(* The properties of AccountInfo. *)
EXTENDS AccountInfo

(* The parser never writes to an application the structure does not have   *)
(* room for, nor a variable past the eighth that it noticed, whatever the  *)
(* node answers and whatever the structure held.                           *)
InAnApp == m_parsing_account_step \in AppSteps
InAVariable == m_parsing_account_step \in {"APP_KV_VAR", "APP_KV_TYPE", "APP_KV_VALUE_INT",
                                           "APP_KV_VALUE_SLICE"}
IndexesInBounds ==
  /\ InAnApp => account.app_idx < APPS_MAX_COUNT
  /\ InAVariable => past \/ kv_idx < APPS_KV_MAX_COUNT
  /\ \A i \in Local : m_accounts[i].account.app_idx <= APPS_MAX_COUNT

(* The array of variables is overrun only by an answer with more of them   *)
(* than fit or of another type, or through what was on the stack when      *)
(* s_account_update was called.                                            *)
WritesStayInside ==
  past => call.op = "s_account_update" \/ ~plain[call.account]

(* While the answers are such as the parser was written for, a local       *)
(* account has the applications of all its answers, one after another, as  *)
(* many as fit, each with its variables, however many fields the parser    *)
(* does not know follow and however early it gives up.                     *)
AppRecord(app) ==
  [app_id |-> app.id, count |-> Len(app.variables),
   values |-> [k \in 0 .. APPS_KV_MAX_COUNT - 1 |->
                 IF k < Len(app.variables) THEN app.variables[k + 1] ELSE NoKeyValue]]
Told(i) == FlattenSeq([n \in DOMAIN answers[i] |-> answers[i][n].apps])

AppsAreThoseTold ==
  \A i \in Local : Idle /\ m_accounts[i].status = "ADDED" /\ plain[i] =>
    LET details == m_accounts[i].account IN
    /\ details.app_idx = IF Len(Told(i)) < APPS_MAX_COUNT THEN Len(Told(i)) ELSE APPS_MAX_COUNT
    /\ \A j \in 0 .. APPS_MAX_COUNT - 1 :
         details.apps_local[j] = IF j < details.app_idx THEN AppRecord(Told(i)[j + 1]) ELSE NoApp

(* The balance of a local account is the amount last told that was not 0,  *)
(* for the node leaves out an amount of 0, as long as it fits an int32_t.  *)
BalanceAsTold ==
  \A i \in Local : Idle /\ m_accounts[i].status = "ADDED" /\ plain[i] =>
    \A n \in DOMAIN answers[i] :
      LET told == answers[i][n].amount IN
      /\ told # 0 /\ 2 * told < INT32_RANGE
      /\ \A later \in DOMAIN answers[i] : later > n => answers[i][later].amount = 0
      => account_balance(i) = told

(* An account that was asked for once opts in to exactly those             *)
(* applications it has not opted in to.                                    *)
OptInsAreNeeded ==
  LET a == on_complete.sender IN
  a \in Local /\ plain[a] /\ Len(answers[a]) = 1 /\ Len(Told(a)) <= APPS_MAX_COUNT =>
    (on_complete.opt_in <=> \A n \in DOMAIN Told(a) : Told(a)[n].id # on_complete.app_id)

(* The parser comes to an end, or to a write past an array.                *)
ParsingEnds == call # NoCall ~> call = NoCall \/ past

(* A cleared structure gets the elements that have a key, up to the first  *)
(* that cannot be used, in their order; those of another type are left     *)
(* with what the structure held.                                           *)
Keyed(elements) == {n \in DOMAIN elements : elements[n].key # "none"}
Useless(elements) == {n \in Keyed(elements) : Unusable(elements[n])}
Read(elements) == {n \in Keyed(elements) : \A u \in Useless(elements) : n < u}
Place(elements, n) == Cardinality({k \in Read(elements) : k < n})

HasGlobals(g, elements) ==
  /\ g.count = Cardinality(Read(elements))
  /\ g.ret = IF Useless(elements) = {} THEN "SUCCESS" ELSE "NOT_FOUND"
  /\ \A n \in Read(elements) : elements[n].type \in {"int", "bytes"} =>
       g.values[Place(elements, n)].value = elements[n].value

GlobalsAsTold ==
  [][\A elements \in GlobalsAnswer :
       provider_application_info_get(elements, NoGlobals) /\ ~global_states'.overrun
       => HasGlobals(global_states', elements)]_vars
=============================================================================
