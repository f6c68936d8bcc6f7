---------------------------- MODULE AccountInfo ----------------------------
(***************************************************************************)
(* What the SDK knows of accounts (src/src/account.c) and of applications  *)
(* from the answers of its node.  account_new, account_update and          *)
(* s_account_update ask for an account and have the answer parsed by       *)
(* AccountParser; account_has_app, account_balance and transaction_appl    *)
(* use what it left.  provider_application_info_get fills a structure of   *)
(* the client's with the global variables of an application.               *)
(***************************************************************************)
EXTENDS AccountAnswers

CONSTANTS ACCOUNTS_MAXIMUM_COUNT,   \* slots of m_accounts, 10 in the code
          Secret,          \* accounts of the wallet
          OtherAnswer,     \* bodies that are of no account
          Uninitialised,   \* what the stack may hold for an account_details_t
          AppId,           \* applications clients call
          GlobalsAnswer,   \* global-state arrays of applications
          MaxCalls         \* bound: requests in a run

GlobalElement == [key : STRING, type : STRING, value : Int]

ASSUME AccountInfoAssumption ==
  /\ ACCOUNTS_MAXIMUM_COUNT \in Nat /\ MaxCalls \in Nat
  /\ OtherAnswer \subseteq Seq(Elements) /\ GlobalsAnswer \subseteq Seq(GlobalElement)
  /\ Uninitialised \subseteq AccountDetails

VARIABLES m_accounts,      \* the local accounts
          s_amount,        \* info.amount of the accounts of the wallet
          call,            \* the call that waits for the parser
          calls,           \* how many requests were made
          answers,         \* what was said of a local account since account_new
          plain,           \* its answers were such as the parser can follow
          on_complete,     \* what the last transaction_appl chose
          global_states    \* a client's app_values_t, and the call's result

infoVars == <<m_accounts, s_amount, answers, plain>>
clientVars == <<on_complete, global_states>>
vars == <<parserVars, infoVars, clientVars, call, calls>>

Local == 0 .. ACCOUNTS_MAXIMUM_COUNT - 1
NoCall == [op |-> "none", account |-> 0]
Idle == call = NoCall /\ ~past
MayRequest == Idle /\ calls < MaxCalls

(* Integers as variables, as many as fit, in an account that has created   *)
(* nothing: the answers the parser was written for.                        *)
Plain(a) ==
  /\ ~a.created
  /\ \A i \in DOMAIN a.apps :
       /\ Len(a.apps[i].variables) <= APPS_KV_MAX_COUNT
       /\ \A k \in DOMAIN a.apps[i].variables : a.apps[i].variables[k].type = 2

Body == {AccountBody(a) : a \in AccountAnswer} \cup OtherAnswer

NoChoice == [sender |-> -1, app_id |-> 0, opt_in |-> FALSE]
NoGlobals == [count |-> 0, values |-> [k \in 0 .. APPS_KV_MAX_COUNT - 1 |-> NoKeyValue],
              ret |-> "SUCCESS", overrun |-> FALSE]

Init ==
  /\ m_parsing_account_step = "ROOT" /\ account = Zeroed /\ past = FALSE
  /\ todo = <<>> /\ open = <<>> /\ reader_ok = TRUE
  /\ m_accounts = [i \in Local |-> [status |-> "NONE", account |-> Zeroed]]
  /\ s_amount = [s \in Secret |-> 0]
  /\ call = NoCall /\ calls = 0
  /\ answers = [i \in Local |-> <<>>]
  /\ plain = [i \in Local |-> TRUE]
  /\ on_complete = NoChoice /\ global_states = NoGlobals
-----------------------------------------------------------------------------
(* provider_account_info_get: the body is given to the parser, whose       *)
(* result is not looked at, or the request failed and nothing is parsed.   *)
(* (What clients got from other calls is of no further interest.)          *)
Parses(op, a, body, details) ==
  /\ parser_account_mpack(body, details)
  /\ call' = [op |-> op, account |-> a]

Requested == calls' = calls + 1 /\ on_complete' = NoChoice /\ global_states' = NoGlobals

provider_account_info_get(op, i) ==
  /\ \/ \E a \in AccountAnswer :
          /\ Parses(op, i, AccountBody(a), m_accounts[i].account)
          /\ answers' = [answers EXCEPT ![i] = Append(@, a)]
          /\ plain' = [plain EXCEPT ![i] = @ /\ Plain(a)]
     \/ \E body \in OtherAnswer :
          /\ Parses(op, i, body, m_accounts[i].account)
          /\ plain' = [plain EXCEPT ![i] = FALSE]
          /\ UNCHANGED answers
     \/ UNCHANGED <<parserVars, call, answers, plain>>
  /\ Requested

(* The first free slot is taken before the node is asked. *)
account_new(i) ==
  /\ MayRequest
  /\ m_accounts[i].status = "NONE"
  /\ \A j \in Local : m_accounts[j].status = "NONE" => i <= j
  /\ m_accounts' = [m_accounts EXCEPT ![i].status = "ADDED"]
  /\ provider_account_info_get("account_new", i)
  /\ UNCHANGED s_amount

(* What was parsed before is not cleared, and app_idx stays where the last *)
(* answer left it: the applications of this one are added.                 *)
account_update(i) ==
  /\ MayRequest
  /\ m_accounts[i].status = "ADDED"
  /\ provider_account_info_get("account_update", i)
  /\ UNCHANGED <<m_accounts, s_amount>>

FreedKept(i) == [m_accounts[i] EXCEPT !.status = "NONE"]    \* mutant: without the memset
Freed(i) == [status |-> "NONE", account |-> Zeroed]

account_free(i) ==
  /\ Idle
  /\ m_accounts[i].status = "ADDED"
  /\ m_accounts' = [m_accounts EXCEPT ![i] = Freed(i)]
  /\ answers' = [answers EXCEPT ![i] = <<>>]
  /\ plain' = [plain EXCEPT ![i] = TRUE]
  /\ UNCHANGED <<parserVars, s_amount, call, calls, clientVars>>

(* The answer is parsed into a structure on the stack, of which only the   *)
(* info was given a value; that is copied back even if the request failed. *)
s_account_update(s) ==
  /\ MayRequest
  /\ \/ \E details \in Uninitialised, body \in Body :
          Parses("s_account_update", s, body, [details EXCEPT !.amount = s_amount[s]])
     \/ UNCHANGED <<parserVars, call>>
  /\ Requested
  /\ UNCHANGED infoVars

Parse == call # NoCall /\ ParserStep /\ UNCHANGED <<infoVars, clientVars, call, calls>>

(* The parser returns.  It wrote to the account itself; here the copy it   *)
(* wrote to is put where it belongs.                                       *)
AccountParsed ==
  /\ call # NoCall /\ Parsed /\ ~past
  /\ \/ /\ call.op = "s_account_update"
        /\ s_amount' = [s_amount EXCEPT ![call.account] = account.amount]
        /\ UNCHANGED m_accounts
     \/ /\ call.op # "s_account_update"
        /\ m_accounts' = [m_accounts EXCEPT ![call.account].account = account]
        /\ UNCHANGED s_amount
  /\ call' = NoCall
  /\ m_parsing_account_step' = "ROOT" /\ account' = Zeroed
  /\ todo' = <<>> /\ open' = <<>> /\ reader_ok' = TRUE
  /\ UNCHANGED <<past, calls, answers, plain, clientVars>>
-----------------------------------------------------------------------------
account_exists(a) == a \in Local               \* is it one of m_accounts?

HasAppFromSecond(a, app_id) ==                 \* mutant: the loop begins at 1
  /\ account_exists(a)
  /\ \E j \in 1 .. m_accounts[a].account.app_idx - 1 :
       m_accounts[a].account.apps_local[j].app_id = app_id
account_has_app(a, app_id) ==
  /\ account_exists(a)
  /\ \E j \in 0 .. m_accounts[a].account.app_idx - 1 :
       m_accounts[a].account.apps_local[j].app_id = app_id

account_balance(a) == m_accounts[a].account.amount

(* The part of transaction_appl that asks whether to opt in *)
transaction_appl(a, app_id) ==
  /\ Idle
  /\ on_complete' = [sender |-> a, app_id |-> app_id, opt_in |-> ~account_has_app(a, app_id)]
  /\ UNCHANGED <<parserVars, infoVars, call, calls, global_states>>
-----------------------------------------------------------------------------
(* parser_application_json: an element [key, type, value] of the array     *)
(* fills the next value of the structure.  "none" stands for what is       *)
(* missing or not of its JSON type, and for a value whose payload is.      *)
(* A key of more than 15 bytes is not decoded (the error of b64_decode is  *)
(* ignored), which leaves an empty name.                                   *)
Named(g, e) == [g EXCEPT !.values[g.count].name = IF e.key = "long" THEN "" ELSE e.key]
Unusable(e) == e.type = "absent" \/ (e.type \in {"int", "bytes"} /\ e.value = -1)

(* The type of a byte slice is VALUE_TYPE_INTEGER, too; a value of another *)
(* type, or of none, is counted and leaves what was there.                 *)
Filled(g, e) ==
  LET n == Named(g, e) IN
  IF Unusable(e) THEN [n EXCEPT !.ret = "NOT_FOUND"]
  ELSE IF e.type \in {"int", "bytes"}
  THEN [n EXCEPT !.values[g.count] = [@ EXCEPT !.type = 2, !.value = e.value], !.count = @ + 1]
  ELSE [n EXCEPT !.count = @ + 1]

ReadOnAfterErrors(g, e) ==             \* mutant: the loop is not left
  IF g.overrun \/ e.key = "none" THEN g
  ELSE IF g.count >= APPS_KV_MAX_COUNT THEN [g EXCEPT !.overrun = TRUE]
  ELSE Filled(g, e)

(* Nothing compares count with APPS_KV_MAX_COUNT. *)
ElementRead(g, e) ==
  IF g.ret # "SUCCESS" \/ g.overrun \/ e.key = "none" THEN g
  ELSE IF g.count >= APPS_KV_MAX_COUNT THEN [g EXCEPT !.overrun = TRUE]
  ELSE Filled(g, e)

parser_application_json(elements, states) ==
  LET after[n \in 0 .. Len(elements)] ==
        IF n = 0 THEN [states EXCEPT !.ret = "SUCCESS"]
        ELSE ElementRead(after[n - 1], elements[n])
  IN after[Len(elements)]

(* The client clears its structure before the call, or does not. *)
provider_application_info_get(elements, states) ==
  /\ MayRequest /\ ~global_states.overrun
  /\ states \in {NoGlobals, global_states}
  /\ calls' = calls + 1
  /\ global_states' = parser_application_json(elements, states)
  /\ UNCHANGED <<parserVars, infoVars, call, on_complete>>
-----------------------------------------------------------------------------
Next ==
  \/ \E i \in Local : account_new(i) \/ account_update(i) \/ account_free(i)
  \/ \E s \in Secret : s_account_update(s)
  \/ Parse \/ AccountParsed
  \/ \E a \in Local \cup Secret, app_id \in AppId : transaction_appl(a, app_id)
  \/ \E elements \in GlobalsAnswer, states \in {NoGlobals, global_states} :
       provider_application_info_get(elements, states)

Spec == Init /\ [][Next]_vars

(* The parser's loops run without anyone else's doing. *)
FairSpec == Spec /\ WF_vars(Parse) /\ WF_vars(AccountParsed)
=============================================================================
