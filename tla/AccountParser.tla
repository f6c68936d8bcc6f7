---------------------------- MODULE AccountParser ----------------------------
(***************************************************************************)
(* parser_account_mpack of src/src/algorand/algorand_parser.c: what the    *)
(* node says of an account, in MessagePack, is read element by element.    *)
(* parse_element follows the nesting, by recursion; which element it is,   *)
(* is followed in the static m_parsing_account_step by the callbacks.      *)
(* When a callback fails the loop over its map or array is left, with the  *)
(* rest of the map unread, and finish_map returns VTC_SUCCESS: the caller  *)
(* goes on and takes the rest for elements of its own.                     *)
(***************************************************************************)
EXTENDS Integers, Sequences

CONSTANTS APPS_MAX_COUNT,      \* 3 in vertices_config.h
          APPS_KV_MAX_COUNT,   \* 8
          INT32_RANGE,         \* numbers in an int32_t: 2^32
          MAX_DEPTH,           \* 32, the `critical check'
          Text                 \* the strings of answers: keys and names

ASSUME ParserAssumption ==
  /\ APPS_MAX_COUNT \in Nat \ {0} /\ APPS_KV_MAX_COUNT \in Nat \ {0}
  /\ INT32_RANGE \in Nat \ {0} /\ MAX_DEPTH \in Nat \ {0}

ASSUME TextAssumption == "" \in Text

VARIABLES m_parsing_account_step,
          account,       \* the account_details_t the call writes to
          past,          \* something was written past the end of an array
          todo,          \* the elements the reader has not read
          open,          \* the calls of parse_element: what each still has to read
          reader_ok      \* mpack_reader_error(reader) == mpack_ok

parserVars == <<m_parsing_account_step, account, past, todo, open, reader_ok>>

(* Elements of MessagePack; a map has n pairs.  "other" are those with no  *)
(* effect, nil, booleans and negative numbers; "bin" and the like are not  *)
(* supported.                                                              *)
Element(kind, s, n) == [kind |-> kind, s |-> s, n |-> n]
Str(s) == Element("str", s, 0)
UInt(n) == Element("uint", "", n)
Map(n) == Element("map", "", n)
Arr(n) == Element("array", "", n)
Elements == [kind : {"str", "uint", "map", "array", "other", "bin"}, s : Text, n : Nat]

KeyValue == [name : Text, type : Nat, value : Nat]
AppsLocal == [app_id : Nat, count : Nat, values : [0 .. APPS_KV_MAX_COUNT - 1 -> KeyValue]]
AccountDetails == [amount : Int, rewards : Int, reward_base : Int, app_idx : Nat,
                   apps_local : [0 .. APPS_MAX_COUNT - 1 -> AppsLocal]]

NoKeyValue == [name |-> "", type |-> 0, value |-> 0]
NoApp == [app_id |-> 0, count |-> 0, values |-> [k \in 0 .. APPS_KV_MAX_COUNT - 1 |-> NoKeyValue]]
Zeroed == [amount |-> 0, rewards |-> 0, reward_base |-> 0, app_idx |-> 0,
           apps_local |-> [i \in 0 .. APPS_MAX_COUNT - 1 |-> NoApp]]

AsInt16(n) == n % (INT32_RANGE \div 4)            \* mutant: the cast is too narrow
AsInt32(n) == LET low == n % INT32_RANGE IN
              IF 2 * low < INT32_RANGE THEN low ELSE low - INT32_RANGE

kv_idx == account.apps_local[account.app_idx].count

(* Where a key leads from a step.  Keys are compared as wholes: strncmp    *)
(* with the element's length takes a beginning of one for it as well.      *)
KeyLeadsTo ==
  {<<"ROOT", "algo", "ALGO">>, <<"ROOT", "appl", "APPL">>, <<"ROOT", "ebase", "EBASE">>,
   <<"ROOT", "ern", "ERN">>, <<"ROOT", "tsch", "TSCH">>,
   <<"APPL_ID", "hsch", "APP_SCH">>, <<"APPL_ID", "tkv", "APP_KV">>,
   <<"APP_SCH", "nui", "APP_SCH_NUI">>, <<"APP_SCH", "nbs", "APP_SCH_NBS">>,
   <<"APP_KV_VAR", "tt", "APP_KV_TYPE">>, <<"APP_KV_VAR", "tb", "APP_KV_VALUE_SLICE">>,
   <<"APP_KV_VAR", "ui", "APP_KV_VALUE_INT">>, <<"TSCH", "nui", "TSCH_NUI">>}
KeyNeeded == {"ROOT", "APPL_ID", "APP_SCH", "APP_KV_VAR"}
Known(key) == \E t \in KeyLeadsTo : t[1] = m_parsing_account_step /\ t[2] = key
AppSteps == {"APPL_ID", "APP_SCH", "APP_SCH_NUI", "APP_SCH_NBS", "APP_KV", "APP_KV_VAR",
             "APP_KV_TYPE", "APP_KV_VALUE_INT", "APP_KV_VALUE_SLICE"}
Step == {"ROOT", "ALGO", "APPL", "EBASE", "ERN", "TSCH", "TSCH_NUI"} \cup AppSteps
-----------------------------------------------------------------------------
(* What the loop over a map or array does after an element: it goes on, or *)
(* is left when the element failed.                                        *)
GoOn == open' = [open EXCEPT ![Len(open)].left = @ - 1]
Leave == open' = [open EXCEPT ![Len(open)].left = 0]

KnownKey(key) ==
  /\ \E t \in KeyLeadsTo : t[1] = m_parsing_account_step /\ t[2] = key
                           /\ m_parsing_account_step' = t[3]
  /\ GoOn /\ UNCHANGED <<account, past>>

UnknownKey(key) ==                                    \* VTC_ERROR_NOT_FOUND
  /\ m_parsing_account_step \in KeyNeeded /\ ~Known(key)
  /\ Leave /\ UNCHANGED <<m_parsing_account_step, account, past>>

NameStored(name) ==
  /\ m_parsing_account_step = "APP_KV" /\ kv_idx < APPS_KV_MAX_COUNT
  /\ account' = [account EXCEPT !.apps_local[account.app_idx].values[kv_idx].name = name]
  /\ m_parsing_account_step' = "APP_KV_VAR"
  /\ GoOn /\ UNCHANGED past

NameStoredPastTheArray ==           \* VTC_ERROR_NO_MEM, and stored all the same
  /\ m_parsing_account_step = "APP_KV" /\ kv_idx >= APPS_KV_MAX_COUNT
  /\ past' = TRUE
  /\ m_parsing_account_step' = "APP_KV_VAR"
  /\ Leave /\ UNCHANGED account

StringIgnored(s) ==
  /\ m_parsing_account_step \notin KeyNeeded \cup {"APP_KV"} /\ ~Known(s)
  /\ GoOn /\ UNCHANGED <<m_parsing_account_step, account, past>>

string_element(s) ==
  \/ KnownKey(s) \/ UnknownKey(s) \/ NameStored(s) \/ NameStoredPastTheArray
  \/ StringIgnored(s)
-----------------------------------------------------------------------------
NumberRead(n) ==
  /\ \/ /\ m_parsing_account_step = "ALGO"
        /\ account' = [account EXCEPT !.amount = AsInt32(n)]
     \/ /\ m_parsing_account_step = "EBASE"
        /\ account' = [account EXCEPT !.reward_base = AsInt32(n)]
     \/ /\ m_parsing_account_step = "ERN"
        /\ account' = [account EXCEPT !.rewards = AsInt32(n)]
  /\ m_parsing_account_step' = "ROOT"
  /\ GoOn /\ UNCHANGED past

AppStartsAtEnd(n) ==                                  \* mutant: <= for <
  /\ m_parsing_account_step = "APPL" /\ account.app_idx <= APPS_MAX_COUNT
  /\ m_parsing_account_step' = "APPL_ID"
  /\ GoOn /\ UNCHANGED <<account, past>>

AppStarts(n) ==
  /\ m_parsing_account_step = "APPL" /\ account.app_idx < APPS_MAX_COUNT
  /\ account' = [account EXCEPT !.apps_local[account.app_idx].app_id = n]
  /\ m_parsing_account_step' = "APPL_ID"
  /\ GoOn /\ UNCHANGED past

AppRefused ==                                         \* VTC_ERROR_NO_MEM
  /\ m_parsing_account_step = "APPL" /\ account.app_idx >= APPS_MAX_COUNT
  /\ Leave /\ UNCHANGED <<m_parsing_account_step, account, past>>

(* The type or value of a variable: refused when idx > APPS_KV_MAX_COUNT,  *)
(* so that the element after the last of the array is written, too.        *)
VariableRead(n) ==
  /\ m_parsing_account_step \in {"APP_KV_TYPE", "APP_KV_VALUE_INT"}
  /\ IF kv_idx > APPS_KV_MAX_COUNT
     THEN Leave /\ UNCHANGED <<m_parsing_account_step, account, past>>
     ELSE /\ account' =
               IF m_parsing_account_step = "APP_KV_TYPE"
               THEN [account EXCEPT !.apps_local[account.app_idx].values[kv_idx].type = n]
               ELSE [account EXCEPT !.apps_local[account.app_idx].values[kv_idx].value = n]
          /\ past' = (kv_idx = APPS_KV_MAX_COUNT)
          /\ m_parsing_account_step' = "APP_KV_VAR"
          /\ GoOn

SchemaRead ==
  /\ m_parsing_account_step \in {"APP_SCH_NUI", "APP_SCH_NBS"}
  /\ m_parsing_account_step' = "APP_SCH"
  /\ GoOn /\ UNCHANGED <<account, past>>

NumberIgnored ==
  /\ m_parsing_account_step \notin {"ALGO", "EBASE", "ERN", "APPL", "APP_KV_TYPE",
                                    "APP_KV_VALUE_INT", "APP_SCH_NUI", "APP_SCH_NBS"}
  /\ GoOn /\ UNCHANGED <<m_parsing_account_step, account, past>>

uint_element(n) ==
  \/ NumberRead(n) \/ AppStarts(n) \/ AppRefused \/ VariableRead(n) \/ SchemaRead
  \/ NumberIgnored
-----------------------------------------------------------------------------
finish_map_same_app ==                 \* mutant: the index of applications stays
  \/ /\ m_parsing_account_step = "APP_KV_VAR"
     /\ account' = [account EXCEPT !.apps_local[account.app_idx].count = @ + 1]
     /\ m_parsing_account_step' = "APP_KV"
  \/ /\ m_parsing_account_step # "APP_KV_VAR"
     /\ m_parsing_account_step' =
          CASE m_parsing_account_step \in {"APP_KV", "APP_SCH"} -> "APPL_ID"
            [] m_parsing_account_step = "APPL_ID" -> "APPL"
            [] OTHER -> "ROOT"
     /\ UNCHANGED account

finish_map ==
  \/ /\ m_parsing_account_step = "APP_KV_VAR"
     /\ account' = [account EXCEPT !.apps_local[account.app_idx].count = @ + 1]
     /\ m_parsing_account_step' = "APP_KV"
  \/ /\ m_parsing_account_step \in {"APP_KV", "APP_SCH"}
     /\ m_parsing_account_step' = "APPL_ID"
     /\ UNCHANGED account
  \/ /\ m_parsing_account_step = "APPL_ID"
     /\ account' = [account EXCEPT !.app_idx = @ + 1]
     /\ m_parsing_account_step' = "APPL"
  \/ /\ m_parsing_account_step \notin {"APP_KV_VAR", "APP_KV", "APP_SCH", "APPL_ID"}
     /\ m_parsing_account_step' = "ROOT"
     /\ UNCHANGED account

(* The innermost call of parse_element that reads elements.  The first     *)
(* frame is parser_account_mpack, which asks for one element.              *)
Frame == [kind : {"parser_account_mpack", "map", "array"}, left : Nat]
Top == open[Len(open)]
Parsing == open # <<>>
Reads == Parsing /\ Top.left > 0 /\ reader_ok

Opened(kind, n) == Append([open EXCEPT ![Len(open)].left = @ - 1], [kind |-> kind, left |-> n])

start_map_or_array(e) ==
  /\ \/ e.kind = "map" /\ open' = Opened("map", 2 * e.n)
     \/ e.kind = "array" /\ open' = Opened("array", e.n)
  /\ UNCHANGED <<m_parsing_account_step, account, past>>

parse_element ==
  /\ Reads /\ Len(open) <= MAX_DEPTH /\ todo # <<>>
  /\ Head(todo).kind # "bin"
  /\ todo' = Tail(todo)
  /\ \/ Head(todo).kind = "str" /\ string_element(Head(todo).s)
     \/ Head(todo).kind = "uint" /\ uint_element(Head(todo).n)
     \/ /\ Head(todo).kind = "other"
        /\ GoOn /\ UNCHANGED <<m_parsing_account_step, account, past>>
     \/ start_map_or_array(Head(todo))
  /\ UNCHANGED reader_ok

ReaderNeverEnds ==                     \* mutant: the end of the data is not noticed
  /\ Reads /\ Len(open) > MAX_DEPTH
  /\ reader_ok' = FALSE
  /\ UNCHANGED <<m_parsing_account_step, account, past, todo, open>>

(* The reader's error ends every loop, but is not an error of the parser.  *)
ReaderFails ==
  /\ Reads
  /\ \/ Len(open) > MAX_DEPTH                         \* mpack_error_too_big
     \/ todo = <<>>                                   \* the data ended
     \/ Len(open) <= MAX_DEPTH /\ todo # <<>> /\ Head(todo).kind = "bin"
  /\ reader_ok' = FALSE
  /\ UNCHANGED <<m_parsing_account_step, account, past, todo, open>>

FinishElement ==
  /\ Len(open) > 1 /\ (Top.left = 0 \/ ~reader_ok)
  /\ open' = SubSeq(open, 1, Len(open) - 1)
  /\ \/ Top.kind = "map" /\ finish_map
     \/ Top.kind = "array" /\ UNCHANGED <<m_parsing_account_step, account>>
  /\ UNCHANGED <<past, todo, reader_ok>>

(* The call and the steps it takes.  A write past an array overwrites what *)
(* the model does not have, so that nothing is said of the time after it.  *)
parser_account_mpack(elements, details) ==
  /\ m_parsing_account_step' = "ROOT"
  /\ account' = details /\ todo' = elements
  /\ open' = <<[kind |-> "parser_account_mpack", left |-> 1]>>
  /\ reader_ok' = TRUE /\ UNCHANGED past

ParserStep == ~past /\ (parse_element \/ ReaderFails \/ FinishElement)
Parsed == Len(open) = 1 /\ (open[1].left = 0 \/ ~reader_ok)
=============================================================================
