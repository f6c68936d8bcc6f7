----------------------------- MODULE TxPipeline -----------------------------
(***************************************************************************)
(* The life of a transaction in the SDK: transaction_pay/transaction_appl  *)
(* fill a cell of m_pending_tx_buffer and schedule READY_TO_SIGN; the      *)
(* user's handler signs and schedules SENDING; vertices_event_process      *)
(* posts a SENDING transaction and schedules SUCCESS; processing SUCCESS   *)
(* reports the identifier and frees the cell.  A failed step leaves its    *)
(* event at the head of the queue, and the next vertices_event_process     *)
(* starts the whole event again.                                           *)
(*                                                                         *)
(* Everything runs in one thread, so a call is one step.  The ring of      *)
(* events is the sequence EventQueue shows it to be.  The handler is the   *)
(* one of examples/unix/main.cpp.                                          *)
(***************************************************************************)
EXTENDS Naturals, Sequences, FiniteSets

CONSTANTS PENDING_TX_COUNT,   \* cells of m_pending_tx_buffer
          QueueCapacity,      \* events that can wait: VTC_EVENTS_COUNT - 1
          MaxTx,              \* bound: transactions the SDK accepts in a run
          ParamsAnswers,      \* what provider_tx_params_load may return
          PostAnswers,        \* how a post to the node may end
          CallParams,         \* what applications pass as app-call params
          HandlerMayFail      \* may the SENDING part of the handler fail?

ASSUME PipelineAssumption ==
  /\ PENDING_TX_COUNT \in Nat \ {0}
  /\ QueueCapacity \in Nat \ {0}
  /\ MaxTx \in Nat
  /\ ParamsAnswers \subseteq {"SUCCESS", "OFFLINE", "ERROR"}
  /\ PostAnswers \subseteq {"ok", "noid", "stale", "lost", "refused"}
  /\ CallParams \subseteq {"kv", "null", "toobig"}
  /\ HandlerMayFail \in BOOLEAN

VARIABLES m_pending_tx_buffer,  \* the cells
          m_tx_buffer_idx,      \* the cell the next transaction takes
          m_events_queue,       \* the events that wait, oldest first
          created,              \* how many transactions the SDK accepted
          ledger,               \* the transactions the node accepted, in order
          resent,               \* those posted again after the node had them
          reported,             \* the transactions reported, with the txID given
          crashed               \* a NULL pointer was followed

vars == <<m_pending_tx_buffer, m_tx_buffer_idx, m_events_queue, created,
          ledger, resent, reported, crashed>>

Cell == 0 .. PENDING_TX_COUNT - 1
Tx == 1 .. MaxTx             \* transactions, in the order they are accepted
NoTx == 0

(* signed_transaction_t.  body stands for payload_body_length: 0, the size *)
(* of the payload while the cell is reserved, the size of the encoded      *)
(* body; tx is the transaction in the payload; signature and id say which  *)
(* transaction they belong to.                                             *)
SignedTransaction ==
  [body : {"zero", "reserved", "encoded"},
   tx : Tx \cup {NoTx}, signature : Tx \cup {NoTx}, id : Tx \cup {NoTx}]

Zeroed == [body |-> "zero", tx |-> NoTx, signature |-> NoTx, id |-> NoTx]
Reserved == [body |-> "reserved", tx |-> NoTx, signature |-> NoTx, id |-> NoTx]
Encoded(tx) == [body |-> "encoded", tx |-> tx, signature |-> NoTx, id |-> NoTx]
SignatureForgotten(cell) == cell       \* mutant: encode_tx_replace_signature not called
Signed(cell) == [cell EXCEPT !.signature = cell.tx]
Identified(cell) == [cell EXCEPT !.id = cell.tx]
Misnamed(cell, tx) == [cell EXCEPT !.id = tx]

EventType == {"READY_TO_SIGN", "SENDING", "SUCCESS"}
Event == [type : EventType, bufid : Cell]
Evt(type, b) == [type |-> type, bufid |-> b]

Pending(b) == m_pending_tx_buffer[b].body # "zero"

(* vertices_event_schedule returns VTC_ERROR_NO_MEM in a full queue. *)
QueueFullEarly == Len(m_events_queue) + 1 >= QueueCapacity     \* mutant
QueueFull == Len(m_events_queue) >= QueueCapacity
Schedule(e) == IF QueueFull THEN m_events_queue ELSE Append(m_events_queue, e)

Init ==
  /\ m_pending_tx_buffer = [b \in Cell |-> Zeroed]
  /\ m_tx_buffer_idx = 0
  /\ m_events_queue = << >>
  /\ created = 0
  /\ ledger = << >>
  /\ resent = {}
  /\ reported = << >>
  /\ crashed = FALSE
-----------------------------------------------------------------------------
(* mutant: the busy cell is taken again *)
MayStartBusy == ~crashed /\ created < MaxTx

(* transaction_pay and transaction_appl.  A busy cell (VTC_ERROR_NO_MEM)   *)
(* and a note that is too long return before anything changes.             *)
MayStart ==
  /\ ~crashed
  /\ created < MaxTx
  /\ ~Pending(m_tx_buffer_idx)

NextCellKept == m_tx_buffer_idx                \* mutant: the index never moves
NextCell == (m_tx_buffer_idx + 1) % PENDING_TX_COUNT

(* The parameters could not be fetched and no usable copy is kept: the     *)
(* call returns with the cell reserved and m_tx_buffer_idx where it was.   *)
ParamsLoadFails ==
  /\ MayStart
  /\ "ERROR" \in ParamsAnswers
  /\ m_pending_tx_buffer' = [m_pending_tx_buffer EXCEPT ![m_tx_buffer_idx] = Reserved]
  /\ UNCHANGED <<m_tx_buffer_idx, m_events_queue, created, ledger, resent, reported, crashed>>

(* The transaction is encoded, the cell is passed and READY_TO_SIGN is     *)
(* scheduled; VTC_ERROR_NO_MEM of the full queue is returned to the        *)
(* caller, the cell stays taken.                                           *)
Enqueue ==
  /\ MayStart
  /\ ParamsAnswers \cap {"SUCCESS", "OFFLINE"} # {}
  /\ created' = created + 1
  /\ m_pending_tx_buffer' =
       [m_pending_tx_buffer EXCEPT ![m_tx_buffer_idx] = Encoded(created + 1)]
  /\ m_tx_buffer_idx' = NextCell
  /\ m_events_queue' = Schedule(Evt("READY_TO_SIGN", m_tx_buffer_idx))
  /\ UNCHANGED <<ledger, resent, reported, crashed>>

transaction_pay == ParamsLoadFails \/ Enqueue

(* encode_tx follows key_values before it is compared with NULL *)
ApplNullParams ==
  /\ MayStart
  /\ "null" \in CallParams
  /\ ParamsAnswers \cap {"SUCCESS", "OFFLINE"} # {}
  /\ m_pending_tx_buffer' = [m_pending_tx_buffer EXCEPT ![m_tx_buffer_idx] = Reserved]
  /\ crashed' = TRUE
  /\ UNCHANGED <<m_tx_buffer_idx, m_events_queue, created, ledger, resent, reported>>

(* The arguments do not fit the payload (a build with a larger             *)
(* APPS_KV_MAX_COUNT): transaction_appl returns with the cell taken.       *)
ApplEncodeFails ==
  /\ MayStart
  /\ "toobig" \in CallParams
  /\ ParamsAnswers \cap {"SUCCESS", "OFFLINE"} # {}
  /\ m_pending_tx_buffer' = [m_pending_tx_buffer EXCEPT ![m_tx_buffer_idx] = Reserved]
  /\ UNCHANGED <<m_tx_buffer_idx, m_events_queue, created, ledger, resent, reported, crashed>>

transaction_appl ==
  \/ ParamsLoadFails
  \/ "kv" \in CallParams /\ Enqueue
  \/ ApplNullParams
  \/ ApplEncodeFails
-----------------------------------------------------------------------------
(* mutant: the newest event is processed first *)
NewestIs(type, b) ==
  /\ ~crashed
  /\ m_events_queue # << >>
  /\ m_events_queue[Len(m_events_queue)] = Evt(type, b)

(* vertices_event_process, by the type of the event at the head *)
HeadIs(type, b) ==
  /\ ~crashed
  /\ m_events_queue # << >>
  /\ Head(m_events_queue) = Evt(type, b)

(* The queue is empty, or transaction_get or transaction_pending_send      *)
(* finds the cell of the head freed (VTC_ERROR_INVALID_PARAM).             *)
NothingToDo ==
  /\ ~crashed
  /\ \/ m_events_queue = << >>
     \/ \E b \in Cell : /\ HeadIs("READY_TO_SIGN", b) \/ HeadIs("SENDING", b)
                        /\ ~Pending(b)
  /\ UNCHANGED vars

(* The handler signs and schedules SENDING while READY_TO_SIGN is still    *)
(* queued; if that is refused its error keeps READY_TO_SIGN at the head.   *)
Sign(b) ==
  /\ HeadIs("READY_TO_SIGN", b)
  /\ Pending(b)
  /\ m_pending_tx_buffer' = [m_pending_tx_buffer EXCEPT ![b] = Signed(@)]
  /\ m_events_queue' = IF QueueFull THEN m_events_queue
                       ELSE Tail(Schedule(Evt("SENDING", b)))
  /\ UNCHANGED <<m_tx_buffer_idx, created, ledger, resent, reported, crashed>>

(* The node takes a payload whose signature is the one of its transaction. *)
(* A transaction it already has is never executed again; the node answers  *)
(* as it did the first time, or refuses it (SendingRefused).               *)
Known(tx) == \E i \in 1 .. Len(ledger) : ledger[i] = tx

NodeAccepts(b) ==
  LET tx == m_pending_tx_buffer[b].tx IN
  /\ tx # NoTx
  /\ m_pending_tx_buffer[b].signature = tx
  /\ ledger' = IF Known(tx) THEN ledger ELSE Append(ledger, tx)
  /\ resent' = IF Known(tx) THEN resent \cup {tx} ELSE resent

(* transaction_pending_send succeeds and schedules SUCCESS, whose refusal  *)
(* by a full queue is not looked at; then the handler runs.                *)
Post(b, handlerFails) ==
  /\ HeadIs("SENDING", b)
  /\ Pending(b)
  /\ NodeAccepts(b)
  /\ \/ /\ "ok" \in PostAnswers
        /\ m_pending_tx_buffer' = [m_pending_tx_buffer EXCEPT ![b] = Identified(@)]
     \/ /\ "noid" \in PostAnswers       \* an answer without "txId"
        /\ UNCHANGED m_pending_tx_buffer
     \/ /\ "stale" \in PostAnswers      \* no body: rx_buf holds an earlier answer
        /\ \E i \in 1 .. Len(ledger) :
             m_pending_tx_buffer' = [m_pending_tx_buffer EXCEPT ![b] = Misnamed(@, ledger[i])]
  /\ LET queue == Schedule(Evt("SUCCESS", b)) IN
     m_events_queue' = IF handlerFails THEN queue ELSE Tail(queue)
  /\ UNCHANGED <<m_tx_buffer_idx, created, reported, crashed>>

SendingDone(b) == Post(b, FALSE)

(* examples/unix/main.cpp:91 and 100: a file could not be opened *)
SendingHandlerFails(b) == HandlerMayFail /\ Post(b, TRUE)

(* The node accepted, but its answer did not arrive or could not be used:  *)
(* provider_tx_post returns an error and SENDING stays at the head.        *)
SendingAnswerLost(b) ==
  /\ HeadIs("SENDING", b)
  /\ Pending(b)
  /\ "lost" \in PostAnswers
  /\ NodeAccepts(b)
  /\ UNCHANGED <<m_pending_tx_buffer, m_tx_buffer_idx, m_events_queue, created, reported, crashed>>

(* The node refused or was not reached. *)
SendingRefused(b) ==
  /\ HeadIs("SENDING", b)
  /\ Pending(b)
  /\ "refused" \in PostAnswers
  /\ LET tx == m_pending_tx_buffer[b].tx IN
     resent' = IF Known(tx) THEN resent \cup {tx} ELSE resent
  /\ UNCHANGED <<m_pending_tx_buffer, m_tx_buffer_idx, m_events_queue, created,
                 ledger, reported, crashed>>

(* The identifier is copied to the caller and the cell is freed. *)
Confirm(b) ==
  /\ HeadIs("SUCCESS", b)
  /\ Pending(b)
  /\ reported' = Append(reported, [tx |-> m_pending_tx_buffer[b].tx,
                                   id |-> m_pending_tx_buffer[b].id])
  /\ m_pending_tx_buffer' = [m_pending_tx_buffer EXCEPT ![b] = Zeroed]
  /\ m_events_queue' = Tail(m_events_queue)
  /\ UNCHANGED <<m_tx_buffer_idx, created, ledger, resent, crashed>>

(* The result of transaction_get is ignored: tx is NULL when the cell of a *)
(* SUCCESS event was freed before, and tx->id is read.                     *)
ConfirmFreedCell(b) ==
  /\ HeadIs("SUCCESS", b)
  /\ ~Pending(b)
  /\ crashed' = TRUE
  /\ UNCHANGED <<m_pending_tx_buffer, m_tx_buffer_idx, m_events_queue, created,
                 ledger, resent, reported>>

vertices_event_process ==
  \/ NothingToDo
  \/ \E b \in Cell :
       \/ Sign(b)
       \/ SendingDone(b)
       \/ SendingHandlerFails(b)
       \/ SendingAnswerLost(b)
       \/ SendingRefused(b)
       \/ Confirm(b)
       \/ ConfirmFreedCell(b)

Next == transaction_pay \/ transaction_appl \/ vertices_event_process

Spec == Init /\ [][Next]_vars

(* The application calls vertices_event_process again and again            *)
(* (vertices.h:102), and a transaction the node does not have yet and that *)
(* is posted for ever is in the end accepted with an answer the SDK reads. *)
(* One the node has may be refused for ever.                               *)
FairSpec ==
  /\ Spec
  /\ \A b \in Cell : /\ WF_vars(Sign(b)) /\ WF_vars(Confirm(b))
                     /\ SF_vars(SendingDone(b) /\ resent' = resent)
=============================================================================
