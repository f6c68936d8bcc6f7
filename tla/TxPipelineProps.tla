-------------------------- MODULE TxPipelineProps --------------------------
(* The properties of TxPipeline. *)
EXTENDS TxPipeline

TypeOK ==
  /\ m_pending_tx_buffer \in [Cell -> SignedTransaction]
  /\ m_tx_buffer_idx \in Cell
  /\ m_events_queue \in Seq(Event)
  /\ Len(m_events_queue) <= QueueCapacity
  /\ created \in 0 .. MaxTx
  /\ ledger \in Seq(Tx)
  /\ resent \subseteq Tx
  /\ reported \in Seq([tx : Tx \cup {NoTx}, id : Tx \cup {NoTx}])
  /\ crashed \in BOOLEAN

(* An event for the cell b waits. *)
HasEvent(b) == \E i \in 1 .. Len(m_events_queue) : m_events_queue[i].bufid = b

(* Every taken cell has exactly one event in the queue and no event names  *)
(* a free cell, so no transaction is forgotten and no event meets a cell   *)
(* that was freed or given to another transaction.                         *)
UniqueEvents ==
  \A i, j \in 1 .. Len(m_events_queue) :
    m_events_queue[i].bufid = m_events_queue[j].bufid => i = j

OneEventPerPendingCell ==
  /\ UniqueEvents
  /\ \A b \in Cell : Pending(b) <=> HasEvent(b)

(* vertices_event_process never follows the NULL pointer of a freed cell.  *)
NoCrash == ~crashed

(* The first cell to be asked is the last to be freed: when                *)
(* transaction_pay answers VTC_ERROR_NO_MEM every cell is taken.           *)
NoMemOnlyWhenAllPending ==
  Pending(m_tx_buffer_idx) => \A b \in Cell : Pending(b)

(* Whatever is posted carries the signature of the transaction it carries, *)
(* never an empty one or the one of an earlier transaction of the cell.    *)
SentOnlySigned ==
  \A b \in Cell : HeadIs("SENDING", b) /\ Pending(b)
    => m_pending_tx_buffer[b].signature = m_pending_tx_buffer[b].tx

(* The node executes the transactions in the order the SDK accepted them.  *)
LedgerInOrder == \A i \in 1 .. Len(ledger) : ledger[i] = i

(* Transactions are reported in that order, each under its own identifier  *)
(* (under none when the node gave none).                                   *)
ReportedInOrder ==
  \A i \in 1 .. Len(reported) :
    /\ reported[i].tx = i
    /\ reported[i].id = i \/ ("noid" \in PostAnswers /\ reported[i].id = NoTx)

(* The transaction in a cell is replaced only after the cell was freed.    *)
PendingNotOverwritten ==
  [][\A b \in Cell : m_pending_tx_buffer[b].tx # NoTx
       => m_pending_tx_buffer'[b].tx \in {m_pending_tx_buffer[b].tx, NoTx}]_vars

(* Whatever is lost or refused, the pipeline takes no other step than the  *)
(* ones PaymentService promises: it may stop, but nothing is accepted      *)
(* beyond its buffer, executed twice or before it was accepted, or         *)
(* reported before it was executed.                                        *)
Payments == INSTANCE PaymentService
              WITH Outstanding <- PENDING_TX_COUNT,
                   submitted <- created,
                   executed <- Len(ledger),
                   confirmed <- Len(reported)
KeepsToPayments == Payments!Spec

(* Every transaction the SDK accepts is in the end reported, unless the    *)
(* answer to a post is lost: then vertices_event_process posts again what  *)
(* the node has, and the node may refuse it for ever.                      *)
HeadIsKnown ==
  \E b \in Cell : HeadIs("SENDING", b) /\ Pending(b) /\ Known(m_pending_tx_buffer[b].tx)
ConfirmedUnlessLost ==
  \A n \in Tx : created >= n ~> Len(reported) >= n \/ HeadIsKnown
-----------------------------------------------------------------------------
(* What the documentation says and the code does not do *)

(* vertices_types.h:120: the id that is reported `can be used to find the  *)
(* transaction in the ledger'.                                             *)
ReportedIsInLedger == \A i \in 1 .. Len(reported) : Known(reported[i].id)
=============================================================================
