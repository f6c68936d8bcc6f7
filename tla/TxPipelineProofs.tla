-------------------------- MODULE TxPipelineProofs --------------------------
(***************************************************************************)
(* Theorems about the pipeline, for any number of cells, any queue and any *)
(* number of transactions.  The first three hold whatever the node, the    *)
(* network and the handler do; the others need a handler that does its     *)
(* work, parameters that can be had and a queue larger than the cells.     *)
(***************************************************************************)
EXTENDS TxPipelineProps, Integers, FiniteSetTheorems, TLAPS

USE PipelineAssumption

(* Appending to the queue and removing its head keep a sequence of events. *)
LEMMA QueueTypes ==
  ASSUME NEW q \in Seq(Event), NEW e \in Event
  PROVE  /\ Append(q, e) \in Seq(Event)
         /\ Len(Append(q, e)) = Len(q) + 1
         /\ q # << >> => Tail(q) \in Seq(Event) /\ Len(Tail(q)) = Len(q) - 1
         /\ Tail(Append(q, e)) \in Seq(Event)
         /\ Len(Tail(Append(q, e))) = Len(q)
OBVIOUS

LEMMA ScheduleTypes ==
  ASSUME TypeOK, NEW type \in EventType, NEW b \in Cell
  PROVE  /\ Evt(type, b) \in Event
         /\ Schedule(Evt(type, b)) \in Seq(Event)
         /\ Len(Schedule(Evt(type, b))) <= QueueCapacity
         /\ m_events_queue # << >> =>
              /\ Tail(Schedule(Evt(type, b))) \in Seq(Event)
              /\ Len(Tail(Schedule(Evt(type, b)))) <= QueueCapacity
<1>1. Evt(type, b) \in Event
  BY DEF Evt, Event
<1>2. m_events_queue \in Seq(Event) /\ Len(m_events_queue) \in Nat
      /\ Len(m_events_queue) <= QueueCapacity
  BY DEF TypeOK
<1> QED BY <1>1, <1>2, QueueTypes DEF Schedule, QueueFull

(* The contents the operations store in a cell, and its next index *)
LEMMA CellTypes ==
  /\ Zeroed \in SignedTransaction
  /\ Reserved \in SignedTransaction
  /\ \A tx \in Tx : Encoded(tx) \in SignedTransaction
  /\ 0 \in Cell
  /\ \A b \in Cell : (b + 1) % PENDING_TX_COUNT \in Cell
<1>1. \A b \in Cell : (b + 1) % PENDING_TX_COUNT \in Cell
  BY DEF Cell
<1>2. 0 \in Cell
  BY DEF Cell
<1>3. Zeroed \in SignedTransaction
  BY DEF Zeroed, SignedTransaction
<1>4. Reserved \in SignedTransaction
  BY DEF Reserved, SignedTransaction
<1>5. \A tx \in Tx : Encoded(tx) \in SignedTransaction
  BY DEF Encoded, SignedTransaction
<1> QED BY <1>1, <1>2, <1>3, <1>4, <1>5

LEMMA FieldTypes ==
  ASSUME NEW c \in SignedTransaction
  PROVE  /\ c.tx \in Tx \cup {NoTx}
         /\ Signed(c) \in SignedTransaction
         /\ Identified(c) \in SignedTransaction
         /\ \A tx \in Tx : Misnamed(c, tx) \in SignedTransaction
BY DEF SignedTransaction, Signed, Identified, Misnamed

LEMMA NodeAcceptsTypes ==
  ASSUME TypeOK, NEW b \in Cell, NodeAccepts(b)
  PROVE  ledger' \in Seq(Tx) /\ resent' \subseteq Tx
<1>1. m_pending_tx_buffer[b].tx \in Tx
  BY DEF TypeOK, NodeAccepts, SignedTransaction
<1> QED BY <1>1 DEF TypeOK, NodeAccepts

(* The types hold in every environment. *)
THEOREM PipelineTypes == Spec => []TypeOK
<1>1. Init => TypeOK
  BY CellTypes DEF Init, TypeOK, Tx
<1>2. TypeOK /\ [Next]_vars => TypeOK'
  <2> SUFFICES ASSUME TypeOK, [Next]_vars PROVE TypeOK'
    OBVIOUS
  <2>1. CASE ParamsLoadFails
    BY <2>1, CellTypes DEF ParamsLoadFails, TypeOK
  <2>2. CASE Enqueue
    <3>1. m_tx_buffer_idx \in Cell /\ created + 1 \in Tx /\ created' \in 0 .. MaxTx
      BY <2>2 DEF TypeOK, Enqueue, NextCell, MayStart, Tx
    <3>2. m_pending_tx_buffer' \in [Cell -> SignedTransaction] /\ m_tx_buffer_idx' \in Cell
      BY <2>2, <3>1, CellTypes DEF Enqueue, NextCell, TypeOK
    <3>3. m_events_queue' \in Seq(Event) /\ Len(m_events_queue') <= QueueCapacity
      BY <2>2, <3>1, ScheduleTypes DEF Enqueue, NextCell, EventType
    <3> QED BY <2>2, <3>1, <3>2, <3>3 DEF Enqueue, NextCell, TypeOK
  <2>3. CASE ApplNullParams
    BY <2>3, CellTypes DEF ApplNullParams, TypeOK
  <2>4. CASE ApplEncodeFails
    BY <2>4, CellTypes DEF ApplEncodeFails, TypeOK
  <2>5. ASSUME NEW b \in Cell, Sign(b) PROVE TypeOK'
    <3>1. m_events_queue' \in Seq(Event) /\ Len(m_events_queue') <= QueueCapacity
      BY <2>5, ScheduleTypes DEF Sign, HeadIs, EventType, TypeOK
    <3>2. m_pending_tx_buffer' \in [Cell -> SignedTransaction]
      BY <2>5, FieldTypes DEF Sign, TypeOK
    <3> QED BY <2>5, <3>1, <3>2 DEF Sign, TypeOK
  <2>6. ASSUME NEW b \in Cell, NEW fails \in BOOLEAN, Post(b, fails) PROVE TypeOK'
    <3>1. m_events_queue' \in Seq(Event) /\ Len(m_events_queue') <= QueueCapacity
      BY <2>6, ScheduleTypes DEF Post, HeadIs, EventType
    <3>2. m_pending_tx_buffer' \in [Cell -> SignedTransaction]
      <4>1. \A i \in 1 .. Len(ledger) : ledger[i] \in Tx
        BY DEF TypeOK
      <4>2. \A c \in SignedTransaction, i \in 1 .. Len(ledger) :
              Misnamed(c, ledger[i]) \in SignedTransaction
        BY <4>1, FieldTypes
      <4>3. CASE \E i \in 1 .. Len(ledger) :
                   m_pending_tx_buffer' =
                     [m_pending_tx_buffer EXCEPT ![b] = Misnamed(@, ledger[i])]
        BY <4>2, <4>3 DEF TypeOK
      <4>4. CASE m_pending_tx_buffer' = [m_pending_tx_buffer EXCEPT ![b] = Identified(@)]
        BY <4>4, FieldTypes DEF TypeOK
      <4>5. CASE UNCHANGED m_pending_tx_buffer
        BY <4>5 DEF TypeOK
      <4> QED BY <2>6, <4>3, <4>4, <4>5 DEF Post
    <3>3. ledger' \in Seq(Tx) /\ resent' \subseteq Tx
      BY <2>6, NodeAcceptsTypes DEF Post
    <3> QED BY <2>6, <3>1, <3>2, <3>3 DEF Post, TypeOK
  <2>7. ASSUME NEW b \in Cell, SendingAnswerLost(b) PROVE TypeOK'
    BY <2>7, NodeAcceptsTypes DEF SendingAnswerLost, TypeOK
  <2>8. ASSUME NEW b \in Cell, SendingRefused(b) PROVE TypeOK'
    <3>1. Known(m_pending_tx_buffer[b].tx) => m_pending_tx_buffer[b].tx \in Tx
      BY DEF Known, TypeOK
    <3>2. resent' \subseteq Tx
      BY <2>8, <3>1 DEF SendingRefused, TypeOK
    <3> QED BY <2>8, <3>2 DEF SendingRefused, TypeOK
  <2>9. ASSUME NEW b \in Cell, Confirm(b) PROVE TypeOK'
    <3>1. m_events_queue' \in Seq(Event) /\ Len(m_events_queue') <= QueueCapacity
      BY <2>9 DEF Confirm, HeadIs, TypeOK
    <3>2. [tx |-> m_pending_tx_buffer[b].tx, id |-> m_pending_tx_buffer[b].id]
            \in [tx : Tx \cup {NoTx}, id : Tx \cup {NoTx}]
      BY DEF TypeOK, SignedTransaction
    <3>3. m_pending_tx_buffer' \in [Cell -> SignedTransaction]
      BY <2>9, CellTypes DEF Confirm, TypeOK
    <3> QED BY <2>9, <3>1, <3>2, <3>3 DEF Confirm, TypeOK
  <2>10. ASSUME NEW b \in Cell, ConfirmFreedCell(b) PROVE TypeOK'
    BY <2>10 DEF ConfirmFreedCell, TypeOK
  <2>11. CASE UNCHANGED vars
    BY <2>11 DEF vars, TypeOK
  <2> QED BY <2>1, <2>2, <2>3, <2>4, <2>5, <2>6, <2>7, <2>8, <2>9, <2>10, <2>11
          DEF Next, transaction_pay, transaction_appl, vertices_event_process,
              NothingToDo, SendingDone, SendingHandlerFails
<1> QED BY <1>1, <1>2, PTL DEF Spec
-----------------------------------------------------------------------------
(* A cell whose body is 0 was zeroed as a whole. *)
CellsClean == \A b \in Cell : ~Pending(b) => m_pending_tx_buffer[b] = Zeroed

LEMMA CellsStayClean ==
  ASSUME TypeOK, CellsClean, [Next]_vars
  PROVE  /\ CellsClean'
         /\ \A b \in Cell : m_pending_tx_buffer[b].tx # NoTx
              => m_pending_tx_buffer'[b].tx \in {m_pending_tx_buffer[b].tx, NoTx}
<1> DEFINE Kept == \A b \in Cell : m_pending_tx_buffer[b].tx # NoTx
              => m_pending_tx_buffer'[b].tx \in {m_pending_tx_buffer[b].tx, NoTx}
<1>0. /\ Zeroed.body = "zero" /\ Zeroed.tx = NoTx
      /\ Reserved.body = "reserved" /\ Reserved.tx = NoTx
      /\ \A tx \in Tx : Encoded(tx).body = "encoded"
  BY DEF Zeroed, Reserved, Encoded
<1>1. \A b \in Cell : m_pending_tx_buffer[b] \in SignedTransaction
  BY DEF TypeOK
<1>2. \A c \in SignedTransaction : /\ Signed(c).body = c.body /\ Signed(c).tx = c.tx
                                   /\ Identified(c).body = c.body /\ Identified(c).tx = c.tx
                                   /\ \A tx : /\ Misnamed(c, tx).body = c.body
                                              /\ Misnamed(c, tx).tx = c.tx
  BY DEF SignedTransaction, Signed, Identified, Misnamed
<1>3. ASSUME MayStart,
             NEW c \in SignedTransaction, c.body # "zero",
             m_pending_tx_buffer' = [m_pending_tx_buffer EXCEPT ![m_tx_buffer_idx] = c]
      PROVE  CellsClean' /\ Kept
  BY <1>0, <1>3 DEF CellsClean, Pending, MayStart, TypeOK
<1>4. CASE ParamsLoadFails \/ ApplNullParams \/ ApplEncodeFails
  BY <1>0, <1>3, <1>4, CellTypes DEF ParamsLoadFails, ApplNullParams, ApplEncodeFails
<1>5. CASE Enqueue
  <2>1. created + 1 \in Tx
    BY <1>5 DEF Enqueue, NextCell, MayStart, TypeOK, Tx
  <2> QED BY <1>0, <1>3, <1>5, <2>1, CellTypes DEF Enqueue, NextCell
<1>6. ASSUME NEW b \in Cell, Sign(b) PROVE CellsClean' /\ Kept
  BY <1>1, <1>2, <1>6 DEF Sign, CellsClean, Pending, TypeOK
<1>7. ASSUME NEW b \in Cell, NEW fails \in BOOLEAN, Post(b, fails) PROVE CellsClean' /\ Kept
  <2>1. CASE m_pending_tx_buffer' = [m_pending_tx_buffer EXCEPT ![b] = Identified(@)]
    BY <1>1, <1>2, <1>7, <2>1 DEF Post, CellsClean, Pending, TypeOK
  <2>2. CASE m_pending_tx_buffer' = m_pending_tx_buffer
    BY <2>2 DEF CellsClean, Pending
  <2>3. ASSUME NEW tx,
               m_pending_tx_buffer' = [m_pending_tx_buffer EXCEPT ![b] = Misnamed(@, tx)]
        PROVE  CellsClean' /\ Kept
    BY <1>1, <1>2, <1>7, <2>3 DEF Post, CellsClean, Pending, TypeOK
  <2> QED BY <1>7, <2>1, <2>2, <2>3 DEF Post
<1>8. ASSUME NEW b \in Cell, Confirm(b) PROVE CellsClean' /\ Kept
  BY <1>0, <1>8 DEF Confirm, CellsClean, Pending, TypeOK
<1>9. CASE UNCHANGED m_pending_tx_buffer
  BY <1>9 DEF CellsClean, Pending
<1> QED BY <1>4, <1>5, <1>6, <1>7, <1>8, <1>9
        DEF Next, transaction_pay, transaction_appl, vertices_event_process, vars,
            NothingToDo, SendingDone, SendingHandlerFails, SendingAnswerLost,
            SendingRefused, ConfirmFreedCell

(* A transaction leaves its cell only when the cell is freed, whatever the *)
(* node, the network and the handler do.                                   *)
THEOREM PendingIsKept == Spec => PendingNotOverwritten
<1>1. Init => CellsClean
  BY DEF Init, CellsClean
<1>2. TypeOK /\ CellsClean /\ [Next]_vars => CellsClean'
  BY CellsStayClean
<1>3. Spec => []CellsClean
  BY <1>1, <1>2, PipelineTypes, PTL DEF Spec
<1>4. TypeOK /\ CellsClean /\ [Next]_vars
      => [\A b \in Cell : m_pending_tx_buffer[b].tx # NoTx
            => m_pending_tx_buffer'[b].tx \in {m_pending_tx_buffer[b].tx, NoTx}]_vars
  BY CellsStayClean
<1> QED BY <1>3, <1>4, PipelineTypes, PTL DEF Spec, PendingNotOverwritten
-----------------------------------------------------------------------------
(* How a step moves the events: the head may go (d = 1) and e may come to  *)
(* the tail.                                                               *)
Moved(q, e, r) ==
  \/ r = q \/ r = Append(q, e)
  \/ q # << >> /\ (r = Tail(q) \/ r = Tail(Append(q, e)))

LEMMA QueueMoves ==
  ASSUME NEW q \in Seq(Event), NEW e \in Event, NEW r, Moved(q, e, r)
  PROVE  /\ r \in Seq(Event) /\ Len(q) \in Nat /\ Len(r) \in Nat
         /\ \E d \in {0, 1} : \A i \in 1 .. Len(r) :
              \/ i + d \in 1 .. Len(q) /\ r[i] = q[i + d]
              \/ i + d = Len(q) + 1 /\ r[i] = e
<1>1. CASE r = q
  BY <1>1
<1>2. CASE r = Append(q, e)
  <2>1. r \in Seq(Event) /\ Len(r) = Len(q) + 1 /\ Len(q) \in Nat
        /\ r[Len(q) + 1] = e /\ \A i \in 1 .. Len(q) : r[i] = q[i]
    BY <1>2
  <2>2. \A i \in 1 .. Len(r) : \/ i + 0 \in 1 .. Len(q) /\ r[i] = q[i + 0]
                               \/ i + 0 = Len(q) + 1 /\ r[i] = e
    BY <2>1
  <2> QED BY <2>1, <2>2
<1>3. CASE q # << >> /\ r = Tail(q)
  BY <1>3
<1>4. CASE q # << >> /\ r = Tail(Append(q, e))
  BY <1>4
<1> QED BY <1>1, <1>2, <1>3, <1>4 DEF Moved

(* All of them waited before, except e.                                    *)
LEMMA QueueKeeps ==
  ASSUME NEW q \in Seq(Event), NEW e \in Event, NEW r, Moved(q, e, r)
  PROVE  \A i \in 1 .. Len(r) : r[i] = e \/ \E j \in 1 .. Len(q) : r[i] = q[j]
<1>1. \E d \in {0, 1} : \A i \in 1 .. Len(r) :
        \/ i + d \in 1 .. Len(q) /\ r[i] = q[i + d]
        \/ i + d = Len(q) + 1 /\ r[i] = e
  BY QueueMoves
<1> QED BY <1>1

(* In every environment: of the events of one cell no READY_TO_SIGN waits  *)
(* behind a SENDING, no SENDING behind a SUCCESS, which frees the cell,    *)
(* and no SUCCESS behind a READY_TO_SIGN, with which a transaction begins. *)
Overtakes(e, f) ==
  /\ e.bufid = f.bufid
  /\ \/ e.type = "SENDING" /\ f.type = "READY_TO_SIGN"
     \/ e.type = "SUCCESS" /\ f.type = "SENDING"
     \/ e.type = "READY_TO_SIGN" /\ f.type = "SUCCESS"

StagesInOrder ==
  \A i, j \in 1 .. Len(m_events_queue) :
    i < j => ~Overtakes(m_events_queue[i], m_events_queue[j])

(* A cell with a SENDING event is taken, and signed.                       *)
SendingIsSigned ==
  \A i \in 1 .. Len(m_events_queue) :
    m_events_queue[i].type = "SENDING" =>
      /\ Pending(m_events_queue[i].bufid)
      /\ m_pending_tx_buffer[m_events_queue[i].bufid].signature
           = m_pending_tx_buffer[m_events_queue[i].bufid].tx

FaultyInv == StagesInOrder /\ SendingIsSigned

(* An event that overtakes none of the waiting ones may come to the tail.  *)
LEMMA StagesStayInOrder ==
  ASSUME TypeOK, StagesInOrder, NEW e \in Event,
         Moved(m_events_queue, e, m_events_queue'),
         \A i \in 1 .. Len(m_events_queue) : ~Overtakes(m_events_queue[i], e)
  PROVE  StagesInOrder'
<1> DEFINE q == m_events_queue
           r == m_events_queue'
<1>1. /\ Len(q) \in Nat /\ Len(r) \in Nat
      /\ \E d \in {0, 1} : \A i \in 1 .. Len(r) :
           \/ i + d \in 1 .. Len(q) /\ r[i] = q[i + d]
           \/ i + d = Len(q) + 1 /\ r[i] = e
  <2>1. q \in Seq(Event)
    BY DEF TypeOK
  <2> QED BY <2>1, QueueMoves
<1>2. PICK d \in {0, 1} : \A i \in 1 .. Len(r) :
        \/ i + d \in 1 .. Len(q) /\ r[i] = q[i + d]
        \/ i + d = Len(q) + 1 /\ r[i] = e
  BY <1>1
<1>3. ASSUME NEW i \in 1 .. Len(r), NEW j \in 1 .. Len(r), i < j
      PROVE  ~Overtakes(r[i], r[j])
  <2>1. i + d < j + d /\ i + d \in 1 .. Len(q) /\ r[i] = q[i + d]
    BY <1>1, <1>2, <1>3
  <2>2. CASE j + d \in 1 .. Len(q) /\ r[j] = q[j + d]
    BY <2>1, <2>2 DEF StagesInOrder
  <2>3. CASE r[j] = e
    BY <2>1, <2>3
  <2> QED BY <1>2, <1>3, <2>2, <2>3
<1> QED BY <1>3 DEF StagesInOrder

LEMMA FaultyStep ==
  ASSUME TypeOK, FaultyInv, [Next]_vars
  PROVE  FaultyInv'
<1> DEFINE q == m_events_queue
           r == m_events_queue'
           n == Len(m_events_queue)
           SignedIn(c) == c.body # "zero" /\ c.signature = c.tx
<1>1. /\ q \in Seq(Event) /\ n \in Nat /\ \A i \in 1 .. n : q[i] \in Event
      /\ StagesInOrder /\ SendingIsSigned
      /\ \A b \in Cell : m_pending_tx_buffer[b] \in SignedTransaction
      /\ m_pending_tx_buffer \in [Cell -> SignedTransaction] /\ m_tx_buffer_idx \in Cell
  BY DEF TypeOK, FaultyInv
<1>2. \A i \in 1 .. n : q[i].bufid \in Cell
  BY <1>1 DEF Event
<1>3. \A c \in SignedTransaction :
        /\ Signed(c).body = c.body /\ Signed(c).signature = Signed(c).tx
        /\ Identified(c).body = c.body
        /\ Identified(c).tx = c.tx /\ Identified(c).signature = c.signature
        /\ \A tx : /\ Misnamed(c, tx).body = c.body /\ Misnamed(c, tx).tx = c.tx
                   /\ Misnamed(c, tx).signature = c.signature
  BY DEF SignedTransaction, Signed, Identified, Misnamed
<1>4. \A type \in EventType, b \in Cell :
        Evt(type, b) \in Event /\ Evt(type, b).type = type /\ Evt(type, b).bufid = b
  BY DEF Evt, Event
<1>5. ASSUME NEW type \in EventType, NEW b \in Cell, HeadIs(type, b)
      PROVE  q # << >> /\ 1 \in 1 .. n /\ q[1].type = type /\ q[1].bufid = b
  <2>1. q # << >> /\ q[1] = Evt(type, b) /\ 1 \in 1 .. n
    BY <1>1, <1>5 DEF HeadIs
  <2> QED BY <1>4, <2>1
(* a cell that was free *)
<1>6. ASSUME MayStart, r = q,
             \A b \in Cell \ {m_tx_buffer_idx} : m_pending_tx_buffer'[b] = m_pending_tx_buffer[b]
      PROVE  FaultyInv'
  <2>1. StagesInOrder'
    BY <1>6 DEF FaultyInv, StagesInOrder
  <2>2. SendingIsSigned'
    BY <1>1, <1>2, <1>6 DEF SendingIsSigned, MayStart, Pending
  <2> QED BY <2>1, <2>2 DEF FaultyInv
<1>7. CASE ParamsLoadFails \/ ApplNullParams \/ ApplEncodeFails
  BY <1>1, <1>6, <1>7 DEF ParamsLoadFails, ApplNullParams, ApplEncodeFails
<1>8. CASE Enqueue
  <2> DEFINE e == Evt("READY_TO_SIGN", m_tx_buffer_idx)
  <2>1. e \in Event /\ e.type = "READY_TO_SIGN" /\ e.bufid = m_tx_buffer_idx
    BY <1>1, <1>4 DEF EventType
  <2> HIDE DEF e
  <2>2. r = q \/ r = Append(q, e)
    BY <1>8 DEF Enqueue, Schedule, e
  <2>3. Moved(q, e, r)
    BY <2>2 DEF Moved
  <2>4. \A i \in 1 .. n : q[i].type = "SENDING" => q[i].bufid # m_tx_buffer_idx
    BY <1>1, <1>8 DEF Enqueue, MayStart, SendingIsSigned
  <2>5. StagesInOrder'
    <3>1. \A i \in 1 .. n : ~Overtakes(q[i], e)
      BY <2>1, <2>4 DEF Overtakes
    <3> QED BY <1>1, <2>1, <2>3, <3>1, StagesStayInOrder
  <2>6. \A b \in Cell \ {m_tx_buffer_idx} : m_pending_tx_buffer'[b] = m_pending_tx_buffer[b]
    BY <1>1, <1>8 DEF Enqueue
  <2>7. \A i \in 1 .. Len(r) : r[i].type = "SENDING" => i \in 1 .. n /\ r[i] = q[i]
    BY <1>1, <2>1, <2>2
  <2>8. SendingIsSigned'
    BY <1>1, <1>2, <2>4, <2>6, <2>7 DEF SendingIsSigned, Pending
  <2> QED BY <2>5, <2>8 DEF FaultyInv
<1>9. ASSUME NEW b \in Cell, Sign(b) PROVE FaultyInv'
  <2> DEFINE e == Evt("SENDING", b)
  <2>1. /\ e \in Event /\ e.type = "SENDING" /\ e.bufid = b /\ q # << >>
        /\ 1 \in 1 .. n /\ q[1].type = "READY_TO_SIGN" /\ q[1].bufid = b
    BY <1>4, <1>5, <1>9 DEF EventType, Sign
  <2> HIDE DEF e
  <2>2. Moved(q, e, r)
    BY <1>9, <2>1 DEF Sign, Schedule, Moved, e
  <2>3. StagesInOrder'
    <3>1. \A i \in 1 .. n : ~Overtakes(q[i], e)
      <4> SUFFICES ASSUME NEW i \in 1 .. n, q[i].type = "SUCCESS", q[i].bufid = b PROVE FALSE
        BY <2>1 DEF Overtakes
      <4>1. 1 < i
        BY <1>1, <2>1
      <4> QED BY <1>1, <2>1, <4>1 DEF StagesInOrder, Overtakes
    <3> QED BY <1>1, <2>1, <2>2, <3>1, StagesStayInOrder
  <2>4. /\ SignedIn(m_pending_tx_buffer'[b])
        /\ \A c \in Cell \ {b} : m_pending_tx_buffer'[c] = m_pending_tx_buffer[c]
    BY <1>1, <1>3, <1>9 DEF Sign, Pending
  <2>5. \A i \in 1 .. Len(r) : \/ r[i].bufid = b
                               \/ \E j \in 1 .. n : r[i] = q[j]
    <3>1. \A i \in 1 .. Len(r) : r[i] = e \/ \E j \in 1 .. n : r[i] = q[j]
      BY <1>1, <2>1, <2>2, QueueKeeps
    <3> QED BY <2>1, <3>1
  <2>6. SendingIsSigned'
    BY <1>1, <1>2, <2>4, <2>5 DEF SendingIsSigned, Pending
  <2> QED BY <2>3, <2>6 DEF FaultyInv
<1>10. ASSUME NEW b \in Cell, NEW fails \in BOOLEAN, Post(b, fails) PROVE FaultyInv'
  <2> DEFINE e == Evt("SUCCESS", b)
  <2>1. /\ e \in Event /\ e.type = "SUCCESS" /\ e.bufid = b /\ q # << >>
        /\ 1 \in 1 .. n /\ q[1].type = "SENDING" /\ q[1].bufid = b
    BY <1>4, <1>5, <1>10 DEF EventType, Post
  <2> HIDE DEF e
  <2>2. Moved(q, e, r)
    BY <1>10, <2>1 DEF Post, Schedule, Moved, e
  <2>3. StagesInOrder'
    <3>1. \A i \in 1 .. n : ~Overtakes(q[i], e)
      <4> SUFFICES ASSUME NEW i \in 1 .. n, q[i].type = "READY_TO_SIGN", q[i].bufid = b PROVE FALSE
        BY <2>1 DEF Overtakes
      <4>1. 1 < i
        BY <1>1, <2>1
      <4> QED BY <1>1, <2>1, <4>1 DEF StagesInOrder, Overtakes
    <3> QED BY <1>1, <2>1, <2>2, <3>1, StagesStayInOrder
  <2>4. \A c \in Cell : /\ m_pending_tx_buffer'[c].body = m_pending_tx_buffer[c].body
                        /\ m_pending_tx_buffer'[c].tx = m_pending_tx_buffer[c].tx
                        /\ m_pending_tx_buffer'[c].signature = m_pending_tx_buffer[c].signature
    <3> DEFINE Same == \A c \in Cell :
                         /\ m_pending_tx_buffer'[c].body = m_pending_tx_buffer[c].body
                         /\ m_pending_tx_buffer'[c].tx = m_pending_tx_buffer[c].tx
                         /\ m_pending_tx_buffer'[c].signature = m_pending_tx_buffer[c].signature
    <3>1. CASE m_pending_tx_buffer' = [m_pending_tx_buffer EXCEPT ![b] = Identified(@)]
      BY <1>1, <1>3, <3>1
    <3>2. CASE m_pending_tx_buffer' = m_pending_tx_buffer
      BY <3>2
    <3>3. ASSUME NEW tx,
                 m_pending_tx_buffer' = [m_pending_tx_buffer EXCEPT ![b] = Misnamed(@, tx)]
          PROVE  Same
      BY <1>1, <1>3, <3>3
    <3> QED BY <1>10, <3>1, <3>2, <3>3 DEF Post
  <2>5. \A i \in 1 .. Len(r) : r[i].type = "SENDING" => \E j \in 1 .. n : r[i] = q[j]
    <3>1. \A i \in 1 .. Len(r) : r[i] = e \/ \E j \in 1 .. n : r[i] = q[j]
      BY <1>1, <2>1, <2>2, QueueKeeps
    <3> QED BY <2>1, <3>1
  <2>6. SendingIsSigned'
    BY <1>1, <1>2, <2>4, <2>5, SMTT(30) DEF SendingIsSigned, Pending
  <2> QED BY <2>3, <2>6 DEF FaultyInv
<1>11. ASSUME NEW b \in Cell, Confirm(b) PROVE FaultyInv'
  <2>1. q # << >> /\ 1 \in 1 .. n /\ q[1].type = "SUCCESS" /\ q[1].bufid = b /\ r = Tail(q)
    BY <1>5, <1>11 DEF EventType, Confirm
  <2>2. Len(r) \in Nat /\ \A i \in 1 .. Len(r) : i + 1 \in 1 .. n /\ 1 < i + 1 /\ r[i] = q[i + 1]
    BY <1>1, <2>1
  <2>3. StagesInOrder'
    <3>1. \A i, j \in 1 .. Len(r) : i < j => i + 1 < j + 1
      BY <2>2
    <3> QED BY <1>1, <2>2, <3>1 DEF StagesInOrder
  <2>4. \A c \in Cell \ {b} : m_pending_tx_buffer'[c] = m_pending_tx_buffer[c]
    BY <1>1, <1>11 DEF Confirm
  <2>5. \A i \in 1 .. Len(r) : r[i].type = "SENDING" => r[i].bufid # b
    BY <1>1, <2>1, <2>2 DEF StagesInOrder, Overtakes
  <2>6. SendingIsSigned'
    BY <1>1, <1>2, <2>2, <2>4, <2>5 DEF SendingIsSigned, Pending
  <2> QED BY <2>3, <2>6 DEF FaultyInv
<1>12. CASE UNCHANGED <<m_pending_tx_buffer, m_events_queue>>
  BY <1>1, <1>12 DEF FaultyInv, StagesInOrder, SendingIsSigned, Pending
<1> QED BY <1>7, <1>8, <1>9, <1>10, <1>11, <1>12
        DEF Next, transaction_pay, transaction_appl, vertices_event_process, vars,
            NothingToDo, SendingDone, SendingHandlerFails, SendingAnswerLost,
            SendingRefused, ConfirmFreedCell

(* Whatever fails, and however often a cell is used: what is posted        *)
(* (algorand_transaction.c:425) carries the signature of its transaction.  *)
THEOREM PostedIsSigned == Spec => []SentOnlySigned
<1>1. Init => FaultyInv
  BY DEF Init, FaultyInv, StagesInOrder, SendingIsSigned
<1>2. TypeOK /\ FaultyInv /\ [Next]_vars => FaultyInv'
  BY FaultyStep
<1>3. TypeOK /\ FaultyInv => SentOnlySigned
  <2> SUFFICES ASSUME TypeOK, FaultyInv, NEW b \in Cell, HeadIs("SENDING", b)
               PROVE  m_pending_tx_buffer[b].signature = m_pending_tx_buffer[b].tx
    BY DEF SentOnlySigned
  <2>1. /\ 1 \in 1 .. Len(m_events_queue) /\ m_events_queue[1].type = "SENDING"
        /\ m_events_queue[1].bufid = b
    BY DEF TypeOK, HeadIs, Evt
  <2> QED BY <2>1 DEF FaultyInv, SendingIsSigned
<1> QED BY <1>1, <1>2, <1>3, PipelineTypes, PTL DEF Spec
-----------------------------------------------------------------------------
(* The environment in which nothing is forgotten: parameters can be had,   *)
(* app calls have arguments, an answer to a post that is taken has a body, *)
(* the handler does its work and one event more than there are cells can   *)
(* wait (VTC_EVENTS_COUNT = 16 and 4 cells do).                            *)
Reliable ==
  /\ QueueCapacity > PENDING_TX_COUNT
  /\ "ERROR" \notin ParamsAnswers
  /\ "stale" \notin PostAnswers
  /\ CallParams \subseteq {"kv"}
  /\ HandlerMayFail = FALSE

SignedBeforeSending ==
  \A i \in 1 .. Len(m_events_queue) :
    m_events_queue[i].type = "SENDING"
      => m_pending_tx_buffer[m_events_queue[i].bufid].signature
           = m_pending_tx_buffer[m_events_queue[i].bufid].tx

PipelineInv ==
  /\ TypeOK
  /\ CellsClean
  /\ NoCrash
  /\ OneEventPerPendingCell
  /\ SignedBeforeSending

(* With at most one event per cell the queue is not longer than the cells. *)
LEMMA UniqueEventsFit ==
  ASSUME TypeOK, UniqueEvents
  PROVE  Len(m_events_queue) <= PENDING_TX_COUNT
<1> DEFINE n == Len(m_events_queue)
           f == [i \in 1 .. n |-> m_events_queue[i].bufid]
<1>1. n \in Nat /\ \A i \in 1 .. n : m_events_queue[i].bufid \in Cell
  <2>1. n \in Nat /\ \A i \in 1 .. n : m_events_queue[i] \in Event
    BY DEF TypeOK
  <2> QED BY <2>1 DEF Event
<1>2. f \in [1 .. n -> Cell]
  BY <1>1
<1>3. IsFiniteSet(1 .. n) /\ Cardinality(1 .. n) = n
  BY <1>1, FS_Interval
<1>4. IsFiniteSet(Cell) /\ Cardinality(Cell) = PENDING_TX_COUNT
  BY FS_Interval DEF Cell
<1>5. ~ \E i, j \in 1 .. n : i # j /\ f[i] = f[j]
  BY DEF UniqueEvents
<1>6. ~ (Cardinality(Cell) < Cardinality(1 .. n))
  <2> HIDE DEF f
  <2> QED BY <1>2, <1>3, <1>4, <1>5, FS_PigeonHole
<1> QED BY <1>1, <1>3, <1>4, <1>6

LEMMA QueueNeverFull ==
  ASSUME Reliable, TypeOK, UniqueEvents
  PROVE  ~QueueFull
BY UniqueEventsFit DEF Reliable, QueueFull, TypeOK

(* The head is replaced by an event for the same cell, at the tail. *)
LEMMA HeadMovesToTail ==
  ASSUME NEW q \in Seq(Event), q # << >>,
         NEW type \in EventType, NEW b \in Cell, Head(q).bufid = b
  PROVE  LET r == Tail(Append(q, Evt(type, b))) IN
         /\ Len(r) = Len(q)
         /\ \A i \in 1 .. Len(q) - 1 : r[i] = q[i + 1]
         /\ r[Len(q)] = Evt(type, b)
         /\ q[1].bufid = b
         /\ Evt(type, b).bufid = b /\ Evt(type, b).type = type
<1>1. Evt(type, b) \in Event /\ Evt(type, b).bufid = b /\ Evt(type, b).type = type
  BY DEF Evt, Event
<1>2. Len(q) \in Nat /\ Len(q) >= 1 /\ q[1].bufid = b
  OBVIOUS
<1> QED BY <1>1, <1>2

(* Such a step keeps one event per pending cell. *)
LEMMA RotationKeepsCover ==
  ASSUME TypeOK, OneEventPerPendingCell, m_events_queue # << >>,
         NEW type \in EventType, NEW b \in Cell, Head(m_events_queue).bufid = b,
         m_events_queue' = Tail(Append(m_events_queue, Evt(type, b))),
         \A c \in Cell : Pending(c)' <=> Pending(c)
  PROVE  OneEventPerPendingCell'
<1> DEFINE q == m_events_queue
           n == Len(m_events_queue)
<1>1. q \in Seq(Event) /\ n \in Nat /\ n >= 1
  BY DEF TypeOK
<1>2. /\ Len(m_events_queue') = n
      /\ \A i \in 1 .. n - 1 : m_events_queue'[i] = q[i + 1]
      /\ m_events_queue'[n].bufid = q[1].bufid
  BY <1>1, HeadMovesToTail
<1>3. UniqueEvents'
  <2> SUFFICES ASSUME NEW i \in 1 .. n, NEW j \in 1 .. n,
                      m_events_queue'[i].bufid = m_events_queue'[j].bufid
               PROVE  i = j
    BY <1>2 DEF UniqueEvents
  <2> DEFINE old(k) == IF k = n THEN 1 ELSE k + 1
  <2>1. \A k \in 1 .. n : old(k) \in 1 .. n /\ m_events_queue'[k].bufid = q[old(k)].bufid
    <3> SUFFICES ASSUME NEW k \in 1 .. n
                 PROVE  old(k) \in 1 .. n /\ m_events_queue'[k].bufid = q[old(k)].bufid
      OBVIOUS
    <3>1. CASE k = n
      BY <1>1, <1>2, <3>1
    <3>2. CASE k # n
      <4>1. k \in 1 .. n - 1 /\ k + 1 \in 1 .. n
        BY <1>1, <3>2
      <4> QED BY <1>2, <3>2, <4>1
    <3> QED BY <3>1, <3>2
  <2>2. /\ old(i) \in 1 .. n /\ old(j) \in 1 .. n
        /\ q[old(i)].bufid = q[old(j)].bufid
    BY <2>1
  <2>3. old(i) = old(j)
    <3> HIDE DEF old
    <3> QED BY <2>2 DEF OneEventPerPendingCell, UniqueEvents
  <2> QED BY <1>1, <2>3
<1>4. \A c \in Cell : (\E i \in 1 .. n : m_events_queue'[i].bufid = c)
                      <=> (\E i \in 1 .. n : q[i].bufid = c)
  <2> SUFFICES ASSUME NEW c \in Cell
               PROVE  (\E i \in 1 .. n : m_events_queue'[i].bufid = c)
                      <=> (\E i \in 1 .. n : q[i].bufid = c)
    OBVIOUS
  <2>1. ASSUME NEW i \in 1 .. n, m_events_queue'[i].bufid = c
        PROVE  \E j \in 1 .. n : q[j].bufid = c
    <3>1. CASE i = n
      BY <1>1, <1>2, <2>1, <3>1
    <3>2. CASE i # n
      <4>1. i \in 1 .. n - 1 /\ i + 1 \in 1 .. n
        BY <1>1, <3>2
      <4> QED BY <1>2, <2>1, <4>1
    <3> QED BY <3>1, <3>2
  <2>2. ASSUME NEW i \in 1 .. n, q[i].bufid = c
        PROVE  \E j \in 1 .. n : m_events_queue'[j].bufid = c
    <3>1. CASE i = 1
      BY <1>1, <1>2, <2>2, <3>1
    <3>2. CASE i # 1
      <4>1. i - 1 \in 1 .. n - 1 /\ i - 1 \in 1 .. n /\ (i - 1) + 1 = i
        BY <1>1, <3>2
      <4> QED BY <1>2, <2>2, <4>1
    <3> QED BY <3>1, <3>2
  <2> QED BY <2>1, <2>2
<1>5. \A c \in Cell : HasEvent(c)' <=> HasEvent(c)
  BY <1>2, <1>4 DEF HasEvent
<1> QED BY <1>3, <1>5 DEF OneEventPerPendingCell

(* A new event for a free cell, which is thereby taken *)
LEMMA AppendKeepsCover ==
  ASSUME TypeOK, OneEventPerPendingCell,
         NEW e \in Event, ~Pending(e.bufid),
         m_events_queue' = Append(m_events_queue, e),
         \A c \in Cell : Pending(c)' <=> (Pending(c) \/ c = e.bufid)
  PROVE  OneEventPerPendingCell'
<1> DEFINE q == m_events_queue
           n == Len(m_events_queue)
<1>1. q \in Seq(Event) /\ n \in Nat /\ e.bufid \in Cell
  BY DEF TypeOK, Event
<1>2. /\ Len(m_events_queue') = n + 1
      /\ \A i \in 1 .. n : m_events_queue'[i] = q[i]
      /\ m_events_queue'[n + 1] = e
  BY <1>1
<1>3. \A i \in 1 .. n : q[i].bufid # e.bufid
  BY <1>1 DEF OneEventPerPendingCell, HasEvent
<1>4. UniqueEvents'
  BY <1>1, <1>2, <1>3 DEF OneEventPerPendingCell, UniqueEvents
<1>5. \A c \in Cell : HasEvent(c)' <=> (HasEvent(c) \/ c = e.bufid)
  BY <1>1, <1>2 DEF HasEvent
<1> QED BY <1>4, <1>5 DEF OneEventPerPendingCell

(* The head goes and its cell is freed. *)
LEMMA TailKeepsCover ==
  ASSUME TypeOK, OneEventPerPendingCell, m_events_queue # << >>,
         NEW b \in Cell, Head(m_events_queue).bufid = b,
         m_events_queue' = Tail(m_events_queue),
         \A c \in Cell : Pending(c)' <=> (Pending(c) /\ c # b)
  PROVE  OneEventPerPendingCell'
<1> DEFINE q == m_events_queue
           n == Len(m_events_queue)
<1>1. q \in Seq(Event) /\ n \in Nat /\ n >= 1 /\ q[1].bufid = b
  BY DEF TypeOK
<1>2. /\ Len(m_events_queue') = n - 1
      /\ \A i \in 1 .. n - 1 : m_events_queue'[i] = q[i + 1]
  BY <1>1
<1>3. \A i, j \in 1 .. n - 1 : /\ i + 1 \in 1 .. n /\ j + 1 \in 1 .. n
                               /\ i + 1 = j + 1 => i = j
  BY <1>1
<1>4. UniqueEvents'
  BY <1>2, <1>3 DEF OneEventPerPendingCell, UniqueEvents
<1>5. ASSUME NEW c \in Cell PROVE HasEvent(c)' <=> (HasEvent(c) /\ c # b)
  <2>1. ASSUME NEW i \in 1 .. n - 1, m_events_queue'[i].bufid = c
        PROVE  HasEvent(c) /\ c # b
    <3>1. i + 1 \in 1 .. n /\ 1 \in 1 .. n /\ i + 1 # 1 /\ q[i + 1].bufid = c
      BY <1>1, <1>2, <2>1
    <3> QED BY <1>1, <3>1 DEF HasEvent, OneEventPerPendingCell, UniqueEvents
  <2>2. ASSUME NEW i \in 1 .. n, q[i].bufid = c, c # b
        PROVE  \E j \in 1 .. n - 1 : m_events_queue'[j].bufid = c
    <3>1. i # 1
      BY <1>1, <2>2
    <3>2. i - 1 \in 1 .. n - 1 /\ (i - 1) + 1 = i
      BY <1>1, <3>1
    <3> QED BY <1>2, <2>2, <3>2
  <2> QED BY <1>2, <2>1, <2>2 DEF HasEvent
<1> QED BY <1>4, <1>5 DEF OneEventPerPendingCell
-----------------------------------------------------------------------------
(* What a step does to the invariant in the reliable environment *)
LEMMA InvStep ==
  ASSUME Reliable, PipelineInv, TypeOK', CellsClean', [Next]_vars
  PROVE  NoCrash' /\ OneEventPerPendingCell' /\ SignedBeforeSending'
<1> DEFINE q == m_events_queue
           n == Len(m_events_queue)
           Goal == NoCrash' /\ OneEventPerPendingCell' /\ SignedBeforeSending'
<1>0. /\ TypeOK /\ CellsClean /\ NoCrash /\ OneEventPerPendingCell /\ UniqueEvents
      /\ SignedBeforeSending /\ ~QueueFull
  BY QueueNeverFull DEF PipelineInv, OneEventPerPendingCell
<1>1. q \in Seq(Event) /\ n \in Nat /\ \A i \in 1 .. n : q[i] \in Event
  BY <1>0 DEF TypeOK
<1>2. \A i \in 1 .. n : q[i].bufid \in Cell
  BY <1>1 DEF Event
<1>3. \A b \in Cell : m_pending_tx_buffer[b] \in SignedTransaction
  BY <1>0 DEF TypeOK
<1>4. \A c \in SignedTransaction :
        /\ Signed(c).body = c.body /\ Signed(c).tx = c.tx /\ Signed(c).signature = c.tx
        /\ Identified(c).body = c.body /\ Identified(c).tx = c.tx
        /\ Identified(c).signature = c.signature
  BY DEF SignedTransaction, Signed, Identified
<1>5. ~ParamsLoadFails /\ ~ApplNullParams /\ ~ApplEncodeFails
  BY DEF Reliable, ParamsLoadFails, ApplNullParams, ApplEncodeFails
<1>6. CASE Enqueue
  <2> DEFINE e == Evt("READY_TO_SIGN", m_tx_buffer_idx)
  <2>1. e \in Event /\ e.bufid = m_tx_buffer_idx /\ e.type = "READY_TO_SIGN"
    BY <1>0 DEF Evt, Event, EventType, TypeOK
  <2>2. m_events_queue' = Append(q, e) /\ ~Pending(m_tx_buffer_idx) /\ NoCrash'
    BY <1>0, <1>6 DEF Enqueue, NextCell, Schedule, MayStart, NoCrash
  <2>3. \A b \in Cell : b # m_tx_buffer_idx
          => m_pending_tx_buffer'[b] = m_pending_tx_buffer[b]
    BY <1>0, <1>6 DEF Enqueue, NextCell, TypeOK
  <2>4. m_pending_tx_buffer'[m_tx_buffer_idx].body = "encoded"
    BY <1>0, <1>6 DEF Enqueue, NextCell, Encoded, TypeOK
  <2>5. \A c \in Cell : Pending(c)' <=> (Pending(c) \/ c = e.bufid)
    BY <2>1, <2>3, <2>4 DEF Pending
  <2>6. OneEventPerPendingCell'
    <3> HIDE DEF e
    <3> QED BY <1>0, <2>1, <2>2, <2>5, AppendKeepsCover
  <2>7. SignedBeforeSending'
    <3>1. \A i \in 1 .. n : q[i].bufid # m_tx_buffer_idx
      BY <1>0, <1>2, <2>2 DEF OneEventPerPendingCell, HasEvent
    <3>2. Len(m_events_queue') = n + 1 /\ m_events_queue'[n + 1] = e
          /\ \A i \in 1 .. n : m_events_queue'[i] = q[i]
      BY <1>1, <2>2
    <3>3. \A i \in 1 .. n : m_pending_tx_buffer'[q[i].bufid] = m_pending_tx_buffer[q[i].bufid]
      BY <1>2, <2>3, <3>1
    <3>4. SUFFICES ASSUME NEW i \in 1 .. n + 1, m_events_queue'[i].type = "SENDING"
                   PROVE  m_pending_tx_buffer'[m_events_queue'[i].bufid].signature
                            = m_pending_tx_buffer'[m_events_queue'[i].bufid].tx
      BY <3>2 DEF SignedBeforeSending
    <3>5. i \in 1 .. n
      BY <1>1, <2>1, <3>2, <3>4
    <3> QED BY <1>0, <3>2, <3>3, <3>4, <3>5 DEF SignedBeforeSending
  <2> QED BY <2>2, <2>6, <2>7
<1>7. ASSUME NEW b \in Cell, Sign(b) PROVE Goal
  <2>1. /\ q # << >> /\ Head(q).bufid = b /\ NoCrash'
        /\ m_events_queue' = Tail(Append(q, Evt("SENDING", b)))
        /\ m_pending_tx_buffer' = [m_pending_tx_buffer EXCEPT ![b] = Signed(@)]
    BY <1>0, <1>7 DEF Sign, HeadIs, Schedule, NoCrash, Evt
  <2>2. m_pending_tx_buffer'[b] = Signed(m_pending_tx_buffer[b])
        /\ \A c \in Cell : c # b => m_pending_tx_buffer'[c] = m_pending_tx_buffer[c]
    BY <1>0, <2>1 DEF TypeOK
  <2>3. \A c \in Cell : Pending(c)' <=> Pending(c)
    BY <1>3, <1>4, <2>2 DEF Pending
  <2>4. OneEventPerPendingCell'
    BY <1>0, <2>1, <2>3, RotationKeepsCover DEF EventType
  <2>5. /\ Len(m_events_queue') = n /\ n >= 1
        /\ \A i \in 1 .. n - 1 : m_events_queue'[i] = q[i + 1]
        /\ m_events_queue'[n].bufid = b /\ q[1].bufid = b
    BY <1>1, <2>1, HeadMovesToTail DEF EventType
  <2>6. SignedBeforeSending'
    <3>1. SUFFICES ASSUME NEW i \in 1 .. n, m_events_queue'[i].type = "SENDING"
                   PROVE  m_pending_tx_buffer'[m_events_queue'[i].bufid].signature
                            = m_pending_tx_buffer'[m_events_queue'[i].bufid].tx
      BY <2>5 DEF SignedBeforeSending
    <3>2. CASE i = n
      BY <1>3, <1>4, <2>2, <2>5, <3>2
    <3>3. CASE i # n
      <4>1. i \in 1 .. n - 1 /\ i + 1 \in 1 .. n /\ 1 \in 1 .. n /\ i + 1 # 1
        BY <1>1, <3>3
      <4>2. q[i + 1].bufid # b
        BY <1>0, <2>5, <4>1 DEF UniqueEvents
      <4>3. m_events_queue'[i] = q[i + 1]
        BY <2>5, <4>1
      <4> QED BY <1>0, <1>2, <2>2, <3>1, <4>1, <4>2, <4>3 DEF SignedBeforeSending
    <3> QED BY <3>2, <3>3
  <2> QED BY <2>1, <2>4, <2>6
<1>8. ASSUME NEW b \in Cell, Post(b, FALSE) PROVE Goal
  <2>1. /\ q # << >> /\ Head(q).bufid = b /\ NoCrash'
        /\ m_events_queue' = Tail(Append(q, Evt("SUCCESS", b)))
    BY <1>0, <1>8 DEF Post, HeadIs, Schedule, NoCrash, Evt
  <2>2. \A c \in Cell : /\ m_pending_tx_buffer'[c].body = m_pending_tx_buffer[c].body
                        /\ m_pending_tx_buffer'[c].tx = m_pending_tx_buffer[c].tx
                        /\ m_pending_tx_buffer'[c].signature = m_pending_tx_buffer[c].signature
    <3>1. CASE m_pending_tx_buffer' = [m_pending_tx_buffer EXCEPT ![b] = Identified(@)]
      BY <1>0, <1>3, <1>4, <3>1 DEF TypeOK
    <3>2. CASE m_pending_tx_buffer' = m_pending_tx_buffer
      BY <3>2
    <3> QED BY <1>8, <3>1, <3>2 DEF Post, Reliable
  <2>3. \A c \in Cell : Pending(c)' <=> Pending(c)
    BY <2>2 DEF Pending
  <2>4. OneEventPerPendingCell'
    BY <1>0, <2>1, <2>3, RotationKeepsCover DEF EventType
  <2>5. /\ Len(m_events_queue') = n /\ n >= 1
        /\ \A i \in 1 .. n - 1 : m_events_queue'[i] = q[i + 1]
        /\ m_events_queue'[n].type = "SUCCESS"
    BY <1>1, <2>1, HeadMovesToTail DEF EventType
  <2>6. SignedBeforeSending'
    <3>1. SUFFICES ASSUME NEW i \in 1 .. n, m_events_queue'[i].type = "SENDING"
                   PROVE  m_pending_tx_buffer'[m_events_queue'[i].bufid].signature
                            = m_pending_tx_buffer'[m_events_queue'[i].bufid].tx
      BY <2>5 DEF SignedBeforeSending
    <3>2. i \in 1 .. n - 1 /\ i + 1 \in 1 .. n
      BY <1>1, <2>5, <3>1
    <3> QED BY <1>0, <1>2, <2>2, <2>5, <3>1, <3>2 DEF SignedBeforeSending
  <2> QED BY <2>1, <2>4, <2>6
<1>9. ASSUME NEW b \in Cell, Confirm(b) PROVE Goal
  <2>1. /\ q # << >> /\ Head(q).bufid = b /\ NoCrash' /\ Pending(b)
        /\ m_events_queue' = Tail(q)
        /\ m_pending_tx_buffer' = [m_pending_tx_buffer EXCEPT ![b] = Zeroed]
    BY <1>0, <1>9 DEF Confirm, HeadIs, NoCrash, Evt
  <2>2. m_pending_tx_buffer'[b].body = "zero"
        /\ \A c \in Cell : c # b => m_pending_tx_buffer'[c] = m_pending_tx_buffer[c]
    BY <1>0, <2>1 DEF TypeOK, Zeroed
  <2>3. \A c \in Cell : Pending(c)' <=> (Pending(c) /\ c # b)
    BY <2>2 DEF Pending
  <2>4. OneEventPerPendingCell'
    BY <1>0, <2>1, <2>3, TailKeepsCover
  <2>5. /\ Len(m_events_queue') = n - 1 /\ n >= 1 /\ q[1].bufid = b
        /\ \A i \in 1 .. n - 1 : m_events_queue'[i] = q[i + 1]
    BY <1>1, <2>1
  <2>6. SignedBeforeSending'
    <3>1. SUFFICES ASSUME NEW i \in 1 .. n - 1, m_events_queue'[i].type = "SENDING"
                   PROVE  m_pending_tx_buffer'[m_events_queue'[i].bufid].signature
                            = m_pending_tx_buffer'[m_events_queue'[i].bufid].tx
      BY <2>5 DEF SignedBeforeSending
    <3>2. i + 1 \in 1 .. n /\ 1 \in 1 .. n /\ i + 1 # 1
      BY <1>1, <2>5
    <3>3. q[i + 1].bufid # b
      BY <1>0, <2>5, <3>2 DEF UniqueEvents
    <3> QED BY <1>0, <1>2, <2>2, <2>5, <3>1, <3>2, <3>3 DEF SignedBeforeSending
  <2> QED BY <2>1, <2>4, <2>6
<1>10. ASSUME NEW b \in Cell PROVE ~ConfirmFreedCell(b)
  <2> SUFFICES ASSUME HeadIs("SUCCESS", b) PROVE Pending(b)
    BY DEF ConfirmFreedCell
  <2>1. q # << >> /\ Head(q).bufid = b
    BY DEF HeadIs, Evt
  <2>2. 1 \in 1 .. n /\ q[1].bufid = b
    BY <1>1, <2>1
  <2> QED BY <1>0, <2>2 DEF OneEventPerPendingCell, HasEvent
<1>11. CASE UNCHANGED <<m_pending_tx_buffer, m_events_queue, crashed>>
  BY <1>0, <1>11 DEF NoCrash, OneEventPerPendingCell, UniqueEvents, HasEvent,
                     Pending, SignedBeforeSending
<1> QED BY <1>5, <1>6, <1>7, <1>8, <1>9, <1>10, <1>11
        DEF Reliable, Next, transaction_pay, transaction_appl, vertices_event_process,
            vars, NothingToDo, SendingDone, SendingHandlerFails, SendingAnswerLost,
            SendingRefused

LEMMA InvIsKept ==
  ASSUME Reliable
  PROVE  Spec => []TypeOK /\ []PipelineInv
<1>1. Init => CellsClean /\ NoCrash /\ OneEventPerPendingCell /\ SignedBeforeSending
  BY DEF Init, CellsClean, NoCrash, OneEventPerPendingCell, UniqueEvents, HasEvent,
         Pending, Zeroed, SignedBeforeSending
<1>2. PipelineInv /\ TypeOK' /\ [Next]_vars => PipelineInv'
  BY InvStep, CellsStayClean DEF PipelineInv
<1>3. TypeOK /\ CellsClean /\ NoCrash /\ OneEventPerPendingCell /\ SignedBeforeSending
      => PipelineInv
  BY DEF PipelineInv
<1> QED BY <1>1, <1>2, <1>3, PipelineTypes, PTL DEF Spec

(* With a working handler every taken cell keeps exactly one event and no  *)
(* event names a free cell, so nothing crashes and what is posted is       *)
(* signed, for any number of cells and any refusals or lost answers.       *)
THEOREM NothingIsForgotten ==
  ASSUME Reliable
  PROVE  Spec => [](OneEventPerPendingCell /\ NoCrash /\ SentOnlySigned)
<1>1. PipelineInv => OneEventPerPendingCell /\ NoCrash /\ SentOnlySigned
  <2> SUFFICES ASSUME PipelineInv, NEW b \in Cell, HeadIs("SENDING", b)
               PROVE  m_pending_tx_buffer[b].signature = m_pending_tx_buffer[b].tx
    BY DEF PipelineInv, SentOnlySigned
  <2>1. /\ m_events_queue \in Seq(Event) /\ m_events_queue # << >>
        /\ Head(m_events_queue) = Evt("SENDING", b)
    BY DEF PipelineInv, TypeOK, HeadIs
  <2>2. 1 \in 1 .. Len(m_events_queue) /\ m_events_queue[1] = Evt("SENDING", b)
    BY <2>1
  <2>3. m_events_queue[1].type = "SENDING" /\ m_events_queue[1].bufid = b
    BY <2>2 DEF Evt
  <2> QED BY <2>2, <2>3 DEF PipelineInv, SignedBeforeSending
<1> QED BY <1>1, InvIsKept, PTL
-----------------------------------------------------------------------------
(* The order of the transactions in the reliable environment.  The cells   *)
(* are taken round and round: the last transaction is in the cell before   *)
(* m_tx_buffer_idx, the one before it in the cell before that.             *)
Age(b) ==
  IF b < m_tx_buffer_idx THEN m_tx_buffer_idx - 1 - b
  ELSE m_tx_buffer_idx - 1 - b + PENDING_TX_COUNT

CellsInOrder ==
  /\ created - Len(reported) \in 0 .. PENDING_TX_COUNT
  /\ \A b \in Cell : Pending(b) <=> Age(b) < created - Len(reported)
  /\ \A b \in Cell : Pending(b) => m_pending_tx_buffer[b].tx = created - Age(b)

(* Transactions of a later stage are older, and in the queue those of one  *)
(* stage follow each other.                                                *)
EventTx(e) == m_pending_tx_buffer[e.bufid].tx
EventId(e) == m_pending_tx_buffer[e.bufid].id

LaterStage(e, f) ==
  \/ e.type = "SUCCESS" /\ f.type # "SUCCESS"
  \/ e.type = "SENDING" /\ f.type = "READY_TO_SIGN"

QueueInOrder ==
  \A i, j \in 1 .. Len(m_events_queue) :
    LET e == m_events_queue[i]  f == m_events_queue[j] IN
    LaterStage(e, f) \/ (e.type = f.type /\ i < j) => EventTx(e) < EventTx(f)

(* The node has those of the last stage, and not those before SENDING; of  *)
(* the others it may have the head's, whose answer was lost.               *)
LedgerFollows ==
  /\ Len(ledger) \in Len(reported) .. created
  /\ LedgerInOrder
  /\ \A i \in 1 .. Len(m_events_queue) :
       LET e == m_events_queue[i] IN
       /\ e.type = "SUCCESS" => EventTx(e) <= Len(ledger)
       /\ e.type = "READY_TO_SIGN" => EventTx(e) > Len(ledger)
       /\ e.type = "SENDING" => EventTx(e) > Len(ledger) \/ (i = 1 /\ EventTx(e) = Len(ledger))

IdsFollow ==
  /\ ReportedInOrder
  /\ \A i \in 1 .. Len(m_events_queue) :
       LET e == m_events_queue[i] IN
       IF e.type = "SUCCESS"
       THEN EventId(e) = EventTx(e) \/ ("noid" \in PostAnswers /\ EventId(e) = NoTx)
       ELSE EventId(e) = NoTx

OrderInv == CellsInOrder /\ QueueInOrder /\ LedgerFollows /\ IdsFollow

(* The queue holds the transactions that are not reported, and no other.   *)
LEMMA UnreportedWait ==
  ASSUME PipelineInv, CellsInOrder
  PROVE  /\ m_events_queue \in Seq(Event) /\ Len(m_events_queue) \in Nat
         /\ created \in Nat /\ Len(reported) \in Nat /\ Len(reported) <= created
         /\ \A i \in 1 .. Len(m_events_queue) :
              /\ m_events_queue[i] \in Event /\ m_events_queue[i].bufid \in Cell
              /\ Pending(m_events_queue[i].bufid)
              /\ EventTx(m_events_queue[i]) \in Len(reported) + 1 .. created
         /\ \A k \in Len(reported) + 1 .. created :
              \E i \in 1 .. Len(m_events_queue) : EventTx(m_events_queue[i]) = k
<1> DEFINE q == m_events_queue
           n == Len(m_events_queue)
<1>1. /\ q \in Seq(Event) /\ n \in Nat /\ created \in Nat /\ Len(reported) \in Nat
      /\ m_tx_buffer_idx \in Cell /\ OneEventPerPendingCell
      /\ \A i \in 1 .. n : q[i] \in Event
  BY DEF PipelineInv, TypeOK
<1>2. Len(reported) <= created
  BY <1>1 DEF CellsInOrder
<1>3. \A i \in 1 .. n : q[i].bufid \in Cell /\ Pending(q[i].bufid)
  BY <1>1 DEF OneEventPerPendingCell, HasEvent, Event
<1>4. \A b \in Cell : Age(b) \in 0 .. PENDING_TX_COUNT - 1
  BY <1>1 DEF Age, Cell
<1>5. \A i \in 1 .. n : EventTx(q[i]) \in Len(reported) + 1 .. created
  <2> SUFFICES ASSUME NEW i \in 1 .. n PROVE EventTx(q[i]) \in Len(reported) + 1 .. created
    OBVIOUS
  <2>1. EventTx(q[i]) = created - Age(q[i].bufid) /\ Age(q[i].bufid) < created - Len(reported)
    BY <1>3 DEF CellsInOrder, EventTx
  <2> QED BY <1>1, <1>3, <1>4, <2>1
<1>6. ASSUME NEW k \in Len(reported) + 1 .. created
      PROVE  \E i \in 1 .. n : EventTx(q[i]) = k
  <2>1. \E b \in Cell : Age(b) = created - k
    <3>1. created - k \in 0 .. PENDING_TX_COUNT - 1
      BY <1>1, <1>6 DEF CellsInOrder
    <3> DEFINE b == IF created - k < m_tx_buffer_idx THEN m_tx_buffer_idx - 1 - (created - k)
                    ELSE m_tx_buffer_idx - 1 - (created - k) + PENDING_TX_COUNT
    <3>2. b \in Cell /\ Age(b) = created - k
      BY <1>1, <3>1 DEF Age, Cell
    <3> QED BY <3>2
  <2>2. PICK b \in Cell : Age(b) = created - k
    BY <2>1
  <2>3. Pending(b) /\ m_pending_tx_buffer[b].tx = k
    BY <1>1, <1>6, <2>2 DEF CellsInOrder
  <2>4. PICK i \in 1 .. n : q[i].bufid = b
    BY <1>1, <2>3 DEF OneEventPerPendingCell, HasEvent
  <2> QED BY <2>3, <2>4 DEF EventTx
<1> QED BY <1>1, <1>2, <1>3, <1>5, <1>6

(* The first of a stage is the next one of that stage. *)
LEMMA HeadIsNext ==
  ASSUME PipelineInv, OrderInv, NEW type \in EventType, NEW b \in Cell, HeadIs(type, b)
  PROVE  /\ 1 \in 1 .. Len(m_events_queue)
         /\ m_events_queue[1].type = type /\ m_events_queue[1].bufid = b
         /\ Head(m_events_queue).bufid = b /\ m_events_queue # << >>
         /\ m_pending_tx_buffer[b].tx \in Len(reported) + 1 .. created
         /\ type = "SUCCESS" => m_pending_tx_buffer[b].tx = Len(reported) + 1
         /\ type = "SENDING" => m_pending_tx_buffer[b].tx \in {Len(ledger), Len(ledger) + 1}
<1> DEFINE q == m_events_queue
           t == m_pending_tx_buffer[b].tx
<1>1. /\ q \in Seq(Event) /\ Len(q) \in Nat /\ created \in Nat /\ Len(reported) \in Nat
      /\ \A i \in 1 .. Len(q) : q[i] \in Event /\ EventTx(q[i]) \in Len(reported) + 1 .. created
      /\ \A k \in Len(reported) + 1 .. created : \E i \in 1 .. Len(q) : EventTx(q[i]) = k
  BY UnreportedWait DEF OrderInv
<1>2. Evt(type, b).type = type /\ Evt(type, b).bufid = b
  BY DEF Evt
<1>3. 1 \in 1 .. Len(q) /\ q[1].type = type /\ q[1].bufid = b /\ q # << >> /\ Head(q).bufid = b
  BY <1>1, <1>2 DEF HeadIs
<1>4. EventTx(q[1]) = t /\ t \in Len(reported) + 1 .. created
  BY <1>1, <1>3 DEF EventTx
<1>5. \A i \in 1 .. Len(q) : q[i].type \in EventType /\ EventTx(q[i]) \in Int
  BY <1>1 DEF Event
<1> HIDE DEF t
<1>6. ASSUME type = "SUCCESS" PROVE t = Len(reported) + 1
  <2>1. PICK i \in 1 .. Len(q) : EventTx(q[i]) = Len(reported) + 1
    BY <1>1, <1>4
  <2>2. CASE i = 1
    BY <1>4, <2>1, <2>2
  <2>3. CASE i # 1
    <3>1. 1 < i
      BY <2>3
    <3>2. EventTx(q[1]) < EventTx(q[i])
      BY <1>3, <1>6, <3>1 DEF OrderInv, QueueInOrder, LaterStage
    <3> QED BY <1>1, <1>4, <2>1, <3>2
  <2> QED BY <2>2, <2>3
<1>7. ASSUME type = "SENDING" PROVE t \in {Len(ledger), Len(ledger) + 1}
  <2>0. Len(ledger) \in Nat /\ Len(ledger) >= Len(reported)
    BY <1>1 DEF OrderInv, LedgerFollows
  <2>1. t >= Len(ledger)
    BY <1>3, <1>4, <1>7, <2>0 DEF OrderInv, LedgerFollows
  <2>2. ASSUME t > Len(ledger) + 1 PROVE FALSE
    <3>1. Len(ledger) + 1 \in Len(reported) + 1 .. created
      BY <1>1, <1>4, <2>0, <2>2
    <3>2. PICK i \in 1 .. Len(q) : EventTx(q[i]) = Len(ledger) + 1
      BY <1>1, <3>1
    <3>3. i # 1
      BY <1>1, <1>4, <2>0, <2>2, <3>2
    <3>4. q[i].type # "SUCCESS"
      BY <2>0, <3>2 DEF OrderInv, LedgerFollows
    <3>5. EventTx(q[1]) < EventTx(q[i])
      <4>1. 1 < i /\ q[i].type \in {"SENDING", "READY_TO_SIGN"}
        BY <1>5, <3>3, <3>4 DEF EventType
      <4> QED BY <1>3, <1>7, <4>1 DEF OrderInv, QueueInOrder, LaterStage
    <3> QED BY <1>1, <1>4, <2>0, <2>2, <3>2, <3>5
  <2> QED BY <1>1, <1>4, <2>0, <2>1, <2>2
<1> QED BY <1>3, <1>4, <1>6, <1>7 DEF t

(* The head goes on to its next stage.                                     *)
LEMMA RotationKeepsOrder ==
  ASSUME PipelineInv, OrderInv, NEW b \in Cell,
         NEW from \in EventType, NEW type \in EventType, HeadIs(from, b),
         \/ from = "READY_TO_SIGN" /\ type = "SENDING"
         \/ from = "SENDING" /\ type = "SUCCESS",
         m_events_queue' = Tail(Append(m_events_queue, Evt(type, b))),
         \A c \in Cell : m_pending_tx_buffer'[c].tx = m_pending_tx_buffer[c].tx
  PROVE  QueueInOrder'
<1> DEFINE q == m_events_queue
           r == m_events_queue'
           n == Len(m_events_queue)
           newTx(i) == m_pending_tx_buffer'[r[i].bufid].tx
<1>1. /\ q \in Seq(Event) /\ n \in Nat
      /\ \A i \in 1 .. n : /\ q[i] \in Event /\ q[i].bufid \in Cell
  BY UnreportedWait DEF OrderInv
<1>2. /\ 1 \in 1 .. n /\ q # << >> /\ q[1].type = from /\ q[1].bufid = b /\ Head(q).bufid = b
  BY HeadIsNext
<1>3. /\ Len(r) = n
      /\ \A i \in 1 .. n - 1 : r[i] = q[i + 1]
      /\ r[n].type = type /\ r[n].bufid = b
  BY <1>1, <1>2, HeadMovesToTail
<1>4. \A i \in 1 .. n - 1 : i + 1 \in 1 .. n /\ 1 < i + 1 /\ n # i
  BY <1>1
<1>5. \A i \in 1 .. n - 1 : newTx(i) = EventTx(q[i + 1])
  BY <1>1, <1>3, <1>4 DEF EventTx
<1>6. newTx(n) = EventTx(q[1])
  BY <1>2, <1>3 DEF EventTx
<1>7. \A i \in 1 .. n : q[i].type \in EventType
  BY <1>1 DEF Event
<1>8. ASSUME NEW i \in 1 .. n, NEW j \in 1 .. n,
             LaterStage(r[i], r[j]) \/ (r[i].type = r[j].type /\ i < j)
      PROVE  newTx(i) < newTx(j)
  <2>1. CASE i # n /\ j # n
    <3>1. i \in 1 .. n - 1 /\ j \in 1 .. n - 1 /\ (i < j => i + 1 < j + 1)
      BY <1>1, <2>1
    <3>2. EventTx(q[i + 1]) < EventTx(q[j + 1])
      BY <1>3, <1>4, <1>8, <3>1 DEF OrderInv, QueueInOrder
    <3> QED BY <1>5, <3>1, <3>2
  <2>2. CASE i # n /\ j = n
    <3>1. i \in 1 .. n - 1
      BY <1>1, <2>2
    <3>2. LaterStage(q[i + 1], q[1])
      BY <1>2, <1>3, <1>4, <1>7, <1>8, <2>2, <3>1 DEF LaterStage, EventType
    <3> QED BY <1>2, <1>4, <1>5, <1>6, <2>2, <3>1, <3>2 DEF OrderInv, QueueInOrder
  <2>3. CASE i = n /\ j # n
    <3>1. j \in 1 .. n - 1 /\ ~(i < j)
      BY <1>1, <2>3
    <3>2. LaterStage(q[1], q[j + 1]) \/ (q[1].type = q[j + 1].type /\ 1 < j + 1)
      BY <1>2, <1>3, <1>4, <1>7, <1>8, <2>3, <3>1 DEF LaterStage, EventType
    <3> QED BY <1>2, <1>4, <1>5, <1>6, <2>3, <3>1, <3>2 DEF OrderInv, QueueInOrder
  <2>4. CASE i = n /\ j = n
    BY <1>1, <1>8, <2>4 DEF LaterStage
  <2> QED BY <2>1, <2>2, <2>3, <2>4
<1> QED BY <1>3, <1>8 DEF QueueInOrder, LaterStage, EventTx

(* A new transaction is the youngest, in the cell that was freed longest ago. *)
LEMMA EnqueueKeepsOrder ==
  ASSUME Reliable, PipelineInv, OrderInv, Enqueue
  PROVE  OrderInv' /\ Payments!Submit
<1> DEFINE q == m_events_queue
           r == m_events_queue'
           n == Len(m_events_queue)
           e == Evt("READY_TO_SIGN", m_tx_buffer_idx)
           told == Len(reported)
<1>1. /\ q \in Seq(Event) /\ n \in Nat /\ created \in Nat /\ told \in Nat /\ told <= created
      /\ \A i \in 1 .. n : /\ q[i].bufid \in Cell /\ Pending(q[i].bufid)
                           /\ q[i].type \in EventType
                           /\ EventTx(q[i]) \in Int /\ EventTx(q[i]) <= created
  BY UnreportedWait DEF OrderInv, Event
<1>2. /\ m_tx_buffer_idx \in Cell /\ ~Pending(m_tx_buffer_idx) /\ TypeOK
      /\ m_pending_tx_buffer \in [Cell -> SignedTransaction] /\ ~QueueFull
  BY QueueNeverFull DEF PipelineInv, TypeOK, Enqueue, MayStart, OneEventPerPendingCell
<1>3. e \in Event /\ e.type = "READY_TO_SIGN" /\ e.bufid = m_tx_buffer_idx
  BY <1>2 DEF Evt, Event, EventType
<1> HIDE DEF e
<1>4. /\ r = Append(q, e) /\ created' = created + 1
      /\ UNCHANGED <<ledger, reported>>
      /\ m_pending_tx_buffer'[m_tx_buffer_idx] = Encoded(created + 1)
      /\ \A b \in Cell \ {m_tx_buffer_idx} : m_pending_tx_buffer'[b] = m_pending_tx_buffer[b]
  BY <1>2 DEF Enqueue, Schedule, e
<1>5. Encoded(created + 1).body = "encoded" /\ Encoded(created + 1).tx = created + 1
      /\ Encoded(created + 1).id = NoTx
  BY DEF Encoded
<1>6. m_tx_buffer_idx' = IF m_tx_buffer_idx + 1 = PENDING_TX_COUNT THEN 0 ELSE m_tx_buffer_idx + 1
  BY <1>2 DEF Enqueue, NextCell, Cell
<1>7. created - told < PENDING_TX_COUNT
  <2>1. Age(m_tx_buffer_idx) = PENDING_TX_COUNT - 1
    BY <1>2 DEF Age, Cell
  <2> QED BY <1>1, <1>2, <2>1 DEF OrderInv, CellsInOrder
<1>8. \A b \in Cell \ {m_tx_buffer_idx} : Age(b)' = Age(b) + 1 /\ Age(b) \in Nat
  BY <1>2, <1>6 DEF Age, Cell
<1>9. CellsInOrder'
  <2>1. \A b \in Cell : b = m_tx_buffer_idx => Age(b)' = 0
    BY <1>2, <1>6 DEF Age, Cell
  <2>2. created' - Len(reported') = (created - told) + 1
    BY <1>1, <1>4
  <2>3. \A b \in Cell : Pending(b)' <=> Age(b)' < created' - Len(reported')
    <3> SUFFICES ASSUME NEW b \in Cell
                 PROVE  Pending(b)' <=> Age(b)' < created' - Len(reported')
      OBVIOUS
    <3>1. CASE b = m_tx_buffer_idx
      <4>1. Pending(b)' /\ Age(b)' = 0
        BY <1>4, <1>5, <2>1, <3>1 DEF Pending
      <4> QED BY <1>1, <2>2, <4>1
    <3>2. CASE b # m_tx_buffer_idx
      <4>1. Pending(b)' <=> Age(b) < created - told
        BY <1>4, <3>2 DEF OrderInv, CellsInOrder, Pending
      <4>2. Age(b)' = Age(b) + 1 /\ Age(b) \in Nat
        BY <1>8, <3>2
      <4> QED BY <1>1, <2>2, <4>1, <4>2
    <3> QED BY <3>1, <3>2
  <2>4. \A b \in Cell : Pending(b)' => m_pending_tx_buffer'[b].tx = created' - Age(b)'
    <3> SUFFICES ASSUME NEW b \in Cell, Pending(b)'
                 PROVE  m_pending_tx_buffer'[b].tx = created' - Age(b)'
      OBVIOUS
    <3>1. CASE b = m_tx_buffer_idx
      <4>1. m_pending_tx_buffer'[b].tx = created + 1 /\ Age(b)' = 0
        BY <1>4, <1>5, <2>1, <3>1
      <4> QED BY <1>1, <1>4, <4>1
    <3>2. CASE b # m_tx_buffer_idx
      <4>1. m_pending_tx_buffer'[b].tx = created - Age(b)
        BY <1>4, <3>2 DEF OrderInv, CellsInOrder, Pending
      <4>2. Age(b)' = Age(b) + 1 /\ Age(b) \in Nat
        BY <1>8, <3>2
      <4> QED BY <1>1, <1>4, <4>1, <4>2
    <3> QED BY <3>1, <3>2
  <2> QED BY <1>1, <1>7, <2>2, <2>3, <2>4 DEF OrderInv, CellsInOrder
<1>10. /\ Len(r) = n + 1 /\ r[n + 1] = e
       /\ \A i \in 1 .. n : /\ r[i] = q[i]
                            /\ m_pending_tx_buffer'[r[i].bufid] = m_pending_tx_buffer[q[i].bufid]
       /\ m_pending_tx_buffer'[e.bufid].tx = created + 1
       /\ m_pending_tx_buffer'[e.bufid].id = NoTx
  BY <1>1, <1>2, <1>3, <1>4, <1>5
<1>11. \A i \in 1 .. n + 1 : i \in 1 .. n \/ i = n + 1
  BY <1>1
<1>12. QueueInOrder'
  <2> SUFFICES ASSUME NEW i \in 1 .. n + 1, NEW j \in 1 .. n + 1,
                      LaterStage(r[i], r[j]) \/ (r[i].type = r[j].type /\ i < j)
               PROVE  m_pending_tx_buffer'[r[i].bufid].tx < m_pending_tx_buffer'[r[j].bufid].tx
    BY <1>10 DEF QueueInOrder, LaterStage, EventTx
  <2>1. CASE i \in 1 .. n /\ j \in 1 .. n
    BY <1>10, <2>1 DEF OrderInv, QueueInOrder, EventTx
  <2>2. CASE i \in 1 .. n /\ j = n + 1
    BY <1>1, <1>10, <2>2 DEF EventTx
  <2>3. CASE i = n + 1
    BY <1>1, <1>3, <1>10, <2>3 DEF LaterStage
  <2> QED BY <1>11, <2>1, <2>2, <2>3
<1>13. LedgerFollows'
  <2>1. Len(ledger) \in told .. created /\ LedgerInOrder
    BY DEF OrderInv, LedgerFollows
  <2>2. Len(ledger') \in Len(reported') .. created' /\ LedgerInOrder'
    BY <1>1, <1>4, <2>1 DEF LedgerInOrder
  <2>3. ASSUME NEW i \in 1 .. n + 1
        PROVE  LET f == r[i] tx == m_pending_tx_buffer'[f.bufid].tx IN
               /\ f.type = "SUCCESS" => tx <= Len(ledger)
               /\ f.type = "READY_TO_SIGN" => tx > Len(ledger)
               /\ f.type = "SENDING" => tx > Len(ledger) \/ (i = 1 /\ tx = Len(ledger))
    <3>1. CASE i \in 1 .. n
      BY <1>10, <3>1 DEF OrderInv, LedgerFollows, EventTx
    <3>2. CASE i = n + 1
      BY <1>1, <1>3, <1>10, <2>1, <3>2
    <3> QED BY <1>11, <3>1, <3>2
  <2> QED BY <1>4, <1>10, <2>2, <2>3 DEF LedgerFollows, EventTx
<1>14. IdsFollow'
  <2>1. ReportedInOrder'
    BY <1>4 DEF OrderInv, IdsFollow, ReportedInOrder
  <2>2. ASSUME NEW i \in 1 .. n + 1
        PROVE  LET f == r[i] c == m_pending_tx_buffer'[f.bufid] IN
               IF f.type = "SUCCESS"
               THEN c.id = c.tx \/ ("noid" \in PostAnswers /\ c.id = NoTx)
               ELSE c.id = NoTx
    <3>1. CASE i \in 1 .. n
      BY <1>10, <3>1 DEF OrderInv, IdsFollow, EventTx, EventId
    <3>2. CASE i = n + 1
      BY <1>3, <1>10, <3>2
    <3> QED BY <1>11, <3>1, <3>2
  <2> QED BY <1>10, <2>1, <2>2 DEF IdsFollow, EventTx, EventId
<1>15. Payments!Submit
  BY <1>1, <1>4, <1>7 DEF Payments!Submit
<1> QED BY <1>9, <1>12, <1>13, <1>14, <1>15 DEF OrderInv

(* The head is signed and goes to the tail, behind all that were signed.   *)
LEMMA SignKeepsOrder ==
  ASSUME Reliable, PipelineInv, OrderInv, NEW b \in Cell, Sign(b)
  PROVE  OrderInv' /\ UNCHANGED Payments!vars
<1> DEFINE q == m_events_queue
           r == m_events_queue'
           n == Len(m_events_queue)
           t == m_pending_tx_buffer[b].tx
<1>1. /\ q \in Seq(Event) /\ n \in Nat /\ created \in Nat /\ Len(reported) \in Nat
      /\ \A i \in 1 .. n : q[i].bufid \in Cell /\ EventTx(q[i]) \in Int
  BY UnreportedWait DEF OrderInv
<1>2. /\ TypeOK /\ ~QueueFull /\ m_pending_tx_buffer \in [Cell -> SignedTransaction]
      /\ \A c \in Cell : m_pending_tx_buffer[c] \in SignedTransaction
  BY QueueNeverFull DEF PipelineInv, TypeOK, OneEventPerPendingCell
<1>3. HeadIs("READY_TO_SIGN", b) /\ UNCHANGED <<m_tx_buffer_idx, created, ledger, reported>>
      /\ m_pending_tx_buffer' = [m_pending_tx_buffer EXCEPT ![b] = Signed(@)]
      /\ r = Tail(Append(q, Evt("SENDING", b)))
  BY <1>2 DEF Sign, Schedule
<1>4. /\ 1 \in 1 .. n /\ q # << >> /\ Head(q).bufid = b
      /\ q[1].type = "READY_TO_SIGN" /\ q[1].bufid = b
  BY <1>3, HeadIsNext DEF EventType
<1>5. \A c \in Cell : /\ m_pending_tx_buffer'[c].body = m_pending_tx_buffer[c].body
                      /\ m_pending_tx_buffer'[c].tx = m_pending_tx_buffer[c].tx
                      /\ m_pending_tx_buffer'[c].id = m_pending_tx_buffer[c].id
  <2>1. \A c \in SignedTransaction : /\ Signed(c).body = c.body /\ Signed(c).tx = c.tx
                                     /\ Signed(c).id = c.id
    BY DEF SignedTransaction, Signed
  <2> QED BY <1>2, <1>3, <2>1
<1>6. QueueInOrder'
  BY <1>3, <1>5, RotationKeepsOrder DEF EventType
<1>7. CellsInOrder'
  BY <1>3, <1>5 DEF OrderInv, CellsInOrder, Pending, Age
<1>8. /\ Len(r) = n /\ r[n].type = "SENDING" /\ r[n].bufid = b
      /\ \A i \in 1 .. n - 1 : r[i] = q[i + 1] /\ i + 1 \in 1 .. n /\ i + 1 # 1
      /\ \A i \in 1 .. n : i \in 1 .. n - 1 \/ i = n
  <2>1. /\ Len(r) = n /\ r[n].type = "SENDING" /\ r[n].bufid = b
        /\ \A i \in 1 .. n - 1 : r[i] = q[i + 1]
    BY <1>1, <1>3, <1>4, HeadMovesToTail DEF EventType
  <2> QED BY <1>1, <2>1
<1>9. LedgerFollows'
  <2>1. EventTx(q[1]) > Len(ledger) /\ Len(ledger) \in Len(reported) .. created /\ LedgerInOrder
    BY <1>4 DEF OrderInv, LedgerFollows
  <2>2. ASSUME NEW i \in 1 .. n
        PROVE  LET f == r[i] tx == m_pending_tx_buffer'[f.bufid].tx IN
               /\ f.type = "SUCCESS" => tx <= Len(ledger)
               /\ f.type = "READY_TO_SIGN" => tx > Len(ledger)
               /\ f.type = "SENDING" => tx > Len(ledger) \/ (i = 1 /\ tx = Len(ledger))
    <3>1. CASE i = n
      BY <1>4, <1>5, <1>8, <2>1, <3>1 DEF EventTx
    <3>2. CASE i \in 1 .. n - 1
      <4>1. m_pending_tx_buffer'[r[i].bufid].tx = EventTx(q[i + 1])
        BY <1>1, <1>5, <1>8, <3>2 DEF EventTx
      <4> QED BY <1>8, <3>2, <4>1 DEF OrderInv, LedgerFollows
    <3> QED BY <1>8, <3>1, <3>2
  <2>3. Len(ledger') \in Len(reported') .. created' /\ LedgerInOrder'
    BY <1>3, <2>1 DEF LedgerInOrder
  <2> QED BY <1>3, <1>8, <2>2, <2>3 DEF LedgerFollows, EventTx
<1>10. IdsFollow'
  <2>1. ReportedInOrder'
    BY <1>3 DEF OrderInv, IdsFollow, ReportedInOrder
  <2>2. ASSUME NEW i \in 1 .. n
        PROVE  LET f == r[i] c == m_pending_tx_buffer'[f.bufid] IN
               IF f.type = "SUCCESS"
               THEN c.id = c.tx \/ ("noid" \in PostAnswers /\ c.id = NoTx)
               ELSE c.id = NoTx
    <3>1. CASE i = n
      BY <1>4, <1>5, <1>8, <3>1 DEF OrderInv, IdsFollow, EventId
    <3>2. CASE i \in 1 .. n - 1
      <4>1. /\ m_pending_tx_buffer'[r[i].bufid].tx = EventTx(q[i + 1])
            /\ m_pending_tx_buffer'[r[i].bufid].id = EventId(q[i + 1])
        BY <1>1, <1>5, <1>8, <3>2 DEF EventTx, EventId
      <4> QED BY <1>8, <3>2, <4>1 DEF OrderInv, IdsFollow
    <3> QED BY <1>8, <3>1, <3>2
  <2> QED BY <1>8, <2>1, <2>2 DEF IdsFollow, EventTx, EventId
<1> QED BY <1>3, <1>6, <1>7, <1>9, <1>10 DEF OrderInv, Payments!vars

(* The node appends the transaction that is posted, unless it was there:   *)
(* then it is its last.                                                    *)
LEMMA AcceptedIsNext ==
  ASSUME PipelineInv, OrderInv, NEW b \in Cell, HeadIs("SENDING", b), NodeAccepts(b)
  PROVE  /\ Len(ledger) \in Nat /\ Len(ledger) <= m_pending_tx_buffer[b].tx
         /\ Len(ledger') = m_pending_tx_buffer[b].tx
         /\ m_pending_tx_buffer[b].tx \in Len(reported) + 1 .. created
         /\ LedgerInOrder'
         /\ Len(ledger') = Len(ledger) \/ (Len(ledger') = Len(ledger) + 1 /\ Len(ledger) < created)
<1> DEFINE t == m_pending_tx_buffer[b].tx
<1>1. /\ ledger \in Seq(Tx) /\ Len(ledger) \in Nat /\ LedgerInOrder
      /\ created \in Nat /\ Len(reported) \in Nat
  BY UnreportedWait DEF OrderInv, LedgerFollows, PipelineInv, TypeOK
<1>2. t \in Len(reported) + 1 .. created /\ t \in {Len(ledger), Len(ledger) + 1}
  BY HeadIsNext DEF EventType
<1>3. ledger' = IF Known(t) THEN ledger ELSE Append(ledger, t)
  BY DEF NodeAccepts
<1>4. Known(t) <=> t = Len(ledger)
  BY <1>1, <1>2 DEF Known, LedgerInOrder
<1> HIDE DEF t
<1>5. CASE t = Len(ledger)
  BY <1>1, <1>2, <1>3, <1>4, <1>5 DEF LedgerInOrder, t
<1>6. CASE t = Len(ledger) + 1
  <2>1. ledger' = Append(ledger, t) /\ t # Len(ledger)
    BY <1>1, <1>3, <1>4, <1>6
  <2>2. /\ Len(ledger') = Len(ledger) + 1 /\ ledger'[Len(ledger) + 1] = t
        /\ \A i \in 1 .. Len(ledger) : ledger'[i] = ledger[i]
    BY <1>1, <2>1
  <2>3. LedgerInOrder'
    BY <1>1, <1>6, <2>2 DEF LedgerInOrder
  <2> QED BY <1>1, <1>2, <1>6, <2>2, <2>3 DEF t
<1> QED BY <1>2, <1>5, <1>6

LEMMA LostKeepsOrder ==
  ASSUME PipelineInv, OrderInv, NEW b \in Cell, SendingAnswerLost(b)
  PROVE  OrderInv' /\ [Payments!Execute]_Payments!vars
<1> DEFINE q == m_events_queue
           t == m_pending_tx_buffer[b].tx
<1>1. /\ HeadIs("SENDING", b) /\ NodeAccepts(b)
      /\ UNCHANGED <<m_pending_tx_buffer, m_tx_buffer_idx, m_events_queue, created, reported>>
  BY DEF SendingAnswerLost
<1>2. /\ Len(ledger) \in Nat /\ Len(ledger) <= t /\ Len(ledger') = t
      /\ t \in Len(reported) + 1 .. created /\ LedgerInOrder'
      /\ Len(ledger') = Len(ledger) \/ (Len(ledger') = Len(ledger) + 1 /\ Len(ledger) < created)
  BY <1>1, AcceptedIsNext
<1>3. /\ 1 \in 1 .. Len(q) /\ q[1].type = "SENDING" /\ q[1].bufid = b /\ EventTx(q[1]) = t
  BY <1>1, HeadIsNext DEF EventType, EventTx
<1>4. /\ created \in Nat /\ Len(reported) \in Nat /\ Len(q) \in Nat
      /\ \A i \in 1 .. Len(q) : EventTx(q[i]) \in Int /\ (i # 1 => 1 < i)
  BY UnreportedWait DEF OrderInv
<1> HIDE DEF t
<1>5. ASSUME NEW i \in 1 .. Len(q)
      PROVE  /\ q[i].type = "SUCCESS" => EventTx(q[i]) <= t
             /\ q[i].type = "READY_TO_SIGN" => EventTx(q[i]) > t
             /\ q[i].type = "SENDING" => EventTx(q[i]) > t \/ (i = 1 /\ EventTx(q[i]) = t)
  <2>1. q[i].type = "SUCCESS" => EventTx(q[i]) <= t
    BY <1>2, <1>4 DEF OrderInv, LedgerFollows, t
  <2>2. q[i].type = "READY_TO_SIGN" => EventTx(q[i]) > t
    BY <1>3, <1>4 DEF OrderInv, QueueInOrder, LaterStage
  <2>3. q[i].type = "SENDING" => EventTx(q[i]) > t \/ (i = 1 /\ EventTx(q[i]) = t)
    BY <1>3, <1>4 DEF OrderInv, QueueInOrder
  <2> QED BY <2>1, <2>2, <2>3
<1>6. LedgerFollows'
  BY <1>1, <1>2, <1>4, <1>5 DEF LedgerFollows, EventTx
<1>7. CellsInOrder' /\ QueueInOrder' /\ IdsFollow'
  BY <1>1 DEF OrderInv, CellsInOrder, QueueInOrder, IdsFollow, ReportedInOrder, Pending, Age,
              EventTx, EventId
<1>8. [Payments!Execute]_Payments!vars
  BY <1>1, <1>2 DEF Payments!Execute, Payments!vars
<1> QED BY <1>6, <1>7, <1>8 DEF OrderInv

(* The head is posted and goes to the tail, behind all that were executed. *)
LEMMA PostKeepsOrder ==
  ASSUME Reliable, PipelineInv, OrderInv, NEW b \in Cell, Post(b, FALSE)
  PROVE  OrderInv' /\ [Payments!Execute]_Payments!vars
<1> DEFINE q == m_events_queue
           r == m_events_queue'
           n == Len(m_events_queue)
           t == m_pending_tx_buffer[b].tx
<1>1. /\ q \in Seq(Event) /\ n \in Nat /\ created \in Nat /\ Len(reported) \in Nat
      /\ \A i \in 1 .. n : q[i].bufid \in Cell /\ EventTx(q[i]) \in Int
  BY UnreportedWait DEF OrderInv
<1>2. /\ TypeOK /\ ~QueueFull /\ OneEventPerPendingCell
      /\ m_pending_tx_buffer \in [Cell -> SignedTransaction]
      /\ \A c \in Cell : m_pending_tx_buffer[c] \in SignedTransaction
  BY QueueNeverFull DEF PipelineInv, TypeOK, OneEventPerPendingCell
<1>3. /\ HeadIs("SENDING", b) /\ NodeAccepts(b)
      /\ UNCHANGED <<m_tx_buffer_idx, created, reported>>
      /\ r = Tail(Append(q, Evt("SUCCESS", b)))
  BY <1>2 DEF Post, Schedule
<1>4. /\ 1 \in 1 .. n /\ q # << >> /\ Head(q).bufid = b
      /\ q[1].type = "SENDING" /\ q[1].bufid = b /\ EventTx(q[1]) = t
  BY <1>3, HeadIsNext DEF EventType, EventTx
<1>5. /\ \A c \in Cell : /\ m_pending_tx_buffer'[c].body = m_pending_tx_buffer[c].body
                         /\ m_pending_tx_buffer'[c].tx = m_pending_tx_buffer[c].tx
      /\ \A c \in Cell \ {b} : m_pending_tx_buffer'[c].id = m_pending_tx_buffer[c].id
      /\ \/ m_pending_tx_buffer'[b].id = t
         \/ "noid" \in PostAnswers /\ m_pending_tx_buffer'[b].id = m_pending_tx_buffer[b].id
  <2>1. \A c \in SignedTransaction : /\ Identified(c).body = c.body /\ Identified(c).tx = c.tx
                                     /\ Identified(c).id = c.tx
    BY DEF SignedTransaction, Identified
  <2>2. CASE m_pending_tx_buffer' = [m_pending_tx_buffer EXCEPT ![b] = Identified(@)]
    BY <1>2, <2>1, <2>2
  <2>3. CASE "noid" \in PostAnswers /\ m_pending_tx_buffer' = m_pending_tx_buffer
    BY <2>3
  <2> QED BY <2>2, <2>3 DEF Post, Reliable
<1>6. QueueInOrder'
  BY <1>3, <1>5, RotationKeepsOrder DEF EventType
<1>7. CellsInOrder'
  BY <1>3, <1>5 DEF OrderInv, CellsInOrder, Pending, Age
<1>8. /\ Len(r) = n /\ r[n].type = "SUCCESS" /\ r[n].bufid = b
      /\ \A i \in 1 .. n - 1 : r[i] = q[i + 1] /\ i + 1 \in 1 .. n /\ 1 < i + 1 /\ i + 1 # 1
      /\ \A i \in 1 .. n : i \in 1 .. n - 1 \/ i = n
  <2>1. /\ Len(r) = n /\ r[n].type = "SUCCESS" /\ r[n].bufid = b
        /\ \A i \in 1 .. n - 1 : r[i] = q[i + 1]
    BY <1>1, <1>3, <1>4, HeadMovesToTail DEF EventType
  <2> QED BY <1>1, <2>1
<1>9. /\ Len(ledger) \in Nat /\ Len(ledger) <= t /\ Len(ledger') = t
      /\ t \in Len(reported) + 1 .. created /\ LedgerInOrder'
      /\ Len(ledger') = Len(ledger) \/ (Len(ledger') = Len(ledger) + 1 /\ Len(ledger) < created)
  BY <1>3, AcceptedIsNext
<1> HIDE DEF t
<1>10. m_pending_tx_buffer'[b].tx = t
  BY <1>5 DEF t
<1>11. LedgerFollows'
  <2>1. ASSUME NEW i \in 1 .. n
        PROVE  LET f == r[i] tx == m_pending_tx_buffer'[f.bufid].tx IN
               /\ f.type = "SUCCESS" => tx <= t
               /\ f.type = "READY_TO_SIGN" => tx > t
               /\ f.type = "SENDING" => tx > t \/ (i = 1 /\ tx = t)
    <3>1. CASE i = n
      BY <1>8, <1>9, <1>10, <3>1
    <3>2. CASE i \in 1 .. n - 1
      <4>1. m_pending_tx_buffer'[r[i].bufid].tx = EventTx(q[i + 1])
        BY <1>1, <1>5, <1>8, <3>2 DEF EventTx
      <4>2. q[i + 1].type = "SUCCESS" => EventTx(q[i + 1]) <= Len(ledger)
        BY <1>8, <3>2 DEF OrderInv, LedgerFollows
      <4>3. q[i + 1].type \in {"SENDING", "READY_TO_SIGN"} => EventTx(q[i + 1]) > t
        <5>1. i + 1 \in 1 .. n /\ 1 < i + 1 /\ EventTx(q[i + 1]) \in Int
          BY <1>1, <1>8, <3>2
        <5>2. q[i + 1].type = "SENDING" => EventTx(q[1]) < EventTx(q[i + 1])
          BY <1>4, <5>1 DEF OrderInv, QueueInOrder
        <5>3. q[i + 1].type = "READY_TO_SIGN" => EventTx(q[1]) < EventTx(q[i + 1])
          BY <1>4, <5>1 DEF OrderInv, QueueInOrder, LaterStage
        <5> QED BY <1>1, <1>4, <1>9, <5>1, <5>2, <5>3
      <4> QED BY <1>1, <1>8, <1>9, <3>2, <4>1, <4>2, <4>3
    <3> QED BY <1>8, <3>1, <3>2
  <2>2. Len(ledger') \in Len(reported') .. created'
    BY <1>1, <1>3, <1>9
  <2> QED BY <1>8, <1>9, <2>1, <2>2 DEF LedgerFollows, EventTx
<1>12. IdsFollow'
  <2>1. ReportedInOrder'
    BY <1>3 DEF OrderInv, IdsFollow, ReportedInOrder
  <2>2. m_pending_tx_buffer[b].id = NoTx
    BY <1>4 DEF OrderInv, IdsFollow, EventId
  <2>3. ASSUME NEW i \in 1 .. n
        PROVE  LET f == r[i] c == m_pending_tx_buffer'[f.bufid] IN
               IF f.type = "SUCCESS"
               THEN c.id = c.tx \/ ("noid" \in PostAnswers /\ c.id = NoTx)
               ELSE c.id = NoTx
    <3>1. CASE i = n
      BY <1>5, <1>8, <1>10, <2>2, <3>1
    <3>2. CASE i \in 1 .. n - 1
      <4>1. q[i + 1].bufid # b
        BY <1>2, <1>4, <1>8, <3>2 DEF OneEventPerPendingCell, UniqueEvents
      <4>2. /\ m_pending_tx_buffer'[r[i].bufid].tx = EventTx(q[i + 1])
            /\ m_pending_tx_buffer'[r[i].bufid].id = EventId(q[i + 1])
        BY <1>1, <1>5, <1>8, <3>2, <4>1 DEF EventTx, EventId
      <4> QED BY <1>8, <3>2, <4>2 DEF OrderInv, IdsFollow
    <3> QED BY <1>8, <3>1, <3>2
  <2> QED BY <1>8, <2>1, <2>3 DEF IdsFollow, EventTx, EventId
<1>13. [Payments!Execute]_Payments!vars
  BY <1>3, <1>9 DEF Payments!Execute, Payments!vars
<1> QED BY <1>6, <1>7, <1>11, <1>12, <1>13 DEF OrderInv

(* The head, the oldest of all, is reported and leaves. *)
LEMMA ConfirmKeepsOrder ==
  ASSUME PipelineInv, TypeOK', OrderInv, NEW b \in Cell, Confirm(b)
  PROVE  OrderInv' /\ Payments!Confirm
<1> DEFINE q == m_events_queue
           r == m_events_queue'
           n == Len(m_events_queue)
           told == Len(reported)
           c == m_pending_tx_buffer[b]
<1>1. /\ q \in Seq(Event) /\ n \in Nat /\ created \in Nat /\ told \in Nat /\ told <= created
      /\ \A i \in 1 .. n : q[i].bufid \in Cell /\ EventTx(q[i]) \in Int
  BY UnreportedWait DEF OrderInv
<1>2. /\ m_tx_buffer_idx \in Cell /\ OneEventPerPendingCell
      /\ m_pending_tx_buffer \in [Cell -> SignedTransaction]
      /\ reported \in Seq([tx : Tx \cup {NoTx}, id : Tx \cup {NoTx}])
      /\ Len(ledger) \in Nat
  BY DEF PipelineInv, TypeOK
<1>3. /\ HeadIs("SUCCESS", b) /\ UNCHANGED <<m_tx_buffer_idx, created, ledger>>
      /\ reported' = Append(reported, [tx |-> c.tx, id |-> c.id])
      /\ r = Tail(q) /\ m_pending_tx_buffer' = [m_pending_tx_buffer EXCEPT ![b] = Zeroed]
      /\ Pending(b)
  BY DEF Confirm
<1>4. /\ 1 \in 1 .. n /\ q # << >> /\ q[1].type = "SUCCESS" /\ q[1].bufid = b
      /\ c.tx = told + 1 /\ c.tx <= created /\ EventTx(q[1]) = c.tx
  BY <1>3, HeadIsNext DEF EventType, EventTx
<1>5. /\ \A d \in Cell \ {b} : m_pending_tx_buffer'[d] = m_pending_tx_buffer[d]
      /\ m_pending_tx_buffer'[b].body = "zero"
  BY <1>2, <1>3 DEF Zeroed
<1>6. /\ Len(reported') = told + 1 /\ reported'[told + 1] = [tx |-> c.tx, id |-> c.id]
      /\ \A i \in 1 .. told : reported'[i] = reported[i]
  BY <1>2, <1>3
<1>7. /\ Len(r) = n - 1 /\ n - 1 \in Nat
      /\ \A i \in 1 .. n - 1 : r[i] = q[i + 1] /\ i + 1 \in 1 .. n /\ 1 < i + 1
  BY <1>1, <1>3, <1>4
<1>8. \A i \in 1 .. n - 1 :
        m_pending_tx_buffer'[r[i].bufid] = m_pending_tx_buffer[q[i + 1].bufid]
  <2> SUFFICES ASSUME NEW i \in 1 .. n - 1
               PROVE  m_pending_tx_buffer'[r[i].bufid] = m_pending_tx_buffer[q[i + 1].bufid]
    OBVIOUS
  <2>1. q[i + 1].bufid # b
    BY <1>2, <1>4, <1>7 DEF OneEventPerPendingCell, UniqueEvents
  <2> QED BY <1>1, <1>5, <1>7, <2>1
<1> HIDE DEF c
<1>9. c.tx <= Len(ledger)
  BY <1>4 DEF OrderInv, LedgerFollows
<1>10. c.id = told + 1 \/ ("noid" \in PostAnswers /\ c.id = NoTx)
  BY <1>4 DEF OrderInv, IdsFollow, EventId, c
<1>11. CellsInOrder'
  <2>1. Age(b) = created - told - 1
    <3>1. c.tx = created - Age(b)
      BY <1>3 DEF OrderInv, CellsInOrder, c
    <3>2. Age(b) \in Int
      BY <1>2 DEF Age, Cell
    <3>3. told + 1 = created - Age(b)
      BY <1>4, <3>1
    <3> QED BY <1>1, <3>2, <3>3
  <2>2. \A d \in Cell : Age(d)' = Age(d) /\ Age(d) \in Int /\ (Age(d) = Age(b) <=> d = b)
    BY <1>2, <1>3 DEF Age, Cell
  <2>3. created' - Len(reported') = created - told - 1
    BY <1>1, <1>3, <1>6
  <2>4. \A d \in Cell : Pending(d)' <=> Age(d)' < created' - Len(reported')
    <3> SUFFICES ASSUME NEW d \in Cell
                 PROVE  Pending(d)' <=> Age(d)' < created' - Len(reported')
      OBVIOUS
    <3>1. CASE d = b
      <4>1. ~Pending(d)'
        BY <1>5, <3>1 DEF Pending
      <4> QED BY <1>1, <2>1, <2>2, <2>3, <3>1, <4>1
    <3>2. CASE d # b
      <4>1. Pending(d)' <=> Age(d) < created - told
        BY <1>5, <3>2 DEF OrderInv, CellsInOrder, Pending
      <4> QED BY <1>1, <2>1, <2>2, <2>3, <3>2, <4>1
    <3> QED BY <3>1, <3>2
  <2>5. \A d \in Cell : Pending(d)' => m_pending_tx_buffer'[d].tx = created' - Age(d)'
    <3> SUFFICES ASSUME NEW d \in Cell, Pending(d)'
                 PROVE  m_pending_tx_buffer'[d].tx = created' - Age(d)'
      OBVIOUS
    <3>1. d # b
      BY <1>5 DEF Pending
    <3>2. m_pending_tx_buffer'[d].tx = created - Age(d)
      BY <1>5, <3>1 DEF OrderInv, CellsInOrder, Pending
    <3> QED BY <1>3, <2>2, <3>2
  <2>6. created - told \in 0 .. PENDING_TX_COUNT
    BY DEF OrderInv, CellsInOrder
  <2>7. created' - Len(reported') \in 0 .. PENDING_TX_COUNT
    BY <1>1, <1>4, <2>3, <2>6
  <2> QED BY <2>4, <2>5, <2>7 DEF CellsInOrder
<1>12. QueueInOrder'
  <2> SUFFICES ASSUME NEW i \in 1 .. n - 1, NEW j \in 1 .. n - 1,
                      LaterStage(r[i], r[j]) \/ (r[i].type = r[j].type /\ i < j)
               PROVE  m_pending_tx_buffer'[r[i].bufid].tx < m_pending_tx_buffer'[r[j].bufid].tx
    BY <1>7 DEF QueueInOrder, LaterStage, EventTx
  <2>1. i + 1 \in 1 .. n /\ j + 1 \in 1 .. n /\ (i < j => i + 1 < j + 1)
    BY <1>7
  <2>2. EventTx(q[i + 1]) < EventTx(q[j + 1])
    BY <1>7, <2>1 DEF OrderInv, QueueInOrder
  <2> QED BY <1>8, <2>2 DEF EventTx
<1>13. LedgerFollows'
  <2>1. Len(ledger) \in told .. created /\ LedgerInOrder
    BY DEF OrderInv, LedgerFollows
  <2>2. Len(ledger') \in Len(reported') .. created' /\ LedgerInOrder'
    BY <1>1, <1>2, <1>3, <1>4, <1>6, <1>9, <2>1 DEF LedgerInOrder
  <2>3. ASSUME NEW i \in 1 .. n - 1
        PROVE  LET f == r[i] tx == m_pending_tx_buffer'[f.bufid].tx IN
               /\ f.type = "SUCCESS" => tx <= Len(ledger)
               /\ f.type = "READY_TO_SIGN" => tx > Len(ledger)
               /\ f.type = "SENDING" => tx > Len(ledger)
    <3>1. m_pending_tx_buffer'[r[i].bufid].tx = EventTx(q[i + 1]) /\ i + 1 \in 1 .. n /\ i + 1 # 1
      BY <1>7, <1>8 DEF EventTx
    <3> QED BY <1>7, <3>1 DEF OrderInv, LedgerFollows
  <2> QED BY <1>3, <1>7, <2>2, <2>3 DEF LedgerFollows, EventTx
<1>14. IdsFollow'
  <2>1. ReportedInOrder'
    <3> SUFFICES ASSUME NEW i \in 1 .. told + 1
                 PROVE  /\ reported'[i].tx = i
                        /\ reported'[i].id = i \/ ("noid" \in PostAnswers /\ reported'[i].id = NoTx)
      BY <1>6 DEF ReportedInOrder
    <3>1. CASE i = told + 1
      BY <1>4, <1>6, <1>10, <3>1
    <3>2. CASE i \in 1 .. told
      BY <1>6, <3>2 DEF OrderInv, IdsFollow, ReportedInOrder
    <3> QED BY <1>1, <3>1, <3>2
  <2>2. ASSUME NEW i \in 1 .. n - 1
        PROVE  LET f == r[i] d == m_pending_tx_buffer'[f.bufid] IN
               IF f.type = "SUCCESS"
               THEN d.id = d.tx \/ ("noid" \in PostAnswers /\ d.id = NoTx)
               ELSE d.id = NoTx
    <3>1. /\ m_pending_tx_buffer'[r[i].bufid].tx = EventTx(q[i + 1])
          /\ m_pending_tx_buffer'[r[i].bufid].id = EventId(q[i + 1])
      BY <1>8 DEF EventTx, EventId
    <3> QED BY <1>7, <3>1 DEF OrderInv, IdsFollow
  <2> QED BY <1>7, <2>1, <2>2 DEF IdsFollow, EventTx, EventId
<1>15. Payments!Confirm
  BY <1>1, <1>2, <1>3, <1>4, <1>6, <1>9 DEF Payments!Confirm
<1> QED BY <1>11, <1>12, <1>13, <1>14, <1>15 DEF OrderInv

(* Every step keeps the order and is a step of the service or none of its. *)
LEMMA OrderStep ==
  ASSUME Reliable, PipelineInv, TypeOK', OrderInv, [Next]_vars
  PROVE  OrderInv' /\ [Payments!Next]_Payments!vars
<1>1. ~ParamsLoadFails /\ ~ApplNullParams /\ ~ApplEncodeFails
  BY DEF Reliable, ParamsLoadFails, ApplNullParams, ApplEncodeFails
<1>2. CASE Enqueue
  BY <1>2, EnqueueKeepsOrder DEF Payments!Next
<1>3. ASSUME NEW b \in Cell, Sign(b) PROVE OrderInv' /\ UNCHANGED Payments!vars
  BY <1>3, SignKeepsOrder
<1>4. ASSUME NEW b \in Cell, SendingDone(b) \/ SendingAnswerLost(b)
      PROVE  OrderInv' /\ [Payments!Next]_Payments!vars
  BY <1>4, PostKeepsOrder, LostKeepsOrder DEF SendingDone, Payments!Next
<1>5. ASSUME NEW b \in Cell PROVE ~SendingHandlerFails(b)
  BY DEF Reliable, SendingHandlerFails
<1>6. ASSUME NEW b \in Cell, Confirm(b)
      PROVE  OrderInv' /\ [Payments!Next]_Payments!vars
  BY <1>6, ConfirmKeepsOrder DEF Payments!Next
<1>7. CASE UNCHANGED <<m_pending_tx_buffer, m_tx_buffer_idx, m_events_queue, created,
                       ledger, reported>>
  BY <1>7 DEF OrderInv, CellsInOrder, QueueInOrder, LedgerFollows, LedgerInOrder, IdsFollow,
              ReportedInOrder, Pending, Age, EventTx, EventId, Payments!vars
<1>8. ASSUME NEW b \in Cell, ConfirmFreedCell(b)
      PROVE  OrderInv' /\ [Payments!Next]_Payments!vars
  BY <1>7, <1>8 DEF ConfirmFreedCell
<1>9. ASSUME NEW b \in Cell, SendingRefused(b)
      PROVE  OrderInv' /\ [Payments!Next]_Payments!vars
  BY <1>7, <1>9 DEF SendingRefused
<1>10. CASE NothingToDo \/ UNCHANGED vars
  BY <1>7, <1>10 DEF NothingToDo, vars
<1> QED BY <1>1, <1>2, <1>3, <1>4, <1>5, <1>6, <1>8, <1>9, <1>10
        DEF Next, transaction_pay, transaction_appl, vertices_event_process
-----------------------------------------------------------------------------
LEMMA InitialOrder ==
  ASSUME Init
  PROVE  OrderInv /\ Payments!Init
<1>1. m_events_queue = << >> /\ ledger = << >> /\ reported = << >> /\ created = 0
      /\ m_tx_buffer_idx = 0 /\ \A b \in Cell : ~Pending(b)
  BY DEF Init, Zeroed, Pending
<1>2. Len(m_events_queue) = 0 /\ Len(ledger) = 0 /\ Len(reported) = 0
  BY <1>1
<1>3. \A b \in Cell : Age(b) \in Nat
  BY <1>1 DEF Age, Cell
<1>4. CellsInOrder
  BY <1>1, <1>2, <1>3 DEF CellsInOrder
<1>5. QueueInOrder /\ LedgerFollows /\ IdsFollow
  BY <1>1, <1>2 DEF QueueInOrder, LedgerFollows, LedgerInOrder, IdsFollow, ReportedInOrder
<1>6. Payments!Init
  BY <1>1, <1>2 DEF Payments!Init
<1> QED BY <1>4, <1>5, <1>6 DEF OrderInv

(* The order holds in every behaviour of the reliable environment. *)
LEMMA OrderIsKept ==
  ASSUME Reliable
  PROVE  Spec => /\ [](PipelineInv /\ OrderInv)
                 /\ Payments!Init /\ [][Payments!Next]_Payments!vars
<1>1. Init => OrderInv /\ Payments!Init
  BY InitialOrder
<1>2. PipelineInv /\ TypeOK' /\ OrderInv /\ [Next]_vars
        => OrderInv' /\ [Payments!Next]_Payments!vars
  BY OrderStep
<1>3. PipelineInv => TypeOK
  BY DEF PipelineInv
<1> QED BY <1>1, <1>2, <1>3, InvIsKept, PTL DEF Spec

(* The node executes the transactions in the order the SDK accepted them.  *)
THEOREM ExecutedInOrder ==
  ASSUME Reliable
  PROVE  Spec => []LedgerInOrder
<1>1. OrderInv => LedgerInOrder
  BY DEF OrderInv, LedgerFollows
<1> QED BY <1>1, OrderIsKept, PTL

(* They are reported in that order, each under its own identifier. *)
THEOREM ReportsInOrder ==
  ASSUME Reliable
  PROVE  Spec => []ReportedInOrder
<1>1. OrderInv => ReportedInOrder
  BY DEF OrderInv, IdsFollow
<1> QED BY <1>1, OrderIsKept, PTL

(* transaction_pay answers VTC_ERROR_NO_MEM only when every cell is taken. *)
THEOREM RefusedOnlyWhenFull ==
  ASSUME Reliable
  PROVE  Spec => []NoMemOnlyWhenAllPending
<1>1. ASSUME PipelineInv, OrderInv, Pending(m_tx_buffer_idx), NEW b \in Cell
      PROVE  Pending(b)
  <2>1. /\ m_tx_buffer_idx \in Cell /\ created \in Nat /\ Len(reported) \in Nat
    BY <1>1 DEF PipelineInv, TypeOK
  <2>2. Age(m_tx_buffer_idx) = PENDING_TX_COUNT - 1
    BY <2>1 DEF Age, Cell
  <2>3. Age(b) \in 0 .. PENDING_TX_COUNT - 1
    BY <2>1 DEF Age, Cell
  <2>4. Age(m_tx_buffer_idx) < created - Len(reported)
    BY <1>1, <2>1 DEF OrderInv, CellsInOrder
  <2>5. Age(b) < created - Len(reported)
    BY <2>1, <2>2, <2>3, <2>4
  <2> QED BY <1>1, <2>5 DEF OrderInv, CellsInOrder
<1>2. PipelineInv /\ OrderInv => NoMemOnlyWhenAllPending
  BY <1>1 DEF NoMemOnlyWhenAllPending
<1> QED BY <1>2, OrderIsKept, PTL

(* The pipeline implements the payment service: whatever answers are lost, *)
(* without identifier or refusals, no transaction is executed twice or     *)
(* before the SDK accepted it, none is reported before it was executed,    *)
(* and no more than PENDING_TX_COUNT are on their way.                     *)
THEOREM PipelineImplementsPayments ==
  ASSUME Reliable
  PROVE  Spec => KeepsToPayments
BY OrderIsKept, PTL DEF KeepsToPayments, Payments!Spec
=============================================================================
