-------------------------- MODULE EventQueueProofs --------------------------
(***************************************************************************)
(* For a ring of any size and any events.  In one thread: the indexes stay *)
(* in the ring, the event being processed stays at the head, and the ring  *)
(* implements the FIFO of VTC_EVENTS_COUNT - 1 events.  In two threads,    *)
(* both of which schedule and one of which processes: the same, and no     *)
(* event is seen half written, out of order or lost, as long as no two     *)
(* calls of vertices_event_schedule overlapped.                            *)
(***************************************************************************)
EXTENDS EventQueue, EventThreads, TLAPS

USE CountAssumption

(* What the two remainders of the code compute on indexes of the ring *)
LEMMA MaskedNext ==
  ASSUME NEW i \in Index
  PROVE  /\ Masked(i + 1) = IF i + 1 = VTC_EVENTS_COUNT THEN 0 ELSE i + 1
         /\ Masked(i + 1) \in Index
BY DEF Masked, Index

LEMMA MaskedDifference ==
  ASSUME NEW w \in Index, NEW r \in Index
  PROVE  /\ Masked(w - r) = IF r <= w THEN w - r ELSE w - r + VTC_EVENTS_COUNT
         /\ Masked(w - r) \in Index
         /\ Masked(w - r) = 0 <=> w = r
<1>1. w - r \in Int /\ -VTC_EVENTS_COUNT < w - r /\ w - r < VTC_EVENTS_COUNT
  BY DEF Index
<1>2. \A n \in Int : -VTC_EVENTS_COUNT < n /\ n < VTC_EVENTS_COUNT
        => n % VTC_EVENTS_COUNT = IF n >= 0 THEN n ELSE n + VTC_EVENTS_COUNT
  BY SMT
<1> QED BY <1>1, <1>2 DEF Masked, Index

(* A position of a waiting event, counted from rd_index *)
LEMMA MaskedPosition ==
  ASSUME NEW r \in Index, NEW i \in 1 .. VTC_EVENTS_COUNT
  PROVE  /\ Masked(r + i - 1) = IF r + i - 1 < VTC_EVENTS_COUNT
                                THEN r + i - 1 ELSE r + i - 1 - VTC_EVENTS_COUNT
         /\ Masked(r + i - 1) \in Index
<1>1. r + i - 1 \in Nat /\ r + i - 1 < 2 * VTC_EVENTS_COUNT
  BY DEF Index
<1>2. \A n \in Nat : n < 2 * VTC_EVENTS_COUNT
        => n % VTC_EVENTS_COUNT = IF n < VTC_EVENTS_COUNT THEN n ELSE n - VTC_EVENTS_COUNT
  BY SMT
<1> QED BY <1>1, <1>2 DEF Masked, Index
-----------------------------------------------------------------------------
(* The events that wait in a ring c between the indexes r and w, and what  *)
(* becomes of them when a cell is stored or an index moves.                *)
WaitingIn(w, r, c) == [i \in 1 .. Masked(w - r) |-> c[Masked(r + i - 1)]]

LEMMA WaitingIsSequence ==
  ASSUME NEW S, NEW w \in Index, NEW r \in Index, NEW c \in [Index -> S]
  PROVE  /\ WaitingIn(w, r, c) \in Seq(S)
         /\ Len(WaitingIn(w, r, c)) = Masked(w - r)
         /\ Masked(w - r) \in 0 .. VTC_EVENTS_COUNT - 1
         /\ Masked(w - r) # 0 <=> w # r
         /\ w # r => WaitingIn(w, r, c)[1] = c[r]
<1> DEFINE n == Masked(w - r)
<1>1. n \in 0 .. VTC_EVENTS_COUNT - 1 /\ (n # 0 <=> w # r)
  BY MaskedDifference DEF Index
<1> HIDE DEF n
<1>2. \A i \in 1 .. n : c[Masked(r + i - 1)] \in S
  BY <1>1, MaskedPosition
<1>3. WaitingIn(w, r, c) \in [1 .. n -> S]
  BY <1>2 DEF WaitingIn, n
<1>4. WaitingIn(w, r, c) \in Seq(S) /\ Len(WaitingIn(w, r, c)) = n
  BY <1>1, <1>3
<1>5. ASSUME w # r PROVE WaitingIn(w, r, c)[1] = c[r]
  <2>1. 1 \in 1 .. n /\ 1 \in 1 .. VTC_EVENTS_COUNT
    BY <1>1, <1>5
  <2>2. Masked(r + 1 - 1) = IF r + 1 - 1 < VTC_EVENTS_COUNT
                            THEN r + 1 - 1 ELSE r + 1 - 1 - VTC_EVENTS_COUNT
    BY <2>1, MaskedPosition
  <2>3. Masked(r + 1 - 1) = r
    BY <2>2 DEF Index
  <2> QED BY <2>1, <2>3 DEF WaitingIn, n
<1> QED BY <1>1, <1>4, <1>5 DEF n

(* The cell at wr_index is not one of them. *)
LEMMA FreeCellIsUnseen ==
  ASSUME NEW w \in Index, NEW r \in Index, NEW c, NEW d,
         \A i \in Index \ {w} : d[i] = c[i]
  PROVE  WaitingIn(w, r, d) = WaitingIn(w, r, c)
<1> DEFINE n == Masked(w - r)
<1>1. n = (IF r <= w THEN w - r ELSE w - r + VTC_EVENTS_COUNT) /\ n \in Nat
      /\ n < VTC_EVENTS_COUNT
  BY MaskedDifference DEF Index
<1> HIDE DEF n
<1>2. \A i \in 1 .. n : Masked(r + i - 1) \in Index \ {w}
  <2> SUFFICES ASSUME NEW i \in 1 .. n PROVE Masked(r + i - 1) \in Index \ {w}
    OBVIOUS
  <2>1. i \in 1 .. VTC_EVENTS_COUNT
    BY <1>1
  <2> QED BY <1>1, <2>1, MaskedPosition DEF Index
<1> QED BY <1>2 DEF WaitingIn, n

(* Moving wr_index appends the event in its cell, unless the ring is full. *)
LEMMA MovingWriteAppends ==
  ASSUME NEW S, NEW w \in Index, NEW r \in Index, NEW c \in [Index -> S],
         Masked(w + 1) # r
  PROVE  /\ WaitingIn(Masked(w + 1), r, c) = Append(WaitingIn(w, r, c), c[w])
         /\ Masked(w - r) < VTC_EVENTS_COUNT - 1
<1> DEFINE n == Masked(w - r)
           v == Masked(w + 1)
           grown == WaitingIn(v, r, c)
           old == WaitingIn(w, r, c)
<1>1. v \in Index /\ v = IF w + 1 = VTC_EVENTS_COUNT THEN 0 ELSE w + 1
  BY MaskedNext
<1>2. n = (IF r <= w THEN w - r ELSE w - r + VTC_EVENTS_COUNT) /\ n \in Nat
  BY MaskedDifference DEF Index
<1>3. Masked(v - r) = (IF r <= v THEN v - r ELSE v - r + VTC_EVENTS_COUNT)
  BY <1>1, MaskedDifference
<1>4. old \in Seq(S) /\ Len(old) = n /\ grown \in Seq(S) /\ Len(grown) = Masked(v - r)
  BY <1>1, WaitingIsSequence
<1> HIDE DEF n, v
<1>5. Masked(v - r) = n + 1 /\ n < VTC_EVENTS_COUNT - 1
  BY <1>1, <1>2, <1>3 DEF Index, v
<1>6. Masked(r + (n + 1) - 1) = w
  <2>1. n + 1 \in 1 .. VTC_EVENTS_COUNT
    BY <1>2, <1>5
  <2>2. Masked(r + (n + 1) - 1) = IF r + (n + 1) - 1 < VTC_EVENTS_COUNT
                THEN r + (n + 1) - 1 ELSE r + (n + 1) - 1 - VTC_EVENTS_COUNT
    BY <2>1, MaskedPosition
  <2> QED BY <1>2, <2>2 DEF Index
<1>7. \A i \in 1 .. n : grown[i] = old[i]
  BY <1>2, <1>5 DEF WaitingIn, n
<1>8. grown[n + 1] = c[w]
  <2>1. n + 1 \in 1 .. Masked(v - r)
    BY <1>2, <1>5
  <2>2. grown[n + 1] = c[Masked(r + (n + 1) - 1)]
    BY <2>1 DEF WaitingIn
  <2> QED BY <1>6, <2>2
<1>9. c[w] \in S
  OBVIOUS
<1> HIDE DEF grown, old
<1>10. grown = Append(old, c[w])
  BY <1>2, <1>4, <1>5, <1>7, <1>8, <1>9
<1> QED BY <1>5, <1>10 DEF grown, old, n, v

(* Moving rd_index removes the first, unless the ring is empty. *)
LEMMA MovingReadConsumes ==
  ASSUME NEW S, NEW w \in Index, NEW r \in Index, NEW c \in [Index -> S], w # r
  PROVE  /\ WaitingIn(w, r, c) # << >>
         /\ WaitingIn(w, Masked(r + 1), c) = Tail(WaitingIn(w, r, c))
<1> DEFINE n == Masked(w - r)
           s == Masked(r + 1)
           rest == WaitingIn(w, s, c)
           old == WaitingIn(w, r, c)
<1>1. s \in Index /\ s = IF r + 1 = VTC_EVENTS_COUNT THEN 0 ELSE r + 1
  BY MaskedNext
<1>2. n = (IF r <= w THEN w - r ELSE w - r + VTC_EVENTS_COUNT) /\ n \in 1 .. VTC_EVENTS_COUNT - 1
  BY MaskedDifference DEF Index
<1>3. Masked(w - s) = (IF s <= w THEN w - s ELSE w - s + VTC_EVENTS_COUNT)
  BY <1>1, MaskedDifference
<1>4. old \in Seq(S) /\ Len(old) = n /\ rest \in Seq(S) /\ Len(rest) = Masked(w - s)
  BY <1>1, WaitingIsSequence
<1> HIDE DEF n, s
<1>5. Masked(w - s) = n - 1
  BY <1>1, <1>2, <1>3 DEF Index
<1>6. \A i \in 1 .. n - 1 : Masked(s + i - 1) = Masked(r + (i + 1) - 1)
  <2> SUFFICES ASSUME NEW i \in 1 .. n - 1
               PROVE  Masked(s + i - 1) = Masked(r + (i + 1) - 1)
    OBVIOUS
  <2>1. i \in 1 .. VTC_EVENTS_COUNT /\ i + 1 \in 1 .. VTC_EVENTS_COUNT
    BY <1>2
  <2>2. Masked(r + (i + 1) - 1) = IF r + (i + 1) - 1 < VTC_EVENTS_COUNT
                THEN r + (i + 1) - 1 ELSE r + (i + 1) - 1 - VTC_EVENTS_COUNT
    BY <2>1, MaskedPosition
  <2>3. Masked(s + i - 1) = IF s + i - 1 < VTC_EVENTS_COUNT
                THEN s + i - 1 ELSE s + i - 1 - VTC_EVENTS_COUNT
    BY <1>1, <2>1, MaskedPosition
  <2> QED BY <1>1, <2>1, <2>2, <2>3 DEF Index
<1>7. \A i \in 1 .. n - 1 : rest[i] = old[i + 1]
  <2> SUFFICES ASSUME NEW i \in 1 .. n - 1 PROVE rest[i] = old[i + 1]
    OBVIOUS
  <2>1. i \in 1 .. Masked(w - s) /\ i + 1 \in 1 .. Masked(w - r)
    BY <1>2, <1>5 DEF n
  <2>2. rest[i] = c[Masked(s + i - 1)] /\ old[i + 1] = c[Masked(r + (i + 1) - 1)]
    BY <2>1 DEF WaitingIn
  <2> QED BY <1>6, <2>2
<1> HIDE DEF rest, old
<1>8. old # << >> /\ rest = Tail(old)
  BY <1>2, <1>4, <1>5, <1>7
<1> QED BY <1>8 DEF rest, old, s

(* Waiting is what WaitingIn says of the ring, in every state. *)
LEMMA WaitingIsWaitingIn ==
  /\ Waiting = WaitingIn(wr_index, rd_index, evt)
  /\ Waiting' = WaitingIn(wr_index', rd_index', evt')
BY DEF Waiting, WaitingIn, event_queue_size, Masked
-----------------------------------------------------------------------------
IInv == TypeOK /\ HandledIsHead

(* The event a handler works on is still the head when it returns, and the *)
(* indexes stay in the ring, whatever is scheduled meanwhile.              *)
THEOREM HandledEventIsStable == Spec => [](TypeOK /\ HandledIsHead)
<1>1. Init => IInv
  BY EventAssumption DEF Init, IInv, TypeOK, HandledIsHead, Index
<1>2. IInv /\ [Next]_vars => IInv'
  <2> SUFFICES ASSUME IInv, [Next]_vars PROVE IInv'
    OBVIOUS
  <2> USE DEF IInv
  <2>1. ASSUME NEW e \in Event, vertices_event_schedule(e) PROVE IInv'
    <3>1. TypeOK'
      BY <2>1, MaskedNext DEF TypeOK, vertices_event_schedule
    <3>2. HandledIsHead'
      <4> SUFFICES ASSUME handling # NoEvent
                   PROVE  Masked(wr_index' - rd_index') # 0 /\ evt'[rd_index'] = handling
        BY <2>1 DEF HandledIsHead, vertices_event_schedule, event_queue_size, Masked
      <4>1. wr_index # rd_index /\ evt[rd_index] = handling
        BY MaskedDifference DEF HandledIsHead, TypeOK, event_queue_size
      <4>2. wr_index' # rd_index' /\ rd_index' = rd_index
        BY <2>1 DEF vertices_event_schedule, QueueFull, Masked
      <4>3. Masked(wr_index' - rd_index') # 0
        BY <3>1, <4>2, MaskedDifference DEF TypeOK
      <4> QED BY <2>1, <4>1, <4>3 DEF vertices_event_schedule, TypeOK
    <3> QED BY <3>1, <3>2
  <2>2. CASE ProcessBegin
    BY <2>2 DEF ProcessBegin, TypeOK, HandledIsHead, event_queue_size
  <2>3. CASE ProcessFail
    BY <2>3 DEF ProcessFail, TypeOK, HandledIsHead
  <2>4. CASE ProcessEnd
    BY <2>4, MaskedNext DEF ProcessEnd, TypeOK, HandledIsHead
  <2>5. CASE UNCHANGED vars
    BY <2>5 DEF vars, TypeOK, HandledIsHead, event_queue_size
  <2> QED BY <2>1, <2>2, <2>3, <2>4, <2>5 DEF Next
<1> QED BY <1>1, <1>2, PTL DEF Spec, IInv
-----------------------------------------------------------------------------
(* A schedule appends to the events that wait. *)
LEMMA ScheduleAppends ==
  ASSUME TypeOK, TypeOK', NEW e \in Event, vertices_event_schedule(e)
  PROVE  Fifo!Schedule(e)
<1>1. /\ wr_index \in Index /\ rd_index \in Index /\ evt \in [Index -> Event]
      /\ rd_index' = rd_index /\ wr_index' = Masked(wr_index + 1) /\ Masked(wr_index + 1) # rd_index
      /\ evt' \in [Index -> Event] /\ evt'[wr_index] = e
      /\ \A i \in Index \ {wr_index} : evt'[i] = evt[i]
  BY DEF TypeOK, vertices_event_schedule, QueueFull, Masked
<1>2. WaitingIn(wr_index, rd_index, evt') = WaitingIn(wr_index, rd_index, evt)
  BY <1>1, FreeCellIsUnseen
<1>3. /\ WaitingIn(wr_index', rd_index, evt') = Append(WaitingIn(wr_index, rd_index, evt'), e)
      /\ Masked(wr_index - rd_index) < VTC_EVENTS_COUNT - 1
  BY <1>1, MovingWriteAppends
<1>4. /\ WaitingIn(wr_index, rd_index, evt) \in Seq(Event)
      /\ Len(WaitingIn(wr_index, rd_index, evt)) = Masked(wr_index - rd_index)
  BY <1>1, WaitingIsSequence
<1> QED BY <1>1, <1>2, <1>3, <1>4, WaitingIsWaitingIn DEF Fifo!Schedule

(* A completed vertices_event_process removes the head. *)
LEMMA ProcessEndConsumes ==
  ASSUME TypeOK, event_queue_size # 0, ProcessEnd
  PROVE  Fifo!Consume
<1>1. /\ wr_index \in Index /\ rd_index \in Index /\ evt \in [Index -> Event]
      /\ rd_index' = Masked(rd_index + 1) /\ wr_index' = wr_index /\ evt' = evt
  BY DEF TypeOK, ProcessEnd
<1>2. wr_index # rd_index
  BY <1>1, MaskedDifference DEF event_queue_size
<1> QED BY <1>1, <1>2, MovingReadConsumes, WaitingIsWaitingIn DEF Fifo!Consume

(* The ring implements the FIFO: every step of the ring schedules, consumes *)
(* or leaves the waiting events alone.                                      *)
THEOREM RingImplementsFifo == Spec => Fifo!Spec
<1>1. Init => Fifo!Init
  <2> SUFFICES ASSUME Init PROVE Waiting = << >>
    BY DEF Fifo!Init
  <2>1. event_queue_size = 0
    BY DEF Init, event_queue_size, Masked
  <2>2. Waiting = [i \in 1 .. 0 |-> evt[Masked(rd_index + i - 1)]]
    BY <2>1 DEF Waiting
  <2> QED BY <2>2
<1>2. TypeOK /\ HandledIsHead /\ TypeOK' /\ [Next]_vars => [Fifo!Next]_Waiting
  <2> SUFFICES ASSUME TypeOK, HandledIsHead, TypeOK', [Next]_vars
               PROVE  [Fifo!Next]_Waiting
    OBVIOUS
  <2>1. ASSUME NEW e \in Event, vertices_event_schedule(e) PROVE [Fifo!Next]_Waiting
    BY <2>1, ScheduleAppends DEF Fifo!Next
  <2>2. CASE ProcessBegin
    BY <2>2 DEF ProcessBegin, Waiting, event_queue_size
  <2>3. CASE ProcessFail
    BY <2>3 DEF ProcessFail, Waiting, event_queue_size
  <2>4. CASE ProcessEnd
    BY <2>4, ProcessEndConsumes DEF Fifo!Next, HandledIsHead, ProcessEnd
  <2>5. CASE UNCHANGED vars
    BY <2>5 DEF vars, Waiting, event_queue_size
  <2> QED BY <2>1, <2>2, <2>3, <2>4, <2>5 DEF Next
<1> QED BY <1>1, <1>2, HandledEventIsStable, PTL DEF Spec, Fifo!Spec

(* Whatever the indexes are, vertices_event_schedule (vertices.c:251-266)  *)
(* puts the event it is given behind all those that wait.                  *)
THEOREM ScheduleKeepsOrder == Spec => ScheduledIsAppended
<1>1. TypeOK /\ TypeOK' /\ [Next]_vars
        => [\A e \in Event : vertices_event_schedule(e) => Waiting' = Append(Waiting, e)]_vars
  BY ScheduleAppends DEF Fifo!Schedule
<1> QED BY <1>1, HandledEventIsStable, PTL DEF Spec, ScheduledIsAppended
-----------------------------------------------------------------------------
(* Two threads: both schedule and the task processes.  Every event that    *)
(* was stored is older than Bound.                                         *)
Bound == IF \A t \in Thread : pc[t] = "idle" THEN calls + 1 ELSE calls

InOrder(s) ==
  \A i, j \in 1 .. Len(s) : /\ s[i].type = s[i].bufid
                            /\ s[i].type < Bound
                            /\ i < j => s[i].type < s[j].type

(* What vertices_event_schedule knows of the ring between its accesses     *)
(* when no other call overlaps it: the task only makes room, and nobody    *)
(* else moves wr_index.                                                    *)
ProducerInv ==
  \A t \in Thread :
    /\ pc[t] # "idle" => new[t] = calls /\ \A u \in Thread \ {t} : pc[u] = "idle"
    /\ pc[t] \in {"type", "bufid", "load", "store"} => ~QueueFull
    /\ pc[t] \in {"bufid", "load", "store"} => evt[wr_index].type = calls
    /\ pc[t] \in {"load", "store"} => evt[wr_index].bufid = calls
    /\ pc[t] = "store" => reg[t] = wr_index

(* The event the handler has is the oldest that waits; the ones before it  *)
(* are older than all that wait.                                           *)
HandlerHasHead ==
  /\ task # "outside" => Waiting # << >>
  /\ task = "loading" => seen = Waiting[1].type
  /\ task = "handler" => processed # << >> /\ processed[Len(processed)] = Waiting[1]

ProcessedFirst ==
  \A i \in 1 .. Len(processed), j \in 1 .. Len(Waiting) :
    \/ processed[i].type < Waiting[j].type
    \/ task = "handler" /\ i = Len(processed) /\ j = 1

EventsInOrder ==
  /\ InOrder(Waiting) /\ InOrder(processed)
  /\ HandlerHasHead /\ ProcessedFirst /\ AcceptedIsKept

ThreadsInv == ThreadsTypeOK /\ (~overlapped => ProducerInv /\ EventsInOrder)

LEMMA ThreadsTypes ==
  ASSUME ThreadsTypeOK, [ThreadsNext]_threadVars
  PROVE  ThreadsTypeOK'
<1>0. /\ \A i \in Index : Masked(i + 1) \in Index
      /\ \A i \in Index, c \in Cells, n \in Nat :
           [c EXCEPT !.type = n] \in Cells /\ [c EXCEPT !.bufid = n] \in Cells
  BY MaskedNext DEF Cells
<1>1. ASSUME NEW t \in Thread, Call(t) PROVE ThreadsTypeOK'
  BY <1>1 DEF Call, ring, process, Goto, ThreadsTypeOK
<1>2. ASSUME NEW t \in Thread, Check(t) PROVE ThreadsTypeOK'
  BY <1>2 DEF Check, ring, process, Goto, ThreadsTypeOK
<1>3. ASSUME NEW t \in Thread, StoreType(t) PROVE ThreadsTypeOK'
  BY <1>0, <1>3 DEF StoreType, process, Goto, ThreadsTypeOK
<1>4. ASSUME NEW t \in Thread, StoreBufid(t) PROVE ThreadsTypeOK'
  BY <1>0, <1>4 DEF StoreBufid, process, Goto, ThreadsTypeOK
<1>5. ASSUME NEW t \in Thread, LoadWrIndex(t) PROVE ThreadsTypeOK'
  BY <1>5 DEF LoadWrIndex, ring, process, Goto, ThreadsTypeOK
<1>6. ASSUME NEW t \in Thread, StoreWrIndex(t) PROVE ThreadsTypeOK'
  BY <1>0, <1>6 DEF StoreWrIndex, process, Goto, ThreadsTypeOK
<1>7. CASE BeginProcess
  BY <1>7 DEF BeginProcess, ring, schedule, ThreadsTypeOK
<1>8. CASE LoadType
  <2>1. evt[rd_index].type \in Nat
    BY DEF ThreadsTypeOK, Cells
  <2> QED BY <1>8, <2>1 DEF LoadType, ring, schedule, ThreadsTypeOK
<1>9. CASE LoadBufid
  <2>1. [type |-> seen, bufid |-> evt[rd_index].bufid] \in Cells
    BY DEF ThreadsTypeOK, Cells
  <2> QED BY <1>9, <2>1 DEF LoadBufid, ring, schedule, ThreadsTypeOK
<1>10. CASE EndProcess
  BY <1>0, <1>10 DEF EndProcess, schedule, ThreadsTypeOK
<1>11. CASE FailProcess
  <2>1. SubSeq(processed, 1, Len(processed) - 1) \in Seq(Cells)
    BY DEF ThreadsTypeOK
  <2> QED BY <1>11, <2>1 DEF FailProcess, ring, schedule, ThreadsTypeOK
<1>12. CASE UNCHANGED threadVars
  BY <1>12 DEF threadVars, ThreadsTypeOK
<1> QED BY <1>1, <1>2, <1>3, <1>4, <1>5, <1>6, <1>7, <1>8, <1>9, <1>10, <1>11, <1>12
        DEF ThreadsNext, ScheduleIn, vertices_event_process

LEMMA ThreadsSequences ==
  ASSUME ThreadsTypeOK
  PROVE  /\ Waiting \in Seq(Cells) /\ Len(Waiting) \in Nat
         /\ wr_index # rd_index => Waiting # << >> /\ Waiting[1] = evt[rd_index]
         /\ wr_index = rd_index => Waiting = << >>
         /\ processed \in Seq(Cells) /\ Len(processed) \in Nat
         /\ Bound \in Int
         /\ \A c \in Cells : c.type \in Int /\ c.bufid \in Int
<1>1. wr_index \in Index /\ rd_index \in Index /\ evt \in [Index -> Cells]
  BY DEF ThreadsTypeOK
<1>2. /\ WaitingIn(wr_index, rd_index, evt) \in Seq(Cells)
      /\ Len(WaitingIn(wr_index, rd_index, evt)) = Masked(wr_index - rd_index)
      /\ wr_index # rd_index => WaitingIn(wr_index, rd_index, evt)[1] = evt[rd_index]
      /\ Masked(wr_index - rd_index) \in 0 .. VTC_EVENTS_COUNT - 1
      /\ Masked(wr_index - rd_index) # 0 <=> wr_index # rd_index
  BY <1>1, WaitingIsSequence
<1>3. /\ Waiting \in Seq(Cells) /\ Len(Waiting) \in Nat
      /\ wr_index # rd_index => Waiting # << >> /\ Waiting[1] = evt[rd_index]
      /\ wr_index = rd_index => Waiting = << >>
  BY <1>2, WaitingIsWaitingIn
<1>4. processed \in Seq(Cells) /\ Len(processed) \in Nat
  BY DEF ThreadsTypeOK
<1>5. Bound \in Int /\ \A c \in Cells : c.type \in Int /\ c.bufid \in Int
  BY DEF ThreadsTypeOK, Bound, Cells
<1> QED BY <1>3, <1>4, <1>5

(* Between two moves of the indexes the scheduling thread disturbs nothing. *)
LEMMA SchedulingIsUnseen ==
  ASSUME ThreadsTypeOK, EventsInOrder,
         \A i \in Index \ {wr_index} : evt'[i] = evt[i],
         UNCHANGED <<wr_index, rd_index, task, seen, processed, accepted>>,
         Bound' \in Int, Bound' >= Bound
  PROVE  EventsInOrder'
<1>0. WaitingIn(wr_index, rd_index, evt') = WaitingIn(wr_index, rd_index, evt)
  <2>1. wr_index \in Index /\ rd_index \in Index
    BY DEF ThreadsTypeOK
  <2> QED BY <2>1, FreeCellIsUnseen
<1>1. Waiting' = Waiting
  BY <1>0, WaitingIsWaitingIn
<1>2. /\ Waiting \in Seq(Cells) /\ processed \in Seq(Cells) /\ Bound \in Int
      /\ \A c \in Cells : c.type \in Int
  BY ThreadsSequences
<1> QED BY <1>1, <1>2 DEF EventsInOrder, InOrder, HandlerHasHead, ProcessedFirst, AcceptedIsKept

(* What a step of the only thread that schedules at the moment does *)
LEMMA ScheduleStep ==
  ASSUME ThreadsTypeOK, ThreadsTypeOK', ProducerInv, EventsInOrder,
         NEW t \in Thread, ScheduleIn(t), ~overlapped'
  PROVE  ProducerInv' /\ EventsInOrder'
<1>0. /\ wr_index \in Index /\ rd_index \in Index /\ evt \in [Index -> Cells]
      /\ calls \in Int /\ pc \in [Thread -> {"idle", "check", "type", "bufid", "load", "store"}]
      /\ new \in [Thread -> Nat] /\ reg \in [Thread -> Index]
  BY DEF ThreadsTypeOK
<1>1. PICK u \in Thread : u # t /\ Thread = {t, u}
  BY DEF Thread
<1>a. pc[u] = "idle"
  <2>1. CASE pc[t] # "idle"
    BY <1>1, <2>1 DEF ProducerInv
  <2>2. CASE pc[t] = "idle"
    BY <1>1, <2>2 DEF ScheduleIn, Call, Check, StoreType, StoreBufid, LoadWrIndex, StoreWrIndex, Goto
  <2> QED BY <2>1, <2>2
<1>2. Bound \in Int /\ Bound' \in Int
  BY <1>0 DEF ThreadsTypeOK, Bound
<1>3. CASE Call(t)
  <2>1. /\ pc[t] = "idle" /\ pc'[t] = "check" /\ pc'[u] = "idle"
        /\ calls' = calls + 1 /\ new'[t] = calls + 1
        /\ UNCHANGED <<wr_index, rd_index, evt, task, seen, processed, accepted>>
    BY <1>0, <1>1, <1>a, <1>3 DEF Call, Goto, ring, process
  <2>2. ProducerInv'
    BY <1>0, <1>1, <1>a, <2>1 DEF ProducerInv
  <2>3. Bound' >= Bound
    BY <1>0, <1>1, <1>a, <2>1 DEF Bound
  <2> QED BY <1>0, <1>2, <2>1, <2>2, <2>3, SchedulingIsUnseen
<1>4. CASE Check(t)
  <2>1. /\ pc[t] = "check" /\ pc'[t] = (IF QueueFull THEN "idle" ELSE "type")
        /\ pc'[u] = "idle"
        /\ UNCHANGED <<wr_index, rd_index, evt, new, calls, task, seen, processed, accepted>>
    BY <1>0, <1>1, <1>a, <1>4 DEF Check, Goto, ring, process
  <2>2. ProducerInv'
    BY <1>0, <1>1, <1>a, <2>1 DEF ProducerInv, QueueFull
  <2>3. Bound' >= Bound
    BY <1>0, <1>1, <1>a, <2>1 DEF Bound
  <2> QED BY <1>0, <1>2, <2>1, <2>2, <2>3, SchedulingIsUnseen
<1>5. CASE StoreType(t)
  <2>1. /\ pc[t] = "type" /\ pc'[t] = "bufid" /\ pc'[u] = "idle"
        /\ UNCHANGED <<wr_index, rd_index, new, calls, task, seen, processed, accepted>>
        /\ evt' = [evt EXCEPT ![wr_index].type = new[t]]
    BY <1>0, <1>1, <1>a, <1>5 DEF StoreType, Goto, process
  <2>2. \A i \in Index \ {wr_index} : evt'[i] = evt[i]
    BY <1>0, <2>1
  <2>3. evt'[wr_index].type = new[t]
    BY <1>0, <2>1 DEF Cells
  <2>4. ProducerInv'
    BY <1>0, <1>1, <1>a, <2>1, <2>3 DEF ProducerInv, QueueFull
  <2>5. Bound' >= Bound
    BY <1>0, <1>1, <1>a, <2>1 DEF Bound
  <2> QED BY <1>0, <1>2, <2>1, <2>2, <2>4, <2>5, SchedulingIsUnseen
<1>6. CASE StoreBufid(t)
  <2>1. /\ pc[t] = "bufid" /\ pc'[t] = "load" /\ pc'[u] = "idle"
        /\ UNCHANGED <<wr_index, rd_index, new, calls, task, seen, processed, accepted>>
        /\ evt' = [evt EXCEPT ![wr_index].bufid = new[t]]
    BY <1>0, <1>1, <1>a, <1>6 DEF StoreBufid, Goto, process
  <2>2. \A i \in Index \ {wr_index} : evt'[i] = evt[i]
    BY <1>0, <2>1
  <2>3. evt'[wr_index].bufid = new[t] /\ evt'[wr_index].type = evt[wr_index].type
    BY <1>0, <2>1 DEF Cells
  <2>4. ProducerInv'
    BY <1>0, <1>1, <1>a, <2>1, <2>3 DEF ProducerInv, QueueFull
  <2>5. Bound' >= Bound
    BY <1>0, <1>1, <1>a, <2>1 DEF Bound
  <2> QED BY <1>0, <1>2, <2>1, <2>2, <2>4, <2>5, SchedulingIsUnseen
<1>7. CASE LoadWrIndex(t)
  <2>1. /\ pc[t] = "load" /\ pc'[t] = "store" /\ pc'[u] = "idle"
        /\ UNCHANGED <<wr_index, rd_index, evt, new, calls, task, seen, processed, accepted>>
        /\ reg'[t] = wr_index
    BY <1>0, <1>1, <1>a, <1>7 DEF LoadWrIndex, Goto, ring, process
  <2>2. ProducerInv'
    BY <1>0, <1>1, <1>a, <2>1 DEF ProducerInv, QueueFull
  <2>3. Bound' >= Bound
    BY <1>0, <1>1, <1>a, <2>1 DEF Bound
  <2> QED BY <1>0, <1>2, <2>1, <2>2, <2>3, SchedulingIsUnseen
<1>8. CASE StoreWrIndex(t)
  <2>1. /\ pc[t] = "store" /\ pc'[t] = "idle" /\ pc'[u] = "idle"
        /\ UNCHANGED <<rd_index, evt, new, calls, task, seen, processed>>
        /\ wr_index' = Masked(wr_index + 1) /\ accepted' = accepted \cup {calls}
        /\ evt[wr_index].type = calls /\ evt[wr_index].bufid = calls
        /\ Masked(wr_index + 1) # rd_index
    BY <1>0, <1>1, <1>a, <1>8 DEF StoreWrIndex, Goto, process, ProducerInv, QueueFull, Masked
  <2>2. ProducerInv'
    BY <1>0, <1>1, <1>a, <2>1 DEF ProducerInv
  <2>3. Waiting' = Append(Waiting, evt[wr_index])
    <3>1. WaitingIn(Masked(wr_index + 1), rd_index, evt)
            = Append(WaitingIn(wr_index, rd_index, evt), evt[wr_index])
      <4>1. /\ wr_index \in Index /\ rd_index \in Index /\ evt \in [Index -> Cells]
            /\ Masked(wr_index + 1) # rd_index
        BY <1>0, <2>1
      <4> QED BY <4>1, MovingWriteAppends
    <3> QED BY <2>1, <3>1, WaitingIsWaitingIn
  <2>4. Bound = calls /\ Bound' = calls + 1
    BY <1>0, <1>1, <1>a, <2>1 DEF Bound
  <2>5. EventsInOrder'
    <3> DEFINE w == Waiting
               p == processed
               c == evt[wr_index]
    <3>1. /\ w \in Seq(Cells) /\ p \in Seq(Cells) /\ c \in Cells
          /\ \A d \in Cells : d.type \in Int /\ d.bufid \in Int
      BY <1>0, ThreadsSequences
    <3>2. /\ Len(w') = Len(w) + 1 /\ w'[Len(w) + 1] = c /\ Len(w) \in Nat /\ Len(p) \in Nat
          /\ \A i \in 1 .. Len(w) : w'[i] = w[i]
          /\ \A i \in 1 .. Len(w') : i \in 1 .. Len(w) \/ i = Len(w) + 1
      BY <2>3, <3>1
    <3>3. /\ InOrder(w) /\ InOrder(p) /\ HandlerHasHead /\ ProcessedFirst /\ AcceptedIsKept
      BY <1>0 DEF EventsInOrder
    <3> HIDE DEF c, w
    <3>4. /\ \A i \in 1 .. Len(w) : w[i].type < calls
          /\ \A i \in 1 .. Len(p) : p[i].type < calls
          /\ c.type = calls /\ c.bufid = calls
      BY <2>1, <2>4, <3>3 DEF InOrder, c
    <3>5. InOrder(w)'
      <4> SUFFICES ASSUME NEW i \in 1 .. Len(w'), NEW j \in 1 .. Len(w')
                   PROVE  /\ w'[i].type = w'[i].bufid
                          /\ w'[i].type < calls + 1
                          /\ i < j => w'[i].type < w'[j].type
        BY <2>4 DEF InOrder
      <4>1. w'[i].type = w'[i].bufid /\ w'[i].type < calls + 1
        <5>1. CASE i \in 1 .. Len(w)
          <6>1. w[i] \in Cells /\ w[i].type \in Int
            BY <3>1, <5>1
          <6>2. w[i].type = w[i].bufid /\ w[i].type < calls
            BY <3>3, <3>4, <5>1 DEF InOrder
          <6> QED BY <1>0, <3>2, <5>1, <6>1, <6>2
        <5>2. CASE i = Len(w) + 1
          BY <1>0, <3>2, <3>4, <5>2
        <5> QED BY <3>2, <5>1, <5>2
      <4>2. ASSUME i < j PROVE w'[i].type < w'[j].type
        <5>1. i \in 1 .. Len(w)
          BY <3>2, <4>2
        <5>2. CASE j \in 1 .. Len(w)
          BY <3>2, <3>3, <4>2, <5>1, <5>2 DEF InOrder
        <5>3. CASE j = Len(w) + 1
          BY <3>2, <3>4, <5>1, <5>3
        <5> QED BY <3>2, <5>2, <5>3
      <4> QED BY <4>1, <4>2
    <3>6. InOrder(p)'
      BY <1>0, <2>1, <2>4, <3>1, <3>3, <3>4 DEF InOrder
    <3>7. HandlerHasHead'
      BY <2>1, <3>2, <3>3 DEF HandlerHasHead, w
    <3>8. ProcessedFirst'
      BY <2>1, <3>2, <3>3, <3>4 DEF ProcessedFirst, w
    <3>9. AcceptedIsKept'
      BY <2>1, <3>2, <3>3, <3>4, SMTT(30) DEF AcceptedIsKept, w
    <3> QED BY <3>5, <3>6, <3>7, <3>8, <3>9 DEF EventsInOrder, w
  <2> QED BY <2>2, <2>5
<1> QED BY <1>3, <1>4, <1>5, <1>6, <1>7, <1>8 DEF ScheduleIn

LEMMA FrontOf ==
  ASSUME NEW S, NEW s \in Seq(S), Len(s) >= 1
  PROVE  LET f == SubSeq(s, 1, Len(s) - 1) IN
         Len(f) = Len(s) - 1 /\ \A i \in 1 .. Len(s) - 1 : f[i] = s[i]
<1> DEFINE m == Len(s) - 1
<1>1. m \in Nat /\ m <= Len(s)
  OBVIOUS
<1> HIDE DEF m
<1>2. SubSeq(s, 1, m) = [i \in 1 .. m |-> s[i]]
  BY <1>1
<1>3. Len(SubSeq(s, 1, m)) = m
  BY <1>1, <1>2
<1>4. \A i \in 1 .. m : SubSeq(s, 1, m)[i] = s[i]
  BY <1>2
<1> QED BY <1>3, <1>4 DEF m

(* What a step of the task does *)
LEMMA TaskStep ==
  ASSUME ThreadsTypeOK, ThreadsTypeOK', ProducerInv, EventsInOrder, vertices_event_process
  PROVE  ProducerInv' /\ EventsInOrder'
<1> DEFINE w == Waiting
           p == processed
<1>0. wr_index \in Index /\ rd_index \in Index /\ evt \in [Index -> Cells]
  BY DEF ThreadsTypeOK
<1>1. /\ w \in Seq(Cells) /\ Len(w) \in Nat
      /\ wr_index # rd_index => w # << >> /\ w[1] = evt[rd_index]
      /\ wr_index = rd_index => w = << >>
      /\ p \in Seq(Cells) /\ Len(p) \in Nat /\ Bound \in Int
      /\ \A d \in Cells : d.type \in Int /\ d.bufid \in Int
  BY <1>0, ThreadsSequences
<1>2. InOrder(w) /\ InOrder(p) /\ HandlerHasHead /\ ProcessedFirst /\ AcceptedIsKept
  BY <1>0 DEF EventsInOrder
<1>3. CASE BeginProcess
  <2>1. /\ task = "outside" /\ task' = "sending" /\ wr_index # rd_index
        /\ UNCHANGED <<wr_index, rd_index, evt, pc, new, reg, calls, accepted, processed>>
    BY <1>3 DEF BeginProcess, NotEmpty, ring, schedule
  <2>2. w' = w /\ Bound' = Bound /\ ProducerInv'
    BY <1>0, <2>1 DEF Waiting, event_queue_size, Bound, ProducerInv, QueueFull
  <2>3. w # << >>
    BY <1>1, <2>1
  <2> HIDE DEF w
  <2> QED BY <1>2, <2>1, <2>2, <2>3 DEF EventsInOrder, InOrder, HandlerHasHead, ProcessedFirst,
                                        AcceptedIsKept, w
<1>4. CASE LoadType
  <2>1. /\ task = "sending" /\ task' = "loading" /\ seen' = evt[rd_index].type
        /\ UNCHANGED <<wr_index, rd_index, evt, pc, new, reg, calls, accepted, processed>>
    BY <1>4 DEF LoadType, ring, schedule
  <2>2. w' = w /\ Bound' = Bound /\ ProducerInv'
    BY <1>0, <2>1 DEF Waiting, event_queue_size, Bound, ProducerInv, QueueFull
  <2>3. w # << >> /\ w[1] = evt[rd_index]
    BY <1>1, <1>2, <2>1 DEF HandlerHasHead
  <2> HIDE DEF w
  <2> QED BY <1>2, <2>1, <2>2, <2>3 DEF EventsInOrder, InOrder, HandlerHasHead, ProcessedFirst,
                                        AcceptedIsKept, w
<1>5. CASE LoadBufid
  <2>1. /\ task = "loading" /\ task' = "handler" /\ wr_index # rd_index
        /\ p' = Append(p, evt[rd_index])
        /\ UNCHANGED <<wr_index, rd_index, evt, pc, new, reg, calls, accepted>>
    <3>1. /\ task = "loading" /\ task' = "handler"
          /\ p' = Append(p, [type |-> seen, bufid |-> evt[rd_index].bufid])
          /\ UNCHANGED <<wr_index, rd_index, evt, pc, new, reg, calls, accepted>>
      BY <1>5 DEF LoadBufid, ring, schedule
    <3>2. w # << >> /\ seen = w[1].type /\ wr_index # rd_index
      BY <1>1, <1>2, <3>1 DEF HandlerHasHead
    <3>3. w[1] = evt[rd_index]
      BY <1>1, <3>2
    <3>4. evt[rd_index] = [type |-> seen, bufid |-> evt[rd_index].bufid]
      BY <1>0, <3>2, <3>3 DEF Cells
    <3> QED BY <3>1, <3>2, <3>4
  <2>2. w' = w /\ Bound' = Bound /\ ProducerInv'
    BY <1>0, <2>1 DEF Waiting, event_queue_size, Bound, ProducerInv, QueueFull
  <2> HIDE DEF w
  <2>3. /\ w[1] \in Cells /\ 1 \in 1 .. Len(w) /\ p' = Append(p, w[1])
        /\ \A j \in 1 .. Len(w) : j = 1 \/ 1 < j
    BY <1>1, <2>1
  <2>4. /\ Len(p') = Len(p) + 1 /\ p'[Len(p) + 1] = w[1]
        /\ \A i \in 1 .. Len(p) : p'[i] = p[i]
        /\ \A i \in 1 .. Len(p') : i \in 1 .. Len(p) \/ i = Len(p) + 1
    BY <1>1, <2>3
  <2>5. /\ w[1].type = w[1].bufid /\ w[1].type < Bound
        /\ \A j \in 2 .. Len(w) : w[1].type < w[j].type
        /\ \A i \in 1 .. Len(p), j \in 1 .. Len(w) : p[i].type < w[j].type
    BY <1>1, <1>2, <2>1, <2>3 DEF InOrder, ProcessedFirst, w
  <2>6. InOrder(w)'
    BY <1>2, <2>2 DEF InOrder
  <2>7. InOrder(p)'
    BY <1>1, <1>2, <2>2, <2>3, <2>4, <2>5 DEF InOrder
  <2>8. HandlerHasHead'
    BY <1>1, <2>1, <2>2, <2>3, <2>4 DEF HandlerHasHead, w
  <2>9. ProcessedFirst'
    BY <1>1, <2>1, <2>2, <2>3, <2>4, <2>5 DEF ProcessedFirst, w
  <2>10. AcceptedIsKept'
    BY <1>1, <1>2, <2>1, <2>2, <2>4 DEF AcceptedIsKept, w
  <2> QED BY <2>2, <2>6, <2>7, <2>8, <2>9, <2>10 DEF EventsInOrder, w
<1>6. CASE EndProcess
  <2>1. /\ task = "handler" /\ task' = "outside" /\ rd_index' = Masked(rd_index + 1)
        /\ UNCHANGED <<wr_index, evt, pc, new, reg, calls, accepted, processed>>
    BY <1>6 DEF EndProcess, schedule
  <2>2. p # << >> /\ w # << >> /\ p[Len(p)] = w[1] /\ wr_index # rd_index
    BY <1>1, <1>2, <2>1 DEF HandlerHasHead
  <2>3. w' = Tail(w)
    BY <1>0, <2>1, <2>2, MovingReadConsumes, WaitingIsWaitingIn
  <2>4. Bound' = Bound
    BY <2>1 DEF Bound
  <2>5. ~QueueFull => ~QueueFull'
    <3>1. Masked(wr_index + 1) = (IF wr_index + 1 = VTC_EVENTS_COUNT THEN 0 ELSE wr_index + 1)
          /\ Masked(rd_index + 1) = (IF rd_index + 1 = VTC_EVENTS_COUNT THEN 0 ELSE rd_index + 1)
      BY <1>0, MaskedNext
    <3> QED BY <1>0, <2>1, <2>2, <3>1 DEF QueueFull, Masked, Index
  <2>6. ProducerInv'
    BY <1>0, <2>1, <2>5 DEF ProducerInv
  <2> HIDE DEF w
  <2>7. /\ Len(w') = Len(w) - 1 /\ Len(w) >= 1
        /\ \A i \in 1 .. Len(w') : w'[i] = w[i + 1] /\ i + 1 \in 1 .. Len(w) /\ i + 1 # 1
        /\ \A i \in 1 .. Len(w) : i = 1 \/ (i - 1 \in 1 .. Len(w') /\ w'[i - 1] = w[i])
    BY <1>1, <2>2, <2>3
  <2>8. InOrder(w)'
    <3> SUFFICES ASSUME NEW i \in 1 .. Len(w'), NEW j \in 1 .. Len(w')
                 PROVE  /\ w'[i].type = w'[i].bufid
                        /\ w'[i].type < Bound
                        /\ i < j => w'[i].type < w'[j].type
      BY <2>4 DEF InOrder
    <3>1. i < j => i + 1 < j + 1
      BY <1>1, <2>7
    <3> QED BY <1>2, <2>7, <3>1 DEF InOrder
  <2>9. InOrder(p)'
    BY <1>2, <2>1, <2>4 DEF InOrder
  <2>10. HandlerHasHead'
    BY <2>1 DEF HandlerHasHead
  <2>11. ProcessedFirst'
    BY <1>2, <2>1, <2>7 DEF ProcessedFirst, w
  <2>12. AcceptedIsKept'
    <3> SUFFICES ASSUME NEW n \in accepted
                 PROVE  \/ \E i \in 1 .. Len(p) : p[i].type = n
                        \/ \E i \in 1 .. Len(w') : w'[i].type = n
      BY <2>1 DEF AcceptedIsKept, w
    <3>1. CASE \E i \in 1 .. Len(p) : p[i].type = n
      BY <3>1
    <3>2. CASE \E i \in 1 .. Len(w) : w[i].type = n
      <4>1. PICK i \in 1 .. Len(w) : w[i].type = n
        BY <3>2
      <4>2. CASE i = 1
        <5>1. Len(p) \in 1 .. Len(p) /\ p[Len(p)].type = n
          BY <1>1, <2>2, <4>1, <4>2 DEF w
        <5> QED BY <5>1
      <4>3. CASE i # 1
        BY <2>7, <4>1, <4>3
      <4> QED BY <4>2, <4>3
    <3> QED BY <1>2, <3>1, <3>2 DEF AcceptedIsKept, w
  <2> QED BY <2>6, <2>8, <2>9, <2>10, <2>11, <2>12 DEF EventsInOrder, w
<1>7. CASE FailProcess /\ task = "sending"
  <2>1. /\ task' = "outside"
        /\ UNCHANGED <<wr_index, rd_index, evt, pc, new, reg, calls, accepted, processed>>
    BY <1>7 DEF FailProcess, ring, schedule
  <2>2. w' = w /\ Bound' = Bound /\ ProducerInv'
    BY <1>0, <2>1 DEF Waiting, event_queue_size, Bound, ProducerInv, QueueFull
  <2> HIDE DEF w
  <2> QED BY <1>2, <1>7, <2>1, <2>2 DEF EventsInOrder, InOrder, HandlerHasHead, ProcessedFirst,
                                        AcceptedIsKept, w
<1>8. CASE FailProcess /\ task = "handler"
  <2>1. /\ task = "handler" /\ task' = "outside" /\ p' = SubSeq(p, 1, Len(p) - 1)
        /\ UNCHANGED <<wr_index, rd_index, evt, pc, new, reg, calls, accepted>>
    BY <1>8 DEF FailProcess, ring, schedule
  <2>2. p # << >> /\ w # << >> /\ p[Len(p)] = w[1]
    BY <1>2, <2>1 DEF HandlerHasHead
  <2>3. w' = w /\ Bound' = Bound /\ ProducerInv'
    BY <1>0, <2>1 DEF Waiting, event_queue_size, Bound, ProducerInv, QueueFull
  <2> HIDE DEF w
  <2>4. /\ Len(p') = Len(p) - 1 /\ Len(p) >= 1
        /\ \A i \in 1 .. Len(p') : p'[i] = p[i] /\ i \in 1 .. Len(p) /\ i # Len(p)
        /\ \A i \in 1 .. Len(p) : i = Len(p) \/ i \in 1 .. Len(p')
    <3>1. Len(p) >= 1
      BY <1>1, <2>2
    <3>2. Len(p') = Len(p) - 1 /\ \A i \in 1 .. Len(p) - 1 : p'[i] = p[i]
      BY <1>1, <2>1, <3>1, FrontOf
    <3> QED BY <1>1, <3>1, <3>2, SMTT(30)
  <2>5. InOrder(w)'
    BY <1>2, <2>3 DEF InOrder
  <2>6. InOrder(p)'
    BY <1>2, <2>3, <2>4 DEF InOrder
  <2>7. HandlerHasHead'
    BY <2>1 DEF HandlerHasHead
  <2>8. ProcessedFirst'
    BY <1>2, <2>1, <2>3, <2>4 DEF ProcessedFirst, w
  <2>9. AcceptedIsKept'
    <3> SUFFICES ASSUME NEW n \in accepted
                 PROVE  \/ \E i \in 1 .. Len(p') : p'[i].type = n
                        \/ \E i \in 1 .. Len(w) : w[i].type = n
      BY <2>1, <2>3 DEF AcceptedIsKept, w
    <3>1. CASE \E i \in 1 .. Len(p) : p[i].type = n
      <4>1. PICK i \in 1 .. Len(p) : p[i].type = n
        BY <3>1
      <4>2. CASE i = Len(p)
        <5>1. 1 \in 1 .. Len(w) /\ w[1].type = n
          BY <1>1, <2>2, <4>1, <4>2 DEF w
        <5> QED BY <5>1
      <4>3. CASE i # Len(p)
        BY <2>4, <4>1, <4>3
      <4> QED BY <4>2, <4>3
    <3>2. CASE \E i \in 1 .. Len(w) : w[i].type = n
      BY <3>2
    <3> QED BY <1>2, <3>1, <3>2 DEF AcceptedIsKept, w
  <2> QED BY <2>3, <2>5, <2>6, <2>7, <2>8, <2>9 DEF EventsInOrder, w
<1> QED BY <1>3, <1>4, <1>5, <1>6, <1>7, <1>8 DEF vertices_event_process, FailProcess

LEMMA ThreadsInitTypes == ThreadsInit => ThreadsTypeOK
<1> SUFFICES ASSUME ThreadsInit PROVE ThreadsTypeOK
  OBVIOUS
<1>1. evt \in [Index -> Cells]
  BY DEF ThreadsInit, Cells
<1>2. wr_index \in Index /\ rd_index \in Index /\ reg \in [Thread -> Index]
  BY DEF ThreadsInit, Index
<1>3. /\ new \in [Thread -> Nat]
      /\ pc \in [Thread -> {"idle", "check", "type", "bufid", "load", "store"}]
  BY DEF ThreadsInit
<1>4. processed \in Seq(Cells)
  BY DEF ThreadsInit
<1>5. overlapped \in BOOLEAN
  BY DEF ThreadsInit
<1> QED BY <1>1, <1>2, <1>3, <1>4, <1>5 DEF ThreadsInit, ThreadsTypeOK

LEMMA OverlapStays ==
  ASSUME [ThreadsNext]_threadVars, ~overlapped'
  PROVE  ~overlapped
BY DEF ThreadsNext, ScheduleIn, Call, Check, StoreType, StoreBufid, LoadWrIndex, StoreWrIndex,
       vertices_event_process, BeginProcess, LoadType, LoadBufid, EndProcess, FailProcess,
       schedule, threadVars

(* The invariant of the two threads holds until two calls of               *)
(* vertices_event_schedule overlap, and an overlap is never undone.        *)
LEMMA ThreadsAreInOrder == ThreadsSpec => []ThreadsInv
<1>1. ThreadsInit => ThreadsInv
  <2> SUFFICES ASSUME ThreadsInit PROVE ThreadsInv
    OBVIOUS
  <2>1. ThreadsTypeOK
    BY ThreadsInitTypes
  <2>2. Waiting = << >> /\ processed = << >> /\ Len(Waiting) = 0 /\ Len(processed) = 0
    BY <2>1, ThreadsSequences DEF ThreadsInit
  <2>3. ProducerInv
    BY DEF ThreadsInit, ProducerInv, Thread
  <2>4. EventsInOrder
    BY <2>2 DEF ThreadsInit, EventsInOrder, InOrder, HandlerHasHead, ProcessedFirst, AcceptedIsKept
  <2> QED BY <2>1, <2>3, <2>4 DEF ThreadsInv
<1>2. ThreadsInv /\ [ThreadsNext]_threadVars => ThreadsInv'
  <2> SUFFICES ASSUME ThreadsInv, [ThreadsNext]_threadVars PROVE ThreadsInv'
    OBVIOUS
  <2>1. ThreadsTypeOK /\ ThreadsTypeOK'
    BY ThreadsTypes DEF ThreadsInv
  <2> SUFFICES ASSUME ~overlapped' PROVE ProducerInv' /\ EventsInOrder'
    BY <2>1 DEF ThreadsInv
  <2>2. ~overlapped
    BY OverlapStays
  <2>3. ProducerInv /\ EventsInOrder
    BY <2>2 DEF ThreadsInv
  <2>4. ASSUME NEW t \in Thread, ScheduleIn(t) PROVE ProducerInv' /\ EventsInOrder'
    BY <2>1, <2>3, <2>4, ScheduleStep
  <2>5. ASSUME vertices_event_process PROVE ProducerInv' /\ EventsInOrder'
    BY <2>1, <2>3, <2>5, TaskStep
  <2>6. ASSUME UNCHANGED threadVars PROVE ProducerInv' /\ EventsInOrder'
    <3>1. Waiting' = Waiting /\ Bound' = Bound /\ ProducerInv'
      BY <2>3, <2>6 DEF threadVars, ProducerInv, QueueFull, Bound, Waiting, event_queue_size
    <3>2. EventsInOrder'
      BY <2>3, <2>6, <3>1 DEF threadVars, EventsInOrder, InOrder, HandlerHasHead,
                              ProcessedFirst, AcceptedIsKept
    <3> QED BY <3>1, <3>2
  <2> QED BY <2>4, <2>5, <2>6 DEF ThreadsNext
<1> QED BY <1>1, <1>2, PTL DEF ThreadsSpec

(* Until two calls of vertices_event_schedule overlap, the event a handler *)
(* has a pointer to stays as it was while either thread schedules          *)
(* (vertices.c:308 against 260-263).                                       *)
THEOREM HandlersEventStays == ThreadsSpec => [](~overlapped => HeadStays)
<1>1. ASSUME ThreadsInv, ~overlapped, task = "handler"
      PROVE  evt[rd_index] = processed[Len(processed)]
  <2>1. Waiting # << >> /\ processed[Len(processed)] = Waiting[1]
    BY <1>1 DEF ThreadsInv, EventsInOrder, HandlerHasHead
  <2>2. Waiting[1] = evt[rd_index]
    BY <1>1, <2>1, ThreadsSequences DEF ThreadsInv
  <2> QED BY <2>1, <2>2
<1>2. ThreadsInv => (~overlapped => HeadStays)
  BY <1>1 DEF HeadStays
<1> QED BY <1>2, ThreadsAreInOrder, PTL

(* Until two calls of vertices_event_schedule (vertices.c:251-266)         *)
(* overlap, no handler sees an event that is half stored, or one before    *)
(* another that was scheduled earlier.                                     *)
THEOREM EventsAreWhole == ThreadsSpec => [](~overlapped => WholeAndInOrder)
<1>1. ThreadsInv => (~overlapped => WholeAndInOrder)
  BY DEF ThreadsInv, EventsInOrder, InOrder, WholeAndInOrder
<1> QED BY <1>1, ThreadsAreInOrder, PTL

(* Until two calls of vertices_event_schedule (vertices.c:251-266)         *)
(* overlap, what it accepted is processed or still waits: a lock around    *)
(* this one function is all that two threads need.                         *)
THEOREM NoEventIsLost == ThreadsSpec => [](~overlapped => AcceptedIsKept)
<1>1. ThreadsInv => (~overlapped => AcceptedIsKept)
  BY DEF ThreadsInv, EventsInOrder
<1> QED BY <1>1, ThreadsAreInOrder, PTL

(* Until two calls of vertices_event_schedule (vertices.c:251-266)         *)
(* overlap, the accesses of the two threads implement the FIFO: only the   *)
(* store of wr_index and the one of rd_index are visible.                  *)
THEOREM ThreadsKeepTheFifo ==
  ThreadsSpec => CellFifo!Init /\ [][~overlapped => CellFifo!Next]_Waiting
<1>1. ThreadsInit => CellFifo!Init
  <2> SUFFICES ASSUME ThreadsInit PROVE Waiting = << >>
    BY DEF CellFifo!Init
  <2>1. ThreadsTypeOK
    BY ThreadsInitTypes
  <2> QED BY <2>1, ThreadsSequences DEF ThreadsInit
<1>2. ThreadsInv /\ [ThreadsNext]_threadVars => [~overlapped => CellFifo!Next]_Waiting
  <2> SUFFICES ASSUME ThreadsInv, [ThreadsNext]_threadVars, ~overlapped
               PROVE  [CellFifo!Next]_Waiting
    OBVIOUS
  <2>0. /\ wr_index \in Index /\ rd_index \in Index /\ evt \in [Index -> Cells] /\ ProducerInv
        /\ Waiting \in Seq(Cells) /\ ThreadsTypeOK /\ EventsInOrder
        /\ pc \in [Thread -> {"idle", "check", "type", "bufid", "load", "store"}]
    BY ThreadsSequences DEF ThreadsInv, ThreadsTypeOK
  <2>1. ASSUME /\ UNCHANGED <<wr_index, rd_index>>
               /\ \A i \in Index \ {wr_index} : evt'[i] = evt[i]
        PROVE  UNCHANGED Waiting
    <3>1. WaitingIn(wr_index, rd_index, evt') = WaitingIn(wr_index, rd_index, evt)
      <4>1. wr_index \in Index /\ rd_index \in Index
        BY <2>0
      <4> QED BY <2>1, <4>1, FreeCellIsUnseen
    <3> QED BY <2>1, <3>1, WaitingIsWaitingIn
  <2>2. ASSUME NEW t \in Thread, StoreType(t) \/ StoreBufid(t) PROVE UNCHANGED Waiting
    BY <2>0, <2>1, <2>2 DEF StoreType, StoreBufid
  <2>3. ASSUME NEW t \in Thread, Call(t) \/ Check(t) \/ LoadWrIndex(t) PROVE UNCHANGED Waiting
    BY <2>3 DEF Call, Check, LoadWrIndex, ring, Waiting, event_queue_size
  <2>4. ASSUME NEW t \in Thread, StoreWrIndex(t) PROVE CellFifo!Next
    <3>1. pc[t] = "store"
      BY <2>4 DEF StoreWrIndex, Goto
    <3>2. /\ wr_index' = Masked(wr_index + 1) /\ rd_index' = rd_index /\ evt' = evt
          /\ Masked(wr_index + 1) # rd_index
      BY <2>0, <2>4, <3>1 DEF StoreWrIndex, ProducerInv, QueueFull, Masked
    <3>3. /\ Waiting' = Append(Waiting, evt[wr_index]) /\ Masked(wr_index - rd_index) < VTC_EVENTS_COUNT - 1
      BY <2>0, <3>2, MovingWriteAppends, WaitingIsWaitingIn
    <3>4. /\ WaitingIn(wr_index, rd_index, evt) \in Seq(Cells)
          /\ Len(WaitingIn(wr_index, rd_index, evt)) = Masked(wr_index - rd_index)
      BY <2>0, WaitingIsSequence
    <3> QED BY <2>0, <3>3, <3>4, WaitingIsWaitingIn DEF CellFifo!Next, CellFifo!Schedule
  <2>5. CASE BeginProcess \/ LoadType \/ LoadBufid \/ FailProcess \/ UNCHANGED threadVars
    BY <2>5 DEF BeginProcess, LoadType, LoadBufid, FailProcess, ring, threadVars, Waiting,
                event_queue_size
  <2>6. CASE EndProcess
    <3>1. wr_index # rd_index /\ wr_index' = wr_index /\ rd_index' = Masked(rd_index + 1) /\ evt' = evt
      BY <2>0, <2>6, ThreadsSequences DEF EndProcess, schedule, EventsInOrder, HandlerHasHead
    <3>2. Waiting # << >> /\ Waiting' = Tail(Waiting)
      BY <2>0, <3>1, MovingReadConsumes, WaitingIsWaitingIn
    <3> QED BY <3>2 DEF CellFifo!Next, CellFifo!Consume
  <2> QED BY <2>2, <2>3, <2>4, <2>5, <2>6 DEF ThreadsNext, ScheduleIn, vertices_event_process
<1> QED BY <1>1, <1>2, ThreadsAreInOrder, PTL DEF ThreadsSpec
=============================================================================
