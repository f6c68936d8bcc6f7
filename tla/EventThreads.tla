---------------------------- MODULE EventThreads ----------------------------
(***************************************************************************)
(* The ring used the way vertices.h:102 proposes: vertices_event_process   *)
(* is called from an OS task of its own, while the application calls       *)
(* transaction_pay and transaction_appl, which schedule events, in its own *)
(* thread.  Nothing in vertices.c is locked, so each load and store of     *)
(* m_events_queue is a step of its own here; they take effect in program   *)
(* order.  The task schedules, too: the SDK itself when an event SENDING   *)
(* was sent (algorand_transaction.c:441), and a client's handler when it   *)
(* has signed (main.cpp:79).                                               *)
(***************************************************************************)
EXTENDS EventRing

CONSTANT MaxEvents          \* bound: calls of vertices_event_schedule

VARIABLES pc,         \* where each thread is in vertices_event_schedule
          new,        \* the event each thread is scheduling
          reg,        \* wr_index as increment_event_index loaded it
          calls,      \* events the threads began to schedule
          accepted,   \* the events whose schedule returned VTC_SUCCESS
          task,       \* where the task is in vertices_event_process
          seen,       \* the type of the event as the task loaded it
          processed,  \* the events the handler was given and did not refuse
          overlapped  \* history: did two calls of vertices_event_schedule overlap?

schedule == <<pc, new, reg, calls, accepted, overlapped>>
process == <<task, seen, processed>>

threadVars == <<wr_index, rd_index, evt, pc, new, reg, calls, accepted, overlapped,
                task, seen, processed>>

Thread == {"app", "task"}

(* Event number n has type n and bufid n; a cell of the ring that mixes    *)
(* the fields of two events shows that it does.  0 is what `= {0}' leaves. *)
Cells == [type : Nat, bufid : Nat]

ThreadsInit ==
  /\ wr_index = 0
  /\ rd_index = 0
  /\ evt = [i \in Index |-> [type |-> 0, bufid |-> 0]]
  /\ pc = [t \in Thread |-> "idle"]
  /\ new = [t \in Thread |-> 0]
  /\ reg = [t \in Thread |-> 0]
  /\ calls = 0
  /\ accepted = {}
  /\ overlapped = FALSE
  /\ task = "outside"
  /\ seen = 0
  /\ processed = << >>
-----------------------------------------------------------------------------
(* vertices_event_schedule, one access of the ring after the other *)
Goto(t, from, to) == pc[t] = from /\ pc' = [pc EXCEPT ![t] = to]

(* the task schedules while it sends, or from the client's handler *)
MaySchedule(t) == t = "app" \/ task \in {"sending", "handler"}

Call(t) ==
  /\ calls < MaxEvents
  /\ MaySchedule(t)
  /\ Goto(t, "idle", "check")
  /\ calls' = calls + 1
  /\ new' = [new EXCEPT ![t] = calls + 1]
  /\ overlapped' = (overlapped \/ \E u \in Thread \ {t} : pc[u] # "idle")
  /\ UNCHANGED <<ring, reg, accepted, process>>

Check(t) ==
  /\ Goto(t, "check", IF QueueFull THEN "idle" ELSE "type")
  /\ UNCHANGED <<ring, new, reg, calls, accepted, overlapped, process>>

StoreType(t) ==
  /\ Goto(t, "type", "bufid")
  /\ evt' = [evt EXCEPT ![wr_index].type = new[t]]
  /\ UNCHANGED <<wr_index, rd_index, new, reg, calls, accepted, overlapped, process>>

StoreBufid(t) ==
  /\ Goto(t, "bufid", "load")
  /\ evt' = [evt EXCEPT ![wr_index].bufid = new[t]]
  /\ UNCHANGED <<wr_index, rd_index, new, reg, calls, accepted, overlapped, process>>

LoadWrIndex(t) ==
  /\ Goto(t, "load", "store")
  /\ reg' = [reg EXCEPT ![t] = wr_index]
  /\ UNCHANGED <<ring, new, calls, accepted, overlapped, process>>

StoreWrIndex(t) ==
  /\ Goto(t, "store", "idle")
  /\ wr_index' = Masked(reg[t] + 1)
  /\ accepted' = accepted \cup {new[t]}
  /\ UNCHANGED <<rd_index, evt, new, reg, calls, overlapped, process>>

ScheduleIn(t) ==
  \/ Call(t) \/ Check(t) \/ StoreType(t) \/ StoreBufid(t) \/ LoadWrIndex(t) \/ StoreWrIndex(t)
-----------------------------------------------------------------------------
(* vertices_event_process, in the task *)
NotEmpty == wr_index # rd_index

(* what is done before the handler: transaction_pending_send *)
BeginProcess ==
  /\ task = "outside"
  /\ NotEmpty
  /\ task' = "sending"
  /\ UNCHANGED <<ring, schedule, seen, processed>>

(* the handler is given a pointer to the cell, of which it loads the type *)
LoadType ==
  /\ task = "sending"
  /\ pc["task"] = "idle"
  /\ task' = "loading"
  /\ seen' = evt[rd_index].type
  /\ UNCHANGED <<ring, schedule, processed>>

(* ... and the bufid *)
LoadBufid ==
  /\ task = "loading"
  /\ task' = "handler"
  /\ processed' = Append(processed, [type |-> seen, bufid |-> evt[rd_index].bufid])
  /\ UNCHANGED <<ring, schedule, seen>>

(* the processing succeeded *)
EndProcess ==
  /\ task = "handler"
  /\ pc["task"] = "idle"
  /\ task' = "outside"
  /\ rd_index' = Masked(rd_index + 1)
  /\ UNCHANGED <<wr_index, evt, schedule, seen, processed>>

(* it failed, before the handler or in it: the next call begins again with *)
(* the same head                                                           *)
FailProcess ==
  /\ task \in {"sending", "handler"}
  /\ pc["task"] = "idle"
  /\ task' = "outside"
  /\ processed' = IF task = "sending" THEN processed
                                      ELSE SubSeq(processed, 1, Len(processed) - 1)
  /\ UNCHANGED <<ring, schedule, seen>>

vertices_event_process == BeginProcess \/ LoadType \/ LoadBufid \/ EndProcess \/ FailProcess

ThreadsNext == (\E t \in Thread : ScheduleIn(t)) \/ vertices_event_process

ThreadsSpec == ThreadsInit /\ [][ThreadsNext]_threadVars
-----------------------------------------------------------------------------
ThreadsTypeOK ==
  /\ wr_index \in Index /\ rd_index \in Index
  /\ evt \in [Index -> Cells]
  /\ pc \in [Thread -> {"idle", "check", "type", "bufid", "load", "store"}]
  /\ new \in [Thread -> Nat] /\ reg \in [Thread -> Index]
  /\ calls \in Nat
  /\ accepted \subseteq Nat
  /\ overlapped \in BOOLEAN
  /\ task \in {"outside", "sending", "loading", "handler"}
  /\ seen \in Nat
  /\ processed \in Seq(Cells)

(* The handler's pointer into the ring shows the same event for as long as *)
(* the handler runs, whatever is scheduled meanwhile.                      *)
HeadStays == task = "handler" => evt[rd_index] = processed[Len(processed)]

(* The handler never sees a cell that is half written, nor events in       *)
(* another order than they were scheduled in.                              *)
WholeAndInOrder ==
  \A i, j \in 1 .. Len(processed) :
    /\ processed[i].type = processed[i].bufid
    /\ i < j => processed[i].type < processed[j].type

(* vertices.h:93-97 and 101: when vertices_event_schedule returns          *)
(* VTC_SUCCESS the event is in the queue until it is processed.            *)
AcceptedIsKept ==
  \A n \in accepted :
    \/ \E i \in 1 .. Len(processed) : processed[i].type = n
    \/ \E i \in 1 .. Len(Waiting) : Waiting[i].type = n

(* The events that wait as a FIFO of whole cells (a step that ends a       *)
(* schedule appends one, one that ends a processing takes the head).       *)
CellFifo == INSTANCE EventFifo WITH waiting <- Waiting, Event <- Cells,
                                    Capacity <- VTC_EVENTS_COUNT - 1
=============================================================================
