----------------------------- MODULE EventQueue -----------------------------
(***************************************************************************)
(* The ring of events of src/src/vertices.c with its producer              *)
(* vertices_event_schedule and its consumer vertices_event_process.        *)
(* Processing an event is not one step: between the moment the head is     *)
(* read and the moment rd_index moves, transaction_pending_send and the    *)
(* user's handler run, and both call vertices_event_schedule.  The handler *)
(* is given a pointer INTO the ring, and the type and bufid of the head    *)
(* are read again from the ring after it returns.                          *)
(***************************************************************************)
EXTENDS EventRing

CONSTANTS Event,        \* the events (type and bufid) clients schedule
          ZeroEvent,    \* what `= {0}' leaves in the ring
          NoEvent       \* nothing is being processed

ASSUME EventAssumption == ZeroEvent \in Event /\ NoEvent \notin Event

VARIABLE handling     \* the head as vertices_event_process read it

vars == <<wr_index, rd_index, evt, handling>>

Init ==
  /\ wr_index = 0
  /\ rd_index = 0
  /\ evt = [i \in Index |-> ZeroEvent]
  /\ handling = NoEvent

(* mutant: the index moves before the event is stored *)
ScheduledOneFurther(e) ==
  /\ ~QueueFull
  /\ evt' = [evt EXCEPT ![Masked(wr_index + 1)] = e]
  /\ wr_index' = Masked(wr_index + 1)
  /\ UNCHANGED <<rd_index, handling>>

(* vertices_event_schedule, called by the application, by                  *)
(* transaction_pay/appl, or from inside vertices_event_process.            *)
vertices_event_schedule(e) ==
  /\ ~QueueFull
  /\ evt' = [evt EXCEPT ![wr_index] = e]
  /\ wr_index' = Masked(wr_index + 1)
  /\ UNCHANGED <<rd_index, handling>>

(* vertices_event_process up to the call of the handler *)
ProcessBegin ==
  /\ handling = NoEvent
  /\ event_queue_size # 0
  /\ handling' = evt[rd_index]
  /\ UNCHANGED <<wr_index, rd_index, evt>>

(* the pre-processing, the handler or the post-processing failed: the      *)
(* event stays at the head and the next call starts it again               *)
ProcessFail ==
  /\ handling # NoEvent
  /\ handling' = NoEvent
  /\ UNCHANGED <<wr_index, rd_index, evt>>

(* `successful processing, we can increment the read index' *)
ProcessEnd ==
  /\ handling # NoEvent
  /\ rd_index' = Masked(rd_index + 1)
  /\ handling' = NoEvent
  /\ UNCHANGED <<wr_index, evt>>

Next ==
  \/ \E e \in Event : vertices_event_schedule(e)
  \/ ProcessBegin
  \/ ProcessFail
  \/ ProcessEnd

Spec == Init /\ [][Next]_vars

(* The application calls vertices_event_process again and again            *)
(* (vertices.h:102) and a handler does not fail for ever.                  *)
FairSpec == Spec /\ WF_vars(ProcessBegin) /\ SF_vars(ProcessEnd)
-----------------------------------------------------------------------------
TypeOK ==
  /\ wr_index \in Index
  /\ rd_index \in Index
  /\ evt \in [Index -> Event]
  /\ handling \in Event \cup {NoEvent}

(* The event whose processing has begun is still the one in the ring at    *)
(* rd_index when the handler returns, whatever was scheduled meanwhile:    *)
(* the post-processing of vertices_event_process (lines 320-335) acts on   *)
(* the event the pre-processing (lines 285-295) acted on.                  *)
HandledIsHead ==
  handling # NoEvent => event_queue_size # 0 /\ evt[rd_index] = handling

(* The ring is a FIFO of VTC_EVENTS_COUNT - 1 events: one cell stays free  *)
(* to tell a full ring from an empty one.                                  *)
Fifo == INSTANCE EventFifo WITH waiting <- Waiting,
                                Capacity <- VTC_EVENTS_COUNT - 1

(* A completed vertices_event_process removes the head and nothing else    *)
(* but scheduling changes the events that wait, so none is lost, changed   *)
(* or reordered by the reentrant calls of vertices_event_schedule; and     *)
(* every event is in the end consumed.                                     *)
ImplementsFifo == Fifo!FairSpec

(* What a call of vertices_event_schedule adds is the event it was given,  *)
(* behind all those that wait, wherever in the ring the indexes are.       *)
ScheduledIsAppended ==
  [][\A e \in Event : vertices_event_schedule(e) => Waiting' = Append(Waiting, e)]_vars
=============================================================================
