----------------------------- MODULE EventRing -----------------------------
(***************************************************************************)
(* m_events_queue of src/src/vertices.c: a ring of events, of which the    *)
(* ones from rd_index to wr_index wait.  EventQueue and EventThreads add   *)
(* the operations: in one thread, and access by access in two.             *)
(***************************************************************************)
EXTENDS Integers, Sequences

CONSTANT VTC_EVENTS_COUNT      \* size of the ring, a power of 2

ASSUME CountAssumption == VTC_EVENTS_COUNT \in Nat /\ VTC_EVENTS_COUNT >= 2

VARIABLES wr_index, rd_index, evt   \* m_events_queue

ring == <<wr_index, rd_index, evt>>

Index == 0 .. VTC_EVENTS_COUNT - 1

(* `i & (VTC_EVENTS_COUNT - 1)', which for a power of 2 is the remainder   *)
(* (MCEventQueue checks that against the bitwise operation).               *)
Masked(i) == i % VTC_EVENTS_COUNT

event_queue_size == Masked(wr_index - rd_index)

(* mutant: a full ring is not noticed *)
QueueNeverFull == FALSE

QueueFull == (wr_index + 1) % VTC_EVENTS_COUNT = rd_index

(* The events that wait, oldest first *)
Waiting == [i \in 1 .. event_queue_size |-> evt[Masked(rd_index + i - 1)]]
=============================================================================
