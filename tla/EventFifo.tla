----------------------------- MODULE EventFifo -----------------------------
(***************************************************************************)
(* What the SDK's event queue promises (vertices.h:91-107): events leave   *)
(* in the order they were accepted, none is lost, duplicated or changed    *)
(* while it waits, and an event is refused only when Capacity are waiting. *)
(***************************************************************************)
EXTENDS Naturals, Sequences

CONSTANTS Event,      \* the events a client may schedule
          Capacity    \* how many of them can wait at the same time

VARIABLE waiting      \* the accepted events that are not yet processed

TypeOK == waiting \in Seq(Event)

Init == waiting = << >>

Schedule(e) == Len(waiting) < Capacity /\ waiting' = Append(waiting, e)

Consume == waiting # << >> /\ waiting' = Tail(waiting)

Next == Consume \/ \E e \in Event : Schedule(e)

Spec == Init /\ [][Next]_waiting

(* Whoever processes the events comes back until the queue is empty. *)
FairSpec == Spec /\ WF_waiting(Consume)
=============================================================================
