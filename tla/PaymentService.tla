--------------------------- MODULE PaymentService ---------------------------
(***************************************************************************)
(* What an application sees of vertices_transaction_pay_new, of            *)
(* vertices_transaction_app_call and of vertices_event_process when the    *)
(* handler does its work: transactions are numbered as they are accepted   *)
(* by the SDK, the node executes them in that order, each one once, and    *)
(* their identifiers are reported in that order, never before the node     *)
(* has accepted the transaction; at most Outstanding of them are on        *)
(* their way.                                                              *)
(***************************************************************************)
EXTENDS Naturals

CONSTANT Outstanding       \* how many transactions the SDK can hold

VARIABLES submitted,       \* transactions 1 .. submitted were accepted by the SDK
          executed,        \* transactions 1 .. executed were accepted by the node
          confirmed        \* transactions 1 .. confirmed were reported

vars == <<submitted, executed, confirmed>>

Init == submitted = 0 /\ executed = 0 /\ confirmed = 0

Submit ==
  /\ submitted < confirmed + Outstanding
  /\ submitted' = submitted + 1
  /\ UNCHANGED <<executed, confirmed>>

Execute ==
  /\ executed < submitted
  /\ executed' = executed + 1
  /\ UNCHANGED <<submitted, confirmed>>

Confirm ==
  /\ confirmed < executed
  /\ confirmed' = confirmed + 1
  /\ UNCHANGED <<submitted, executed>>

Next == Submit \/ Execute \/ Confirm

Spec == Init /\ [][Next]_vars
=============================================================================
