----------------------------- MODULE MCRequests -----------------------------
(* Nodes with a port of their own, the default port, and no header at all. *)
EXTENDS RequestsProps

MCNode == {[url |-> "a", port |-> 8080, header |-> ""],
           [url |-> "b", port |-> 0, header |-> "X-API-Key"],
           [url |-> "c", port |-> 0, header |-> "NULL"]}
MCPosting == {[url |-> "a", port |-> 8080, header |-> ""]}
=============================================================================
