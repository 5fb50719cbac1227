----------------------------- MODULE MCApiQueue -----------------------------
(* A model-checking instance of ApiQueue. *)
EXTENDS ApiQueue

\* An order, a price read that may be retried, a bisection probe.
MCRequests ==
    {[write |-> TRUE, probe |-> FALSE, priority |-> 0],
     [write |-> FALSE, probe |-> FALSE, priority |-> 10],
     [write |-> FALSE, probe |-> TRUE, priority |-> 10]}
=============================================================================
