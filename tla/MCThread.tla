------------------------------ MODULE MCThread ------------------------------
(* The scheduler with Main, one kernel thread and two user processes.       *)
EXTENDS Thread

CONSTANTS main, k, p, q

MCCreated == <<p, q, k>>
MCPriority == [t \in Thread |-> IF t = main THEN 2 ELSE 1]
=============================================================================
