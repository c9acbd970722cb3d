------------------------------- MODULE MCSync -------------------------------
(* Main and two threads that compete for one lock.                         *)
EXTENDS Sync

CONSTANTS main, s, u, a

MCCreated == <<s, u>>
MCPriority == [x \in Thread |-> 1]
=============================================================================
