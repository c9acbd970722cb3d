----------------------------- MODULE MCIoQueue -----------------------------
(***************************************************************************)
(* Producers p and q and a consumer c, besides Main, on a small queue.     *)
(* Every tick preempts: how long a quantum lasts is of no concern here.    *)
(***************************************************************************)
EXTENDS IoQueue

CONSTANTS p, q, c

MCCreated == <<p, q, c>>
MCPriority == [t \in Thread |-> 0]
=============================================================================
