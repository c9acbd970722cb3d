-------------------------- MODULE MCKeyboardOutput --------------------------
(***************************************************************************)
(* KeyboardOutput k and another thread w, besides Main, on a small queue.  *)
(***************************************************************************)
EXTENDS KeyboardOutput

CONSTANTS k, w

MCCreated == <<k, w>>
MCPriority == [t \in Thread |-> 1]
=============================================================================
