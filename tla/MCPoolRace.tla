----------------------------- MODULE MCPoolRace -----------------------------
(***************************************************************************)
(* A kernel thread, a process and a kernel pool of a few frames.           *)
(***************************************************************************)
EXTENDS PoolRace

CONSTANTS k, p

MCThread == KernelThread \cup Process
MCLock == {KernelLock, UserLock}
=============================================================================
