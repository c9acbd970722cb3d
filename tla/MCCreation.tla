----------------------------- MODULE MCCreation -----------------------------
(* Two threads that create others, a process, and a pool of three frames.   *)
EXTENDS Creation

MCThread == KernelThread \cup Process
MCLock == {KernelLock, UserLock, PidLock}
=============================================================================
