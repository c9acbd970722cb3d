----------------------------- MODULE MCProcess -----------------------------
(***************************************************************************)
(* What a process has.  Its address space: directories and tables of five  *)
(* entries, for the low memory, two tables of a process, one of the kernel *)
(* and the directory itself; two processes, whose pages lie on both sides  *)
(* of the border between their tables.  Its registers: a program, another  *)
(* kernel thread and Main.  Its heap: pages of eight bytes with a header   *)
(* of two, three blocks of two bytes or one of four, as 4096 bytes hold    *)
(* 255 blocks of 16 and three of 1024.  They share no state, so that a     *)
(* behaviour exercises one of them.                                        *)
(***************************************************************************)
EXTENDS AddressSpace, Context, Arena

VARIABLE part

ProcessInit ==
    /\ SpaceInit /\ ContextInit /\ ArenaInit
    /\ part \in {"space", "context", "heap"}

ProcessNext ==
    /\ \/ part = "space" /\ SpaceNext /\ UNCHANGED <<contextVars, heapVars>>
       \/ part = "context" /\ ContextNext /\ UNCHANGED <<spaceVars, heapVars>>
       \/ part = "heap" /\ ArenaNext /\ UNCHANGED <<spaceVars, contextVars>>
    /\ UNCHANGED part

ProcessSpec == ProcessInit /\ [][ProcessNext]_<<spaceVars, contextVars, heapVars, part>>
=============================================================================
