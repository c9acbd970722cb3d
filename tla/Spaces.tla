------------------------------- MODULE Spaces -------------------------------
(***************************************************************************)
(* What the page tables promise: one address space for the kernel and one  *)
(* for every process, each a function from pages to page frames.  What the *)
(* kernel maps or unmaps, it does in all of them; what a process maps or   *)
(* unmaps, in its own.  A frame is behind one page at a time.              *)
(***************************************************************************)
CONSTANTS
    Process,
    Boot,       \* what is mapped from the start, as a function
    Heap,       \* the pages of the kernel's heap
    UserPage,   \* the pages that belong to a process
    Frame,      \* the frames of the two pools
    NoFrame

VARIABLE space  \* the spaces that exist

Kernel == "kernel"
Page == DOMAIN Boot \cup Heap \cup UserPage

SpacesInit ==
    space = [s \in {Kernel} |->
                [v \in Page |-> IF v \in DOMAIN Boot THEN Boot[v] ELSE NoFrame]]

\* Page v of space s has no frame, and gets one that was behind no page.
Gets(s, v) ==
    /\ space[s][v] = NoFrame
    /\ space'[s][v] \in Frame
    /\ \A r \in DOMAIN space, u \in Page : space[r][u] # space'[s][v]

MapKernel(v) ==
    /\ Gets(Kernel, v)
    /\ space' = [s \in DOMAIN space |-> [space[s] EXCEPT ![v] = space'[Kernel][v]]]

UnmapKernel(v) ==
    /\ space[Kernel][v] # NoFrame
    /\ space' = [s \in DOMAIN space |-> [space[s] EXCEPT ![v] = NoFrame]]

\* A new process; its page directory lies in page v of the heap.
Create(q, v) ==
    /\ q \notin DOMAIN space
    /\ Gets(Kernel, v)
    /\ space' = [s \in DOMAIN space \cup {q} |->
                    [space[IF s = q THEN Kernel ELSE s] EXCEPT ![v] = space'[Kernel][v]]]

MapUser(q, v) ==
    /\ Gets(q, v)
    /\ space' = [space EXCEPT ![q][v] = space'[q][v]]

UnmapUser(q, v) ==
    /\ space[q][v] # NoFrame
    /\ space' = [space EXCEPT ![q][v] = NoFrame]

SpacesNext ==
    \/ \E v \in Heap : MapKernel(v) \/ UnmapKernel(v) \/ \E q \in Process : Create(q, v)
    \/ \E q \in Process \cap DOMAIN space, v \in UserPage : MapUser(q, v) \/ UnmapUser(q, v)

SpacesSpec == SpacesInit /\ [][SpacesNext]_space
=============================================================================
