--------------------------- MODULE AbstractQueue ---------------------------
(***************************************************************************)
(* What a bounded character queue promises: bytes come out in the order in *)
(* which they went in, none is lost, duplicated or made up, and at most    *)
(* Capacity of them are under way.                                         *)
(***************************************************************************)
EXTENDS Naturals, Sequences

CONSTANTS Byte, Capacity, Receiver, None

VARIABLES
    content,    \* the bytes under way, oldest first
    out         \* the byte each receiver got last

QueueInit == content = <<>> /\ out = [r \in Receiver |-> None]

Put(b) ==
    /\ Len(content) < Capacity
    /\ content' = Append(content, b)
    /\ UNCHANGED out

Get(r) ==
    /\ content # <<>>
    /\ out' = [out EXCEPT ![r] = Head(content)]
    /\ content' = Tail(content)

QueueNext == (\E b \in Byte : Put(b)) \/ (\E r \in Receiver : Get(r))

QueueSpec == QueueInit /\ [][QueueNext]_<<content, out>>
=============================================================================
