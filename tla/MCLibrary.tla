------------------------------ MODULE MCLibrary ------------------------------
(* The library: two lists whose elements move, of three elements, and        *)
(* all_thread_list with two; every memory of six bytes of two bits; every    *)
(* number of nine bits.  The parts share no state, so that a behaviour       *)
(* exercises one of them and has no memory or no number for the others.      *)
EXTENDS List, Strings, Format

VARIABLE part

NoMemory == <<>>
NoNumber == IntHalf

LibraryInit ==
    /\ list_init
    /\ \/ part = "list" /\ memory = NoMemory /\ number = NoNumber
       \/ part = "string" /\ StringsInit /\ number = NoNumber
       \/ part = "print" /\ memory = NoMemory /\ FormatInit

LibraryNext ==
    /\ \/ part = "list" /\ ListNext /\ UNCHANGED <<memory, number>>
       \/ part = "string" /\ StringsNext /\ UNCHANGED <<listVars, number>>
       \/ part = "print" /\ FormatNext /\ UNCHANGED <<listVars, memory>>
    /\ UNCHANGED part

LibrarySpec == LibraryInit /\ [][LibraryNext]_<<listVars, memory, number, part>>
=============================================================================
