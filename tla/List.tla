-------------------------------- MODULE List --------------------------------
(***************************************************************************)
(* The doubly linked lists of source/lib/kernel/list.c, pointer by pointer.*)
(* The other modules use sequences in their place; this one shows that     *)
(* they may.  Elements live inside their owners (general_tag of a PCB), so *)
(* that an element is on one list at a time.                               *)
(*                                                                         *)
(* Insertion and removal run with interrupts off and are atomic.           *)
(* elem_find does not turn them off: called with interrupts on, as         *)
(* ThreadStart does for ready_thread_list, it is a walk during which other *)
(* threads change the lists.                                               *)
(***************************************************************************)
EXTENDS Naturals, Sequences, FiniteSets, Functions, SequencesExt

CONSTANTS
    ready,      \* the lists whose elements move about: ready_thread_list, waiters
    all,        \* all_thread_list, to which elements are only appended
    Tag,        \* the elements of the lists of ready: general_tag of each PCB
    AllTag,     \* the elements of all: all_list_tag of each PCB
    Walked,     \* the lists that elem_find walks with interrupts on
    NoElem

Elem == Tag \cup AllTag
Lists == ready \cup {all}

ASSUME ListAssumption ==
    /\ Walked \subseteq Lists
    /\ all \notin ready
    /\ Tag \cap AllTag = {}
    /\ IsFiniteSet(Elem)

head(l) == <<l, "head">>
tail(l) == <<l, "tail">>
Node == Elem \cup (Lists \X {"head", "tail"})

VARIABLES
    next, prev,     \* the two pointers of every list_elem
    content,        \* what the lists are meant to hold, as sequences
    plist,          \* the list an elem_find walks; NoElem if none does
    elem,           \* its cursor
    strayed         \* whether the element at the cursor has left a list since

walkVars == <<plist, elem, strayed>>
listVars == <<next, prev, content, walkVars>>

\* An element that was never on a list has arbitrary pointers; NoElem will do.
list_init ==
    /\ next = [x \in Node |-> IF \E l \in Lists : x = head(l) THEN tail(x[1]) ELSE NoElem]
    /\ prev = [x \in Node |-> IF \E l \in Lists : x = tail(l) THEN head(x[1]) ELSE NoElem]
    /\ content = [l \in Lists |-> <<>>]
    /\ plist = NoElem
    /\ elem = NoElem
    /\ strayed = FALSE

-----------------------------------------------------------------------------
list_insert_before(before, e) ==
    /\ next' = [next EXCEPT ![prev[before]] = e, ![e] = before]
    /\ prev' = [prev EXCEPT ![e] = prev[before], ![before] = e]

\* Mutant: the successor keeps pointing to the element.
list_remove_OneWay(e) ==
    /\ next' = [next EXCEPT ![prev[e]] = next[e]]
    /\ UNCHANGED prev

\* The element keeps its own pointers.
list_remove(e) ==
    /\ next' = [next EXCEPT ![prev[e]] = next[e]]
    /\ prev' = [prev EXCEPT ![next[e]] = prev[e]]

\* Callers insert only elements that are on no list, in the lists of their kind.
Insertable(l, e) ==
    /\ (e \in AllTag) <=> (l = all)
    /\ \A m \in Lists : e \notin Range(content[m])

list_push(l, e) ==
    /\ Insertable(l, e)
    /\ list_insert_before(next[head(l)], e)
    /\ content' = [content EXCEPT ![l] = <<e>> \o @]
    /\ UNCHANGED walkVars

list_append(l, e) ==
    /\ Insertable(l, e)
    /\ list_insert_before(tail(l), e)
    /\ content' = [content EXCEPT ![l] = Append(@, e)]
    /\ UNCHANGED walkVars

\* A walk that is at element e when it is taken off its list.
Strays(e) ==
    /\ strayed' = (strayed \/ (plist # NoElem /\ elem = e))
    /\ UNCHANGED <<plist, elem>>

\* Callers make sure that the list is not empty.
list_pop(l) ==
    /\ content[l] # <<>>
    /\ list_remove(next[head(l)])
    /\ content' = [content EXCEPT ![l] = Tail(@)]
    /\ Strays(next[head(l)])

\* list_remove, called by sys_free for an element anywhere on the list.
RemoveFrom(l, e) ==
    /\ e \in Range(content[l])
    /\ list_remove(e)
    /\ content' = [content EXCEPT ![l] = SelectSeq(@, LAMBDA x : x # e)]
    /\ Strays(e)

-----------------------------------------------------------------------------
(***************************************************************************)
(* elem_find on a list of Walked, for an element that is on no list (what  *)
(* ThreadStart asserts of a new PCB), with interrupts on: the loads of     *)
(* elem->next are steps of their own.                                      *)
(***************************************************************************)
elem_find(l) ==
    /\ plist = NoElem
    /\ plist' = l
    /\ elem' = next[head(l)]
    /\ UNCHANGED <<next, prev, content, strayed>>

\* Mutant: the loop takes the tail for an element.
FindNext_PastTail ==
    /\ plist # NoElem
    /\ elem # NoElem
    /\ elem' = next[elem]
    /\ UNCHANGED <<next, prev, content, plist, strayed>>

\* One round of the loop; with elem = NoElem its ASSERT fails and there is none.
FindNext ==
    /\ plist # NoElem
    /\ elem \notin {tail(plist), NoElem}
    /\ elem' = next[elem]
    /\ UNCHANGED <<next, prev, content, plist, strayed>>

FindReturns ==
    /\ plist # NoElem
    /\ elem = tail(plist)
    /\ plist' = NoElem
    /\ elem' = NoElem
    /\ strayed' = FALSE
    /\ UNCHANGED <<next, prev, content>>

ListNext ==
    \/ \E l \in ready : list_pop(l)
    \/ \E l \in ready, e \in Tag : list_push(l, e) \/ RemoveFrom(l, e)
    \/ \E l \in Lists, e \in Elem : list_append(l, e)
    \/ \E l \in Walked : elem_find(l)
    \/ FindNext
    \/ FindReturns

ListSpec == list_init /\ [][ListNext]_listVars

-----------------------------------------------------------------------------
\* The elements met by following a pointer from node x to the end of its list.
\* elem_find, list_traversal and list_len go over Walk(next, head(l)).
Walk(pointer, x) ==
    LET N == Cardinality(Elem)
        at[i \in 0..N] ==
            IF i = 0 THEN pointer[x]
            ELSE IF at[i - 1] \in Elem THEN pointer[at[i - 1]] ELSE at[i - 1]
    IN  SelectSeq([i \in 1..(N + 1) |-> at[i - 1]], LAMBDA y : y \in Elem)

list_len(l) == Len(Walk(next, head(l)))

list_empty(l) == next[head(l)] = tail(l)

-----------------------------------------------------------------------------
\* The pointers of a list spell the sequence the operations promise: forwards
\* from its head, backwards from its tail, whatever push, append, pop and
\* remove came before on this list or another, though list_remove leaves the
\* pointers of the removed element as they are (list.c:53-61).
PointersSpell ==
    \A l \in Lists :
        /\ Walk(next, head(l)) = content[l]
        /\ Walk(prev, tail(l)) = Reverse(content[l])
        /\ list_len(l) = Len(content[l])
        /\ list_empty(l) <=> content[l] = <<>>

(***************************************************************************)
(* elem_find with interrupts on, as ThreadStart calls it, stays on its     *)
(* list and its ASSERT(elem != NoElem) holds (list.c:77), whatever is put    *)
(* in front of it, behind it or taken from around it, unless the element   *)
(* it has reached is itself taken off; on all_thread_list nothing is, and  *)
(* the walk is always safe.                                                *)
(***************************************************************************)
FindStaysOnList ==
    /\ plist # NoElem /\ ~ strayed => elem \in Range(content[plist]) \cup {tail(plist)}
    /\ plist = all => ~ strayed
=============================================================================
