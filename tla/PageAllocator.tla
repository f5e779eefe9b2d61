--------------------------- MODULE PageAllocator ----------------------------
(***************************************************************************)
(* What kernel/mm/pmm.c promises its callers (page tables, the heap,       *)
(* memory regions of tasks): physical pages are lent to one holder at a    *)
(* time, always pages of usable memory, until the holder returns them.     *)
(***************************************************************************)
EXTENDS Naturals

CONSTANTS
    Holders,      \* the callers
    Pages,        \* the usable pages
    NoHolder      \* marks a page nobody holds, not one of Holders

VARIABLE holder   \* the holder of every usable page

Init == holder = [p \in Pages |-> NoHolder]

\* a non-empty set of pages nobody holds is lent to h
Lend(h) ==
    \E S \in SUBSET Pages :
        /\ S # {}
        /\ \A p \in S : holder[p] = NoHolder
        /\ holder' = [p \in Pages |-> IF p \in S THEN h ELSE holder[p]]

\* h returns some of the pages it holds
Return(h) ==
    \E S \in SUBSET Pages :
        /\ S # {}
        /\ \A p \in S : holder[p] = h
        /\ holder' = [p \in Pages |-> IF p \in S THEN NoHolder ELSE holder[p]]

Next == \E h \in Holders : Lend(h) \/ Return(h)

Spec == Init /\ [][Next]_holder
=============================================================================
