------------------------------- MODULE PmmFit -------------------------------
(***************************************************************************)
(* What both page searches of kernel/mm/pmm.c look for: an aligned run of  *)
(* free pages.  Pages are numbered from pmm_reg_free.start; page p has     *)
(* the physical address (Base + p) * PAGE_SIZE.                            *)
(***************************************************************************)
EXTENDS Naturals

CONSTANTS
    PAGE_SIZE,    \* bytes in a page
    Base,         \* pmm_reg_free.start / PAGE_SIZE
    NumPages,     \* pages between pmm_reg_free.start and pmm_reg_free.end
    BmBits,       \* bits in the bitmap, pmm_bm_size * 8
    FreeMemory,   \* the pages __pmm_is_free_memory accepts
    Nums,         \* the page counts callers ask for or free
    Aligns        \* the alignments, in bytes, they ask for

(***************************************************************************)
(* pmm_reg_free.start is not below the end of the kernel image, so Base is *)
(* not 0.  No available mmap entry ends after pmm_reg_free.end.  The       *)
(* bitmap is rounded up to whole pages, so it covers the region (see the   *)
(* README for the one size of memory where up to 7 pages are not covered). *)
(***************************************************************************)
ASSUME PmmAssumption ==
    /\ PAGE_SIZE \in Nat \ {0}
    /\ Base \in Nat \ {0}
    /\ NumPages \in Nat \ {0}
    /\ BmBits \in Nat
    /\ NumPages =< BmBits
    /\ FreeMemory \subseteq 0 .. (NumPages - 1)
    /\ Nums \subseteq Nat /\ Aligns \subseteq Nat

Bits == 0 .. (BmBits - 1)

\* __pmm_bm_pos_to_addr
Address(p) == (Base + p) * PAGE_SIZE

\* the first check of pmm_alloc
AlignValid(align) ==
    align # 0 => /\ PAGE_SIZE > align => PAGE_SIZE % align = 0
                 /\ align > PAGE_SIZE => align % PAGE_SIZE = 0

\* start % (align ? align : 1) == 0
Aligned(p, align) == Address(p) % (IF align = 0 THEN 1 ELSE align) = 0

\* the page can be given away: bit clear and not reserved memory
Available(used, p) == p \notin used /\ p \in FreeMemory

\* num pages from page s lie below limit, are aligned and available
Fits(used, limit, num, align, s) ==
    /\ Aligned(s, align)
    /\ s + num =< limit
    /\ \A q \in s .. (s + num - 1) : Available(used, q)

\* s is the lowest page from which the request fits
FirstFit(used, from, limit, num, align, s) ==
    /\ Fits(used, limit, num, align, s)
    /\ \A t \in from .. (s - 1) : ~Fits(used, limit, num, align, t)

\* no page from which the request fits
NoFit(used, from, limit, num, align) ==
    \A t \in from .. limit : ~Fits(used, limit, num, align, t)
=============================================================================
