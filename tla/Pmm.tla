-------------------------------- MODULE Pmm ---------------------------------
(***************************************************************************)
(* The physical memory manager, kernel/mm/pmm.c.  Until its bitmap exists  *)
(* pages are taken from a position that only moves up; pmm_init then marks *)
(* everything below that position as used and the bitmap takes over.  The  *)
(* search of an allocation is one step here: interrupts are off while it   *)
(* runs, and PmmScan shows that the loop computes FirstFit.                *)
(***************************************************************************)
EXTENDS PmmFit

CONSTANTS
    Holders,      \* the callers: page tables, heap, task regions
    NoHolder

ASSUME CallerAssumption == NoHolder \notin Holders

VARIABLES
    ready,        \* __pmm_bm_is_ready()
    pos,          \* pmm_reg_free.pos, in pages
    used,         \* the bits of pmm_bm that are set
    held          \* what each caller got and has not freed

vars == <<ready, pos, used, held>>

Run(s, n) == s .. (s + n - 1)

\* pmm_init up to the allocation of the bitmap: the region is known
Init ==
    /\ ready = FALSE
    /\ pos = 0
    /\ used = {}
    /\ held = [h \in Holders |-> {}]

\* mutant of Advance: the position stays
AdvanceNot(s, n) == pos

\* pmm_reg_free.pos = pos
Advance(s, n) == s + n

\* __pmm_alloc_no_bm; a failing request changes nothing
AllocNoBm(h, n, align) ==
    /\ ~ready
    /\ AlignValid(align)
    /\ n > 0
    /\ \E s \in pos .. NumPages :
        /\ FirstFit({}, pos, NumPages, n, align, s)
        /\ pos' = Advance(s, n)
        /\ held' = [held EXCEPT ![h] = @ \cup Run(s, n)]
    /\ UNCHANGED <<ready, used>>

\* mutant of BootBits: the last page is not set
BootBitsShort == {p \in Bits : p + 1 < pos}

\* the loop at the end of pmm_init sets the bits below pmm_reg_free.pos
BootBits == {p \in Bits : p < pos}

\* the rest of pmm_init, once vmm_map returned pages for the bitmap
InitBitmap ==
    /\ ~ready
    /\ pos > 0
    /\ ready' = TRUE
    /\ used' = BootBits
    /\ UNCHANGED <<pos, held>>

\* mutant of SetBits: one bit too many is set
SetBitsLong(s, n) == used \cup (Run(s, n + 1) \cap Bits)

\* the marking loop at the end of pmm_alloc
SetBits(s, n) == used \cup Run(s, n)

\* pmm_alloc with a bitmap; a failing request changes nothing
Alloc(h, n, align) ==
    /\ ready
    /\ AlignValid(align)
    /\ n > 0
    /\ \E s \in Bits :
        /\ FirstFit(used, 0, BmBits, n, align, s)
        /\ used' = SetBits(s, n)
        /\ held' = [held EXCEPT ![h] = @ \cup Run(s, n)]
    /\ UNCHANGED <<ready, pos>>

(***************************************************************************)
(* pmm_free clears bits from page p on until n are cleared, and stops with *)
(* an error at a clear bit (a double free) or at the end of the bitmap;    *)
(* what it cleared stays cleared.  The caller frees pages it holds: this   *)
(* is the contract, which no check in pmm_free enforces.  The pages after  *)
(* the one that stops the loop may be anything.                            *)
(***************************************************************************)
Free(h, p, n) ==
    /\ ready
    /\ p \in Bits
    /\ \E k \in 1 .. n :
        /\ Run(p, k) \subseteq used
        /\ k < n => (p + k) \notin used
        /\ Run(p, k) \subseteq held[h]
        /\ used' = used \ Run(p, k)
        /\ held' = [held EXCEPT ![h] = @ \ Run(p, k)]
    /\ UNCHANGED <<ready, pos>>

Next ==
    \/ InitBitmap
    \/ \E h \in Holders, n \in Nums :
        \/ \E a \in Aligns : AllocNoBm(h, n, a) \/ Alloc(h, n, a)
        \/ \E p \in Bits : Free(h, p, n)

Spec == Init /\ [][Next]_vars
-----------------------------------------------------------------------------
\* The position and the bitmap stay within the region pmm_init found.
TypeOK ==
    /\ ready \in BOOLEAN
    /\ pos \in 0 .. NumPages
    /\ used \in SUBSET Bits
    /\ held \in [Holders -> SUBSET Bits]

(***************************************************************************)
(* No page is lent to two callers of pmm_alloc at once, across the change  *)
(* from the position to the bitmap and across frees that stop half way.    *)
(***************************************************************************)
Exclusive ==
    \A g, h \in Holders : g # h => held[g] \cap held[h] = {}

(***************************************************************************)
(* Once pmm_init is done, the bit of every page in use is set: neither the *)
(* boot allocations nor an interrupted free leave a held page looking free.*)
(***************************************************************************)
HeldIsMarked == ready => \A h \in Holders : held[h] \subseteq used

(***************************************************************************)
(* A set bit means a page somebody holds, except below the position of the *)
(* boot allocator (pages it skipped are never given back): pmm_alloc and   *)
(* pmm_free lose no memory.                                                *)
(***************************************************************************)
NoLostPages == \A p \in used : p < pos \/ \E h \in Holders : p \in held[h]

(***************************************************************************)
(* Memory that __pmm_is_free_memory rejects (VGA, kernel image, multiboot  *)
(* info, holes of the memory map) is never handed out.                     *)
(***************************************************************************)
OnlyUsableMemory == \A h \in Holders : held[h] \subseteq FreeMemory

\* the boot allocator has not passed a page it could give out twice
BootInv == ~ready => /\ used = {}
                     /\ \A h \in Holders : held[h] \subseteq 0 .. (pos - 1)

\* What every operation of pmm.c preserves; inductive.
IInv ==
    /\ TypeOK
    /\ Exclusive
    /\ HeldIsMarked
    /\ NoLostPages
    /\ OnlyUsableMemory
    /\ BootInv

\* the caller a page is lent to
HolderOf(p) ==
    IF \E h \in Holders : p \in held[h]
    THEN CHOOSE h \in Holders : p \in held[h]
    ELSE NoHolder

PA == INSTANCE PageAllocator
          WITH Pages <- FreeMemory,
               holder <- [p \in FreeMemory |-> HolderOf(p)]

\* pmm_alloc and pmm_free implement the lending of pages to one holder each.
LendsPages == PA!Spec
=============================================================================
