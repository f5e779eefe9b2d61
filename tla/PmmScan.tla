------------------------------ MODULE PmmScan -------------------------------
(***************************************************************************)
(* The search loop of pmm_alloc, and of __pmm_alloc_no_bm, iteration by    *)
(* iteration.  The two loops differ in where they start (from), where they *)
(* stop (limit) and in whether bits are looked at (bits = {} without a     *)
(* bitmap); they share the counting of consecutive pages and the restart   *)
(* of the run, which is where an allocator goes wrong.                     *)
(***************************************************************************)
EXTENDS PmmFit

VARIABLES
    bits,         \* bits set in pmm_bm ({} in __pmm_alloc_no_bm)
    from, limit,  \* first page looked at, page at which the loop breaks
    num, align,   \* the arguments
    page,         \* page of the current iteration
    cur,          \* available pages in a row before page
    start,        \* first page of that run
    pc            \* "loop", "found" (returns start), "null" (returns NULL)

request == <<bits, from, limit, num, align>>
scanVars == <<request, page, cur, start, pc>>

WithBitmap == bits \in SUBSET Bits /\ from = 0 /\ limit = BmBits

WithoutBitmap == bits = {} /\ from \in 0 .. NumPages /\ limit = NumPages

\* past the alignment check, before the first iteration
ScanInit ==
    /\ WithBitmap \/ WithoutBitmap
    /\ num \in Nums
    /\ align \in {a \in Aligns : AlignValid(a)}
    /\ page = from
    /\ cur = 0
    /\ start = 0
    /\ pc = "loop"

\* the loop condition failed: cur == num (nothing is returned for num == 0)
Finish ==
    /\ num =< cur
    /\ pc' = IF num = 0 THEN "null" ELSE "found"
    /\ UNCHANGED <<page, cur, start>>

\* no next page: break, then cur != num
OutOfPages ==
    /\ num > cur
    /\ page >= limit
    /\ pc' = "null"
    /\ UNCHANGED <<page, cur, start>>

\* mutants of NextPage: the scan stays, or jumps over a page
NextPageStays == IF cur = 0 /\ ~Available(bits, page) THEN page ELSE page + 1
NextPageSkips == IF cur > 0 /\ ~Available(bits, page) /\ page + 1 < limit THEN page + 2 ELSE page + 1

\* __pmm_bm_pos_next
NextPage == page + 1

\* a run cannot start on an unaligned page: continue
SkipUnaligned ==
    /\ num > cur
    /\ page < limit
    /\ cur = 0
    /\ start' = page
    /\ ~Aligned(page, align)
    /\ page' = NextPage
    /\ UNCHANGED <<cur, pc>>

\* mutant of RunLength: the run goes on over an occupied page
RunLengthNoReset == IF Available(bits, page) THEN cur + 1 ELSE cur

\* if (val || !__pmm_is_free_memory(...)) cur = 0; else cur++;
RunLength == IF Available(bits, page) THEN cur + 1 ELSE 0

\* the page extends the run, or ends it
CountPage ==
    /\ num > cur
    /\ page < limit
    /\ cur = 0 => Aligned(page, align)
    /\ start' = IF cur = 0 THEN page ELSE start
    /\ cur' = RunLength
    /\ page' = NextPage
    /\ UNCHANGED pc

Iterate ==
    /\ pc = "loop"
    /\ Finish \/ OutOfPages \/ SkipUnaligned \/ CountPage
    /\ UNCHANGED request

\* a loop with nothing else running: interrupts are off
ScanSpec == ScanInit /\ [][Iterate]_scanVars /\ WF_scanVars(Iterate)
-----------------------------------------------------------------------------
\* The loop variables stay in range, and a run never exceeds the request.
ScanTypes ==
    /\ bits \subseteq Bits
    /\ from \in Nat /\ limit \in Nat /\ from =< limit
    /\ num \in Nums /\ align \in Aligns
    /\ page \in from .. limit
    /\ cur \in 0 .. num
    /\ start \in Nat
    /\ pc \in {"loop", "found", "null"}

(***************************************************************************)
(* The page pmm_alloc (or __pmm_alloc_no_bm) returns is the lowest one     *)
(* from which the whole request fits: resetting cur at an occupied page    *)
(* never skips a run and never keeps a page before the hole.               *)
(***************************************************************************)
ReturnsFirstFit ==
    pc = "found" => start >= from /\ FirstFit(bits, from, limit, num, align, start)

(***************************************************************************)
(* NULL is returned only when no run of the requested size exists, so an   *)
(* out of memory failure is never spurious.                                *)
(***************************************************************************)
NullOnlyIfNoFit ==
    pc = "null" /\ num # 0 => NoFit(bits, from, limit, num, align)

(***************************************************************************)
(* What one iteration preserves: the cur pages before page form an aligned *)
(* available run that starts at start, and no earlier page starts a fit.   *)
(***************************************************************************)
LoopInv ==
    /\ cur > 0 => /\ start = page - cur
                  /\ start >= from
                  /\ Aligned(start, align)
                  /\ \A q \in start .. (page - 1) : Available(bits, q)
    /\ num > 0 => \A t \in from .. (page - cur - 1) :
                      ~Fits(bits, limit, num, align, t)
    /\ pc = "found" => num > 0 /\ cur = num
    /\ pc = "null" /\ num > 0 => page >= limit /\ num > cur

ScanIInv == ScanTypes /\ LoopInv

\* The search of pmm_alloc ends for every bitmap and request.
Terminates == <>(pc # "loop")
=============================================================================
