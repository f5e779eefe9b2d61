----------------------------- MODULE PmmProofs ------------------------------
(***************************************************************************)
(* The search loop of the page allocator and the allocator are correct for *)
(* every memory map, bitmap and request, and for every set of callers.     *)
(***************************************************************************)
EXTENDS Pmm, PmmScan, TLAPS
-----------------------------------------------------------------------------
(* The search loop.                                                        *)

LEMMA ScanInitIInv == ScanInit => ScanIInv
<1> SUFFICES ASSUME ScanInit PROVE ScanIInv
    OBVIOUS
<1> USE PmmAssumption
<1>1. bits \subseteq Bits /\ from \in Nat /\ limit \in Nat /\ from =< limit
    BY DEF ScanInit, WithBitmap, WithoutBitmap, Bits
<1>2. ScanTypes
    BY <1>1 DEF ScanInit, ScanTypes
<1>3. LoopInv
    BY <1>1 DEF ScanInit, LoopInv
<1> QED
    BY <1>2, <1>3 DEF ScanIInv

(***************************************************************************)
(* A page that cannot be given away ends every run that would contain it.  *)
(***************************************************************************)
LEMMA HoleEndsRun ==
    ASSUME NEW p \in Nat, NEW c \in Nat, NEW t \in Nat, ScanIInv,
           num > c, p - c =< t, t =< p, ~Available(bits, p)
    PROVE  ~Fits(bits, limit, num, align, t)
<1>1. num \in Nat
    BY PmmAssumption DEF ScanIInv, ScanTypes
<1>2. p \in t .. (t + num - 1)
    BY <1>1
<1> QED
    BY <1>2 DEF Fits

LEMMA ScanStepIInv == ScanIInv /\ [Iterate]_scanVars => ScanIInv'
<1> SUFFICES ASSUME ScanIInv, [Iterate]_scanVars PROVE ScanIInv'
    OBVIOUS
<1> USE PmmAssumption
<1>0. num \in Nat /\ cur \in Nat /\ page \in Nat /\ from \in Nat /\ limit \in Nat
    BY DEF ScanIInv, ScanTypes
<1>1. CASE UNCHANGED scanVars
    BY <1>1 DEF ScanIInv, ScanTypes, LoopInv, scanVars, request, Fits, Available, Aligned, Address
<1>2. CASE Iterate
    <2>0. UNCHANGED <<bits, from, limit, num, align>> /\ pc = "loop"
        BY <1>2 DEF Iterate, request
    <2>1. CASE Finish
        BY <1>0, <2>0, <2>1 DEF Finish, ScanIInv, ScanTypes, LoopInv
    <2>2. CASE OutOfPages
        BY <1>0, <2>0, <2>2 DEF OutOfPages, ScanIInv, ScanTypes, LoopInv
    <2>3. CASE SkipUnaligned
        <3>1. ScanTypes'
            BY <1>0, <2>0, <2>3 DEF SkipUnaligned, NextPage, ScanIInv, ScanTypes
        <3>2. ~Fits(bits, limit, num, align, page)
            BY <2>3 DEF SkipUnaligned, Fits
        <3>3. LoopInv'
            BY <1>0, <2>0, <2>3, <3>2 DEF SkipUnaligned, NextPage, ScanIInv, ScanTypes, LoopInv
        <3> QED
            BY <3>1, <3>3 DEF ScanIInv
    <2>4. CASE CountPage
        <3>1. ScanTypes'
            BY <1>0, <2>0, <2>4 DEF CountPage, NextPage, RunLength, ScanIInv, ScanTypes
        <3>2. CASE Available(bits, page)
            <4>1. cur' = cur + 1 /\ page' = page + 1 /\ pc' = pc
                BY <2>4, <3>2 DEF CountPage, NextPage, RunLength
            <4>2. start' = page - cur /\ start' >= from /\ Aligned(start', align)
                BY <1>0, <2>4 DEF CountPage, ScanIInv, ScanTypes, LoopInv
            <4>3. \A q \in start' .. (page - 1) : Available(bits, q)
                BY <1>0, <2>4 DEF CountPage, ScanIInv, ScanTypes, LoopInv
            <4>4. start' \in Nat
                BY <3>1 DEF ScanTypes
            <4>5. \A q \in start' .. (page' - 1) : Available(bits, q)
                BY <1>0, <3>2, <4>1, <4>3, <4>4
            <4>6. page' - cur' - 1 = page - cur - 1 /\ start' = page' - cur'
                BY <1>0, <4>1, <4>2
            <4> QED
                BY <1>0, <2>0, <3>1, <4>1, <4>2, <4>5, <4>6 DEF ScanIInv, LoopInv
        <3>3. CASE ~Available(bits, page)
            <4>1. cur' = 0 /\ page' = page + 1 /\ pc' = pc /\ num > cur
                BY <2>4, <3>3 DEF CountPage, NextPage, RunLength
            <4>2. ASSUME NEW t \in from .. page
                  PROVE  ~Fits(bits, limit, num, align, t)
                <5>1. CASE t < page - cur
                    BY <1>0, <4>1, <5>1 DEF ScanIInv, LoopInv
                <5>2. CASE t >= page - cur
                    BY <1>0, <3>3, <4>1, <5>2, HoleEndsRun
                <5> QED
                    BY <1>0, <5>1, <5>2
            <4> QED
                BY <1>0, <2>0, <3>1, <4>1, <4>2 DEF ScanIInv, LoopInv
        <3> QED
            BY <3>2, <3>3
    <2> QED
        BY <1>2, <2>1, <2>2, <2>3, <2>4 DEF Iterate
<1> QED
    BY <1>1, <1>2

(***************************************************************************)
(* The inductive invariant of the loop holds throughout the search of      *)
(* pmm_alloc, for every bitmap and request.                                *)
(***************************************************************************)
THEOREM ScanInvariant == ScanSpec => []ScanIInv
<1> QED
    BY ScanInitIInv, ScanStepIInv, PTL DEF ScanSpec

(***************************************************************************)
(* A page pmm_alloc returns is the lowest one from which the request fits. *)
(***************************************************************************)
THEOREM ScanFindsFirstFit == ScanSpec => []ReturnsFirstFit
<1>1. ScanIInv => ReturnsFirstFit
    <2> SUFFICES ASSUME ScanIInv, pc = "found"
                 PROVE  start >= from /\ FirstFit(bits, from, limit, num, align, start)
        BY DEF ReturnsFirstFit
    <2> USE PmmAssumption
    <2>0. num \in Nat /\ cur \in Nat /\ page \in Nat /\ from \in Nat /\ limit \in Nat
        BY DEF ScanIInv, ScanTypes
    <2>1. num > 0 /\ cur = num /\ start = page - num /\ page =< limit
        BY <2>0 DEF ScanIInv, ScanTypes, LoopInv
    <2>2. Fits(bits, limit, num, align, start)
        BY <2>0, <2>1 DEF ScanIInv, ScanTypes, LoopInv, Fits
    <2>3. \A t \in from .. (start - 1) : ~Fits(bits, limit, num, align, t)
        BY <2>0, <2>1 DEF ScanIInv, LoopInv
    <2> QED
        BY <2>0, <2>1, <2>2, <2>3 DEF ScanIInv, LoopInv, FirstFit
<1> QED
    BY <1>1, ScanInvariant, PTL

(***************************************************************************)
(* pmm_alloc returns NULL for a request of at least a page only when the   *)
(* request fits nowhere.                                                   *)
(***************************************************************************)
THEOREM ScanFailureIsReal == ScanSpec => []NullOnlyIfNoFit
<1>1. ScanIInv => NullOnlyIfNoFit
    <2> SUFFICES ASSUME ScanIInv, pc = "null", num # 0,
                        NEW t \in from .. limit
                 PROVE  ~Fits(bits, limit, num, align, t)
        BY DEF NullOnlyIfNoFit, NoFit
    <2> USE PmmAssumption
    <2>0. num \in Nat /\ cur \in Nat /\ page \in Nat /\ from \in Nat /\ limit \in Nat
        BY DEF ScanIInv, ScanTypes
    <2>1. num > 0 /\ page = limit /\ num > cur
        BY <2>0 DEF ScanIInv, ScanTypes, LoopInv
    <2>2. CASE t < page - cur
        BY <2>0, <2>1, <2>2 DEF ScanIInv, LoopInv
    <2>3. CASE t >= page - cur
        BY <2>0, <2>1, <2>3 DEF Fits
    <2> QED
        BY <2>0, <2>2, <2>3
<1> QED
    BY <1>1, ScanInvariant, PTL
-----------------------------------------------------------------------------
(* The allocator.                                                          *)

LEMMA InitIInv == Init => IInv
<1> SUFFICES ASSUME Init PROVE IInv
    OBVIOUS
<1>1. ready \in BOOLEAN
    BY DEF Init
<1>2. TypeOK
    BY <1>1, PmmAssumption DEF Init, TypeOK
<1>3. \A h \in Holders : held[h] = {}
    BY DEF Init
<1> QED
    BY <1>2, <1>3 DEF Init, IInv, Exclusive, HeldIsMarked, NoLostPages,
       OnlyUsableMemory, BootInv

(***************************************************************************)
(* A run that fits lies in the bitmap and consists of usable pages whose   *)
(* bits are clear.                                                         *)
(***************************************************************************)
LEMMA FitIsAvailable ==
    ASSUME NEW U, NEW m \in 0 .. BmBits, NEW n \in Nat, NEW a, NEW s \in Nat,
           Fits(U, m, n, a, s)
    PROVE  /\ Run(s, n) \subseteq Bits
           /\ Run(s, n) \subseteq FreeMemory
           /\ Run(s, n) \cap U = {}
           /\ s + n =< m
<1> QED
    BY PmmAssumption DEF Fits, Available, Run, Bits

LEMMA StepIInv == IInv /\ [Next]_vars => IInv'
<1> SUFFICES ASSUME IInv, [Next]_vars PROVE IInv'
    OBVIOUS
<1> USE PmmAssumption, CallerAssumption
<1>1. CASE UNCHANGED vars
    BY <1>1 DEF vars, IInv, TypeOK, Exclusive, HeldIsMarked, NoLostPages,
       OnlyUsableMemory, BootInv
<1>2. CASE InitBitmap
    <2>1. used' \subseteq Bits /\ ready' = TRUE /\ pos' = pos /\ held' = held /\ ~ready
        BY <1>2 DEF InitBitmap, BootBits
    <2>2. HeldIsMarked'
        BY <1>2, <2>1 DEF InitBitmap, BootBits, IInv, TypeOK, BootInv, HeldIsMarked
    <2>3. NoLostPages'
        BY <1>2, <2>1 DEF InitBitmap, BootBits, NoLostPages
    <2> QED
        BY <2>1, <2>2, <2>3 DEF IInv, TypeOK, Exclusive, OnlyUsableMemory, BootInv
<1>3. ASSUME NEW h \in Holders, NEW n \in Nums, NEW a \in Aligns, AllocNoBm(h, n, a)
      PROVE  IInv'
    <2>1. PICK s \in pos .. NumPages :
              /\ FirstFit({}, pos, NumPages, n, a, s)
              /\ pos' = s + n
              /\ held' = [held EXCEPT ![h] = @ \cup Run(s, n)]
        BY <1>3 DEF AllocNoBm, Advance
    <2>2. /\ ~ready /\ ready' = FALSE /\ used' = used /\ used = {} /\ n \in Nat
          /\ pos \in Nat /\ s \in Nat /\ pos =< s
        BY <1>3, <2>1 DEF AllocNoBm, IInv, TypeOK, BootInv
    <2>3. Run(s, n) \subseteq Bits /\ Run(s, n) \subseteq FreeMemory /\ s + n =< NumPages
        BY <2>1, <2>2, FitIsAvailable DEF FirstFit
    <2>4. \A g \in Holders : held[g] \cap Run(s, n) = {}
        BY <2>2 DEF IInv, BootInv, Run
    <2>5. TypeOK'
        <3>1. ready' \in BOOLEAN
            BY <2>2
        <3>2. pos' \in 0 .. NumPages /\ held' \in [Holders -> SUBSET Bits]
            BY <2>1, <2>2, <2>3 DEF IInv, TypeOK
        <3> QED
            BY <2>2, <3>1, <3>2 DEF IInv, TypeOK
    <2>6. Exclusive'
        BY <2>1, <2>4 DEF IInv, TypeOK, Exclusive
    <2>7. OnlyUsableMemory'
        BY <2>1, <2>3 DEF IInv, TypeOK, OnlyUsableMemory
    <2>8. BootInv'
        BY <2>1, <2>2 DEF IInv, TypeOK, BootInv, Run
    <2> QED
        BY <2>2, <2>5, <2>6, <2>7, <2>8 DEF IInv, HeldIsMarked, NoLostPages
<1>4. ASSUME NEW h \in Holders, NEW n \in Nums, NEW a \in Aligns, Alloc(h, n, a)
      PROVE  IInv'
    <2>1. PICK s \in Bits :
              /\ FirstFit(used, 0, BmBits, n, a, s)
              /\ used' = used \cup Run(s, n)
              /\ held' = [held EXCEPT ![h] = @ \cup Run(s, n)]
        BY <1>4 DEF Alloc, SetBits
    <2>2. ready /\ ready' = ready /\ pos' = pos /\ n \in Nat /\ s \in Nat
        BY <1>4, <2>1 DEF Alloc, IInv, TypeOK, Bits
    <2>3. /\ Run(s, n) \subseteq Bits /\ Run(s, n) \subseteq FreeMemory
          /\ Run(s, n) \cap used = {}
        BY <2>1, <2>2, FitIsAvailable DEF FirstFit
    <2>4. \A g \in Holders : held[g] \cap Run(s, n) = {}
        BY <2>2, <2>3 DEF IInv, HeldIsMarked
    <2>5. TypeOK'
        BY <2>1, <2>2, <2>3 DEF IInv, TypeOK
    <2>6. Exclusive'
        BY <2>1, <2>4 DEF IInv, TypeOK, Exclusive
    <2>7. OnlyUsableMemory'
        BY <2>1, <2>3 DEF IInv, TypeOK, OnlyUsableMemory
    <2>8. HeldIsMarked'
        BY <2>1, <2>2 DEF IInv, TypeOK, HeldIsMarked
    <2>9. NoLostPages'
        BY <2>1, <2>2 DEF IInv, TypeOK, NoLostPages
    <2> QED
        BY <2>2, <2>5, <2>6, <2>7, <2>8, <2>9 DEF IInv, BootInv
<1>5. ASSUME NEW h \in Holders, NEW n \in Nums, NEW p \in Bits, Free(h, p, n)
      PROVE  IInv'
    <2>1. PICK k \in 1 .. n :
              /\ Run(p, k) \subseteq held[h]
              /\ used' = used \ Run(p, k)
              /\ held' = [held EXCEPT ![h] = @ \ Run(p, k)]
        BY <1>5 DEF Free
    <2>2. ready /\ ready' = ready /\ pos' = pos
        BY <1>5 DEF Free
    <2>3. TypeOK'
        BY <2>1, <2>2 DEF IInv, TypeOK
    <2>4. Exclusive' /\ OnlyUsableMemory'
        BY <2>1 DEF IInv, TypeOK, Exclusive, OnlyUsableMemory
    <2>5. HeldIsMarked'
        BY <2>1, <2>2 DEF IInv, TypeOK, HeldIsMarked, Exclusive
    <2>6. NoLostPages'
        BY <2>1, <2>2 DEF IInv, TypeOK, NoLostPages
    <2> QED
        BY <2>2, <2>3, <2>4, <2>5, <2>6 DEF IInv, BootInv
<1> QED
    BY <1>1, <1>2, <1>3, <1>4, <1>5 DEF Next

(***************************************************************************)
(* The inductive invariant of the allocator holds for every caller.        *)
(***************************************************************************)
THEOREM PmmInvariant == Spec => []IInv
<1> QED
    BY InitIInv, StepIInv, PTL DEF Spec

(***************************************************************************)
(* No page is ever lent to two callers of pmm_alloc.                       *)
(***************************************************************************)
THEOREM PagesAreExclusive == Spec => []Exclusive
<1>1. IInv => Exclusive
    BY DEF IInv
<1> QED
    BY <1>1, PmmInvariant, PTL

(***************************************************************************)
(* pmm_alloc and pmm_free keep the bitmap and the pages in use in step:    *)
(* no page in use looks free, and no page is lost.                         *)
(***************************************************************************)
THEOREM BitmapIsExact == Spec => [](HeldIsMarked /\ NoLostPages)
<1>1. IInv => HeldIsMarked /\ NoLostPages
    BY DEF IInv
<1> QED
    BY <1>1, PmmInvariant, PTL

(***************************************************************************)
(* Reserved memory is never handed out by pmm_alloc.                       *)
(***************************************************************************)
THEOREM ReservedStaysReserved == Spec => []OnlyUsableMemory
<1>1. IInv => OnlyUsableMemory
    BY DEF IInv
<1> QED
    BY <1>1, PmmInvariant, PTL
-----------------------------------------------------------------------------
\* A page held by h and by nobody else has the holder h.
LEMMA HolderOfHeld ==
    ASSUME Exclusive, NEW h \in Holders, NEW p \in held[h]
    PROVE  HolderOf(p) = h
<1>1. \A g \in Holders : p \in held[g] => g = h
    BY DEF Exclusive
<1> QED
    BY <1>1 DEF HolderOf

LEMMA HolderOfNone ==
    ASSUME NEW p
    PROVE  HolderOf(p) = NoHolder <=> \A h \in Holders : p \notin held[h]
<1> QED
    BY CallerAssumption DEF HolderOf

(***************************************************************************)
(* A page whose holders do not change keeps its holder.                    *)
(***************************************************************************)
LEMMA HolderOfSame ==
    ASSUME IInv, IInv', NEW p, \A h \in Holders : p \in held[h] <=> p \in held'[h]
    PROVE  HolderOf(p)' = HolderOf(p)
<1>1. CASE \E h \in Holders : p \in held[h]
    <2>1. PICK h \in Holders : p \in held[h] /\ p \in held'[h]
        BY <1>1
    <2>2. HolderOf(p) = h
        BY <2>1, HolderOfHeld DEF IInv
    <2>3. \A g \in Holders : p \in held'[g] => g = h
        BY <2>1 DEF IInv, Exclusive
    <2>4. HolderOf(p)' = h
        BY <2>1, <2>3 DEF HolderOf
    <2> QED
        BY <2>2, <2>4
<1>2. CASE \A h \in Holders : p \notin held[h]
    BY <1>2 DEF HolderOf
<1> QED
    BY <1>1, <1>2

(***************************************************************************)
(* Giving the pages S, held by nobody, to h is a lending step.             *)
(***************************************************************************)
LEMMA GrantLends ==
    ASSUME IInv, IInv', NEW h \in Holders, NEW S \in SUBSET FreeMemory, S # {},
           \A g \in Holders : held[g] \cap S = {},
           held' = [held EXCEPT ![h] = @ \cup S]
    PROVE  PA!Lend(h)
<1>1. held \in [Holders -> SUBSET Bits]
    BY DEF IInv, TypeOK
<1>2. \A p \in S : HolderOf(p) = NoHolder
    BY HolderOfNone
<1>3. ASSUME NEW p \in FreeMemory
      PROVE  HolderOf(p)' = IF p \in S THEN h ELSE HolderOf(p)
    <2>1. CASE p \in S
        <3>1. p \in held'[h]
            BY <1>1, <2>1
        <3>2. \A g \in Holders : p \in held'[g] => g = h
            BY <3>1 DEF IInv, Exclusive
        <3> QED
            BY <2>1, <3>1, <3>2 DEF HolderOf
    <2>2. CASE p \notin S
        <3>1. \A g \in Holders : p \in held[g] <=> p \in held'[g]
            BY <1>1, <2>2
        <3> QED
            BY <2>2, <3>1, HolderOfSame
    <2> QED
        BY <2>1, <2>2
<1> QED
    BY <1>2, <1>3 DEF PA!Lend

(***************************************************************************)
(* Taking the pages S from their holder h is a returning step.             *)
(***************************************************************************)
LEMMA ReleaseReturns ==
    ASSUME IInv, IInv', NEW h \in Holders, NEW S, S # {}, S \subseteq held[h],
           held' = [held EXCEPT ![h] = @ \ S]
    PROVE  PA!Return(h)
<1>1. held \in [Holders -> SUBSET Bits] /\ S \subseteq FreeMemory
    BY DEF IInv, TypeOK, OnlyUsableMemory
<1>2. \A p \in S : HolderOf(p) = h
    BY HolderOfHeld DEF IInv
<1>3. ASSUME NEW p \in FreeMemory
      PROVE  HolderOf(p)' = IF p \in S THEN NoHolder ELSE HolderOf(p)
    <2>1. CASE p \in S
        <3>1. \A g \in Holders : p \notin held'[g]
            BY <1>1, <2>1 DEF IInv, Exclusive
        <3> QED
            BY <2>1, <3>1 DEF HolderOf
    <2>2. CASE p \notin S
        <3>1. \A g \in Holders : p \in held[g] <=> p \in held'[g]
            BY <1>1, <2>2
        <3> QED
            BY <2>2, <3>1, HolderOfSame
    <2> QED
        BY <2>1, <2>2
<1> QED
    BY <1>1, <1>2, <1>3 DEF PA!Return

(***************************************************************************)
(* pmm.c implements the abstract lending of pages, for every memory map    *)
(* and every set of callers.                                               *)
(***************************************************************************)
THEOREM PmmImplementsPageAllocator == Spec => LendsPages
<1> USE PmmAssumption, CallerAssumption
<1>1. Init => PA!Init
    <2> SUFFICES ASSUME Init PROVE PA!Init
        OBVIOUS
    <2>1. \A p \in FreeMemory : HolderOf(p) = NoHolder
        BY DEF Init, HolderOf
    <2> QED
        BY <2>1 DEF PA!Init
<1>2. IInv /\ IInv' /\ [Next]_vars
          => [PA!Next]_([p \in FreeMemory |-> HolderOf(p)])
    <2> SUFFICES ASSUME IInv, IInv', [Next]_vars
                 PROVE  PA!Next \/ UNCHANGED [p \in FreeMemory |-> HolderOf(p)]
        OBVIOUS
    <2>1. CASE UNCHANGED vars \/ InitBitmap
        <3>1. held' = held
            BY <2>1 DEF vars, InitBitmap
        <3> QED
            BY <3>1 DEF HolderOf
    <2>2. ASSUME NEW h \in Holders, NEW n \in Nums, NEW a \in Aligns, AllocNoBm(h, n, a)
          PROVE  PA!Lend(h)
        <3>1. PICK s \in pos .. NumPages :
                  /\ FirstFit({}, pos, NumPages, n, a, s)
                  /\ held' = [held EXCEPT ![h] = @ \cup Run(s, n)]
            BY <2>2 DEF AllocNoBm
        <3>2. ~ready /\ n \in Nat /\ n > 0 /\ s \in Nat /\ pos \in Nat /\ pos =< s
            BY <2>2, <3>1 DEF AllocNoBm, IInv, TypeOK
        <3>3. Run(s, n) \subseteq FreeMemory
            BY <3>1, <3>2, FitIsAvailable DEF FirstFit
        <3>4. \A g \in Holders : held[g] \cap Run(s, n) = {}
            BY <3>2 DEF IInv, BootInv, Run
        <3>5. Run(s, n) # {}
            <4>1. s \in Run(s, n)
                BY <3>2 DEF Run
            <4> QED
                BY <4>1
        <3> QED
            BY <3>1, <3>3, <3>4, <3>5, GrantLends
    <2>3. ASSUME NEW h \in Holders, NEW n \in Nums, NEW a \in Aligns, Alloc(h, n, a)
          PROVE  PA!Lend(h)
        <3>1. PICK s \in Bits :
                  /\ FirstFit(used, 0, BmBits, n, a, s)
                  /\ held' = [held EXCEPT ![h] = @ \cup Run(s, n)]
            BY <2>3 DEF Alloc
        <3>2. ready /\ n \in Nat /\ n > 0 /\ s \in Nat
            BY <2>3, <3>1 DEF Alloc, Bits
        <3>3. Run(s, n) \subseteq FreeMemory /\ Run(s, n) \cap used = {}
            BY <3>1, <3>2, FitIsAvailable DEF FirstFit
        <3>4. \A g \in Holders : held[g] \cap Run(s, n) = {}
            BY <3>2, <3>3 DEF IInv, HeldIsMarked
        <3>5. Run(s, n) # {}
            <4>1. s \in Run(s, n)
                BY <3>2 DEF Run
            <4> QED
                BY <4>1
        <3> QED
            BY <3>1, <3>3, <3>4, <3>5, GrantLends
    <2>4. ASSUME NEW h \in Holders, NEW n \in Nums, NEW p \in Bits, Free(h, p, n)
          PROVE  PA!Return(h)
        <3>1. PICK k \in 1 .. n :
                  /\ Run(p, k) \subseteq held[h]
                  /\ held' = [held EXCEPT ![h] = @ \ Run(p, k)]
            BY <2>4 DEF Free
        <3>2. p \in Run(p, k)
            BY <3>1 DEF Run, Bits
        <3> QED
            BY <3>1, <3>2, ReleaseReturns
    <2> QED
        BY <2>1, <2>2, <2>3, <2>4 DEF Next, PA!Next
<1> QED
    BY <1>1, <1>2, PmmInvariant, PTL DEF Spec, LendsPages, PA!Spec
=============================================================================
