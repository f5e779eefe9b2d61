----------------------------- MODULE VmmProofs ------------------------------
(***************************************************************************)
(* Memory of tasks, for any number of tasks, pages, frames and segments:   *)
(* frames are owned, page tables of the running task lead nowhere else,    *)
(* a switch maps all of a task, and a task reads what it has written, but  *)
(* for what stores through the pages of a failed exec have reached.        *)
(***************************************************************************)
EXTENDS Vmm, SequenceTheorems, TLAPS

-----------------------------------------------------------------------------
(* The inductive invariant.                                                *)

IsStack(r, vma, first) ==
    r.type = "STACK" /\ r.vma = vma /\ r.vaddr = first /\ r.num = StackPages

\* a segment of a program lies above the user stack, in the user half
IsSegment(r) ==
    /\ r.type = "IMAGE" /\ r.vma = "user"
    /\ r.vaddr > StackPages
    /\ r.vaddr + r.num =< UserPages + 1

\* segments from index k on follow one another
Ascending(rs, k) ==
    \A i, j \in k .. Len(rs) : i < j => rs[i].vaddr + rs[i].num =< rs[j].vaddr

\* a region list: the two stacks (task_stack_alloc), then a program (elf_load)
Layout(rs) ==
    /\ Len(rs) >= 2
    /\ IsStack(rs[1], "kernel", UserPages + 1)
    /\ IsStack(rs[2], "user", 1)
    /\ \A i \in 3 .. Len(rs) : IsSegment(rs[i])
    /\ Ascending(rs, 3)

\* a region and its copy differ in their frames only
SameRegion(r, s) ==
    r.type = s.type /\ r.vma = s.vma /\ r.vaddr = s.vaddr /\ r.num = s.num

Shapes ==
    /\ \A t \in live : Layout(mem[t])
    /\ phase = "user" => new = <<>>
    /\ phase = "copy" => /\ Len(new) =< Len(mem[current])
                         /\ \A i \in 1 .. Len(new) : SameRegion(new[i], mem[current][i])
                         /\ Intact
    /\ phase = "load" => /\ \A i \in 1 .. Len(new) : IsSegment(new[i])
                         /\ Ascending(new, 1)

\* the kernel stack that is mapped is the running task's, its user stack is
\* mapped too, and so is what elf_load has loaded
Mapped ==
    /\ \A p \in KernelPage : kernel[p] = FrameAt(mem[current][1], p)
    /\ \A p \in 1 .. StackPages : user[current][p] # NULL
    /\ phase = "load" =>
           \A i \in 1 .. Len(new) : \A p \in RegionPages(new[i]) :
               user[current][p] = FrameAt(new[i], p)

\* Isolation, with the regions of an unfinished fork left out
OwnPages ==
    \A p \in UserPage \ stray :
        user[current][p] # NULL =>
            \/ \E i \in 1 .. Len(mem[current]) :
                   /\ p \in RegionPages(mem[current][i])
                   /\ user[current][p] = FrameAt(mem[current][i], p)
            \/ /\ phase = "load"
               /\ \E i \in 1 .. Len(new) :
                   /\ p \in RegionPages(new[i])
                   /\ user[current][p] = FrameAt(new[i], p)

\* frame f holds v, or has been reached through a page that a failed exec left
Holds(f, v) == f \in spoilt \/ data[f] = v

\* the frames of every task hold what it has written, whether it runs or not,
\* those of a copy what the original had, and those of a loaded segment the file
Contents ==
    /\ \A t \in live : \A i \in 1 .. Len(mem[t]) : \A p \in RegionPages(mem[t][i]) :
           Holds(FrameAt(mem[t][i], p), seen[t][p])
    /\ phase = "copy" =>
           \A i \in 1 .. Len(new) : \A p \in RegionPages(new[i]) :
               Holds(FrameAt(new[i], p), seen[current][p])
    /\ phase = "load" =>
           \A i \in 1 .. Len(new) : \A p \in RegionPages(new[i]) :
               Holds(FrameAt(new[i], p), 0)

IInv ==
    /\ TypeOK
    /\ Shapes
    /\ FramesAreOwned
    /\ OthersAreSynced
    /\ Mapped
    /\ OwnPages
    /\ Contents
-----------------------------------------------------------------------------
(* Regions and region lists.                                               *)

\* Pages and frames of a region are numbered alike.
LEMMA RegionFacts ==
    ASSUME NEW r \in Region
    PROVE  /\ r.vaddr \in Nat \ {0} /\ r.paddr \in Nat \ {0} /\ r.num \in Nat \ {0}
           /\ r.vaddr \in RegionPages(r) /\ FrameAt(r, r.vaddr) = r.paddr
           /\ \A p \in RegionPages(r) : p \in Nat /\ FrameAt(r, p) \in RegionFrames(r)
           /\ \A p \in RegionPages(r) : \A q \in RegionPages(r) :
                  FrameAt(r, p) = FrameAt(r, q) => p = q
<1>1. r.vaddr \in Nat \ {0} /\ r.paddr \in Nat \ {0} /\ r.num \in Nat \ {0}
  BY VmmAssumption DEF Region, Page, UserPage, KernelPage, Frame
<1> QED
  BY <1>1 DEF RegionPages, RegionFrames, FrameAt

\* The members of a region list are regions.
LEMMA RegionType ==
    ASSUME NEW rs \in Seq(Region), NEW i \in 1 .. Len(rs)
    PROVE  rs[i] \in Region
OBVIOUS

\* The pages of a list are those of its regions.
LEMMA PagesOfList ==
    ASSUME NEW rs \in Seq(Region), NEW p
    PROVE  p \in PagesOf(rs) <=> \E i \in 1 .. Len(rs) : p \in RegionPages(rs[i])
BY DEF PagesOf

\* The frames of a list are those of its regions.
LEMMA FramesOfList ==
    ASSUME NEW rs \in Seq(Region), NEW f
    PROVE  f \in FramesOf(rs) <=> \E i \in 1 .. Len(rs) : f \in RegionFrames(rs[i])
BY DEF FramesOf

\* Intervals that follow one another do not overlap.
LEMMA Apart ==
    ASSUME NEW a \in Nat, NEW b \in Nat, NEW c \in Nat, NEW d \in Nat, a + b =< c
    PROVE  (a .. (a + b - 1)) \cap (c .. (c + d - 1)) = {}
OBVIOUS

\* The pages of a program segment.
LEMMA SegmentPages ==
    ASSUME NEW r \in Region, IsSegment(r)
    PROVE  /\ RegionPages(r) \subseteq UserPage
           /\ \A p \in RegionPages(r) : p > StackPages
           /\ \A p \in 1 .. StackPages : p \notin RegionPages(r)
<1>1. r.vaddr \in Nat /\ r.num \in Nat /\ StackPages \in Nat /\ UserPages \in Nat
  BY VmmAssumption, RegionFacts
<1> QED BY <1>1 DEF IsSegment, RegionPages, UserPage

\* The pages of a region list: the kernel stack is the kernel half, all others
\* lie in the user half, and none overlap.
LEMMA LayoutPages ==
    ASSUME NEW rs \in Seq(Region), Layout(rs)
    PROVE  /\ RegionPages(rs[1]) = KernelPage
           /\ RegionPages(rs[2]) = 1 .. StackPages
           /\ \A i \in 2 .. Len(rs) : RegionPages(rs[i]) \subseteq UserPage
           /\ rs[1].vma = "kernel" /\ \A i \in 2 .. Len(rs) : rs[i].vma = "user"
           /\ \A i, j \in 1 .. Len(rs) :
                  i # j => RegionPages(rs[i]) \cap RegionPages(rs[j]) = {}
<1> USE VmmAssumption
<1>1. \A i \in 1 .. Len(rs) : rs[i] \in Region
                               /\ rs[i].vaddr \in Nat \ {0} /\ rs[i].num \in Nat \ {0}
  BY RegionFacts
<1>2. RegionPages(rs[1]) = KernelPage
  BY DEF Layout, IsStack, RegionPages, KernelPage
<1>3. RegionPages(rs[2]) = 1 .. StackPages
  BY DEF Layout, IsStack, RegionPages
<1>4. \A i \in 2 .. Len(rs) : RegionPages(rs[i]) \subseteq UserPage
  <2> SUFFICES ASSUME NEW i \in 2 .. Len(rs), NEW p \in RegionPages(rs[i])
               PROVE  p \in UserPage
    OBVIOUS
  <2>1. CASE i = 2
    BY <1>3, <2>1 DEF UserPage
  <2>2. CASE i # 2
    <3>1. i \in 3 .. Len(rs) /\ i \in 1 .. Len(rs)
      BY <2>2
    <3>2. IsSegment(rs[i]) /\ rs[i].vaddr \in Nat \ {0} /\ rs[i].num \in Nat \ {0}
      BY <1>1, <3>1 DEF Layout
    <3> QED BY <1>1, <3>1, <3>2, SegmentPages
  <2> QED BY <2>1, <2>2
<1>5. rs[1].vma = "kernel" /\ \A i \in 2 .. Len(rs) : rs[i].vma = "user"
  BY DEF Layout, IsStack, IsSegment
<1>6. ASSUME NEW i \in 1 .. Len(rs), NEW j \in 1 .. Len(rs), i < j
      PROVE  RegionPages(rs[i]) \cap RegionPages(rs[j]) = {}
  <2>1. CASE i = 1
    <3>1. j \in 2 .. Len(rs)
      BY <1>6, <2>1
    <3>2. RegionPages(rs[j]) \subseteq UserPage
      BY <1>4, <3>1
    <3> QED BY <1>2, <2>1, <3>2 DEF KernelPage, UserPage
  <2>2. CASE i = 2
    <3>1. IsSegment(rs[j]) /\ rs[j].vaddr \in Nat /\ rs[j].num \in Nat
      BY <1>1, <1>6, <2>2 DEF Layout
    <3> QED BY <1>1, <1>3, <2>2, <3>1, SegmentPages
  <2>3. CASE i >= 3
    <3>1. rs[i].vaddr + rs[i].num =< rs[j].vaddr
      BY <1>6, <2>3 DEF Layout, Ascending
    <3>2. /\ rs[i].vaddr \in Nat /\ rs[i].num \in Nat
          /\ rs[j].vaddr \in Nat /\ rs[j].num \in Nat
      BY <1>1
    <3> QED BY <3>1, <3>2, Apart DEF RegionPages
  <2> QED BY <2>1, <2>2, <2>3
<1>7. ASSUME NEW i \in 1 .. Len(rs), NEW j \in 1 .. Len(rs), i # j
      PROVE  RegionPages(rs[i]) \cap RegionPages(rs[j]) = {}
  <2>1. CASE i < j
    BY <1>6, <2>1
  <2>2. CASE j < i
    BY <1>6, <2>2
  <2> QED BY <1>7, <2>1, <2>2
<1> QED
  BY <1>2, <1>3, <1>4, <1>5, <1>7

\* What region_map has mapped, for the first k regions of a list.
LEMMA MapRegionsResult ==
    ASSUME NEW rs \in Seq(Region), Layout(rs), NEW k \in 0 .. Len(rs), NEW half
    PROVE  /\ DOMAIN MapRegions(half, rs, k) = DOMAIN half
           /\ \A i \in 1 .. k : \A p \in RegionPages(rs[i]) \cap DOMAIN half :
                  MapRegions(half, rs, k)[p] = FrameAt(rs[i], p)
           /\ \A p \in DOMAIN half :
                  (\A i \in 1 .. k : p \notin RegionPages(rs[i])) =>
                      MapRegions(half, rs, k)[p] = half[p]
<1>1. ASSUME NEW i \in 1 .. k, NEW p \in RegionPages(rs[i])
      PROVE  LastCover(rs, k, p) = i
  <2>1. \A j \in 1 .. k : p \in RegionPages(rs[j]) => j = i
    <3> SUFFICES ASSUME NEW j \in 1 .. k, p \in RegionPages(rs[j]), j # i
                 PROVE  FALSE
      OBVIOUS
    <3>1. i \in 1 .. Len(rs) /\ j \in 1 .. Len(rs)
      OBVIOUS
    <3> QED BY <1>1, <3>1, LayoutPages
  <2>2. /\ p \in RegionPages(rs[i])
        /\ \A j \in (i + 1) .. k : p \notin RegionPages(rs[j])
    BY <1>1, <2>1
  <2> QED
    BY <2>1, <2>2 DEF LastCover
<1> QED
  BY <1>1 DEF MapRegions

\* FramesAreOwned, of two regions.
LEMMA OwnedFrames ==
    ASSUME FramesAreOwned, TypeOK,
           NEW t \in live, NEW u \in live,
           NEW i \in 1 .. Len(mem[t]), NEW j \in 1 .. Len(mem[u])
    PROVE  /\ RegionFrames(mem[t][i]) \subseteq lent
           /\ <<t, i>> # <<u, j>> => RegionFrames(mem[t][i]) \cap RegionFrames(mem[u][j]) = {}
<1>1. i \in DOMAIN mem[t] /\ j \in DOMAIN mem[u]
  BY DEF TypeOK
<1>2. \A x, y \in live : \A a \in DOMAIN mem[x], b \in DOMAIN mem[y] :
           /\ RegionFrames(mem[x][a]) \subseteq lent
           /\ <<x, a>> # <<y, b>> =>
                  RegionFrames(mem[x][a]) \cap RegionFrames(mem[y][b]) = {}
  BY DEF FramesAreOwned
<1> QED BY <1>1, <1>2

\* The frames of a region are frames, and those of different regions differ.
LEMMA FramesDiffer ==
    ASSUME FramesAreOwned, TypeOK,
           NEW t \in live, NEW u \in live,
           NEW i \in 1 .. Len(mem[t]), NEW j \in 1 .. Len(mem[u]), <<t, i>> # <<u, j>>,
           NEW p \in RegionPages(mem[t][i]), NEW q \in RegionPages(mem[u][j])
    PROVE  FrameAt(mem[t][i], p) # FrameAt(mem[u][j], q)
<1>1. mem[t] \in Seq(Region) /\ mem[u] \in Seq(Region)
  BY DEF TypeOK
<1>2. RegionFrames(mem[t][i]) \cap RegionFrames(mem[u][j]) = {}
  BY OwnedFrames
<1>3. FrameAt(mem[t][i], p) \in RegionFrames(mem[t][i])
  BY <1>1, RegionFacts, RegionType
<1>4. FrameAt(mem[u][j], q) \in RegionFrames(mem[u][j])
  BY <1>1, RegionFacts, RegionType
<1> QED BY <1>2, <1>3, <1>4

\* The frame a page of a region should lead to is lent.
LEMMA FramesAreFrames ==
    ASSUME FramesAreOwned, TypeOK, NEW t \in live, NEW i \in 1 .. Len(mem[t]),
           NEW p \in RegionPages(mem[t][i])
    PROVE  FrameAt(mem[t][i], p) \in lent /\ lent \subseteq Frame
<1>1. mem[t] \in Seq(Region)
  BY DEF TypeOK
<1>2. RegionFrames(mem[t][i]) \subseteq lent
  BY <1>1 DEF FramesAreOwned
<1>3. FrameAt(mem[t][i], p) \in RegionFrames(mem[t][i])
  BY <1>1, RegionFacts, RegionType
<1> QED BY <1>2, <1>3 DEF TypeOK
-----------------------------------------------------------------------------
(* task_switch.                                                            *)

\* vmm_sync or an empty user half: nothing is mapped when region_map starts.
LEMMA StartsEmpty ==
    ASSUME IInv, NEW n \in live \ {current}
    PROVE  Synced(n) = Unmapped
BY DEF IInv, OthersAreSynced, Synced

\* vmm_map_exact meets no page that is mapped already: region_map never fails.
LEMMA RegionMapSucceeds ==
    ASSUME IInv, NEW n \in live \ {current}, NEW i \in 1 .. Len(mem[n])
    PROVE  ~MapFails(n, i)
<1> DEFINE rs == mem[n]
           r == rs[i]
<1> USE VmmAssumption
<1>1. rs \in Seq(Region) /\ Layout(rs) /\ r \in Region
  BY RegionType DEF IInv, TypeOK, Shapes
<1>2. i - 1 \in 0 .. Len(rs)
  BY <1>1
<1>3. r.vaddr \in RegionPages(r) /\ FrameAt(r, r.vaddr) = r.paddr /\ r.paddr # NULL
  BY <1>1, RegionFacts DEF NULL
<1>4. \A j \in 1 .. (i - 1) : r.vaddr \notin RegionPages(rs[j])
  <2> SUFFICES ASSUME NEW j \in 1 .. (i - 1) PROVE r.vaddr \notin RegionPages(rs[j])
    OBVIOUS
  <2>1. j \in 1 .. Len(rs) /\ i \in 1 .. Len(rs) /\ j # i
    BY <1>1
  <2>2. RegionPages(rs[i]) \cap RegionPages(rs[j]) = {}
    BY <1>1, <2>1, LayoutPages
  <2> QED BY <1>3, <2>2
<1>5. CASE i = 1
  <2>1. r.vma = "kernel" /\ r.vaddr \in KernelPage
    BY <1>1, <1>3, <1>5, LayoutPages
  <2>2. DOMAIN kernel = KernelPage
    BY DEF IInv, TypeOK
  <2>3. MapRegions(kernel, rs, i - 1)[r.vaddr] = kernel[r.vaddr]
    <3>1. \A p \in DOMAIN kernel :
              (\A j \in 1 .. (i - 1) : p \notin RegionPages(rs[j])) =>
                  MapRegions(kernel, rs, i - 1)[p] = kernel[p]
      <4>1. PICK k \in 0 .. Len(rs) : k = i - 1
        BY <1>2
      <4>2. \A p \in DOMAIN kernel : (\A j \in 1 .. k : p \notin RegionPages(rs[j])) =>
                  MapRegions(kernel, rs, k)[p] = kernel[p]
        BY <1>1, MapRegionsResult
      <4> QED BY <4>1, <4>2, Zenon
    <3> QED BY <1>4, <2>1, <2>2, <3>1
  <2>4. kernel[r.vaddr] = FrameAt(mem[current][1], r.vaddr)
    BY <2>1 DEF IInv, Mapped
  <2>5. /\ mem[current] \in Seq(Region) /\ Layout(mem[current])
        /\ current \in live /\ 1 \in 1 .. Len(mem[current])
    BY DEF IInv, TypeOK, Shapes, Layout
  <2>6. r.vaddr \in RegionPages(mem[current][1])
    BY <2>1, <2>5, LayoutPages
  <2>7. FrameAt(mem[current][1], r.vaddr) # FrameAt(r, r.vaddr)
    BY <1>3, <2>5, <2>6, FramesDiffer DEF IInv
  <2> QED
    BY <1>3, <2>1, <2>3, <2>4, <2>7 DEF MapFails, ExactFails
<1>6. CASE i # 1
  <2>1. r.vma = "user" /\ r.vaddr \in UserPage
    BY <1>1, <1>3, <1>6, LayoutPages
  <2>2. DOMAIN Unmapped = UserPage /\ Unmapped[r.vaddr] = NULL
    BY <2>1 DEF Unmapped
  <2>3. MapRegions(Unmapped, rs, i - 1)[r.vaddr] = NULL
    <3>1. \A p \in DOMAIN Unmapped :
              (\A j \in 1 .. (i - 1) : p \notin RegionPages(rs[j])) =>
                  MapRegions(Unmapped, rs, i - 1)[p] = Unmapped[p]
      <4>1. PICK k \in 0 .. Len(rs) : k = i - 1
        BY <1>2
      <4>2. \A p \in DOMAIN Unmapped : (\A j \in 1 .. k : p \notin RegionPages(rs[j])) =>
                  MapRegions(Unmapped, rs, k)[p] = Unmapped[p]
        BY <1>1, MapRegionsResult
      <4> QED BY <4>1, <4>2, Zenon
    <3> QED BY <1>4, <2>1, <2>2, <3>1
  <2> QED
    BY <1>3, <2>1, <2>3, StartsEmpty DEF MapFails, ExactFails
<1> QED BY <1>5, <1>6

\* After task_switch all regions of the task are mapped and nothing else is, and
\* the tables of all others are old (__vmm_alert_tasks).
LEMMA SwitchResult ==
    ASSUME IInv, NEW n \in live \ {current}, NEW gone, TaskSwitch(n, gone)
    PROVE  /\ current' = n
           /\ stray' = {}
           /\ user' \in [Task -> [UserPage -> Frame \cup {NULL}]]
           /\ kernel' \in [KernelPage -> Frame \cup {NULL}]
           /\ old' \in [Task -> BOOLEAN]
           /\ \A i \in 2 .. Len(mem[n]) : \A p \in RegionPages(mem[n][i]) :
                  user'[n][p] = FrameAt(mem[n][i], p)
           /\ \A p \in UserPage : user'[n][p] # NULL =>
                  \E i \in 2 .. Len(mem[n]) : p \in RegionPages(mem[n][i])
           /\ \A p \in KernelPage : kernel'[p] = FrameAt(mem[n][1], p)
           /\ \A t \in live \ {n} : old'[t]
<1> DEFINE rs == mem[n]
<1>1. rs \in Seq(Region) /\ Layout(rs) /\ n \in Task
  BY DEF IInv, TypeOK, Shapes
<1>2. PICK k \in 0 .. Len(rs) :
        /\ Maps(n, k)
        /\ current' = n
        /\ user' = [t \in Task |->
                      IF t = n THEN MapRegions(Synced(n), rs, k)
                      ELSE IF t \in gone THEN Unmapped ELSE user[t]]
        /\ kernel' = MapRegions(kernel, rs, k)
        /\ old' = Alert(n, k)
        /\ stray' = {}
  BY DEF TaskSwitch
<1>3. k = Len(rs)
  <2> SUFFICES ASSUME k # Len(rs) PROVE FALSE
    OBVIOUS
  <2>1. k + 1 \in 1 .. Len(rs)
    BY <1>1
  <2> QED BY <1>2, <2>1, RegionMapSucceeds DEF Maps
<1>4. /\ user'[n] = MapRegions(Unmapped, rs, Len(rs))
      /\ kernel' = MapRegions(kernel, rs, Len(rs))
  BY <1>1, <1>2, <1>3, StartsEmpty
<1>5. /\ DOMAIN Unmapped = UserPage /\ DOMAIN kernel = KernelPage
      /\ \A p \in UserPage : Unmapped[p] = NULL
  BY DEF Unmapped, IInv, TypeOK
<1>6. /\ RegionPages(rs[1]) = KernelPage
      /\ \A i \in 2 .. Len(rs) : RegionPages(rs[i]) \subseteq UserPage
      /\ KernelPage \cap UserPage = {}
      /\ Len(rs) \in Nat /\ Len(rs) >= 2
  <2>1. KernelPage \cap UserPage = {}
    BY VmmAssumption DEF KernelPage, UserPage
  <2>2. Len(rs) \in Nat /\ Len(rs) >= 2
    BY <1>1 DEF Layout
  <2>3. /\ RegionPages(rs[1]) = KernelPage
        /\ \A i \in 2 .. Len(rs) : RegionPages(rs[i]) \subseteq UserPage
    BY <1>1, LayoutPages
  <2> QED BY <2>1, <2>2, <2>3
<1>7. \A i \in 2 .. Len(rs) : \A p \in RegionPages(rs[i]) : user'[n][p] = FrameAt(rs[i], p)
  BY <1>1, <1>4, <1>5, <1>6, MapRegionsResult
<1>8. \A p \in UserPage : user'[n][p] # NULL =>
                  \E i \in 2 .. Len(rs) : p \in RegionPages(rs[i])
  <2> SUFFICES ASSUME NEW p \in UserPage, \A i \in 2 .. Len(rs) : p \notin RegionPages(rs[i])
               PROVE  user'[n][p] = NULL
    OBVIOUS
  <2>1. \A i \in 1 .. Len(rs) : p \notin RegionPages(rs[i])
    BY <1>6
  <2> QED BY <1>1, <1>4, <1>5, <1>6, <2>1, MapRegionsResult
<1>9. \A p \in KernelPage : kernel'[p] = FrameAt(rs[1], p)
  BY <1>1, <1>4, <1>5, <1>6, MapRegionsResult
<1>10. \A t \in live \ {n} : old'[t]
  <2>1. rs[2].vma = "user" /\ 2 \in 1 .. k
    BY <1>1, <1>3, <1>6 DEF Layout, IsStack
  <2>2. old' = [t \in Task |-> t # n /\ (t \in live \/ old[t])]
    BY <1>2, <2>1, StartsEmpty DEF Alert
  <2> QED BY <2>2 DEF IInv, TypeOK
<1>11. old' \in [Task -> BOOLEAN]
  BY <1>2 DEF Alert, IInv, TypeOK
<1>12. user'[n] \in [UserPage -> Frame \cup {NULL}]
  <2>1. user'[n] = [p \in UserPage |-> user'[n][p]]
    BY <1>4, <1>5 DEF MapRegions
  <2>2. \A p \in UserPage : user'[n][p] \in Frame \cup {NULL}
    <3> SUFFICES ASSUME NEW p \in UserPage, user'[n][p] # NULL
                 PROVE  user'[n][p] \in Frame
      OBVIOUS
    <3>1. PICK i \in 2 .. Len(rs) : p \in RegionPages(rs[i])
      BY <1>8
    <3>2. i \in 1 .. Len(rs)
      BY <1>6
    <3>3. user'[n][p] = FrameAt(rs[i], p)
      BY <1>7, <3>1
    <3>4. FrameAt(rs[i], p) \in Frame
      BY <3>1, <3>2, FramesAreFrames DEF IInv
    <3> QED BY <3>3, <3>4
  <2> QED BY <2>1, <2>2
<1>13. user' \in [Task -> [UserPage -> Frame \cup {NULL}]]
  BY <1>2, <1>12 DEF Unmapped, IInv, TypeOK
<1>14. kernel' \in [KernelPage -> Frame \cup {NULL}]
  <2>1. kernel' = [p \in KernelPage |-> kernel'[p]]
    BY <1>4, <1>5 DEF MapRegions
  <2>2. \A p \in KernelPage : kernel'[p] \in Frame
    <3>1. 1 \in 1 .. Len(rs)
      BY <1>6
    <3> QED BY <1>6, <1>9, <3>1, FramesAreFrames DEF IInv
  <2> QED BY <2>1, <2>2
<1> QED
  BY <1>2, <1>7, <1>8, <1>9, <1>10, <1>11, <1>13, <1>14
-----------------------------------------------------------------------------
(* Init.                                                                   *)

\* sched_init: the first task has two stacks with frames of their own.
LEMMA InitIInv ==
    ASSUME Init
    PROVE  IInv
<1> USE VmmAssumption
<1>1. KernelStack \in Region /\ UserStack \in Region
  BY DEF KernelStack, UserStack, Region, Page, UserPage, KernelPage, Frame
<1>2. Main \in Task /\ current = Main /\ live = {Main} /\ phase = "user" /\ new = <<>>
  BY DEF Init, Main, Task
<1>3. mem \in [Task -> Seq(Region)] /\ mem[Main] = <<KernelStack, UserStack>>
  BY <1>1, <1>2 DEF Init
<1>4. /\ Len(mem[Main]) = 2
      /\ mem[Main][1] = KernelStack /\ mem[Main][2] = UserStack
      /\ mem[Main] \in Seq(Region)
  <2>1. mem[Main] \in Seq(Region)
    BY <1>2, <1>3
  <2>2. /\ Len(mem[Main]) = 2
        /\ mem[Main][1] = KernelStack /\ mem[Main][2] = UserStack
    BY <1>3
  <2> QED BY <2>1, <2>2
<1>5. Layout(mem[Main])
  BY <1>4 DEF Layout, IsStack, Ascending, KernelStack, UserStack
<1>6. RegionPages(KernelStack) = KernelPage /\ RegionPages(UserStack) = 1 .. StackPages
  BY DEF RegionPages, KernelStack, UserStack, KernelPage
<1>7. /\ RegionFrames(KernelStack) = 1 .. StackPages
      /\ RegionFrames(UserStack) = (StackPages + 1) .. (StackPages + StackPages)
  BY DEF RegionFrames, KernelStack, UserStack
<1>8. /\ \A p \in 1 .. StackPages : FrameAt(UserStack, p) = StackPages + p
      /\ \A p \in KernelPage : FrameAt(KernelStack, p) = p - UserPages
  BY DEF FrameAt, KernelStack, UserStack, KernelPage
<1>9. /\ user[Main] = [p \in UserPage |->
             IF p \in 1 .. StackPages THEN StackPages + p ELSE NULL]
      /\ kernel = [p \in KernelPage |-> p - UserPages]
  BY <1>2, <1>6, <1>8 DEF Init, MapRegion, Unmapped
<1>10. TypeOK
  <2>1. user[Main] \in [UserPage -> Frame \cup {NULL}]
    BY <1>9 DEF Frame, UserPage
  <2>2. user \in [Task -> [UserPage -> Frame \cup {NULL}]]
    BY <2>1 DEF Init, Unmapped
  <2>3. kernel \in [KernelPage -> Frame \cup {NULL}]
    BY <1>9 DEF Frame, KernelPage
  <2>4. lent \subseteq Frame
    BY <1>7 DEF Init, Frame
  <2> QED BY <1>2, <1>3, <2>2, <2>3, <2>4 DEF Init, TypeOK
<1>11. Shapes
  BY <1>2, <1>5 DEF Shapes
<1>12. FramesAreOwned
  <2>1. DOMAIN mem[Main] = {1, 2} /\ DOMAIN new = {}
    BY <1>2, <1>4
  <2>2. RegionFrames(KernelStack) \cap RegionFrames(UserStack) = {}
    BY <1>7
  <2>3. lent = RegionFrames(KernelStack) \cup RegionFrames(UserStack)
    BY DEF Init
  <2> QED BY <1>2, <1>4, <2>1, <2>2, <2>3 DEF FramesAreOwned
<1>13. OthersAreSynced
  BY <1>2 DEF OthersAreSynced
<1>14. Mapped
  <2>1. \A p \in KernelPage : kernel[p] = FrameAt(mem[current][1], p)
    BY <1>2, <1>4, <1>8, <1>9
  <2>2. \A p \in 1 .. StackPages : user[current][p] # NULL
    BY <1>2, <1>9 DEF UserPage, NULL
  <2> QED BY <1>2, <2>1, <2>2 DEF Mapped
<1>15. OwnPages
  <2> SUFFICES ASSUME NEW p \in UserPage, user[current][p] # NULL
               PROVE  \E i \in 1 .. Len(mem[current]) :
                         /\ p \in RegionPages(mem[current][i])
                         /\ user[current][p] = FrameAt(mem[current][i], p)
    BY DEF OwnPages
  <2>1. p \in 1 .. StackPages /\ user[current][p] = StackPages + p
    BY <1>2, <1>9
  <2>2. 2 \in 1 .. Len(mem[current]) /\ mem[current][2] = UserStack
    BY <1>2, <1>4
  <2> QED BY <1>6, <1>8, <2>1, <2>2
<1>16. Contents
  <2> SUFFICES ASSUME NEW i \in 1 .. Len(mem[Main]), NEW p \in RegionPages(mem[Main][i])
               PROVE  data[FrameAt(mem[Main][i], p)] = seen[Main][p]
    BY <1>2 DEF Contents, Holds
  <2>1. FrameAt(mem[Main][i], p) \in Frame
    BY <1>2, <1>10, <1>12, FramesAreFrames
  <2>2. p \in Page
    <3>1. CASE i = 1
      BY <1>4, <1>6, <3>1 DEF Page
    <3>2. CASE i = 2
      BY <1>4, <1>6, <3>2 DEF Page, UserPage
    <3> QED BY <1>4, <3>1, <3>2
  <2> QED BY <1>2, <2>1, <2>2 DEF Init
<1> QED
  BY <1>10, <1>11, <1>12, <1>13, <1>14, <1>15, <1>16 DEF IInv
-----------------------------------------------------------------------------
(* Steps after which nothing is being copied or loaded.                    *)

\* Lists stay as they are or end, and their frames stay lent.
LEMMA FramesStayOwned ==
    ASSUME FramesAreOwned, TypeOK, TypeOK',
           live' \subseteq live, new' = <<>>,
           \A t \in live' : mem'[t] = mem[t],
           \A t \in live' : \A i \in 1 .. Len(mem[t]) : RegionFrames(mem[t][i]) \subseteq lent'
    PROVE  FramesAreOwned'
<1>1. DOMAIN new' = {}
  OBVIOUS
<1>2. ASSUME NEW t \in live', NEW u \in live',
             NEW i \in DOMAIN mem'[t], NEW j \in DOMAIN mem'[u]
      PROVE  /\ RegionFrames(mem'[t][i]) \subseteq lent'
             /\ <<t, i>> # <<u, j>> =>
                    RegionFrames(mem'[t][i]) \cap RegionFrames(mem'[u][j]) = {}
  <2>1. /\ t \in live /\ u \in live /\ mem'[t] = mem[t] /\ mem'[u] = mem[u]
        /\ i \in 1 .. Len(mem[t]) /\ j \in 1 .. Len(mem[u])
    BY DEF TypeOK
  <2> QED BY <2>1, OwnedFrames
<1> QED
  BY <1>1, <1>2 DEF FramesAreOwned

\* Nothing that FramesAreOwned speaks of changes.
LEMMA FramesUnchanged ==
    ASSUME FramesAreOwned, UNCHANGED <<live, mem, lent, new>>
    PROVE  FramesAreOwned'
<1>1. live' = live /\ mem' = mem /\ lent' = lent /\ new' = new
  OBVIOUS
<1> QED BY <1>1 DEF FramesAreOwned

\* Frame f keeps its contents, or is spoilt.
Kept(f) == data'[f] = data[f] /\ (f \in spoilt => f \in spoilt')

\* What a frame holds that keeps its contents.
LEMMA KeptHolds ==
    ASSUME NEW f, NEW v, Kept(f), Holds(f, v)
    PROVE  f \in spoilt' \/ data'[f] = v
BY DEF Kept, Holds

\* Frames that are in use keep their contents.
LEMMA ContentsStay ==
    ASSUME Contents, live' \subseteq live, new' = <<>>,
           \A t \in live' : mem'[t] = mem[t] /\ seen'[t] = seen[t],
           \A t \in live' : \A i \in 1 .. Len(mem[t]) : \A p \in RegionPages(mem[t][i]) :
               Kept(FrameAt(mem[t][i], p))
    PROVE  Contents'
<1>1. 1 .. Len(new') = {}
  OBVIOUS
<1>2. ASSUME NEW t \in live', NEW i \in 1 .. Len(mem'[t]), NEW p \in RegionPages(mem'[t][i])
      PROVE  FrameAt(mem'[t][i], p) \in spoilt' \/ data'[FrameAt(mem'[t][i], p)] = seen'[t][p]
  <2>1. Holds(FrameAt(mem[t][i], p), seen[t][p]) /\ Kept(FrameAt(mem[t][i], p))
    BY DEF Contents
  <2> QED BY <2>1, KeptHolds
<1> QED
  BY <1>1, <1>2 DEF Contents, Holds

\* What task_switch leaves in the tables.
LEMMA SwitchTables ==
    ASSUME IInv, NEW n \in live \ {current}, NEW gone, TaskSwitch(n, gone),
           phase' = "user", live' \subseteq live, mem'[n] = mem[n]
    PROVE  OthersAreSynced' /\ Mapped' /\ OwnPages'
<1>1. /\ current' = n
      /\ \A i \in 2 .. Len(mem[n]) : \A p \in RegionPages(mem[n][i]) :
             user'[n][p] = FrameAt(mem[n][i], p)
      /\ \A p \in UserPage : user'[n][p] # NULL =>
             \E i \in 2 .. Len(mem[n]) : p \in RegionPages(mem[n][i])
      /\ \A p \in KernelPage : kernel'[p] = FrameAt(mem[n][1], p)
      /\ \A t \in live \ {n} : old'[t]
  BY SwitchResult
<1>2. mem[n] \in Seq(Region) /\ Layout(mem[n]) /\ n \in live
  BY DEF IInv, TypeOK, Shapes
<1>3. OthersAreSynced'
  BY <1>1 DEF OthersAreSynced
<1>4. Mapped'
  <2> SUFFICES ASSUME NEW p \in 1 .. StackPages
               PROVE  user'[n][p] # NULL
    BY <1>1 DEF Mapped
  <2>1. p \in RegionPages(mem[n][2]) /\ 2 \in 2 .. Len(mem[n]) /\ 2 \in 1 .. Len(mem[n])
    <3>1. RegionPages(mem[n][2]) = 1 .. StackPages
      BY <1>2, LayoutPages
    <3>2. Len(mem[n]) \in Nat /\ Len(mem[n]) >= 2
      BY <1>2 DEF Layout
    <3> QED BY <3>1, <3>2
  <2>2. user'[n][p] = FrameAt(mem[n][2], p)
    BY <1>1, <2>1
  <2>3. FrameAt(mem[n][2], p) \in Frame
    BY <1>2, <2>1, FramesAreFrames DEF IInv
  <2> QED BY <2>2, <2>3 DEF Frame, NULL
<1>5. OwnPages'
  <2> SUFFICES ASSUME NEW p \in UserPage, user'[n][p] # NULL
               PROVE  \E i \in 1 .. Len(mem[n]) :
                         p \in RegionPages(mem[n][i]) /\ user'[n][p] = FrameAt(mem[n][i], p)
    BY <1>1 DEF OwnPages
  <2>1. PICK i \in 2 .. Len(mem[n]) : p \in RegionPages(mem[n][i])
    BY <1>1
  <2>2. user'[n][p] = FrameAt(mem[n][i], p)
    BY <1>1, <2>1
  <2>3. i \in 1 .. Len(mem[n])
    BY <1>2
  <2> QED BY <2>1, <2>2, <2>3
<1> QED
  BY <1>3, <1>4, <1>5

\* The scheduler takes another task.
LEMMA SwitchIInv ==
    ASSUME IInv, NEW n \in Task, Switch(n)
    PROVE  IInv'
<1>1. /\ n \in live \ {current} /\ TaskSwitch(n, {}) /\ phase = "user" /\ new = <<>>
      /\ UNCHANGED <<live, mem, lent, data, phase, new, seen, spoilt>>
  BY DEF Switch, IInv, Shapes
<1>2. TypeOK'
  <2>1. /\ current' = n /\ stray' = {}
        /\ user' \in [Task -> [UserPage -> Frame \cup {NULL}]]
        /\ kernel' \in [KernelPage -> Frame \cup {NULL}]
        /\ old' \in [Task -> BOOLEAN]
    BY <1>1, SwitchResult
  <2> QED BY <1>1, <2>1 DEF IInv, TypeOK
<1>3. Shapes'
  BY <1>1 DEF IInv, Shapes
<1>4. FramesAreOwned'
  BY <1>1, <1>2, FramesUnchanged DEF IInv
<1>5. OthersAreSynced' /\ Mapped' /\ OwnPages'
  BY <1>1, SwitchTables
<1>6. Contents'
  BY <1>1 DEF IInv, Contents, Holds
<1> QED
  BY <1>2, <1>3, <1>4, <1>5, <1>6 DEF IInv

\* The running task ends: __sched_queue_clean frees its regions, which no other
\* task has.
LEMMA ExitIInv ==
    ASSUME IInv, NEW n \in Task, Exit(n)
    PROVE  IInv'
<1> USE VmmAssumption
<1>1. /\ n \in live \ {current} /\ TaskSwitch(n, {current}) /\ phase = "user" /\ new = <<>>
      /\ phase' = phase /\ new' = new
      /\ live' = live \ {current}
      /\ lent' = lent \ FramesOf(mem[current])
      /\ mem' = [mem EXCEPT ![current] = <<>>]
      /\ data' = Forget(FramesOf(mem[current]))
      /\ seen' = [seen EXCEPT ![current] = [p \in Page |-> 0]]
      /\ spoilt' = spoilt \ FramesOf(mem[current])
  BY DEF Exit, IInv, Shapes
<1>2. /\ current \in Task /\ current \in live /\ mem \in [Task -> Seq(Region)]
      /\ live \subseteq Task /\ mem[current] \in Seq(Region)
  BY DEF IInv, TypeOK
<1>3. \A t \in live' : mem'[t] = mem[t] /\ seen'[t] = seen[t]
  BY <1>1, <1>2 DEF IInv, TypeOK
<1>4. TypeOK'
  <2>1. /\ current' = n /\ stray' = {}
        /\ user' \in [Task -> [UserPage -> Frame \cup {NULL}]]
        /\ kernel' \in [KernelPage -> Frame \cup {NULL}]
        /\ old' \in [Task -> BOOLEAN]
    BY <1>1, SwitchResult
  <2>2. data' \in [Frame -> Values] /\ lent' \subseteq Frame /\ spoilt' \subseteq lent'
    BY <1>1 DEF Forget, IInv, TypeOK
  <2>3. mem' \in [Task -> Seq(Region)]
    BY <1>1, <1>2
  <2>4. seen' \in [Task -> [Page -> Values]]
    BY <1>1 DEF IInv, TypeOK
  <2> QED BY <1>1, <2>1, <2>2, <2>3, <2>4 DEF IInv, TypeOK
<1>5. Shapes'
  BY <1>1, <1>3 DEF IInv, Shapes
<1>6. ASSUME NEW t \in live', NEW i \in 1 .. Len(mem[t])
      PROVE  RegionFrames(mem[t][i]) \cap FramesOf(mem[current]) = {}
  <2> SUFFICES ASSUME NEW f \in RegionFrames(mem[t][i]), f \in FramesOf(mem[current])
               PROVE  FALSE
    OBVIOUS
  <2>1. PICK j \in 1 .. Len(mem[current]) : f \in RegionFrames(mem[current][j])
    BY <1>2, FramesOfList
  <2>2. t \in live /\ <<t, i>> # <<current, j>>
    BY <1>1
  <2>3. RegionFrames(mem[t][i]) \cap RegionFrames(mem[current][j]) = {}
    BY <1>2, <2>2, OwnedFrames DEF IInv
  <2> QED BY <2>1, <2>3
<1>7. ASSUME NEW t \in live', NEW i \in 1 .. Len(mem[t])
      PROVE  RegionFrames(mem[t][i]) \subseteq lent'
  <2>1. t \in live
    BY <1>1
  <2>2. RegionFrames(mem[t][i]) \subseteq lent
    BY <2>1, OwnedFrames DEF IInv
  <2> QED BY <1>1, <1>6, <2>2
<1>8. FramesAreOwned'
  BY <1>1, <1>3, <1>4, <1>7, FramesStayOwned DEF IInv
<1>9. OthersAreSynced' /\ Mapped' /\ OwnPages'
  BY <1>1, <1>3, SwitchTables
<1>10. ASSUME NEW t \in live', NEW i \in 1 .. Len(mem[t]), NEW p \in RegionPages(mem[t][i])
       PROVE  Kept(FrameAt(mem[t][i], p))
  <2>1. t \in live /\ mem[t] \in Seq(Region)
    BY <1>1, <1>2
  <2>2. FrameAt(mem[t][i], p) \in RegionFrames(mem[t][i])
    BY <2>1, RegionFacts, RegionType
  <2>3. FrameAt(mem[t][i], p) \in Frame
    BY <2>1, FramesAreFrames DEF IInv
  <2> QED BY <1>1, <1>6, <2>2, <2>3 DEF Forget, Kept
<1>11. Contents'
  BY <1>1, <1>3, <1>10, ContentsStay DEF IInv
<1> QED
  BY <1>4, <1>5, <1>8, <1>9, <1>11 DEF IInv
-----------------------------------------------------------------------------
(* A running program, and the starts of fork and exec.                     *)

\* The region list of a task that exists.
LEMMA LiveList ==
    ASSUME IInv, NEW t \in live
    PROVE  /\ t \in Task /\ mem[t] \in Seq(Region) /\ Layout(mem[t])
           /\ Len(mem[t]) \in Nat /\ Len(mem[t]) >= 2
           /\ \A i \in 1 .. Len(mem[t]) : mem[t][i] \in Region
<1>1. t \in Task /\ mem[t] \in Seq(Region) /\ Layout(mem[t])
  BY DEF IInv, TypeOK, Shapes
<1>2. Len(mem[t]) \in Nat /\ Len(mem[t]) >= 2
  BY <1>1 DEF Layout
<1> QED BY <1>1, <1>2, RegionType

\* A page is in one region of a list.
LEMMA OneRegion ==
    ASSUME NEW rs \in Seq(Region), Layout(rs), NEW i \in 1 .. Len(rs), NEW j \in 1 .. Len(rs),
           NEW p \in RegionPages(rs[i]), p \in RegionPages(rs[j])
    PROVE  i = j
<1>1. i # j => RegionPages(rs[i]) \cap RegionPages(rs[j]) = {}
  BY LayoutPages
<1> QED BY <1>1

\* The user half and the kernel half are different pages.
LEMMA HalvesDiffer ==
    UserPage \cap KernelPage = {}
BY VmmAssumption DEF UserPage, KernelPage

\* A page of a region, if it is mapped and not left over from a failed exec,
\* leads to the frame of that region.
LEMMA EntryIsOwn ==
    ASSUME IInv, phase # "load", NEW i \in 1 .. Len(mem[current]),
           NEW p \in RegionPages(mem[current][i]), p \notin stray, Entry(p) # NULL
    PROVE  Entry(p) = FrameAt(mem[current][i], p) /\ p \in Page
<1> DEFINE rs == mem[current]
<1>1. /\ current \in live /\ rs \in Seq(Region) /\ Layout(rs)
      /\ Len(rs) \in Nat /\ Len(rs) >= 2
  BY LiveList DEF IInv, TypeOK
<1>2. CASE i = 1
  <2>1. p \in KernelPage
    BY <1>1, <1>2, LayoutPages
  <2>2. Entry(p) = kernel[p]
    BY <2>1, HalvesDiffer DEF Entry
  <2> QED BY <1>2, <2>1, <2>2 DEF IInv, Mapped, Page
<1>3. CASE i # 1
  <2>1. i \in 2 .. Len(rs)
    BY <1>1, <1>3
  <2>2. p \in UserPage
    BY <1>1, <2>1, LayoutPages
  <2>3. Entry(p) = user[current][p]
    BY <2>2 DEF Entry
  <2>4. PICK j \in 1 .. Len(rs) : p \in RegionPages(rs[j]) /\ user[current][p] = FrameAt(rs[j], p)
    BY <2>2, <2>3 DEF IInv, OwnPages
  <2>5. i = j
    BY <1>1, <2>4, OneRegion
  <2> QED BY <2>2, <2>3, <2>4, <2>5 DEF Page
<1> QED BY <1>2, <1>3

\* What is mapped is a frame.
LEMMA EntryIsFrame ==
    ASSUME TypeOK, NEW p \in Page, Entry(p) # NULL
    PROVE  Entry(p) \in Frame
BY DEF TypeOK, Entry, Page

\* A store through a page of the task's own regions reaches one page of one task.
LEMMA OwnWriteContents ==
    ASSUME IInv, NEW p \in Page, NEW v \in Values, phase = "user", p \notin stray, Entry(p) # NULL,
           data' = [data EXCEPT ![Entry(p)] = IF Entry(p) \in lent THEN v ELSE data[Entry(p)]],
           seen' = [seen EXCEPT ![current][p] = v], spoilt' = spoilt \ {Entry(p)}
    PROVE  \A t \in live : \A j \in 1 .. Len(mem[t]) : \A q \in RegionPages(mem[t][j]) :
               FrameAt(mem[t][j], q) \in spoilt' \/ data'[FrameAt(mem[t][j], q)] = seen'[t][q]
<1>1. /\ current \in live /\ current \in Task
      /\ mem[current] \in Seq(Region) /\ Layout(mem[current]) /\ Len(mem[current]) >= 2
      /\ Len(mem[current]) \in Nat
  BY LiveList DEF IInv, TypeOK
<1>2. PICK i \in 1 .. Len(mem[current]) :
           p \in RegionPages(mem[current][i]) /\ Entry(p) = FrameAt(mem[current][i], p)
  <2>1. CASE p \in UserPage
    <3>1. Entry(p) = user[current][p]
      BY <2>1 DEF Entry
    <3> QED BY <2>1, <3>1 DEF IInv, OwnPages
  <2>2. CASE p \in KernelPage
    <3>1. Entry(p) = kernel[p]
      BY <2>2, HalvesDiffer DEF Entry
    <3>2. p \in RegionPages(mem[current][1]) /\ 1 \in 1 .. Len(mem[current])
      BY <1>1, <2>2, LayoutPages
    <3> QED BY <2>2, <3>1, <3>2 DEF IInv, Mapped
  <2> QED BY <2>1, <2>2 DEF Page
<1>3. Entry(p) \in Frame /\ Entry(p) \in lent
  BY <1>1, <1>2, FramesAreFrames DEF IInv
<1> SUFFICES ASSUME NEW t \in live, NEW j \in 1 .. Len(mem[t]), NEW q \in RegionPages(mem[t][j])
             PROVE  FrameAt(mem[t][j], q) \in spoilt' \/ data'[FrameAt(mem[t][j], q)] = seen'[t][q]
  OBVIOUS
<1>4. Holds(FrameAt(mem[t][j], q), seen[t][q])
  BY DEF IInv, Contents
<1>5. FrameAt(mem[t][j], q) \in Frame
  BY FramesAreFrames DEF IInv
<1>6. CASE t = current /\ j = i /\ q = p
  BY <1>1, <1>2, <1>3, <1>6 DEF IInv, TypeOK
<1>7. CASE ~(t = current /\ j = i /\ q = p)
  <2>1. FrameAt(mem[t][j], q) # Entry(p)
    <3>1. CASE <<t, j>> = <<current, i>>
      <4>1. t = current /\ j = i /\ mem[t][j] \in Region
        BY <1>1, <3>1, RegionType
      <4> QED BY <1>2, <1>7, <4>1, RegionFacts
    <3>2. CASE <<t, j>> # <<current, i>>
      BY <1>1, <1>2, <3>2, FramesDiffer DEF IInv
    <3> QED BY <3>1, <3>2
  <2>2. t = current => q # p
    <3> SUFFICES ASSUME t = current, q = p PROVE FALSE
      OBVIOUS
    <3>1. i = j
      BY <1>1, <1>2, OneRegion
    <3> QED BY <1>7, <3>1
  <2>3. data'[FrameAt(mem[t][j], q)] = data[FrameAt(mem[t][j], q)]
    BY <1>5, <2>1 DEF IInv, TypeOK
  <2>4. seen'[t][q] = seen[t][q]
    BY <1>1, <2>2 DEF IInv, TypeOK
  <2> QED BY <1>4, <2>1, <2>3, <2>4 DEF Holds
<1> QED BY <1>6, <1>7

\* A store, also through a page that a failed exec has left.
LEMMA WriteIInv ==
    ASSUME IInv, NEW p \in Page, NEW v \in Values, Write(p, v)
    PROVE  IInv'
<1>1. /\ phase = "user" /\ Entry(p) # NULL
      /\ data' = [data EXCEPT ![Entry(p)] = IF Entry(p) \in lent THEN v ELSE data[Entry(p)]]
      /\ \/ p \in stray /\ spoilt' = spoilt \cup ({Entry(p)} \cap lent) /\ seen' = seen
         \/ /\ p \notin stray
            /\ spoilt' = spoilt \ {Entry(p)}
            /\ seen' = [seen EXCEPT ![current][p] = v]
      /\ current' = current /\ live' = live /\ mem' = mem /\ old' = old /\ user' = user
      /\ kernel' = kernel /\ lent' = lent /\ phase' = phase /\ new' = new /\ stray' = stray
      /\ new = <<>>
  BY DEF Write, tables, IInv, Shapes
<1>2. current \in live /\ current \in Task
  BY DEF IInv, TypeOK
<1>3. Entry(p) \in Frame
  BY <1>1, EntryIsFrame DEF IInv
<1>4. TypeOK'
  <2>1. data' \in [Frame -> Values]
    BY <1>1, <1>3 DEF IInv, TypeOK
  <2>2. seen' \in [Task -> [Page -> Values]]
    <3>1. seen \in [Task -> [Page -> Values]]
      BY DEF IInv, TypeOK
    <3>2. [seen EXCEPT ![current][p] = v] \in [Task -> [Page -> Values]]
      BY <1>2, <3>1
    <3> QED BY <1>1, <3>1, <3>2
  <2>3. spoilt' \subseteq lent'
    BY <1>1 DEF IInv, TypeOK
  <2> QED BY <1>1, <2>1, <2>2, <2>3 DEF IInv, TypeOK
<1>5. Shapes'
  BY <1>1 DEF IInv, Shapes
<1>6. FramesAreOwned'
  BY <1>1, FramesUnchanged DEF IInv
<1>7. OthersAreSynced' /\ Mapped' /\ OwnPages'
  BY <1>1 DEF IInv, OthersAreSynced, Mapped, OwnPages
<1>8. \A t \in live : \A j \in 1 .. Len(mem[t]) : \A q \in RegionPages(mem[t][j]) :
          FrameAt(mem[t][j], q) \in spoilt' \/ data'[FrameAt(mem[t][j], q)] = seen'[t][q]
  <2>1. CASE p \notin stray
    BY <1>1, <2>1, OwnWriteContents
  <2>2. CASE p \in stray
    <3> SUFFICES ASSUME NEW t \in live, NEW j \in 1 .. Len(mem[t]), NEW q \in RegionPages(mem[t][j])
                 PROVE  FrameAt(mem[t][j], q) \in spoilt' \/ data'[FrameAt(mem[t][j], q)] = seen'[t][q]
      OBVIOUS
    <3>1. FrameAt(mem[t][j], q) \in Frame /\ FrameAt(mem[t][j], q) \in lent
      BY FramesAreFrames DEF IInv
    <3>2. Holds(FrameAt(mem[t][j], q), seen[t][q])
      BY DEF IInv, Contents
    <3> QED BY <1>1, <2>2, <3>1, <3>2 DEF Holds, IInv, TypeOK
  <2> QED BY <2>1, <2>2
<1>9. Contents'
  BY <1>1, <1>8 DEF Contents, Holds
<1> QED
  BY <1>4, <1>5, <1>6, <1>7, <1>9 DEF IInv

\* The start of fork, when all pages of the task are mapped.
LEMMA ForkIInv ==
    ASSUME IInv, Fork
    PROVE  IInv'
<1>1. /\ phase = "user" /\ phase' = "copy" /\ new = <<>> /\ Intact
      /\ current' = current /\ live' = live /\ mem' = mem /\ old' = old /\ user' = user
      /\ kernel' = kernel /\ lent' = lent /\ data' = data /\ new' = new /\ stray' = stray
      /\ seen' = seen /\ spoilt' = spoilt
  BY DEF Fork, tables, IInv, Shapes
<1>2. TypeOK'
  BY <1>1 DEF IInv, TypeOK
<1>3. Shapes'
  <2>1. Intact'
    BY <1>1 DEF Intact, Entry
  <2>2. Len(new') =< Len(mem'[current'])
    BY <1>1, LiveList DEF IInv, TypeOK
  <2> QED BY <1>1, <2>1, <2>2 DEF IInv, Shapes
<1>4. FramesAreOwned'
  BY <1>1, FramesUnchanged DEF IInv
<1>5. OthersAreSynced' /\ Mapped' /\ OwnPages'
  BY <1>1 DEF IInv, OthersAreSynced, Mapped, OwnPages
<1>6. Contents'
  BY <1>1 DEF IInv, Contents, Holds
<1> QED
  BY <1>2, <1>3, <1>4, <1>5, <1>6 DEF IInv

\* The start of exec.
LEMMA ExecIInv ==
    ASSUME IInv, Exec
    PROVE  IInv'
<1>1. /\ phase = "user" /\ phase' = "load" /\ new = <<>>
      /\ current' = current /\ live' = live /\ mem' = mem /\ old' = old /\ user' = user
      /\ kernel' = kernel /\ lent' = lent /\ data' = data /\ new' = new /\ stray' = stray
      /\ seen' = seen /\ spoilt' = spoilt
  BY DEF Exec, tables, IInv, Shapes
<1>2. TypeOK'
  BY <1>1 DEF IInv, TypeOK
<1>3. Shapes'
  BY <1>1 DEF IInv, Shapes, Ascending
<1>4. FramesAreOwned'
  BY <1>1, FramesUnchanged DEF IInv
<1>5. OthersAreSynced' /\ Mapped' /\ OwnPages'
  BY <1>1 DEF IInv, OthersAreSynced, Mapped, OwnPages
<1>6. Contents'
  BY <1>1 DEF IInv, Contents, Holds
<1> QED
  BY <1>2, <1>3, <1>4, <1>5, <1>6 DEF IInv
-----------------------------------------------------------------------------
(* The list that task_copy or elf_load builds.                             *)

\* FramesAreOwned, of a region that is being copied or loaded.
LEMMA NewFrames ==
    ASSUME FramesAreOwned, TypeOK, NEW i \in 1 .. Len(new)
    PROVE  /\ new[i] \in Region
           /\ RegionFrames(new[i]) \subseteq lent
           /\ \A j \in 1 .. Len(new) : i # j => RegionFrames(new[i]) \cap RegionFrames(new[j]) = {}
           /\ \A t \in live : \A j \in 1 .. Len(mem[t]) :
                  RegionFrames(mem[t][j]) \cap RegionFrames(new[i]) = {}
<1>1. new \in Seq(Region) /\ DOMAIN new = 1 .. Len(new) /\ new[i] \in Region
  BY RegionType DEF TypeOK
<1>2. RegionFrames(new[i]) \subseteq lent
  BY <1>1 DEF FramesAreOwned
<1>3. \A j \in 1 .. Len(new) : i # j => RegionFrames(new[i]) \cap RegionFrames(new[j]) = {}
  BY <1>1 DEF FramesAreOwned
<1>4. ASSUME NEW t \in live, NEW j \in 1 .. Len(mem[t])
      PROVE  RegionFrames(mem[t][j]) \cap RegionFrames(new[i]) = {}
  <2>1. j \in DOMAIN mem[t]
    BY DEF TypeOK
  <2> QED BY <1>1, <2>1 DEF FramesAreOwned
<1> QED
  BY <1>1, <1>2, <1>3, <1>4

\* The list after one more region.
LEMMA AppendRegion ==
    ASSUME NEW rs \in Seq(Region), NEW r \in Region
    PROVE  /\ Append(rs, r) \in Seq(Region)
           /\ Len(rs) \in Nat
           /\ Len(Append(rs, r)) = Len(rs) + 1
           /\ \A i \in 1 .. Len(rs) : Append(rs, r)[i] = rs[i]
           /\ Append(rs, r)[Len(rs) + 1] = r
           /\ \A i \in 1 .. (Len(rs) + 1) : i \in 1 .. Len(rs) \/ i = Len(rs) + 1
OBVIOUS

\* pmm_alloc gives the next region frames that nothing has.
LEMMA NewRegionOwned ==
    ASSUME FramesAreOwned, TypeOK, TypeOK', NEW r \in Region,
           RegionFrames(r) \cap lent = {}, lent' = lent \cup RegionFrames(r),
           new' = Append(new, r), live' = live, mem' = mem
    PROVE  FramesAreOwned'
<1>1. new \in Seq(Region) /\ new' \in Seq(Region)
  BY DEF TypeOK
<1>2. /\ DOMAIN new' = 1 .. (Len(new) + 1)
      /\ \A i \in 1 .. Len(new) : new'[i] = new[i]
      /\ new'[Len(new) + 1] = r
      /\ \A i \in 1 .. (Len(new) + 1) : i \in 1 .. Len(new) \/ i = Len(new) + 1
  BY <1>1, AppendRegion
<1>3. ASSUME NEW t \in live', NEW u \in live', NEW i \in DOMAIN mem'[t], NEW j \in DOMAIN mem'[u]
      PROVE  /\ RegionFrames(mem'[t][i]) \subseteq lent'
             /\ <<t, i>> # <<u, j>> => RegionFrames(mem'[t][i]) \cap RegionFrames(mem'[u][j]) = {}
  <2>1. t \in live /\ u \in live /\ i \in 1 .. Len(mem[t]) /\ j \in 1 .. Len(mem[u])
    BY DEF TypeOK
  <2> QED BY <2>1, OwnedFrames
<1>4. ASSUME NEW i \in DOMAIN new'
      PROVE  RegionFrames(new'[i]) \subseteq lent'
  <2>1. CASE i \in 1 .. Len(new)
    BY <1>2, <2>1, NewFrames
  <2>2. CASE i = Len(new) + 1
    BY <1>2, <2>2
  <2> QED BY <1>2, <2>1, <2>2
<1>5. ASSUME NEW t \in live, NEW i \in DOMAIN mem[t], NEW j \in DOMAIN new'
      PROVE  RegionFrames(mem[t][i]) \cap RegionFrames(new'[j]) = {}
  <2>1. i \in 1 .. Len(mem[t])
    BY DEF TypeOK
  <2>2. CASE j \in 1 .. Len(new)
    BY <1>2, <2>1, <2>2, NewFrames
  <2>3. CASE j = Len(new) + 1
    <3>1. RegionFrames(mem[t][i]) \subseteq lent
      BY <2>1, OwnedFrames
    <3> QED BY <1>2, <2>3, <3>1
  <2> QED BY <1>2, <2>2, <2>3
<1>6. ASSUME NEW i \in DOMAIN new', NEW j \in DOMAIN new', i # j
      PROVE  RegionFrames(new'[i]) \cap RegionFrames(new'[j]) = {}
  <2>1. \A k \in 1 .. Len(new) : new'[k] = new[k] /\ RegionFrames(new[k]) \subseteq lent
    BY <1>2, NewFrames
  <2>2. CASE i \in 1 .. Len(new) /\ j \in 1 .. Len(new)
    BY <1>2, <1>6, <2>2, NewFrames
  <2>3. CASE i = Len(new) + 1
    <3>1. j \in 1 .. Len(new)
      BY <1>2, <1>6, <2>3
    <3> QED BY <1>2, <2>1, <2>3, <3>1
  <2>4. CASE j = Len(new) + 1
    <3>1. i \in 1 .. Len(new)
      BY <1>2, <1>6, <2>4
    <3> QED BY <1>2, <2>1, <2>4, <3>1
  <2> QED BY <1>2, <2>2, <2>3, <2>4
<1>7. \A t \in live' : \A i \in DOMAIN mem'[t], j \in DOMAIN new' :
           RegionFrames(mem'[t][i]) \cap RegionFrames(new'[j]) = {}
  BY <1>5
<1>8. /\ \A i \in DOMAIN new' : RegionFrames(new'[i]) \subseteq lent'
      /\ \A i, j \in DOMAIN new' : i # j => RegionFrames(new'[i]) \cap RegionFrames(new'[j]) = {}
  BY <1>4, <1>6
<1> QED
  BY <1>3, <1>7, <1>8 DEF FramesAreOwned

\* A frame of a region of the list is lent.
LEMMA NewFramesAreFrames ==
    ASSUME FramesAreOwned, TypeOK, NEW i \in 1 .. Len(new), NEW p \in RegionPages(new[i])
    PROVE  /\ FrameAt(new[i], p) \in RegionFrames(new[i])
           /\ FrameAt(new[i], p) \in lent
           /\ FrameAt(new[i], p) \in Frame
<1>1. new[i] \in Region /\ RegionFrames(new[i]) \subseteq lent
  BY NewFrames
<1>2. FrameAt(new[i], p) \in RegionFrames(new[i])
  BY <1>1, RegionFacts
<1> QED BY <1>1, <1>2 DEF TypeOK

\* Where lent frames keep their contents, so do all regions.
LEMMA LentContents ==
    ASSUME IInv, \A f \in lent : Kept(f)
    PROVE  /\ \A t \in live : \A i \in 1 .. Len(mem[t]) : \A p \in RegionPages(mem[t][i]) :
                  \/ FrameAt(mem[t][i], p) \in spoilt'
                  \/ data'[FrameAt(mem[t][i], p)] = seen[t][p]
           /\ \A i \in 1 .. Len(new) : \A p \in RegionPages(new[i]) : Kept(FrameAt(new[i], p))
<1>1. ASSUME NEW t \in live, NEW i \in 1 .. Len(mem[t]), NEW p \in RegionPages(mem[t][i])
      PROVE  \/ FrameAt(mem[t][i], p) \in spoilt'
             \/ data'[FrameAt(mem[t][i], p)] = seen[t][p]
  <2>1. FrameAt(mem[t][i], p) \in lent
    BY FramesAreFrames DEF IInv
  <2>2. Holds(FrameAt(mem[t][i], p), seen[t][p])
    BY DEF IInv, Contents
  <2> QED BY <2>1, <2>2, KeptHolds
<1>2. ASSUME NEW i \in 1 .. Len(new), NEW p \in RegionPages(new[i])
      PROVE  Kept(FrameAt(new[i], p))
  BY NewFramesAreFrames DEF IInv
<1> QED BY <1>1, <1>2
-----------------------------------------------------------------------------
(* fork.                                                                   *)

\* What region_copy allocates and copies.
LEMMA CopiedRegion ==
    ASSUME IInv, Copying, NEW f \in Frame, Alloc(f, Source.num)
    PROVE  LET r == [Source EXCEPT !.paddr = f]
           IN  /\ Len(new) + 1 \in 1 .. Len(mem[current])
               /\ Source \in Region /\ r \in Region
               /\ SameRegion(r, Source)
               /\ RegionPages(r) = RegionPages(Source)
               /\ RegionFrames(r) = f .. (f + Source.num - 1)
               /\ RegionFrames(r) \cap lent = {} /\ RegionFrames(r) \subseteq Frame
               /\ \A p \in RegionPages(r) :
                      /\ p \in Page /\ Entry(p) \in Frame
                      /\ CopyData(Source, f)[FrameAt(r, p)] = data[Entry(p)]
                      /\ \/ FrameAt(r, p) \in CopySpoilt(Source, f)
                         \/ data[Entry(p)] = seen[current][p]
<1> DEFINE r == [Source EXCEPT !.paddr = f]
           k == Len(new) + 1
<1>1. /\ current \in live /\ mem[current] \in Seq(Region) /\ new \in Seq(Region)
      /\ Len(mem[current]) \in Nat
  BY LiveList DEF IInv, TypeOK
<1>2. k \in 1 .. Len(mem[current])
  BY <1>1 DEF Copying
<1>3. Source \in Region
  BY <1>1, <1>2, RegionType DEF Source
<1>4. r \in Region /\ SameRegion(r, Source) /\ r.paddr = f /\ r.num = Source.num /\ r.vaddr = Source.vaddr
  BY <1>3 DEF Region, SameRegion
<1>5. RegionPages(r) = RegionPages(Source) /\ RegionFrames(r) = f .. (f + Source.num - 1)
  BY <1>4 DEF RegionPages, RegionFrames
<1>6. RegionFrames(r) \cap lent = {} /\ RegionFrames(r) \subseteq Frame
  BY <1>5 DEF Alloc, Fits
<1>7. ASSUME NEW p \in RegionPages(r)
      PROVE  /\ p \in Page /\ Entry(p) \in Frame
             /\ CopyData(Source, f)[FrameAt(r, p)] = data[Entry(p)]
             /\ \/ FrameAt(r, p) \in CopySpoilt(Source, f)
                \/ data[Entry(p)] = seen[current][p]
  <2>1. p \in RegionPages(mem[current][k])
    BY <1>5 DEF Source
  <2>2. Entry(p) # NULL
    BY <1>1, <1>2, <2>1, PagesOfList DEF Copying, IInv, Shapes, Intact
  <2>3. p \in Page
    <3>1. Layout(mem[current])
      BY <1>1 DEF IInv, Shapes
    <3>2. CASE k = 1
      BY <1>1, <2>1, <3>1, <3>2, LayoutPages DEF Page
    <3>3. CASE k # 1
      <4>1. k \in 2 .. Len(mem[current])
        BY <1>1, <1>2, <3>3
      <4> QED BY <1>1, <2>1, <3>1, <4>1, LayoutPages DEF Page
    <3> QED BY <3>2, <3>3
  <2>4. Entry(p) \in Frame
    BY <2>2, <2>3, EntryIsFrame DEF IInv
  <2>5. FrameAt(r, p) \in RegionFrames(r)
    BY <1>4, RegionFacts
  <2>6. Source.vaddr + (FrameAt(r, p) - f) = p
    <3>1. FrameAt(r, p) = f + (p - Source.vaddr) /\ f \in Nat /\ Source.vaddr \in Nat /\ p \in Nat
      BY <1>3, <1>4, RegionFacts DEF FrameAt, Frame
    <3> QED BY <3>1
  <2>7. CopyData(Source, f)[FrameAt(r, p)] = data[Entry(p)]
    BY <1>5, <1>6, <2>5, <2>6 DEF CopyData
  <2>8. CASE p \in stray \/ Entry(p) \in spoilt
    BY <1>5, <2>3, <2>4, <2>5, <2>6, <2>7, <2>8 DEF CopySpoilt
  <2>9. CASE p \notin stray /\ Entry(p) \notin spoilt
    <3>1. Entry(p) = FrameAt(mem[current][k], p)
      BY <1>2, <2>1, <2>2, <2>9, EntryIsOwn DEF Copying
    <3>2. data[Entry(p)] = seen[current][p]
      BY <1>1, <1>2, <2>1, <2>9, <3>1 DEF IInv, Contents, Holds
    <3> QED BY <2>3, <2>4, <2>7, <3>2
  <2> QED BY <2>8, <2>9
<1> QED
  BY <1>2, <1>3, <1>4, <1>5, <1>6, <1>7

\* region_copy.
LEMMA RegionCopyIInv ==
    ASSUME IInv, RegionCopy
    PROVE  IInv'
<1>1. PICK f \in Frame :
           /\ Alloc(f, Source.num)
           /\ lent' = lent \cup f .. (f + Source.num - 1)
           /\ data' = CopyData(Source, f)
           /\ spoilt' = spoilt \cup CopySpoilt(Source, f)
           /\ new' = Append(new, [Source EXCEPT !.paddr = f])
  BY DEF RegionCopy
<1> DEFINE r == [Source EXCEPT !.paddr = f]
           k == Len(new) + 1
<1>2. /\ Copying /\ phase = "copy" /\ phase' = "copy"
      /\ current' = current /\ live' = live /\ mem' = mem /\ old' = old /\ user' = user
      /\ kernel' = kernel /\ stray' = stray /\ seen' = seen
  BY DEF RegionCopy, Copying, tables
<1>3. /\ k \in 1 .. Len(mem[current]) /\ r \in Region
      /\ SameRegion(r, Source)
      /\ RegionFrames(r) = f .. (f + Source.num - 1)
      /\ RegionFrames(r) \cap lent = {} /\ RegionFrames(r) \subseteq Frame
      /\ \A p \in RegionPages(r) :
             /\ Entry(p) \in Frame
             /\ data'[FrameAt(r, p)] = data[Entry(p)]
             /\ FrameAt(r, p) \in spoilt' \/ data'[FrameAt(r, p)] = seen[current][p]
  BY <1>1, <1>2, CopiedRegion
<1>4. new \in Seq(Region) /\ Len(mem[current]) \in Nat /\ current \in Task
  BY LiveList DEF IInv, TypeOK
<1>5. /\ new' \in Seq(Region) /\ Len(new') = k
      /\ \A i \in 1 .. Len(new) : new'[i] = new[i]
      /\ new'[k] = r
      /\ \A i \in 1 .. k : i \in 1 .. Len(new) \/ i = k
  BY <1>1, <1>3, <1>4, AppendRegion
<1>6. data' \in [Frame -> Values]
  <2>1. ASSUME NEW x \in f .. (f + Source.num - 1)
        PROVE  data'[x] \in Values
    <3>1. x \in RegionFrames(r) /\ r.paddr = f
      BY <1>3 DEF RegionFrames
    <3>2. PICK p \in RegionPages(r) : x = FrameAt(r, p)
      <4> DEFINE q == r.vaddr + (x - r.paddr)
      <4>1. r.vaddr \in Nat /\ r.paddr \in Nat /\ r.num \in Nat
        BY <1>3, RegionFacts
      <4>2. q \in RegionPages(r) /\ FrameAt(r, q) = x
        BY <3>1, <4>1 DEF RegionPages, RegionFrames, FrameAt
      <4> QED BY <4>2
    <3>3. data'[x] = data[Entry(p)] /\ Entry(p) \in Frame
      BY <1>3, <3>2
    <3> QED BY <3>3 DEF IInv, TypeOK
  <2> QED BY <1>1, <2>1 DEF CopyData, IInv, TypeOK
<1>7. TypeOK'
  <2>1. spoilt' \subseteq lent'
    BY <1>1 DEF CopySpoilt, IInv, TypeOK
  <2> QED BY <1>1, <1>2, <1>3, <1>5, <1>6, <2>1 DEF IInv, TypeOK
<1>8. Shapes'
  <2>1. Intact'
    BY <1>2 DEF IInv, Shapes, Intact, Entry
  <2>2. ASSUME NEW i \in 1 .. k PROVE SameRegion(new'[i], mem[current][i])
    <3>1. CASE i \in 1 .. Len(new)
      BY <1>2, <1>5, <3>1 DEF IInv, Shapes
    <3>2. CASE i = k
      BY <1>3, <1>5, <3>2 DEF Source
    <3> QED BY <1>5, <3>1, <3>2
  <2>3. Len(new') =< Len(mem[current])
    BY <1>3, <1>4, <1>5
  <2> QED BY <1>2, <1>5, <2>1, <2>2, <2>3 DEF IInv, Shapes
<1>9. FramesAreOwned'
  BY <1>1, <1>2, <1>3, <1>7, NewRegionOwned DEF IInv
<1>10. OthersAreSynced' /\ Mapped' /\ OwnPages'
  BY <1>2 DEF IInv, OthersAreSynced, Mapped, OwnPages
<1>11. Contents'
  <2>1. \A x \in lent : Kept(x)
    BY <1>1, <1>3 DEF CopyData, Kept, IInv, TypeOK
  <2>2. ASSUME NEW i \in 1 .. k, NEW p \in RegionPages(new'[i])
        PROVE  FrameAt(new'[i], p) \in spoilt' \/ data'[FrameAt(new'[i], p)] = seen[current][p]
    <3>1. CASE i \in 1 .. Len(new)
      <4>1. Holds(FrameAt(new[i], p), seen[current][p])
        BY <1>2, <1>5, <3>1 DEF IInv, Contents
      <4>2. Kept(FrameAt(new[i], p))
        BY <1>5, <2>1, <3>1, LentContents
      <4> QED BY <1>5, <3>1, <4>1, <4>2, KeptHolds
    <3>2. CASE i = k
      BY <1>3, <1>5, <3>2
    <3> QED BY <1>5, <3>1, <3>2
  <2>3. \A t \in live : \A i \in 1 .. Len(mem[t]) : \A p \in RegionPages(mem[t][i]) :
           FrameAt(mem[t][i], p) \in spoilt' \/ data'[FrameAt(mem[t][i], p)] = seen[t][p]
    BY <2>1, LentContents
  <2> QED BY <1>2, <1>5, <2>2, <2>3 DEF Contents, Holds
<1> QED
  BY <1>7, <1>8, <1>9, <1>10, <1>11 DEF IInv

\* task_copy fails: what it has allocated stays lent.
LEMMA ForkFailIInv ==
    ASSUME IInv, ForkFail
    PROVE  IInv'
<1>1. /\ Copying /\ phase = "copy" /\ phase' = "user" /\ new' = <<>>
      /\ current' = current /\ live' = live /\ mem' = mem /\ old' = old /\ user' = user
      /\ kernel' = kernel /\ data' = data /\ stray' = stray /\ seen' = seen
      /\ spoilt' = spoilt
      /\ \/ lent' = lent
         \/ \E f \in Frame : /\ Alloc(f, Source.num)
                             /\ lent' = lent \cup f .. (f + Source.num - 1)
  BY DEF ForkFail, Copying, tables
<1>2. lent \subseteq lent' /\ lent' \subseteq Frame
  BY <1>1 DEF Alloc, Fits, IInv, TypeOK
<1>3. TypeOK'
  BY <1>1, <1>2 DEF IInv, TypeOK
<1>4. Shapes'
  BY <1>1 DEF IInv, Shapes
<1>5. ASSUME NEW t \in live, NEW i \in 1 .. Len(mem[t])
      PROVE  RegionFrames(mem[t][i]) \subseteq lent'
  BY <1>2, OwnedFrames DEF IInv
<1>6. FramesAreOwned'
  BY <1>1, <1>3, <1>5, FramesStayOwned DEF IInv
<1>7. OthersAreSynced' /\ Mapped' /\ OwnPages'
  BY <1>1 DEF IInv, OthersAreSynced, Mapped, OwnPages
<1>8. Contents'
  BY <1>1, ContentsStay DEF IInv, Kept
<1> QED
  BY <1>3, <1>4, <1>6, <1>7, <1>8 DEF IInv

\* The copy of a list has the layout of the list.
LEMMA CopyLayout ==
    ASSUME NEW rs \in Seq(Region), NEW ss \in Seq(Region), Layout(rs), Len(ss) = Len(rs),
           \A i \in 1 .. Len(ss) : SameRegion(ss[i], rs[i])
    PROVE  Layout(ss)
<1>1. Len(rs) \in Nat /\ Len(rs) >= 2
  BY DEF Layout
<1>2. SameRegion(ss[1], rs[1]) /\ SameRegion(ss[2], rs[2])
  BY <1>1
<1>3. IsStack(ss[1], "kernel", UserPages + 1) /\ IsStack(ss[2], "user", 1)
  BY <1>2 DEF Layout, IsStack, SameRegion
<1>4. ASSUME NEW i \in 3 .. Len(ss) PROVE IsSegment(ss[i])
  <2>1. IsSegment(rs[i]) /\ SameRegion(ss[i], rs[i])
    BY <1>1 DEF Layout
  <2> QED BY <2>1 DEF IsSegment, SameRegion
<1>5. Ascending(ss, 3)
  <2> SUFFICES ASSUME NEW i \in 3 .. Len(ss), NEW j \in 3 .. Len(ss), i < j
               PROVE  ss[i].vaddr + ss[i].num =< ss[j].vaddr
    BY DEF Ascending
  <2>1. rs[i].vaddr + rs[i].num =< rs[j].vaddr
    BY DEF Layout, Ascending
  <2>2. SameRegion(ss[i], rs[i]) /\ SameRegion(ss[j], rs[j])
    BY <1>1
  <2> QED BY <2>1, <2>2 DEF SameRegion
<1> QED
  BY <1>1, <1>3, <1>4, <1>5 DEF Layout

\* task_copy is complete: the list becomes the new task's.
LEMMA ForkDoneIInv ==
    ASSUME IInv, ForkDone
    PROVE  IInv'
<1>1. PICK t \in Task \ live :
           /\ live' = live \cup {t}
           /\ mem' = [mem EXCEPT ![t] = new]
           /\ user' = [user EXCEPT ![t] = Unmapped]
           /\ old' = [old EXCEPT ![t] = FALSE]
           /\ seen' = [seen EXCEPT ![t] = seen[current]]
  BY DEF ForkDone
<1>2. /\ phase = "copy" /\ phase' = "user" /\ new' = <<>>
      /\ Len(new) = Len(mem[current])
      /\ current' = current /\ kernel' = kernel /\ lent' = lent /\ data' = data /\ stray' = stray
      /\ spoilt' = spoilt
  BY DEF ForkDone
<1>3. /\ current \in live /\ current \in Task /\ current # t
      /\ mem[current] \in Seq(Region) /\ Layout(mem[current]) /\ new \in Seq(Region)
  BY <1>1, LiveList DEF IInv, TypeOK
<1>4. \A u \in live : mem'[u] = mem[u] /\ user'[u] = user[u] /\ old'[u] = old[u] /\ seen'[u] = seen[u]
  BY <1>1 DEF IInv, TypeOK
<1>5. mem'[t] = new /\ user'[t] = Unmapped /\ seen'[t] = seen[current]
  BY <1>1 DEF IInv, TypeOK
<1>6. TypeOK'
  <2>1. mem' \in [Task -> Seq(Region)]
    BY <1>1, <1>3 DEF IInv, TypeOK
  <2>2. user' \in [Task -> [UserPage -> Frame \cup {NULL}]]
    BY <1>1 DEF IInv, TypeOK, Unmapped
  <2>3. old' \in [Task -> BOOLEAN] /\ seen' \in [Task -> [Page -> Values]]
    BY <1>1, <1>3 DEF IInv, TypeOK
  <2> QED BY <1>1, <1>2, <2>1, <2>2, <2>3 DEF IInv, TypeOK
<1>7. Shapes'
  <2>1. Layout(new)
    BY <1>2, <1>3, CopyLayout DEF IInv, Shapes
  <2>2. \A u \in live' : Layout(mem'[u])
    BY <1>1, <1>4, <1>5, <2>1 DEF IInv, Shapes
  <2> QED BY <1>2, <2>2 DEF Shapes
<1>8. FramesAreOwned'
  <2>1. ASSUME NEW x \in live', NEW i \in 1 .. Len(mem'[x])
        PROVE  RegionFrames(mem'[x][i]) \subseteq lent'
    <3>1. CASE x = t
      BY <1>2, <1>5, <3>1, NewFrames DEF IInv
    <3>2. CASE x \in live
      BY <1>2, <1>4, <3>2, OwnedFrames DEF IInv
    <3> QED BY <1>1, <3>1, <3>2
  <2>2. ASSUME NEW x \in live', NEW y \in live', NEW i \in 1 .. Len(mem'[x]),
               NEW j \in 1 .. Len(mem'[y]), <<x, i>> # <<y, j>>
        PROVE  RegionFrames(mem'[x][i]) \cap RegionFrames(mem'[y][j]) = {}
    <3>1. CASE x = t /\ y = t
      <4>1. i # j
        BY <2>2, <3>1
      <4> QED BY <1>5, <3>1, <4>1, NewFrames DEF IInv
    <3>2. CASE x = t /\ y \in live
      <4>1. RegionFrames(mem[y][j]) \cap RegionFrames(new[i]) = {}
        BY <1>4, <1>5, <3>2, NewFrames DEF IInv
      <4> QED BY <1>4, <1>5, <3>2, <4>1
    <3>3. CASE x \in live /\ y = t
      BY <1>4, <1>5, <3>3, NewFrames DEF IInv
    <3>4. CASE x \in live /\ y \in live
      BY <1>4, <2>2, <3>4, OwnedFrames DEF IInv
    <3> QED BY <1>1, <3>1, <3>2, <3>3, <3>4
  <2>3. \A x \in live' : DOMAIN mem'[x] = 1 .. Len(mem'[x])
    BY <1>6 DEF TypeOK
  <2>4. DOMAIN new' = {}
    BY <1>2
  <2>5. ASSUME NEW x \in live', NEW y \in live', NEW i \in DOMAIN mem'[x], NEW j \in DOMAIN mem'[y]
        PROVE  /\ RegionFrames(mem'[x][i]) \subseteq lent'
               /\ <<x, i>> # <<y, j>> =>
                      RegionFrames(mem'[x][i]) \cap RegionFrames(mem'[y][j]) = {}
    BY <2>1, <2>2, <2>3
  <2> QED BY <2>4, <2>5 DEF FramesAreOwned
<1>9. OthersAreSynced'
  BY <1>1, <1>2, <1>4, <1>5 DEF IInv, OthersAreSynced
<1>10. Mapped'
  BY <1>2, <1>3, <1>4 DEF IInv, Mapped
<1>11. OwnPages'
  BY <1>2, <1>3, <1>4 DEF IInv, OwnPages
<1>12. Contents'
  <2> SUFFICES ASSUME NEW u \in live', NEW i \in 1 .. Len(mem'[u]), NEW p \in RegionPages(mem'[u][i])
               PROVE  Holds(FrameAt(mem'[u][i], p), seen'[u][p])
    BY <1>2 DEF Contents, Holds
  <2>1. CASE u = t
    BY <1>2, <1>5, <2>1 DEF IInv, Contents
  <2>2. CASE u \in live
    BY <1>4, <2>2 DEF IInv, Contents
  <2> QED BY <1>1, <2>1, <2>2
<1> QED
  BY <1>6, <1>7, <1>8, <1>9, <1>10, <1>11, <1>12 DEF IInv
-----------------------------------------------------------------------------
(* exec.                                                                   *)

\* Segments that follow one another do not overlap.
LEMMA AscendingPages ==
    ASSUME NEW rs \in Seq(Region), Ascending(rs, 1),
           NEW i \in 1 .. Len(rs), NEW j \in 1 .. Len(rs), i # j
    PROVE  RegionPages(rs[i]) \cap RegionPages(rs[j]) = {}
<1>1. /\ rs[i].vaddr \in Nat /\ rs[i].num \in Nat
      /\ rs[j].vaddr \in Nat /\ rs[j].num \in Nat
  <2>1. rs[i] \in Region /\ rs[j] \in Region
    BY RegionType
  <2> QED BY <2>1, RegionFacts
<1>2. CASE i < j
  <2>1. rs[i].vaddr + rs[i].num =< rs[j].vaddr
    BY <1>2 DEF Ascending
  <2> QED BY <1>1, <2>1, Apart DEF RegionPages
<1>3. CASE j < i
  <2>1. rs[j].vaddr + rs[j].num =< rs[i].vaddr
    BY <1>3 DEF Ascending
  <2> QED BY <1>1, <2>1, Apart DEF RegionPages
<1> QED BY <1>2, <1>3

\* Where the next segment goes: above the stack, which is mapped, and after the
\* segments before it.
LEMMA SegmentPlace ==
    ASSUME IInv, phase = "load", NEW num \in SegPages, NEW s \in UserPage, NEW f \in Frame,
           NEW r, r = [type |-> "IMAGE", vma |-> "user", vaddr |-> s, paddr |-> f, num |-> num],
           IF new = <<>> THEN FirstGap(s, num) ELSE s = NextPage,
           RegionPages(r) \subseteq UserPage
    PROVE  /\ r \in Region /\ IsSegment(r)
           /\ \A i \in 1 .. Len(new) : new[i].vaddr + new[i].num =< s
<1> USE VmmAssumption
<1>1. num \in Nat \ {0} /\ s \in Nat \ {0} /\ UserPages \in Nat /\ StackPages \in Nat
  BY DEF UserPage
<1>2. r \in Region
  BY <1>1 DEF Region, Page
<1>3. s + num =< UserPages + 1
  <2>1. s + num - 1 \in RegionPages(r)
    BY <1>1 DEF RegionPages
  <2> QED BY <1>1, <2>1 DEF UserPage
<1>4. new \in Seq(Region) /\ Len(new) \in Nat
  BY DEF IInv, TypeOK
<1>5. CASE new = <<>>
  <2>1. user[current][s] = NULL
    BY <1>1, <1>5 DEF FirstGap, IsGap
  <2>2. s \notin 1 .. StackPages
    BY <2>1 DEF IInv, Mapped
  <2>3. s > StackPages
    BY <1>1, <2>2
  <2> QED BY <1>2, <1>3, <1>5, <2>3 DEF IsSegment
<1>6. CASE new # <<>>
  <2> DEFINE k == Len(new)
  <2>1. k \in 1 .. k
    BY <1>4, <1>6
  <2>2. s = new[k].vaddr + new[k].num
    BY <1>6 DEF NextPage
  <2>3. new[k].vaddr > StackPages /\ new[k].vaddr \in Nat /\ new[k].num \in Nat
    <3>1. IsSegment(new[k]) /\ new[k] \in Region
      BY <1>4, <2>1, RegionType DEF IInv, Shapes
    <3> QED BY <3>1, RegionFacts DEF IsSegment
  <2>4. s > StackPages
    BY <1>1, <2>2, <2>3
  <2>5. ASSUME NEW i \in 1 .. k PROVE new[i].vaddr + new[i].num =< s
    <3>1. CASE i = k
      BY <1>1, <2>2, <3>1
    <3>2. CASE i # k
      <4>1. new[i].vaddr + new[i].num =< new[k].vaddr
        BY <1>4, <2>1, <3>2 DEF IInv, Shapes, Ascending
      <4>2. new[i].vaddr \in Nat /\ new[i].num \in Nat
        <5>1. new[i] \in Region
          BY <1>4, RegionType
        <5> QED BY <5>1, RegionFacts
      <4> QED BY <2>2, <2>3, <4>1, <4>2
    <3> QED BY <3>1, <3>2
  <2> QED BY <1>2, <1>3, <2>4, <2>5 DEF IsSegment
<1> QED BY <1>5, <1>6

\* __elf_load_dyn loads a segment.
LEMMA LoadSegmentIInv ==
    ASSUME IInv, NEW num \in SegPages, LoadSegment(num)
    PROVE  IInv'
<1> USE VmmAssumption
<1>1. PICK s \in UserPage, f \in Frame :
           LET r == [type |-> "IMAGE", vma |-> "user", vaddr |-> s, paddr |-> f, num |-> num]
           IN  /\ IF new = <<>> THEN FirstGap(s, num) ELSE s = NextPage
               /\ RegionPages(r) \subseteq UserPage
               /\ Alloc(f, num)
               /\ lent' = lent \cup RegionFrames(r)
               /\ user' = [user EXCEPT ![current] = MapRegion(@, r)]
               /\ data' = Forget(RegionFrames(r))
               /\ new' = Append(new, r)
  BY DEF LoadSegment
<1>2. PICK r : r = [type |-> "IMAGE", vma |-> "user", vaddr |-> s, paddr |-> f, num |-> num]
  OBVIOUS
<1>3. /\ IF new = <<>> THEN FirstGap(s, num) ELSE s = NextPage
      /\ RegionPages(r) \subseteq UserPage
      /\ Alloc(f, num)
      /\ lent' = lent \cup RegionFrames(r)
      /\ user' = [user EXCEPT ![current] = MapRegion(user[current], r)]
      /\ data' = Forget(RegionFrames(r))
      /\ new' = Append(new, r)
  BY <1>1, <1>2
<1>4. /\ phase = "load" /\ phase' = "load"
      /\ current' = current /\ live' = live /\ mem' = mem /\ old' = old
      /\ kernel' = kernel /\ stray' = stray /\ seen' = seen /\ spoilt' = spoilt
  BY DEF LoadSegment
<1>5. /\ r \in Region /\ IsSegment(r) /\ r.vaddr = s /\ r.num = num /\ r.paddr = f
      /\ \A i \in 1 .. Len(new) : new[i].vaddr + new[i].num =< r.vaddr
  BY <1>2, <1>3, <1>4, SegmentPlace
<1>6. RegionFrames(r) \cap lent = {} /\ RegionFrames(r) \subseteq Frame
  BY <1>3, <1>5 DEF RegionFrames, Alloc, Fits
<1>7. new \in Seq(Region) /\ current \in live /\ current \in Task
  BY DEF IInv, TypeOK
<1> DEFINE k == Len(new) + 1
<1>8. /\ new' \in Seq(Region) /\ Len(new') = k /\ Len(new) \in Nat
      /\ \A i \in 1 .. Len(new) : new'[i] = new[i]
      /\ new'[k] = r
      /\ \A i \in 1 .. k : i \in 1 .. Len(new) \/ i = k
  BY <1>3, <1>5, <1>7, AppendRegion
<1>9. /\ \A t \in Task : t # current => user'[t] = user[t]
      /\ user'[current] = MapRegion(user[current], r)
  BY <1>3, <1>7 DEF IInv, TypeOK
<1>10. /\ DOMAIN user'[current] = UserPage
       /\ \A p \in RegionPages(r) : user'[current][p] = FrameAt(r, p)
       /\ \A p \in UserPage : p \notin RegionPages(r) => user'[current][p] = user[current][p]
  <2>1. DOMAIN user[current] = UserPage
    BY <1>7 DEF IInv, TypeOK
  <2> QED BY <1>3, <1>9, <2>1 DEF MapRegion
<1>11. TypeOK'
  <2>1. \A p \in UserPage : user'[current][p] \in Frame \cup {NULL}
    <3> SUFFICES ASSUME NEW p \in UserPage PROVE user'[current][p] \in Frame \cup {NULL}
      OBVIOUS
    <3>1. CASE p \in RegionPages(r)
      <4>1. FrameAt(r, p) \in RegionFrames(r)
        BY <1>5, <3>1, RegionFacts
      <4> QED BY <1>6, <1>10, <3>1, <4>1
    <3>2. CASE p \notin RegionPages(r)
      BY <1>7, <1>10, <3>2 DEF IInv, TypeOK
    <3> QED BY <3>1, <3>2
  <2>2. user'[current] \in [UserPage -> Frame \cup {NULL}]
    <3>1. user'[current] = [p \in UserPage |-> user'[current][p]]
      BY <1>9, <1>10 DEF MapRegion
    <3> QED BY <2>1, <3>1
  <2>3. user' \in [Task -> [UserPage -> Frame \cup {NULL}]]
    BY <1>3, <1>7, <1>9, <2>2 DEF IInv, TypeOK
  <2>4. data' \in [Frame -> Values] /\ lent' \subseteq Frame /\ spoilt' \subseteq lent'
    BY <1>3, <1>4, <1>6 DEF Forget, IInv, TypeOK
  <2> QED BY <1>4, <1>8, <2>3, <2>4 DEF IInv, TypeOK
<1>12. Ascending(new', 1)
  <2> SUFFICES ASSUME NEW i \in 1 .. k, NEW j \in 1 .. k, i < j
               PROVE  new'[i].vaddr + new'[i].num =< new'[j].vaddr
    BY <1>8 DEF Ascending
  <2>1. i \in 1 .. Len(new)
    BY <1>8
  <2>2. CASE j = k
    BY <1>5, <1>8, <2>1, <2>2
  <2>3. CASE j \in 1 .. Len(new)
    BY <1>4, <1>8, <2>1, <2>3 DEF IInv, Shapes, Ascending
  <2> QED BY <1>8, <2>2, <2>3
<1>13. Shapes'
  <2>1. \A i \in 1 .. k : IsSegment(new'[i])
    BY <1>4, <1>5, <1>8 DEF IInv, Shapes
  <2> QED BY <1>4, <1>8, <1>12, <2>1 DEF IInv, Shapes
<1>14. FramesAreOwned'
  BY <1>3, <1>4, <1>5, <1>6, <1>11, NewRegionOwned DEF IInv
<1>15. OthersAreSynced'
  BY <1>4, <1>9 DEF IInv, OthersAreSynced, TypeOK
<1>16. Mapped'
  <2>1. ASSUME NEW p \in 1 .. StackPages PROVE user'[current][p] # NULL
    <3>1. p \notin RegionPages(r) /\ p \in UserPage
      BY <1>5, SegmentPages DEF UserPage
    <3> QED BY <1>10, <3>1 DEF IInv, Mapped
  <2>2. ASSUME NEW i \in 1 .. k, NEW p \in RegionPages(new'[i])
        PROVE  user'[current][p] = FrameAt(new'[i], p)
    <3>1. CASE i = k
      BY <1>8, <1>10, <3>1
    <3>2. CASE i \in 1 .. Len(new)
      <4>1. i \in 1 .. Len(new') /\ k \in 1 .. Len(new') /\ i # k
        BY <1>8, <3>2
      <4>2. p \notin RegionPages(r)
        BY <1>8, <1>12, <4>1, AscendingPages
      <4>3. p \in UserPage
        <5>1. new[i] \in Region /\ IsSegment(new[i])
          BY <1>4, <1>7, <3>2, RegionType DEF IInv, Shapes
        <5> QED BY <1>8, <3>2, <5>1, SegmentPages
      <4>4. user[current][p] = FrameAt(new[i], p)
        BY <1>4, <1>8, <3>2 DEF IInv, Mapped
      <4> QED BY <1>8, <1>10, <3>2, <4>2, <4>3, <4>4
    <3> QED BY <1>8, <3>1, <3>2
  <2> QED BY <1>4, <1>8, <2>1, <2>2 DEF IInv, Mapped
<1>17. OwnPages'
  <2> SUFFICES ASSUME NEW p \in UserPage \ stray, user'[current][p] # NULL
               PROVE  \/ \E i \in 1 .. Len(mem[current]) :
                             /\ p \in RegionPages(mem[current][i])
                             /\ user'[current][p] = FrameAt(mem[current][i], p)
                      \/ \E i \in 1 .. k :
                             /\ p \in RegionPages(new'[i])
                             /\ user'[current][p] = FrameAt(new'[i], p)
    BY <1>4, <1>8 DEF OwnPages
  <2>1. CASE p \in RegionPages(r)
    BY <1>8, <1>10, <2>1
  <2>2. CASE p \notin RegionPages(r)
    <3>1. user'[current][p] = user[current][p]
      BY <1>10, <2>2
    <3>2. CASE \E i \in 1 .. Len(mem[current]) :
                   /\ p \in RegionPages(mem[current][i])
                   /\ user[current][p] = FrameAt(mem[current][i], p)
      BY <3>1, <3>2
    <3>3. CASE \E i \in 1 .. Len(new) :
                   p \in RegionPages(new[i]) /\ user[current][p] = FrameAt(new[i], p)
      <4>1. PICK i \in 1 .. Len(new) :
                   p \in RegionPages(new[i]) /\ user[current][p] = FrameAt(new[i], p)
        BY <3>3
      <4>2. i \in 1 .. k /\ new'[i] = new[i]
        BY <1>8
      <4> QED BY <3>1, <4>1, <4>2
    <3> QED BY <3>1, <3>2, <3>3 DEF IInv, OwnPages
  <2> QED BY <2>1, <2>2
<1>18. Contents'
  <2>1. \A x \in lent : Kept(x)
    BY <1>3, <1>4, <1>6 DEF Forget, Kept, IInv, TypeOK
  <2>2. ASSUME NEW i \in 1 .. k, NEW p \in RegionPages(new'[i])
        PROVE  FrameAt(new'[i], p) \in spoilt' \/ data'[FrameAt(new'[i], p)] = 0
    <3>1. CASE i \in 1 .. Len(new)
      <4>1. Holds(FrameAt(new[i], p), 0)
        BY <1>4, <1>8, <3>1 DEF IInv, Contents
      <4>2. Kept(FrameAt(new[i], p))
        BY <1>8, <2>1, <3>1, LentContents
      <4> QED BY <1>8, <3>1, <4>1, <4>2, KeptHolds
    <3>2. CASE i = k
      <4>1. FrameAt(r, p) \in RegionFrames(r)
        BY <1>5, <1>8, <3>2, RegionFacts
      <4> QED BY <1>3, <1>6, <1>8, <3>2, <4>1 DEF Forget
    <3> QED BY <1>8, <3>1, <3>2
  <2>3. \A t \in live : \A i \in 1 .. Len(mem[t]) : \A p \in RegionPages(mem[t][i]) :
           FrameAt(mem[t][i], p) \in spoilt' \/ data'[FrameAt(mem[t][i], p)] = seen[t][p]
    BY <2>1, LentContents
  <2> QED BY <1>4, <1>8, <2>2, <2>3 DEF Contents, Holds
<1> QED
  BY <1>11, <1>13, <1>14, <1>15, <1>16, <1>17, <1>18 DEF IInv

\* The pages of what has been loaded are user pages above the stack.
LEMMA LoadedPages ==
    ASSUME IInv, phase = "load"
    PROVE  /\ PagesOf(new) \subseteq UserPage
           /\ \A p \in 1 .. StackPages : p \notin PagesOf(new)
           /\ new # <<>> => /\ 1 \in 1 .. Len(new)
                            /\ RegionPages(new[1]) \subseteq PagesOf(new)
<1>1. new \in Seq(Region)
  BY DEF IInv, TypeOK
<1>2. ASSUME NEW p \in PagesOf(new) PROVE p \in UserPage /\ p \notin 1 .. StackPages
  <2>1. PICK i \in 1 .. Len(new) : p \in RegionPages(new[i])
    BY <1>1, PagesOfList
  <2>2. new[i] \in Region /\ IsSegment(new[i])
    BY <1>1, RegionType DEF IInv, Shapes
  <2> QED BY <2>1, <2>2, SegmentPages
<1>3. new # <<>> => 1 \in 1 .. Len(new)
  BY <1>1
<1>4. new # <<>> => RegionPages(new[1]) \subseteq PagesOf(new)
  BY <1>1, <1>3, PagesOfList
<1> QED
  BY <1>2, <1>3, <1>4

\* exec gives up with the list of segments: pages that are unmapped, or stay
\* mapped as stray ones, are pages of the list.
LEMMA LoadGivenUp ==
    ASSUME IInv, phase = "load", phase' = "user", new' = <<>>, TypeOK',
           current' = current, live' = live, mem' = mem, old' = old, kernel' = kernel, seen' = seen,
           \A t \in Task : t # current => user'[t] = user[t],
           \A p \in UserPage : user'[current][p] \in {NULL, user[current][p]},
           \A p \in UserPage : p \notin PagesOf(new) => user'[current][p] = user[current][p],
           \A p \in PagesOf(new) : user'[current][p] # NULL => p \in stray',
           stray \subseteq stray',
           lent \ FramesOf(new) \subseteq lent',
           \A f \in lent \ FramesOf(new) : Kept(f)
    PROVE  IInv'
<1>1. new \in Seq(Region) /\ current \in live
  BY DEF IInv, TypeOK
<1>2. ASSUME NEW t \in live, NEW i \in 1 .. Len(mem[t])
      PROVE  RegionFrames(mem[t][i]) \subseteq lent \ FramesOf(new)
  <2>1. RegionFrames(mem[t][i]) \subseteq lent
    BY OwnedFrames DEF IInv
  <2>2. ASSUME NEW f \in RegionFrames(mem[t][i]), f \in FramesOf(new) PROVE FALSE
    <3>1. PICK j \in 1 .. Len(new) : f \in RegionFrames(new[j])
      BY <1>1, <2>2, FramesOfList
    <3>2. RegionFrames(mem[t][i]) \cap RegionFrames(new[j]) = {}
      BY NewFrames DEF IInv
    <3> QED BY <3>1, <3>2
  <2> QED BY <2>1, <2>2
<1>3. Shapes'
  BY DEF IInv, Shapes
<1>4. FramesAreOwned'
  <2>1. \A t \in live : \A i \in 1 .. Len(mem[t]) : RegionFrames(mem[t][i]) \subseteq lent'
    BY <1>2
  <2> QED BY <2>1, FramesStayOwned DEF IInv
<1>5. OthersAreSynced'
  BY DEF IInv, OthersAreSynced, TypeOK
<1>6. Mapped'
  <2>1. ASSUME NEW p \in 1 .. StackPages PROVE user'[current][p] # NULL
    <3>1. p \notin PagesOf(new) /\ p \in UserPage
      BY VmmAssumption, LoadedPages DEF UserPage
    <3> QED BY <3>1 DEF IInv, Mapped
  <2> QED BY <2>1 DEF IInv, Mapped
<1>7. OwnPages'
  <2> SUFFICES ASSUME NEW p \in UserPage, p \notin stray', user'[current][p] # NULL
               PROVE  \E i \in 1 .. Len(mem[current]) :
                             /\ p \in RegionPages(mem[current][i])
                             /\ user'[current][p] = FrameAt(mem[current][i], p)
    BY DEF OwnPages
  <2>1. p \notin PagesOf(new) /\ user'[current][p] = user[current][p] /\ p \notin stray
    OBVIOUS
  <2>2. ~\E i \in 1 .. Len(new) : p \in RegionPages(new[i])
    BY <1>1, <2>1, PagesOfList
  <2> QED BY <2>1, <2>2 DEF IInv, OwnPages
<1>8. Contents'
  <2>1. ASSUME NEW t \in live, NEW i \in 1 .. Len(mem[t]), NEW p \in RegionPages(mem[t][i])
        PROVE  Kept(FrameAt(mem[t][i], p))
    <3>1. FrameAt(mem[t][i], p) \in RegionFrames(mem[t][i])
      BY LiveList, RegionFacts
    <3> QED BY <1>2, <3>1
  <2> QED BY <2>1, ContentsStay DEF IInv
<1> QED
  BY <1>3, <1>4, <1>5, <1>6, <1>7, <1>8 DEF IInv

\* elf_load fails: fmt_free.
LEMMA LoadFailIInv ==
    ASSUME IInv, LoadFail
    PROVE  IInv'
<1> USE VmmAssumption
<1>1. /\ phase = "load" /\ phase' = "user" /\ new' = <<>>
      /\ current' = current /\ live' = live /\ mem' = mem /\ old' = old
      /\ kernel' = kernel /\ seen' = seen
  BY DEF LoadFail
<1>2. new \in Seq(Region) /\ current \in live /\ current \in Task /\ user[current] \in [UserPage -> Frame \cup {NULL}]
  BY DEF IInv, TypeOK
<1>3. CASE new = <<>>
  <2>1. user' = user /\ lent' = lent /\ data' = data /\ stray' = stray /\ spoilt' = spoilt
    BY <1>3 DEF LoadFail
  <2>2. TypeOK'
    BY <1>1, <2>1 DEF IInv, TypeOK
  <2>3. PagesOf(new) = {}
    BY <1>3 DEF PagesOf
  <2>4. \A f \in lent \ FramesOf(new) : Kept(f)
    BY <2>1 DEF Kept
  <2> QED BY <1>1, <2>1, <2>2, <2>3, <2>4, LoadGivenUp
<1>4. CASE new # <<>>
  <2>1. /\ user' = [user EXCEPT ![current] =
                  [p \in UserPage |-> IF p \in RegionPages(new[1]) THEN NULL ELSE user[current][p]]]
        /\ lent' = lent \ FramesOf(new)
        /\ data' = Forget(FramesOf(new))
        /\ stray' = stray \cup (PagesOf(new) \ RegionPages(new[1]))
        /\ spoilt' = spoilt \ FramesOf(new)
    BY <1>4 DEF LoadFail
  <2>2. /\ \A t \in Task : t # current => user'[t] = user[t]
        /\ user'[current] = [p \in UserPage |->
                                IF p \in RegionPages(new[1]) THEN NULL ELSE user[current][p]]
    BY <1>2, <2>1 DEF IInv, TypeOK
  <2>3. PagesOf(new) \subseteq UserPage /\ RegionPages(new[1]) \subseteq PagesOf(new)
    BY <1>1, <1>4, LoadedPages
  <2>4. TypeOK'
    <3>1. user' \in [Task -> [UserPage -> Frame \cup {NULL}]]
      BY <1>2, <2>1 DEF IInv, TypeOK
    <3>2. data' \in [Frame -> Values] /\ lent' \subseteq Frame /\ stray' \subseteq UserPage
      BY <2>1, <2>3 DEF Forget, IInv, TypeOK
    <3>3. spoilt' \subseteq lent'
      BY <2>1 DEF IInv, TypeOK
    <3> QED BY <1>1, <3>1, <3>2, <3>3 DEF IInv, TypeOK
  <2>5. /\ \A p \in UserPage : user'[current][p] \in {NULL, user[current][p]}
        /\ \A p \in UserPage : p \notin PagesOf(new) => user'[current][p] = user[current][p]
        /\ \A p \in PagesOf(new) : user'[current][p] # NULL => p \in stray'
    BY <2>1, <2>2, <2>3
  <2>6. \A f \in lent \ FramesOf(new) : Kept(f)
    BY <2>1 DEF Forget, Kept, IInv, TypeOK
  <2>7. stray \subseteq stray' /\ lent \ FramesOf(new) \subseteq lent'
    BY <2>1
  <2> QED BY <1>1, <2>2, <2>4, <2>5, <2>6, <2>7, LoadGivenUp
<1> QED BY <1>3, <1>4

\* vfs_close fails after the load.
LEMMA CloseFailIInv ==
    ASSUME IInv, CloseFail
    PROVE  IInv'
<1>1. /\ phase = "load" /\ phase' = "user" /\ new' = <<>>
      /\ current' = current /\ live' = live /\ mem' = mem /\ old' = old /\ user' = user
      /\ kernel' = kernel /\ lent' = lent /\ data' = data /\ seen' = seen
      /\ stray' = stray \cup PagesOf(new) /\ spoilt' = spoilt
  BY DEF CloseFail, tables
<1>2. PagesOf(new) \subseteq UserPage
  BY <1>1, LoadedPages
<1>3. TypeOK'
  BY <1>1, <1>2 DEF IInv, TypeOK
<1>4. \A f \in lent \ FramesOf(new) : Kept(f)
  BY <1>1 DEF Kept
<1> QED BY <1>1, <1>3, <1>4, LoadGivenUp

\* Two stacks and a program make a list.
LEMMA StacksAndProgram ==
    ASSUME NEW a \in Region, NEW b \in Region, NEW ss \in Seq(Region)
    PROVE  LET rs == <<a, b>> \o ss
           IN  /\ rs \in Seq(Region) /\ Len(rs) = Len(ss) + 2 /\ Len(ss) \in Nat
               /\ rs[1] = a /\ rs[2] = b
               /\ \A i \in 3 .. (Len(ss) + 2) : rs[i] = ss[i - 2] /\ i - 2 \in 1 .. Len(ss)
<1>1. PICK st : st = <<a, b>>
  OBVIOUS
<1>2. st \in Seq(Region) /\ Len(st) = 2 /\ st[1] = a /\ st[2] = b
  BY <1>1
<1>3. st \o ss \in Seq(Region) /\ Len(st \o ss) = Len(st) + Len(ss) /\ Len(ss) \in Nat
  <2>1. st \o ss \in Seq(Region) /\ Len(st \o ss) = Len(st) + Len(ss)
    BY <1>2, ConcatProperties, Zenon
  <2>2. Len(ss) \in Nat
    OBVIOUS
  <2> QED BY <2>1, <2>2
<1>4. \A i \in 1 .. Len(st) + Len(ss) :
          (st \o ss)[i] = IF i <= Len(st) THEN st[i] ELSE ss[i - Len(st)]
  BY <1>2, ConcatProperties
<1>5. /\ (st \o ss)[1] = a /\ (st \o ss)[2] = b
      /\ \A i \in 3 .. (Len(ss) + 2) : (st \o ss)[i] = ss[i - 2] /\ i - 2 \in 1 .. Len(ss)
  BY <1>2, <1>3, <1>4
<1> QED
  BY <1>1, <1>2, <1>3, <1>5

\* The exchange of the image: what is deleted, and the regions of the tasks after
\* it, of which each was there before or has been loaded.
LEMMA ExecLists ==
    ASSUME IInv, ExecDone
    PROVE  /\ mem'[current] \in Seq(Region)
           /\ mem'[current] = Retained \o new
           /\ Layout(mem'[current])
           /\ Len(mem'[current]) = Len(new) + 2
           /\ mem'[current][1] = mem[current][1] /\ mem'[current][2] = mem[current][2]
           /\ \A i \in 1 .. Len(new) : i + 2 \in 1 .. Len(mem'[current])
                                       /\ mem'[current][i + 2] = new[i]
           /\ Deleted = 3 .. Len(mem[current])
           /\ PagesOf(Retained) = KernelPage \cup 1 .. StackPages
           /\ \A t \in live : \A i \in 1 .. Len(mem'[t]) :
                  \/ /\ t = current => i \in {1, 2}
                     /\ i \in 1 .. Len(mem[t]) /\ mem'[t][i] = mem[t][i]
                  \/ /\ t = current /\ i \notin {1, 2}
                     /\ i - 2 \in 1 .. Len(new) /\ mem'[t][i] = new[i - 2]
<1> DEFINE rs == mem[current]
           ss == mem'[current]
<1>1. /\ current \in live /\ current \in Task /\ rs \in Seq(Region) /\ Layout(rs)
      /\ Len(rs) \in Nat /\ Len(rs) >= 2 /\ new \in Seq(Region) /\ phase = "load"
  BY LiveList DEF IInv, TypeOK, ExecDone
<1>2. rs[1] \in Region /\ rs[2] \in Region
  BY <1>1, RegionType
<1>3. ss = Retained \o new /\ \A t \in live : t # current => mem'[t] = mem[t]
  BY <1>1 DEF ExecDone, IInv, TypeOK
<1>4. /\ ss \in Seq(Region) /\ Len(ss) = Len(new) + 2 /\ Len(new) \in Nat
      /\ ss[1] = rs[1] /\ ss[2] = rs[2]
      /\ \A i \in 3 .. (Len(new) + 2) : ss[i] = new[i - 2] /\ i - 2 \in 1 .. Len(new)
  BY <1>1, <1>2, <1>3, StacksAndProgram DEF Retained
<1>5. \A i \in 1 .. Len(new) : IsSegment(new[i])
  BY <1>1 DEF IInv, Shapes
<1>6. Ascending(ss, 3)
  <2> SUFFICES ASSUME NEW i \in 3 .. Len(ss), NEW j \in 3 .. Len(ss), i < j
               PROVE  ss[i].vaddr + ss[i].num =< ss[j].vaddr
    BY DEF Ascending
  <2>1. /\ ss[i] = new[i - 2] /\ ss[j] = new[j - 2]
        /\ i - 2 \in 1 .. Len(new) /\ j - 2 \in 1 .. Len(new) /\ i - 2 < j - 2
    BY <1>4
  <2> QED BY <1>1, <2>1 DEF IInv, Shapes, Ascending
<1>7. Layout(ss)
  <2>1. \A i \in 3 .. Len(ss) : IsSegment(ss[i])
    BY <1>4, <1>5
  <2>2. IsStack(ss[1], "kernel", UserPages + 1) /\ IsStack(ss[2], "user", 1)
    BY <1>1, <1>4 DEF Layout
  <2> QED BY <1>4, <1>6, <2>1, <2>2 DEF Layout
<1>8. \A i \in 1 .. Len(new) : i + 2 \in 1 .. Len(ss) /\ ss[i + 2] = new[i]
  <2> SUFFICES ASSUME NEW i \in 1 .. Len(new) PROVE i + 2 \in 1 .. Len(ss) /\ ss[i + 2] = new[i]
    OBVIOUS
  <2>1. i + 2 \in 3 .. (Len(new) + 2) /\ (i + 2) - 2 = i
    BY <1>4
  <2> QED BY <1>4, <2>1
<1>9. Deleted = 3 .. Len(rs)
  <2>1. rs[1].type = "STACK" /\ rs[2].type = "STACK"
    BY <1>1 DEF Layout, IsStack
  <2>2. \A i \in 3 .. Len(rs) : rs[i].type = "IMAGE"
    BY <1>1 DEF Layout, IsSegment
  <2>3. DOMAIN rs = 1 .. Len(rs)
    BY <1>1
  <2>4. \A i \in 1 .. Len(rs) : i = 1 \/ i = 2 \/ i \in 3 .. Len(rs)
    BY <1>1
  <2>5. \A i \in 3 .. Len(rs) : i \in 1 .. Len(rs)
    BY <1>1
  <2> QED BY <2>1, <2>2, <2>3, <2>4, <2>5 DEF Deleted
<1>10. PagesOf(Retained) = KernelPage \cup 1 .. StackPages
  <2>1. RegionPages(rs[1]) = KernelPage /\ RegionPages(rs[2]) = 1 .. StackPages
    BY <1>1, LayoutPages
  <2>2. DOMAIN Retained = {1, 2} /\ Retained[1] = rs[1] /\ Retained[2] = rs[2]
    BY DEF Retained
  <2> QED BY <2>1, <2>2 DEF PagesOf
<1>11. ASSUME NEW t \in live, NEW i \in 1 .. Len(mem'[t])
       PROVE  \/ /\ t = current => i \in {1, 2}
                 /\ i \in 1 .. Len(mem[t]) /\ mem'[t][i] = mem[t][i]
              \/ /\ t = current /\ i \notin {1, 2}
                 /\ i - 2 \in 1 .. Len(new) /\ mem'[t][i] = new[i - 2]
  <2>1. CASE t # current
    BY <1>3, <2>1
  <2>2. CASE t = current /\ i \in {1, 2}
    BY <1>1, <1>4, <2>2
  <2>3. CASE t = current /\ i \notin {1, 2}
    <3>1. i \in 3 .. (Len(new) + 2)
      BY <1>4, <2>3
    <3> QED BY <1>4, <2>3, <3>1
  <2> QED BY <2>1, <2>2, <2>3
<1> QED
  BY <1>3, <1>4, <1>7, <1>8, <1>9, <1>10, <1>11

\* task_mem_del gives back frames of the old image, which no list keeps.
LEMMA FreedFrames ==
    ASSUME IInv, ExecDone, NEW t \in live, NEW i \in 1 .. Len(mem'[t])
    PROVE  RegionFrames(mem'[t][i]) \cap Freed = {}
<1> SUFFICES ASSUME NEW f \in RegionFrames(mem'[t][i]), f \in Freed PROVE FALSE
  OBVIOUS
<1>1. PICK j \in Deleted : f \in RegionFrames(mem[current][j])
  BY DEF Freed
<1>2. /\ current \in live /\ Len(mem[current]) \in Nat
      /\ j \in 3 .. Len(mem[current])
  BY <1>1, LiveList, ExecLists DEF IInv, TypeOK
<1>3. j \in 1 .. Len(mem[current]) /\ j \notin {1, 2}
  BY <1>2
<1>4. CASE /\ t = current => i \in {1, 2}
           /\ i \in 1 .. Len(mem[t]) /\ mem'[t][i] = mem[t][i]
  <2>1. <<t, i>> # <<current, j>>
    BY <1>3, <1>4
  <2>2. RegionFrames(mem[t][i]) \cap RegionFrames(mem[current][j]) = {}
    BY <1>2, <1>3, <1>4, <2>1, OwnedFrames DEF IInv
  <2> QED BY <1>1, <1>4, <2>2
<1>5. CASE i - 2 \in 1 .. Len(new) /\ mem'[t][i] = new[i - 2]
  <2>1. RegionFrames(mem[current][j]) \cap RegionFrames(new[i - 2]) = {}
    BY <1>2, <1>3, <1>5, NewFrames DEF IInv
  <2> QED BY <1>1, <1>5, <2>1
<1> QED BY <1>4, <1>5, ExecLists

\* The regions of all tasks have their own frames after exec.
LEMMA ExecFramesOwned ==
    ASSUME IInv, ExecDone, NEW t \in live, NEW u \in live,
           NEW i \in 1 .. Len(mem'[t]), NEW j \in 1 .. Len(mem'[u])
    PROVE  /\ RegionFrames(mem'[t][i]) \subseteq lent
           /\ <<t, i>> # <<u, j>> => RegionFrames(mem'[t][i]) \cap RegionFrames(mem'[u][j]) = {}
<1> DEFINE Old(x, k) == /\ x = current => k \in {1, 2}
                        /\ k \in 1 .. Len(mem[x]) /\ mem'[x][k] = mem[x][k]
           New(x, k) == /\ x = current /\ k \notin {1, 2}
                        /\ k - 2 \in 1 .. Len(new) /\ mem'[x][k] = new[k - 2]
<1>1. Old(t, i) \/ New(t, i)
  BY ExecLists
<1>2. Old(u, j) \/ New(u, j)
  BY ExecLists
<1>3. RegionFrames(mem'[t][i]) \subseteq lent
  <2>1. CASE Old(t, i)
    BY <2>1, OwnedFrames DEF IInv
  <2>2. CASE New(t, i)
    BY <2>2, NewFrames DEF IInv
  <2> QED BY <1>1, <2>1, <2>2
<1>4. ASSUME <<t, i>> # <<u, j>>
      PROVE  RegionFrames(mem'[t][i]) \cap RegionFrames(mem'[u][j]) = {}
  <2>1. CASE Old(t, i) /\ Old(u, j)
    BY <1>4, <2>1, OwnedFrames DEF IInv
  <2>2. CASE Old(t, i) /\ New(u, j)
    BY <2>2, NewFrames DEF IInv
  <2>3. CASE New(t, i) /\ Old(u, j)
    <3>1. RegionFrames(mem[u][j]) \cap RegionFrames(new[i - 2]) = {}
      BY <2>3, NewFrames DEF IInv
    <3> QED BY <2>3, <3>1
  <2>4. CASE New(t, i) /\ New(u, j)
    <3>1. i - 2 # j - 2
      BY <1>4, <2>4
    <3> QED BY <2>4, <3>1, NewFrames DEF IInv
  <2> QED BY <1>1, <1>2, <2>1, <2>2, <2>3, <2>4
<1> QED
  BY <1>3, <1>4

\* exec succeeds: sys_exec deletes the old image and adds the new one.
LEMMA ExecDoneIInv ==
    ASSUME IInv, ExecDone
    PROVE  IInv'
<1> USE VmmAssumption
<1>1. /\ phase = "load" /\ phase' = "user" /\ new' = <<>>
      /\ user' = [user EXCEPT ![current] =
                     [p \in UserPage |-> IF p \in Cleared THEN NULL ELSE user[current][p]]]
      /\ lent' = lent \ Freed
      /\ data' = Forget(Freed)
      /\ spoilt' = spoilt \ Freed
      /\ stray' = (stray \cup UNION {RegionPages(mem[current][i]) : i \in Deleted})
                      \ (PagesOf(new) \cup Cleared)
      /\ seen' = [seen EXCEPT ![current] =
                     [p \in Page |-> IF p \in PagesOf(Retained) THEN seen[current][p] ELSE 0]]
      /\ current' = current /\ live' = live /\ old' = old /\ kernel' = kernel
  BY DEF ExecDone
<1>2. mem' = [mem EXCEPT ![current] = mem'[current]]
  BY DEF ExecDone, IInv, TypeOK
<1>3. /\ current \in live /\ current \in Task /\ mem[current] \in Seq(Region)
      /\ Layout(mem[current]) /\ new \in Seq(Region) /\ live \subseteq Task
      /\ Len(mem[current]) \in Nat /\ Len(mem[current]) >= 2
  BY LiveList DEF IInv, TypeOK
<1>4. /\ \A t \in Task : t # current => user'[t] = user[t] /\ mem'[t] = mem[t] /\ seen'[t] = seen[t]
      /\ user'[current] = [p \in UserPage |-> IF p \in Cleared THEN NULL ELSE user[current][p]]
      /\ seen'[current] = [p \in Page |->
                              IF p \in PagesOf(Retained) THEN seen[current][p] ELSE 0]
  BY <1>1, <1>2, <1>3 DEF IInv, TypeOK
<1>5. /\ mem'[current] \in Seq(Region) /\ Layout(mem'[current])
      /\ Len(mem'[current]) = Len(new) + 2 /\ Len(new) \in Nat
      /\ mem'[current][1] = mem[current][1] /\ mem'[current][2] = mem[current][2]
      /\ \A i \in 1 .. Len(new) : i + 2 \in 1 .. Len(mem'[current])
                                  /\ mem'[current][i + 2] = new[i]
      /\ Deleted = 3 .. Len(mem[current])
      /\ PagesOf(Retained) = KernelPage \cup 1 .. StackPages
  BY <1>3, ExecLists
<1>6. \A i \in Deleted : i \in 1 .. Len(mem[current]) /\ IsSegment(mem[current][i])
                            /\ mem[current][i] \in Region
  BY <1>3, <1>5, RegionType DEF Layout
<1>7. /\ UNION {RegionPages(mem[current][i]) : i \in Deleted} \subseteq UserPage
      /\ \A p \in 1 .. StackPages : p \notin Cleared
  <2>1. ASSUME NEW i \in Deleted
        PROVE  /\ RegionPages(mem[current][i]) \subseteq UserPage
               /\ \A p \in 1 .. StackPages : p \notin RegionPages(mem[current][i])
    BY <1>6, SegmentPages
  <2>2. \A p \in Cleared : \E i \in Deleted : p \in RegionPages(mem[current][i])
    BY DEF Cleared, Unmaps
  <2> QED BY <2>1, <2>2
<1>8. TypeOK'
  <2>1. user' \in [Task -> [UserPage -> Frame \cup {NULL}]]
    BY <1>1, <1>3 DEF IInv, TypeOK
  <2>2. mem' \in [Task -> Seq(Region)]
    BY <1>2, <1>3, <1>5 DEF IInv, TypeOK
  <2>3. data' \in [Frame -> Values] /\ lent' \subseteq Frame /\ spoilt' \subseteq lent'
    BY <1>1 DEF Forget, IInv, TypeOK
  <2>4. stray' \subseteq UserPage
    BY <1>1, <1>7 DEF IInv, TypeOK
  <2>5. seen'[current] \in [Page -> Values]
    BY <1>3, <1>4 DEF IInv, TypeOK
  <2>6. seen' \in [Task -> [Page -> Values]]
    BY <1>1, <1>3, <1>4, <2>5 DEF IInv, TypeOK
  <2> QED BY <1>1, <2>1, <2>2, <2>3, <2>4, <2>6 DEF IInv, TypeOK
<1>9. Shapes'
  <2>1. \A t \in live : Layout(mem'[t])
    BY <1>3, <1>4, <1>5 DEF IInv, Shapes
  <2> QED BY <1>1, <2>1 DEF Shapes
<1>10. FramesAreOwned'
  <2>1. \A t \in live' : DOMAIN mem'[t] = 1 .. Len(mem'[t])
    BY <1>8 DEF TypeOK
  <2>2. ASSUME NEW t \in live', NEW u \in live', NEW i \in DOMAIN mem'[t], NEW j \in DOMAIN mem'[u]
        PROVE  /\ RegionFrames(mem'[t][i]) \subseteq lent'
               /\ <<t, i>> # <<u, j>> =>
                      RegionFrames(mem'[t][i]) \cap RegionFrames(mem'[u][j]) = {}
    <3>1. /\ t \in live /\ u \in live
          /\ i \in 1 .. Len(mem'[t]) /\ j \in 1 .. Len(mem'[u])
      BY <1>1, <2>1
    <3>2. RegionFrames(mem'[t][i]) \cap Freed = {}
      BY <3>1, FreedFrames
    <3> QED BY <1>1, <3>1, <3>2, ExecFramesOwned
  <2>3. DOMAIN new' = {}
    BY <1>1
  <2> QED BY <2>2, <2>3 DEF FramesAreOwned
<1>11. OthersAreSynced'
  BY <1>1, <1>3, <1>4 DEF IInv, OthersAreSynced
<1>12. Mapped'
  <2>1. ASSUME NEW p \in 1 .. StackPages PROVE user'[current][p] # NULL
    <3>1. p \notin Cleared /\ p \in UserPage
      BY <1>7 DEF UserPage
    <3> QED BY <1>4, <3>1 DEF IInv, Mapped
  <2>2. \A p \in KernelPage : kernel'[p] = FrameAt(mem'[current][1], p)
    BY <1>1, <1>5 DEF IInv, Mapped
  <2> QED BY <1>1, <2>1, <2>2 DEF Mapped
<1>13. OwnPages'
  <2> SUFFICES ASSUME NEW p \in UserPage, p \notin stray', user'[current][p] # NULL
               PROVE  \E i \in 1 .. Len(mem'[current]) :
                             /\ p \in RegionPages(mem'[current][i])
                             /\ user'[current][p] = FrameAt(mem'[current][i], p)
    BY <1>1 DEF OwnPages
  <2>1. p \notin Cleared /\ user'[current][p] = user[current][p]
    BY <1>4
  <2>2. CASE p \in PagesOf(new)
    <3>1. PICK i \in 1 .. Len(new) : p \in RegionPages(new[i])
      BY <1>3, <2>2, PagesOfList
    <3>2. user[current][p] = FrameAt(new[i], p)
      BY <1>1, <3>1 DEF IInv, Mapped
    <3>3. i + 2 \in 1 .. Len(mem'[current]) /\ mem'[current][i + 2] = new[i]
      BY <1>5
    <3> QED BY <2>1, <3>1, <3>2, <3>3
  <2>3. CASE p \notin PagesOf(new)
    <3>1. p \notin stray /\ \A i \in Deleted : p \notin RegionPages(mem[current][i])
      BY <1>1, <2>1, <2>3
    <3>2. ~\E i \in 1 .. Len(new) : p \in RegionPages(new[i])
      BY <1>3, <2>3, PagesOfList
    <3>3. PICK i \in 1 .. Len(mem[current]) :
                   /\ p \in RegionPages(mem[current][i])
                   /\ user[current][p] = FrameAt(mem[current][i], p)
      BY <2>1, <3>1, <3>2 DEF IInv, OwnPages
    <3>4. i \in {1, 2}
      BY <1>3, <1>5, <3>1, <3>3
    <3>5. i \in 1 .. Len(mem'[current]) /\ mem'[current][i] = mem[current][i]
      BY <1>5, <3>4
    <3> QED BY <2>1, <3>3, <3>5
  <2> QED BY <2>2, <2>3
<1>14. Contents'
  <2> SUFFICES ASSUME NEW t \in live, NEW i \in 1 .. Len(mem'[t]), NEW p \in RegionPages(mem'[t][i])
               PROVE  FrameAt(mem'[t][i], p) \in spoilt' \/ data'[FrameAt(mem'[t][i], p)] = seen'[t][p]
    BY <1>1 DEF Contents, Holds
  <2>1. FrameAt(mem'[t][i], p) \in RegionFrames(mem'[t][i])
    <3>1. mem'[t] \in Seq(Region)
      BY <1>3, <1>8 DEF TypeOK
    <3> QED BY <3>1, RegionFacts, RegionType
  <2>2. FrameAt(mem'[t][i], p) \in Frame
    BY <2>1, ExecFramesOwned DEF IInv, TypeOK
  <2>3. Kept(FrameAt(mem'[t][i], p))
    <3>1. RegionFrames(mem'[t][i]) \cap Freed = {}
      BY FreedFrames
    <3> QED BY <1>1, <2>1, <2>2, <3>1 DEF Forget, Kept
  <2>4. CASE t # current
    <3>1. Holds(FrameAt(mem[t][i], p), seen[t][p]) /\ mem'[t] = mem[t] /\ seen'[t] = seen[t]
      BY <1>3, <1>4, <2>4 DEF IInv, Contents
    <3> QED BY <2>3, <3>1, KeptHolds
  <2>5. CASE t = current /\ i \in {1, 2}
    <3>1. i \in 1 .. Len(mem[current]) /\ mem'[t][i] = mem[current][i]
      BY <1>3, <1>5, <2>5
    <3>2. Holds(FrameAt(mem'[t][i], p), seen[current][p])
      BY <1>3, <3>1 DEF IInv, Contents
    <3>3. p \in KernelPage \cup 1 .. StackPages
      <4>1. RegionPages(mem[current][1]) = KernelPage /\ RegionPages(mem[current][2]) = 1 .. StackPages
        BY <1>3, LayoutPages
      <4> QED BY <2>5, <3>1, <4>1
    <3>4. p \in Page /\ p \in PagesOf(Retained)
      BY <1>5, <3>3 DEF Page, UserPage
    <3> QED BY <1>4, <2>3, <2>5, <3>2, <3>4, KeptHolds
  <2>6. CASE t = current /\ i \notin {1, 2}
    <3>1. i - 2 \in 1 .. Len(new) /\ mem'[t][i] = new[i - 2]
      BY <2>6, ExecLists
    <3>2. Holds(FrameAt(new[i - 2], p), 0)
      <4>1. \A j \in 1 .. Len(new) : \A q \in RegionPages(new[j]) : Holds(FrameAt(new[j], q), 0)
        BY <1>1 DEF IInv, Contents
      <4> QED BY <3>1, <4>1
    <3>3. p \in PagesOf(new)
      BY <1>3, <3>1, PagesOfList
    <3>4. p \in UserPage /\ p \notin 1 .. StackPages
      BY <1>1, <3>3, LoadedPages
    <3>5. p \notin PagesOf(Retained) /\ p \in Page
      BY <1>5, <3>4, HalvesDiffer DEF Page
    <3> QED BY <1>4, <2>3, <2>6, <3>1, <3>2, <3>5, KeptHolds
  <2> QED BY <2>4, <2>5, <2>6
<1> QED
  BY <1>8, <1>9, <1>10, <1>11, <1>12, <1>13, <1>14 DEF IInv
-----------------------------------------------------------------------------
(* The theorems.                                                           *)

\* Every step keeps the invariant.
LEMMA NextIInv ==
    ASSUME IInv, [Next]_vars
    PROVE  IInv'
<1>1. CASE Next
  BY <1>1, SwitchIInv, ExitIInv, WriteIInv, ForkIInv, RegionCopyIInv, ForkFailIInv, ForkDoneIInv,
     ExecIInv, LoadSegmentIInv, LoadFailIInv, CloseFailIInv, ExecDoneIInv DEF Next
<1>2. CASE UNCHANGED vars
  <2>1. /\ current' = current /\ live' = live /\ mem' = mem /\ old' = old /\ user' = user
        /\ kernel' = kernel /\ lent' = lent /\ data' = data /\ phase' = phase /\ new' = new
        /\ stray' = stray /\ seen' = seen /\ spoilt' = spoilt
    BY <1>2 DEF vars, tables
  <2>2. FramesAreOwned'
    BY <2>1, FramesUnchanged DEF IInv
  <2>3. TypeOK' /\ OthersAreSynced' /\ Mapped' /\ OwnPages'
    BY <2>1 DEF IInv, TypeOK, OthersAreSynced, Mapped, OwnPages
  <2>4. Shapes'
    BY <2>1 DEF IInv, Shapes, Intact, Entry
  <2>5. Contents'
    BY <2>1 DEF IInv, Contents, Holds
  <2> QED BY <2>2, <2>3, <2>4, <2>5 DEF IInv
<1> QED BY <1>1, <1>2

\* The inductive invariant holds in every reachable state, for every number of
\* tasks, pages, frames, segments and values.
THEOREM VmmInvariant == Spec => []IInv
<1>1. Init => IInv
  BY InitIInv
<1>2. IInv /\ [Next]_vars => IInv'
  BY NextIInv
<1> QED BY <1>1, <1>2, PTL DEF Spec

\* Fork, exec, a failure of either and the end of a task never share or give back
\* frames that are in use.
THEOREM FramesOwned == Spec => []FramesAreOwned
<1>1. IInv => FramesAreOwned
  BY DEF IInv
<1> QED BY <1>1, VmmInvariant, PTL

\* vmm_sync will empty the tables of every task that is not running, or they are
\* empty.
THEOREM TablesSynced == Spec => []OthersAreSynced
<1>1. IInv => OthersAreSynced
  BY DEF IInv
<1> QED BY <1>1, VmmInvariant, PTL

\* The tables of the running task lead to its own frames only.
THEOREM TasksAreIsolated == Spec => []Isolation
<1>1. IInv => Isolation
  <2> SUFFICES ASSUME IInv, NEW p \in Page \ stray, Entry(p) # NULL
               PROVE  \/ \E i \in DOMAIN mem[current] :
                             p \in RegionPages(mem[current][i]) /\ Entry(p) = FrameAt(mem[current][i], p)
                      \/ \E i \in DOMAIN new :
                             p \in RegionPages(new[i]) /\ Entry(p) = FrameAt(new[i], p)
    BY DEF Isolation
  <2>1. /\ current \in live /\ mem[current] \in Seq(Region) /\ Layout(mem[current])
        /\ Len(mem[current]) \in Nat /\ Len(mem[current]) >= 2 /\ new \in Seq(Region)
    BY LiveList DEF IInv, TypeOK
  <2>2. DOMAIN mem[current] = 1 .. Len(mem[current]) /\ DOMAIN new = 1 .. Len(new)
    BY <2>1
  <2>3. CASE p \in UserPage
    <3>1. Entry(p) = user[current][p]
      BY <2>3 DEF Entry
    <3> QED BY <2>2, <2>3, <3>1 DEF IInv, OwnPages
  <2>4. CASE p \in KernelPage
    <3>1. Entry(p) = kernel[p]
      BY <2>4, HalvesDiffer DEF Entry
    <3>2. Entry(p) = FrameAt(mem[current][1], p)
      BY <2>4, <3>1 DEF IInv, Mapped
    <3>3. p \in RegionPages(mem[current][1]) /\ 1 \in DOMAIN mem[current]
      BY <2>1, <2>2, <2>4, LayoutPages
    <3> QED BY <3>2, <3>3
  <2> QED BY <2>3, <2>4 DEF Page
<1> QED BY <1>1, VmmInvariant, PTL

\* A task reads on each page what it last wrote there or inherited, whatever the
\* others do, but for the pages that a failed exec has left and the frames that
\* stores or copies through such pages have reached.
THEOREM MemoryStaysPrivate == Spec => []MemoryIsPrivate
<1>1. IInv => MemoryIsPrivate
  <2> SUFFICES ASSUME IInv, phase = "user", NEW p \in PagesOf(mem[current]) \ stray, Entry(p) # NULL
               PROVE  Holds(Entry(p), seen[current][p])
    BY DEF MemoryIsPrivate, Holds
  <2>1. current \in live /\ mem[current] \in Seq(Region)
    BY LiveList DEF IInv, TypeOK
  <2>2. PICK i \in 1 .. Len(mem[current]) : p \in RegionPages(mem[current][i])
    BY <2>1, PagesOfList
  <2>3. Entry(p) = FrameAt(mem[current][i], p)
    BY <2>2, EntryIsOwn
  <2> QED BY <2>1, <2>2, <2>3 DEF IInv, Contents
<1> QED BY <1>1, VmmInvariant, PTL

\* task_switch maps all regions of the task it switches to, in every state in
\* which the scheduler can call it.
THEOREM SwitchesMapAll == Spec => SwitchMapsAll
<1>1. ASSUME IInv, NEW n \in live \ {current}, NEW gone, TaskSwitch(n, gone), mem'[n] = mem[n]
      PROVE  \A i \in DOMAIN mem'[current'] : \A p \in RegionPages(mem'[current'][i]) :
                 Entry(p)' = FrameAt(mem'[current'][i], p)
  <2>1. /\ current' = n
        /\ \A i \in 2 .. Len(mem[n]) : \A p \in RegionPages(mem[n][i]) :
               user'[n][p] = FrameAt(mem[n][i], p)
        /\ \A p \in KernelPage : kernel'[p] = FrameAt(mem[n][1], p)
    BY <1>1, SwitchResult
  <2>2. /\ mem[n] \in Seq(Region) /\ Layout(mem[n])
        /\ Len(mem[n]) \in Nat /\ DOMAIN mem[n] = 1 .. Len(mem[n])
    BY <1>1, LiveList
  <2> SUFFICES ASSUME NEW i \in 1 .. Len(mem[n]), NEW p \in RegionPages(mem[n][i])
               PROVE  Entry(p)' = FrameAt(mem[n][i], p)
    BY <1>1, <2>1, <2>2
  <2>3. Entry(p)' = IF p \in UserPage THEN user'[n][p] ELSE kernel'[p]
    BY <2>1 DEF Entry
  <2>4. CASE i = 1
    <3>1. p \in KernelPage
      BY <2>2, <2>4, LayoutPages
    <3> QED BY <2>1, <2>3, <2>4, <3>1, HalvesDiffer
  <2>5. CASE i # 1
    <3>1. i \in 2 .. Len(mem[n])
      BY <2>2, <2>5
    <3>2. p \in UserPage
      BY <2>2, <3>1, LayoutPages
    <3> QED BY <2>1, <2>3, <3>1, <3>2
  <2> QED BY <2>4, <2>5
<1>2. ASSUME IInv, [Next]_vars, current' # current
      PROVE  \A i \in DOMAIN mem'[current'] : \A p \in RegionPages(mem'[current'][i]) :
                 Entry(p)' = FrameAt(mem'[current'][i], p)
  <2>1. PICK n \in Task : Switch(n) \/ Exit(n)
    BY <1>2 DEF Next, vars, Write, Fork, RegionCopy, ForkFail, ForkDone, Exec, LoadSegment,
                LoadFail, CloseFail, ExecDone
  <2>2. CASE Switch(n)
    <3>1. n \in live \ {current} /\ TaskSwitch(n, {}) /\ mem'[n] = mem[n]
      BY <2>2 DEF Switch
    <3> QED BY <1>1, <1>2, <3>1
  <2>3. CASE Exit(n)
    <3>1. n \in live \ {current} /\ TaskSwitch(n, {current}) /\ mem'[n] = mem[n]
      BY <1>2, <2>3 DEF Exit, IInv, TypeOK
    <3> QED BY <1>1, <1>2, <3>1
  <2> QED BY <2>1, <2>2, <2>3
<1> QED BY <1>2, VmmInvariant, PTL DEF Spec, SwitchMapsAll
=============================================================================
