-------------------------------- MODULE Vmm ---------------------------------
(***************************************************************************)
(* Memory of tasks: page tables (kernel/mm/vmm.c), memory regions          *)
(* (kernel/mm/region.c, kernel/sched/mem.c, stack.c), and what fork, exec, *)
(* a task switch and the end of a task do with them (kernel/sched/task.c,  *)
(* kernel/syscall/exec.c, kernel/fs/fmt).                                  *)
(*                                                                         *)
(* A page table is a function from virtual pages to physical pages         *)
(* (frames), 0 where nothing is mapped.  All tasks share the tables of the *)
(* kernel half, which vmm_new and vmm_sync copy from the running task; the *)
(* user half is one entry of a task's PML4, which exists while a user page *)
(* is mapped.  The frames of the tables themselves are not modelled, nor   *)
(* the kernel pages mapped only within one operation (vmm_sync,            *)
(* region_copy).  CR3 holds the tables of the current task except within   *)
(* one step, so it is not a variable.                                      *)
(*                                                                         *)
(* fork, exec, switch and exit run with interrupts off.  The copy of one   *)
(* region and the load of one segment are steps of their own; while phase  *)
(* is not "user" only the next step of the same operation is possible.     *)
(***************************************************************************)
EXTENDS Integers, Sequences, FiniteSets

CONSTANTS
    MaxTasks,     \* bound: tasks at one time
    UserPages,    \* bound: pages of the user half
    StackPages,   \* CONFIG_TASK_STACK_PAGES
    Frames,       \* bound: frames the physical memory manager can lend
    SegPages,     \* sizes of program segments in pages
    MaxSegs,      \* bound: segments of a program
    MaxLeaked,    \* bound: frames lost to errors when fork or exec starts
    Values,       \* contents of a page; 0 is what a program file holds
    Probed        \* bound: the pages programs write to

ASSUME VmmAssumption ==
    /\ MaxTasks \in Nat \ {0}
    /\ StackPages \in Nat \ {0}
    /\ UserPages \in Nat /\ StackPages =< UserPages
    /\ Frames \in Nat /\ 2 * StackPages =< Frames
    /\ SegPages \subseteq Nat \ {0}
    /\ MaxSegs \in Nat
    /\ MaxLeaked \in Nat
    /\ 0 \in Values
    /\ Probed \subseteq Nat

Task == 1 .. MaxTasks
Main == 1                                       \* the task sched_init creates
Frame == 1 .. Frames
NULL == 0
UserPage == 1 .. UserPages                      \* from VMM_VMA_USER_START
KernelPage == (UserPages + 1) .. (UserPages + StackPages)
Page == UserPage \cup KernelPage

\* region_t.  The types exec loads and deletes (CODE, RDONLY and DATA) are one
\* here; HEAP regions are never created.
Region == [type : {"IMAGE", "STACK"}, vma : {"user", "kernel"},
           vaddr : Page, paddr : Frame, num : Nat \ {0}]

VARIABLES
    current,      \* task_current
    live,         \* tasks in the queue
    old,          \* task->old
    mem,          \* task->mem: the two stacks, then the image
    user,         \* user half of the page tables of every task
    kernel,       \* kernel half, shared by all tables
    lent,         \* frames pmm_alloc has handed out for regions
    data,         \* contents of frames
    phase,        \* "user", "copy" (in task_copy) or "load" (in elf_load)
    new,          \* the region list task_copy or elf_load is building
    stray,        \* pages exec has left mapped in the running task
    seen,         \* history: what each task last wrote to, or inherited on, a page
    spoilt        \* history: lent frames that a store or a copy through a stray page
                  \* has reached since their owner's last store

tables == <<old, user, kernel>>
vars == <<current, live, mem, tables, lent, data, phase, new, stray, seen, spoilt>>

RegionPages(r) == r.vaddr .. (r.vaddr + r.num - 1)
RegionFrames(r) == r.paddr .. (r.paddr + r.num - 1)
FrameAt(r, p) == r.paddr + (p - r.vaddr)

PagesOf(rs) == UNION {RegionPages(rs[i]) : i \in DOMAIN rs}
FramesOf(rs) == UNION {RegionFrames(rs[i]) : i \in DOMAIN rs}

Unmapped == [p \in UserPage |-> NULL]

\* vmm_resolve in the tables of the running task
Entry(p) == IF p \in UserPage THEN user[current][p] ELSE kernel[p]
-----------------------------------------------------------------------------
(* Mapping and unmapping.                                                  *)

\* pmm_alloc could return the n frames from f
Fits(f, n) == f .. (f + n - 1) \subseteq Frame \ lent

\* pmm_alloc returns f: the first fit (see PmmScan)
Alloc(f, n) == f \in Frame /\ Fits(f, n) /\ \A g \in 1 .. (f - 1) : ~Fits(g, n)

\* pmm_alloc returns NULL
AllocFails(n) == \A f \in Frame : ~Fits(f, n)

IsGap(s, n) == /\ s .. (s + n - 1) \subseteq UserPage
               /\ \A p \in s .. (s + n - 1) : user[current][p] = NULL

\* __vmm_find_contiguous in the user half returns s; the bound UserPages takes
\* the place of the end of the address space
FirstGap(s, n) == s \in UserPage /\ IsGap(s, n) /\ \A q \in 1 .. (s - 1) : ~IsGap(q, n)

\* __vmm_map_to_paddr_internal for all of the region, in one half of the tables
MapRegion(half, r) ==
    [p \in DOMAIN half |-> IF p \in RegionPages(r) THEN FrameAt(r, p) ELSE half[p]]

\* the last of the first k regions that covers page p
LastCover(rs, k, p) ==
    CHOOSE i \in 1 .. k : /\ p \in RegionPages(rs[i])
                          /\ \A j \in (i + 1) .. k : p \notin RegionPages(rs[j])

\* one half after region_map has succeeded for the first k regions
MapRegions(half, rs, k) ==
    [p \in DOMAIN half |->
        IF \E i \in 1 .. k : p \in RegionPages(rs[i])
        THEN FrameAt(rs[LastCover(rs, k, p)], p)
        ELSE half[p]]

\* vmm_unmap stops at the first page that is not mapped
Unmaps(half, r) ==
    {p \in RegionPages(r) : \A q \in r.vaddr .. p : half[q] # NULL}

\* mutant of ExactFails: pages that are mapped are not mapped again
ExactFailsMapped(half, r) == half[r.vaddr] # NULL

\* vmm_map_exact: a first page that is mapped already is taken off num but
\* still counted, so that a region of one page fails
ExactFails(half, r) == r.num = 1 /\ half[r.vaddr] = r.paddr

\* the contents of free frames are not tracked, and those loaded from a file are 0
Forget(frames) == [f \in Frame |-> IF f \in frames THEN 0 ELSE data[f]]

\* frames lost to errors
Leaked == lent \ UNION {FramesOf(mem[t]) : t \in live}
-----------------------------------------------------------------------------
(* task_switch *)

\* mutant of Synced: the old entries stay
SyncedNot(n) == user[n]

\* vmm_sync, when the task is old: the user half is emptied
Synced(n) == IF old[n] THEN Unmapped ELSE user[n]

\* region_map fails for region i of task n, after the ones before it
MapFails(n, i) ==
    LET r == mem[n][i]
    IN  ExactFails(MapRegions(IF r.vma = "user" THEN Synced(n) ELSE kernel, mem[n], i - 1), r)

\* task_switch maps k regions, until region_map fails
Maps(n, k) ==
    /\ \A i \in 1 .. k : ~MapFails(n, i)
    /\ k < Len(mem[n]) => MapFails(n, k + 1)

\* mutant of Alert: nobody is told
AlertNot(n, k) == [old EXCEPT ![n] = FALSE]

\* __vmm_alert_tasks, as the entry of the user half is created in the tables
\* of n, for all tasks but the one in CR3
Alert(n, k) ==
    IF Synced(n) = Unmapped /\ \E i \in 1 .. k : mem[n][i].vma = "user"
    THEN [t \in Task |-> t # n /\ (t \in live \/ old[t])]
    ELSE [old EXCEPT ![n] = FALSE]

\* task_switch to a task whose tables are not in CR3.  Its result is not
\* looked at by the scheduler.  The tables of tasks in gone are freed.
TaskSwitch(n, gone) ==
    \E k \in 0 .. Len(mem[n]) :
        /\ Maps(n, k)
        /\ current' = n
        /\ user' = [t \in Task |->
                      IF t = n THEN MapRegions(Synced(n), mem[n], k)
                      ELSE IF t \in gone THEN Unmapped ELSE user[t]]
        /\ kernel' = MapRegions(kernel, mem[n], k)
        /\ old' = Alert(n, k)
        /\ stray' = {}

\* the scheduler takes another task
Switch(n) ==
    /\ phase = "user"
    /\ n \in live \ {current}
    /\ TaskSwitch(n, {})
    /\ UNCHANGED <<live, mem, lent, data, phase, new, seen, spoilt>>

\* the running task is dead: the next one is switched to, then
\* __sched_queue_clean frees the dead one (task_free)
Exit(n) ==
    /\ phase = "user"
    /\ current # Main
    /\ n \in live \ {current}
    /\ TaskSwitch(n, {current})
    /\ live' = live \ {current}
    /\ lent' = lent \ FramesOf(mem[current])
    /\ mem' = [mem EXCEPT ![current] = <<>>]
    /\ data' = Forget(FramesOf(mem[current]))
    /\ seen' = [seen EXCEPT ![current] = [p \in Page |-> 0]]
    /\ spoilt' = spoilt \ FramesOf(mem[current])
    /\ UNCHANGED <<phase, new>>
-----------------------------------------------------------------------------
(* A running program, and the kernel on its kernel stack.                  *)

HasImage == Len(mem[current]) > 2

\* a store to a page that is mapped.  Through a page that a failed exec has
\* left it reaches whatever the frame is by now.
Write(p, v) ==
    /\ phase = "user"
    /\ HasImage
    /\ p \in Probed
    /\ Entry(p) # NULL                            \* otherwise a page fault
    /\ data' = [data EXCEPT ![Entry(p)] = IF Entry(p) \in lent THEN v ELSE @]
    /\ \/ /\ p \in stray
          /\ spoilt' = spoilt \cup ({Entry(p)} \cap lent)
          /\ UNCHANGED seen
       \/ /\ p \notin stray
          /\ seen' = [seen EXCEPT ![current][p] = v]
          /\ spoilt' = spoilt \ {Entry(p)}
    /\ UNCHANGED <<current, live, mem, tables, lent, phase, new, stray>>
-----------------------------------------------------------------------------
(* fork: task_copy                                                         *)

\* every page of the task's regions is mapped, be it by what a failed exec has
\* left.  With an unmapped page memcpy faults in the kernel, where the model ends.
Intact == \A p \in PagesOf(mem[current]) : Entry(p) # NULL

Fork ==
    /\ phase = "user"
    /\ HasImage
    /\ Intact
    /\ live # Task
    /\ Cardinality(Leaked) =< MaxLeaked
    /\ phase' = "copy"
    /\ UNCHANGED <<current, live, mem, tables, lent, data, new, stray, seen, spoilt>>

\* the region that task_copy is at
Source == mem[current][Len(new) + 1]
Copying == phase = "copy" /\ Len(new) < Len(mem[current])

\* mutant of CopyData: nothing is copied
CopyDataNot(r, f) == data

\* memcpy from the pages of the region, through the tables of the running task
CopyData(r, f) ==
    [x \in Frame |-> IF x \in f .. (f + r.num - 1) THEN data[Entry(r.vaddr + (x - f))] ELSE data[x]]

\* the copies of pages that exec has left, and of frames that are spoilt
CopySpoilt(r, f) ==
    {x \in f .. (f + r.num - 1) : LET p == r.vaddr + (x - f)
                                  IN  p \in stray \/ Entry(p) \in spoilt}

\* region_copy: a region like the original with frames of its own
RegionCopy ==
    /\ Copying
    /\ \E f \in Frame :
           /\ Alloc(f, Source.num)
           /\ lent' = lent \cup f .. (f + Source.num - 1)
           /\ data' = CopyData(Source, f)
           /\ spoilt' = spoilt \cup CopySpoilt(Source, f)
           /\ new' = Append(new, [Source EXCEPT !.paddr = f])
    /\ UNCHANGED <<current, live, mem, tables, phase, stray, seen>>

\* region_copy fails, for want of frames or of heap for the new region_t;
\* nothing of what has been allocated is given back
ForkFail ==
    /\ Copying
    /\ \/ AllocFails(Source.num) /\ UNCHANGED lent
       \/ \E f \in Frame : /\ Alloc(f, Source.num)
                           /\ lent' = lent \cup f .. (f + Source.num - 1)
    /\ phase' = "user"
    /\ new' = <<>>
    /\ UNCHANGED <<current, live, mem, tables, data, stray, seen, spoilt>>

\* the copy is complete and joins the queue; vmm_new has given it tables
\* with an empty user half
ForkDone ==
    /\ phase = "copy"
    /\ Len(new) = Len(mem[current])
    /\ \E t \in Task \ live :
           /\ 1 .. (t - 1) \subseteq live
           /\ live' = live \cup {t}
           /\ mem' = [mem EXCEPT ![t] = new]
           /\ user' = [user EXCEPT ![t] = Unmapped]
           /\ old' = [old EXCEPT ![t] = FALSE]
           /\ seen' = [seen EXCEPT ![t] = seen[current]]
    /\ phase' = "user"
    /\ new' = <<>>
    /\ UNCHANGED <<current, kernel, lent, data, stray, spoilt>>
-----------------------------------------------------------------------------
(* exec: elf_load, then the exchange of the image.  At boot main executes  *)
(* the first program; if that fails the kernel panics.                     *)

Exec ==
    /\ phase = "user"
    /\ Cardinality(Leaked) =< MaxLeaked
    /\ phase' = "load"
    /\ UNCHANGED <<current, live, mem, tables, lent, data, new, stray, seen, spoilt>>

\* the page after the segments loaded so far
NextPage == new[Len(new)].vaddr + new[Len(new)].num

\* one segment of __elf_load_dyn: the first goes to the lowest gap, the others
\* follow it, over whatever is mapped there (VMM_ATTR_REUSE)
LoadSegment(num) ==
    /\ phase = "load"
    /\ Len(new) < MaxSegs
    /\ \E s \in UserPage, f \in Frame :
           LET r == [type |-> "IMAGE", vma |-> "user", vaddr |-> s, paddr |-> f, num |-> num]
           IN  /\ IF new = <<>> THEN FirstGap(s, num) ELSE s = NextPage
               /\ RegionPages(r) \subseteq UserPage      \* bound
               /\ Alloc(f, num)
               /\ lent' = lent \cup RegionFrames(r)
               /\ user' = [user EXCEPT ![current] = MapRegion(@, r)]
               /\ data' = Forget(RegionFrames(r))
               /\ new' = Append(new, r)
    /\ UNCHANGED <<current, live, mem, old, kernel, phase, stray, seen, spoilt>>

\* no frames, a read error, a bad header or no entry point: fmt_free unmaps
\* the first region, as often as there are regions, and frees all of them
LoadFail ==
    /\ phase = "load"
    /\ HasImage
    /\ IF new = <<>>
       THEN UNCHANGED <<user, lent, data, stray, spoilt>>
       ELSE /\ user' = [user EXCEPT ![current] =
                  [p \in UserPage |-> IF p \in RegionPages(new[1]) THEN NULL ELSE @[p]]]
            /\ lent' = lent \ FramesOf(new)
            /\ data' = Forget(FramesOf(new))
            /\ stray' = stray \cup (PagesOf(new) \ RegionPages(new[1]))
            /\ spoilt' = spoilt \ FramesOf(new)
    /\ phase' = "user"
    /\ new' = <<>>
    /\ UNCHANGED <<current, live, mem, old, kernel, seen>>

\* vfs_close fails after the load: sys_exec forgets the regions
CloseFail ==
    /\ phase = "load"
    /\ HasImage
    /\ new # <<>>
    /\ stray' = stray \cup PagesOf(new)
    /\ phase' = "user"
    /\ new' = <<>>
    /\ UNCHANGED <<current, live, mem, tables, lent, data, seen, spoilt>>

\* the regions sys_exec finds by type and passes to task_mem_del
Deleted == {i \in DOMAIN mem[current] : mem[current][i].type = "IMAGE"}

Cleared == UNION {Unmaps(user[current], mem[current][i]) : i \in Deleted}

\* task_mem_del frees a region only when region_unmap has succeeded
Freed == UNION {RegionFrames(mem[current][i]) : i \in
                 {j \in Deleted : Unmaps(user[current], mem[current][j]) = RegionPages(mem[current][j])}}

\* mutant of Retained: the old image stays in the list
RetainedAll == mem[current]

\* what is left of the list after task_mem_del: the two stacks it begins with
Retained == <<mem[current][1], mem[current][2]>>

ExecDone ==
    /\ phase = "load"
    /\ new # <<>>
    /\ user' = [user EXCEPT ![current] =
                   [p \in UserPage |-> IF p \in Cleared THEN NULL ELSE @[p]]]
    /\ lent' = lent \ Freed
    /\ data' = Forget(Freed)
    /\ mem' = [mem EXCEPT ![current] = Retained \o new]
    /\ stray' = (stray \cup UNION {RegionPages(mem[current][i]) : i \in Deleted})
                   \ (PagesOf(new) \cup Cleared)
    /\ spoilt' = spoilt \ Freed
    /\ seen' = [seen EXCEPT ![current] = [p \in Page |-> IF p \in PagesOf(Retained) THEN @[p] ELSE 0]]
    /\ phase' = "user"
    /\ new' = <<>>
    /\ UNCHANGED <<current, live, old, kernel>>
-----------------------------------------------------------------------------
\* task_stack_alloc for the first task
KernelStack == [type |-> "STACK", vma |-> "kernel", vaddr |-> UserPages + 1,
                paddr |-> 1, num |-> StackPages]
UserStack == [type |-> "STACK", vma |-> "user", vaddr |-> 1,
              paddr |-> StackPages + 1, num |-> StackPages]

Init ==
    /\ current = Main
    /\ live = {Main}
    /\ old = [t \in Task |-> FALSE]
    /\ mem = [t \in Task |-> IF t = Main THEN <<KernelStack, UserStack>> ELSE <<>>]
    /\ user = [t \in Task |-> IF t = Main THEN MapRegion(Unmapped, UserStack) ELSE Unmapped]
    /\ kernel = MapRegion([p \in KernelPage |-> NULL], KernelStack)
    /\ lent = RegionFrames(KernelStack) \cup RegionFrames(UserStack)
    /\ data = [f \in Frame |-> 0]
    /\ phase = "user"
    /\ new = <<>>
    /\ stray = {}
    /\ seen = [t \in Task |-> [p \in Page |-> 0]]
    /\ spoilt = {}

Next ==
    \/ \E n \in Task : Switch(n) \/ Exit(n)
    \/ \E p \in Page, v \in Values : Write(p, v)
    \/ Fork \/ RegionCopy \/ ForkFail \/ ForkDone
    \/ Exec \/ LoadFail \/ CloseFail \/ ExecDone
    \/ \E num \in SegPages : LoadSegment(num)

Spec == Init /\ [][Next]_vars
-----------------------------------------------------------------------------
TypeOK ==
    /\ current \in live /\ live \subseteq Task
    /\ old \in [Task -> BOOLEAN]
    /\ mem \in [Task -> Seq(Region)]
    /\ user \in [Task -> [UserPage -> Frame \cup {NULL}]]
    /\ kernel \in [KernelPage -> Frame \cup {NULL}]
    /\ lent \subseteq Frame
    /\ data \in [Frame -> Values]
    /\ phase \in {"user", "copy", "load"}
    /\ new \in Seq(Region)
    /\ stray \subseteq UserPage
    /\ seen \in [Task -> [Page -> Values]]
    /\ spoilt \subseteq lent

(***************************************************************************)
(* Every region of every task, and every region that is being copied or    *)
(* loaded, has frames of its own that the physical memory manager counts   *)
(* as lent: fork, exec and task_free never share, or give back, frames     *)
(* that are in use, whatever fails on the way (region_copy, region_free,   *)
(* fmt_free).                                                              *)
(***************************************************************************)
FramesAreOwned ==
    /\ \A t, u \in live : \A i \in DOMAIN mem[t], j \in DOMAIN mem[u] :
           /\ RegionFrames(mem[t][i]) \subseteq lent
           /\ <<t, i>> # <<u, j>> =>
                  RegionFrames(mem[t][i]) \cap RegionFrames(mem[u][j]) = {}
    /\ \A i \in DOMAIN new : RegionFrames(new[i]) \subseteq lent
    /\ \A t \in live : \A i \in DOMAIN mem[t], j \in DOMAIN new :
           RegionFrames(mem[t][i]) \cap RegionFrames(new[j]) = {}
    /\ \A i, j \in DOMAIN new : i # j => RegionFrames(new[i]) \cap RegionFrames(new[j]) = {}

(***************************************************************************)
(* The page tables of the running task lead only to frames of its own      *)
(* regions, or of those it is loading, and never to another task's, whose  *)
(* pages old tables may still name.  Excepted are the pages that a failed  *)
(* exec leaves mapped (fmt_free, fmt.c:69; sys_exec, exec.c:54), which are *)
(* gone after the next switch.                                             *)
(***************************************************************************)
Isolation ==
    \A p \in Page \ stray :
        Entry(p) # NULL =>
            \/ \E i \in DOMAIN mem[current] :
                   p \in RegionPages(mem[current][i]) /\ Entry(p) = FrameAt(mem[current][i], p)
            \/ \E i \in DOMAIN new :
                   p \in RegionPages(new[i]) /\ Entry(p) = FrameAt(new[i], p)

(***************************************************************************)
(* A task that is not running has tables that vmm_sync will empty before   *)
(* they are used, or that are empty: nothing it has mapped survives while  *)
(* others run.  This is what __vmm_alert_tasks is for, and why             *)
(* vmm_map_exact never meets a page that it would refuse (vmm.c:481).      *)
(***************************************************************************)
OthersAreSynced == \A t \in live \ {current} : old[t] \/ user[t] = Unmapped

(***************************************************************************)
(* A task reads on each page what it last wrote there, or what its parent  *)
(* had there at the fork, or what exec loaded, before and after any number *)
(* of switches, forks and exits: no store of another task through a page   *)
(* of that task's own regions reaches it.  Excepted are pages that a       *)
(* failed exec has left mapped in the running task, and frames that stores *)
(* through such pages, or copies through them by fork, have reached since  *)
(* their owner's last store: these may belong to any task.                 *)
(***************************************************************************)
MemoryIsPrivate ==
    phase = "user" =>
        \A p \in PagesOf(mem[current]) \ stray :
            Entry(p) # NULL => Entry(p) \in spoilt \/ data[Entry(p)] = seen[current][p]

(***************************************************************************)
(* task_switch leaves every region of the task mapped, kernel stack        *)
(* included: region_map fails for none, although the scheduler would not   *)
(* notice.                                                                 *)
(***************************************************************************)
SwitchMapsAll ==
    [][current' # current =>
           \A i \in DOMAIN mem'[current'] : \A p \in RegionPages(mem'[current'][i]) :
               Entry(p)' = FrameAt(mem'[current'][i], p)]_vars
=============================================================================
