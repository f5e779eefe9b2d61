# Verification of the sdx kernel

sdx is a UNIX-like hobby kernel for x86-64 written in C (`src/kernel`). This
directory holds TLA+ modules that model its core, TLC configurations that check
them on small instances, and TLAPS proofs about them for all values of their
constants. `PROJECT.json` maps definitions to source lines and lists the runs,
findings, hazards and theorems.

## The system

There is one CPU. System calls run with interrupts off (`MSR_FMASK` clears IF),
so a system call is not interrupted by the timer; it gives up the CPU only where
it calls `sched()`. The timer interrupts user code and, before the first program
runs, the boot code in `entry()`. What makes this system hard is therefore less
preemption than what happens around `sched()`, the long life of shared lists and
counters under every order of calls, and the error paths.

| Part | State | Operations | Interacts with | What is hard |
| --- | --- | --- | --- | --- |
| physical memory (`mm/pmm.c`) | bitmap, boot position | `pmm_init`, `pmm_alloc`, `pmm_free` | vmm, regions | alignment and hole handling in the scan; pages given out before the bitmap exists |
| heap (`mm/heap.c`) | doubly linked free list of chunks | `heap_alloc`, `heap_realloc`, `heap_free` | everything; takes pages from vmm | list surgery in every position, extension in the middle of a search |
| virtual memory (`mm/vmm.c`), regions (`mm/region.c`) | page tables, region lists of tasks | map, unmap, sync, copy, free | pmm, tasks, fork, exec | tables of several tasks kept in step, failures half way through fork and exec |
| executable formats (`fs/fmt`) | regions of the program being loaded | load | exec, VFS, vmm | what a failed load leaves mapped |
| scheduler (`sched/`) | task list, current task, task states, registers, ticks, wait queues | timer handler, fork, wait, exit, signals, exec | all system calls, serial port | interleavings, order of deaths, starvation |
| interrupt stack (`inc/sched/sched.h`, `core/im`) | one stack for all interrupts | `sched()`, interrupts | scheduler | a word shared by all tasks |
| task files (`sched/file.c`, `syscall/*`) | descriptor table, `fd_last`, offsets | open, close, read, write, task end | VFS, heap | failures in the middle of a call, table edges |
| VFS (`fs/vfs`) | tree of nodes, reference counters, mounts | open, close, mount, umount | filesystems, task files, exec | counters under every order of calls, failing close and umount |
| FAT32 (`fs/fat32`) | none besides the volume's layout | detect, look up, list, read | VFS, disks | names that do not fit, boundaries of sectors, clusters and files |
| devfs (`fs/devfs`) | device list, constant after boot | namei, read, write | VFS, serial ports | nothing of its own |
| serial ports (`core/serial.c`), locks | lock per direction, line status | device read and write, kernel messages | scheduler (`sched_wait`), printk | switches in the middle of a transfer |
| disks and partitions (`core/disk`, `core/gpt.c`, `core/mbr.c`) | list of disks and of their partitions | add, scan, walk, read | FAT32, root search in `main.c`, AHCI | rescans with failing sectors, disks without partitions |
| AHCI (`core/ahci`) | port state, command slots and tables, registers shared with the controller | hand-off, reset, set-up, read, write, info | disks | a controller that runs at the same time, errors, slot limits, waiting loops |
| PIC, interrupt manager | masks, handler lists, constant after boot | add, mask, end of interrupt | scheduler, drivers | registration order |
| PCI, ACPI, PS/2, video, rest of boot | hardware tables | run once at boot | | none worth a model |

## Modules

| Module | Models | Properties and proofs |
| --- | --- | --- |
| `PmmFit` | page addresses, alignment, availability; what "first fit" means | shared vocabulary |
| `PmmScan` | the two page-scan loops, one page per step | checked and proved (`PmmProofs`) |
| `PageAllocator` | abstract: free pages are lent and returned | refined by `Pmm` |
| `Pmm` | the manager: boot allocations, bitmap set-up, alloc, free | checked and proved (`PmmProofs`) |
| `Sched` | scheduler, task states, wait queues, fork, wait, exit, faults, exec | checked and proved (`SchedProofs`) |
| `InterruptStack` | the word at the top of the interrupt stack | a violation run |
| `TaskFiles` | file tables of tasks | checked and proved (`TaskFilesProofs`) |
| `SerialPort` | transfers of tasks and kernel over a port and its lock | checked and proved (`SerialPortProofs`) |
| `Heap` | the free list, chunk by chunk, one step per chunk a loop looks at | checked and proved (`HeapProofs`) |
| `Vfs` | nodes, counters, mounts, one step per name of a path | checked and proved (`VfsProofs`) |
| `Vmm` | page tables, regions, and what switch, fork, exec and exit do with them | checked and proved (`VmmProofs`) |
| `Disk` | disks, partition scan, walk, reads of any offset and size | operators and actions used by `Rootfs` |
| `Fat32` | the FAT32 driver as operators on a volume; extends `Disk` | checked through `Rootfs` |
| `Rootfs` | storage composed: disks found and scanned, root searched, filesystem read; extends `Fat32` | checked (uses `RECURSIVE` operators) |
| `Ahci` | one port of the AHCI driver and the controller beside it | checked and proved (`AhciProofs`) |

`MC*` modules only define constants for TLC. Definitions named `...Not`, `...Any`,
`...Short` and the like, marked "mutant of", are small faults of the definition
that follows them. The specification does not use them; putting one in place of
the original shows that a property notices the fault.

### Physical memory

`PmmScan` has one variable per local of the C loops (`pos`, here `page`, `start`,
`cur`). The two loops, with and without the bitmap, differ in where they start (`from`),
where they end (`limit`), and in the bits they look at, so they are one specification.
`ReturnsFirstFit` and `NullOnlyIfNoFit` compare the result with the declarative
definition of `PmmFit`. `Pmm` then takes each allocation as one step that returns
the first fit, which the proof about `PmmScan` justifies: nothing else runs during
the loop. `held` records what callers hold. Assumptions: the bitmap covers all
pages (`NumPages <= BmBits`; the code's size, pages / 8 rounded up to a page of
bytes, fails this only when pages / 8 is an exact multiple of 4096 and pages
is not a multiple of 8, and then only up to 7 pages at the end), page 0 is
not in the managed region (0 is NULL), and callers free only what they hold,
which `pmm_free` does not check.

### Scheduler

`queue` is the task list along `next`; `task` the `task_t` records; `cpu` where
the running task is. `Tick` is the timer interrupt; `YieldAt` is `sched_wait`. The
second half of the handler (`Schedule`) is the same for all states. `fork` and
`wait` take two steps, before and after `sched()`. A death is one step, because
`sched_exit` and the handler it raises run with interrupts off: the children are
handed to PID 1, the next task is taken from the head of the list, the status goes
to the parent, and `task_free` runs. `task_free` follows NULL pointers for empty
file slots, which ends in a panic (state `machine`). The history variables `died`
and `collected` record who was told of a death and which statuses `wait`
returned. `heap_alloc` is taken to succeed for tasks and wait queue entries,
except in `fork`.

Fairness: weak fairness of `Tick` (the PIT keeps firing, and interrupts are on in
user mode) and of the kernel's own steps (code in the kernel runs on). Programs
are not assumed to do anything.

`Sched` takes `sched()` to return where it was called, and `InterruptStack` looks at
whether it does. It does as long as the scheduler goes on with the same task; after
a switch the popped word may be another's. `Sched` prints without waiting, except
for the message inside the held section of `sys_exec`, which may always have to wait for
COM1 (`ExecPrint`, place "print"). `ExecKeepsImage` covers the section until then;
after that the scheduler saves over the registers of the new program, against what
the comment in `exec.c:64` means to prevent.

### Task files

`files`, `fd_last` and node references for any number of tasks. What lies just
outside of the `files` array is modelled (`IsNull`), because the code reads there.
A path may go through `..`, which does not count the directory it goes up to, and
may end nowhere (`SysOpenFails`), where a name that is too long leaves a reference
behind. A close is refused
(EINVAL) for a directory that is to lose its last reference and has nodes below it:
`vfs_node_put` has dropped the reference by then, and the file stays in the table.
When that is so is left open here (`Vfs` has the tree). The history variable
`miscounts` numbers, for each node, the references that were dropped or not taken in
these two ways; `OpenNodesAreReferenced` allows for just those.

### Serial port

One direction of one port. A task in the loop of `__serial_write` holds the lock
and gives up the CPU when the port is busy; kernel messages look at the lock once.
A page fault on the user's buffer ends the task there. The scheduler's choice is
left open, so the properties hold for any scheduler. `lock` and `ready` are the bits
of the code. For a port that `serial_init` has not found (`available`) a transfer
returns an error from the middle of its loop and leaves the lock (`Refuse`). Liveness
is not claimed: the spinlock is not fair.

### Heap

Chunks are numbered by address. Each loop of `heap.c` is a sequence of steps, one
for each chunk it looks at, with the C locals as variables: `Scan` is the loop of
`heap_alloc` (`cur`, `start`, `count`, `want`), `Grow` that of `heap_realloc` (`from`,
`end`, `old`), `Visit` that of `heap_free`, whose single pass finds both neighbours;
`pc` says which call runs. `AllocDone`, `AllocFail`, `ReallocDone`, `ReallocMove` and
`FreeDone` are the ends of the calls, with the cut of the list, the mapping of more
pages and the copy in them; `Crash` is the copy to address 0 when there is no memory.
Calls do not overlap: the heap is used with interrupts off. `order` is the order in
which `vmm_map` returns pages, any permutation: `region_copy` maps and unmaps pages
between extensions of the heap, so a later page can lie below an earlier one. The properties
begin with `PagesAscend`, that the pages so far have come in ascending order; what
comes after a page below another is in the model too, but the list can break there and
the properties claim nothing about it. Buffers grow by one chunk
(`Growths`), because the only caller of `heap_realloc` (`pci.c:138`) grows an array by
one `pci_device_t` of 20 bytes at a time, less than a chunk; other values break
the list (known deviations).

### VFS

A node is named by its path. A system call runs alone, but in steps: `Open`, `Mount`
and `Umount` begin `__vfs_find`, `WalkUp`, `WalkDown` and `WalkFails` each take one name
of the path (`cur` is the node it has reached, `rest` what is left), and `Opened`,
`OpenFails`, `Mounted`, `MountFails`, `FsFound`, `Unmount`, `UmountFails` and `Umounted` are
what the call does with the node. `umount` looks its path up twice, in `vfs_fs` and in
`vfs_umount`. `Put` is `vfs_node_put`; the loop over children, which calls itself, is
written as the set of nodes it can free (`Victims`, at most one): it starts with
the second child, so that it goes down along second children to a node without
any. `lost` says that the code has followed a pointer in a freed node; the model
stops there and when an open file has lost its node. What `vfs_fs` reads in a node
that its put has freed is a choice: the old filesystem or NULL. Opening and closing do
not fail in the filesystems there are, so `OpenFails` is a task without descriptors
or memory. Empty names and `.` are not part of a path here. Reads and writes
change no node. `mount` offers only device filesystems, because the code
passes no partition. Mounting on `/` replaces the root node and drops the old tree
and is not modelled. An inode of one filesystem is taken to contain nothing for
another one (the code would read cluster 0 of the FAT32 partition).

### Memory of tasks

`Vmm` has the user half of every task's page tables (`user`), the kernel half that
all share (`kernel`), the `old` flags, the region lists (`mem`) and the frames that
`pmm_alloc` has handed out (`lent`, with the first fit that `PmmScan` shows). `data`
is the contents of frames and `seen`, a history variable, what each task should
read. `Switch` is `task_switch` with `vmm_sync`, `vmm_switch` and `region_map` for
each region until one fails; `Exit` adds `task_free`. The code inside one system
call runs alone, but fails half way: `RegionCopy`/`ForkFail`/`ForkDone` are the loop
of `task_copy`, `LoadSegment`/`LoadFail`/`CloseFail`/`ExecDone` that of `elf_load` and the
rest of `sys_exec`. `stray` are the pages that a failed exec leaves mapped: they
lead to frames that no longer belong to the task until the next switch. The task
can store through them and fork with them. `spoilt`, a history variable, holds the
frames that such a store or copy has reached, until their owner stores there itself.
`Isolation` excepts stray pages, `MemoryIsPrivate` stray pages and spoilt frames. The frames of page tables are not counted, a switch to the same
task changes nothing (the code returns early), and a page fault, or a fork with an
unmapped page, ends the model of that task.

### Storage

`Disk` has the list of disks, the partitions of each and the flags of the last
scan. Every operation of the controller is given the set `bad` of sectors that
fail in this step. A buffer is modelled by the numbers of the cells it receives,
so that a read is right when the numbers are. `Fat32` is the driver as operators on a
volume (first FAT sector, data, clusters, directories as sequences of slots):
`EntryName`, `Find` and `Skip` follow the loops over slots, `Fat32Read` the
arithmetic of `fat32_read`. `Rootfs` is the sequence of main: `AddDisk` for each disk
that `ahci_init` finds, the loop over partitions (`Try`, `GiveUp`), then look-ups,
listings and reads. `RescanDisk` models the comment that a modified disk is to be
scanned again; so far only the first scan has a caller. The properties compare
with definitions that do not use the driver's loops: `AvailableParts`, `TableOf`,
`Shown`, `CellOf`. Where the driver leaves out something that is on the disk, the
property names it: MBR entries whose CHS address is zero (`WithoutChs`) and names of
NAME_MAX characters, which `entry.c` takes together but does not give back
(ENAMETOOLONG).

### AHCI

`Ahci` is one port. The driver's position is `pc`; the registers are variables that
both sides read and write. Every register access that matters is a step of its
own: CI is read, then written; CI is polled, then the status, then CI again.
The HBA and the device are external and marked so in the map: they fetch a
command, move the data descriptor by descriptor, post the status, and clear
the bit, each as a step, and may fail any command at any point. The link (`det`) comes
up after a reset or not at all (`Link`), and may be lost at any time (`Drop`);
`Comreset` and `WaitLink` are the reset of the port and the loop that waits for the link.
The signature of the device may have an error byte, which the driver takes for
an error of its first command; `sigErr` records that one came. Fairness: weak fairness of
the driver's steps (it runs with interrupts off or polls in a loop, nothing else
stops it) and of the hardware at work on something (a controller that never answers makes the
loops without timeout endless). It does not make the link come up: `CallsReturn`
excepts the loops that wait for a device whose link is down. Nobody has to call the driver.

## Runs

All passing runs finish in less than three minutes with two workers.

| Run | Instance | Shows |
| --- | --- | --- |
| `pmm_scan` | 6 pages with a hole, all bitmaps, counts 0 to 3, alignments below and above the page size | both loops find the first fit, fail only if there is none, and end |
| `pmm` | 6 pages, 2 holders | exclusive pages, exact bitmap, refinement of `PageAllocator` |
| `sched` | 4 tasks, 2 ticks, one file slot | list, registers and statuses stay consistent |
| `sched_live` | 3 tasks | turns for everyone, waits end, exec is not disturbed by the timer until its message waits |
| `task_files` | 2 tasks, 2 slots, a file and a directory, 3 references and 2 miscounts of each | descriptors are not handed out twice, references are miscounted only by refused closes and `..`; EMFILE only while the last descriptor is in use |
| `serial_port` | 3 tasks, transfers of up to 2 bytes, faults, a port that is there or not | one writer, whole transfers |
| `heap` | 3 pages of 2 chunks in every order, buffers of up to 4 chunks, growth by one | while pages ascend: buffers apart, free list exact and doubly linked |
| `vfs` | 4 directories, 2 files, one device, a name that is too long, 2 open files, 2 references to a node when a call begins | tree linked, open nodes and filesystems exist |
| `vmm` | 2 tasks, 5 user pages, stacks of one page, 7 frames, programs of up to 2 segments of 1 or 2 pages | frames and tables of tasks stay apart under every failure, and contents but for what goes through stray pages; a switch maps everything |
| `storage` | 2 disks, 4 partition tables, entries without CHS address, 10 failing sectors, names of up to NAME_MAX (12) characters, one fragmented and two consecutive files | scan, walk, root search, look-up, listing and reads agree with their reference definitions |
| `ahci` | 2 slots, 2 descriptors of 2 units, 3 calls of 0, 1, 3 or 4 sectors, both protocols, links that fail, signatures with and without error | stable tables, stopped set-up, every call returns while the link is up; true results and no transfer after a call if the signature had no error |

The bounds are the smallest that let every case occur: 4 tasks are a parent, a
child, a grandchild and a namesake; 2 ticks distinguish the last tick from
others; buffers of up to 4 chunks begin and end anywhere in pages of 2 and span up to three of
them, and 3 pages allow holes on both sides of a buffer and every kind of order; two files below two directories leave two nodes without
references in one parent's list. In `vmm`, 7 frames are enough for two
tasks with an image (3 or 4 frames each) but not for every fork and exec, so that
both succeed and fail at every point; `MaxLeaked` stops forks and execs while
frames are lost, since lost frames only make memory smaller; two tasks are one
that runs and one that does not, and all conditions on others are about pairs.
In `storage`, clusters have 4 cells and offsets and sizes cover every position with
respect to sectors, clusters and ends of files; reads are made only after a
boot without failures (`Quiet`), because how the root was found makes no difference to
them. In `ahci`, two slots can both be used up by failed commands, and a third call finds none; the sector
count of SATA has 16 bits, here 2 (`CountRange`), so that a full count, written as
0, is among the requests, as it is in the code: 8 descriptors of 4 MiB are 2^16
sectors, which `AhciAssumption` states. `storage` and `ahci` do not check for deadlock: a kernel
without root, and a driver whose calls are used up, stop.
`Terminates` and the two liveness properties of `sched_live` need the whole
behaviour, so those runs are kept smaller.

One run expects a violation: `interrupt_stack_resume` checks what a comment in
`sched.c` says, that a task continues where it left off, and the code can resume
it with a foreign stack pointer. The finding in `PROJECT.json` quotes the comment.

### Known deviations

The models also contain the following behaviours. Where a property would be false
because of one of them, the property states the exception itself; constants and guards do not
cut it away, unless the item says so.

- All forked tasks get PID 2, since nothing moves `task_tail` (`sched.c:132`). As PIDs
  are shared, a task can wait although nobody will ever report to it.
- Of three statuses queued before a wait the second is lost (`waitq.c:33`).
- A failed exec does not return its error: it loads the registers that were saved
  last (`exec.c:165`).
- A task that exits with an empty file slot panics the kernel (`task.c:85`).
- `sys_exec` leaves its held section if COM1 is busy (`exec.c:147`).
- `open` fails with EMFILE while descriptors below `fd_last` are free (`file.c:16`).
- A kernel message that has begun goes on after a task has locked the port
  (`serial.c:331`); a task that faults in a transfer leaves the port locked
  (`serial.c:192`), and so does the error return for a port that is not available
  (`serial.c:173`, `serial.c:192`).
- `heap_free` breaks the free list if the pages of the heap do not come in ascending
  order (`heap.c:264`). `heap_realloc` compares the first chunk of the list with the
  end of the run it takes and the last with its start, so that a run of more than
  one chunk at an end of the list leaves chunks in use on it (`heap.c:232`; `Growths`
  excludes it, as no caller does this), and it copies to address 0 if there is no memory (`heap.c:215`).
- When `task_copy` fails, `sys_fork` returns 0 or the PID of an older child to the
  parent; a child that has its parent's PID takes the parent's branch (`fork.c:27`).
- Reference counters are wrong after paths with `..` or with a name that is too long, and
  after failed mounts and umounts (`vfs.c:55`); umount keeps the inode of the filesystem that is gone
  (`vfs.c:197`); closing a directory with nodes left below it fails after the
  reference was dropped (`node.c:131`). A program that closes again after a refused
  close can in this way free the root, which nobody has unmounted (`vfs.c:143`).
- Memory: `fmt_free` unmaps only the first region of a failed load (`fmt.c:70`), and an
  exec whose `vfs_close` fails keeps its regions (`exec.c:59`); both leave pages mapped
  until the next switch, and what the task stores there can reach frames of others. A failed fork loses the regions copied so far
  (`task.c:50`). Segments after the first are put over whatever is mapped, so that a
  long program unmaps its own pages when the old image is removed, and
  `task_mem_del` then loses regions it cannot unmap. `vmm_map_exact` fails for a
  page that is mapped already (`vmm.c:481`), which `SwitchMapsAll` shows never to happen.
- Storage: `fs_new` leaves `rootfs` pointing to a freed structure, so that main goes on
  instead of panicking when the last partition has no filesystem (`main.c:165`,
  phase `stale`). An unreadable GPT turns its protective MBR entry into a partition;
  entries of the GPT behind `entry_count` are loaded. `fat32_read` of more than one
  cluster takes bytes for sectors (`fat32.c:176`), files with fragments in the
  range of one read come out wrong, and only the first sector of the FAT is used
  (`entry.c:25`). Names of NAME_MAX characters are never found (`entry.c:86`), and MBR
  entries with a zero CHS address are skipped although they have sectors (`mbr.c:52`).
- AHCI: after an error nothing restarts the port, so that every later command fails
  too and keeps a slot. The error byte of a signature is 1 when diagnostics have
  passed, and `port.c:248` takes it for an error, so that the first command can return
  an error while the controller works on it. `ahci_port_reset` waits for the link
  without a timeout (`port.c:106`). Requests of more than 32 MiB write behind the
  command table (`Call` excludes them).

Outside of the models: user page tables are never freed by `vmm_sync` and `vmm_free`;
a page-table allocation that fails maps physical page 0; slot 255 of the PML4 is
not cleared; `vmm_vma` compares the wrong way; `__vmm_find_contiguous` knows no end of
the address space; `disk_write` checks its arguments the wrong way round; a rescan
would free partitions that a mounted filesystem uses; short names whose base has
fewer than 8 characters lose their extension; DMA assumes buffers that are
physically contiguous; a switch while exec prints during a load loses what it has
loaded.

## Proofs

TLAPS checks every proof; there are no unproved steps. Each theorem follows the
pattern: an inductive invariant, preserved by each action, implies the property.

- `PmmProofs`, search: `ScanIInv` is the loop invariant: the `cur` pages before `page` are
  available and start at an aligned `start`, and no fit lies wholly before them.
  It is needed because the result only follows from what was rejected on the way.
  From it `ScanFindsFirstFit` and `ScanFailureIsReal`. Assumptions: the constants'
  (`Nat`, a positive page size).
- `PmmProofs`, allocator: `PmmInvariant` relates holders, bitmap and boot position; page
  exclusivity alone is not inductive, as it needs that held pages are marked, and
  that, before the bitmap exists, they lie below the position. From it
  `PagesAreExclusive`, `BitmapIsExact`, `ReservedStaysReserved`, and the refinement
  `PmmImplementsPageAllocator`.
- `TaskFilesProofs`: `NothingAboveLast` with the types is inductive; `FilesStay`
  and `EmfileMeansTopInUse` follow from it step by step. `NodesStayReferenced`
  counts: the slots of all tasks that refer to a node are a finite set, of which
  each call adds or removes one element, or, at the end of a task, all of that
  task's, while references and `miscounts` together follow. Assumption: finitely many tasks.
- `SerialPortProofs`: `IInv` adds to mutual exclusion that the lock is set while
  anyone is in the loop, and that nobody who waits has moved a byte. A lock that an
  error or a fault leaves only keeps others out.
- `SchedProofs`: no property of `Sched` is inductive by itself, so one invariant
  carries all. That the list holds every live task once needs the lemmas about
  `Unlink` and appending; that deaths are reported needs the PIDs (`Families`: main
  has 1, all others 2, and parents are 1 or 2), from which it follows that every
  death goes to main; that statuses are true needs that only main has a wait queue
  and that its tail is its first entry (`StatusesAreTrue`), the very defect by
  which entries get lost; `InitWaitIsFed` needs that a task which dies while init
  waits leaves its entry in the same step. `BootIsAlone` says that the timer
  finds the kernel with interrupts on only while main is the only task, which the
  registers of waiting tasks depend on. `ImagesAreKept` has no assumption about the
  port: it ends where exec's message begins to wait. `Unlink` is written
  with the place of the task in the list, since a filter of the list would be a
  recursive definition.
- `VmmProofs`: `IInv` describes the shape of region lists (two stacks, then segments
  that ascend above the user stack), so that the regions of a task do not
  overlap; that the frames of regions are disjoint and lent; that the tables of a
  task that does not run are empty or old; what is mapped of the running task,
  in the middle of fork and exec too; and that frames hold what their
  task should read, whether it runs or not, if they are not spoilt (`Contents`;
  `MemoryIsPrivate` speaks of the running task only and is not inductive). A copy that
  fork makes is right where neither the page was stray nor the frame spoilt. `SwitchesMapAll` follows from
  this: tables are empty after `vmm_sync`, and regions do not overlap, so that
  `region_map` refuses no page.
- `AhciProofs`: `Control` says for every place of the driver what the registers
  and the HBA can be (`StopsHold`, `BitsAreIssued`, `ErrorStops`, `DoneOnce`). `Data`
  says that the request fits the sector count, that the descriptors in the
  table cover it, and that the HBA has moved a prefix of the buffer that ends
  where a descriptor does; `EnoughDescriptors` is the arithmetic of
  `ahci_prdtl_from_size`. A signature with an error breaks `Control`, so
  the invariant is `~sigErr => IInv`, and `CommandsAreOwned` and `ResultIsTrue` speak of
  devices without one. `TablesStayStable` and `PortStandsStill` hold for every device:
  they rest on `Port`, a smaller invariant of slots and stops that needs nothing about
  errors.
- `HeapProofs`: `IInv` adds to `BuffersAreDisjoint` and `FreeListIsExact` what the
  loops know: the chunk a loop is at is on the list (`CurIsFree`), the run that
  `heap_alloc` has counted is free and without holes (`RunIsFree`), the run that
  `heap_realloc` takes is the one chunk behind the buffer (`GrownByOne`), and the
  neighbours that `heap_free` has noted are the nearest free chunks on both sides
  among those it has passed (`NeighboursFound`). The two properties are not inductive
  without these, because the cut or the link at the end of a call relies on what its
  loop has seen many steps before. The list is a set of chunks with `next` and `prev`
  functions; that the first and last chunk, and the nearest ones on both sides, are
  what the pointers say is carried as order on chunk numbers, so that no
  induction along the list is needed. The invariant is `PagesAscend => IInv`, beside the
  number of pages; as mapped pages are never given back, a step from which they ascend began with
  pages that did. Assumption: `Growths \subseteq {1}`. The number of pages and chunks, and the sizes of
  buffers, are arbitrary.
- `VfsProofs`: single counters are wrong after `..` and after failed calls, so
  "the counter of a node is the number of its references" is no invariant. What is
  one is `Covers`: in the subtree of every node the counters add up to at least the
  references that files, mounts and the call under way have there. `..` moves a
  reference to a node above, where all subtrees that contain it keep their sums; a call
  that fails without a put only leaves a sum too high; a put counts down at most
  the reference it gives up. As `vfs_node_put` frees a node only if all counters below it are 0,
  a node that is held, or lies above one that is, stays. Sums are
  cardinalities of finite sets of tokens, one for each reference. After a refused
  close (`refused`) files and mounts are no longer covered, but the call under way
  still is, which the tree and the filesystems need. `Homes` says that a device
  filesystem is mounted at one node, perhaps under another one, and has its entries
  just below that node; with it, a put that returns 0 in `vfs_umount` leaves no node of the filesystem that `sys_umount` then frees. From
  `VfsInvariant` follow `OpenNodesStay`, `TreeStaysLinked`, `FilesystemsStay` and the
  types. Assumptions: `VfsAssumption` only; files, paths, mounts, devices and
  references are arbitrary in number.

The invariants were checked by TLC on the instances of the runs before they were
proved.

Only model-checked:

- liveness (`Terminates`, `EveryTaskRuns`, `WaitWakes`, `CallsReturn`), since
  fairness is out of the prover's reach;
- `Disk`, `Fat32`, `Rootfs`: walks along partitions, slots and cluster chains are
  recursive or folds, and the properties compare them with what a whole list,
  directory or file contains;
- `InterruptStack`, whose property does not hold.

The type invariants of `Pmm`, `TaskFiles`, `Sched` and `Vfs` are proved, and those of `Vmm`
and `Ahci` as parts of their invariants; the others document their state.

## Not modelled, and plan

Next:

- Composition: `TaskFiles` over `Vfs`; the pointer level of the task list below
  `Sched`'s sequence.
- The walk over disks and partitions as steps, so that `WalkIsComplete` and
  `RootIsFirst` could be proved.

Not modelled, because nothing changes after boot: the device filesystem
(`devfs_device_unregister` has no caller), terminals (`tty_register` has no caller),
the interrupt manager and the PIC (`im_del_handler` has no caller). Left out for
good: hardware set-up and enumeration (PCI, ACPI, PS/2, video, the rest of boot),
formatting and strings, the checks and relocations of ELF headers, and user
land, which only calls what is modelled.
