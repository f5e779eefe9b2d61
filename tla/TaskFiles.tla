----------------------------- MODULE TaskFiles ------------------------------
(***************************************************************************)
(* Open files of tasks: the file table of kernel/sched/file.c as open.c,   *)
(* close.c, read.c, write.c and task_free use it.  System calls run with   *)
(* interrupts off and none of these switches tasks (devices that wait are  *)
(* the subject of SerialPort), so each call is one step; tasks share the   *)
(* VFS nodes and their reference counters, to which vfs_close may refuse a *)
(* call after it has dropped the reference.  When a node is freed, and     *)
(* which nodes are below which, is the subject of Vfs.                     *)
(***************************************************************************)
EXTENDS Integers, FiniteSets

CONSTANTS
    Tasks,
    Nodes,        \* VFS nodes programs open
    NoNode,
    Directories,  \* those that are directories
    MAX,          \* CONFIG_TASK_FILES_MAX
    MaxRefs,      \* bound: references to a node
    MaxMiscounts, \* bound: miscounted references of a node
    MaxOffset     \* bound: file offset

ASSUME FilesAssumption ==
    /\ MAX \in Nat \ {0}
    /\ MaxRefs \in Nat \ {0}
    /\ MaxMiscounts \in Nat
    /\ MaxOffset \in Nat \ {0}
    /\ Directories \subseteq Nodes
    /\ NoNode \notin Nodes
    /\ IsFiniteSet(Tasks)

VARIABLES
    files,        \* task_t.files: the file at each descriptor or NULL
    fd_last,      \* task_t.fd_last
    ref_count,    \* vfs_node_t.ref_count
    miscounts,    \* history: how often a reference was not taken, or dropped too early
    ret           \* the last system call: by which task, and what it returned

vars == <<files, fd_last, ref_count, miscounts, ret>>

NULL == [node |-> NoNode, offset |-> 0]
EMFILE == -24
EBADF == -9
ENOMEM == -12
EIO == -5         \* stands for any error of the filesystem
EINVAL == -22
ENOENT == -2

Fd == 0 .. (MAX - 1)
Returned(t, value) == [by |-> t, value |-> value]
Open(t) == {fd \in Fd : files[t][fd] # NULL}

(***************************************************************************)
(* What files[fd] holds just outside of the array: before it lies fd_last  *)
(* (-1 when that index is read), after it term_code and exit_code, 0 for   *)
(* a running task.                                                         *)
(***************************************************************************)
IsNull(t, fd) ==
    \/ fd = MAX
    \/ fd \in Fd /\ files[t][fd] = NULL
-----------------------------------------------------------------------------
\* mutants of Free: descriptors in use are taken for free; fd_last is skipped
FreeAny(t, fd) == fd >= fd_last[t]
FreeAfterLast(t, fd) == fd > fd_last[t] /\ IsNull(t, fd)

Free(t, fd) == fd >= fd_last[t] /\ IsNull(t, fd)

\* task_file_fd_next returns fd; fd_last is never MAX, so it is never reset
IsFdNext(t, fd) == Free(t, fd) /\ \A g \in 0 .. (fd - 1) : ~Free(t, g)

LastAfterOpen(t, fd) == IF fd > fd_last[t] THEN fd ELSE fd_last[t]

\* vfs_node_get of n: its counter goes up
Get(rc, n) == [m \in Nodes |-> IF m = n THEN rc[m] + 1 ELSE rc[m]]

\* vfs_node_put of n: its counter goes down, but not below 0
Put(rc, n) == [m \in Nodes |-> IF m = n /\ rc[m] > 0 THEN rc[m] - 1 ELSE rc[m]]

(***************************************************************************)
(* The paths of __vfs_find.  It puts every node it leaves downwards, but   *)
(* ".." moves up without touching a counter: a path that goes up from a    *)
(* node to the directory w.up leaves a reference on w.from, and has none   *)
(* on w.up when it goes on from there or ends there.                       *)
(***************************************************************************)
Straight == [up |-> NoNode, from |-> NoNode]
Walks == {Straight} \cup {w \in [up : Directories, from : Nodes] : w.up # w.from}

\* the counters when a walk that does not end at w.up is over, but for its last node
Passed(w) == Get(Put(ref_count, w.up), w.from)

\* the counters when __vfs_find returns n
Found(n, w) == IF n = w.up THEN Get(ref_count, w.from) ELSE Get(Passed(w), n)

Room(n, w) ==
    \A m \in Nodes :
        /\ m \in {n, w.from} => ref_count[m] < MaxRefs
        /\ m = w.up => miscounts[m] < MaxMiscounts

\* a walk through ".." miscounts the directory it goes up to
Miscounted(w) == Get(miscounts, w.up)

\* mutant of Dropped: the error path of sys_open closes the node twice
DroppedTwice(rc, n) == Put(Put(rc, n), n)

\* the vfs_close of the error path of sys_open, whose result is ignored
Dropped(rc, n) == Put(rc, n)

\* sys_open once vfs_open has found node n.  alloc: heap_alloc succeeds
SysOpen(t, n, w, alloc) ==
    /\ Room(n, w)
    /\ miscounts' = Miscounted(w)
    /\ \/ /\ \A fd \in Fd : ~Free(t, fd)
          /\ ret' = Returned(t, EMFILE)
          /\ ref_count' = Dropped(Found(n, w), n)
          /\ UNCHANGED <<files, fd_last>>
       \/ \E fd \in Fd :
             /\ IsFdNext(t, fd)
             /\ fd_last' = [fd_last EXCEPT ![t] = LastAfterOpen(t, fd)]
             /\ \/ /\ ~alloc
                   /\ ret' = Returned(t, ENOMEM)
                   /\ ref_count' = Dropped(Found(n, w), n)
                   /\ UNCHANGED files
                \/ /\ alloc
                   /\ ret' = Returned(t, fd)
                   /\ files' = [files EXCEPT ![t][fd] = [node |-> n, offset |-> 0]]
                   /\ ref_count' = Found(n, w)

(***************************************************************************)
(* sys_open when vfs_open finds nothing: vfs_close gets NULL and does      *)
(* nothing.  A name that is too long leaves a reference on the directory   *)
(* kept.  (The open of a filesystem never fails: fat32 has none of its own *)
(* and devfs only nodes of registered devices.)                            *)
(***************************************************************************)
SysOpenFails(t, w, kept) ==
    /\ Room(kept, w)
    /\ miscounts' = Miscounted(w)
    /\ ref_count' = Get(Passed(w), kept)
    /\ ret' = Returned(t, ENOENT)
    /\ UNCHANGED <<files, fd_last>>

Cleared(t, fd) == [files EXCEPT ![t][fd] = NULL]

LastAfterClose(t, fd) == IF fd = fd_last[t] THEN fd_last[t] - 1 ELSE fd_last[t]

(***************************************************************************)
(* sys_close.  vfs_close fails for a directory that lost its last          *)
(* reference and has nodes below it (refused): vfs_node_put has dropped    *)
(* the reference by then, and the file stays.                              *)
(***************************************************************************)
SysClose(t, fd, refused) ==
    LET n == files[t][fd].node
    IN  \/ /\ IsNull(t, fd)
           /\ ret' = Returned(t, EBADF)
           /\ UNCHANGED <<files, fd_last, ref_count, miscounts>>
        \/ /\ ~IsNull(t, fd)
           /\ refused
           /\ n \in Directories /\ ref_count[n] =< 1 /\ miscounts[n] < MaxMiscounts
           /\ ret' = Returned(t, EINVAL)
           /\ ref_count' = Put(ref_count, n)
           /\ miscounts' = Get(miscounts, n)
           /\ UNCHANGED <<files, fd_last>>
        \/ /\ ~IsNull(t, fd)
           /\ ~refused
           /\ ret' = Returned(t, 0)
           /\ ref_count' = Put(ref_count, n)
           /\ fd_last' = [fd_last EXCEPT ![t] = LastAfterClose(t, fd)]
           /\ files' = Cleared(t, fd)
           /\ UNCHANGED miscounts

\* how far sys_read or sys_write moves the offset after got bytes (or an error)
Step(f, got, write) ==
    IF got > 0 /\ f.node \in Directories /\ ~write THEN 1
    ELSE IF got > 0 THEN got ELSE 0

\* sys_read and sys_write, when the filesystem returns got
Transfer(t, fd, got, write) ==
    \/ /\ IsNull(t, fd)
       /\ ret' = Returned(t, EBADF)
       /\ UNCHANGED <<files, fd_last, ref_count, miscounts>>
    \/ /\ ~IsNull(t, fd)
       /\ files[t][fd].offset + Step(files[t][fd], got, write) =< MaxOffset
       /\ files' = [files EXCEPT ![t][fd].offset = @ + Step(files[t][fd], got, write)]
       /\ ret' = Returned(t, got)
       /\ UNCHANGED <<fd_last, ref_count, miscounts>>

(***************************************************************************)
(* task_free closes the file of every slot and frees it, whatever vfs_close*)
(* says.  It gets here only when no slot is NULL (see Sched).  The task_t  *)
(* is then reused for a new task, zeroed.                                  *)
(***************************************************************************)
TaskFree(t) ==
    /\ Open(t) = Fd
    /\ ref_count' = [n \in Nodes |->
           LET slots == Cardinality({fd \in Fd : files[t][fd].node = n})
           IN  IF ref_count[n] > slots THEN ref_count[n] - slots ELSE 0]
    /\ files' = [files EXCEPT ![t] = [fd \in Fd |-> NULL]]
    /\ fd_last' = [fd_last EXCEPT ![t] = 0]
    /\ UNCHANGED <<miscounts, ret>>

Init ==
    /\ files = [t \in Tasks |-> [fd \in Fd |-> NULL]]
    /\ fd_last = [t \in Tasks |-> 0]
    /\ ref_count = [n \in Nodes |-> 0]
    /\ miscounts = [n \in Nodes |-> 0]
    /\ ret = Returned(CHOOSE t \in Tasks : TRUE, 0)

Next ==
    \E t \in Tasks :
        \/ \E n \in Nodes, w \in Walks, alloc \in BOOLEAN : SysOpen(t, n, w, alloc)
        \/ \E w \in Walks, kept \in {NoNode} \cup Directories : SysOpenFails(t, w, kept)
        \/ \E fd \in 0 .. MAX, refused \in BOOLEAN : SysClose(t, fd, refused)
        \/ \E fd \in 0 .. MAX, got \in {EIO} \cup 0 .. MaxOffset, write \in BOOLEAN :
               Transfer(t, fd, got, write)
        \/ TaskFree(t)

Spec == Init /\ [][Next]_vars
-----------------------------------------------------------------------------
\* Types; fd_last stays between -1 and the last descriptor.
TypeOK ==
    /\ files \in [Tasks -> [Fd -> {NULL} \cup [node : Nodes, offset : 0 .. MaxOffset]]]
    /\ fd_last \in [Tasks -> -1 .. (MAX - 1)]
    /\ ref_count \in [Nodes -> Nat]
    /\ miscounts \in [Nodes -> Nat]

(***************************************************************************)
(* No descriptor above fd_last is in use, after any sequence of opens,     *)
(* closes and failed opens: task_file_fd_next, which looks only from there *)
(* on, never needs to look further than the next slot.                     *)
(***************************************************************************)
NothingAboveLast == \A t \in Tasks : \A fd \in Open(t) : fd =< fd_last[t]

(***************************************************************************)
(* A node lacks a reference for an open file only if one was miscounted:   *)
(* nodes are referenced at least as often as the files of all tasks refer  *)
(* to them, less one for each close refused after the reference was        *)
(* dropped, and for each path through ".." that went on from the node or   *)
(* ended at it.  Opens that find nothing, or no slot or memory, closes that*)
(* succeed and ends of tasks take no reference from another task's file.   *)
(***************************************************************************)
OpenNodesAreReferenced ==
    \A n \in Nodes :
        Cardinality({s \in Tasks \X Fd : files[s[1]][s[2]].node = n})
            =< ref_count[n] + miscounts[n]

(***************************************************************************)
(* A system call never replaces the file of a descriptor by another one,   *)
(* and only close (or the end of the task) takes it away: sys_open does    *)
(* not hand out a descriptor in use.                                       *)
(***************************************************************************)
FilesStay ==
    [][\A t \in Tasks : \A fd \in Open(t) :
           files'[t][fd] = NULL \/ ( /\ files'[t][fd].node = files[t][fd].node
                                     /\ files'[t][fd].offset >= files[t][fd].offset)]_vars

(***************************************************************************)
(* sys_open returns EMFILE only when the highest descriptor of the calling *)
(* task is in use, though fd_last moves up for opens that then fail and    *)
(* down for some closes only.                                              *)
(***************************************************************************)
EmfileMeansTopInUse ==
    [][ret' # ret /\ ret'.value = EMFILE => MAX - 1 \in Open(ret'.by)]_vars
=============================================================================
