-------------------------------- MODULE Vfs ---------------------------------
(***************************************************************************)
(* The tree of VFS nodes (kernel/fs/vfs/node.c, vfs.c) with its reference  *)
(* counters and mount points, as the system calls open, close, mount and   *)
(* umount and the end of a task use it.  The root filesystem is a FAT32    *)
(* one, the filesystems that mount creates are device filesystems (mount   *)
(* has no partition to offer to another type).  System calls run with      *)
(* interrupts off, one after the other; a step is one name of a path, or   *)
(* what a call does before or after it looks up its path.                  *)
(*                                                                         *)
(* A node is named by its path from the root, a sequence of names.  File   *)
(* systems are not written to, so a path names the same node for as long   *)
(* as the node exists.                                                     *)
(***************************************************************************)
EXTENDS Integers, Sequences, SequencesExt

CONSTANTS
    RootFs,       \* the root filesystem
    DevFs,        \* bound: the filesystems mount can create
    NoFs,         \* NULL
    RootFiles,    \* the files of the root filesystem
    RootDirs,     \* its directories
    Devices,      \* names of registered devices
    LongNames,    \* names of more than NAME_MAX characters
    Paths,        \* the paths programs pass to open
    Targets,      \* the paths they pass to mount and umount
    Exits,        \* whether tasks end with files open
    MaxRefs,      \* bound: references to a node when a call begins
    MaxFiles      \* bound: open files

VARIABLES
    nodes,        \* the nodes that exist, by path
    files,        \* open files of all tasks: how many refer to each node
    mounted,      \* filesystems in use
    freed,        \* filesystems that fs_free has freed
    refused,      \* history: sys_close has failed after the reference was gone
    lost,         \* the kernel has followed a pointer in a freed node
    op,           \* the call that is looking up a path, or "idle"
    path, rest,   \* its path, and the part it has not looked up yet
    cur,          \* the node it has reached
    fs            \* the filesystem that mount has made, or umount removes

state == <<files, mounted, freed, refused>>
vars == <<nodes, state, lost, op, path, rest, cur, fs>>

Root == <<>>
Entries(f) == IF f = RootFs THEN RootFiles \cup RootDirs ELSE {<<d>> : d \in Devices}
NodePaths == RootFiles \cup RootDirs \cup {Append(d, n) : d \in RootDirs, n \in Devices}

ASSUME VfsAssumption ==
    /\ RootFs \notin DevFs /\ NoFs \notin DevFs \cup {RootFs}
    /\ RootFiles \cup RootDirs \cup Paths \cup Targets \subseteq Seq(STRING)
    /\ Devices \subseteq STRING /\ LongNames \subseteq STRING \ {".."}
    /\ Root \in RootDirs
    /\ \A p \in (RootFiles \cup RootDirs) \ {Root} : Front(p) \in RootDirs
    /\ Exits \subseteq BOOLEAN
    /\ MaxRefs \in Nat \ {0} /\ MaxFiles \in Nat

(***************************************************************************)
(* An inode is a filesystem and a path in it.  namei of a filesystem finds *)
(* nothing in an inode of another filesystem.                              *)
(***************************************************************************)
Inode(f, p) == [fs |-> f, path |-> p]
IsDirectory(inode) == inode.path = Root \/ (inode.fs = RootFs /\ inode.path \in RootDirs)

\* the node record a filesystem's root or an entry of it gets, with its first reference
Node(f, inode) == [fs |-> f, inode |-> inode, ref_count |-> 1, mount_fs |-> NoFs, child |-> <<>>]

\* kernel entry() has mounted the root filesystem: vfs_mount("/")
Init ==
    /\ nodes = [p \in {Root} |-> [Node(RootFs, Inode(RootFs, Root)) EXCEPT !.mount_fs = RootFs]]
    /\ files = [p \in NodePaths |-> 0]
    /\ mounted = {} /\ freed = {}
    /\ refused = FALSE /\ lost = FALSE
    /\ op = "idle" /\ path = Root /\ rest = <<>> /\ cur = Root /\ fs = NoFs
-----------------------------------------------------------------------------
(* Nodes; N is the tree.                                                   *)

Alive(N, p) == p \in DOMAIN N

\* __vfs_node_deleteable
Deleteable(N, p) == \A q \in DOMAIN N : IsPrefix(p, q) => N[q].ref_count = 0

\* a list of children without one of them
Without(s, n) == RemoveAt(s, CHOOSE i \in DOMAIN s : s[i] = n)

\* mutant of Detach: the parent keeps its pointer to the node
DetachNot(N, p) == [q \in DOMAIN N \ {p} |-> N[q]]

\* the node is taken from its parent's list and freed
Detach(N, p) ==
    [q \in DOMAIN N \ {p} |->
        IF p # Root /\ q = Front(p) THEN [N[q] EXCEPT !.child = Without(@, Last(p))] ELSE N[q]]

\* if (node->ref_count != 0) node->ref_count--;
Decrement(N, p) == [N EXCEPT ![p].ref_count = IF @ = 0 THEN 0 ELSE @ - 1]

(***************************************************************************)
(* The node that vfs_node_put frees, if any.  Its loop over the children   *)
(* starts with the second one and ends by putting NULL, which is an error: *)
(* a node with children is never freed, but the call goes down along the   *)
(* second children, and a childless node at the end of these is.           *)
(***************************************************************************)
Victims(N, p) ==
    {q \in DOMAIN N :
        /\ Deleteable(N, p) /\ IsPrefix(p, q) /\ N[q].child = <<>>
        /\ \A k \in Len(p) .. (Len(q) - 1) :
               LET child == N[SubSeq(q, 1, k)].child
               IN  Len(child) > 1 /\ child[2] = q[k + 1]}

\* vfs_node_put: the tree after it
Put(N, p) ==
    LET M == Decrement(N, p)
    IN  IF Victims(M, p) = {} THEN M ELSE Detach(M, CHOOSE q \in Victims(M, p) : TRUE)

\* what it returns
PutError(N, p) ==
    LET M == Decrement(N, p)
    IN  IF ~Deleteable(M, p) THEN "EBUSY" ELSE IF p \in Victims(M, p) THEN "0" ELSE "EINVAL"

\* a child was freed, and the loop goes on with the sibling of the freed child
PutLoses(N, p) == Victims(Decrement(N, p), p) \ {p} # {}

\* fs_namei for an entry of a directory
Namei(N, p, name) ==
    N[p].inode.fs = N[p].fs /\ Append(N[p].inode.path, name) \in Entries(N[p].fs)

\* mutant of Referenced: the reference is not counted
ReferencedNot(N, p) == N

\* a node that exists gets another reference
Referenced(N, p) == [N EXCEPT ![p].ref_count = @ + 1]

\* vfs_node_new: the node becomes the first child of its parent
Added(N, p, name) ==
    [q \in DOMAIN N \cup {Append(p, name)} |->
        IF q = Append(p, name)
        THEN Node(N[p].fs, Inode(N[p].fs, Append(N[p].inode.path, name)))
        ELSE IF q = p THEN [N[p] EXCEPT !.child = <<name>> \o @] ELSE N[q]]

\* vfs_node_get: an existing child, a new one, or NULL
Get(N, p, name) ==
    IF Alive(N, Append(p, name)) THEN Referenced(N, Append(p, name))
    ELSE IF Namei(N, p, name) THEN Added(N, p, name)
    ELSE N
-----------------------------------------------------------------------------
(* Looking up a path.                                                      *)

Return == op' = "idle" /\ path' = Root /\ rest' = <<>> /\ cur' = Root /\ fs' = NoFs

\* __vfs_find before its loop, for call o; without a root it finds nothing
Find(N, o, p, f) ==
    \/ /\ Alive(N, Root)
       /\ nodes' = Referenced(N, Root)
       /\ op' = o /\ path' = p /\ rest' = p /\ cur' = Root /\ fs' = f
    \/ /\ ~Alive(N, Root)
       /\ nodes' = N
       /\ Return

\* vfs_node_put of a node, which is used after its end if it does not exist any more
PutNode(N, p) ==
    /\ nodes' = IF Alive(N, p) THEN Put(N, p) ELSE N
    /\ lost' = (~Alive(N, p) \/ PutLoses(N, p))

\* "..": up without touching the counters
WalkUp ==
    /\ op # "idle" /\ rest # <<>> /\ ~lost
    /\ Head(rest) = ".."
    /\ cur' = IF cur = Root THEN Root ELSE Front(cur)
    /\ rest' = Tail(rest)
    /\ UNCHANGED <<nodes, state, lost, op, path, fs>>

\* another name: down, or the call fails: -ENOENT, or -EINVAL of sys_umount
WalkDown ==
    LET name == Head(rest)
        M == Get(nodes, cur, name)
    IN  /\ op # "idle" /\ rest # <<>> /\ ~lost
        /\ name \notin LongNames \cup {".."}
        /\ PutNode(M, cur)
        /\ \/ /\ Alive(M, Append(cur, name))
              /\ cur' = Append(cur, name)
              /\ rest' = Tail(rest)
              /\ UNCHANGED <<op, path, fs>>
           \/ /\ ~Alive(M, Append(cur, name))
              /\ Return
        /\ UNCHANGED state

\* a name that is too long: NULL, the reference stays
WalkFails ==
    /\ op # "idle" /\ rest # <<>> /\ ~lost
    /\ Head(rest) \in LongNames
    /\ Return
    /\ UNCHANGED <<nodes, state, lost>>

Found(o) == op = o /\ rest = <<>> /\ ~lost
-----------------------------------------------------------------------------
\* a file whose node was freed, or a freed node was used: nothing is modelled after it
Dangling == \E p \in NodePaths : files[p] > 0 /\ ~Alive(nodes, p)

Room == \A p \in DOMAIN nodes : nodes[p].ref_count =< MaxRefs
Ready == op = "idle" /\ ~lost /\ ~Dangling

\* sys_open begins
Open(p) ==
    /\ Ready /\ Room
    /\ FoldFunction(+, 0, files) < MaxFiles
    /\ Find(nodes, "open", p, NoFs)
    /\ UNCHANGED <<state, lost>>

\* a file refers to the node that vfs_open has found
Opened ==
    /\ Found("open")
    /\ files' = [files EXCEPT ![cur] = @ + 1]
    /\ Return
    /\ UNCHANGED <<nodes, mounted, freed, refused, lost>>

\* the task has no descriptor or memory left (filesystems open what they have found)
OpenFails ==
    /\ Found("open")
    /\ PutNode(nodes, cur)
    /\ Return
    /\ UNCHANGED state

(***************************************************************************)
(* vfs_close of an open file's node.  sys_close keeps the file when        *)
(* vfs_close fails; task_free (exits) forgets it.                          *)
(***************************************************************************)
Close(p, exits) ==
    /\ Ready
    /\ files[p] > 0
    /\ PutNode(nodes, p)
    /\ \/ /\ PutError(nodes, p) = "EINVAL" /\ ~exits
          /\ refused' = TRUE
          /\ UNCHANGED files
       \/ /\ PutError(nodes, p) # "EINVAL" \/ exits
          /\ files' = [files EXCEPT ![p] = @ - 1]
          /\ UNCHANGED refused
    /\ UNCHANGED <<mounted, freed, op, path, rest, cur, fs>>

\* sys_mount begins: there is a new device filesystem
Mount(p, f) ==
    /\ Ready /\ Room
    /\ p # Root
    /\ f \in DevFs \ (mounted \cup freed)
    /\ Find(nodes, "mount", p, f)
    /\ UNCHANGED <<state, lost>>

(***************************************************************************)
(* The filesystem takes the place of the node's inode, and the reference   *)
(* of __vfs_find is kept.  The old inode is not saved: the copy goes the   *)
(* wrong way, and namei then replaces what it copied.                      *)
(***************************************************************************)
Mounted ==
    /\ Found("mount")
    /\ IsDirectory(nodes[cur].inode)
    /\ nodes' = [nodes EXCEPT ![cur] = [@ EXCEPT !.mount_fs = nodes[cur].fs, !.fs = fs,
                                                 !.inode = Inode(fs, Root)]]
    /\ mounted' = mounted \cup {fs}
    /\ Return
    /\ UNCHANGED <<files, freed, refused, lost>>

\* not a directory: the filesystem is freed again, the reference stays
MountFails ==
    /\ Found("mount")
    /\ ~IsDirectory(nodes[cur].inode)
    /\ Return
    /\ UNCHANGED <<nodes, state, lost>>

\* sys_umount begins with vfs_fs
Umount(p) ==
    /\ Ready /\ Room
    /\ Find(nodes, "fs", p, NoFs)
    /\ UNCHANGED <<state, lost>>

(***************************************************************************)
(* vfs_fs puts the node and then reads its filesystem: in freed memory it  *)
(* may find NULL, and sys_umount gives up.  Else vfs_umount begins.        *)
(***************************************************************************)
FsFound ==
    /\ Found("fs")
    /\ lost' = PutLoses(nodes, cur)
    /\ \/ Find(Put(nodes, cur), "umount", path, NoFs)
       \/ /\ ~Alive(Put(nodes, cur), cur)
          /\ nodes' = Put(nodes, cur)
          /\ Return
    /\ UNCHANGED state

\* vfs_node_is_fs_root and vfs_node_is_mountpoint
IsMounted(N, p) ==
    /\ p = Root \/ N[p].fs # N[Front(p)].fs
    /\ N[p].mount_fs # NoFs

\* -EINVAL, the reference stays
UmountFails ==
    /\ Found("umount")
    /\ ~IsMounted(nodes, cur)
    /\ Return
    /\ UNCHANGED <<nodes, state, lost>>

\* the node with its old filesystem; the inode stays: this copy goes the wrong way too
Unmounted(N, p) == [N EXCEPT ![p] = [@ EXCEPT !.fs = N[p].mount_fs, !.mount_fs = NoFs]]

\* vfs_umount up to its first put
Unmount ==
    /\ Found("umount")
    /\ IsMounted(nodes, cur)
    /\ PutNode(Unmounted(nodes, cur), cur)
    /\ op' = "put"
    /\ fs' = nodes[cur].fs
    /\ UNCHANGED <<state, path, rest, cur>>

\* mutant of Done: a busy filesystem is freed as well
DoneAny(err) == err # "EINVAL"

\* whether sys_umount frees the filesystem
Done(err) == err = "0"

(***************************************************************************)
(* The second put, of the reference of vfs_mount.  If the node cannot be   *)
(* freed then, umount has failed, but the node is changed.                 *)
(***************************************************************************)
Umounted ==
    /\ Found("put")
    /\ PutNode(nodes, cur)
    /\ freed' = IF Alive(nodes, cur) /\ Done(PutError(nodes, cur)) THEN freed \cup {fs} ELSE freed
    /\ Return
    /\ UNCHANGED <<files, mounted, refused>>

\* at a bound, or where nothing is modelled any more
Stop ==
    /\ lost \/ (op = "idle" /\ (Dangling \/ ~Room))
    /\ UNCHANGED vars

Next ==
    \/ \E p \in Paths : Open(p)
    \/ Opened \/ OpenFails
    \/ \E p \in NodePaths, exits \in Exits : Close(p, exits)
    \/ \E p \in Targets, f \in DevFs : Mount(p, f)
    \/ Mounted \/ MountFails
    \/ \E p \in Targets : Umount(p)
    \/ FsFound \/ UmountFails \/ Unmount \/ Umounted
    \/ WalkUp \/ WalkDown \/ WalkFails
    \/ Stop

Spec == Init /\ [][Next]_vars
-----------------------------------------------------------------------------
\* Types; umount never leaves a node without a filesystem.
TypeOK ==
    /\ DOMAIN nodes \subseteq NodePaths
    /\ \A p \in DOMAIN nodes :
        /\ nodes[p].fs \in DevFs \cup {RootFs}
        /\ nodes[p].ref_count \in Nat
    /\ files \in [NodePaths -> Nat]
    /\ cur \in NodePaths

(***************************************************************************)
(* The node of every open file exists: no other task's close, failed open, *)
(* mount or umount frees it, though ".." and failed calls leave reference  *)
(* counters wrong.  It holds until a sys_close fails: then a file is left  *)
(* without a reference, and closing it again takes that of another.        *)
(***************************************************************************)
OpenNodesExist ==
    ~lost /\ ~refused => \A p \in NodePaths : files[p] > 0 => Alive(nodes, p)

(***************************************************************************)
(* The nodes form a tree: the parent of every node exists and has it once  *)
(* in its list of children, and lists nothing else.                        *)
(***************************************************************************)
TreeIsLinked ==
    \A p \in DOMAIN nodes :
        /\ p # Root => Alive(nodes, Front(p)) /\ Last(p) \in ToSet(nodes[Front(p)].child)
        /\ IsInjective(nodes[p].child)
        /\ \A n \in ToSet(nodes[p].child) : Alive(nodes, Append(p, n))

\* No node uses a filesystem that umount has freed.
FilesystemsExist == \A p \in DOMAIN nodes : nodes[p].fs \notin freed
=============================================================================
