-------------------------- MODULE TaskFilesProofs ---------------------------
(***************************************************************************)
(* The file table for any number of tasks, nodes and descriptors: where    *)
(* fd_last can be, and that open files stay until they are closed.         *)
(***************************************************************************)
EXTENDS TaskFiles, FiniteSetTheorems, TLAPS

File == [node : Nodes, offset : 0 .. MaxOffset]

IInv == TypeOK /\ NothingAboveLast

\* A slot of a task is NULL or a file, never both: NULL has no node.
LEMMA SlotType ==
    ASSUME TypeOK, NEW t \in Tasks, NEW fd \in Fd
    PROVE  /\ files[t][fd] \in {NULL} \cup File
           /\ NULL \notin File
           /\ IsNull(t, fd) <=> files[t][fd] = NULL
<1>1. NULL \notin File
  BY FilesAssumption DEF NULL, File
<1> QED
  BY <1>1, FilesAssumption DEF TypeOK, IsNull, Fd, File

\* A descriptor in 0 .. MAX whose file exists is in the table (close.c, read.c).
LEMMA GoodFd ==
    ASSUME NEW t \in Tasks, NEW fd \in 0 .. MAX, ~IsNull(t, fd)
    PROVE  fd \in Fd /\ fd \in Open(t)
BY FilesAssumption DEF IsNull, Fd, Open

\* vfs_node_get and vfs_node_put keep counters natural numbers.
LEMMA Counters ==
    ASSUME NEW rc \in [Nodes -> Nat], NEW n
    PROVE  Get(rc, n) \in [Nodes -> Nat] /\ Put(rc, n) \in [Nodes -> Nat]
BY DEF Get, Put

\* A path of __vfs_find takes a reference to the node it ends at, or is counted as
\* a miscount of it; the error path of sys_open gives no more than that back.
LEMMA WalkCounts ==
    ASSUME TypeOK, NEW w \in Walks, NEW n \in Nodes \cup {NoNode}
    PROVE  /\ Found(n, w) \in [Nodes -> Nat] /\ Dropped(Found(n, w), n) \in [Nodes -> Nat]
           /\ Get(Passed(w), n) \in [Nodes -> Nat] /\ Miscounted(w) \in [Nodes -> Nat]
           /\ \A m \in Nodes :
                 /\ Found(n, w)[m] + Miscounted(w)[m] >=
                       ref_count[m] + miscounts[m] + (IF m = n THEN 1 ELSE 0)
                 /\ Dropped(Found(n, w), n)[m] + Miscounted(w)[m] >= ref_count[m] + miscounts[m]
                 /\ Get(Passed(w), n)[m] + Miscounted(w)[m] >= ref_count[m] + miscounts[m]
<1> USE FilesAssumption
<1>1. ref_count \in [Nodes -> Nat] /\ miscounts \in [Nodes -> Nat]
  BY DEF TypeOK
<1>2. w.up # w.from \/ w.up \notin Nodes
  BY DEF Walks, Straight
<1>3. \A m \in Nodes : Miscounted(w)[m] = miscounts[m] + (IF m = w.up THEN 1 ELSE 0)
  BY <1>1 DEF Miscounted, Get
<1>4. \A m \in Nodes : /\ Passed(w)[m] \in Nat
                       /\ Passed(w)[m] + (IF m = w.up THEN 1 ELSE 0) >= ref_count[m]
  BY <1>1 DEF Passed, Get, Put
<1>5. Passed(w) \in [Nodes -> Nat] /\ Miscounted(w) \in [Nodes -> Nat]
      /\ Get(ref_count, w.from) \in [Nodes -> Nat]
  BY <1>1, Counters DEF Passed, Miscounted
<1>6. Found(n, w) \in [Nodes -> Nat] /\ Get(Passed(w), n) \in [Nodes -> Nat]
  BY <1>5, Counters DEF Found
<1>7. ASSUME NEW m \in Nodes
      PROVE  Found(n, w)[m] + Miscounted(w)[m] >=
                 ref_count[m] + miscounts[m] + (IF m = n THEN 1 ELSE 0)
  <2>1. CASE n = w.up
    <3>1. Found(n, w)[m] >= ref_count[m]
      BY <1>1, <2>1 DEF Found, Get
    <3> QED BY <1>1, <1>3, <1>6, <2>1, <3>1
  <2>2. CASE n # w.up
    <3>1. Found(n, w)[m] = Passed(w)[m] + (IF m = n THEN 1 ELSE 0)
      BY <1>4, <2>2 DEF Found, Get
    <3> QED BY <1>1, <1>3, <1>4, <2>2, <3>1
  <2> QED BY <2>1, <2>2
<1>8. ASSUME NEW m \in Nodes
      PROVE  Get(Passed(w), n)[m] + Miscounted(w)[m] >= ref_count[m] + miscounts[m]
  <2>1. Get(Passed(w), n)[m] >= Passed(w)[m]
    BY <1>4 DEF Get
  <2> QED BY <1>1, <1>3, <1>4, <1>6, <2>1
<1>9. ASSUME NEW m \in Nodes
      PROVE  Dropped(Found(n, w), n)[m] + Miscounted(w)[m] >= ref_count[m] + miscounts[m]
  <2>1. Dropped(Found(n, w), n)[m] + (IF m = n THEN 1 ELSE 0) >= Found(n, w)[m]
        /\ Dropped(Found(n, w), n)[m] \in Nat
    BY <1>6 DEF Dropped, Put
  <2> QED BY <1>1, <1>3, <1>5, <1>6, <1>7, <2>1
<1> QED BY <1>5, <1>6, <1>7, <1>8, <1>9, Counters DEF Dropped

LEMMA Initially == Init => IInv
<1> SUFFICES ASSUME Init PROVE IInv
  OBVIOUS
<1>1. TypeOK
  BY FilesAssumption DEF Init, TypeOK, Fd
<1>2. NothingAboveLast
  BY DEF Init, NothingAboveLast, Open, Fd
<1> QED BY <1>1, <1>2 DEF IInv

\* sys_open
LEMMA OpenPreserves ==
    ASSUME IInv, NEW t \in Tasks, NEW n \in Nodes, NEW w \in Walks,
           NEW alloc \in BOOLEAN, SysOpen(t, n, w, alloc)
    PROVE  IInv'
<1> USE FilesAssumption
<1>1. ref_count' \in [Nodes -> Nat] /\ miscounts' \in [Nodes -> Nat]
  <2>1. /\ Found(n, w) \in [Nodes -> Nat] /\ Dropped(Found(n, w), n) \in [Nodes -> Nat]
        /\ Miscounted(w) \in [Nodes -> Nat]
    BY WalkCounts DEF IInv
  <2> QED BY <2>1 DEF SysOpen
<1>2. CASE UNCHANGED <<files, fd_last>>
  BY <1>1, <1>2 DEF IInv, TypeOK, NothingAboveLast, Open
<1>3. CASE ~UNCHANGED <<files, fd_last>>
  <2>1. PICK fd \in Fd : /\ IsFdNext(t, fd)
                         /\ fd_last' = [fd_last EXCEPT ![t] = LastAfterOpen(t, fd)]
                         /\ \/ files' = files
                            \/ files' = [files EXCEPT ![t][fd] = [node |-> n, offset |-> 0]]
    BY <1>3 DEF SysOpen
  <2>2. LastAfterOpen(t, fd) \in -1 .. (MAX - 1) /\ LastAfterOpen(t, fd) >= fd
        /\ LastAfterOpen(t, fd) >= fd_last[t]
    BY DEF LastAfterOpen, IInv, TypeOK, Fd
  <2>3. fd_last' \in [Tasks -> -1 .. (MAX - 1)]
    BY <2>1, <2>2 DEF IInv, TypeOK
  <2>4. files' \in [Tasks -> [Fd -> {NULL} \cup File]]
    <3>1. [node |-> n, offset |-> 0] \in File
      BY DEF File
    <3>2. files \in [Tasks -> [Fd -> {NULL} \cup File]]
      BY DEF IInv, TypeOK, File
    <3>3. CASE files' = files
      BY <3>2, <3>3
    <3>4. CASE files' = [files EXCEPT ![t][fd] = [node |-> n, offset |-> 0]]
      BY <3>1, <3>2, <3>4
    <3> QED BY <2>1, <3>3, <3>4
  <2>5. TypeOK'
    BY <1>1, <2>3, <2>4 DEF TypeOK, File
  <2>6. NothingAboveLast'
    <3> SUFFICES ASSUME NEW u \in Tasks, NEW g \in Fd, files'[u][g] # NULL
                 PROVE  g =< fd_last'[u]
      BY DEF NothingAboveLast, Open
    <3>1. CASE files[u][g] # NULL
      <4>1. g =< fd_last[u] /\ fd_last[u] \in Int /\ g \in Int
        BY <3>1 DEF IInv, TypeOK, NothingAboveLast, Open, Fd
      <4>2. fd_last'[u] = IF u = t THEN LastAfterOpen(t, fd) ELSE fd_last[u]
        BY <2>1 DEF IInv, TypeOK
      <4> QED BY <4>1, <4>2, <2>2
    <3>2. CASE files[u][g] = NULL
      <4>1. u = t /\ g = fd
        BY <3>2, <2>1 DEF IInv, TypeOK
      <4> QED BY <4>1, <2>1, <2>2 DEF IInv, TypeOK
    <3> QED BY <3>1, <3>2
  <2> QED BY <2>5, <2>6 DEF IInv
<1> QED BY <1>2, <1>3

\* sys_open of a path that is not found
LEMMA OpenFailsPreserves ==
    ASSUME IInv, NEW t \in Tasks, NEW w \in Walks, NEW kept \in {NoNode} \cup Directories,
           SysOpenFails(t, w, kept)
    PROVE  IInv'
<1>1. Get(Passed(w), kept) \in [Nodes -> Nat] /\ Miscounted(w) \in [Nodes -> Nat]
  BY WalkCounts, FilesAssumption DEF IInv
<1> QED BY <1>1 DEF SysOpenFails, IInv, TypeOK, NothingAboveLast, Open

\* sys_close
LEMMA ClosePreserves ==
    ASSUME IInv, NEW t \in Tasks, NEW fd \in 0 .. MAX, NEW refused \in BOOLEAN,
           SysClose(t, fd, refused)
    PROVE  IInv'
<1> USE FilesAssumption
<1>0. ref_count' \in [Nodes -> Nat] /\ miscounts' \in [Nodes -> Nat]
  <2>1. ref_count \in [Nodes -> Nat] /\ miscounts \in [Nodes -> Nat]
    BY DEF IInv, TypeOK
  <2> QED BY <2>1, Counters DEF SysClose
<1>1. CASE UNCHANGED <<files, fd_last>>
  BY <1>0, <1>1 DEF IInv, TypeOK, NothingAboveLast, Open
<1>2. CASE ~UNCHANGED <<files, fd_last>>
  <2>1. /\ ~IsNull(t, fd)
        /\ fd_last' = [fd_last EXCEPT ![t] = LastAfterClose(t, fd)]
        /\ files' = [files EXCEPT ![t][fd] = NULL]
    BY <1>2 DEF SysClose, Cleared
  <2>2. fd \in Fd /\ fd \in Open(t)
    BY <2>1, GoodFd
  <2>3. fd =< fd_last[t] /\ fd_last[t] \in -1 .. (MAX - 1)
    BY <2>2 DEF IInv, TypeOK, NothingAboveLast
  <2>5. LastAfterClose(t, fd) \in -1 .. (MAX - 1)
    BY <2>2, <2>3 DEF LastAfterClose, Fd
  <2>6. TypeOK'
    BY <1>0, <2>1, <2>2, <2>5 DEF IInv, TypeOK
  <2>7. NothingAboveLast'
    <3> SUFFICES ASSUME NEW u \in Tasks, NEW g \in Fd, files'[u][g] # NULL
                 PROVE  g =< fd_last'[u]
      BY DEF NothingAboveLast, Open
    <3>1. files[u][g] # NULL /\ ~(u = t /\ g = fd)
      BY <2>1, <2>2 DEF IInv, TypeOK
    <3>2. g =< fd_last[u] /\ fd_last[u] \in Int /\ g \in Int
      BY <3>1 DEF IInv, TypeOK, NothingAboveLast, Open, Fd
    <3>3. fd_last'[u] = IF u = t THEN LastAfterClose(t, fd) ELSE fd_last[u]
      BY <2>1 DEF IInv, TypeOK
    <3> QED BY <3>1, <3>2, <3>3, <2>2 DEF LastAfterClose, Fd
  <2> QED BY <2>6, <2>7 DEF IInv
<1> QED BY <1>1, <1>2

\* What sys_read and sys_write do to the table: the offset of one file grows.
LEMMA TransferGrows ==
    ASSUME IInv, NEW t \in Tasks, NEW fd \in 0 .. MAX,
           NEW got \in {EIO} \cup 0 .. MaxOffset, NEW write \in BOOLEAN,
           Transfer(t, fd, got, write), ~UNCHANGED <<files, fd_last, ref_count, miscounts>>
    PROVE  /\ fd \in Fd /\ files[t][fd] \in File
           /\ \E off \in 0 .. MaxOffset :
                /\ off >= files[t][fd].offset
                /\ files' = [files EXCEPT ![t][fd] =
                                [node |-> files[t][fd].node, offset |-> off]]
           /\ UNCHANGED <<fd_last, ref_count, miscounts>>
<1> USE FilesAssumption
<1> DEFINE f == files[t][fd]
           off == f.offset + Step(f, got, write)
<1>1. /\ ~IsNull(t, fd)
      /\ off =< MaxOffset
      /\ files' = [files EXCEPT ![t][fd].offset = @ + Step(f, got, write)]
      /\ UNCHANGED <<fd_last, ref_count, miscounts>>
  BY DEF Transfer
<1>2. fd \in Fd /\ f \in File
  BY <1>1, GoodFd, SlotType DEF IInv
<1>3. f.offset \in 0 .. MaxOffset /\ f = [node |-> f.node, offset |-> f.offset]
  BY <1>2 DEF File
<1>4. Step(f, got, write) \in Nat
  BY DEF Step, EIO
<1>5. off \in 0 .. MaxOffset /\ off >= f.offset
  BY <1>1, <1>3, <1>4
<1>6. [f EXCEPT !.offset = @ + Step(f, got, write)] = [node |-> f.node, offset |-> off]
  BY <1>3
<1>7. files' = [files EXCEPT ![t][fd] = [node |-> f.node, offset |-> off]]
  BY <1>1, <1>2, <1>6 DEF IInv, TypeOK
<1> QED BY <1>1, <1>2, <1>5, <1>7

\* sys_read and sys_write
LEMMA TransferPreserves ==
    ASSUME IInv, NEW t \in Tasks, NEW fd \in 0 .. MAX,
           NEW got \in {EIO} \cup 0 .. MaxOffset, NEW write \in BOOLEAN,
           Transfer(t, fd, got, write)
    PROVE  IInv'
<1> USE FilesAssumption
<1>1. CASE UNCHANGED <<files, fd_last, ref_count, miscounts>>
  BY <1>1 DEF IInv, TypeOK, NothingAboveLast, Open
<1>2. CASE ~UNCHANGED <<files, fd_last, ref_count, miscounts>>
  <2>1. fd \in Fd /\ files[t][fd] \in File /\ UNCHANGED <<fd_last, ref_count, miscounts>>
    BY <1>2, TransferGrows
  <2>2. PICK off \in 0 .. MaxOffset :
            files' = [files EXCEPT ![t][fd] = [node |-> files[t][fd].node, offset |-> off]]
    BY <1>2, TransferGrows
  <2>3. [node |-> files[t][fd].node, offset |-> off] \in File
    BY <2>1 DEF File
  <2>4. TypeOK'
    BY <2>1, <2>2, <2>3 DEF IInv, TypeOK, File
  <2>5. NULL \notin File
    BY <2>1, SlotType DEF IInv
  <2>6. \A u \in Tasks : \A g \in Fd : files'[u][g] # NULL => files[u][g] # NULL
    BY <2>1, <2>2, <2>5 DEF IInv, TypeOK
  <2>7. NothingAboveLast'
    BY <2>1, <2>6 DEF IInv, NothingAboveLast, Open
  <2> QED BY <2>4, <2>7 DEF IInv
<1> QED BY <1>1, <1>2

\* task_free
LEMMA TaskFreePreserves ==
    ASSUME IInv, NEW t \in Tasks, TaskFree(t)
    PROVE  IInv'
<1> USE FilesAssumption
<1>1. files' = [files EXCEPT ![t] = [fd \in Fd |-> NULL]] /\ fd_last' = [fd_last EXCEPT ![t] = 0]
  BY DEF TaskFree
<1>2. ref_count' \in [Nodes -> Nat] /\ miscounts' = miscounts
  <2>1. IsFiniteSet(Fd)
    BY FS_Interval DEF Fd
  <2>2. \A n \in Nodes : Cardinality({fd \in Fd : files[t][fd].node = n}) \in Nat
    <3> TAKE n \in Nodes
    <3>1. IsFiniteSet({fd \in Fd : files[t][fd].node = n})
      BY <2>1, FS_Subset
    <3> QED BY <3>1, FS_CardinalityType
  <2> QED BY <2>2 DEF TaskFree, IInv, TypeOK
<1>3. TypeOK'
  BY <1>1, <1>2 DEF IInv, TypeOK
<1>4. NothingAboveLast'
  BY <1>1 DEF IInv, TypeOK, NothingAboveLast, Open
<1> QED BY <1>3, <1>4 DEF IInv

LEMMA StepPreserves == IInv /\ [Next]_vars => IInv'
<1> SUFFICES ASSUME IInv, [Next]_vars PROVE IInv'
  OBVIOUS
<1>1. CASE UNCHANGED vars
  BY <1>1 DEF vars, IInv, TypeOK, NothingAboveLast, Open
<1>2. CASE Next
  BY <1>2, OpenPreserves, OpenFailsPreserves, ClosePreserves, TransferPreserves,
     TaskFreePreserves DEF Next
<1> QED BY <1>1, <1>2

\* Types hold and nothing above fd_last is in use, for every number of tasks and
\* descriptors: the search of task_file_fd_next can start at fd_last.
THEOREM LastBoundsOpenFiles == Spec => []NothingAboveLast
<1>1. IInv => NothingAboveLast
  BY DEF IInv
<1> QED BY <1>1, Initially, StepPreserves, PTL DEF Spec

\* The slots, descriptors and counters of file.c stay in range.
THEOREM FileTableTypes == Spec => []TypeOK
<1>1. IInv => TypeOK
  BY DEF IInv
<1> QED BY <1>1, Initially, StepPreserves, PTL DEF Spec

\* sys_open, sys_read, sys_write and a failing sys_close leave every other open
\* file as it is.
LEMMA StepKeepsFiles ==
    ASSUME IInv, [Next]_vars, NEW u \in Tasks, NEW g \in Open(u)
    PROVE  \/ files'[u][g] = NULL
           \/ /\ files'[u][g].node = files[u][g].node
              /\ files'[u][g].offset >= files[u][g].offset
<1> USE FilesAssumption
<1>0. /\ g \in Fd /\ files[u][g] \in File
      /\ files \in [Tasks -> [Fd -> {NULL} \cup File]]
  BY SlotType DEF IInv, TypeOK, File, Open
<1>1. CASE files' = files
  BY <1>0, <1>1 DEF File
<1>2. ASSUME NEW t \in Tasks, NEW n \in Nodes, NEW w \in Walks,
             NEW alloc \in BOOLEAN, SysOpen(t, n, w, alloc), files' # files
      PROVE  files'[u][g] = files[u][g]
  <2>1. PICK fd \in Fd : /\ IsFdNext(t, fd)
                         /\ files' = [files EXCEPT ![t][fd] = [node |-> n, offset |-> 0]]
    BY <1>2 DEF SysOpen
  <2>2. files[t][fd] = NULL
    BY <2>1 DEF IsFdNext, Free, IsNull, Fd
  <2>3. ~(u = t /\ g = fd)
    BY <2>2 DEF Open
  <2> QED BY <1>0, <2>1, <2>3
<1>3. ASSUME NEW t \in Tasks, NEW fd \in 0 .. MAX, NEW refused \in BOOLEAN,
             SysClose(t, fd, refused), files' # files
      PROVE  files'[u][g] = NULL \/ files'[u][g] = files[u][g]
  <2>1. ~IsNull(t, fd) /\ files' = [files EXCEPT ![t][fd] = NULL]
    BY <1>3 DEF SysClose, Cleared
  <2>2. fd \in Fd
    BY <2>1, GoodFd
  <2> QED BY <1>0, <2>1, <2>2
<1>4. ASSUME NEW t \in Tasks, NEW fd \in 0 .. MAX,
             NEW got \in {EIO} \cup 0 .. MaxOffset, NEW write \in BOOLEAN,
             Transfer(t, fd, got, write), files' # files
      PROVE  /\ files'[u][g].node = files[u][g].node
             /\ files'[u][g].offset >= files[u][g].offset
  <2>1. fd \in Fd
    BY <1>4, TransferGrows
  <2>2. PICK off \in 0 .. MaxOffset :
            /\ off >= files[t][fd].offset
            /\ files' = [files EXCEPT ![t][fd] = [node |-> files[t][fd].node, offset |-> off]]
    BY <1>4, TransferGrows
  <2>3. CASE u = t /\ g = fd
    BY <1>0, <2>1, <2>2, <2>3
  <2>4. CASE ~(u = t /\ g = fd)
    <3>1. files'[u][g] = files[u][g]
      BY <1>0, <2>1, <2>2, <2>4
    <3> QED BY <3>1, <1>0 DEF File
  <2> QED BY <2>3, <2>4
<1>5. ASSUME NEW t \in Tasks, TaskFree(t)
      PROVE  files'[u][g] = NULL \/ files'[u][g] = files[u][g]
  BY <1>0, <1>5 DEF TaskFree
<1>6. files[u][g].offset \in Int
  BY <1>0 DEF File
<1>7. \A t \in Tasks, w \in Walks, kept \in {NoNode} \cup Directories :
          SysOpenFails(t, w, kept) => files' = files
  BY DEF SysOpenFails
<1> QED BY <1>1, <1>2, <1>3, <1>4, <1>5, <1>6, <1>7 DEF Next, vars

\* No call replaces an open file by another one or moves its offset back: an open
\* descriptor is never handed out again before it is closed.
THEOREM OpenFilesStay == Spec => FilesStay
<1>1. IInv /\ [Next]_vars =>
        [\A t \in Tasks : \A fd \in Open(t) :
           files'[t][fd] = NULL \/ ( /\ files'[t][fd].node = files[t][fd].node
                                     /\ files'[t][fd].offset >= files[t][fd].offset)]_vars
  BY StepKeepsFiles
<1> QED BY <1>1, Initially, StepPreserves, PTL DEF Spec, FilesStay

\* Only the search of sys_open that finds no slot returns EMFILE, and it always
\* looks at the last one: fd_last is never above it.
LEMMA StepEarnsEmfile ==
    ASSUME IInv, Next, ret' # ret, ret'.value = EMFILE
    PROVE  MAX - 1 \in Open(ret'.by)
<1> USE FilesAssumption
<1>1. PICK t \in Tasks :
          \/ \E n \in Nodes, w \in Walks, alloc \in BOOLEAN : SysOpen(t, n, w, alloc)
          \/ \E w \in Walks, kept \in {NoNode} \cup Directories : SysOpenFails(t, w, kept)
          \/ \E fd \in 0 .. MAX, refused \in BOOLEAN : SysClose(t, fd, refused)
          \/ \E fd \in 0 .. MAX, got \in {EIO} \cup 0 .. MaxOffset, write \in BOOLEAN :
                 Transfer(t, fd, got, write)
          \/ TaskFree(t)
  BY DEF Next
<1>2. ASSUME NEW n \in Nodes, NEW w \in Walks, NEW alloc \in BOOLEAN,
             SysOpen(t, n, w, alloc)
      PROVE  MAX - 1 \in Open(ret'.by)
  <2>1. ret'.by = t /\ \A fd \in Fd : ~Free(t, fd)
    <3>1. \A fd \in Fd : fd # EMFILE
      BY DEF Fd, EMFILE
    <3> QED BY <1>2, <3>1 DEF SysOpen, Returned, EMFILE, ENOMEM
  <2>2. MAX - 1 \in Fd /\ MAX - 1 >= fd_last[t]
    BY DEF IInv, TypeOK, Fd
  <2>3. ~IsNull(t, MAX - 1)
    BY <2>1, <2>2 DEF Free
  <2>4. files[t][MAX - 1] # NULL
    BY <2>2, <2>3 DEF IsNull
  <2> QED BY <2>1, <2>2, <2>4 DEF Open
<1>3. ASSUME NEW fd \in 0 .. MAX, NEW refused \in BOOLEAN, SysClose(t, fd, refused)
      PROVE  FALSE
  BY <1>3 DEF SysClose, Returned, EMFILE, EBADF, EINVAL
<1>6. ASSUME NEW w \in Walks, NEW kept \in {NoNode} \cup Directories,
             SysOpenFails(t, w, kept)
      PROVE  FALSE
  BY <1>6 DEF SysOpenFails, Returned, EMFILE, ENOENT
<1>4. ASSUME NEW fd \in 0 .. MAX, NEW got \in {EIO} \cup 0 .. MaxOffset,
             NEW write \in BOOLEAN, Transfer(t, fd, got, write)
      PROVE  FALSE
  BY <1>4 DEF Transfer, Returned, EMFILE, EBADF, EIO
<1>5. ASSUME TaskFree(t) PROVE FALSE
  BY <1>5 DEF TaskFree
<1> QED BY <1>1, <1>2, <1>3, <1>4, <1>5, <1>6

\* sys_open fails with EMFILE only while the last descriptor of its task is in use.
THEOREM EmfileIsEarned == Spec => EmfileMeansTopInUse
<1>1. IInv /\ [Next]_vars =>
        [ret' # ret /\ ret'.value = EMFILE => MAX - 1 \in Open(ret'.by)]_vars
  BY StepEarnsEmfile
<1> QED BY <1>1, Initially, StepPreserves, PTL DEF Spec, EmfileMeansTopInUse
-----------------------------------------------------------------------------
(* References to nodes.                                                    *)

\* the slots of a file table F whose file is of node n
Users(F, n) == {s \in Tasks \X Fd : F[s[1]][s[2]].node = n}

\* There are finitely many of them.
LEMMA UsersAreFinite ==
    ASSUME NEW F, NEW n
    PROVE  IsFiniteSet(Users(F, n)) /\ Cardinality(Users(F, n)) \in Nat
<1>1. IsFiniteSet(Fd)
  BY FS_Interval, FilesAssumption DEF Fd
<1>2. IsFiniteSet(Tasks \X Fd)
  BY <1>1, FS_Product, FilesAssumption
<1>3. Users(F, n) \in SUBSET (Tasks \X Fd)
  BY DEF Users
<1> QED BY <1>2, <1>3, FS_Subset, FS_CardinalityType

\* Only sys_open, sys_close and task_free change which slots use a node: nothing
\* is lost when the users stay and the references, miscounts included, do not shrink.
LEMMA SameUsers ==
    ASSUME OpenNodesAreReferenced, TypeOK, TypeOK',
           \A s \in Tasks \X Fd : files'[s[1]][s[2]].node = files[s[1]][s[2]].node,
           \A n \in Nodes : ref_count'[n] + miscounts'[n] >= ref_count[n] + miscounts[n]
    PROVE  OpenNodesAreReferenced'
<1> SUFFICES ASSUME NEW n \in Nodes
             PROVE  Cardinality(Users(files', n)) =< ref_count'[n] + miscounts'[n]
  BY DEF OpenNodesAreReferenced, Users
<1>1. Users(files', n) = Users(files, n)
  BY DEF Users
<1>2. Cardinality(Users(files, n)) =< ref_count[n] + miscounts[n]
  BY DEF OpenNodesAreReferenced, Users
<1>3. Cardinality(Users(files, n)) \in Nat
  BY UsersAreFinite
<1>4. /\ ref_count[n] + miscounts[n] \in Int /\ ref_count'[n] + miscounts'[n] \in Int
      /\ ref_count'[n] + miscounts'[n] >= ref_count[n] + miscounts[n]
  BY DEF TypeOK
<1>5. \A a, b, c \in Int : a =< b /\ c >= b => a =< c
  OBVIOUS
<1> QED BY <1>1, <1>2, <1>3, <1>4, <1>5

\* sys_open takes its reference with the slot, or gives it back.
LEMMA OpenKeepsReferences ==
    ASSUME IInv, OpenNodesAreReferenced, NEW t \in Tasks, NEW n \in Nodes, NEW w \in Walks,
           NEW alloc \in BOOLEAN, SysOpen(t, n, w, alloc)
    PROVE  OpenNodesAreReferenced'
<1> USE FilesAssumption
<1>1. /\ ref_count \in [Nodes -> Nat] /\ miscounts \in [Nodes -> Nat]
      /\ files \in [Tasks -> [Fd -> {NULL} \cup File]]
  BY DEF IInv, TypeOK, File
<1>2. TypeOK /\ TypeOK' /\ miscounts' = Miscounted(w)
  BY OpenPreserves DEF IInv, SysOpen
<1>3. CASE files' = files
  <2>1. ref_count' = Dropped(Found(n, w), n) \/ ref_count' = Found(n, w)
    BY DEF SysOpen
  <2>2. ASSUME NEW m \in Nodes
        PROVE  ref_count'[m] + miscounts'[m] >= ref_count[m] + miscounts[m]
    <3>1. CASE ref_count' = Dropped(Found(n, w), n)
      BY <1>2, <3>1, WalkCounts
    <3>2. CASE ref_count' = Found(n, w)
      <4>1. Found(n, w)[m] + Miscounted(w)[m] >=
                ref_count[m] + miscounts[m] + (IF m = n THEN 1 ELSE 0)
        BY <1>2, WalkCounts
      <4>2. ref_count'[m] \in Nat /\ miscounts'[m] \in Nat
        BY <1>2 DEF TypeOK
      <4> QED BY <1>1, <1>2, <3>2, <4>1, <4>2
    <3> QED BY <2>1, <3>1, <3>2
  <2> QED BY <1>2, <1>3, <2>2, SameUsers
<1>4. CASE files' # files
  <2>1. PICK fd \in Fd :
            /\ IsFdNext(t, fd)
            /\ files' = [files EXCEPT ![t][fd] = [node |-> n, offset |-> 0]]
            /\ ref_count' = Found(n, w)
    BY <1>4 DEF SysOpen
  <2>2. files[t][fd] = NULL /\ files[t][fd].node = NoNode
    BY <2>1 DEF IsFdNext, Free, IsNull, Fd, NULL
  <2>3. files'[t][fd].node = n
    BY <1>1, <2>1
  <2>4. ASSUME NEW u \in Tasks, NEW g \in Fd, <<u, g>> # <<t, fd>>
        PROVE  files'[u][g] = files[u][g]
    BY <1>1, <2>1, <2>4
  <2> SUFFICES ASSUME NEW m \in Nodes
               PROVE  Cardinality(Users(files', m)) =< ref_count'[m] + miscounts'[m]
    BY DEF OpenNodesAreReferenced, Users
  <2>5. /\ Cardinality(Users(files, m)) =< ref_count[m] + miscounts[m]
        /\ Cardinality(Users(files, m)) \in Nat /\ IsFiniteSet(Users(files, m))
    <3>1. Cardinality(Users(files, m)) =< ref_count[m] + miscounts[m]
      BY DEF OpenNodesAreReferenced, Users
    <3> QED BY <3>1, UsersAreFinite
  <2>6. /\ ref_count'[m] + miscounts'[m] >=
               ref_count[m] + miscounts[m] + (IF m = n THEN 1 ELSE 0)
        /\ ref_count'[m] + miscounts'[m] \in Nat /\ ref_count[m] + miscounts[m] \in Nat
    <3>1. Found(n, w)[m] + Miscounted(w)[m] >=
              ref_count[m] + miscounts[m] + (IF m = n THEN 1 ELSE 0)
      BY <1>2, WalkCounts
    <3> QED BY <1>2, <2>1, <3>1 DEF TypeOK
  <2>7. CASE m = n
    <3>1. Users(files', n) = Users(files, n) \cup {<<t, fd>>}
      BY <2>3, <2>4 DEF Users
    <3>2. <<t, fd>> \notin Users(files, n)
      BY <2>2 DEF Users
    <3>3. Cardinality(Users(files', n)) = Cardinality(Users(files, n)) + 1
      BY <2>5, <2>7, <3>1, <3>2, FS_AddElement
    <3> QED BY <2>5, <2>6, <2>7, <3>3
  <2>8. CASE m # n
    <3>1. Users(files', m) = Users(files, m)
      BY <2>2, <2>3, <2>4, <2>8 DEF Users
    <3> QED BY <2>5, <2>6, <2>8, <3>1
  <2> QED BY <2>7, <2>8
<1> QED BY <1>3, <1>4

\* A path that is not found takes no reference away that it does not count as miscounted.
LEMMA OpenFailsKeepsReferences ==
    ASSUME IInv, OpenNodesAreReferenced, NEW t \in Tasks, NEW w \in Walks,
           NEW kept \in {NoNode} \cup Directories, SysOpenFails(t, w, kept)
    PROVE  OpenNodesAreReferenced'
<1>1. TypeOK /\ TypeOK'
  BY OpenFailsPreserves DEF IInv
<1>2. \A m \in Nodes : ref_count'[m] + miscounts'[m] >= ref_count[m] + miscounts[m]
  <2>1. kept \in Nodes \cup {NoNode}
    BY FilesAssumption
  <2> QED BY <1>1, <2>1, WalkCounts DEF SysOpenFails
<1>3. files' = files
  BY DEF SysOpenFails
<1> QED BY <1>1, <1>2, <1>3, SameUsers

\* sys_close drops the reference of the slot it clears.
LEMMA CloseKeepsReferences ==
    ASSUME IInv, OpenNodesAreReferenced, NEW t \in Tasks, NEW fd \in 0 .. MAX,
           NEW refused \in BOOLEAN, SysClose(t, fd, refused)
    PROVE  OpenNodesAreReferenced'
<1> USE FilesAssumption
<1>1. /\ ref_count \in [Nodes -> Nat] /\ miscounts \in [Nodes -> Nat]
      /\ files \in [Tasks -> [Fd -> {NULL} \cup File]]
  BY DEF IInv, TypeOK, File
<1>2. TypeOK /\ TypeOK'
  BY ClosePreserves DEF IInv
<1>3. CASE files' = files
  <2>1. ASSUME NEW m \in Nodes
        PROVE  ref_count'[m] + miscounts'[m] >= ref_count[m] + miscounts[m]
    <3>1. CASE UNCHANGED <<ref_count, miscounts>>
      BY <1>1, <3>1
    <3>2. CASE \E n : ref_count' = Put(ref_count, n) /\ miscounts' = Get(miscounts, n)
      BY <1>1, <3>2 DEF Put, Get
    <3>3. CASE /\ ~IsNull(t, fd)
               /\ files' = [files EXCEPT ![t][fd] = NULL]
      <4>1. fd \in Fd /\ fd \in Open(t)
        BY <3>3, GoodFd
      <4>2. files[t][fd] = NULL
        BY <1>1, <1>3, <3>3, <4>1
      <4> QED BY <4>1, <4>2 DEF Open
    <3> QED BY <3>1, <3>2, <3>3 DEF SysClose, Cleared
  <2> QED BY <1>2, <1>3, <2>1, SameUsers
<1>4. CASE files' # files
  <2>1. /\ ~IsNull(t, fd)
        /\ ref_count' = Put(ref_count, files[t][fd].node)
        /\ files' = [files EXCEPT ![t][fd] = NULL]
        /\ miscounts' = miscounts
    BY <1>4 DEF SysClose, Cleared
  <2>2. fd \in Fd
    BY <2>1, GoodFd
  <2>3. PICK n \in Nodes : n = files[t][fd].node
    <3>1. files[t][fd] \in File
      BY <2>1, <2>2, SlotType DEF IInv
    <3> QED BY <3>1 DEF File
  <2>4. files'[t][fd].node = NoNode
    BY <1>1, <2>1, <2>2 DEF NULL
  <2>5. ASSUME NEW u \in Tasks, NEW g \in Fd, <<u, g>> # <<t, fd>>
        PROVE  files'[u][g] = files[u][g]
    BY <1>1, <2>1, <2>2, <2>5
  <2> SUFFICES ASSUME NEW m \in Nodes
               PROVE  Cardinality(Users(files', m)) =< ref_count'[m] + miscounts'[m]
    BY DEF OpenNodesAreReferenced, Users
  <2>6. /\ Cardinality(Users(files, m)) =< ref_count[m] + miscounts[m]
        /\ Cardinality(Users(files, m)) \in Nat /\ IsFiniteSet(Users(files, m))
    <3>1. Cardinality(Users(files, m)) =< ref_count[m] + miscounts[m]
      BY DEF OpenNodesAreReferenced, Users
    <3> QED BY <3>1, UsersAreFinite
  <2>7. CASE m = n
    <3>1. Users(files', n) = Users(files, n) \ {<<t, fd>>}
      <4>1. <<t, fd>> \notin Users(files', n)
        BY <2>4 DEF Users
      <4>2. ASSUME NEW u \in Tasks, NEW g \in Fd, <<u, g>> # <<t, fd>>
            PROVE  <<u, g>> \in Users(files', n) <=> <<u, g>> \in Users(files, n)
        BY <2>5, <4>2 DEF Users
      <4>3. \A s \in Users(files', n) \cup Users(files, n) :
               \E u \in Tasks, g \in Fd : s = <<u, g>>
        BY DEF Users
      <4> HIDE DEF Users
      <4> QED BY <4>1, <4>2, <4>3
    <3>2. <<t, fd>> \in Users(files, n)
      BY <2>2, <2>3 DEF Users
    <3>3. Cardinality(Users(files', n)) = Cardinality(Users(files, n)) - 1
      <4>1. PICK A : A = Users(files, n)
        OBVIOUS
      <4>2. IsFiniteSet(A) /\ <<t, fd>> \in A
        BY <2>6, <2>7, <3>2, <4>1
      <4>3. Cardinality(A \ {<<t, fd>>}) = Cardinality(A) - 1
        BY <4>2, FS_RemoveElement
      <4> QED BY <3>1, <4>1, <4>3
    <3>4. ref_count'[n] \in Nat /\ ref_count'[n] + 1 >= ref_count[n]
      BY <1>1, <2>1 DEF Put
    <3>5. miscounts'[n] = miscounts[n]
      BY <2>1
    <3> QED BY <1>1, <2>6, <2>7, <3>3, <3>4, <3>5
  <2>8. CASE m # n
    <3>1. Users(files', m) = Users(files, m)
      BY <2>2, <2>3, <2>4, <2>5, <2>8 DEF Users
    <3>2. ref_count'[m] = ref_count[m] /\ miscounts'[m] = miscounts[m]
      BY <1>1, <2>1, <2>3, <2>8 DEF Put
    <3> QED BY <2>6, <3>1, <3>2
  <2> QED BY <2>7, <2>8
<1> QED BY <1>3, <1>4

\* sys_read and sys_write change no node.
LEMMA TransferKeepsReferences ==
    ASSUME IInv, OpenNodesAreReferenced, NEW t \in Tasks, NEW fd \in 0 .. MAX,
           NEW got \in {EIO} \cup 0 .. MaxOffset, NEW write \in BOOLEAN,
           Transfer(t, fd, got, write)
    PROVE  OpenNodesAreReferenced'
<1>1. /\ ref_count \in [Nodes -> Nat] /\ miscounts \in [Nodes -> Nat]
      /\ files \in [Tasks -> [Fd -> {NULL} \cup File]]
  BY DEF IInv, TypeOK, File
<1>2. ref_count' = ref_count /\ miscounts' = miscounts /\ TypeOK /\ TypeOK'
  BY TransferPreserves DEF Transfer, IInv
<1>3. \A m \in Nodes : ref_count'[m] + miscounts'[m] >= ref_count[m] + miscounts[m]
  BY <1>1, <1>2
<1>4. ASSUME NEW u \in Tasks, NEW g \in Fd PROVE files'[u][g].node = files[u][g].node
  <2>1. CASE UNCHANGED <<files, fd_last, ref_count, miscounts>>
    BY <2>1
  <2>2. CASE ~UNCHANGED <<files, fd_last, ref_count, miscounts>>
    <3>1. fd \in Fd
      BY <2>2, TransferGrows
    <3>2. PICK off \in 0 .. MaxOffset :
              files' = [files EXCEPT ![t][fd] = [node |-> files[t][fd].node, offset |-> off]]
      BY <2>2, TransferGrows
    <3> QED BY <1>1, <3>1, <3>2
  <2> QED BY <2>1, <2>2
<1>5. \A s \in Tasks \X Fd : files'[s[1]][s[2]].node = files[s[1]][s[2]].node
  BY <1>4
<1> QED BY <1>2, <1>3, <1>5, SameUsers

\* task_free drops at most one reference for each slot it clears.
LEMMA TaskFreeKeepsReferences ==
    ASSUME IInv, OpenNodesAreReferenced, NEW t \in Tasks, TaskFree(t)
    PROVE  OpenNodesAreReferenced'
<1> USE FilesAssumption
<1>1. /\ ref_count \in [Nodes -> Nat] /\ miscounts \in [Nodes -> Nat]
      /\ files \in [Tasks -> [Fd -> {NULL} \cup File]]
  BY DEF IInv, TypeOK, File
<1> SUFFICES ASSUME NEW n \in Nodes
             PROVE  Cardinality(Users(files', n)) =< ref_count'[n] + miscounts'[n]
  BY DEF OpenNodesAreReferenced, Users
<1>3. PICK F : F = {fd \in Fd : files[t][fd].node = n}
  OBVIOUS
<1>4. IsFiniteSet(F)
  <2>1. IsFiniteSet(Fd)
    BY FS_Interval DEF Fd
  <2> QED BY <1>3, <2>1, FS_Subset
<1>5. Cardinality(F) \in Nat
  BY <1>4, FS_CardinalityType
\* the slots that task t had of the node
<1>6. PICK B : B = {t} \X F
  OBVIOUS
<1>7. IsFiniteSet(B) /\ Cardinality(B) = Cardinality(F)
  <2>1. IsFiniteSet({t}) /\ Cardinality({t}) = 1
    BY FS_Singleton
  <2>2. IsFiniteSet(B) /\ Cardinality(B) = Cardinality({t}) * Cardinality(F)
    BY <1>4, <1>6, <2>1, FS_Product
  <2> QED BY <1>5, <2>1, <2>2
<1>8. Users(files', n) = Users(files, n) \ B
  <2>1. \A u \in Tasks, g \in Fd :
           files'[u][g] = IF u = t THEN NULL ELSE files[u][g]
    BY <1>1 DEF TaskFree
  <2>2. NULL.node # n
    BY DEF NULL
  <2>3. ASSUME NEW u \in Tasks, NEW g \in Fd
        PROVE  <<u, g>> \in Users(files', n) <=> <<u, g>> \in Users(files, n) \ B
    <3>1. CASE u = t
      BY <1>3, <1>6, <2>1, <2>2, <3>1 DEF Users
    <3>2. CASE u # t
      BY <1>6, <2>1, <3>2 DEF Users
    <3> QED BY <3>1, <3>2
  <2>4. \A s \in Users(files', n) \cup Users(files, n) :
           \E u \in Tasks, g \in Fd : s = <<u, g>>
    BY DEF Users
  <2> QED BY <2>3, <2>4
<1>9. Users(files, n) \cap B = B
  BY <1>3, <1>6 DEF Users
<1>10. /\ Cardinality(Users(files, n)) =< ref_count[n] + miscounts[n]
       /\ Cardinality(Users(files, n)) \in Nat /\ IsFiniteSet(Users(files, n))
  <2>1. Cardinality(Users(files, n)) =< ref_count[n] + miscounts[n]
    BY DEF OpenNodesAreReferenced, Users
  <2> QED BY <2>1, UsersAreFinite
<1>11. Cardinality(Users(files', n)) = Cardinality(Users(files, n)) - Cardinality(B)
  BY <1>8, <1>9, <1>10, FS_Difference, ZenonT(30)
<1>12. /\ ref_count'[n] \in Nat /\ ref_count'[n] + Cardinality(F) >= ref_count[n]
       /\ miscounts'[n] = miscounts[n]
  BY <1>1, <1>3, <1>5 DEF TaskFree
<1> QED BY <1>1, <1>5, <1>7, <1>10, <1>11, <1>12

\* No open file loses its node to another file's close or a failed open: every node has
\* a reference for each slot of every task that refers to it, but for those that a
\* refused close dropped or a path through ".." did not take.
THEOREM NodesStayReferenced ==
    Spec => []OpenNodesAreReferenced
<1>1. Init => OpenNodesAreReferenced
  <2> SUFFICES ASSUME Init, NEW n \in Nodes PROVE Cardinality(Users(files, n)) =< ref_count[n] + miscounts[n]
    BY DEF OpenNodesAreReferenced, Users
  <2>1. \A u \in Tasks, g \in Fd : files[u][g].node = NoNode
    BY DEF Init, NULL
  <2>2. Users(files, n) = {}
    BY <2>1, FilesAssumption DEF Users
  <2>3. ref_count[n] = 0 /\ miscounts[n] = 0
    BY DEF Init
  <2> QED BY <2>2, <2>3, FS_EmptySet
<1>2. IInv /\ OpenNodesAreReferenced /\ [Next]_vars => OpenNodesAreReferenced'
  <2> SUFFICES ASSUME IInv, OpenNodesAreReferenced, [Next]_vars PROVE OpenNodesAreReferenced'
    OBVIOUS
  <2>1. CASE UNCHANGED vars
    BY <2>1 DEF vars, OpenNodesAreReferenced
  <2>2. CASE Next
    BY <2>2, OpenKeepsReferences, OpenFailsKeepsReferences, CloseKeepsReferences,
       TransferKeepsReferences, TaskFreeKeepsReferences DEF Next
  <2> QED BY <2>1, <2>2
<1> QED BY <1>1, <1>2, Initially, StepPreserves, PTL DEF Spec
=============================================================================
