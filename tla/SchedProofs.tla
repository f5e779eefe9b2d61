---------------------------- MODULE SchedProofs -----------------------------
(***************************************************************************)
(* Tasks, for any number of tasks, file slots and ticks: no task is lost,  *)
(* every death is reported, to init, and once, and what a task was doing   *)
(* when it was switched out it goes on with.                               *)
(***************************************************************************)
EXTENDS Sched, SequenceTheorems, TLAPS

-----------------------------------------------------------------------------
(* The inductive invariant.                                                *)

Places == [at : {"boot", "user", "fork", "wait", "exec", "print", "stale"}, arg : {0, 1}]

Entry == [pid : Nat, status : Nat, child : TaskId]

TaskRecord ==
    [state : {"FREE", "HOLD", "READY", "SAVE", "WAIT", "FORK"},
     ticks : 0 .. (TASK_PRIO_CR1TIKAL * Ticks - 1), prio : 0 .. TASK_PRIO_CR1TIKAL,
     pid : Nat, ppid : Nat, cpid : Nat, regs : Places, files : 0 .. FilesMax,
     waitq : Seq(Entry), waitq_tail : Nat]

Types ==
    /\ queue \in Seq(TaskId) /\ queue # <<>>
    /\ current \in TaskId
    /\ cpu \in Places
    /\ task \in [TaskId -> TaskRecord]
    /\ task[current].state \in {"READY", "HOLD"}
    /\ machine \in {"run", "panic"}
    /\ born \in TaskId
    /\ died \in [TaskId -> [code : Int, sig : Int, to : TaskId \cup {None}]]
    /\ collected \subseteq TaskId

\* tasks that exist have been created
QueueIsBorn == \A t \in ToSet(queue) : t =< born

\* main has PID 1; __sched_pid gives all others the same one
Families ==
    /\ task[Main].pid = 1
    /\ \A t \in ToSet(queue) : task[t].prio >= 1
    /\ \A t \in ToSet(queue) \ {Main} : task[t].pid = 2 /\ task[t].ppid \in {1, 2}

\* interrupts are on in the kernel only while main is alone
AtBoot(p) == p.at = "boot" \/ (p.at \in {"exec", "print"} /\ p.arg = 1)
BootIsAlone == \A t \in ToSet(queue) : AtBoot(Point(t)) => queue = <<Main>>

\* WaitersResumeInWait, after a panic too
WaitersWait ==
    \A t \in ToSet(queue) \ {current} :
        task[t].state = "WAIT" <=> task[t].regs.at \in {"wait", "print"}

\* the dead are gone, and init has been told
DeadAreGone ==
    /\ \A t \in TaskId : died[t] # Alive => died[t].to = Main /\ t # Main
    /\ \A t \in collected : t \notin ToSet(queue) /\ t =< born

\* what StatusIsTrue says of an entry of init's wait queue
IsTrue(w) ==
    /\ w.child \notin ToSet(queue) /\ w.child =< born
    /\ died[w.child].to = Main
    /\ w.status \div 256 = died[w.child].code
    /\ w.status % 256 = died[w.child].sig
    /\ w.child \notin collected

\* only init has a wait queue; its tail is the first entry
StatusesAreTrue ==
    /\ \A t \in TaskId \ {Main} : task[t].waitq = <<>>
    /\ \A t \in TaskId : task[t].waitq_tail = IF task[t].waitq = <<>> THEN 0 ELSE 1
    /\ \A i \in 1 .. Len(task[Main].waitq) : IsTrue(task[Main].waitq[i])
    /\ \A i, j \in 1 .. Len(task[Main].waitq) :
           i # j => task[Main].waitq[i].child # task[Main].waitq[j].child

\* sys_exec holds the scheduler until its message waits, so that nobody is switched
\* out of it before
ExecHolds ==
    /\ cpu.at = "exec" => task[current].state = "HOLD" /\ task[current].regs = At("user")
    /\ \A t \in TaskId : task[t].regs.at # "exec"

IInv ==
    /\ Types
    /\ QueueHoldsLiveTasks
    /\ QueueIsBorn
    /\ Families
    /\ BootIsAlone
    /\ WaitersWait
    /\ DeadAreGone
    /\ StatusesAreTrue
    /\ InitWaitIsFed
    /\ ExecHolds
-----------------------------------------------------------------------------
(* The task list.                                                          *)

\* The tasks of a list are those at its places.
LEMMA InList ==
    ASSUME NEW q \in Seq(TaskId), NEW t
    PROVE  t \in ToSet(q) <=> \E i \in 1 .. Len(q) : q[i] = t
BY DEF ToSet

\* The place after i, cyclically, is a place.
LEMMA NextPlace ==
    ASSUME NEW n \in Nat, n # 0, NEW i \in 0 .. n, NEW k \in 1 .. n
    PROVE  ((i + k - 1) % n) + 1 \in 1 .. n
<1>1. (i + k - 1) \in Nat
  OBVIOUS
<1>2. \A x \in Nat : x % n \in 0 .. (n - 1)
  OBVIOUS
<1> QED BY <1>1, <1>2

\* __sched_queue_next returns a task of the queue.
LEMMA NextIsInQueue ==
    ASSUME NEW q \in Seq(TaskId), q # <<>>, NEW T, NEW c \in ToSet(q),
           \A u \in ToSet(q) : T[u].state # "DEAD"
    PROVE  QueueNext(q, T, c) \in ToSet(q)
<1> DEFINE n == Len(q)
           i == IF c = None THEN 0 ELSE CHOOSE j \in DOMAIN q : q[j] = c
           after(k) == q[((i + k - 1) % n) + 1]
           ok(k) == /\ T[after(k)].state # "DEAD"
                    /\ \A m \in 1 .. (k - 1) : T[after(m)].state = "DEAD"
           steps == CHOOSE k \in 1 .. n : ok(k)
<1>1. n \in Nat /\ n # 0 /\ DOMAIN q = 1 .. n
  OBVIOUS
<1>2. i \in 0 .. n
  <2>1. CASE c = None
    BY <1>1, <2>1
  <2>2. CASE c # None
    <3>1. \E j \in DOMAIN q : q[j] = c
      BY DEF ToSet
    <3>2. (CHOOSE j \in DOMAIN q : q[j] = c) \in DOMAIN q
      BY <3>1
    <3> QED BY <1>1, <2>2, <3>2
  <2> QED BY <2>1, <2>2
<1> HIDE DEF i
<1>3. \A k \in 1 .. n : after(k) \in ToSet(q)
  BY <1>1, <1>2, NextPlace, InList
<1>4. 1 \in 1 .. n /\ ok(1)
  <2>1. 1 \in 1 .. n
    BY <1>1
  <2> QED BY <1>3, <2>1
<1>5. steps \in 1 .. n
  <2> HIDE DEF ok
  <2> QED BY <1>4
<1>6. after(steps) \in ToSet(q)
  <2> HIDE DEF steps, after
  <2> QED BY <1>3, <1>5
<1>7. QueueNext(q, T, c) = after(steps)
  BY DEF QueueNext, i
<1> QED BY <1>6, <1>7

\* After a death __sched_queue_next starts with the first task, which lives.
LEMMA NextIsFirst ==
    ASSUME NEW q \in Seq(TaskId), q # <<>>, NEW T, T[q[1]].state # "DEAD"
    PROVE  QueueNext(q, T, None) = q[1]
<1> DEFINE n == Len(q)
           after(k) == q[((0 + k - 1) % n) + 1]
           ok(k) == /\ T[after(k)].state # "DEAD"
                    /\ \A m \in 1 .. (k - 1) : T[after(m)].state = "DEAD"
           steps == CHOOSE k \in 1 .. n : ok(k)
<1>1. n \in Nat /\ n # 0
  OBVIOUS
<1>2. after(1) = q[1]
  <2>1. 0 % n = 0
    BY <1>1
  <2> QED BY <2>1
<1>3. ok(1) /\ 1 \in 1 .. n
  BY <1>1, <1>2
<1>4. ASSUME NEW k \in 1 .. n, ok(k) PROVE k = 1
  <2> SUFFICES ASSUME k # 1 PROVE FALSE
    OBVIOUS
  <2>1. 1 \in 1 .. (k - 1)
    BY <1>1
  <2>2. T[after(1)].state = "DEAD"
    BY <1>4, <2>1
  <2> QED BY <1>2, <2>2
<1>5. steps = 1
  <2> HIDE DEF ok
  <2> QED BY <1>3, <1>4
<1>6. QueueNext(q, T, None) = after(steps)
  BY DEF QueueNext
<1> QED BY <1>2, <1>5, <1>6

\* What follows place i of a list.
LEMMA AfterPlace ==
    ASSUME NEW S, NEW q \in Seq(S), NEW i \in 1 .. Len(q)
    PROVE  /\ SubSeq(q, i + 1, Len(q)) \in Seq(S)
           /\ Len(SubSeq(q, i + 1, Len(q))) = Len(q) - i
           /\ \A k \in 1 .. (Len(q) - i) : SubSeq(q, i + 1, Len(q))[k] = q[i + k]
<1>1. PICK n : n = Len(q)
  OBVIOUS
<1>2. PICK m : m = i + 1
  OBVIOUS
<1>3. n \in Nat /\ i \in 1 .. n
  BY <1>1
<1>4. m \in Int /\ n \in Int
  BY <1>2, <1>3
<1>5. \A k \in m .. n : q[k] \in S
  BY <1>1, <1>2, <1>3
<1>6. /\ SubSeq(q, m, n) \in Seq(S)
      /\ Len(SubSeq(q, m, n)) = IF m <= n THEN n - m + 1 ELSE 0
      /\ \A k \in 1 .. n - m + 1 : SubSeq(q, m, n)[k] = q[m + k - 1]
  <2>1. SubSeq(q, m, n) \in Seq(S)
    BY <1>4, <1>5, SubSeqProperties
  <2>2. CASE m <= n
    <3>1. Len(SubSeq(q, m, n)) = n - m + 1
      BY <1>4, <1>5, <2>2, SubSeqProperties
    <3>2. \A k \in 1 .. n - m + 1 : SubSeq(q, m, n)[k] = q[m + k - 1]
      BY <1>4, <1>5, <2>2, SubSeqProperties
    <3> QED BY <2>1, <2>2, <3>1, <3>2
  <2>3. CASE ~(m <= n)
    <3>1. Len(SubSeq(q, m, n)) = 0
      BY <1>4, <1>5, <2>3, SubSeqProperties
    <3>2. \A k \in 1 .. n - m + 1 : SubSeq(q, m, n)[k] = q[m + k - 1]
      BY <1>4, <2>3
    <3> QED BY <2>1, <2>3, <3>1, <3>2
  <2> QED BY <2>2, <2>3
<1>7. PICK b : b = SubSeq(q, m, n)
  OBVIOUS
<1>8. (IF m <= n THEN n - m + 1 ELSE 0) = n - i /\ n - m + 1 = n - i
  BY <1>2, <1>3
<1>9. Len(b) = n - i
  BY <1>6, <1>7, <1>8, Zenon
<1>10. ASSUME NEW k \in 1 .. (n - i) PROVE b[k] = q[i + k]
  <2>1. m + k - 1 = i + k
    BY <1>2, <1>3
  <2> QED BY <1>6, <1>7, <1>8, <2>1, Zenon
<1> QED BY <1>1, <1>2, <1>6, <1>7, <1>9, <1>10

\* __sched_queue_del takes out one task.
LEMMA UnlinkResult ==
    ASSUME NEW q \in Seq(TaskId), IsInjective(q), NEW t \in ToSet(q), t # q[1]
    PROVE  /\ Unlink(q, t) \in Seq(TaskId) /\ Unlink(q, t) # <<>>
           /\ Unlink(q, t)[1] = q[1]
           /\ IsInjective(Unlink(q, t))
           /\ ToSet(Unlink(q, t)) = ToSet(q) \ {t}
<1> DEFINE n == Len(q)
<1>1. n \in Nat /\ DOMAIN q = 1 .. n
  OBVIOUS
<1>2. PICK i : i = CHOOSE j \in DOMAIN q : q[j] = t
  OBVIOUS
<1>3. i \in 1 .. n /\ q[i] = t
  <2>1. \E j \in DOMAIN q : q[j] = t
    BY DEF ToSet
  <2> QED BY <1>1, <1>2, <2>1
<1>4. i # 1 /\ i >= 2
  BY <1>1, <1>3
<1>5. PICK a : a = SubSeq(q, 1, i - 1)
  OBVIOUS
<1>6. PICK b : b = SubSeq(q, i + 1, n)
  OBVIOUS
<1>7. /\ a \in Seq(TaskId) /\ Len(a) = i - 1
      /\ \A k \in 1 .. (i - 1) : a[k] = q[k]
  BY <1>1, <1>3, <1>5
<1>8. /\ b \in Seq(TaskId) /\ Len(b) = n - i
      /\ \A k \in 1 .. (n - i) : b[k] = q[i + k]
  BY <1>3, <1>6, AfterPlace
<1>9. PICK u : u = a \o b
  OBVIOUS
<1>10. u \in Seq(TaskId) /\ Len(u) = Len(a) + Len(b)
  BY <1>7, <1>8, <1>9, ConcatProperties, ZenonT(40)
<1>11. \A k \in 1 .. Len(a) + Len(b) : u[k] = IF k <= Len(a) THEN a[k] ELSE b[k - Len(a)]
  BY <1>7, <1>8, <1>9, ConcatProperties, ZenonT(40)
<1>12. Len(u) = n - 1 /\ DOMAIN u = 1 .. (n - 1)
  BY <1>1, <1>3, <1>7, <1>8, <1>10
<1>13. \A k \in 1 .. (n - 1) : u[k] = IF k < i THEN q[k] ELSE q[k + 1]
  <2> SUFFICES ASSUME NEW k \in 1 .. (n - 1) PROVE u[k] = IF k < i THEN q[k] ELSE q[k + 1]
    OBVIOUS
  <2>1. u[k] = IF k <= i - 1 THEN a[k] ELSE b[k - (i - 1)]
    BY <1>1, <1>3, <1>7, <1>8, <1>11
  <2>2. CASE k < i
    BY <1>1, <1>3, <1>7, <2>1, <2>2
  <2>3. CASE ~(k < i)
    <3>1. k - (i - 1) \in 1 .. (n - i) /\ i + (k - (i - 1)) = k + 1
      BY <1>1, <1>3, <2>3
    <3>2. b[k - (i - 1)] = q[k + 1]
      BY <1>8, <3>1
    <3> QED BY <1>1, <1>3, <2>1, <2>3, <3>2
  <2> QED BY <2>2, <2>3
<1>14. u = Unlink(q, t)
  BY <1>2, <1>5, <1>6, <1>9 DEF Unlink, RemoveAt
<1>15. u # <<>> /\ u[1] = q[1]
  BY <1>1, <1>3, <1>4, <1>10, <1>12, <1>13
<1>16. IsInjective(u)
  <2> SUFFICES ASSUME NEW x \in 1 .. (n - 1), NEW y \in 1 .. (n - 1), u[x] = u[y]
               PROVE  x = y
    BY <1>12 DEF IsInjective
  <2>1. PICK x1 \in 1 .. n : x1 = IF x < i THEN x ELSE x + 1
    BY <1>1
  <2>2. PICK y1 \in 1 .. n : y1 = IF y < i THEN y ELSE y + 1
    BY <1>1
  <2>3. u[x] = q[x1] /\ u[y] = q[y1]
    BY <1>13, <2>1, <2>2
  <2>4. x1 = y1
    BY <1>1, <2>3 DEF IsInjective
  <2> QED BY <1>3, <2>1, <2>2, <2>4
<1>17. ASSUME NEW x PROVE x \in ToSet(u) <=> x \in ToSet(q) \ {t}
  <2>1. ASSUME x \in ToSet(u) PROVE x \in ToSet(q) \ {t}
    <3>1. PICK k \in 1 .. (n - 1) : u[k] = x
      BY <1>10, <1>12, <2>1, InList
    <3>2. PICK k1 \in 1 .. n : k1 = (IF k < i THEN k ELSE k + 1) /\ k1 # i
      BY <1>1, <1>3
    <3>3. x = q[k1]
      BY <1>13, <3>1, <3>2
    <3>4. q[k1] # q[i]
      BY <1>1, <1>3, <3>2 DEF IsInjective
    <3> QED BY <1>3, <3>3, <3>4, InList
  <2>2. ASSUME x \in ToSet(q), x # t PROVE x \in ToSet(u)
    <3>1. PICK k \in 1 .. n : q[k] = x
      BY <2>2, InList
    <3>2. k # i
      BY <1>3, <2>2, <3>1
    <3>3. PICK k1 \in 1 .. (n - 1) : k1 = IF k < i THEN k ELSE k - 1
      BY <1>1, <1>3, <3>2
    <3>4. u[k1] = q[k]
      <4>1. CASE k < i
        BY <1>13, <3>3, <4>1
      <4>2. CASE k > i
        <5>1. k1 = k - 1 /\ ~(k1 < i) /\ k1 + 1 = k
          BY <1>1, <1>3, <3>3, <4>2
        <5> QED BY <1>13, <5>1
      <4> QED BY <1>3, <3>2, <4>1, <4>2
    <3> QED BY <1>10, <1>12, <3>1, <3>4, InList
  <2> QED BY <2>1, <2>2
<1> QED
  BY <1>10, <1>14, <1>15, <1>16, <1>17

\* __sched_queue_add puts a task after the first one.
LEMMA QueueAddResult ==
    ASSUME NEW q \in Seq(TaskId), q # <<>>, IsInjective(q), NEW T, NEW t \in TaskId,
           t \notin ToSet(q), T[t].prio =< T[q[1]].prio
    PROVE  /\ QueueAdd(q, T, t) \in Seq(TaskId) /\ QueueAdd(q, T, t) # <<>>
           /\ QueueAdd(q, T, t)[1] = q[1]
           /\ IsInjective(QueueAdd(q, T, t))
           /\ ToSet(QueueAdd(q, T, t)) = ToSet(q) \cup {t}
<1> DEFINE n == Len(q)
<1>1. n \in Nat /\ n # 0 /\ DOMAIN q = 1 .. n /\ q[1] \in TaskId
  OBVIOUS
<1>2. PICK a : a = <<q[1], t>>
  OBVIOUS
<1>3. a \in Seq(TaskId) /\ Len(a) = 2 /\ a[1] = q[1] /\ a[2] = t
  BY <1>1, <1>2
<1>4. PICK b : b = Tail(q)
  OBVIOUS
<1>5. b \in Seq(TaskId) /\ Len(b) = n - 1 /\ \A k \in 1 .. (n - 1) : b[k] = q[k + 1]
  BY <1>1, <1>4
<1>6. PICK u : u = a \o b
  OBVIOUS
<1>7. u \in Seq(TaskId) /\ Len(u) = Len(a) + Len(b)
  BY <1>3, <1>5, <1>6, ConcatProperties, ZenonT(40)
<1>8. \A k \in 1 .. Len(a) + Len(b) : u[k] = IF k <= Len(a) THEN a[k] ELSE b[k - Len(a)]
  BY <1>3, <1>5, <1>6, ConcatProperties, ZenonT(40)
<1>9. Len(u) = n + 1 /\ DOMAIN u = 1 .. (n + 1)
  BY <1>1, <1>3, <1>5, <1>7
<1>10. u[1] = q[1] /\ u[2] = t /\ \A k \in 3 .. (n + 1) : u[k] = q[k - 1]
  <2>1. u[1] = a[1] /\ u[2] = a[2]
    <3>1. 1 \in 1 .. Len(a) + Len(b) /\ 2 \in 1 .. Len(a) + Len(b) /\ 1 <= Len(a) /\ 2 <= Len(a)
      BY <1>1, <1>3, <1>5
    <3>2. u[1] = a[1]
      BY <1>8, <3>1
    <3>3. u[2] = a[2]
      BY <1>8, <3>1
    <3> QED BY <3>2, <3>3
  <2>2. ASSUME NEW k \in 3 .. (n + 1) PROVE u[k] = q[k - 1]
    <3>1. u[k] = b[k - 2]
      BY <1>1, <1>3, <1>5, <1>8
    <3>2. k - 2 \in 1 .. (n - 1) /\ (k - 2) + 1 = k - 1
      BY <1>1
    <3>3. b[k - 2] = q[(k - 2) + 1]
      BY <1>5, <3>2
    <3> QED BY <3>1, <3>2, <3>3
  <2> QED BY <1>3, <2>1, <2>2
<1>11. u = QueueAdd(q, T, t)
  BY <1>2, <1>4, <1>6 DEF QueueAdd
<1>12. u # <<>>
  BY <1>1, <1>7, <1>9
\* the place in q of what is at place k of u
<1> DEFINE from(k) == IF k = 1 THEN 1 ELSE k - 1
<1>13. \A k \in 1 .. (n + 1) : k # 2 => from(k) \in 1 .. n /\ u[k] = q[from(k)]
  BY <1>1, <1>10
<1>14. IsInjective(u)
  <2> SUFFICES ASSUME NEW x \in 1 .. (n + 1), NEW y \in 1 .. (n + 1), u[x] = u[y]
               PROVE  x = y
    BY <1>9 DEF IsInjective
  <2>1. CASE x = 2 /\ y # 2
    BY <1>10, <1>13, <2>1, InList
  <2>2. CASE x # 2 /\ y = 2
    BY <1>10, <1>13, <2>2, InList
  <2>3. CASE x # 2 /\ y # 2
    <3>1. from(x) = from(y)
      BY <1>1, <1>13, <2>3 DEF IsInjective
    <3> QED BY <1>1, <2>3, <3>1
  <2> QED BY <2>1, <2>2, <2>3
<1>15. ASSUME NEW x PROVE x \in ToSet(u) <=> x \in ToSet(q) \cup {t}
  <2>1. ASSUME x \in ToSet(u) PROVE x \in ToSet(q) \cup {t}
    <3>1. PICK k \in 1 .. (n + 1) : u[k] = x
      BY <1>7, <1>9, <2>1, InList
    <3> QED BY <1>10, <1>13, <3>1, InList
  <2>2. t \in ToSet(u)
    <3>1. 2 \in 1 .. Len(u)
      BY <1>1, <1>9
    <3> QED BY <1>7, <1>10, <3>1, InList
  <2>3. ASSUME x \in ToSet(q) PROVE x \in ToSet(u)
    <3>1. PICK k \in 1 .. n : q[k] = x
      BY <2>3, InList
    <3>2. PICK j \in 1 .. (n + 1) : j = IF k = 1 THEN 1 ELSE k + 1
      BY <1>1
    <3>3. j # 2 /\ from(j) = k
      BY <1>1, <3>2
    <3>4. u[j] = x
      BY <1>13, <3>1, <3>3
    <3> QED BY <1>7, <1>9, <3>4, InList
  <2> QED BY <2>1, <2>2, <2>3
<1> QED
  BY <1>7, <1>10, <1>11, <1>12, <1>14, <1>15
-----------------------------------------------------------------------------
(* The interrupt handler.                                                  *)

\* what the second half of the handler leaves alone in a task
Kept(r, s) ==
    /\ s.prio = r.prio /\ s.pid = r.pid /\ s.ppid = r.ppid
    /\ s.regs = r.regs /\ s.files = r.files
    /\ s.waitq = r.waitq /\ s.waitq_tail = r.waitq_tail

\* task_ticks_reset stays in the range of the tick counter.
LEMMA FullTicks ==
    ASSUME NEW k \in 1 .. TASK_PRIO_CR1TIKAL
    PROVE  k * Ticks - 1 \in 0 .. (TASK_PRIO_CR1TIKAL * Ticks - 1)
<1>1. Ticks \in Nat /\ Ticks >= 1
  BY SchedAssumption
<1>2. k = 1 \/ k = 2 \/ k = 3
  BY DEF TASK_PRIO_CR1TIKAL
<1>3. 1 * Ticks = Ticks /\ 2 * Ticks = Ticks + Ticks /\ 3 * Ticks = Ticks + Ticks + Ticks
  BY <1>1
<1> QED BY <1>1, <1>2, <1>3 DEF TASK_PRIO_CR1TIKAL

\* Loading a task sets its ticks and its state.
LEMMA LoadResult ==
    ASSUME NEW T \in [TaskId -> TaskRecord], NEW n \in TaskId, T[n].prio >= 1
    PROVE  /\ Load(T, n) \in [TaskId -> TaskRecord]
           /\ \A t \in TaskId : /\ Kept(T[t], Load(T, n)[t])
                                /\ Load(T, n)[t].state = IF t = n THEN "READY" ELSE T[t].state
<1>1. T[n] \in TaskRecord
  OBVIOUS
<1>2. T[n].prio \in 1 .. TASK_PRIO_CR1TIKAL
  BY <1>1 DEF TaskRecord, TASK_PRIO_CR1TIKAL
<1>3. PICK k \in 0 .. (TASK_PRIO_CR1TIKAL * Ticks - 1) : k = T[n].prio * Ticks - 1
  BY <1>2, FullTicks
<1>4. PICK r : r = [T[n] EXCEPT !.ticks = k, !.state = "READY"]
  OBVIOUS
<1>5. r \in TaskRecord /\ r.state = "READY" /\ Kept(T[n], r)
  BY <1>1, <1>3, <1>4 DEF TaskRecord, Kept
<1>6. Load(T, n) = [T EXCEPT ![n] = r]
  BY <1>3, <1>4 DEF Load
<1>7. \A t \in TaskId : Load(T, n)[t] = IF t = n THEN r ELSE T[t]
  BY <1>6
<1>8. \A t \in TaskId : Kept(T[t], T[t])
  BY DEF Kept
<1> QED BY <1>5, <1>6, <1>7, <1>8

\* The second half of the handler runs some task of the queue from its saved
\* registers and changes nothing else but ticks and the state of that task.
LEMMA ScheduleStep ==
    ASSUME NEW q \in Seq(TaskId), q # <<>>, current \in ToSet(q),
           NEW T \in [TaskId -> TaskRecord], NEW p \in Places, T[current].regs = p,
           \A t \in ToSet(q) : T[t].prio >= 1,
           Schedule(q, T, p)
    PROVE  /\ current' \in ToSet(q)
           /\ cpu' \in Places
           /\ cpu' = T[current'].regs
           /\ task' \in [TaskId -> TaskRecord]
           /\ \A t \in TaskId :
                  /\ Kept(T[t], task'[t])
                  /\ task'[t].state = IF t = current' THEN "READY" ELSE T[t].state
<1>1. \A t \in ToSet(q) : t \in TaskId
  BY InList
<1>2. CASE T[current].ticks =< 0
  <2>1. PICK n : n = QueueNext(q, T, current)
    OBVIOUS
  <2>2. \A u \in ToSet(q) : T[u].state # "DEAD"
    BY <1>1 DEF TaskRecord
  <2>3. n \in ToSet(q)
    BY <2>1, <2>2, NextIsInQueue
  <2>4. current' = n /\ cpu' = T[n].regs /\ task' = Load(T, n)
    BY <1>2, <2>1 DEF Schedule
  <2>5. T[n] \in TaskRecord /\ T[n].prio >= 1
    BY <1>1, <2>3
  <2>6. T[n].regs \in Places
    BY <2>5 DEF TaskRecord
  <2> QED BY <1>1, <2>3, <2>4, <2>5, <2>6, LoadResult
<1>3. CASE ~(T[current].ticks =< 0)
  <2>1. current' = current /\ cpu' = p
    BY <1>3 DEF Schedule
  <2>2. task' = [T EXCEPT ![current].ticks = @ - 1, ![current].state = "READY"]
    BY <1>3 DEF Schedule
  <2>3. current \in TaskId /\ T[current] \in TaskRecord
    BY <1>1
  <2>4. Ticks \in Nat
    BY SchedAssumption
  <2>5. PICK m \in Nat : m = TASK_PRIO_CR1TIKAL * Ticks
    BY <2>4 DEF TASK_PRIO_CR1TIKAL
  <2>6. T[current].ticks \in 0 .. (m - 1)
    BY <2>3, <2>5 DEF TaskRecord
  <2>7. PICK k \in 0 .. (m - 1) : k = T[current].ticks - 1
    BY <1>3, <2>6
  <2>8. PICK r : r = [T[current] EXCEPT !.ticks = k, !.state = "READY"]
    OBVIOUS
  <2>9. r \in TaskRecord /\ r.state = "READY" /\ Kept(T[current], r)
    BY <2>3, <2>5, <2>7, <2>8 DEF TaskRecord, Kept
  <2>10. task' = [T EXCEPT ![current] = r]
    BY <2>2, <2>3, <2>7, <2>8
  <2>11. \A t \in TaskId : task'[t] = IF t = current THEN r ELSE T[t]
    BY <2>10
  <2>12. \A t \in TaskId : Kept(T[t], T[t])
    BY DEF Kept
  <2> QED BY <2>1, <2>3, <2>9, <2>10, <2>11, <2>12
<1> QED BY <1>2, <1>3

\* StatusesAreTrue of the next state, by init's next wait queue.
LEMMA NextStatuses ==
    ASSUME NEW CONSTANT v, task'[Main].waitq = v,
           \A i \in 1 .. Len(v) : IsTrue(v[i])',
           \A i, j \in 1 .. Len(v) : i # j => v[i].child # v[j].child,
           \A t \in TaskId \ {Main} : task'[t].waitq = <<>>,
           \A t \in TaskId : task'[t].waitq_tail = IF task'[t].waitq = <<>> THEN 0 ELSE 1
    PROVE  StatusesAreTrue'
BY DEF StatusesAreTrue, IsTrue

\* The statuses stay true when wait queues, the list and the dead stay as they are.
LEMMA StatusesStay ==
    ASSUME StatusesAreTrue, queue' = queue, born' = born, died' = died,
           collected' = collected,
           \A t \in TaskId : /\ task'[t].waitq = task[t].waitq
                             /\ task'[t].waitq_tail = task[t].waitq_tail
    PROVE  StatusesAreTrue'
<1>1. PICK v : v = task[Main].waitq
  OBVIOUS
<1>2. task'[Main].waitq = v
  BY <1>1, SchedAssumption DEF Main, TaskId
<1>3. ASSUME NEW i \in 1 .. Len(v) PROVE IsTrue(v[i])'
  <2>1. IsTrue(v[i])
    BY <1>1 DEF StatusesAreTrue
  <2> QED BY <2>1 DEF IsTrue
<1>4. \A i, j \in 1 .. Len(v) : i # j => v[i].child # v[j].child
  BY <1>1 DEF StatusesAreTrue
<1>5. /\ \A t \in TaskId \ {Main} : task'[t].waitq = <<>>
      /\ \A t \in TaskId : task'[t].waitq_tail = IF task'[t].waitq = <<>> THEN 0 ELSE 1
  BY DEF StatusesAreTrue
<1> QED BY <1>2, <1>3, <1>4, <1>5, NextStatuses

\* A task that comes to the handler in a legal state leaves a legal state,
\* whoever runs next.
LEMMA YieldStep ==
    ASSUME IInv, machine = "run", cpu.at # "stale",
           NEW T \in [TaskId -> TaskRecord], NEW p \in Places, T[current].regs = p,
           \A t \in TaskId \ {current} : T[t] = task[t],
           T[current].pid = task[current].pid, T[current].ppid = task[current].ppid,
           T[current].waitq = task[current].waitq,
           T[current].waitq_tail = task[current].waitq_tail,
           T[current].prio >= 1, T[current].state # "FREE",
           queue # <<Main>> => (T[current].state = "WAIT" <=> p.at \in {"wait", "print"}),
           AtBoot(p) => queue = <<Main>>, p.at # "exec",
           p.at = "wait" /\ current = Main => task[Main].waitq # <<>> \/ HasChild(Main),
           Schedule(queue, T, p), UNCHANGED <<queue, machine, born, history>>
    PROVE  IInv'
<1> USE DEF IInv
<1>1. /\ queue \in Seq(TaskId) /\ queue # <<>> /\ current \in TaskId
      /\ task \in [TaskId -> TaskRecord]
  BY DEF Types
<1>2. /\ queue' = queue /\ machine' = machine /\ born' = born
      /\ died' = died /\ collected' = collected
  BY DEF history
<1>3. current \in ToSet(queue)
  BY DEF QueueHoldsLiveTasks, InQueue
<1>4. \A t \in ToSet(queue) : t \in TaskId
  BY <1>1, InList
<1>5. \A t \in ToSet(queue) : T[t].prio >= 1
  BY <1>4 DEF Families
<1>6. /\ current' \in ToSet(queue)
      /\ cpu' \in Places
      /\ cpu' = T[current'].regs
      /\ task' \in [TaskId -> TaskRecord]
      /\ \A t \in TaskId :
             /\ Kept(T[t], task'[t])
             /\ task'[t].state = IF t = current' THEN "READY" ELSE T[t].state
  BY <1>1, <1>3, <1>5, ScheduleStep
<1>7. \A t \in TaskId :
         /\ task'[t].pid = task[t].pid /\ task'[t].ppid = task[t].ppid
         /\ task'[t].waitq = task[t].waitq /\ task'[t].waitq_tail = task[t].waitq_tail
  BY <1>6 DEF Kept
<1>8. \A t \in TaskId : task'[t].prio = T[t].prio /\ task'[t].regs = T[t].regs
  BY <1>6 DEF Kept
<1>9. \A t \in TaskId : Point(t)' = T[t].regs
  BY <1>6, <1>8 DEF Point
<1>10. \A t \in TaskId \ {current} : T[t].regs = Point(t)
  BY DEF Point
<1>11. Types'
  <2>1. current' \in TaskId /\ task'[current'].state = "READY"
    BY <1>4, <1>6
  <2> QED BY <1>2, <1>6, <2>1 DEF Types
<1>12. QueueHoldsLiveTasks'
  <2>1. \A t \in TaskId : t \in ToSet(queue) <=> T[t].state # "FREE"
    BY <1>3 DEF QueueHoldsLiveTasks, InQueue
  <2>2. \A t \in TaskId : t \in ToSet(queue) <=> task'[t].state # "FREE"
    BY <1>6, <2>1
  <2> QED BY <1>2, <1>6, <2>2 DEF QueueHoldsLiveTasks, InQueue
<1>13. QueueIsBorn'
  BY <1>2 DEF QueueIsBorn
<1>14. Families'
  <2>1. Main \in TaskId
    BY SchedAssumption DEF Main, TaskId
  <2> QED BY <1>2, <1>4, <1>5, <1>7, <1>8, <2>1 DEF Families
<1>15. BootIsAlone'
  <2> SUFFICES ASSUME NEW t \in ToSet(queue), AtBoot(T[t].regs) PROVE queue = <<Main>>
    BY <1>2, <1>4, <1>9 DEF BootIsAlone, AtBoot
  <2>1. CASE t = current
    BY <2>1
  <2>2. CASE t # current
    BY <1>4, <1>10, <2>2 DEF BootIsAlone
  <2> QED BY <2>1, <2>2
<1>16. WaitersWait'
  <2> SUFFICES ASSUME NEW t \in ToSet(queue), t # current'
               PROVE  T[t].state = "WAIT" <=> T[t].regs.at \in {"wait", "print"}
    BY <1>2, <1>4, <1>6, <1>8 DEF WaitersWait
  <2>1. CASE t = current
    <3>1. queue # <<Main>>
      <4>1. ToSet(<<Main>>) = {Main}
        BY DEF ToSet
      <4> QED BY <1>6, <4>1
    <3> QED BY <2>1, <3>1
  <2>2. CASE t # current
    BY <1>4, <2>2 DEF WaitersWait
  <2> QED BY <2>1, <2>2
<1>17. DeadAreGone'
  BY <1>2 DEF DeadAreGone
<1>18. StatusesAreTrue'
  BY <1>2, <1>7, StatusesStay
<1>19. InitWaitIsFed'
  <2> SUFFICES ASSUME Waiting(Main)'
               PROVE  task'[Main].waitq # <<>> \/ \E t \in ToSet(queue) : task'[t].ppid = 1
    BY <1>2 DEF InitWaitIsFed
  <2>1. Main \in TaskId /\ T[Main].regs.at = "wait" /\ Main \in ToSet(queue)
    <3>1. Main \in TaskId
      BY SchedAssumption DEF Main, TaskId
    <3> QED BY <1>2, <1>9, <3>1 DEF Waiting, InQueue
  <2>2. task[Main].waitq # <<>> \/ \E t \in ToSet(queue) : task[t].ppid = 1
    <3>1. CASE Main = current
      <4>1. task[Main].waitq # <<>> \/ HasChild(Main)
        BY <2>1, <3>1
      <4> QED BY <3>1, <4>1 DEF HasChild, Families
    <3>2. CASE Main # current
      <4>1. Point(Main).at = "wait"
        BY <1>10, <2>1, <3>2
      <4>2. Waiting(Main)
        BY <2>1, <4>1 DEF Waiting, Stopped, InQueue
      <4> QED BY <4>2 DEF InitWaitIsFed
    <3> QED BY <3>1, <3>2
  <2> QED BY <1>4, <1>7, <2>1, <2>2
<1>20. ExecHolds'
  <2> SUFFICES cpu'.at # "exec" /\ \A t \in TaskId : task'[t].regs.at # "exec"
    BY DEF ExecHolds
  <2>1. \A t \in TaskId : T[t].regs.at # "exec"
    BY DEF ExecHolds
  <2> QED BY <1>4, <1>6, <1>8, <2>1
<1> QED BY <1>11, <1>12, <1>13, <1>14, <1>15, <1>16, <1>17, <1>18, <1>19, <1>20

\* Nothing happens when nothing changes.
LEMMA StutterStep ==
    ASSUME IInv, UNCHANGED vars
    PROVE  IInv'
<1> USE DEF IInv
<1>1. /\ queue' = queue /\ current' = current /\ cpu' = cpu /\ task' = task
      /\ machine' = machine /\ born' = born /\ died' = died /\ collected' = collected
  BY DEF vars
<1>2. \A t : Point(t)' = Point(t)
  BY <1>1 DEF Point
<1>3. Types' /\ QueueHoldsLiveTasks' /\ QueueIsBorn' /\ Families'
  BY <1>1 DEF Types, QueueHoldsLiveTasks, InQueue, QueueIsBorn, Families
<1>4. BootIsAlone' /\ WaitersWait' /\ DeadAreGone'
  BY <1>1, <1>2 DEF BootIsAlone, AtBoot, WaitersWait, DeadAreGone
<1>5. StatusesAreTrue'
  BY <1>1 DEF StatusesAreTrue, IsTrue
<1>6. InitWaitIsFed' /\ ExecHolds'
  BY <1>1, <1>2 DEF InitWaitIsFed, Waiting, Stopped, InQueue, ExecHolds
<1> QED BY <1>3, <1>4, <1>5, <1>6

\* The timer interrupt.
LEMMA TickStep ==
    ASSUME IInv, Tick
    PROVE  IInv'
<1>1. /\ current \in TaskId /\ task \in [TaskId -> TaskRecord] /\ cpu \in Places
      /\ queue \in Seq(TaskId) /\ current \in ToSet(queue)
  BY DEF IInv, Types, QueueHoldsLiveTasks, InQueue
<1>2. CASE task[current].state = "HOLD"
  <2>1. UNCHANGED vars
    BY <1>2 DEF Tick, vars, history
  <2> QED BY <2>1, StutterStep
<1>3. CASE task[current].state = "READY"
  <2>1. /\ machine = "run" /\ InterruptsOn
        /\ Schedule(queue, SaveRegs(task, cpu), cpu)
        /\ UNCHANGED <<queue, machine, born, history>>
    BY <1>3 DEF Tick
  <2>2. PICK r : r = [task[current] EXCEPT !.regs = cpu]
    OBVIOUS
  <2>3. r \in TaskRecord /\ r.regs = cpu /\ r.state = "READY"
        /\ r.pid = task[current].pid /\ r.ppid = task[current].ppid
        /\ r.waitq = task[current].waitq /\ r.waitq_tail = task[current].waitq_tail
        /\ r.prio = task[current].prio
    BY <1>1, <1>3, <2>2 DEF TaskRecord
  <2>4. PICK T : T = [task EXCEPT ![current] = r]
    OBVIOUS
  <2>5. /\ T \in [TaskId -> TaskRecord] /\ T[current] = r
        /\ \A t \in TaskId \ {current} : T[t] = task[t]
    BY <1>1, <2>3, <2>4
  <2>6. SaveRegs(task, cpu) = T
    BY <1>1, <2>2, <2>4 DEF SaveRegs
  <2>7. cpu.at # "stale" /\ cpu.at # "wait"
    BY <2>1 DEF InterruptsOn
  <2>8. AtBoot(cpu) => queue = <<Main>>
    BY <1>1 DEF IInv, BootIsAlone, Point
  <2>9. cpu.at = "print" => AtBoot(cpu)
    BY <1>1, <2>1 DEF InterruptsOn, AtBoot, Places
  <2>10. r.prio >= 1
    BY <1>1, <2>3 DEF IInv, Families
  <2>11. cpu.at # "exec"
    BY <1>3 DEF IInv, ExecHolds
  <2> QED
    BY <1>1, <2>1, <2>3, <2>5, <2>6, <2>7, <2>8, <2>9, <2>10, <2>11, YieldStep
<1> QED
  BY <1>2, <1>3 DEF IInv, Types

\* sched_wait, from the loop of sys_wait or from the message of sys_exec.
LEMMA YieldAtStep ==
    ASSUME IInv, machine = "run", cpu.at # "stale",
           NEW p \in Places, p.at \in {"wait", "print"},
           AtBoot(p) => queue = <<Main>>,
           p.at = "wait" /\ current = Main => task[Main].waitq # <<>> \/ HasChild(Main),
           YieldAt(p), UNCHANGED <<queue, machine, born, history>>
    PROVE  IInv'
<1>1. /\ current \in TaskId /\ task \in [TaskId -> TaskRecord]
      /\ queue \in Seq(TaskId) /\ current \in ToSet(queue)
  BY DEF IInv, Types, QueueHoldsLiveTasks, InQueue
<1>2. PICK r : r = [task[current] EXCEPT !.state = "WAIT", !.regs = p, !.ticks = 0]
  OBVIOUS
<1>3. 0 \in 0 .. (TASK_PRIO_CR1TIKAL * Ticks - 1)
  BY FullTicks, SchedAssumption DEF TASK_PRIO_CR1TIKAL
<1>4. r \in TaskRecord /\ r.regs = p /\ r.state = "WAIT"
      /\ r.pid = task[current].pid /\ r.ppid = task[current].ppid
      /\ r.waitq = task[current].waitq /\ r.waitq_tail = task[current].waitq_tail
      /\ r.prio = task[current].prio
  <2>1. task[current] \in TaskRecord
    BY <1>1
  <2>2. r \in TaskRecord
    BY <1>2, <1>3, <2>1 DEF TaskRecord
  <2> QED BY <1>2, <2>1, <2>2 DEF TaskRecord
<1>5. PICK T : T = [task EXCEPT ![current] = r]
  OBVIOUS
<1>6. /\ T \in [TaskId -> TaskRecord] /\ T[current] = r
      /\ \A t \in TaskId \ {current} : T[t] = task[t]
  BY <1>1, <1>4, <1>5
<1>7. Schedule(queue, T, p)
  <2>1. SkipTurn(SaveRegs([task EXCEPT ![current].state = "WAIT"], p)) = T
    BY <1>1, <1>2, <1>5 DEF SkipTurn, SaveRegs
  <2> QED BY <2>1 DEF YieldAt
<1>8. r.prio >= 1
  BY <1>1, <1>4 DEF IInv, Families
<1> QED
  BY <1>1, <1>4, <1>6, <1>7, <1>8, YieldStep

\* The end of sys_exec.
LEMMA ExecEndStep ==
    ASSUME IInv, machine = "run", cpu.at # "stale",
           ExecEnd, UNCHANGED <<queue, machine, born, history>>
    PROVE  IInv'
<1>1. /\ current \in TaskId /\ task \in [TaskId -> TaskRecord]
      /\ queue \in Seq(TaskId) /\ current \in ToSet(queue)
  BY DEF IInv, Types, QueueHoldsLiveTasks, InQueue
<1>2. PICK p : p = IF task[current].regs.at = "user" THEN task[current].regs ELSE At("stale")
  OBVIOUS
<1>3. p \in Places /\ p.at \in {"user", "stale"}
  <2>1. task[current].regs \in Places
    BY <1>1 DEF TaskRecord
  <2>2. At("stale") \in Places /\ At("stale").at = "stale"
    BY DEF At, Places
  <2> QED BY <1>2, <2>1, <2>2
<1>4. ~AtBoot(p)
  BY <1>3 DEF AtBoot
<1>5. PICK r : r = [task[current] EXCEPT !.prio = TASK_PRIO_LOW, !.state = "SAVE", !.regs = p]
  OBVIOUS
<1>6. r \in TaskRecord /\ r.regs = p /\ r.state = "SAVE"
      /\ r.pid = task[current].pid /\ r.ppid = task[current].ppid
      /\ r.waitq = task[current].waitq /\ r.waitq_tail = task[current].waitq_tail
      /\ r.prio = 1
  <2>1. TASK_PRIO_LOW \in 0 .. TASK_PRIO_CR1TIKAL /\ TASK_PRIO_LOW = 1
    BY DEF TASK_PRIO_LOW, TASK_PRIO_CR1TIKAL
  <2>2. task[current] \in TaskRecord
    BY <1>1
  <2>3. r \in TaskRecord
    BY <1>3, <1>5, <2>1, <2>2 DEF TaskRecord
  <2> QED BY <1>5, <2>1, <2>2, <2>3 DEF TaskRecord
<1>7. PICK T : T = [task EXCEPT ![current] = r]
  OBVIOUS
<1>8. /\ T \in [TaskId -> TaskRecord] /\ T[current] = r
      /\ \A t \in TaskId \ {current} : T[t] = task[t]
  BY <1>1, <1>6, <1>7
<1>9. Schedule(queue, T, p)
  <2>1. [task EXCEPT ![current].prio = TASK_PRIO_LOW, ![current].state = "SAVE",
                     ![current].regs = p] = T
    BY <1>1, <1>5, <1>7
  <2> QED BY <1>2, <2>1 DEF ExecEnd
<1> QED
  BY <1>1, <1>3, <1>4, <1>6, <1>8, <1>9, YieldStep

\* sys_fork when task_copy fails.
LEMMA ForkFailsStep ==
    ASSUME IInv, SysFork(FALSE)
    PROVE  IInv'
<1>1. /\ current \in TaskId /\ task \in [TaskId -> TaskRecord]
      /\ queue \in Seq(TaskId) /\ current \in ToSet(queue)
  BY DEF IInv, Types, QueueHoldsLiveTasks, InQueue
<1>2. PICK p : p = At("fork")
  OBVIOUS
<1>3. p \in Places /\ p.at = "fork" /\ ~AtBoot(p)
  BY <1>2 DEF At, Places, AtBoot
<1>4. PICK r : r = [task[current] EXCEPT !.state = "FORK", !.regs = p]
  OBVIOUS
<1>5. r \in TaskRecord /\ r.regs = p /\ r.state = "FORK"
      /\ r.pid = task[current].pid /\ r.ppid = task[current].ppid
      /\ r.waitq = task[current].waitq /\ r.waitq_tail = task[current].waitq_tail
      /\ r.prio = task[current].prio
  BY <1>1, <1>3, <1>4 DEF TaskRecord
<1>6. PICK T : T = [task EXCEPT ![current] = r]
  OBVIOUS
<1>7. /\ T \in [TaskId -> TaskRecord] /\ T[current] = r
      /\ \A t \in TaskId \ {current} : T[t] = task[t]
  BY <1>1, <1>5, <1>6
<1>8. SaveRegs([task EXCEPT ![current].state = "FORK"], p) = T
  BY <1>1, <1>4, <1>6 DEF SaveRegs
<1>9. /\ machine = "run" /\ cpu.at = "user" /\ Schedule(queue, T, p)
      /\ UNCHANGED <<queue, machine, born, history>>
  BY <1>2, <1>8 DEF SysFork
<1>10. r.prio >= 1
  BY <1>1, <1>5 DEF IInv, Families
<1> QED
  BY <1>1, <1>3, <1>5, <1>7, <1>9, <1>10, YieldStep

\* A step of the running task that the scheduler has no part in and after which
\* it is not in sys_wait.
LEMMA LocalStep ==
    ASSUME IInv, machine = "run", cpu.at # "stale",
           NEW r \in TaskRecord, task' = [task EXCEPT ![current] = r],
           r.state \in {"READY", "HOLD"}, r.prio = task[current].prio,
           r.pid = task[current].pid, r.ppid = task[current].ppid,
           r.waitq = task[current].waitq, r.waitq_tail = task[current].waitq_tail,
           cpu' \in Places, cpu'.at # "wait", AtBoot(cpu') => AtBoot(cpu),
           r.regs \in {task[current].regs, At("user")},
           cpu'.at = "exec" => r.state = "HOLD" /\ r.regs = At("user"),
           UNCHANGED <<queue, current, machine, born, history>>
    PROVE  IInv'
<1> USE DEF IInv
<1>1. /\ queue \in Seq(TaskId) /\ queue # <<>> /\ current \in TaskId
      /\ task \in [TaskId -> TaskRecord]
  BY DEF Types
<1>2. /\ queue' = queue /\ current' = current /\ machine' = machine /\ born' = born
      /\ died' = died /\ collected' = collected
  BY DEF history
<1>3. current \in ToSet(queue) /\ \A t \in ToSet(queue) : t \in TaskId
  BY <1>1, InList DEF QueueHoldsLiveTasks, InQueue
<1>4. task'[current] = r /\ \A t \in TaskId \ {current} : task'[t] = task[t]
  BY <1>1
<1>5. \A t \in TaskId :
         /\ task'[t].pid = task[t].pid /\ task'[t].ppid = task[t].ppid
         /\ task'[t].waitq = task[t].waitq /\ task'[t].waitq_tail = task[t].waitq_tail
         /\ task'[t].prio = task[t].prio
  BY <1>4
<1>6. \A t \in TaskId \ {current} : Point(t)' = Point(t)
  BY <1>2, <1>4 DEF Point
<1>7. Point(current)' = cpu' /\ Point(current) = cpu
  BY <1>2 DEF Point
<1>8. Main \in TaskId
  BY SchedAssumption DEF Main, TaskId
<1>9. Types'
  BY <1>1, <1>2, <1>4 DEF Types
<1>10. QueueHoldsLiveTasks'
  BY <1>2, <1>3, <1>4 DEF QueueHoldsLiveTasks, InQueue
<1>11. QueueIsBorn' /\ Families' /\ DeadAreGone'
  BY <1>2, <1>3, <1>5, <1>8 DEF QueueIsBorn, Families, DeadAreGone
<1>12. BootIsAlone'
  <2> SUFFICES ASSUME NEW t \in ToSet(queue), AtBoot(Point(t)') PROVE queue = <<Main>>
    BY <1>2 DEF BootIsAlone, AtBoot
  <2>1. AtBoot(Point(t))
    BY <1>3, <1>6, <1>7
  <2> QED BY <2>1 DEF BootIsAlone
<1>13. WaitersWait'
  BY <1>2, <1>3, <1>4 DEF WaitersWait
<1>14. StatusesAreTrue'
  BY <1>2, <1>5, StatusesStay
<1>15. InitWaitIsFed'
  <2> SUFFICES ASSUME Waiting(Main)'
               PROVE  task'[Main].waitq # <<>> \/ \E t \in ToSet(queue) : task'[t].ppid = 1
    BY <1>2 DEF InitWaitIsFed
  <2>1. Main # current
    BY <1>7 DEF Waiting
  <2>2. Waiting(Main)
    BY <1>2, <1>6, <1>8, <2>1 DEF Waiting, Stopped, InQueue
  <2> QED BY <1>3, <1>5, <1>8, <2>2 DEF InitWaitIsFed
<1>16. ExecHolds'
  <2> SUFFICES \A t \in TaskId : task'[t].regs.at # "exec"
    BY <1>2, <1>4 DEF ExecHolds
  <2>1. At("user").at # "exec"
    BY DEF At
  <2> QED BY <1>1, <1>4, <2>1 DEF ExecHolds
<1> QED BY <1>9, <1>10, <1>11, <1>12, <1>13, <1>14, <1>15, <1>16

\* The steps of system calls in which the scheduler has no part.
LEMMA LocalSteps ==
    ASSUME IInv, ForkReturn \/ ExecBegin \/ SysOpen \/ SysClose
    PROVE  IInv'
<1>1. /\ current \in TaskId /\ task \in [TaskId -> TaskRecord] /\ cpu \in Places
      /\ task[current] \in TaskRecord /\ task[current].state \in {"READY", "HOLD"}
  BY DEF IInv, Types
<1>2. /\ At("user") \in Places /\ At("user").at = "user" /\ ~AtBoot(At("user"))
  BY DEF At, Places, AtBoot
<1>3. CASE ForkReturn
  <2>1. task' = [task EXCEPT ![current] = task[current]]
    BY <1>1, <1>3 DEF ForkReturn
  <2> QED BY <1>1, <1>2, <1>3, <2>1, LocalStep DEF ForkReturn
<1>4. CASE ExecBegin
  <2>1. PICK r : r = [task[current] EXCEPT !.state = "HOLD", !.regs = At("user")]
    OBVIOUS
  <2>2. /\ r \in TaskRecord /\ r.state = "HOLD" /\ r.regs = At("user")
        /\ r.prio = task[current].prio
        /\ r.pid = task[current].pid /\ r.ppid = task[current].ppid
        /\ r.waitq = task[current].waitq /\ r.waitq_tail = task[current].waitq_tail
    BY <1>1, <1>2, <2>1 DEF TaskRecord
  <2>3. task' = [task EXCEPT ![current] = r]
    BY <1>1, <1>4, <2>1 DEF ExecBegin, Hold
  <2>4. cpu' = [at |-> "exec", arg |-> IF cpu.at = "boot" THEN 1 ELSE 0]
    BY <1>4 DEF ExecBegin
  <2>5. cpu' \in Places /\ cpu'.at = "exec"
    BY <2>4 DEF Places
  <2>6. AtBoot(cpu') => AtBoot(cpu)
    <3>1. AtBoot(cpu') => cpu'.arg = 1
      BY <2>5 DEF AtBoot
    <3> QED BY <2>4, <3>1 DEF AtBoot
  <2> QED BY <1>4, <2>2, <2>3, <2>5, <2>6, LocalStep DEF ExecBegin
<1>5. CASE SysOpen
  <2>1. PICK k \in 0 .. FilesMax : k = task[current].files + 1
    BY <1>1, <1>5, SchedAssumption DEF SysOpen, TaskRecord
  <2>2. PICK r : r = [task[current] EXCEPT !.files = k]
    OBVIOUS
  <2>3. /\ r \in TaskRecord /\ r.state = task[current].state /\ r.regs = task[current].regs
        /\ r.prio = task[current].prio
        /\ r.pid = task[current].pid /\ r.ppid = task[current].ppid
        /\ r.waitq = task[current].waitq /\ r.waitq_tail = task[current].waitq_tail
    BY <1>1, <2>1, <2>2 DEF TaskRecord
  <2>4. task' = [task EXCEPT ![current] = r]
    BY <1>1, <1>5, <2>1, <2>2 DEF SysOpen
  <2> QED BY <1>1, <1>5, <2>3, <2>4, LocalStep DEF SysOpen
<1>6. CASE SysClose
  <2>1. PICK k \in 0 .. FilesMax : k = task[current].files - 1
    BY <1>1, <1>6, SchedAssumption DEF SysClose, TaskRecord
  <2>2. PICK r : r = [task[current] EXCEPT !.files = k]
    OBVIOUS
  <2>3. /\ r \in TaskRecord /\ r.state = task[current].state /\ r.regs = task[current].regs
        /\ r.prio = task[current].prio
        /\ r.pid = task[current].pid /\ r.ppid = task[current].ppid
        /\ r.waitq = task[current].waitq /\ r.waitq_tail = task[current].waitq_tail
    BY <1>1, <2>1, <2>2 DEF TaskRecord
  <2>4. task' = [task EXCEPT ![current] = r]
    BY <1>1, <1>6, <2>1, <2>2 DEF SysClose
  <2> QED BY <1>1, <1>6, <2>3, <2>4, LocalStep DEF SysClose
<1> QED BY <1>3, <1>4, <1>5, <1>6
-----------------------------------------------------------------------------
(* wait, fork and exit.                                                    *)

\* wait takes the first status out of init's wait queue.
LEMMA PopStep ==
    ASSUME IInv, machine = "run", cpu.at # "stale", task[current].waitq # <<>>,
           Pop, UNCHANGED <<queue, machine, born>>
    PROVE  IInv'
<1> USE DEF IInv
<1>1. /\ queue \in Seq(TaskId) /\ queue # <<>> /\ current \in TaskId
      /\ task \in [TaskId -> TaskRecord]
  BY DEF Types
<1>2. current = Main
  BY <1>1 DEF StatusesAreTrue
<1>3. PICK w : w = task[Main].waitq
  OBVIOUS
<1>4. w \in Seq(Entry) /\ w # <<>> /\ Len(w) \in Nat \ {0}
  <2>1. task[Main] \in TaskRecord
    BY <1>1, <1>2
  <2>2. w \in Seq(Entry) /\ w # <<>>
    BY <1>2, <1>3, <2>1 DEF TaskRecord
  <2> QED BY <2>2
<1>5. task[Main].waitq_tail = 1
  BY <1>1, <1>2, <1>3, <1>4 DEF StatusesAreTrue
<1>6. PICK k \in {0, 1} : k = IF Len(w) > 1 THEN 1 ELSE 0
  OBVIOUS
<1>7. PICK v : v = Tail(w)
  OBVIOUS
<1>8. /\ v \in Seq(Entry) /\ Len(v) = Len(w) - 1
      /\ \A i \in 1 .. Len(v) : v[i] = w[i + 1]
      /\ k = IF v = <<>> THEN 0 ELSE 1
  <2>1. v \in Seq(Entry) /\ Len(v) = Len(w) - 1
    BY <1>4, <1>7
  <2>2. \A i \in 1 .. Len(v) : v[i] = w[i + 1]
    BY <1>4, <1>7, <2>1
  <2>3. v = <<>> <=> Len(v) = 0
    BY <2>1, EmptySeq
  <2> QED BY <1>4, <1>6, <2>1, <2>2, <2>3
<1>9. PICK r : r = [task[Main] EXCEPT !.waitq = v, !.waitq_tail = k]
  OBVIOUS
<1>10. /\ r \in TaskRecord /\ r.waitq = v /\ r.waitq_tail = k
       /\ r.state = task[Main].state /\ r.prio = task[Main].prio
       /\ r.pid = task[Main].pid /\ r.ppid = task[Main].ppid /\ r.regs = task[Main].regs
  <2>1. task[Main] \in TaskRecord
    BY <1>1, <1>2
  <2>2. k \in Nat
    BY <1>6
  <2>3. r \in TaskRecord
    BY <1>8, <1>9, <2>1, <2>2 DEF TaskRecord
  <2> QED BY <1>9, <2>1, <2>3 DEF TaskRecord
<1>11. task' = [task EXCEPT ![Main] = r]
  <2>1. task' = [task EXCEPT ![Main] = WaitqPop(@)]
    BY <1>2 DEF Pop
  <2>2. WaitqPop(task[Main]) = r
    BY <1>3, <1>5, <1>6, <1>7, <1>9 DEF WaitqPop
  <2> QED BY <2>1, <2>2
<1>12. /\ queue' = queue /\ current' = Main /\ machine' = machine /\ born' = born
       /\ died' = died /\ cpu' = At("user")
  BY <1>2 DEF Pop
<1>13. Main \in TaskId /\ task'[Main] = r /\ \A t \in TaskId \ {Main} : task'[t] = task[t]
  BY <1>1, <1>2, <1>11
<1>14. collected' = collected \cup {w[1].child} /\ w[1] \in Entry
  BY <1>2, <1>3, <1>4 DEF Pop
<1>15. At("user") \in Places /\ At("user").at = "user" /\ ~AtBoot(At("user"))
  BY DEF At, Places, AtBoot
<1>16. Point(Main)' = At("user") /\ \A t \in TaskId \ {Main} : Point(t)' = Point(t)
  BY <1>2, <1>12, <1>13 DEF Point
<1>17. \A t \in ToSet(queue) : t \in TaskId
  BY <1>1, InList
<1>18. IsTrue(w[1])
  BY <1>3, <1>4 DEF StatusesAreTrue
<1>19. Types'
  <2>1. w[1].child \in TaskId
    BY <1>14 DEF Entry
  <2>2. task' \in [TaskId -> TaskRecord]
    BY <1>1, <1>10, <1>11
  <2>3. task'[current'].state \in {"READY", "HOLD"}
    BY <1>2, <1>10, <1>12, <1>13 DEF Types
  <2>4. collected' \subseteq TaskId
    BY <1>14, <2>1 DEF Types
  <2> QED BY <1>1, <1>12, <1>13, <1>15, <2>2, <2>3, <2>4 DEF Types
<1>20. QueueHoldsLiveTasks'
  <2>1. \A t \in TaskId : task'[t].state = task[t].state
    BY <1>10, <1>13
  <2> QED BY <1>2, <1>12, <2>1 DEF QueueHoldsLiveTasks, InQueue
<1>21. QueueIsBorn' /\ Families'
  BY <1>10, <1>12, <1>13, <1>17 DEF QueueIsBorn, Families
<1>22. BootIsAlone'
  <2> SUFFICES ASSUME NEW t \in ToSet(queue), AtBoot(Point(t)') PROVE queue = <<Main>>
    BY <1>12 DEF BootIsAlone, AtBoot
  <2>1. AtBoot(Point(t))
    BY <1>15, <1>16, <1>17
  <2> QED BY <2>1 DEF BootIsAlone
<1>23. WaitersWait'
  BY <1>2, <1>12, <1>13, <1>17 DEF WaitersWait
<1>24. DeadAreGone'
  BY <1>12, <1>14, <1>18 DEF DeadAreGone, IsTrue
<1>25. StatusesAreTrue'
  <2>1. \A t \in TaskId \ {Main} : task'[t].waitq = <<>>
    BY <1>13 DEF StatusesAreTrue
  <2>2. \A t \in TaskId : task'[t].waitq_tail = IF task'[t].waitq = <<>> THEN 0 ELSE 1
    BY <1>8, <1>10, <1>13 DEF StatusesAreTrue
  <2>3. ASSUME NEW i \in 1 .. Len(v) PROVE IsTrue(v[i])'
    <3>1. i + 1 \in 1 .. Len(w) /\ 1 \in 1 .. Len(w) /\ i + 1 # 1
      BY <1>4, <1>8
    <3>2. IsTrue(w[i + 1]) /\ w[i + 1].child # w[1].child
      BY <1>3, <3>1 DEF StatusesAreTrue
    <3>3. v[i] = w[i + 1]
      BY <1>8
    <3> QED BY <1>12, <1>14, <3>2, <3>3 DEF IsTrue
  <2>4. ASSUME NEW i \in 1 .. Len(v), NEW j \in 1 .. Len(v), i # j
        PROVE  v[i].child # v[j].child
    <3>1. i + 1 \in 1 .. Len(w) /\ j + 1 \in 1 .. Len(w) /\ i + 1 # j + 1
      BY <1>4, <1>8, <2>4
    <3>2. w[i + 1].child # w[j + 1].child
      BY <1>3, <3>1 DEF StatusesAreTrue
    <3> QED BY <1>8, <3>2
  <2>5. task'[Main].waitq = v
    BY <1>10, <1>13
  <2> QED BY <2>1, <2>2, <2>3, <2>4, <2>5, NextStatuses
<1>26. InitWaitIsFed'
  BY <1>15, <1>16 DEF InitWaitIsFed, Waiting
<1>27. ExecHolds'
  BY <1>10, <1>12, <1>13, <1>15 DEF ExecHolds
<1> QED BY <1>19, <1>20, <1>21, <1>22, <1>23, <1>24, <1>25, <1>26, <1>27

\* sys_fork when task_copy succeeds.
LEMMA ForkStep ==
    ASSUME IInv, SysFork(TRUE)
    PROVE  IInv'
<1> USE DEF IInv
<1>1. /\ queue \in Seq(TaskId) /\ queue # <<>> /\ current \in TaskId
      /\ task \in [TaskId -> TaskRecord] /\ born \in TaskId
      /\ current \in ToSet(queue) /\ queue[1] = Main /\ IsInjective(queue)
  BY DEF Types, QueueHoldsLiveTasks, InQueue
<1>2. /\ MaxTasks \in Nat /\ Main \in TaskId
  BY SchedAssumption DEF Main, TaskId
<1>3. \A t \in ToSet(queue) : t \in TaskId /\ t =< born
  BY <1>1, InList DEF QueueIsBorn
<1>4. PICK t : t = born + 1
  OBVIOUS
<1>5. t \in TaskId /\ t \notin ToSet(queue) /\ t # Main /\ t # current /\ ~(t =< born)
  BY <1>1, <1>2, <1>3, <1>4 DEF SysFork, TaskId, Main
<1>6. PICK p : p = At("fork")
  OBVIOUS
<1>7. p \in Places /\ p.at = "fork" /\ ~AtBoot(p)
  BY <1>6 DEF At, Places, AtBoot
<1>8. PICK T : T = SaveRegs([task EXCEPT ![current].state = "FORK"], p)
  OBVIOUS
<1>9. PICK r0 : r0 = [task[current] EXCEPT !.state = "FORK", !.regs = p]
  OBVIOUS
<1>10. /\ r0 \in TaskRecord /\ r0.regs = p /\ r0.state = "FORK"
       /\ r0.pid = task[current].pid /\ r0.ppid = task[current].ppid
       /\ r0.waitq = task[current].waitq /\ r0.waitq_tail = task[current].waitq_tail
       /\ r0.prio = task[current].prio
  <2>1. task[current] \in TaskRecord
    BY <1>1
  <2>2. r0 \in TaskRecord
    BY <1>7, <1>9, <2>1 DEF TaskRecord
  <2> QED BY <1>9, <2>1, <2>2 DEF TaskRecord
<1>11. T = [task EXCEPT ![current] = r0]
  BY <1>1, <1>8, <1>9 DEF SaveRegs
<1>12. NextPid(queue, T) = 2
  <2>1. T[Main].pid = 1
    BY <1>1, <1>2, <1>10, <1>11 DEF Families
  <2>2. (CHOOSE u \in {Main} : \A v \in {Main} : T[v].pid =< T[u].pid) = Main
    BY <2>1
  <2> QED BY <1>1, <2>1, <2>2 DEF NextPid, RevEach
<1>13. PICK c : c = [FreshTask EXCEPT !.regs = p, !.pid = 2, !.ppid = task[current].pid,
                                      !.state = "READY", !.prio = TASK_PRIO_LOW]
  OBVIOUS
<1>14. /\ c \in TaskRecord /\ c.regs = p /\ c.state = "READY" /\ c.pid = 2 /\ c.prio = 1
       /\ c.ppid = task[current].pid /\ c.waitq = <<>> /\ c.waitq_tail = 0
  <2>1. TASK_PRIO_LOW \in 0 .. TASK_PRIO_CR1TIKAL /\ TASK_PRIO_LOW = 1
    BY DEF TASK_PRIO_LOW, TASK_PRIO_CR1TIKAL
  <2>2. 0 \in 0 .. (TASK_PRIO_CR1TIKAL * Ticks - 1) /\ 0 \in 0 .. FilesMax
    BY FullTicks, SchedAssumption DEF TASK_PRIO_CR1TIKAL
  <2>3. task[current].pid \in Nat /\ 2 \in Nat /\ 0 \in Nat /\ <<>> \in Seq(Entry)
    BY <1>1 DEF TaskRecord
  <2>4. c = [state |-> "READY", ticks |-> 0, prio |-> TASK_PRIO_LOW, pid |-> 2,
             ppid |-> task[current].pid, cpid |-> 0, regs |-> p, files |-> 0,
             waitq |-> <<>>, waitq_tail |-> 0]
    BY <1>13 DEF FreshTask
  <2> QED BY <1>7, <2>1, <2>2, <2>3, <2>4 DEF TaskRecord
<1>15. PICK r : r = [r0 EXCEPT !.cpid = 2]
  OBVIOUS
<1>16. /\ r \in TaskRecord /\ r.regs = p /\ r.state = "FORK"
       /\ r.pid = task[current].pid /\ r.ppid = task[current].ppid
       /\ r.waitq = task[current].waitq /\ r.waitq_tail = task[current].waitq_tail
       /\ r.prio = task[current].prio
  BY <1>10, <1>15 DEF TaskRecord
<1>17. PICK U : U = ForkCopy(T, t)
  OBVIOUS
<1>18. /\ U \in [TaskId -> TaskRecord] /\ U[t] = c /\ U[current] = r
       /\ \A u \in TaskId \ {t, current} : U[u] = task[u]
  <2>1. T[current] = r0
    BY <1>1, <1>11
  <2>2. U = [T EXCEPT ![t] = c, ![current].cpid = 2]
    BY <1>10, <1>12, <1>13, <1>17, <2>1 DEF ForkCopy
  <2>3. U = [[T EXCEPT ![t] = c] EXCEPT ![current] = r]
    BY <1>1, <1>5, <1>11, <1>15, <2>1, <2>2
  <2> QED BY <1>1, <1>5, <1>10, <1>11, <1>14, <1>16, <2>3
<1>19. PICK q : q = QueueAdd(queue, U, t)
  OBVIOUS
<1>20. /\ queue' = q /\ born' = t /\ Schedule(q, U, p)
       /\ machine = "run" /\ cpu.at = "user"
       /\ machine' = machine /\ died' = died /\ collected' = collected
  BY <1>4, <1>6, <1>8, <1>17, <1>19 DEF SysFork, history
<1>21. \A u \in ToSet(queue) : U[u].prio >= 1
  BY <1>3, <1>5, <1>16, <1>18 DEF Families
<1>22. /\ q \in Seq(TaskId) /\ q # <<>> /\ q[1] = Main /\ IsInjective(q)
       /\ ToSet(q) = ToSet(queue) \cup {t}
  <2>1. Main \in ToSet(queue)
    BY <1>1, InList
  <2>2. U[t].prio = 1 /\ U[Main].prio >= 1 /\ U[Main].prio \in Int
    BY <1>2, <1>14, <1>18, <1>21, <2>1 DEF TaskRecord
  <2>3. U[t].prio =< U[queue[1]].prio
    BY <1>1, <2>2
  <2> QED BY <1>1, <1>5, <1>19, <2>3, QueueAddResult
<1>23. \A u \in ToSet(q) : U[u].prio >= 1
  BY <1>14, <1>18, <1>21, <1>22
<1>24. /\ current' \in ToSet(q)
       /\ cpu' \in Places
       /\ cpu' = U[current'].regs
       /\ task' \in [TaskId -> TaskRecord]
       /\ \A u \in TaskId :
              /\ Kept(U[u], task'[u])
              /\ task'[u].state = IF u = current' THEN "READY" ELSE U[u].state
  <2>1. current \in ToSet(q) /\ U[current].regs = p
    BY <1>1, <1>16, <1>18, <1>22
  <2> QED BY <1>7, <1>18, <1>20, <1>22, <1>23, <2>1, ScheduleStep
<1>25. \A u \in TaskId \ {t} :
          /\ task'[u].pid = task[u].pid /\ task'[u].ppid = task[u].ppid
          /\ task'[u].waitq = task[u].waitq /\ task'[u].waitq_tail = task[u].waitq_tail
  BY <1>16, <1>18, <1>24 DEF Kept
<1>26. /\ task'[t].pid = 2 /\ task'[t].ppid = task[current].pid
       /\ task'[t].waitq = <<>> /\ task'[t].waitq_tail = 0
  BY <1>5, <1>14, <1>18, <1>24 DEF Kept
<1>27. \A u \in TaskId : task'[u].prio = U[u].prio /\ task'[u].regs = U[u].regs
  BY <1>24 DEF Kept
<1>28. \A u \in TaskId : Point(u)' = U[u].regs
  BY <1>24, <1>27 DEF Point
<1>29. \A u \in TaskId \ {t, current} : U[u].regs = Point(u)
  BY <1>18 DEF Point
<1>30. \A u \in ToSet(q) : u \in TaskId
  BY <1>3, <1>5, <1>22
<1>31. Types'
  <2>1. current' \in TaskId /\ task'[current'].state = "READY"
    BY <1>24, <1>30
  <2> QED BY <1>5, <1>20, <1>22, <1>24, <2>1 DEF Types
<1>32. QueueHoldsLiveTasks'
  <2>1. \A u \in TaskId : u \in ToSet(q) <=> U[u].state # "FREE"
    BY <1>1, <1>14, <1>16, <1>18, <1>22 DEF QueueHoldsLiveTasks, InQueue
  <2>2. \A u \in TaskId : u \in ToSet(q) <=> task'[u].state # "FREE"
    BY <1>24, <2>1
  <2> QED BY <1>20, <1>22, <1>24, <2>2 DEF QueueHoldsLiveTasks, InQueue
<1>33. QueueIsBorn'
  BY <1>1, <1>2, <1>3, <1>4, <1>20, <1>22 DEF QueueIsBorn, TaskId
<1>34. Families'
  <2>1. task[current].pid \in {1, 2}
    BY <1>1 DEF Families
  <2>2. \A u \in ToSet(q) \ {Main} : task'[u].pid = 2 /\ task'[u].ppid \in {1, 2}
    BY <1>3, <1>22, <1>25, <1>26, <2>1 DEF Families
  <2> QED
    BY <1>2, <1>5, <1>20, <1>23, <1>25, <1>27, <1>30, <2>2 DEF Families
<1>35. BootIsAlone'
  <2> SUFFICES ASSUME NEW u \in ToSet(q), AtBoot(U[u].regs) PROVE FALSE
    BY <1>20, <1>28, <1>30 DEF BootIsAlone, AtBoot
  <2>1. u # t /\ u # current
    BY <1>7, <1>14, <1>16, <1>18
  <2>2. u \in ToSet(queue) /\ AtBoot(Point(u))
    BY <1>22, <1>29, <1>30, <2>1
  <2>3. queue = <<Main>>
    BY <2>2 DEF BootIsAlone
  <2>4. ToSet(<<Main>>) = {Main}
    BY DEF ToSet
  <2> QED BY <1>1, <2>1, <2>2, <2>3, <2>4
<1>36. WaitersWait'
  <2> SUFFICES ASSUME NEW u \in ToSet(q), u # current'
               PROVE  U[u].state = "WAIT" <=> U[u].regs.at \in {"wait", "print"}
    BY <1>20, <1>24, <1>27, <1>30 DEF WaitersWait
  <2>1. CASE u = t \/ u = current
    BY <1>7, <1>14, <1>16, <1>18, <2>1
  <2>2. CASE u # t /\ u # current
    BY <1>18, <1>22, <1>30, <2>2 DEF WaitersWait
  <2> QED BY <2>1, <2>2
<1>37. DeadAreGone'
  <2>1. ASSUME NEW u \in collected PROVE u \notin ToSet(q) /\ u =< t
    <3>1. u \notin ToSet(queue) /\ u =< born /\ u \in TaskId
      BY DEF DeadAreGone, Types
    <3> QED BY <1>1, <1>2, <1>4, <1>5, <1>22, <3>1 DEF TaskId
  <2> QED BY <1>20, <2>1 DEF DeadAreGone
<1>38. StatusesAreTrue'
  <2>1. PICK v : v = task[Main].waitq
    OBVIOUS
  <2>2. task'[Main].waitq = v
    BY <1>2, <1>5, <1>25, <2>1
  <2>3. \A u \in TaskId \ {Main} : task'[u].waitq = <<>>
    BY <1>25, <1>26 DEF StatusesAreTrue
  <2>4. \A u \in TaskId : task'[u].waitq_tail = IF task'[u].waitq = <<>> THEN 0 ELSE 1
    BY <1>25, <1>26 DEF StatusesAreTrue
  <2>5. ASSUME NEW i \in 1 .. Len(v) PROVE IsTrue(v[i])'
    <3>1. IsTrue(v[i])
      BY <2>1 DEF StatusesAreTrue
    <3>2. v \in Seq(Entry)
      BY <1>1, <1>2, <2>1 DEF TaskRecord
    <3>3. PICK w \in TaskId : w = v[i].child
      <4>1. v[i] \in Entry
        BY <3>2
      <4> QED BY <4>1 DEF Entry
    <3>4. w \notin ToSet(queue) /\ w =< born
      BY <3>1, <3>3 DEF IsTrue
    <3>5. w \notin ToSet(q) /\ w =< t
      BY <1>1, <1>2, <1>4, <1>5, <1>22, <3>4 DEF TaskId
    <3> QED BY <1>20, <3>1, <3>3, <3>5 DEF IsTrue
  <2>6. \A i, j \in 1 .. Len(v) : i # j => v[i].child # v[j].child
    BY <2>1 DEF StatusesAreTrue
  <2> QED BY <2>2, <2>3, <2>4, <2>5, <2>6, NextStatuses
<1>39. InitWaitIsFed'
  <2> SUFFICES ASSUME Waiting(Main)'
               PROVE  task'[Main].waitq # <<>> \/ \E u \in ToSet(q) : task'[u].ppid = 1
    BY <1>20 DEF InitWaitIsFed
  <2>1. Main # current /\ U[Main].regs.at = "wait"
    BY <1>2, <1>7, <1>16, <1>18, <1>28 DEF Waiting
  <2>2. Point(Main).at = "wait" /\ Main \in ToSet(queue)
    BY <1>1, <1>2, <1>5, <1>29, <2>1, InList
  <2>3. Waiting(Main)
    BY <1>20, <2>2 DEF Waiting, Stopped, InQueue
  <2>4. task[Main].waitq # <<>> \/ \E u \in ToSet(queue) : task[u].ppid = 1
    BY <2>3 DEF InitWaitIsFed
  <2> QED BY <1>2, <1>3, <1>5, <1>22, <1>25, <2>4
<1>40. ExecHolds'
  <2> SUFFICES cpu'.at # "exec" /\ \A u \in TaskId : task'[u].regs.at # "exec"
    BY DEF ExecHolds
  <2>1. \A u \in TaskId : U[u].regs.at # "exec"
    BY <1>7, <1>14, <1>16, <1>18 DEF ExecHolds
  <2> QED BY <1>24, <1>27, <1>30, <2>1
<1> QED BY <1>31, <1>32, <1>33, <1>34, <1>35, <1>36, <1>37, <1>38, <1>39, <1>40

\* The kernel panics.
LEMMA PanicStep ==
    ASSUME IInv, machine' = "panic", UNCHANGED <<queue, current, cpu, task, born, history>>
    PROVE  IInv'
<1> USE DEF IInv
<1>1. /\ queue' = queue /\ current' = current /\ cpu' = cpu /\ task' = task
      /\ born' = born /\ died' = died /\ collected' = collected
  BY DEF history
<1>2. \A t : Point(t)' = Point(t)
  BY <1>1 DEF Point
<1>3. Types' /\ QueueHoldsLiveTasks' /\ QueueIsBorn' /\ Families'
  BY <1>1 DEF Types, QueueHoldsLiveTasks, InQueue, QueueIsBorn, Families
<1>4. BootIsAlone' /\ WaitersWait' /\ DeadAreGone'
  BY <1>1, <1>2 DEF BootIsAlone, AtBoot, WaitersWait, DeadAreGone
<1>5. StatusesAreTrue'
  BY <1>1 DEF StatusesAreTrue, IsTrue
<1>6. InitWaitIsFed' /\ ExecHolds'
  BY <1>1 DEF InitWaitIsFed, Waiting, Stopped, ExecHolds
<1> QED BY <1>3, <1>4, <1>5, <1>6

\* waitq.c packs a code and a signal so that both can be had back.
LEMMA StatusResult ==
    ASSUME NEW code \in Nat, NEW sig \in 0 .. 255
    PROVE  /\ Status(code, sig) \in Nat
           /\ Status(code, sig) \div 256 = code
           /\ Status(code, sig) % 256 = sig
<1>1. sig % 65536 = sig
  OBVIOUS
<1>2. Status(code, sig) = code * 256 + sig
  BY <1>1 DEF Status
<1>3. code * 256 + sig \in Nat
  OBVIOUS
<1>4. (code * 256 + sig) \div 256 = code /\ (code * 256 + sig) % 256 = sig
  OBVIOUS
<1> QED BY <1>2, <1>3, <1>4

\* task_waitq_add puts the entry behind the first one, and forgets what was there.
LEMMA WaitqAddResult ==
    ASSUME NEW r \in TaskRecord, NEW w \in Entry,
           r.waitq_tail = IF r.waitq = <<>> THEN 0 ELSE 1
    PROVE  /\ WaitqAdd(r, w) \in TaskRecord
           /\ WaitqAdd(r, w).waitq_tail = 1
           /\ \/ /\ r.waitq = <<>>
                 /\ Len(WaitqAdd(r, w).waitq) = 1
                 /\ WaitqAdd(r, w).waitq[1] = w
              \/ /\ Len(r.waitq) >= 1
                 /\ Len(WaitqAdd(r, w).waitq) = 2
                 /\ WaitqAdd(r, w).waitq[1] = r.waitq[1]
                 /\ WaitqAdd(r, w).waitq[2] = w
           /\ WaitqAdd(r, w).state = r.state /\ WaitqAdd(r, w).prio = r.prio
           /\ WaitqAdd(r, w).pid = r.pid /\ WaitqAdd(r, w).ppid = r.ppid
           /\ WaitqAdd(r, w).regs = r.regs
<1>1. r.waitq \in Seq(Entry)
  BY DEF TaskRecord
<1>2. CASE r.waitq = <<>>
  <2>1. <<w>> \in Seq(Entry) /\ 1 \in Nat
    OBVIOUS
  <2>2. PICK s : s = [r EXCEPT !.waitq = <<w>>, !.waitq_tail = 1]
    OBVIOUS
  <2>3. WaitqAdd(r, w) = s
    BY <1>2, <2>2 DEF WaitqAdd
  <2>4. s \in TaskRecord
    BY <2>1, <2>2 DEF TaskRecord
  <2>5. /\ s.waitq_tail = 1 /\ s.waitq = <<w>> /\ s.state = r.state /\ s.prio = r.prio
        /\ s.pid = r.pid /\ s.ppid = r.ppid /\ s.regs = r.regs
    BY <2>2 DEF TaskRecord
  <2>6. Len(<<w>>) = 1 /\ <<w>>[1] = w
    OBVIOUS
  <2> QED BY <1>2, <2>3, <2>4, <2>5, <2>6
<1>3. CASE r.waitq # <<>>
  <2>1. Len(r.waitq) \in Nat /\ Len(r.waitq) >= 1
    BY <1>1, <1>3, EmptySeq
  <2>2. PICK x : x = SubSeq(r.waitq, 1, 1)
    OBVIOUS
  <2>3. x \in Seq(Entry) /\ Len(x) = 1 /\ x[1] = r.waitq[1]
    BY <1>1, <2>1, <2>2
  <2>4. PICK v : v = Append(x, w)
    OBVIOUS
  <2>5. v \in Seq(Entry) /\ Len(v) = 2 /\ v[1] = r.waitq[1] /\ v[2] = w
    <3>1. v \in Seq(Entry) /\ Len(v) = Len(x) + 1
      BY <2>3, <2>4, AppendProperties, ZenonT(40)
    <3>2. v[Len(x) + 1] = w
      BY <2>3, <2>4, AppendProperties, ZenonT(40)
    <3>3. 1 \in 1 .. Len(x)
      BY <2>3
    <3>4. v[1] = x[1]
      BY <2>3, <2>4, <3>3
    <3> QED BY <2>3, <3>1, <3>2, <3>4
  <2>6. PICK s : s = [r EXCEPT !.waitq = v]
    OBVIOUS
  <2>7. WaitqAdd(r, w) = s
    <3>1. r.waitq_tail = 1
      BY <1>3
    <3>2. WaitqAdd(r, w) = [r EXCEPT !.waitq = Append(SubSeq(r.waitq, 1, 1), w)]
      BY <1>3, <3>1 DEF WaitqAdd
    <3> QED BY <2>2, <2>4, <2>6, <3>2
  <2>8. s \in TaskRecord
    BY <2>5, <2>6 DEF TaskRecord
  <2>9. /\ s.waitq_tail = 1 /\ s.waitq = v /\ s.state = r.state /\ s.prio = r.prio
        /\ s.pid = r.pid /\ s.ppid = r.ppid /\ s.regs = r.regs
    BY <1>3, <2>6 DEF TaskRecord
  <2> QED BY <2>1, <2>5, <2>7, <2>8, <2>9
<1> QED BY <1>2, <1>3

\* A task exits or is ended by a signal: init is told, and runs next.
LEMMA ExitStep ==
    ASSUME IInv, machine = "run", cpu.at = "user",
           NEW code \in Nat, NEW sig \in 0 .. 255, Exit(code, sig), born' = born
    PROVE  IInv'
<1> USE DEF IInv
<1>1. /\ queue \in Seq(TaskId) /\ queue # <<>> /\ current \in TaskId
      /\ task \in [TaskId -> TaskRecord] /\ born \in TaskId
      /\ current \in ToSet(queue) /\ queue[1] = Main /\ IsInjective(queue)
  BY DEF Types, QueueHoldsLiveTasks, InQueue
<1>2. Main \in TaskId /\ Main \in ToSet(queue)
  <2>1. Main \in TaskId
    BY SchedAssumption DEF Main, TaskId
  <2> QED BY <1>1, <2>1, InList
<1>3. \A t \in ToSet(queue) : t \in TaskId
  BY <1>1, InList
<1>4. CASE current = Main
  <2>1. machine' = "panic" /\ UNCHANGED <<queue, current, cpu, task, history>>
    BY <1>1, <1>4 DEF Exit
  <2> QED BY <2>1, PanicStep
<1>5. CASE current # Main
  <2>1. PICK D : D = [task EXCEPT ![current].state = "DEAD"]
    OBVIOUS
  <2>2. /\ \A t \in TaskId \ {current} : D[t] = task[t]
        /\ D[current] = [task[current] EXCEPT !.state = "DEAD"]
    BY <1>1, <2>1
  <2>3. /\ D[current].pid = 2 /\ D[current].ppid \in {1, 2}
        /\ task[Main].pid = 1
    <3>1. task[current].pid = 2 /\ task[current].ppid \in {1, 2} /\ task[Main].pid = 1
      BY <1>1, <1>5 DEF Families
    <3>2. task[current] \in TaskRecord
      BY <1>1
    <3> QED BY <2>2, <3>1, <3>2 DEF TaskRecord
  <2>4. PICK T : T = Reparent(D)
    OBVIOUS
  <2>5. \A t \in TaskId : T[t] = IF t \in ToSet(queue) /\ D[t].ppid = 2
                                  THEN [D[t] EXCEPT !.ppid = 1] ELSE D[t]
    BY <2>3, <2>4 DEF Reparent, InQueue
  <2>6. T[current].ppid = 1 /\ T[current].pid = 2
    <3>1. D[current].ppid = 2 => T[current] = [D[current] EXCEPT !.ppid = 1]
      BY <1>1, <2>5
    <3>2. D[current].ppid # 2 => T[current] = D[current]
      BY <1>1, <2>5
    <3>3. task[current] \in TaskRecord
      BY <1>1
    <3> QED BY <2>2, <2>3, <3>1, <3>2, <3>3 DEF TaskRecord
  \* what Reparent leaves alone in the others
  <2>7. ASSUME NEW t \in TaskId, t # current
        PROVE  /\ T[t] \in TaskRecord /\ T[t].pid = task[t].pid
               /\ T[t].state = task[t].state /\ T[t].regs = task[t].regs
               /\ T[t].prio = task[t].prio /\ T[t].waitq = task[t].waitq
               /\ T[t].waitq_tail = task[t].waitq_tail
               /\ T[t].ppid \in {task[t].ppid, 1}
    <3>1. D[t] = task[t] /\ task[t] \in TaskRecord
      BY <1>1, <2>2, <2>7
    <3>2. CASE T[t] = D[t]
      BY <3>1, <3>2 DEF TaskRecord
    <3>3. CASE T[t] = [D[t] EXCEPT !.ppid = 1]
      <4>1. PICK r : r = [task[t] EXCEPT !.ppid = 1]
        OBVIOUS
      <4>2. r \in TaskRecord
        BY <3>1, <4>1 DEF TaskRecord
      <4>3. /\ r.pid = task[t].pid /\ r.state = task[t].state /\ r.regs = task[t].regs
            /\ r.prio = task[t].prio /\ r.waitq = task[t].waitq
            /\ r.waitq_tail = task[t].waitq_tail /\ r.ppid = 1
        BY <3>1, <4>1 DEF TaskRecord
      <4> QED BY <3>1, <3>3, <4>1, <4>2, <4>3
    <3> QED BY <2>5, <3>2, <3>3
  <2>8. T[Main].pid = 1 /\ T[Main].state # "DEAD" /\ T[Main].prio >= 1
    <3>1. task[Main].state # "DEAD" /\ task[Main].prio >= 1
      BY <1>1, <1>2 DEF TaskRecord, Families
    <3> QED BY <1>2, <1>5, <2>3, <2>7, <3>1
  <2>9. QueueNext(queue, T, None) = Main
    BY <1>1, <2>8, NextIsFirst
  <2>10. Find(queue, T, T[current].ppid) = Main
    <3>1. DOMAIN queue = 1 .. Len(queue) /\ Len(queue) \in Nat /\ 1 \in 1 .. Len(queue)
      BY <1>1
    <3>2. T[queue[1]].pid = 1
      BY <1>1, <2>8
    <3> DEFINE first(i) == T[queue[i]].pid = 1 /\ \A j \in 1 .. (i - 1) : T[queue[j]].pid # 1
    <3>3. first(1)
      BY <3>2
    <3>4. ASSUME NEW i \in 1 .. Len(queue), first(i) PROVE i = 1
      <4> SUFFICES ASSUME i # 1 PROVE FALSE
        OBVIOUS
      <4>1. 1 \in 1 .. (i - 1)
        BY <3>1
      <4> QED BY <3>2, <3>4, <4>1
    <3>5. (CHOOSE i \in 1 .. Len(queue) : first(i)) = 1
      <4> HIDE DEF first
      <4> QED BY <3>1, <3>3, <3>4
    <3>6. Find(queue, T, 1) = queue[CHOOSE i \in 1 .. Len(queue) : first(i)]
      BY <3>1, <3>2 DEF Find
    <3> QED BY <1>1, <2>6, <3>5, <3>6
  <2>11. PICK L : L = Load(T, Main)
    OBVIOUS
  <2>12. PICK w : w = [pid |-> 2, status |-> Status(code, sig), child |-> current]
    OBVIOUS
  <2>13. /\ current' = Main
         /\ cpu' = T[Main].regs
         /\ queue' = Unlink(queue, current)
         /\ task' = [Report(L, Main, current, Status(code, sig)) EXCEPT ![current] = FreshTask]
         /\ machine' \in {"run", "panic"}
         /\ died' = [died EXCEPT ![current] = [code |-> code, sig |-> sig, to |-> Main]]
         /\ collected' = collected
    BY <1>1, <1>5, <2>1, <2>4, <2>9, <2>10, <2>11 DEF Exit
  \* the task init becomes
  <2>14. PICK m0 : m0 = L[Main]
    OBVIOUS
  <2>15. /\ m0 \in TaskRecord /\ Kept(T[Main], m0) /\ m0.state = "READY"
         /\ L = [T EXCEPT ![Main] = m0]
    <3>1. T[Main] \in TaskRecord
      BY <1>2, <1>5, <2>7
    <3>2. T[Main].prio \in 1 .. TASK_PRIO_CR1TIKAL
      BY <2>8, <3>1 DEF TaskRecord, TASK_PRIO_CR1TIKAL
    <3>3. PICK k \in 0 .. (TASK_PRIO_CR1TIKAL * Ticks - 1) : k = T[Main].prio * Ticks - 1
      BY <3>2, FullTicks
    <3>4. PICK r : r = [T[Main] EXCEPT !.ticks = k, !.state = "READY"]
      OBVIOUS
    <3>5. r \in TaskRecord /\ r.state = "READY" /\ Kept(T[Main], r)
      BY <3>1, <3>3, <3>4 DEF TaskRecord, Kept
    <3>6. L = [T EXCEPT ![Main] = r]
      BY <2>11, <3>3, <3>4 DEF Load
    <3>7. DOMAIN T = TaskId
      BY <2>4 DEF Reparent
    <3>8. m0 = r
      BY <1>2, <2>14, <3>6, <3>7
    <3> QED BY <3>5, <3>6, <3>8
  <2>16. PICK m : m = WaitqAdd(m0, w)
    OBVIOUS
  <2>17. task' = [t \in TaskId |-> IF t = current THEN FreshTask
                                  ELSE IF t = Main THEN m ELSE T[t]]
    <3>1. DOMAIN T = TaskId
      BY <2>4 DEF Reparent
    <3>2. L[current].pid = 2
      BY <1>1, <1>5, <2>6, <2>15, <3>1
    <3>3. Report(L, Main, current, Status(code, sig)) = [L EXCEPT ![Main] = m]
      <4>1. Main # None
        BY DEF Main, None
      <4> QED BY <1>2, <2>12, <2>14, <2>16, <3>2, <4>1 DEF Report
    <3>4. task' = [[[T EXCEPT ![Main] = m0] EXCEPT ![Main] = m] EXCEPT ![current] = FreshTask]
      BY <2>13, <2>15, <3>3
    <3> QED BY <1>1, <1>2, <1>5, <3>1, <3>4
  <2>18. w \in Entry /\ w.child = current /\ w.status = Status(code, sig)
    <3>1. Status(code, sig) \in Nat
      BY StatusResult
    <3> QED BY <1>1, <2>12, <3>1 DEF Entry
  <2>19. /\ m0.state = "READY" /\ m0.pid = 1 /\ m0.prio >= 1 /\ m0.regs = T[Main].regs
         /\ m0.waitq = task[Main].waitq /\ m0.waitq_tail = task[Main].waitq_tail
    BY <1>2, <1>5, <2>7, <2>8, <2>15 DEF Kept
  <2>20. m0.waitq_tail = IF m0.waitq = <<>> THEN 0 ELSE 1
    BY <1>2, <2>19 DEF StatusesAreTrue
  <2>21. /\ m \in TaskRecord /\ m.waitq_tail = 1
         /\ \/ /\ m0.waitq = <<>> /\ Len(m.waitq) = 1 /\ m.waitq[1] = w
            \/ /\ Len(m0.waitq) >= 1 /\ Len(m.waitq) = 2
               /\ m.waitq[1] = m0.waitq[1] /\ m.waitq[2] = w
         /\ m.state = "READY" /\ m.pid = 1 /\ m.prio >= 1 /\ m.regs = T[Main].regs
    BY <2>15, <2>16, <2>18, <2>19, <2>20, WaitqAddResult
  <2>22. m.waitq # <<>>
    <3>1. m.waitq \in Seq(Entry) /\ Len(m.waitq) # 0
      BY <2>21 DEF TaskRecord
    <3> QED BY <3>1, EmptySeq
  <2>23. /\ queue' \in Seq(TaskId) /\ queue' # <<>> /\ queue'[1] = Main
         /\ IsInjective(queue') /\ ToSet(queue') = ToSet(queue) \ {current}
    BY <1>1, <1>5, <2>13, UnlinkResult
  <2>24. /\ FreshTask \in TaskRecord /\ FreshTask.state = "FREE"
         /\ FreshTask.waitq = <<>> /\ FreshTask.waitq_tail = 0
    <3>1. 0 \in 0 .. (TASK_PRIO_CR1TIKAL * Ticks - 1) /\ 0 \in 0 .. FilesMax
      BY FullTicks, SchedAssumption DEF TASK_PRIO_CR1TIKAL
    <3>2. 0 \in 0 .. TASK_PRIO_CR1TIKAL /\ 0 \in Nat /\ <<>> \in Seq(Entry)
      BY DEF TASK_PRIO_CR1TIKAL
    <3>3. At("user") \in Places
      BY DEF At, Places
    <3> QED BY <3>1, <3>2, <3>3 DEF TaskRecord, FreshTask
  <2>25. /\ task'[current] = FreshTask /\ task'[Main] = m
         /\ \A t \in TaskId \ {current, Main} : task'[t] = T[t]
    BY <1>1, <1>2, <1>5, <2>17
  <2>26. Types'
    <3>1. task' \in [TaskId -> TaskRecord]
      BY <2>7, <2>17, <2>21, <2>24
    <3>2. task'[current'].state \in {"READY", "HOLD"}
      BY <2>13, <2>21, <2>25
    <3>3. cpu' \in Places
      BY <1>2, <1>5, <2>7, <2>13 DEF TaskRecord
    <3>4. died' \in [TaskId -> [code : Int, sig : Int, to : TaskId \cup {None}]]
      BY <1>1, <1>2, <2>13 DEF Types
    <3> QED BY <1>1, <1>2, <2>13, <2>23, <3>1, <3>2, <3>3, <3>4 DEF Types
  <2>27. QueueHoldsLiveTasks'
    <3>1. \A t \in TaskId : t \in ToSet(queue) \ {current} <=> task'[t].state # "FREE"
      <4>1. \A t \in TaskId : t \in ToSet(queue) <=> task[t].state # "FREE"
        BY DEF QueueHoldsLiveTasks, InQueue
      <4> QED BY <1>2, <1>5, <2>7, <2>21, <2>24, <2>25, <4>1
    <3>2. current' \in ToSet(queue')
      BY <1>2, <1>5, <2>13, <2>23
    <3> QED BY <2>23, <3>1, <3>2 DEF QueueHoldsLiveTasks, InQueue
  <2>28. QueueIsBorn'
    BY <2>23 DEF QueueIsBorn
  <2>29. Families'
    <3>1. \A t \in ToSet(queue) \ {current, Main} :
             task'[t].pid = 2 /\ task'[t].ppid \in {1, 2} /\ task'[t].prio >= 1
      BY <1>3, <2>7, <2>25 DEF Families
    <3>2. task'[Main].pid = 1 /\ task'[Main].prio >= 1
      BY <2>21, <2>25
    <3> QED BY <2>23, <3>1, <3>2 DEF Families
  <2>30. \A t \in ToSet(queue) \ {current} : Point(t)' = Point(t)
    <3>1. ASSUME NEW t \in ToSet(queue) \ {current} PROVE Point(t)' = Point(t)
      <4>1. Point(t) = T[t].regs
        BY <1>3, <2>7 DEF Point
      <4>2. CASE t = Main
        BY <2>13, <4>1, <4>2 DEF Point
      <4>3. CASE t # Main
        BY <1>3, <2>13, <2>25, <4>1, <4>3 DEF Point
      <4> QED BY <4>2, <4>3
    <3> QED BY <3>1
  <2>31. BootIsAlone'
    <3> SUFFICES ASSUME NEW t \in ToSet(queue) \ {current}, AtBoot(Point(t)) PROVE FALSE
      BY <2>23, <2>30 DEF BootIsAlone, AtBoot
    <3>1. queue = <<Main>>
      BY DEF BootIsAlone
    <3>2. ToSet(<<Main>>) = {Main}
      BY DEF ToSet
    <3> QED BY <1>1, <1>5, <3>1, <3>2
  <2>32. WaitersWait'
    BY <1>3, <2>7, <2>13, <2>23, <2>25 DEF WaitersWait
  <2>33. DeadAreGone'
    <3>1. died'[current].to = Main /\ \A t \in TaskId \ {current} : died'[t] = died[t]
      BY <1>1, <2>13 DEF Types
    <3>2. \A t \in TaskId : died'[t] # Alive => died'[t].to = Main /\ t # Main
      BY <1>5, <3>1 DEF DeadAreGone
    <3> QED BY <2>13, <2>23, <3>2 DEF DeadAreGone
  <2>34. StatusesAreTrue'
    <3>1. died'[current] = [code |-> code, sig |-> sig, to |-> Main]
      BY <1>1, <2>13 DEF Types
    <3>2. IsTrue(w)'
      <4>1. current =< born
        BY <1>1 DEF QueueIsBorn
      <4>2. current \notin collected
        BY <1>1 DEF DeadAreGone
      <4>3. w.status \div 256 = code /\ w.status % 256 = sig
        <5>1. Status(code, sig) \div 256 = code /\ Status(code, sig) % 256 = sig
          BY StatusResult, ZenonT(40)
        <5> QED BY <2>18, <5>1
      <4> QED BY <2>13, <2>18, <2>23, <3>1, <4>1, <4>2, <4>3 DEF IsTrue
    <3>3. ASSUME Len(m0.waitq) >= 1
          PROVE  IsTrue(m0.waitq[1])' /\ m0.waitq[1].child # current
      <4>1. m0.waitq \in Seq(Entry)
        BY <2>15 DEF TaskRecord
      <4>2. 1 \in 1 .. Len(m0.waitq)
        BY <3>3, <4>1
      <4>3. PICK e : e = m0.waitq[1]
        OBVIOUS
      <4>4. IsTrue(e) /\ e.child \in TaskId
        <5>1. e \in Entry
          BY <4>1, <4>2, <4>3
        <5>2. IsTrue(e)
          BY <2>19, <4>2, <4>3 DEF StatusesAreTrue
        <5> QED BY <5>1, <5>2 DEF Entry
      <4>5. e.child # current
        BY <1>1, <4>4 DEF IsTrue
      <4>6. died'[e.child] = died[e.child]
        BY <2>13, <4>4, <4>5 DEF Types
      <4>7. IsTrue(e)'
        BY <2>13, <2>23, <4>4, <4>6 DEF IsTrue
      <4> QED BY <4>3, <4>5, <4>7
    <3>4. \A i \in 1 .. Len(m.waitq) : IsTrue(m.waitq[i])'
      BY <2>21, <3>2, <3>3
    <3>5. \A i, j \in 1 .. Len(m.waitq) : i # j => m.waitq[i].child # m.waitq[j].child
      BY <2>18, <2>21, <3>3
    <3>6. \A t \in TaskId \ {Main} : task'[t].waitq = <<>>
      BY <2>7, <2>24, <2>25 DEF StatusesAreTrue
    <3>7. \A t \in TaskId : task'[t].waitq_tail = IF task'[t].waitq = <<>> THEN 0 ELSE 1
      BY <2>7, <2>21, <2>22, <2>24, <2>25 DEF StatusesAreTrue
    <3> QED BY <2>25, <3>4, <3>5, <3>6, <3>7, NextStatuses
  <2>35. InitWaitIsFed'
    BY <2>22, <2>25 DEF InitWaitIsFed
  <2>36. ExecHolds'
    <3> SUFFICES cpu'.at # "exec" /\ \A t \in TaskId : task'[t].regs.at # "exec"
      BY DEF ExecHolds
    <3>1. \A t \in TaskId \ {current} : T[t].regs.at # "exec"
      BY <2>7 DEF ExecHolds
    <3>2. FreshTask.regs.at = "user"
      BY DEF FreshTask, At
    <3> QED BY <1>2, <1>5, <2>13, <2>21, <2>25, <3>1, <3>2
  <2> QED
    BY <2>26, <2>27, <2>28, <2>29, <2>31, <2>32, <2>33, <2>34, <2>35, <2>36
<1> QED BY <1>4, <1>5
-----------------------------------------------------------------------------
(* The theorems.                                                           *)

\* The machine starts in a legal state.
LEMMA InitIsLegal ==
    Init => IInv
<1> SUFFICES ASSUME Init PROVE IInv
  OBVIOUS
<1>1. /\ queue = <<Main>> /\ current = Main /\ cpu = At("boot") /\ machine = "run"
      /\ born = 1 /\ collected = {}
  BY DEF Init
<1>2. Main \in TaskId /\ 1 \in TaskId /\ Main = 1
  BY SchedAssumption DEF Main, TaskId
<1>3. ToSet(queue) = {Main} /\ queue \in Seq(TaskId) /\ queue # <<>> /\ queue[1] = Main
  BY <1>1, <1>2 DEF ToSet
<1>4. At("boot") \in Places /\ At("user") \in Places
  BY DEF At, Places
<1>5. /\ 0 \in 0 .. (TASK_PRIO_CR1TIKAL * Ticks - 1) /\ 0 \in 0 .. FilesMax
      /\ Ticks - 1 \in 0 .. (TASK_PRIO_CR1TIKAL * Ticks - 1)
  BY FullTicks, SchedAssumption DEF TASK_PRIO_CR1TIKAL
<1>6. /\ 0 \in 0 .. TASK_PRIO_CR1TIKAL /\ TASK_PRIO_CR1TIKAL \in 0 .. TASK_PRIO_CR1TIKAL
      /\ TASK_PRIO_CR1TIKAL >= 1 /\ 0 \in Nat /\ 1 \in Nat /\ <<>> \in Seq(Entry)
  BY DEF TASK_PRIO_CR1TIKAL
<1>7. PICK m : m = [FreshTask EXCEPT !.state = "READY", !.pid = 1, !.regs = At("boot"),
                                     !.prio = TASK_PRIO_CR1TIKAL, !.ticks = Ticks - 1]
  OBVIOUS
<1>8. /\ FreshTask \in TaskRecord /\ m \in TaskRecord /\ m.state = "READY" /\ m.pid = 1
      /\ m.prio = TASK_PRIO_CR1TIKAL /\ m.waitq = <<>> /\ m.waitq_tail = 0
      /\ m.regs = At("boot")
  <2>1. PICK k \in 0 .. (TASK_PRIO_CR1TIKAL * Ticks - 1) : k = Ticks - 1
    BY <1>5
  <2>2. FreshTask \in TaskRecord
    BY <1>4, <1>5, <1>6 DEF FreshTask, TaskRecord
  <2>3. m = [FreshTask EXCEPT !.state = "READY", !.pid = 1, !.regs = At("boot"),
                              !.prio = TASK_PRIO_CR1TIKAL, !.ticks = k]
    BY <1>7, <2>1
  <2>4. m \in TaskRecord
    BY <1>4, <1>6, <2>1, <2>2, <2>3 DEF TaskRecord
  <2>5. /\ m.state = "READY" /\ m.pid = 1 /\ m.prio = TASK_PRIO_CR1TIKAL
        /\ m.regs = At("boot")
    BY <2>2, <2>3 DEF TaskRecord
  <2>6. m.waitq = FreshTask.waitq /\ m.waitq_tail = FreshTask.waitq_tail
    BY <2>2, <2>3 DEF TaskRecord
  <2> QED BY <2>2, <2>4, <2>5, <2>6 DEF FreshTask
<1>9. task = [t \in TaskId |-> IF t = Main THEN m ELSE FreshTask]
  BY <1>7 DEF Init
<1>10. task[Main] = m /\ \A t \in TaskId \ {Main} : task[t] = FreshTask
  BY <1>2, <1>9
<1>11. died = [t \in TaskId |-> Alive]
  BY DEF Init
<1>12. Types
  <2>1. task \in [TaskId -> TaskRecord]
    BY <1>8, <1>9
  <2>2. task[current].state = "READY"
    BY <1>1, <1>8, <1>10
  <2>3. died \in [TaskId -> [code : Int, sig : Int, to : TaskId \cup {None}]]
    BY <1>11 DEF Alive
  <2> QED BY <1>1, <1>2, <1>3, <1>4, <2>1, <2>2, <2>3 DEF Types
<1>13. QueueHoldsLiveTasks
  <2>1. IsInjective(queue)
    BY <1>1 DEF IsInjective
  <2>2. \A t \in TaskId : t = Main <=> task[t].state # "FREE"
    BY <1>8, <1>10 DEF FreshTask
  <2> QED BY <1>1, <1>3, <2>1, <2>2 DEF QueueHoldsLiveTasks, InQueue
<1>14. QueueIsBorn /\ Families
  BY <1>1, <1>2, <1>3, <1>6, <1>8, <1>10 DEF QueueIsBorn, Families
<1>15. BootIsAlone /\ WaitersWait
  BY <1>1, <1>3 DEF BootIsAlone, WaitersWait
<1>16. DeadAreGone
  BY <1>1, <1>11 DEF DeadAreGone
<1>17. StatusesAreTrue
  BY <1>8, <1>10 DEF StatusesAreTrue, FreshTask
<1>18. InitWaitIsFed
  BY <1>1 DEF InitWaitIsFed, Waiting, Point, At
<1>19. ExecHolds
  <2>1. At("boot").at = "boot" /\ FreshTask.regs.at = "user"
    BY DEF At, FreshTask
  <2> QED BY <1>1, <1>8, <1>10, <2>1 DEF ExecHolds
<1> QED
  BY <1>12, <1>13, <1>14, <1>15, <1>16, <1>17, <1>18, <1>19 DEF IInv

\* Every step of the kernel and of a program keeps the state legal.
LEMMA NextIsLegal ==
    IInv /\ [Next]_vars => IInv'
<1> SUFFICES ASSUME IInv, [Next]_vars PROVE IInv'
  OBVIOUS
<1>1. CASE Tick
  BY <1>1, TickStep
<1>2. CASE ForkReturn
  BY <1>2, LocalSteps
<1>3. CASE WaitResume
  <2>1. machine = "run" /\ cpu.at = "wait" /\ UNCHANGED <<queue, machine, born>>
    BY <1>3 DEF WaitResume
  <2>2. CASE task[current].waitq # <<>> /\ Pop
    BY <2>1, <2>2, PopStep
  <2>3. CASE task[current].waitq = <<>> /\ YieldAt(At("wait")) /\ UNCHANGED history
    <3>1. At("wait") \in Places /\ At("wait").at = "wait" /\ ~AtBoot(At("wait"))
      BY DEF At, Places, AtBoot
    <3>2. current = Main => HasChild(Main)
      <4> SUFFICES ASSUME current = Main PROVE HasChild(Main)
        OBVIOUS
      <4>1. Waiting(Main)
        BY <2>1 DEF Waiting, Stopped, Point, IInv, QueueHoldsLiveTasks, InQueue
      <4>2. \E t \in ToSet(queue) : task[t].ppid = 1
        BY <2>3, <4>1 DEF IInv, InitWaitIsFed
      <4> QED BY <4>2 DEF HasChild, IInv, Families
    <3> QED BY <2>1, <2>3, <3>1, <3>2, YieldAtStep
  <2> QED BY <1>3, <2>2, <2>3 DEF WaitResume
<1>4. CASE ExecPrint
  <2>1. cpu \in Places /\ (AtBoot(cpu) => queue = <<Main>>)
    BY DEF IInv, Types, BootIsAlone, Point, QueueHoldsLiveTasks, InQueue
  <2>2. PICK p : p = [cpu EXCEPT !.at = "print"]
    OBVIOUS
  <2>3. p \in Places /\ p.at = "print" /\ p.arg = cpu.arg
    BY <2>1, <2>2 DEF Places
  <2>4. AtBoot(p) => queue = <<Main>>
    BY <1>4, <2>1, <2>3 DEF AtBoot, ExecPrint
  <2>5. machine = "run" /\ cpu.at # "stale" /\ YieldAt(p)
        /\ UNCHANGED <<queue, machine, born, history>>
    BY <1>4, <2>2 DEF ExecPrint
  <2> QED BY <2>3, <2>4, <2>5, YieldAtStep
<1>5. CASE ExecDone
  BY <1>5, ExecEndStep DEF ExecDone
<1>6. CASE \E ok \in BOOLEAN : SysFork(ok)
  BY <1>6, ForkStep, ForkFailsStep
<1>7. CASE SysWait
  <2>1. machine = "run" /\ cpu.at = "user" /\ UNCHANGED <<queue, machine, born>>
    BY <1>7 DEF SysWait
  <2>2. CASE task[current].waitq # <<>> /\ Pop
    BY <2>1, <2>2, PopStep
  <2>3. CASE HasChild(current) /\ YieldAt(At("wait")) /\ UNCHANGED history
    <3>1. At("wait") \in Places /\ At("wait").at = "wait" /\ ~AtBoot(At("wait"))
      BY DEF At, Places, AtBoot
    <3> QED BY <2>1, <2>3, <3>1, YieldAtStep
  <2> QED BY <1>7, <2>2, <2>3 DEF SysWait
<1>8. CASE SysOpen \/ SysClose \/ ExecBegin
  BY <1>8, LocalSteps
<1>9. CASE \E code \in ExitCodes : SysExit(code)
  <2>1. PICK code \in ExitCodes : SysExit(code)
    BY <1>9
  <2>2. code \in Nat /\ 0 \in 0 .. 255
    BY SchedAssumption
  <2>3. machine = "run" /\ cpu.at = "user" /\ Exit(code, 0) /\ born' = born
    BY <2>1 DEF SysExit
  <2> QED BY <2>2, <2>3, ExitStep
<1>10. CASE \E sig \in Faults : Fault(sig)
  <2>1. PICK sig \in Faults : Fault(sig)
    BY <1>10
  <2>2. sig \in 0 .. 255 /\ SIG_EXIT_CODE + sig \in Nat
    BY SchedAssumption DEF SIG_EXIT_CODE
  <2>3. machine = "run" /\ cpu.at = "user" /\ Exit(SIG_EXIT_CODE + sig, sig) /\ born' = born
    BY <2>1 DEF Fault
  <2> QED BY <2>2, <2>3, ExitStep
<1>11. CASE ExecFail
  BY <1>11, ExecEndStep DEF ExecFail
<1>12. CASE UNCHANGED vars
  BY <1>12, StutterStep
<1> QED
  BY <1>1, <1>2, <1>3, <1>4, <1>5, <1>6, <1>7, <1>8, <1>9, <1>10, <1>11, <1>12
     DEF Next, Kernel, Program, Halted

\* The kernel never leaves the legal states, whatever tasks do.
THEOREM SchedInvariant ==
    Spec => []IInv
<1>1. Init => IInv
  BY InitIsLegal
<1>2. IInv /\ [Next]_vars => IInv'
  BY NextIsLegal
<1> QED BY <1>1, <1>2, PTL DEF Spec

\* In particular the tick counter stays in its range, the running task is READY or on
\* hold, and the tail of a wait queue is an entry of it.
THEOREM TypeCorrect ==
    Spec => []TypeOK
<1>1. IInv => TypeOK
  <2> SUFFICES ASSUME IInv PROVE TypeOK
    OBVIOUS
  <2>1. MaxTasks \in Nat /\ MaxTasks >= 1
    BY SchedAssumption
  <2>2. cpu \in [at : {"boot", "user", "fork", "wait", "exec", "print", "stale"}, arg : 0 .. MaxTasks]
    <3>1. \A x \in {0, 1} : x \in 0 .. MaxTasks
      BY <2>1
    <3> QED BY <3>1 DEF IInv, Types, Places
  <2>3. ASSUME NEW t \in TaskId
        PROVE  /\ task[t].state \in {"FREE", "HOLD", "READY", "SAVE", "WAIT", "FORK"}
               /\ task[t].ticks \in 0 .. (TASK_PRIO_CR1TIKAL * Ticks - 1)
               /\ task[t].files \in 0 .. FilesMax
               /\ task[t].waitq_tail \in 0 .. Len(task[t].waitq)
    <3>1. task[t] \in TaskRecord
      BY DEF IInv, Types
    <3>2. task[t].waitq \in Seq(Entry)
      BY <3>1 DEF TaskRecord
    <3>3. task[t].waitq_tail = IF task[t].waitq = <<>> THEN 0 ELSE 1
      BY DEF IInv, StatusesAreTrue
    <3>4. task[t].waitq_tail \in 0 .. Len(task[t].waitq)
      <4>1. CASE task[t].waitq = <<>>
        BY <3>2, <3>3, <4>1
      <4>2. CASE task[t].waitq # <<>>
        <5>1. Len(task[t].waitq) \in Nat /\ Len(task[t].waitq) # 0
          BY <3>2, <4>2, EmptySeq
        <5> QED BY <3>3, <4>2, <5>1
      <4> QED BY <4>1, <4>2
    <3> QED BY <3>1, <3>4 DEF TaskRecord
  <2> QED BY <2>2, <2>3 DEF IInv, Types, TypeOK
<1> QED BY <1>1, SchedInvariant, PTL

\* No task is lost, listed twice or brought back: the list starts with main and holds
\* exactly the tasks that are not freed.
THEOREM NoTaskIsLost ==
    Spec => []QueueHoldsLiveTasks
<1>1. IInv => QueueHoldsLiveTasks
  BY DEF IInv
<1> QED BY <1>1, SchedInvariant, PTL

\* A task is in state WAIT exactly when it was switched out of sched_wait's callers, so
\* it goes on there.
THEOREM WaitersGoOn ==
    Spec => []WaitersResumeInWait
<1>1. IInv => WaitersResumeInWait
  BY DEF IInv, WaitersWait, WaitersResumeInWait, InQueue
<1> QED BY <1>1, SchedInvariant, PTL

\* Every death is reported, to a task other than the dead one.
THEOREM DeathsAreReported ==
    Spec => []DeathIsReported
<1>1. IInv => DeathIsReported
  BY DEF IInv, DeadAreGone, DeathIsReported, Main, None
<1> QED BY <1>1, SchedInvariant, PTL

\* Init never waits for nothing.
THEOREM InitIsFed ==
    Spec => []InitWaitIsFed
<1>1. IInv => InitWaitIsFed
  BY DEF IInv
<1> QED BY <1>1, SchedInvariant, PTL

\* A status that wait can return is that of a task that is gone, is exact, and has not
\* been returned before.
THEOREM StatusesAreExact ==
    Spec => []StatusIsTrue
<1>1. IInv => StatusIsTrue
  <2> SUFFICES ASSUME IInv, NEW t \in ToSet(queue), NEW i \in DOMAIN task[t].waitq
               PROVE  LET w == task[t].waitq[i]
                      IN  /\ ~InQueue(w.child)
                          /\ died[w.child].to = t
                          /\ w.status \div 256 = died[w.child].code
                          /\ w.status % 256 = died[w.child].sig
                          /\ w.child \notin collected
                          /\ \A j \in DOMAIN task[t].waitq :
                                 i # j => task[t].waitq[j].child # w.child
    BY DEF StatusIsTrue
  <2>1. t \in TaskId /\ task[t] \in TaskRecord
    BY InList DEF IInv, Types
  <2>2. t = Main
    <3>1. t # Main => task[t].waitq = <<>>
      BY <2>1 DEF IInv, StatusesAreTrue
    <3>2. DOMAIN <<>> = {}
      OBVIOUS
    <3> QED BY <3>1, <3>2
  <2>3. DOMAIN task[Main].waitq = 1 .. Len(task[Main].waitq)
    BY <2>1, <2>2 DEF TaskRecord
  <2>4. IsTrue(task[Main].waitq[i])
    BY <2>2, <2>3 DEF IInv, StatusesAreTrue
  <2>5. \A j \in 1 .. Len(task[Main].waitq) :
           i # j => task[Main].waitq[j].child # task[Main].waitq[i].child
    BY <2>2, <2>3 DEF IInv, StatusesAreTrue
  <2> QED BY <2>2, <2>3, <2>4, <2>5 DEF IsTrue, InQueue
<1> QED BY <1>1, SchedInvariant, PTL

\* The new image of sys_exec is not saved over, by the timer or a switch, as long as
\* its message has not had to wait for the serial port.
THEOREM ImagesAreKept == Spec => []ExecKeepsImage
<1>1. IInv => ExecKeepsImage
  BY DEF IInv, ExecHolds, ExecKeepsImage
<1> QED BY <1>1, SchedInvariant, PTL
=============================================================================
