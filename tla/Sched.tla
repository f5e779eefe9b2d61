------------------------------- MODULE Sched --------------------------------
(***************************************************************************)
(* Tasks of the sdx kernel: the scheduler (kernel/sched/sched.c), the wait *)
(* queue (waitq.c), default signals (signal.c), freeing of tasks (task.c)  *)
(* and the system calls fork, wait, exit, exec, open and close as far as   *)
(* they concern tasks.                                                     *)
(*                                                                         *)
(* There is one CPU.  System calls run with interrupts off (MSR_FMASK      *)
(* clears IF), so a system call is one step up to the point where it calls *)
(* sched(); the timer interrupts only user code and the boot code of main. *)
(* sched() is taken to return to the point where it was called (what the   *)
(* shared interrupt stack does to that is the subject of InterruptStack).  *)
(* Messages are taken to be printed without waiting for the serial port,   *)
(* except the one sys_exec prints while it holds the scheduler.            *)
(***************************************************************************)
EXTENDS Integers, Sequences, Functions, SequencesExt

CONSTANTS
    MaxTasks,     \* bound: tasks ever created, main included
    FilesMax,     \* CONFIG_TASK_FILES_MAX
    Ticks,        \* TASK_TICKS_DEFAULT
    ExitCodes,    \* the codes programs pass to exit
    Faults        \* the signals exceptions raise: SIGILL, SIGSEGV

ASSUME SchedAssumption ==
    /\ MaxTasks \in Nat \ {0}
    /\ FilesMax \in Nat \ {0}
    /\ Ticks \in Nat \ {0}
    /\ ExitCodes \subseteq 0 .. 255
    /\ Faults \subseteq {3, 5}

TaskId == 1 .. MaxTasks
None == 0                                \* the NULL task
Main == 1                                \* the task sched_init creates

TASK_PRIO_LOW == 1
TASK_PRIO_CR1TIKAL == 3
SIG_EXIT_CODE == 128

VARIABLES
    queue,        \* the task list from task_head along next
    current,      \* task_current
    cpu,          \* where the running task is: [at, arg]
    task,         \* the task_t of every task
    machine,      \* "run" or "panic"
    born,         \* tasks created so far
    died,         \* history: how each task died and who was told
    collected     \* history: the tasks whose status wait returned

vars == <<queue, current, cpu, task, machine, born, died, collected>>
history == <<died, collected>>

(***************************************************************************)
(* Program points.  "boot": main in entry(), interrupts on.  "user": user  *)
(* mode.  "fork", "wait", "exec": in that system call.  "print": in exec   *)
(* as well, once its message has had to wait for COM1.  In the two, arg    *)
(* tells whether interrupts are on.                                        *)
(* "stale": on a kernel stack that has since been overwritten; what        *)
(* follows is undefined and not modelled further.                          *)
(***************************************************************************)
At(place) == [at |-> place, arg |-> 0]

InterruptsOn == cpu.at \in {"boot", "user"} \/ (cpu.at \in {"exec", "print"} /\ cpu.arg = 1)

\* a task_t after heap_alloc and bzero
FreshTask ==
    [state |-> "FREE", ticks |-> 0, prio |-> 0, pid |-> 0, ppid |-> 0, cpid |-> 0,
     regs |-> At("user"), files |-> 0, waitq |-> <<>>, waitq_tail |-> 0]

Stopped == machine = "panic" \/ cpu.at = "stale"

Alive == [code |-> -1, sig |-> -1, to |-> None]

InQueue(t) == t \in ToSet(queue)
-----------------------------------------------------------------------------
(* Queue operations, on the list q of tasks T.                             *)

(***************************************************************************)
(* The tasks dlist_reveach(&task_tail) visits.  The first                  *)
(* __sched_queue_add sets task_tail to main and nothing moves it; main has *)
(* no predecessor.                                                         *)
(***************************************************************************)
RevEach(q) == {q[1]}

\* __sched_queue_add for a list that is not empty: after each visited task of
\* at least its priority, which can only be main
QueueAdd(q, T, t) ==
    IF \E u \in {q[1]} : T[t].prio =< T[u].prio THEN <<q[1], t>> \o Tail(q) ELSE q

\* __sched_pid
NextPid(q, T) == 1 + T[CHOOSE u \in RevEach(q) : \A v \in RevEach(q) : T[v].pid =< T[u].pid].pid

\* mutants of QueueNext: always the first task; waiting tasks are passed over
QueueNextHead(q, T, c) == q[1]
QueueNextSkipsWaiting(q, T, c) ==
    IF \E u \in ToSet(q) : T[u].state = "READY"
    THEN CHOOSE u \in ToSet(q) : T[u].state = "READY" /\ (u = c => \A v \in ToSet(q) : v = c \/ T[v].state # "READY")
    ELSE q[1]

\* __sched_queue_next: the first task after c, cyclically, that is not dead
QueueNext(q, T, c) ==
    LET i == IF c = None THEN 0 ELSE CHOOSE j \in DOMAIN q : q[j] = c
        after(k) == q[((i + k - 1) % Len(q)) + 1]
        steps == CHOOSE k \in 1 .. Len(q) :
                     /\ T[after(k)].state # "DEAD"
                     /\ \A m \in 1 .. (k - 1) : T[after(m)].state = "DEAD"
    IN  after(steps)

\* sched_find
Find(q, T, p) ==
    IF \E i \in DOMAIN q : T[q[i]].pid = p
    THEN q[CHOOSE i \in DOMAIN q : /\ T[q[i]].pid = p
                                   /\ \A j \in 1 .. (i - 1) : T[q[j]].pid # p]
    ELSE None

\* sched_child(task, NULL) is not NULL
HasChild(t) == \E u \in ToSet(queue) : task[u].ppid = task[t].pid
-----------------------------------------------------------------------------
(* The wait queue of a task: a list and the position its tail points to.   *)

\* task_waitq_add: the entry goes after the tail, and the tail stays
WaitqAdd(r, w) ==
    IF r.waitq = <<>> \/ r.waitq_tail = 0
    THEN [r EXCEPT !.waitq = <<w>>, !.waitq_tail = 1]
    ELSE [r EXCEPT !.waitq = Append(SubSeq(@, 1, r.waitq_tail), w)]

\* task_waitq_pop, for a list that is not empty
WaitqPop(r) ==
    [r EXCEPT !.waitq = Tail(@),
              !.waitq_tail = IF @ = 1 THEN (IF Len(r.waitq) > 1 THEN 1 ELSE 0) ELSE @ - 1]

\* mutant of Status: the two halves swapped
StatusSwapped(code, sig) == sig * 256 + (code % 65536)

Status(code, sig) == code * 256 + (sig % 65536)
-----------------------------------------------------------------------------
(* The interrupt handler __sched_timer_handler, in the parts that follow   *)
(* one another: save or load registers, switch when no ticks are left.     *)

\* task_ticks_reset, state = READY and ticks-- for the task switched to
Load(T, n) ==
    [T EXCEPT ![n].ticks = T[n].prio * Ticks - 1, ![n].state = "READY"]

\* the second half of the handler for a running task; p is what iret loads
Schedule(q, T, p) ==
    IF T[current].ticks =< 0
    THEN LET n == QueueNext(q, T, current)
         IN  /\ current' = n
             /\ cpu' = T[n].regs
             /\ task' = Load(T, n)
    ELSE /\ cpu' = p
         /\ task' = [T EXCEPT ![current].ticks = @ - 1, ![current].state = "READY"]
         /\ UNCHANGED current

\* mutant of SaveRegs: registers are not saved
SaveRegsNot(T, p) == T

\* task_update_regs
SaveRegs(T, p) == [T EXCEPT ![current].regs = p]

\* case TASK_STATE_WAIT: no ticks left
SkipTurn(T) == [T EXCEPT ![current].ticks = 0]

\* the timer interrupt
Tick ==
    /\ machine = "run"
    /\ InterruptsOn
    /\ \/ /\ task[current].state = "HOLD"
          /\ UNCHANGED <<current, cpu, task>>
       \/ /\ task[current].state = "READY"
          /\ Schedule(queue, SaveRegs(task, cpu), cpu)
    /\ UNCHANGED <<queue, machine, born, history>>

\* sched_wait, with the registers of the running task at p
YieldAt(p) ==
    LET T == [task EXCEPT ![current].state = "WAIT"]
    IN  Schedule(queue, SkipTurn(SaveRegs(T, p)), p)
-----------------------------------------------------------------------------
(* fork *)

\* case TASK_STATE_FORK, when task_copy succeeds
ForkCopy(T, t) ==
    LET p == NextPid(queue, T)
        copy == [FreshTask EXCEPT !.regs = T[current].regs, !.pid = p,
                                  !.ppid = T[current].pid, !.state = "READY",
                                  !.prio = TASK_PRIO_LOW]
    IN  [T EXCEPT ![t] = copy, ![current].cpid = p]

\* sys_fork up to sched(), which forks the task; ok is FALSE when task_copy fails
SysFork(ok) ==
    /\ machine = "run"
    /\ cpu.at = "user"
    /\ ok => born < MaxTasks
    /\ LET p == At("fork")
           T == SaveRegs([task EXCEPT ![current].state = "FORK"], p)
           t == born + 1
       IN  IF ok
           THEN LET U == ForkCopy(T, t)
                    q == QueueAdd(queue, U, t)
                IN  /\ queue' = q
                    /\ born' = t
                    /\ Schedule(q, U, p)
           ELSE /\ Schedule(queue, T, p)
                /\ UNCHANGED <<queue, born>>
    /\ UNCHANGED <<machine, history>>

\* sys_fork after sched(); what it returns to the program has no effect here
ForkReturn ==
    /\ machine = "run"
    /\ cpu.at = "fork"
    /\ cpu' = At("user")
    /\ UNCHANGED <<queue, current, task, machine, born, history>>
-----------------------------------------------------------------------------
(* wait *)

Pop ==
    /\ cpu' = At("user")
    /\ task' = [task EXCEPT ![current] = WaitqPop(@)]
    /\ collected' = collected \cup {Head(task[current].waitq).child}
    /\ UNCHANGED <<current, died>>

\* sys_wait as it is called
SysWait ==
    /\ machine = "run"
    /\ cpu.at = "user"
    /\ \/ /\ task[current].waitq # <<>>
          /\ Pop
       \/ /\ task[current].waitq = <<>>
          /\ HasChild(current)            \* otherwise -ECHILD, nothing changes
          /\ YieldAt(At("wait"))
          /\ UNCHANGED history
    /\ UNCHANGED <<queue, machine, born>>

\* the loop of sys_wait, each time sched() returns
WaitResume ==
    /\ machine = "run"
    /\ cpu.at = "wait"
    /\ \/ /\ task[current].waitq # <<>>
          /\ Pop
       \/ /\ task[current].waitq = <<>>
          /\ YieldAt(At("wait"))
          /\ UNCHANGED history
    /\ UNCHANGED <<queue, machine, born>>
-----------------------------------------------------------------------------
(* exit and fatal signals *)

\* mutant of Reparent: children keep the PID of their dead parent
ReparentNot(T) == T

\* attach child processes to the PID 1
Reparent(T) ==
    [t \in TaskId |-> IF InQueue(t) /\ T[t].ppid = T[current].pid
                      THEN [T[t] EXCEPT !.ppid = 1] ELSE T[t]]

\* mutant of Report: nobody is told
ReportNot(T, parent, dead, status) == T

\* __sched_queue_clean: the status goes to the parent's wait queue
Report(T, parent, dead, status) ==
    LET w == [pid |-> T[dead].pid, status |-> status, child |-> dead]
    IN  IF parent = None THEN T ELSE [T EXCEPT ![parent] = WaitqAdd(@, w)]

\* mutant of Unlink: the dead task stays in the list
UnlinkNot(q, t) == q

\* __sched_queue_del: the entry is taken out at its place
Unlink(q, t) == RemoveAt(q, CHOOSE i \in DOMAIN q : q[i] = t)

(***************************************************************************)
(* sched_exit and the handler call that follows: the task is dead, the     *)
(* next task is the first of the queue, and __sched_queue_clean frees the  *)
(* dead one.  task_free reads the file of every slot; a NULL slot faults   *)
(* at address 0, SIGSEGV is queued for the new current task, main, and the *)
(* nested handler ends in sched_exit's panic.                              *)
(***************************************************************************)
Exit(code, sig) ==
    IF current = queue[1]
    THEN /\ machine' = "panic"
         /\ UNCHANGED <<queue, current, cpu, task, history>>
    ELSE LET T == Reparent([task EXCEPT ![current].state = "DEAD"])
             n == QueueNext(queue, T, None)
             parent == Find(queue, T, T[current].ppid)
             U == Report(Load(T, n), parent, current, Status(code, sig))
         IN  /\ current' = n
             /\ cpu' = T[n].regs
             /\ queue' = Unlink(queue, current)
             /\ task' = [U EXCEPT ![current] = FreshTask]
             /\ machine' = IF task[current].files = FilesMax THEN "run" ELSE "panic"
             /\ died' = [died EXCEPT ![current] = [code |-> code, sig |-> sig, to |-> parent]]
             /\ UNCHANGED collected

\* sys_exit
SysExit(code) ==
    /\ machine = "run"
    /\ cpu.at = "user"
    /\ Exit(code, 0)
    /\ UNCHANGED born

\* an exception: __sched_exception_handler queues the signal, and
\* __sched_timer_handler pops it: every default action ends the task
Fault(sig) ==
    /\ machine = "run"
    /\ cpu.at = "user"
    /\ Exit(SIG_EXIT_CODE + sig, sig)
    /\ UNCHANGED born
-----------------------------------------------------------------------------
(* exec and open *)

\* mutant of Hold: the scheduler is not put on hold
HoldNot == "READY"

\* sched_hold
Hold == "HOLD"

\* sys_exec until its changes to the task are complete; it runs with interrupts on
\* only when entry() calls it.  Copying the arguments to the new stack cannot fail,
\* charlist_copy has applied the same limits.
ExecBegin ==
    /\ machine = "run"
    /\ cpu.at \in {"boot", "user"}
    /\ cpu' = [at |-> "exec", arg |-> IF cpu.at = "boot" THEN 1 ELSE 0]
    /\ task' = [task EXCEPT ![current].state = Hold, ![current].regs = At("user")]
    /\ UNCHANGED <<queue, current, machine, born, history>>

\* the message of sys_exec finds COM1 busy: __serial_port_write calls sched_wait,
\* which replaces the state HOLD
ExecPrint ==
    /\ machine = "run"
    /\ cpu.at \in {"exec", "print"}
    /\ YieldAt([cpu EXCEPT !.at = "print"])
    /\ UNCHANGED <<queue, machine, born, history>>

(***************************************************************************)
(* sched_prio, sched_done and sched() at the end of sys_exec: the handler  *)
(* loads the registers saved last.  If those are not user mode's, the      *)
(* kernel goes on in a call whose stack frame sys_exec has overwritten.    *)
(***************************************************************************)
ExecEnd ==
    LET r == IF task[current].regs.at = "user" THEN task[current].regs ELSE At("stale")
        T == [task EXCEPT ![current].prio = TASK_PRIO_LOW, ![current].state = "SAVE",
                          ![current].regs = r]
    IN  Schedule(queue, T, r)

ExecDone ==
    /\ machine = "run"
    /\ cpu.at \in {"exec", "print"}
    /\ ExecEnd
    /\ UNCHANGED <<queue, machine, born, history>>

\* sys_exec cannot open, load or close the program: goto end
ExecFail ==
    /\ machine = "run"
    /\ cpu.at \in {"boot", "user"}
    /\ ExecEnd
    /\ UNCHANGED <<queue, machine, born, history>>

\* a file slot is taken; which one is the business of TaskFiles
SysOpen ==
    /\ machine = "run"
    /\ cpu.at = "user"
    /\ task[current].files < FilesMax
    /\ task' = [task EXCEPT ![current].files = @ + 1]
    /\ UNCHANGED <<queue, current, cpu, machine, born, history>>

\* a file slot is given back
SysClose ==
    /\ machine = "run"
    /\ cpu.at = "user"
    /\ task[current].files > 0
    /\ task' = [task EXCEPT ![current].files = @ - 1]
    /\ UNCHANGED <<queue, current, cpu, machine, born, history>>

\* panic() never returns, and nothing is said after undefined behaviour
Halted == Stopped /\ UNCHANGED vars
-----------------------------------------------------------------------------
\* after sched_init's first sched() and sched_prio(CR1TIKAL) in entry()
Init ==
    /\ queue = <<Main>>
    /\ current = Main
    /\ cpu = At("boot")
    /\ task = [t \in TaskId |->
                  IF t = Main
                  THEN [FreshTask EXCEPT !.state = "READY", !.pid = 1, !.regs = At("boot"),
                                         !.prio = TASK_PRIO_CR1TIKAL, !.ticks = Ticks - 1]
                  ELSE FreshTask]
    /\ machine = "run"
    /\ born = 1
    /\ died = [t \in TaskId |-> Alive]
    /\ collected = {}

Kernel == ForkReturn \/ WaitResume \/ ExecPrint \/ ExecDone

Program ==
    \/ \E ok \in BOOLEAN : SysFork(ok)
    \/ SysWait
    \/ SysOpen
    \/ SysClose
    \/ \E code \in ExitCodes : SysExit(code)
    \/ \E sig \in Faults : Fault(sig)
    \/ ExecBegin
    \/ ExecFail

Next == Tick \/ Kernel \/ Program \/ Halted

(***************************************************************************)
(* The timer keeps firing, and code in the kernel runs to completion.      *)
(* Programs promise nothing.                                               *)
(***************************************************************************)
Spec == Init /\ [][Next]_vars /\ WF_vars(Tick) /\ WF_vars(Kernel)
-----------------------------------------------------------------------------
\* where a task is, running or not
Point(t) == IF t = current THEN cpu ELSE task[t].regs
Waiting(t) == ~Stopped /\ InQueue(t) /\ Point(t).at = "wait"

\* Types; in particular the 8-bit tick counter never wraps below 0 and no task
\* is in state DEAD, SAVE or FORK while it runs.
TypeOK ==
    /\ queue \in Seq(TaskId)
    /\ current \in TaskId
    /\ cpu \in [at : {"boot", "user", "fork", "wait", "exec", "print", "stale"}, arg : 0 .. MaxTasks]
    /\ \A t \in TaskId :
        /\ task[t].state \in {"FREE", "HOLD", "READY", "SAVE", "WAIT", "FORK"}
        /\ task[t].ticks \in 0 .. (TASK_PRIO_CR1TIKAL * Ticks - 1)
        /\ task[t].files \in 0 .. FilesMax
        /\ task[t].waitq_tail \in 0 .. Len(task[t].waitq)
    /\ task[current].state \in {"READY", "HOLD"}
    /\ machine \in {"run", "panic"}
    /\ born \in TaskId

(***************************************************************************)
(* The list the scheduler walks starts with main and holds every task that *)
(* is not freed exactly once, and the running task is in it: no sequence   *)
(* of forks, exits and faults makes sched.c lose or resurrect a task.      *)
(***************************************************************************)
QueueHoldsLiveTasks ==
    /\ queue[1] = Main
    /\ IsInjective(queue)
    /\ InQueue(current)
    /\ \A t \in TaskId : InQueue(t) <=> task[t].state # "FREE"

(***************************************************************************)
(* A task switched out by sched_wait resumes in the loop that called it,   *)
(* and one that is resumed there was switched out of it: the registers     *)
(* saved for TASK_STATE_WAIT are not overwritten by another task's         *)
(* interrupt.                                                              *)
(***************************************************************************)
WaitersResumeInWait ==
    \A t \in TaskId :
        machine = "run" /\ InQueue(t) /\ t # current =>
            (task[t].state = "WAIT" <=> task[t].regs.at \in {"wait", "print"})

(***************************************************************************)
(* Every death is reported to another task that is there to be told, in    *)
(* whatever order parents and children die and though tasks share PIDs:    *)
(* sched_exit leaves no corpse for which __sched_queue_clean finds no      *)
(* parent, or the corpse itself.                                           *)
(***************************************************************************)
DeathIsReported ==
    \A t \in TaskId : died[t] # Alive => died[t].to \notin {None, t}

(***************************************************************************)
(* When init waits, it has a child left or a status to collect, whatever   *)
(* its descendants did in between: init never sleeps for nothing.          *)
(***************************************************************************)
InitWaitIsFed ==
    Waiting(Main) => task[Main].waitq # <<>> \/ \E t \in ToSet(queue) : task[t].ppid = 1

(***************************************************************************)
(* Every entry of a wait queue is about a task that is gone, carries its   *)
(* exit code and signal as waitq.c packs them, exists once, and has not    *)
(* been returned by wait before.                                           *)
(***************************************************************************)
StatusIsTrue ==
    \A t \in ToSet(queue) : \A i \in DOMAIN task[t].waitq :
        LET w == task[t].waitq[i]
        IN  /\ ~InQueue(w.child)
            /\ died[w.child].to = t
            /\ w.status \div 256 = died[w.child].code
            /\ w.status % 256 = died[w.child].sig
            /\ w.child \notin collected
            /\ \A j \in DOMAIN task[t].waitq : i # j => task[t].waitq[j].child # w.child

(***************************************************************************)
(* While sys_exec changes the task, the registers it has prepared are not  *)
(* saved over, even when the timer interrupts it (main at boot), until its *)
(* message has to wait for COM1: if it does not have to, the new program   *)
(* starts at its entry.                                                    *)
(***************************************************************************)
ExecKeepsImage == cpu.at = "exec" => task[current].regs = At("user")

(***************************************************************************)
(* Every task in the list gets the CPU again, as long as the kernel does   *)
(* not panic: the round robin of __sched_queue_next passes nobody over     *)
(* (for the bounded number of forks of the model).                         *)
(***************************************************************************)
EveryTaskRuns ==
    \A t \in TaskId : InQueue(t) ~> (current = t \/ ~InQueue(t) \/ Stopped)

(***************************************************************************)
(* A task in sys_wait returns once a status is in its wait queue, though   *)
(* nothing ever takes it out of state WAIT but the scheduler's turn.       *)
(***************************************************************************)
WaitWakes ==
    \A t \in TaskId :
        (Waiting(t) /\ task[t].waitq # <<>>) ~> ~Waiting(t)
=============================================================================
