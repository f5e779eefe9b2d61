--------------------------- MODULE InterruptStack ---------------------------
(***************************************************************************)
(* The one word of the interrupt stack that all tasks share.  The macro    *)
(* sched() (inc/sched/sched.h) moves to the top of the interrupt stack,    *)
(* pushes its own stack pointer there, raises the timer interrupt and,     *)
(* when the task is resumed, pops the stack pointer back.  The top of that *)
(* stack is TSS rsp0, where the CPU also pushes SS for every interrupt in  *)
(* user mode.  A kernel stack pointer is named by the system call sched()  *)
(* is used in: the kernel stacks of all tasks have the same virtual        *)
(* address, so the same call has the same value in every task.  Which task *)
(* the scheduler picks is left open.                                       *)
(***************************************************************************)
CONSTANTS
    Tasks,
    Main          \* the first task

VARIABLES
    current,      \* task_current
    saved,        \* where each task continues: "user", or after sched() in a call
    top,          \* the word at im_stack() - 8
    rsp           \* the running task's stack: "user", or what sched() popped

vars == <<current, saved, top, rsp>>

Init ==
    /\ current = Main
    /\ saved = [t \in Tasks |-> IF t = Main THEN "user" ELSE "none"]
    /\ top = "ss"
    /\ rsp = "user"

\* the handler returns to task n: iret to user mode, or to the pop in sched()
SwitchTo(n, word, s) ==
    /\ s[n] # "none"
    /\ current' = n
    /\ top' = word
    /\ saved' = s
    /\ rsp' = IF s[n] = "user" THEN "user" ELSE word

\* the running task is on its own stack
Returned == saved[current] = rsp

\* the timer interrupts user code: the CPU pushes SS first
Interrupt(n) ==
    /\ saved[current] = "user"
    /\ SwitchTo(n, "ss", saved)

\* the word sched() leaves on the interrupt stack
Pushed(call) == call

\* sched() in sys_wait
Wait(n) ==
    /\ saved[current] \in {"user", "wait"}
    /\ Returned
    /\ SwitchTo(n, Pushed("wait"), [saved EXCEPT ![current] = "wait"])

\* sched() in sys_fork: the copy u continues where its parent does
Fork(u, n) ==
    /\ saved[current] = "user"
    /\ saved[u] = "none"
    /\ SwitchTo(n, Pushed("fork"), [saved EXCEPT ![current] = "fork", ![u] = "fork"])

\* sched() in sys_exec: the task continues with the registers of the new program
Exec(n) ==
    /\ saved[current] = "user"
    /\ SwitchTo(n, Pushed("exec"), saved)

\* sched() in sched_exit: the task never continues
Exit(n) ==
    /\ saved[current] = "user"
    /\ n # current
    /\ SwitchTo(n, Pushed("exit"), [saved EXCEPT ![current] = "none"])

\* the call goes on after sched() and returns to user mode
Return ==
    /\ saved[current] # "user"
    /\ Returned
    /\ saved' = [saved EXCEPT ![current] = "user"]
    /\ rsp' = "user"
    /\ UNCHANGED <<current, top>>

\* with a wrong stack pointer nothing is known
Lost == ~Returned /\ UNCHANGED vars

Next ==
    \/ \E n \in Tasks : Interrupt(n) \/ Wait(n) \/ Exec(n) \/ Exit(n)
    \/ \E n, u \in Tasks : Fork(u, n)
    \/ Return
    \/ Lost

Spec == Init /\ [][Next]_vars
-----------------------------------------------------------------------------
\* The scheduler saves "the registers so we'll continue where we left of when we
\* get to this task again" (sched.c): a resumed task is back on its own stack.
ContinuesWhereItLeft == Returned
=============================================================================
