----------------------------- MODULE SerialPort -----------------------------
(***************************************************************************)
(* A serial port (kernel/core/serial.c) that tasks use through its device  *)
(* (__serial_read, __serial_write) and the kernel for its messages         *)
(* (serial_read, serial_write), and the spinlock between them (util/lock.c).*)
(*                                                                         *)
(* The two directions have a lock and a status bit each and are otherwise  *)
(* the same: the module describes one of them.  Everything here runs with  *)
(* interrupts off, so a task keeps the CPU until it calls sched_wait;      *)
(* which task goes on then is left open.                                   *)
(***************************************************************************)
EXTENDS Integers

CONSTANTS
    Tasks,
    NoTask,
    MaxSize,      \* bound: bytes of a transfer
    BadBuffers    \* whether a buffer may be unmapped, which ends the task

ASSUME SerialAssumption ==
    /\ NoTask \notin Tasks
    /\ MaxSize \in Nat \ {0}
    /\ BadBuffers \in BOOLEAN

VARIABLES
    current,      \* task_current
    pc,           \* where each task is; see Places
    size,         \* bytes of the transfer of each task, as asked for
    done,         \* bytes already moved (cur_size)
    lock,         \* write_lock (or read_lock)
    available,    \* serial_init has found the port; does not change
    ready,        \* the status bit: the port can take (or has) a byte
    last          \* history: the task that moved the last byte through the device

vars == <<current, pc, size, done, lock, available, ready, last>>

(***************************************************************************)
(* "user": not in this driver.  "acquire": in spinlock_acquire.  "device": *)
(* in the loop of __serial_write, holding the lock.  "kernel": in the loop *)
(* of serial_write, without it.  "dead": killed by a fault.                *)
(***************************************************************************)
Places == {"user", "acquire", "device", "kernel", "dead"}

Init ==
    /\ current \in Tasks
    /\ pc = [t \in Tasks |-> "user"]
    /\ size = [t \in Tasks |-> 0]
    /\ done = [t \in Tasks |-> 0]
    /\ lock = 0
    /\ available \in BOOLEAN
    /\ ready \in {0, 1}
    /\ last = NoTask

\* sched_wait, the timer or the end of a task: any task that is alive may be next
Switch == current' \in {t \in Tasks : pc'[t] # "dead"}

\* the timer interrupts user code
Preempt ==
    /\ pc[current] = "user"
    /\ UNCHANGED <<pc, size, done, lock, available, ready, last>>
    /\ Switch

\* the hardware sends what it holds (or receives a byte)
PortReady ==
    /\ ready = 0
    /\ ready' = 1
    /\ UNCHANGED <<current, pc, size, done, lock, available, last>>

\* mutant of MayAcquire: the lock is not looked at again after sched_wait
MayAcquireAnyway(t) == pc[t] = "acquire" \/ lock = 0

\* !spinlock_locked, the condition that ends the loop of spinlock_acquire
MayAcquire(t) == lock = 0

\* __serial_write is called for n bytes; spinlock_acquire, first look at the lock
Call(t, n) ==
    /\ current = t
    /\ pc[t] = "user"
    /\ size' = [size EXCEPT ![t] = n]
    /\ done' = [done EXCEPT ![t] = 0]
    /\ \/ /\ MayAcquire(t)
          /\ lock' = 1
          /\ pc' = [pc EXCEPT ![t] = "device"]
          /\ UNCHANGED current
       \/ /\ ~MayAcquire(t)
          /\ pc' = [pc EXCEPT ![t] = "acquire"]
          /\ UNCHANGED lock
          /\ Switch
    /\ UNCHANGED <<available, ready, last>>

\* spinlock_acquire after sched_wait
Acquire(t) ==
    /\ current = t
    /\ pc[t] = "acquire"
    /\ \/ /\ MayAcquire(t)
          /\ lock' = 1
          /\ pc' = [pc EXCEPT ![t] = "device"]
          /\ UNCHANGED current
       \/ /\ ~MayAcquire(t)
          /\ UNCHANGED <<lock, pc>>
          /\ Switch
    /\ UNCHANGED <<size, done, available, ready, last>>

\* serial_write is called for n bytes: not while the port is locked
KernelCall(t, n) ==
    /\ current = t
    /\ pc[t] = "user"
    /\ lock = 0                              \* otherwise -EFAULT, nothing changes
    /\ size' = [size EXCEPT ![t] = n]
    /\ done' = [done EXCEPT ![t] = 0]
    /\ pc' = [pc EXCEPT ![t] = "kernel"]
    /\ UNCHANGED <<current, lock, available, ready, last>>

\* inside the loop over the bytes
Moving(t) == current = t /\ pc[t] \in {"device", "kernel"} /\ done[t] < size[t]

\* __serial_port_write for a port that is not available: the transfer returns the
\* error and the device keeps its lock.  (Such a port has no device in /dev.)
Refuse(t) ==
    /\ Moving(t)
    /\ ~available
    /\ pc' = [pc EXCEPT ![t] = "user"]
    /\ UNCHANGED <<current, size, done, lock, available, ready, last>>

\* __serial_port_write: the port is busy, sched_wait
Busy(t) ==
    /\ Moving(t)
    /\ available
    /\ ready = 0
    /\ UNCHANGED <<pc, size, done, lock, available, ready, last>>
    /\ Switch

\* __serial_port_write: a byte goes out; the port may have room for another
Byte(t) ==
    /\ Moving(t)
    /\ available
    /\ ready = 1
    /\ ready' \in {0, 1}
    /\ done' = [done EXCEPT ![t] = @ + 1]
    /\ last' = IF pc[t] = "device" THEN t ELSE last
    /\ UNCHANGED <<current, pc, size, lock, available>>

\* mutant of Released: the kernel's messages release the lock as well
ReleasedAlways(t) == 0

\* spinlock_release, at the end of a transfer through the device only
Released(t) == IF pc[t] = "device" THEN 0 ELSE lock

\* all bytes are moved
Finish(t) ==
    /\ current = t
    /\ pc[t] \in {"device", "kernel"}
    /\ done[t] = size[t]
    /\ lock' = Released(t)
    /\ pc' = [pc EXCEPT ![t] = "user"]
    /\ UNCHANGED <<current, size, done, available, ready, last>>

\* the next byte of the buffer is not mapped (read before the port is waited for,
\* or written after): a page fault in the kernel ends the task (sched.c,
\* __sched_exception_handler, and task_signal_pop), which does not return here
Fault(t) ==
    /\ BadBuffers
    /\ Moving(t)
    /\ pc[t] = "device"
    /\ \E u \in Tasks : u # t /\ pc[u] # "dead"
    /\ pc' = [pc EXCEPT ![t] = "dead"]
    /\ UNCHANGED <<size, done, lock, available, ready, last>>
    /\ Switch

Next ==
    \/ Preempt
    \/ PortReady
    \/ \E t \in Tasks :
        \/ \E n \in 0 .. MaxSize : Call(t, n) \/ KernelCall(t, n)
        \/ Acquire(t) \/ Refuse(t) \/ Busy(t) \/ Byte(t) \/ Finish(t) \/ Fault(t)

Spec == Init /\ [][Next]_vars
-----------------------------------------------------------------------------
\* Types; a transfer never moves more bytes than it was asked for.
TypeOK ==
    /\ current \in Tasks
    /\ pc \in [Tasks -> Places]
    /\ size \in [Tasks -> 0 .. MaxSize]
    /\ done \in [Tasks -> 0 .. MaxSize]
    /\ \A t \in Tasks : done[t] =< size[t]
    /\ lock \in {0, 1}
    /\ available \in BOOLEAN
    /\ ready \in {0, 1}
    /\ last \in Tasks \cup {NoTask}

(***************************************************************************)
(* No two tasks are in the loop of __serial_write of one port, though they *)
(* give up the CPU in the middle of it whenever the port is busy; a task   *)
(* that died in the loop keeps all others out of it.                       *)
(***************************************************************************)
OneWriter ==
    \A t, u \in Tasks : {pc[t], pc[u]} \subseteq {"device", "dead"} => t = u

\* The lock is set while a task is in its loop, and for ever once one died there
LockIsSet == \A t \in Tasks : pc[t] \in {"device", "dead"} => lock = 1

(***************************************************************************)
(* The bytes of one __serial_write follow one another: in the middle of a  *)
(* transfer the last byte that any task moved through the device is its    *)
(* own.                                                                    *)
(***************************************************************************)
TransfersAreUnbroken ==
    \A t \in Tasks : pc[t] = "device" /\ done[t] > 0 => last = t

\* a task that waits for the lock has not moved a byte of its transfer
NothingMovedYet == \A t \in Tasks : pc[t] = "acquire" => done[t] = 0

\* What every step of the driver preserves; inductive.
IInv ==
    /\ TypeOK
    /\ NothingMovedYet
    /\ OneWriter
    /\ LockIsSet
    /\ TransfersAreUnbroken
=============================================================================
