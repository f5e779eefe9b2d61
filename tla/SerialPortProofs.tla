-------------------------- MODULE SerialPortProofs --------------------------
(***************************************************************************)
(* OneWriter and TransfersAreUnbroken for any number of tasks and any size *)
(* of transfer.  The invariant adds that the lock is set whenever a task   *)
(* is in its loop, without which nothing stops a second task from entering,*)
(* and that a task waiting for the lock has moved nothing.                 *)
(***************************************************************************)
EXTENDS SerialPort, TLAPS

\* The initial state of the port satisfies the invariant.
LEMMA InitIInv == Init => IInv
BY SerialAssumption DEF Init, IInv, TypeOK, OneWriter, LockIsSet, TransfersAreUnbroken, Places, NothingMovedYet

\* Calls of the driver that take the lock or wait for it.
LEMMA AcquireIInv ==
    ASSUME IInv, NEW t \in Tasks, Acquire(t) \/ \E n \in 0 .. MaxSize : Call(t, n)
    PROVE  IInv'
<1>1. TypeOK'
    BY SerialAssumption DEF IInv, TypeOK, Acquire, Call, Switch, MayAcquire, Places
<1>2. NothingMovedYet' /\ OneWriter' /\ LockIsSet'
    BY DEF IInv, TypeOK, NothingMovedYet, OneWriter, LockIsSet, Acquire, Call, MayAcquire
<1>3. ASSUME NEW u \in Tasks, pc'[u] = "device", done'[u] > 0  PROVE last' = u
    <2>1. CASE Acquire(t)
        <3>1. CASE u = t
            BY <2>1, <3>1, <1>3 DEF IInv, TypeOK, NothingMovedYet, Acquire
        <3>2. CASE u # t
            BY <2>1, <3>2, <1>3 DEF IInv, TypeOK, TransfersAreUnbroken, Acquire
        <3>. QED BY <3>1, <3>2
    <2>2. ASSUME NEW n \in 0 .. MaxSize, Call(t, n)  PROVE last' = u
        BY <2>2, <1>3 DEF IInv, TypeOK, TransfersAreUnbroken, Call
    <2>. QED BY <2>1, <2>2
<1>. QED BY <1>1, <1>2, <1>3 DEF IInv, TransfersAreUnbroken

\* The bytes of a transfer and its end.
LEMMA MoveIInv ==
    ASSUME IInv, NEW t \in Tasks, Refuse(t) \/ Busy(t) \/ Byte(t) \/ Finish(t) \/ Fault(t)
    PROVE  IInv'
<1>1. TypeOK'
    <2>1. CASE Byte(t)
        BY <2>1, SerialAssumption DEF IInv, TypeOK, Byte, Moving
    <2>2. CASE Busy(t)
        BY <2>2 DEF IInv, TypeOK, Busy, Switch
    <2>3. CASE Finish(t)
        BY <2>3 DEF IInv, TypeOK, Finish, Released, Places
    <2>4. CASE Fault(t)
        BY <2>4 DEF IInv, TypeOK, Fault, Switch, Places
    <2>5. CASE Refuse(t)
        BY <2>5 DEF IInv, TypeOK, Refuse, Places
    <2>. QED BY <2>1, <2>2, <2>3, <2>4, <2>5
<1>2. NothingMovedYet' /\ OneWriter' /\ LockIsSet'
    BY DEF IInv, TypeOK, NothingMovedYet, OneWriter, LockIsSet, Refuse, Busy, Byte,
          Finish, Fault, Released, Moving
<1>3. TransfersAreUnbroken'
    BY DEF IInv, TypeOK, OneWriter, TransfersAreUnbroken, Refuse, Busy, Byte, Finish, Fault, Moving
<1>. QED BY <1>1, <1>2, <1>3 DEF IInv

\* Steps that leave the lock alone.
LEMMA OtherIInv ==
    ASSUME IInv, Preempt \/ PortReady \/ \E t \in Tasks, n \in 0 .. MaxSize : KernelCall(t, n)
    PROVE  IInv'
BY SerialAssumption DEF IInv, TypeOK, NothingMovedYet, OneWriter, LockIsSet,
                        TransfersAreUnbroken,
                        Preempt, PortReady, KernelCall, Switch, Places

\* The invariant of the driver holds in every reachable state.
THEOREM SerialInvariant == Spec => []IInv
<1>1. IInv /\ [Next]_vars => IInv'
    <2>1. CASE UNCHANGED vars
        BY <2>1 DEF vars, IInv, TypeOK, NothingMovedYet, OneWriter, LockIsSet, TransfersAreUnbroken
    <2>2. ASSUME IInv, Next  PROVE IInv'
        BY <2>2, AcquireIInv, MoveIInv, OtherIInv DEF Next
    <2>. QED BY <2>1, <2>2
<1>. QED BY InitIInv, <1>1, PTL DEF Spec

\* spinlock_acquire keeps a second task out of the loop of __serial_write.
THEOREM OneWriterAtATime == Spec => []OneWriter
BY SerialInvariant, PTL DEF IInv

\* The bytes tasks send through the device of a port are not mixed up.
THEOREM TransfersStayWhole == Spec => []TransfersAreUnbroken
BY SerialInvariant, PTL DEF IInv
=============================================================================
