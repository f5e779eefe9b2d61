----------------------------- MODULE AhciProofs -----------------------------
(***************************************************************************)
(* The AHCI driver, for any number of slots, descriptors, sectors and      *)
(* calls: the tables that the HBA may read are not written, the memory of  *)
(* a port is set up while it stands still, and, with a device whose        *)
(* signature came without the error byte, no command outlives its call.    *)
(***************************************************************************)
EXTENDS Ahci, SequenceTheorems, TLAPS

-----------------------------------------------------------------------------
(* The inductive invariant, by what the driver's place says about the HBA. *)

Starting == {"setup_st", "setup_cr", "setup_fr", "memory", "setup_start", "setup_fre"}
Resetting == {"reset_st", "reset_cr", "reset_fr", "reset_det", "reset_start", "reset_fre", "signature"}
Pending == {"setup", "busy", "issue", "poll", "error", "check"}
Running == Pending \cup {"idle"}
Waiting == {"poll", "error"}                    \* in the loop of ahci_cmd_issue

Op == {"read", "write", "info", "identify", "inquiry", "capacity"}

HbaCommand == [stage : {"move", "clear"}, slot : Slot, id : Nat, prd : Nat, places : Seq(Int)]

Types ==
    /\ pc \in {"init", "owned", "reset", "absent"} \cup Resetting \cup Starting \cup Running
    /\ todo \in {<<x>> : x \in Op} \cup {AtapiInfo, <<>>}
    /\ cmd \in [id : Nat, count : Nat, slot : Slot \cup {NoSlot}]
    /\ DOMAIN table = Slot
    /\ ci \subseteq Slot
    /\ seen \subseteq Slot
    /\ hba \in {Idle} \cup HbaCommand
    /\ done.id \in Nat
    /\ hr \in BOOLEAN /\ st \in BOOLEAN /\ cr \in BOOLEAN /\ fre \in BOOLEAN /\ fr \in BOOLEAN
    /\ bsy \in BOOLEAN /\ err \in BOOLEAN /\ halted \in BOOLEAN

\* ahci_init waits for the end of the reset
ResetIsOver == hr => pc = "reset"

\* no command before the port is set up
NothingIssued == pc \notin Running => ci = {} /\ hba = Idle /\ ~halted

\* ahci_port_stop and ahci_port_start have got their effect
StopsHold ==
    /\ pc \in {"reset_cr", "setup_cr"} => ~st
    /\ pc \in {"reset_fr", "setup_fr"} => ~st /\ ~cr /\ ~fre
    /\ pc \in {"reset_det", "reset_start", "memory", "setup_start"} => ~st /\ ~cr /\ ~fre /\ ~fr
    /\ pc \in Running \cup {"setup_fre"} => st

\* after the signature the device is busy with commands only
BusyWithCommand == pc \in Starting \cup Running => (bsy => hba.stage = "move")

\* the status is an error from the failure of a command on, which stops the HBA
ErrorStops == (err <=> halted) /\ (halted => hba = Idle)

\* the bits of CI, unless a failure has left some
BitsAreIssued ==
    ~halted =>
        /\ pc \in Running \ Waiting => ci = {} /\ hba = Idle
        /\ pc = "issue" => seen = {}
        /\ pc \in Waiting => /\ ci \subseteq {cmd.slot}
                             /\ hba # Idle => /\ hba.slot = cmd.slot /\ hba.id = cmd.id
                                              /\ cmd.slot \in ci

\* what ahci_cmd_setup has written
CommandIsWritten ==
    /\ pc \in Pending => todo # <<>>
    /\ pc \in Pending \ {"setup"} =>
           /\ cmd.slot \in Slot
           /\ table[cmd.slot].op = Head(todo) /\ table[cmd.slot].id = cmd.id

IsDone == done.id = cmd.id /\ done.op = Head(todo)

\* the command of the driver is completed when its bit is gone, and not before
DoneOnce ==
    /\ done.id =< cmd.id
    /\ pc \in {"setup", "busy", "issue"} => ~IsDone
    /\ pc \in Waiting /\ ~halted => (IsDone <=> (cmd.slot \notin ci \/ hba.stage = "clear"))
    /\ pc = "check" /\ ~halted => IsDone
    /\ pc \in Pending /\ todo = AtapiInfo /\ done.id = cmd.id => done.op = "inquiry"

\* ahci_do has returned 0: its last command is completed without an error
OkIsDone ==
    ret = "ok" => pc \in Running /\ (pc = "idle" => ~err /\ done.id = cmd.id)

Control ==
    /\ Types
    /\ ResetIsOver
    /\ NothingIssued
    /\ StopsHold
    /\ BusyWithCommand
    /\ ErrorStops
    /\ BitsAreIssued
    /\ CommandIsWritten
    /\ DoneOnce
    /\ OkIsDone
-----------------------------------------------------------------------------
(* The data: what the driver asks for, what the descriptors say, and what  *)
(* the HBA has moved.                                                      *)

DataTypes ==
    /\ protocol \in {"none", "SATA", "ATAPI"}
    /\ sectorSize \in Nat \ {0}

\* what is asked for is not empty and can be said in the sector count
RequestFits ==
    pc \in Pending /\ Head(todo) \in {"read", "write"} =>
        cmd.count >= 1 /\ (protocol = "SATA" => cmd.count =< CountRange)

\* the rest of what ahci_cmd_setup has written
DataIsWritten ==
    pc \in Pending \ {"setup"} =>
        /\ table[cmd.slot].sectors = Sectors
        /\ table[cmd.slot].prdt = Prdt(DataSize(Head(todo)))

\* the first n places of the buffer, in order
FirstPlaces(n) == [i \in 1 .. n |-> i - 1]

\* data of the first hba.prd descriptors has been moved
MovedInOrder ==
    hba.stage = "move" =>
        LET size == DataSize(Head(todo))
        IN  /\ hba.prd =< Prdtl(size)
            /\ hba.places = FirstPlaces(IF hba.prd = Prdtl(size) THEN size ELSE hba.prd * PrdDataMax)

\* the commands that are completed have moved all of their data
DoneIsWhole == done.asked \in Nat /\ done.places = FirstPlaces(done.asked)

Data ==
    /\ DataTypes
    /\ RequestFits
    /\ DataIsWritten
    /\ MovedInOrder
    /\ DoneIsWhole

IInv == Control /\ Data
-----------------------------------------------------------------------------
(* The descriptors of a command.                                           *)

\* A product with a larger factor is no smaller.
LEMMA Products ==
    ASSUME NEW a \in Nat, NEW b \in Nat, NEW p \in Nat, a =< b
    PROVE  a * p \in Nat /\ b * p \in Nat /\ a * p =< b * p
<1>1. PICK d \in Nat : b = a + d
  BY b - a \in Nat
<1>2. b * p = a * p + d * p /\ d * p \in Nat /\ a * p \in Nat
  BY <1>1
<1> QED BY <1>2

\* ahci_prdtl_from_size: the descriptors are enough, and one less are not.
LEMMA EnoughDescriptors ==
    ASSUME NEW size \in Nat \ {0}
    PROVE  /\ Prdtl(size) \in Nat \ {0}
           /\ (Prdtl(size) - 1) * PrdDataMax < size
           /\ size =< Prdtl(size) * PrdDataMax
<1> DEFINE P == PrdDataMax
           a == size + P - 1
           n == a \div P
<1>1. P \in Nat \ {0}
  BY AhciAssumption
<1>2. a \in Nat /\ a >= P
  BY <1>1
<1>3. n \in Int /\ P * n =< a /\ a < P * n + P
  <2> HIDE DEF a, P
  <2> QED BY <1>1, <1>2
<1> HIDE DEF n
<1>4. n >= 1
  <2> SUFFICES ASSUME n =< 0 PROVE FALSE
    BY <1>3
  <2>1. PICK d \in Nat : n = 0 - d
    BY <1>3, 0 - n \in Nat
  <2>2. P * n = 0 - P * d /\ P * d \in Nat
    BY <1>1, <2>1
  <2> QED BY <1>1, <1>2, <1>3, <2>2
<1>5. (n - 1) * P = P * n - P /\ n * P = P * n /\ P * n \in Int
  BY <1>1, <1>3
<1>6. (n - 1) * P < size /\ size =< n * P
  BY <1>1, <1>3, <1>5
<1> QED BY <1>3, <1>4, <1>6 DEF n, Prdtl

\* What the k-th descriptor covers.
LEMMA Descriptor ==
    ASSUME NEW size \in Nat \ {0}, NEW k \in Nat, k < Prdtl(size)
    PROVE  /\ k + 1 \in DOMAIN Prdt(size) /\ Len(Prdt(size)) = Prdtl(size)
           /\ Prdt(size)[k + 1].from = k * PrdDataMax
           /\ k * PrdDataMax \in Nat /\ k * PrdDataMax < size
           /\ k + 1 = Prdtl(size) => Prdt(size)[k + 1].len = size - k * PrdDataMax
           /\ k + 1 # Prdtl(size) => /\ Prdt(size)[k + 1].len = PrdDataMax
                                     /\ (k + 1) * PrdDataMax < size
                                     /\ (k + 1) * PrdDataMax = k * PrdDataMax + PrdDataMax
<1>1. /\ PrdDataMax \in Nat \ {0} /\ Prdtl(size) \in Nat \ {0}
      /\ (Prdtl(size) - 1) * PrdDataMax < size
  BY AhciAssumption, EnoughDescriptors
<1>2. /\ DOMAIN Prdt(size) = 1 .. Prdtl(size) /\ k + 1 \in 1 .. Prdtl(size)
      /\ Len(Prdt(size)) = Prdtl(size)
  BY <1>1 DEF Prdt
<1>3. /\ Prdt(size)[k + 1].from = k * PrdDataMax
      /\ Prdt(size)[k + 1].len =
             IF k + 1 = Prdtl(size) THEN size - k * PrdDataMax ELSE PrdDataMax
  <2>1. (k + 1) - 1 = k
    OBVIOUS
  <2> QED BY <1>2, <2>1 DEF Prdt
<1>4. k * PrdDataMax \in Nat /\ k * PrdDataMax =< (Prdtl(size) - 1) * PrdDataMax
      /\ (Prdtl(size) - 1) * PrdDataMax \in Nat
  BY <1>1, Products, Prdtl(size) - 1 \in Nat, k =< Prdtl(size) - 1
<1>5. CASE k + 1 = Prdtl(size)
  BY <1>1, <1>2, <1>3, <1>4, <1>5
<1>6. CASE k + 1 # Prdtl(size)
  <2>1. (k + 1) * PrdDataMax \in Nat /\ (k + 1) * PrdDataMax =< (Prdtl(size) - 1) * PrdDataMax
    BY <1>1, <1>6, Products, Prdtl(size) - 1 \in Nat, k + 1 \in Nat, k + 1 =< Prdtl(size) - 1
  <2>2. (k + 1) * PrdDataMax = k * PrdDataMax + PrdDataMax
    BY <1>1
  <2> QED BY <1>1, <1>2, <1>3, <1>4, <1>6, <2>1, <2>2
<1> QED BY <1>5, <1>6

\* Places of the buffer are added in order.
LEMMA AddPlaces ==
    ASSUME NEW n \in Nat, NEW m \in Nat
    PROVE  FirstPlaces(n) \o [k \in 1 .. m |-> n + k - 1] = FirstPlaces(n + m)
<1> DEFINE s == FirstPlaces(n)
           t == [k \in 1 .. m |-> n + k - 1]
<1>1. s \in Seq(Int) /\ Len(s) = n /\ t \in Seq(Int) /\ Len(t) = m
  BY DEF FirstPlaces
<1>2. (\A i \in 1 .. n : s[i] = i - 1) /\ (\A k \in 1 .. m : t[k] = n + k - 1)
  BY DEF FirstPlaces
<1> HIDE DEF s, t
<1>3. \A i \in 1 .. (n + m) : (s \o t)[i] = i - 1
  <2> SUFFICES ASSUME NEW i \in 1 .. (n + m) PROVE (s \o t)[i] = i - 1
    OBVIOUS
  <2>1. CASE i =< n
    <3>1. (s \o t)[i] = s[i] /\ i \in 1 .. n
      BY <1>1, <2>1
    <3> QED BY <1>2, <3>1
  <2>2. CASE ~(i =< n)
    <3>1. i - n \in 1 .. m
      BY <2>2
    <3>2. (s \o t)[i] = t[i - n]
      BY <1>1, <2>2, ConcatProperties
    <3>3. t[i - n] = n + (i - n) - 1
      BY <1>2, <3>1
    <3> QED BY <3>1, <3>2, <3>3
  <2> QED BY <2>1, <2>2
<1>4. s \o t \in Seq(Int) /\ Len(s \o t) = n + m
  BY <1>1
<1>5. FirstPlaces(n + m) \in Seq(Int) /\ Len(FirstPlaces(n + m)) = n + m
  BY DEF FirstPlaces
<1>6. \A i \in 1 .. (n + m) : FirstPlaces(n + m)[i] = i - 1
  BY DEF FirstPlaces
<1>7. s \o t = FirstPlaces(n + m)
  BY <1>3, <1>4, <1>5, <1>6, SeqEqual
<1> QED BY <1>7 DEF s, t

\* What the HBA finds in the table of a command is what was asked for.
LEMMA AmountAsked ==
    ASSUME IInv, hba.stage = "move"
    PROVE  /\ pc \in Waiting /\ hba \in HbaCommand /\ hba.slot \in Slot
           /\ DataSize(Head(todo)) \in Nat \ {0}
           /\ table[hba.slot].op = Head(todo)
           /\ table[hba.slot].prdt = Prdt(DataSize(Head(todo)))
           /\ Amount(table[hba.slot]) = DataSize(Head(todo))
<1> DEFINE t == table[hba.slot]
<1>1. /\ pc \in Waiting /\ pc \in Pending \ {"setup"} /\ hba \in HbaCommand
      /\ hba.slot = cmd.slot /\ hba.slot \in Slot
  BY DEF IInv, Control, Types, Idle, NothingIssued, ErrorStops, BitsAreIssued,
         HbaCommand, Waiting, Running, Pending
<1>2. t.op = Head(todo) /\ t.sectors = Sectors /\ t.prdt = Prdt(DataSize(Head(todo)))
  BY <1>1 DEF IInv, Control, CommandIsWritten, Data, DataIsWritten
<1>3. /\ cmd.count \in Nat /\ sectorSize \in Nat \ {0} /\ CountRange \in Nat \ {0}
  BY AhciAssumption DEF IInv, Control, Types, Data, DataTypes
<1> HIDE DEF t
<1>4. CASE Head(todo) \in {"read", "write"}
  <2>1. cmd.count >= 1 /\ (protocol = "SATA" => cmd.count =< CountRange)
    BY <1>1, <1>4 DEF IInv, Data, RequestFits
  <2>2. (IF Sectors = 0 THEN CountRange ELSE Sectors) = cmd.count
    <3>1. CASE protocol = "SATA" /\ cmd.count < CountRange
      <4>1. cmd.count % CountRange = cmd.count
        BY <1>3, <3>1
      <4> QED BY <2>1, <3>1, <4>1, <1>3 DEF Sectors
    <3>2. CASE protocol = "SATA" /\ cmd.count = CountRange
      <4>1. cmd.count % CountRange = 0
        BY <1>3, <3>2
      <4> QED BY <3>2, <4>1 DEF Sectors
    <3>3. CASE protocol # "SATA"
      BY <1>3, <2>1, <3>3 DEF Sectors
    <3> QED BY <1>3, <2>1, <3>1, <3>2, <3>3
  <2>3. cmd.count * sectorSize \in Nat \ {0}
    BY <1>3, <2>1
  <2> QED BY <1>1, <1>2, <1>4, <2>2, <2>3 DEF Amount, DataSize, t
<1>5. CASE Head(todo) \notin {"read", "write"}
  BY <1>1, <1>2, <1>5 DEF Amount, DataSize, t
<1> QED BY <1>4, <1>5

\* The HBA moves the data of the next descriptor to the next places.
LEMMA MoveInOrder ==
    ASSUME IInv, Move
    PROVE  hba' \in HbaCommand /\ MovedInOrder'
<1> DEFINE t == table[hba.slot]
           size == DataSize(Head(todo))
           P == PrdDataMax
           left == Amount(t) - Len(hba.places)
           d == t.prdt[hba.prd + 1]
<1>1. /\ hba.stage = "move" /\ hba.prd < Len(t.prdt) /\ left > 0
      /\ hba' = [hba EXCEPT !.prd = hba.prd + 1, !.places = hba.places \o Places(d, left)]
      /\ UNCHANGED <<driver, boot, run, ready, table, ci, det, bsy, err, sigErr, halted, done>>
  BY DEF Move
<1>2. /\ size \in Nat \ {0} /\ t.prdt = Prdt(size) /\ Amount(t) = size /\ hba \in HbaCommand
      /\ P \in Nat \ {0}
  BY <1>1, AmountAsked, AhciAssumption
<1>3. hba.prd \in Nat /\ Prdtl(size) \in Nat
  BY <1>2, EnoughDescriptors DEF HbaCommand
<1>4. hba.prd < Prdtl(size)
  BY <1>1, <1>2, <1>3 DEF Prdt
<1>5. /\ d.from = hba.prd * P /\ hba.prd * P \in Nat /\ hba.prd * P < size
      /\ hba.prd + 1 = Prdtl(size) => d.len = size - hba.prd * P
      /\ hba.prd + 1 # Prdtl(size) => /\ d.len = P /\ (hba.prd + 1) * P < size
                                      /\ (hba.prd + 1) * P = hba.prd * P + P
  <2>1. d = Prdt(size)[hba.prd + 1]
    BY <1>2
  <2> HIDE DEF d, size
  <2> QED BY <1>2, <1>3, <1>4, <2>1, Descriptor
<1>6. hba.places = FirstPlaces(hba.prd * P) /\ Len(hba.places) = hba.prd * P
  <2>1. hba.places = FirstPlaces(hba.prd * P)
    BY <1>1, <1>3, <1>4 DEF IInv, Data, MovedInOrder
  <2> QED BY <1>5, <2>1 DEF FirstPlaces
<1> DEFINE n == IF hba.prd + 1 = Prdtl(size) THEN size ELSE (hba.prd + 1) * P
<1>7. n \in Nat /\ Share(d, left) \in Nat /\ n = hba.prd * P + Share(d, left)
  <2>1. left = size - hba.prd * P
    BY <1>2, <1>6
  <2> HIDE DEF left, d, size, P
  <2>2. CASE hba.prd + 1 = Prdtl(size)
    BY <1>2, <1>5, <2>1, <2>2 DEF Share
  <2>3. CASE hba.prd + 1 # Prdtl(size)
    BY <1>2, <1>5, <2>1, <2>3 DEF Share
  <2> QED BY <2>2, <2>3
<1>8. hba.places \o Places(d, left) = FirstPlaces(n)
  <2>1. Places(d, left) = [k \in 1 .. Share(d, left) |-> hba.prd * P + k - 1]
    BY <1>5 DEF Places
  <2> HIDE DEF n, d, left, P
  <2> QED BY <1>5, <1>6, <1>7, <2>1, AddPlaces
<1>9. FirstPlaces(n) \in Seq(Int)
  BY <1>7 DEF FirstPlaces
<1>10. hba' = [hba EXCEPT !.prd = hba.prd + 1, !.places = FirstPlaces(n)]
  BY <1>1, <1>8
<1> HIDE DEF n
<1>11. /\ hba' \in HbaCommand /\ hba'.prd = hba.prd + 1 /\ hba'.places = FirstPlaces(n)
  <2> DEFINE q == FirstPlaces(n)
  <2>1. /\ hba \in HbaCommand /\ hba.prd + 1 \in Nat /\ q \in Seq(Int)
        /\ hba' = [hba EXCEPT !.prd = hba.prd + 1, !.places = q]
    BY <1>2, <1>3, <1>9, <1>10
  <2> HIDE DEF q
  <2>2. hba' \in HbaCommand /\ hba'.prd = hba.prd + 1 /\ hba'.places = q
    BY <2>1 DEF HbaCommand
  <2> QED BY <2>2 DEF q
<1>12. DataSize(Head(todo))' = size
  BY <1>1 DEF DataSize, driver
<1> HIDE DEF size
<1> QED BY <1>3, <1>4, <1>11, <1>12 DEF MovedInOrder, n, Prdtl
-----------------------------------------------------------------------------
(* Control, one case for each action.                                      *)

\* The state that the driver finds.
LEMMA InitControl ==
    ASSUME Init
    PROVE  Control
<1> USE DEF Init, Starting, Resetting, Pending, Running, Waiting
<1>1. Types
  BY DEF Types, AtapiInfo
<1>2. /\ ResetIsOver /\ NothingIssued /\ StopsHold /\ BusyWithCommand /\ ErrorStops
      /\ BitsAreIssued /\ CommandIsWritten /\ DoneOnce /\ OkIsDone
  BY DEF ResetIsOver, NothingIssued, StopsHold, BusyWithCommand, ErrorStops, BitsAreIssued,
         CommandIsWritten, DoneOnce, OkIsDone
<1> QED BY <1>1, <1>2 DEF Control

\* ahci_init, ahci_port_stop, ahci_port_start and ahci_port_setup.
LEMMA SetupsControl ==
    ASSUME Control, Setups
    PROVE  Control'
<1> USE DEF Control, Types, ResetIsOver, NothingIssued, StopsHold, BusyWithCommand, ErrorStops,
            BitsAreIssued, CommandIsWritten, DoneOnce, OkIsDone, IsDone,
            Starting, Resetting, Pending, Running, Waiting, driver, boot, run, device
<1>1. CASE Handoff
  BY <1>1 DEF Handoff
<1>2. CASE StartReset
  BY <1>2 DEF StartReset
<1>3. CASE Connected
  BY <1>3 DEF Connected
<1>4. CASE StopList
  <2>1. pc' = IF pc = "reset_st" THEN "reset_cr" ELSE "setup_cr"
    BY <1>4 DEF StopList, After
  <2>2. Types'
    <3>1. /\ pc' \in Resetting \cup Starting /\ st' \in BOOLEAN
          /\ UNCHANGED <<todo, cmd, seen, boot, cr, fre, fr, table, ci, device>>
      BY <1>4, <2>1 DEF StopList
    <3> QED BY <3>1
  <2>3. ResetIsOver' /\ NothingIssued' /\ StopsHold' /\ BusyWithCommand' /\ ErrorStops'
    BY <1>4, <2>1 DEF StopList
  <2>4. BitsAreIssued' /\ CommandIsWritten' /\ DoneOnce' /\ OkIsDone'
    BY <1>4, <2>1 DEF StopList
  <2> QED BY <2>2, <2>3, <2>4
<1>5. CASE StopReceive
  <2>1. pc' = IF pc = "reset_cr" THEN "reset_fr" ELSE "setup_fr"
    BY <1>5 DEF StopReceive, After
  <2>2. Types'
    BY <1>5, <2>1 DEF StopReceive
  <2>3. ResetIsOver' /\ NothingIssued' /\ StopsHold' /\ BusyWithCommand' /\ ErrorStops'
    BY <1>5, <2>1 DEF StopReceive
  <2>4. BitsAreIssued' /\ CommandIsWritten' /\ DoneOnce' /\ OkIsDone'
    BY <1>5, <2>1 DEF StopReceive
  <2> QED BY <2>2, <2>3, <2>4
<1>6. CASE Stopped
  <2>1. pc' = "memory"
    BY <1>6 DEF Stopped, After
  <2>2. Types'
    BY <1>6, <2>1 DEF Stopped
  <2>3. ResetIsOver' /\ NothingIssued' /\ StopsHold' /\ BusyWithCommand' /\ ErrorStops'
    BY <1>6, <2>1 DEF Stopped
  <2>4. BitsAreIssued' /\ CommandIsWritten' /\ DoneOnce' /\ OkIsDone'
    BY <1>6, <2>1 DEF Stopped
  <2> QED BY <2>2, <2>3, <2>4
<1>11. CASE Comreset
  <2>1. pc = "reset_fr" /\ ~fr /\ pc' = "reset_det" /\ (bsy' = bsy \/ bsy' = TRUE)
        /\ UNCHANGED <<todo, cmd, seen, ret, boot, run, table, ci, err, hba, halted, done>>
    BY <1>11 DEF Comreset, After
  <2>2. Types'
    BY <2>1
  <2>3. ResetIsOver' /\ NothingIssued' /\ StopsHold' /\ BusyWithCommand' /\ ErrorStops'
    BY <2>1
  <2>4. BitsAreIssued' /\ CommandIsWritten' /\ DoneOnce' /\ OkIsDone'
    BY <2>1
  <2> QED BY <2>2, <2>3, <2>4
<1>12. CASE WaitLink
  <2>1. pc = "reset_det" /\ pc' = "reset_start"
        /\ UNCHANGED <<todo, cmd, seen, ret, boot, run, table, ci, device>>
    BY <1>12 DEF WaitLink, After
  <2>2. Types'
    BY <2>1
  <2>3. ResetIsOver' /\ NothingIssued' /\ StopsHold' /\ BusyWithCommand' /\ ErrorStops'
    BY <2>1
  <2>4. BitsAreIssued' /\ CommandIsWritten' /\ DoneOnce' /\ OkIsDone'
    BY <2>1
  <2> QED BY <2>2, <2>3, <2>4
<1>7. CASE StartList
  <2>1. pc' = IF pc = "reset_start" THEN "reset_fre" ELSE "setup_fre"
    BY <1>7 DEF StartList, After
  <2> QED BY <1>7, <2>1 DEF StartList
<1>8. CASE StartReceive
  <2>1. pc' = IF pc = "reset_fre" THEN "signature" ELSE "idle"
    BY <1>8 DEF StartReceive, After
  <2> QED BY <1>8, <2>1 DEF StartReceive
<1>9. CASE CheckSignature
  BY <1>9 DEF CheckSignature
<1>10. CASE SetupMemory
  BY <1>10 DEF SetupMemory
<1> QED
  BY <1>1, <1>2, <1>3, <1>4, <1>5, <1>6, <1>7, <1>8, <1>9, <1>10, <1>11, <1>12 DEF Setups

\* A call of ahci_do.
LEMMA CallControl ==
    ASSUME Control, NEW op \in {"read", "write", "info"}, NEW count \in Counts, Call(op, count)
    PROVE  Control'
<1> USE DEF Control, Types, ResetIsOver, NothingIssued, StopsHold, BusyWithCommand, ErrorStops,
            BitsAreIssued, CommandIsWritten, DoneOnce, OkIsDone, IsDone,
            Starting, Resetting, Pending, Running, Waiting, driver, boot, run, device
<1>1. Commands(op) \in {<<x>> : x \in Op} \cup {AtapiInfo} /\ Commands(op) # <<>>
  BY DEF Commands, AtapiInfo, Op
<1>2. count \in Nat /\ cmd.id \in Nat /\ cmd.id + 1 \in Nat
  BY AhciAssumption
<1>3. CASE op # "info" /\ count = 0
  <2>1. /\ pc = "idle" /\ ret' = "EINVAL" /\ cmd' = [cmd EXCEPT !.id = cmd.id + 1]
        /\ UNCHANGED <<pc, todo, protocol, sectorSize, seen, boot, run, ready, table, ci, device>>
    BY <1>3 DEF Call
  <2> QED BY <1>2, <2>1
<1>4. CASE ~(op # "info" /\ count = 0)
  <2>1. /\ pc = "idle" /\ pc' = "setup" /\ todo' = Commands(op)
        /\ cmd' = [id |-> cmd.id + 1, count |-> count, slot |-> NoSlot]
        /\ UNCHANGED <<ret, protocol, sectorSize, seen, boot, run, ready, table, ci, device>>
    BY <1>4 DEF Call
  <2>2. Types'
    BY <1>1, <1>2, <2>1
  <2>3. CommandIsWritten' /\ DoneOnce'
    BY <1>1, <1>2, <2>1
  <2>4. /\ ResetIsOver' /\ NothingIssued' /\ StopsHold' /\ BusyWithCommand' /\ ErrorStops'
        /\ BitsAreIssued' /\ OkIsDone'
    BY <2>1
  <2> QED BY <2>2, <2>3, <2>4
<1> QED BY <1>3, <1>4

\* The command of the driver: ahci_cmd_setup and ahci_cmd_issue.
LEMMA IssuesControl ==
    ASSUME Control, Issues
    PROVE  Control'
<1> USE DEF Control, Types, ResetIsOver, NothingIssued, StopsHold, BusyWithCommand, ErrorStops,
            BitsAreIssued, CommandIsWritten, DoneOnce, OkIsDone, IsDone,
            Starting, Resetting, Pending, Running, Waiting, driver, boot, run, device
<1>1. CASE Setup
  BY <1>1 DEF Setup
<1>2. CASE Full
  BY <1>2 DEF Full, Fail
<1>3. CASE WaitReady
  BY <1>3 DEF WaitReady
<1>4. CASE Issue
  <2>1. /\ pc = "issue" /\ pc' = "poll" /\ ci' = ci \cup seen \cup {cmd.slot}
        /\ seen' = {}
        /\ UNCHANGED <<protocol, sectorSize, todo, cmd, ret, boot, run, ready, table, device>>
    BY <1>4 DEF Issue
  <2>2. ~halted => ci' = {cmd.slot} /\ hba = Idle /\ hba.stage = "idle"
    BY <2>1 DEF Idle
  <2>3. BitsAreIssued' /\ DoneOnce'
    BY <2>1, <2>2
  <2>4. /\ Types' /\ ResetIsOver' /\ NothingIssued' /\ StopsHold' /\ BusyWithCommand' /\ ErrorStops'
        /\ CommandIsWritten' /\ OkIsDone'
    BY <2>1
  <2> QED BY <2>3, <2>4
<1>5. CASE Poll
  BY <1>5 DEF Poll
<1>6. CASE PollError
  BY <1>6 DEF PollError, Fail
<1>7. CASE Check
  <2>1. UNCHANGED <<protocol, cmd, seen, boot, run, ready, table, ci, device>> /\ pc = "check"
    BY <1>7 DEF Check
  <2>2. CASE err
    BY <1>7, <2>1, <2>2 DEF Check, Fail
  <2>3. CASE ~err /\ todo = AtapiInfo
    <3>1. todo' = Tail(todo) /\ todo = <<"inquiry", "capacity">>
      BY <1>7, <2>3 DEF Check, AtapiInfo
    <3>2. todo' = <<"capacity">> /\ todo' # <<>> /\ Head(todo') = "capacity" /\ Head(todo) = "inquiry"
      BY ONLY <3>1
    <3>3. pc' = "setup" /\ ret' = ret /\ todo' # AtapiInfo
      BY <1>7, <2>3, <3>2 DEF Check, AtapiInfo
    <3>4. todo' \in {<<x>> : x \in Op}
      BY <3>2 DEF Op
    <3> QED BY <2>1, <2>3, <3>2, <3>3, <3>4
  <2>4. CASE ~err /\ todo # AtapiInfo
    <3>1. PICK x \in Op : todo = <<x>>
      BY <2>1, <2>4
    <3>2. todo' = <<>> /\ pc' = "idle" /\ ret' = "ok"
      BY <1>7, <2>4, <3>1 DEF Check
    <3> QED BY <2>1, <2>4, <3>2
  <2> QED BY <2>2, <2>3, <2>4
<1> QED
  BY <1>1, <1>2, <1>3, <1>4, <1>5, <1>6, <1>7 DEF Issues

\* The HBA and the device, whose signature has come without the error byte.
LEMMA HbaControl ==
    ASSUME IInv, Hba, ~sigErr'
    PROVE  Control'
<1> Control
  BY DEF IInv
<1> USE DEF Control, Types, ResetIsOver, NothingIssued, StopsHold, BusyWithCommand, ErrorStops,
            BitsAreIssued, CommandIsWritten, DoneOnce, OkIsDone, IsDone,
            Starting, Resetting, Pending, Running, Waiting, driver, boot, run, device, Idle, HbaCommand
<1>1. CASE Release
  BY <1>1 DEF Release
<1>2. CASE Reset
  BY <1>2 DEF Reset
<1>3. CASE Signature
  <2>1. err' = FALSE /\ ~hr /\ bsy /\ hba = Idle /\ bsy' = FALSE
    BY <1>3 DEF Signature
  <2>2. pc \notin Starting \cup Running /\ ~halted
    BY <2>1
  <2>3. UNCHANGED <<driver, boot, run, ready, table, ci, hba, halted, done>>
    BY <1>3 DEF Signature
  <2>4. Types'
    <3>1. err' \in BOOLEAN /\ bsy' \in BOOLEAN
      BY <2>1
    <3> QED BY <2>3, <3>1
  <2>5. /\ ResetIsOver' /\ NothingIssued' /\ StopsHold' /\ BusyWithCommand' /\ ErrorStops'
        /\ BitsAreIssued' /\ CommandIsWritten' /\ DoneOnce' /\ OkIsDone'
    BY <2>1, <2>2, <2>3
  <2> QED BY <2>4, <2>5
<1>4. CASE Follow
  BY <1>4 DEF Follow
<1>5. CASE Move
  <2>1. /\ hba.stage = "move" /\ hba \in HbaCommand
        /\ UNCHANGED <<driver, boot, run, ready, table, ci, det, bsy, err, sigErr, halted, done>>
    BY <1>5 DEF Move
  <2>2. hba' \in HbaCommand
    BY <1>5, MoveInOrder
  <2>3. hba'.stage = hba.stage /\ hba'.slot = hba.slot /\ hba'.id = hba.id
    BY <1>5, <2>1 DEF Move
  <2> QED BY <2>1, <2>2, <2>3
<1>6. CASE Complete
  <2>1. /\ hba.stage = "move" /\ bsy' = FALSE
        /\ UNCHANGED <<driver, boot, run, ready, table, ci>>
    BY <1>6 DEF Complete
  <2>2. /\ pc \in Waiting /\ ~halted /\ hba.slot = cmd.slot /\ hba.id = cmd.id
        /\ table[hba.slot].op = Head(todo)
        /\ hba \in HbaCommand
    BY <2>1
  <2>3. CASE /\ err' = FALSE
             /\ hba' = [hba EXCEPT !.stage = "clear"]
             /\ done'.id = hba.id /\ done'.op = table[hba.slot].op
             /\ UNCHANGED halted
    <3>1. /\ hba' \in HbaCommand
          /\ hba'.stage = "clear" /\ hba'.slot = hba.slot /\ hba'.id = hba.id
      BY <2>2, <2>3
    <3>2. Types'
      BY <2>1, <2>2, <2>3, <3>1
    <3>3. DoneOnce'
      BY <2>1, <2>2, <2>3, <3>1 DEF AtapiInfo
    <3>4. /\ ResetIsOver' /\ NothingIssued' /\ StopsHold' /\ BusyWithCommand' /\ ErrorStops'
          /\ BitsAreIssued' /\ CommandIsWritten' /\ OkIsDone'
      BY <2>1, <2>2, <2>3, <3>1
    <3> QED BY <3>2, <3>3, <3>4
  <2>4. CASE err' = TRUE /\ hba' = Idle /\ halted' = TRUE /\ UNCHANGED done
    BY <2>1, <2>2, <2>4
  <2>5. \/ /\ err' = FALSE /\ hba' = [hba EXCEPT !.stage = "clear"] /\ UNCHANGED halted
           /\ done'.id = hba.id /\ done'.op = table[hba.slot].op
        \/ err' = TRUE /\ hba' = Idle /\ halted' = TRUE /\ UNCHANGED done
    BY <1>6 DEF Complete
  <2> QED BY <2>3, <2>4, <2>5
<1>7. CASE ClearBit
  BY <1>7 DEF ClearBit
<1>8. ASSUME NEW s \in Slot, Fetch(s) PROVE Control'
  BY <1>8 DEF Fetch
<1> QED
  BY <1>1, <1>2, <1>3, <1>4, <1>5, <1>7, <1>8, <1>6 DEF Hba

\* Every step keeps the invariant.
LEMMA NextControl ==
    ASSUME IInv, [Next]_vars, ~sigErr'
    PROVE  Control'
<1> Control
  BY DEF IInv
<1>1. CASE UNCHANGED vars
  BY <1>1 DEF Control, Types, ResetIsOver, NothingIssued, StopsHold, BusyWithCommand, ErrorStops,
              BitsAreIssued, CommandIsWritten, DoneOnce, OkIsDone, IsDone,
              vars, driver, boot, run, device
<1>2. CASE Link \/ Drop
  BY <1>2 DEF Control, Types, ResetIsOver, NothingIssued, StopsHold, BusyWithCommand, ErrorStops,
              BitsAreIssued, CommandIsWritten, DoneOnce, OkIsDone, IsDone,
              Link, Drop, driver, boot, run
<1> QED
  BY <1>1, <1>2, SetupsControl, IssuesControl, HbaControl, CallControl DEF Next

-----------------------------------------------------------------------------
(* The data, one case for each group of actions.                           *)

\* Steps that leave the request alone.
LEMMA RequestKept ==
    ASSUME IInv, UNCHANGED <<protocol, sectorSize, todo, cmd, table>>,
           pc' \in Pending => pc \in Pending,
           pc' \in Pending \ {"setup"} => pc \in Pending \ {"setup"}
    PROVE  DataTypes' /\ RequestFits' /\ DataIsWritten'
BY DEF IInv, Data, DataTypes, RequestFits, DataIsWritten, Sectors, DataSize, Pending

\* Steps that leave the command of the HBA alone, if there is one.
LEMMA MovedKept ==
    ASSUME IInv, UNCHANGED <<sectorSize, todo, cmd, hba, done>>
    PROVE  MovedInOrder' /\ DoneIsWhole'
BY DEF IInv, Data, MovedInOrder, DoneIsWhole, DataSize, Prdtl

\* The driver between commands finds the HBA without one.
LEMMA IdleBetween ==
    ASSUME IInv, pc \notin Waiting
    PROVE  hba = Idle /\ hba.stage # "move"
BY DEF IInv, Control, NothingIssued, ErrorStops, BitsAreIssued, Waiting, Running, Pending, Idle

\* The port is set up.
LEMMA SetupsData ==
    ASSUME IInv, Setups
    PROVE  Data'
<1>1. /\ pc \notin Running /\ pc' \notin Pending /\ UNCHANGED <<hba, done, sectorSize>>
      /\ protocol' \in {"none", "SATA", "ATAPI"}
  BY DEF IInv, Data, DataTypes, Setups, Handoff, StartReset, Connected, StopList, StopReceive,
         Stopped, Comreset, WaitLink, StartList, StartReceive, CheckSignature, SetupMemory,
         After, Pending, Running, device
<1>2. hba.stage # "move"
  BY <1>1, IdleBetween DEF Waiting, Running, Pending
<1> QED
  BY <1>1, <1>2
  DEF IInv, Data, DataTypes, RequestFits, DataIsWritten, MovedInOrder, DoneIsWhole, Pending

\* A call that ahci_do accepts fits the command table, and so the sector count.
LEMMA CallData ==
    ASSUME IInv, NEW op \in {"read", "write", "info"}, NEW count \in Counts, Call(op, count)
    PROVE  Data'
<1>1. /\ pc = "idle" /\ UNCHANGED <<protocol, sectorSize, table, hba, done>>
      /\ count * sectorSize =< PrdtlMax * PrdDataMax
  BY DEF Call, device
<1>2. hba.stage # "move"
  BY <1>1, IdleBetween DEF Waiting
<1>3. CASE op # "info" /\ count = 0
  <2>1. pc' = "idle"
    BY <1>1, <1>3 DEF Call
  <2> QED
    BY <1>1, <1>2, <2>1
    DEF IInv, Data, DataTypes, RequestFits, DataIsWritten, MovedInOrder, DoneIsWhole, Pending
<1>4. CASE ~(op # "info" /\ count = 0)
  <2>1. pc' = "setup" /\ todo' = Commands(op) /\ cmd'.count = count
    BY <1>4 DEF Call
  <2>2. op = "info" => Head(todo') \notin {"read", "write"}
    BY <2>1 DEF Commands, AtapiInfo, IInv, Data, DataTypes
  <2>3. op # "info" => count >= 1 /\ count =< CountRange
    <3> SUFFICES ASSUME op # "info" PROVE count >= 1 /\ count =< CountRange
      OBVIOUS
    <3>1. /\ count \in Nat /\ count >= 1 /\ sectorSize \in Nat /\ 1 =< sectorSize
          /\ PrdtlMax * PrdDataMax =< CountRange
          /\ PrdtlMax \in Nat /\ PrdDataMax \in Nat /\ CountRange \in Nat
      BY <1>4, AhciAssumption DEF IInv, Data, DataTypes
    <3>2. 1 * count =< sectorSize * count
      BY <3>1, Products
    <3>3. 1 * count = count /\ sectorSize * count = count * sectorSize
      BY <3>1
    <3>4. count * sectorSize \in Nat /\ PrdtlMax * PrdDataMax \in Nat
      BY <3>1
    <3> QED BY <1>1, <3>1, <3>2, <3>3, <3>4
  <2>4. RequestFits'
    BY <2>1, <2>2, <2>3 DEF RequestFits
  <2> QED
    BY <1>1, <1>2, <2>1, <2>4
    DEF IInv, Data, DataTypes, DataIsWritten, MovedInOrder, DoneIsWhole, Pending
<1> QED BY <1>3, <1>4

\* The driver writes its command, issues it and waits.
LEMMA IssuesData ==
    ASSUME IInv, Issues
    PROVE  Data'
<1>1. CASE Setup
  <2>1. PICK s \in Slot :
            /\ cmd' = [cmd EXCEPT !.slot = s]
            /\ table' = [table EXCEPT ![s] =
                   [op |-> Head(todo), id |-> cmd.id, sectors |-> Sectors,
                    prdt |-> Prdt(DataSize(Head(todo)))]]
    BY <1>1 DEF Setup
  <2>2. pc = "setup" /\ pc' = "busy" /\ UNCHANGED <<protocol, sectorSize, todo, hba, done>>
    BY <1>1 DEF Setup, device
  <2>3. cmd'.slot = s /\ cmd'.count = cmd.count /\ s \in DOMAIN table
    BY <2>1 DEF IInv, Control, Types
  <2>4. table'[s].sectors = Sectors /\ table'[s].prdt = Prdt(DataSize(Head(todo)))
    BY <2>1, <2>3
  <2>5. /\ Sectors' = Sectors /\ DataSize(Head(todo))' = DataSize(Head(todo))
        /\ Prdt(DataSize(Head(todo)))' = Prdt(DataSize(Head(todo)))
    BY <2>2, <2>3 DEF Sectors, DataSize, Prdt, Prdtl
  <2>6. DataIsWritten'
    BY <2>3, <2>4, <2>5 DEF DataIsWritten
  <2>7. hba.stage # "move"
    BY <2>2, IdleBetween DEF Waiting
  <2> QED
    BY <2>2, <2>3, <2>6, <2>7
    DEF IInv, Data, DataTypes, RequestFits, MovedInOrder, DoneIsWhole, Pending
<1>2. CASE WaitReady \/ Issue \/ Poll \/ (PollError /\ ~err)
  <2>1. /\ UNCHANGED <<protocol, sectorSize, todo, cmd, table, hba, done>>
        /\ pc' \in Pending => pc \in Pending
        /\ pc' \in Pending \ {"setup"} => pc \in Pending \ {"setup"}
    BY <1>2 DEF WaitReady, Issue, Poll, PollError, device, Pending
  <2> QED BY <2>1, RequestKept, MovedKept DEF Data
<1>4. CASE Full \/ (PollError /\ err)
  <2>1. /\ pc' = "idle" /\ UNCHANGED <<protocol, sectorSize, cmd, table, hba, done>>
        /\ pc \in Waiting => err
    BY <1>4 DEF Full, PollError, Fail, device, Waiting
  <2>2. hba.stage # "move"
    BY <2>1, IdleBetween DEF IInv, Control, ErrorStops, Idle
  <2> QED
    BY <2>1, <2>2
    DEF IInv, Data, DataTypes, RequestFits, DataIsWritten, MovedInOrder, DoneIsWhole, Pending
<1>3. CASE Check
  <2>1. /\ pc = "check" /\ pc' \in {"idle", "setup"}
        /\ UNCHANGED <<protocol, cmd, table, hba, done>>
        /\ sectorSize' \in {sectorSize, CdSectorSize}
    BY <1>3 DEF Check, Fail, device
  <2>2. hba.stage # "move"
    BY <2>1, IdleBetween DEF Waiting
  <2>3. pc' = "setup" => Head(todo') \notin {"read", "write"}
    <3> SUFFICES ASSUME pc' = "setup" PROVE Head(todo') \notin {"read", "write"}
      OBVIOUS
    <3>1. todo' = Tail(todo) /\ todo' # <<>>
      BY <1>3 DEF Check, Fail
    <3>2. todo = AtapiInfo
      <4> SUFFICES ASSUME NEW x \in Op, todo = <<x>> PROVE FALSE
        BY <2>1 DEF IInv, Control, Types, CommandIsWritten, Pending
      <4> QED BY <3>1
    <3> QED BY <3>1, <3>2 DEF AtapiInfo
  <2> QED
    BY <2>1, <2>2, <2>3, AhciAssumption
    DEF IInv, Data, DataTypes, RequestFits, DataIsWritten, MovedInOrder, DoneIsWhole, Pending
<1> QED BY <1>1, <1>2, <1>3, <1>4 DEF Issues

\* The HBA takes up a command, moves its data, and completes it.
LEMMA HbaData ==
    ASSUME IInv, Hba
    PROVE  Data'
<1>1. UNCHANGED driver /\ UNCHANGED table
  BY DEF Hba, Release, Reset, Signature, Follow, Move, Complete, ClearBit, Fetch
<1>2. DataTypes' /\ RequestFits' /\ DataIsWritten'
  BY <1>1, RequestKept DEF driver
<1>3. CASE Release \/ Signature \/ Follow
  <2>1. UNCHANGED <<hba, done>>
    BY <1>3 DEF Release, Signature, Follow, device
  <2> QED BY <1>1, <1>2, <2>1, MovedKept DEF driver, Data
<1>4. CASE Reset \/ ClearBit
  <2>1. hba' = Idle /\ UNCHANGED done
    BY <1>4 DEF Reset, ClearBit
  <2> QED BY <1>2, <2>1 DEF IInv, Data, MovedInOrder, DoneIsWhole, Idle
<1>5. CASE Move
  <2>1. UNCHANGED done
    BY <1>5 DEF Move
  <2> QED BY <1>2, <1>5, <2>1, MoveInOrder DEF IInv, Data, DoneIsWhole
<1>6. CASE Complete
  <2>1. hba.stage = "move"
    BY <1>6 DEF Complete
  <2> DEFINE t == table[hba.slot]
             size == DataSize(Head(todo))
  <2>2. /\ size \in Nat \ {0} /\ t.op = Head(todo) /\ t.prdt = Prdt(size) /\ Amount(t) = size
        /\ hba \in HbaCommand
    BY <2>1, AmountAsked
  <2>3. CASE hba' = Idle /\ UNCHANGED done
    BY <1>2, <2>3 DEF IInv, Data, MovedInOrder, DoneIsWhole, Idle
  <2>4. CASE /\ Moved(t) /\ hba' = [hba EXCEPT !.stage = "clear"]
             /\ done'.places = hba.places /\ done'.asked = DataSize(t.op)
    <3>1. hba'.stage # "move"
      BY <2>2, <2>4 DEF HbaCommand
    <3>2. hba.prd = Prdtl(size)
      <4>1. /\ hba.prd \in Nat /\ Prdtl(size) \in Nat /\ hba.prd =< Prdtl(size)
            /\ Len(t.prdt) = Prdtl(size)
        BY <2>1, <2>2, EnoughDescriptors DEF HbaCommand, IInv, Data, MovedInOrder, Prdt
      <4> SUFFICES ASSUME hba.prd # Prdtl(size) PROVE FALSE
        OBVIOUS
      <4>2. /\ hba.places = FirstPlaces(hba.prd * PrdDataMax)
            /\ hba.prd * PrdDataMax \in Nat /\ hba.prd * PrdDataMax < size
        BY <2>1, <2>2, <4>1, Descriptor DEF IInv, Data, MovedInOrder
      <4>3. Len(hba.places) = hba.prd * PrdDataMax
        BY <4>2 DEF FirstPlaces
      <4> QED BY <2>2, <2>4, <4>1, <4>2, <4>3 DEF Moved
    <3>3. hba.places = FirstPlaces(size)
      BY <2>1, <3>2 DEF IInv, Data, MovedInOrder
    <3> QED BY <1>2, <2>2, <2>4, <3>1, <3>3 DEF Data, MovedInOrder, DoneIsWhole
  <2>5. \/ hba' = Idle /\ UNCHANGED done
        \/ /\ Moved(t) /\ hba' = [hba EXCEPT !.stage = "clear"]
           /\ done'.places = hba.places /\ done'.asked = DataSize(t.op)
    BY <1>6 DEF Complete
  <2> QED BY <2>3, <2>4, <2>5
<1>7. ASSUME NEW s \in Slot, Fetch(s) PROVE Data'
  <2>1. /\ hba' = [stage |-> "move", slot |-> s, id |-> table[s].id, prd |-> 0, places |-> <<>>]
        /\ s \in ci /\ ~halted /\ UNCHANGED done
    BY <1>7 DEF Fetch
  <2>2. pc \in Waiting
    BY <2>1 DEF IInv, Control, NothingIssued, BitsAreIssued, Running, Waiting
  <2>3. Head(todo) \in {"read", "write"} => cmd.count >= 1
    BY <2>2 DEF IInv, Data, RequestFits, Waiting, Pending
  <2>4. DataSize(Head(todo)) \in Nat \ {0}
    BY <2>3 DEF IInv, Control, Types, Data, DataTypes, DataSize
  <2>5. Prdtl(DataSize(Head(todo))) \in Nat \ {0} /\ PrdDataMax \in Nat
    BY <2>4, EnoughDescriptors, AhciAssumption
  <2>6. FirstPlaces(0 * PrdDataMax) = <<>>
    BY <2>5 DEF FirstPlaces
  <2>7. Prdtl(DataSize(Head(todo)))' = Prdtl(DataSize(Head(todo)))
    BY <1>1 DEF driver, DataSize, Prdtl
  <2>8. MovedInOrder'
    BY <2>1, <2>5, <2>6, <2>7 DEF MovedInOrder
  <2> QED BY <1>2, <2>1, <2>8 DEF IInv, Data, DoneIsWhole
<1> QED BY <1>3, <1>4, <1>5, <1>6, <1>7 DEF Hba

\* Nothing has been moved before the first command.
LEMMA InitData ==
    ASSUME Init
    PROVE  Data
BY DEF Init, Data, DataTypes, RequestFits, DataIsWritten, MovedInOrder, DoneIsWhole, FirstPlaces,
       Idle, Pending

\* Every step keeps the data in order.
LEMMA NextData ==
    ASSUME IInv, [Next]_vars
    PROVE  Data'
<1>1. CASE UNCHANGED vars
  <2>1. UNCHANGED <<pc, protocol, sectorSize, todo, cmd, table, hba, done>>
    BY <1>1 DEF vars, driver, device
  <2> QED BY <2>1, RequestKept, MovedKept DEF Data
<1>2. CASE Link \/ Drop
  <2>1. UNCHANGED <<pc, protocol, sectorSize, todo, cmd, table, hba, done>>
    BY <1>2 DEF Link, Drop, driver
  <2> QED BY <2>1, RequestKept, MovedKept DEF Data
<1> QED
  BY <1>1, <1>2, SetupsData, IssuesData, HbaData, CallData DEF Next
-----------------------------------------------------------------------------
(* What holds of the port with any device.                                 *)

\* the driver's places and variables, without those of the device
PortTypes ==
    /\ pc \in {"init", "owned", "reset", "absent"} \cup Resetting \cup Starting \cup Running
    /\ cmd \in [id : Nat, count : Nat, slot : Slot \cup {NoSlot}]
    /\ DOMAIN table = Slot
    /\ ci \subseteq Slot
    /\ seen \subseteq Slot
    /\ hr \in BOOLEAN /\ st \in BOOLEAN /\ cr \in BOOLEAN /\ fre \in BOOLEAN /\ fr \in BOOLEAN

\* ahci_cmd_setup has found a slot
SlotIsFound == pc \in {"busy", "issue"} => cmd.slot \in Slot

Port == PortTypes /\ ResetIsOver /\ StopsHold /\ SlotIsFound

\* Every step keeps it.
LEMMA NextPort ==
    ASSUME Port, [Next]_vars
    PROVE  Port'
<1> USE DEF Port, PortTypes, ResetIsOver, StopsHold, SlotIsFound,
            Starting, Resetting, Pending, Running
<1>1. CASE UNCHANGED vars
  BY <1>1 DEF vars, driver, boot, run
<1>2. CASE Setups
  <2> USE DEF boot, run
  <2>1. CASE Handoff
    BY <2>1 DEF Handoff
  <2>2. CASE StartReset
    BY <2>2 DEF StartReset
  <2>3. CASE Connected
    BY <2>3 DEF Connected
  <2>4. CASE StopList
    <3>1. pc' = IF pc = "reset_st" THEN "reset_cr" ELSE "setup_cr"
      BY <2>4 DEF StopList, After
    <3> QED BY <2>4, <3>1 DEF StopList
  <2>5. CASE StopReceive
    <3>1. pc' = IF pc = "reset_cr" THEN "reset_fr" ELSE "setup_fr"
      BY <2>5 DEF StopReceive, After
    <3> QED BY <2>5, <3>1 DEF StopReceive
  <2>6. CASE Stopped
    <3>1. pc' = "memory"
      BY <2>6 DEF Stopped, After
    <3> QED BY <2>6, <3>1 DEF Stopped
  <2>7. CASE Comreset
    <3>1. pc' = "reset_det"
      BY <2>7 DEF Comreset, After
    <3> QED BY <2>7, <3>1 DEF Comreset
  <2>8. CASE WaitLink
    <3>1. pc' = "reset_start"
      BY <2>8 DEF WaitLink, After
    <3> QED BY <2>8, <3>1 DEF WaitLink
  <2>9. CASE StartList
    <3>1. pc' = IF pc = "reset_start" THEN "reset_fre" ELSE "setup_fre"
      BY <2>9 DEF StartList, After
    <3> QED BY <2>9, <3>1 DEF StartList
  <2>10. CASE StartReceive
    <3>1. pc' = IF pc = "reset_fre" THEN "signature" ELSE "idle"
      BY <2>10 DEF StartReceive, After
    <3> QED BY <2>10, <3>1 DEF StartReceive
  <2>11. CASE CheckSignature
    BY <2>11 DEF CheckSignature
  <2>12. CASE SetupMemory
    BY <2>12 DEF SetupMemory
  <2> QED
    BY <1>2, <2>1, <2>2, <2>3, <2>4, <2>5, <2>6, <2>7, <2>8, <2>9, <2>10, <2>11, <2>12
    DEF Setups
<1>3. CASE Issues
  BY <1>3 DEF Issues, Setup, Full, WaitReady, Issue, Poll, PollError, Check, Fail, boot, run
<1>4. CASE Hba
  <2> USE DEF driver, boot, run
  <2>1. CASE Release \/ Signature \/ Move \/ Complete \/ ClearBit \/ \E s \in Slot : Fetch(s)
    <3>1. UNCHANGED <<driver, hr, run, table>> /\ ci' \subseteq ci
      BY <2>1 DEF Release, Signature, Move, Complete, ClearBit, Fetch
    <3> QED BY <3>1
  <2>2. CASE Reset
    BY <2>2 DEF Reset
  <2>3. CASE Follow
    BY <2>3 DEF Follow
  <2> QED BY <1>4, <2>1, <2>2, <2>3 DEF Hba
<1>5. CASE Link \/ Drop
  BY <1>5 DEF Link, Drop, driver, boot, run
<1>6. ASSUME NEW op \in {"read", "write", "info"}, NEW count \in Counts, Call(op, count)
      PROVE  Port'
  <2>1. count \in Nat /\ cmd.id + 1 \in Nat
    BY AhciAssumption
  <2>2. /\ pc = "idle" /\ pc' \in {"idle", "setup"}
        /\ UNCHANGED <<seen, boot, run, table, ci>>
        /\ \/ cmd' = [cmd EXCEPT !.id = cmd.id + 1]
           \/ cmd' = [id |-> cmd.id + 1, count |-> count, slot |-> NoSlot]
    BY <1>6 DEF Call
  <2>3. cmd' \in [id : Nat, count : Nat, slot : Slot \cup {NoSlot}]
    BY <2>1, <2>2
  <2> QED BY <2>2, <2>3 DEF boot, run
<1> QED BY <1>1, <1>2, <1>3, <1>4, <1>5, <1>6 DEF Next

\* It holds with any device.
LEMMA PortInvariant == Spec => []Port
<1>1. Init => Port
  <2> SUFFICES ASSUME Init PROVE Port
    OBVIOUS
  <2>1. Control /\ pc = "init"
    BY InitControl DEF Init
  <2> QED BY <2>1 DEF Control, Types, Port, PortTypes, SlotIsFound
<1>2. Port /\ [Next]_vars => Port'
  BY NextPort
<1> QED BY <1>1, <1>2, PTL DEF Spec
-----------------------------------------------------------------------------
(* The theorems.                                                           *)

\* A signature with the error byte is not forgotten.
LEMMA SignatureStays ==
    ASSUME sigErr, [Next]_vars
    PROVE  sigErr'
BY DEF Next, Setups, Issues, Hba, Handoff, StartReset, Connected, StopList, StopReceive, Stopped,
       Comreset, WaitLink, StartList, StartReceive, CheckSignature, SetupMemory, Setup, Full,
       WaitReady, Issue, Poll, PollError, Check, Release, Reset, Link, Drop, Signature, Follow,
       Move, Complete, ClearBit, Fetch, Call, vars, device

\* The inductive invariant holds in every reachable state, for every number of slots, sizes
\* and calls, as long as signatures have come without the error byte 01h, which
\* ahci_port_check_error (port.c:248) takes for an error.
THEOREM AhciInvariant == Spec => [](~sigErr => IInv)
<1>1. Init => (~sigErr => IInv)
  BY InitControl, InitData DEF IInv
<1>2. (~sigErr => IInv) /\ [Next]_vars => (~sigErr => IInv)'
  <2> SUFFICES ASSUME ~sigErr => IInv, [Next]_vars, ~sigErr'
               PROVE  IInv'
    OBVIOUS
  <2>1. IInv
    BY SignatureStays
  <2> QED BY <2>1, NextControl, NextData DEF IInv
<1> QED BY <1>1, <1>2, PTL DEF Spec

\* With a device whose signature came without the error byte, the HBA works on a command
\* only while the call that issued it waits, and never takes up the same command twice.
THEOREM NoCommandOutlivesItsCall == Spec => []CommandsAreOwned
<1>1. (~sigErr => IInv) => CommandsAreOwned
  <2> SUFFICES ASSUME IInv, hba # Idle
               PROVE  /\ pc \in {"poll", "error"}
                      /\ hba.slot = cmd.slot /\ hba.id = cmd.id
                      /\ hba.stage = "move" =>
                             <<hba.id, table[hba.slot].op>> # <<done.id, done.op>>
    BY DEF CommandsAreOwned
  <2>1. pc \in Waiting /\ ~halted /\ hba.slot = cmd.slot /\ hba.id = cmd.id /\ cmd.slot \in ci
    BY DEF IInv, Control, NothingIssued, ErrorStops, BitsAreIssued, Waiting, Running, Pending
  <2>2. hba.stage = "move" => ~IsDone
    BY <2>1 DEF IInv, Control, DoneOnce
  <2>3. table[hba.slot].op = Head(todo)
    BY <2>1 DEF IInv, Control, CommandIsWritten, Waiting, Pending
  <2> QED BY <2>1, <2>2, <2>3 DEF Waiting, IsDone
<1> QED BY <1>1, AhciInvariant, PTL

\* With such a device, when ahci_do returns 0, the last command of this call is completed
\* without an error and every unit is at its place and none beyond the buffer.
THEOREM ResultsAreTrue == Spec => []ResultIsTrue
<1>1. (~sigErr => IInv) => ResultIsTrue
  BY DEF IInv, Control, OkIsDone, Data, DoneIsWhole, FirstPlaces, ResultIsTrue
<1> QED BY <1>1, AhciInvariant, PTL

\* With any device, a table whose bit in CI is set is not written, also after calls that
\* were given up while the HBA worked on their command.
THEOREM TablesStayStable == Spec => TablesAreStable
<1>1. ASSUME Port, [Next]_vars, NEW s \in ci, cr
      PROVE  table'[s] = table[s]
  <2>1. CASE Setup
    <3>1. s \in Slot /\ DOMAIN table = Slot
      BY <1>1 DEF Port, PortTypes
    <3>2. PICK x \in Slot : x \notin ci /\ \E r : table' = [table EXCEPT ![x] = r]
      BY <2>1 DEF Setup, Free
    <3> QED BY <1>1, <3>1, <3>2
  <2>2. CASE SetupMemory
    BY <1>1, <2>2 DEF SetupMemory, Port, StopsHold
  <2>3. CASE UNCHANGED table
    BY <2>3
  <2> QED
    BY <1>1, <2>1, <2>2, <2>3
    DEF Next, Setups, Issues, Hba, Handoff, StartReset, Connected, StopList, StopReceive, Stopped,
        Comreset, WaitLink, StartList, StartReceive, CheckSignature, Full, WaitReady, Issue, Poll,
        PollError, Check, Release, Reset, Link, Drop, Signature, Follow, Move, Complete, ClearBit,
        Fetch, Call, vars
<1>2. Port /\ [Next]_vars => \A s \in ci : cr => table'[s] = table[s]
  BY <1>1
<1> QED BY <1>2, PortInvariant, PTL DEF Spec, TablesAreStable

\* With any device, ahci_port_setup finds the port stopped.
THEOREM PortStandsStill == Spec => SetUpWhileStopped
<1>1. Port => (pc = "memory" /\ pc' # "memory" => ~cr /\ ~fr)
  BY DEF Port, StopsHold
<1> QED BY <1>1, PortInvariant, PTL DEF Spec, SetUpWhileStopped
=============================================================================
