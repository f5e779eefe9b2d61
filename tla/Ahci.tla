-------------------------------- MODULE Ahci --------------------------------
(***************************************************************************)
(* The AHCI driver (kernel/core/ahci) on one port, and the controller (the *)
(* HBA) with its device, which run at the same time.  The driver polls: it *)
(* writes a command into memory, sets a bit of the register CI, and reads  *)
(* CI and the device's status until the command is over.                   *)
(*                                                                         *)
(* The HBA is external.  It is modelled as the driver relies on it: it     *)
(* takes up a command from a bit of CI while the command list is running,  *)
(* moves the data, a descriptor at a time, posts the device's status, and  *)
(* clears the bit; after an error it leaves the bit set and takes up no    *)
(* more commands.  A loop of the driver that waits for a register is an    *)
(* action with that guard.                                                 *)
(*                                                                         *)
(* Lengths are in units of which a sector of a SATA disk has one.          *)
(***************************************************************************)
EXTENDS Integers, Sequences

CONSTANTS
    SlotCount,      \* AHCI_PORT_CMD_LIST_COUNT
    PrdDataMax,     \* AHCI_PRD_DATA_MAX
    PrdtlMax,       \* AHCI_PRDTL_MAX
    CountRange,     \* values of the sector count of a command, 0 is the largest
    CdSectorSize,   \* sector size of an ATAPI device
    Counts,         \* bound: sectors of a request
    MaxCalls        \* bound: calls of ahci_do

ASSUME AhciAssumption ==
    /\ SlotCount \in Nat \ {0} /\ PrdDataMax \in Nat \ {0} /\ PrdtlMax \in Nat \ {0}
    /\ CountRange \in Nat \ {0} /\ CdSectorSize \in Nat \ {0}
    /\ Counts \subseteq Nat /\ MaxCalls \in Nat
    /\ PrdtlMax * PrdDataMax =< CountRange      \* 8 * 4 MiB are 2^16 sectors of a SATA disk

Slot == 0 .. (SlotCount - 1)
NoSlot == -1                                    \* cmd->slot after ahci_cmd_setup has failed
Idle == [stage |-> "idle"]
Nothing == [op |-> "none"]

VARIABLES
    pc,             \* where the driver is
    protocol,       \* port_data->protocol, from the signature
    sectorSize,     \* disk->sector_size
    todo,           \* commands the call has still to issue
    cmd,            \* the call: its number, operation, buffer and slot
    seen,           \* the value of CI that bit_set has read
    ret,            \* what the last call returned
    oos, bos, hr,   \* BOHC.OOS, BOHC.BOS and GHC.HR
    st, cr,         \* PxCMD.ST and CR: the command list is to run, and runs
    fre, fr,        \* PxCMD.FRE and FR, the same for received FISes
    ready,          \* PxCLB, PxFB and the command list have been set up
    table,          \* command header and table of every slot
    ci,             \* PxCI
    det,            \* PxSSTS.DET: the link to the device is up
    bsy, err,       \* PxTFD: the device is busy, the last status was an error
    sigErr,         \* history: a signature came with the error byte 01h
    hba,            \* the command the HBA is at
    halted,         \* the HBA has stopped after an error
    done            \* history: commands completed, with what was moved

driver == <<pc, protocol, sectorSize, todo, cmd, seen, ret>>
boot == <<oos, bos, hr>>
run == <<st, cr, fre, fr>>
device == <<det, bsy, err, sigErr, hba, halted, done>>
vars == <<driver, boot, run, ready, table, ci, device>>
-----------------------------------------------------------------------------
(* ahci_init: the firmware gives up the HBA, which is reset.               *)

Handoff ==
    /\ pc = "init"
    /\ oos' = TRUE
    /\ pc' = "owned"
    /\ UNCHANGED <<bos, hr, protocol, sectorSize, todo, cmd, seen, ret, run, ready, table, ci, device>>

\* HBA: the firmware answers the request
Release ==
    /\ oos /\ bos
    /\ bos' = FALSE
    /\ UNCHANGED <<driver, oos, hr, run, ready, table, ci, device>>

StartReset ==
    /\ pc = "owned"
    /\ oos /\ ~bos
    /\ hr' = TRUE
    /\ pc' = "reset"
    /\ UNCHANGED <<oos, bos, protocol, sectorSize, todo, cmd, seen, ret, run, ready, table, ci, device>>

\* HBA: all is stopped, the link comes up anew, and the device is busy until it has sent its
\* signature
Reset ==
    /\ hr
    /\ hr' = FALSE
    /\ st' = FALSE /\ cr' = FALSE /\ fre' = FALSE /\ fr' = FALSE
    /\ ready' = FALSE
    /\ ci' = {}
    /\ det' = FALSE /\ bsy' = TRUE /\ err' = FALSE /\ hba' = Idle /\ halted' = FALSE
    /\ UNCHANGED <<driver, oos, bos, table, sigErr, done>>

\* HBA: the link comes up after a reset, and may be lost at any time
Link ==
    /\ ~hr /\ ~det /\ bsy /\ hba = Idle
    /\ det' = TRUE
    /\ UNCHANGED <<driver, boot, run, ready, table, ci, bsy, err, sigErr, hba, halted, done>>

Drop ==
    /\ det
    /\ det' = FALSE
    /\ UNCHANGED <<driver, boot, run, ready, table, ci, bsy, err, sigErr, hba, halted, done>>

\* HBA: the device sends its signature.  Its error byte is 01h after diagnostics that passed,
\* which ahci_port_check_error takes for an error.
Signature ==
    /\ ~hr /\ det /\ bsy /\ hba = Idle
    /\ bsy' = FALSE
    /\ err' \in BOOLEAN
    /\ sigErr' = (sigErr \/ err')
    /\ UNCHANGED <<driver, boot, run, ready, table, ci, det, hba, halted, done>>

\* the port has a device with an active interface, or is left out
Connected ==
    /\ pc = "reset"
    /\ ~hr
    /\ pc' = "absent" \/ (det /\ pc' = "reset_st")
    /\ UNCHANGED <<protocol, sectorSize, todo, cmd, seen, ret, boot, run, ready, table, ci, device>>
-----------------------------------------------------------------------------
(* Starting and stopping the port: ahci_port_is_connected resets it, then  *)
(* ahci_port_setup stops it, sets up its memory and starts it.             *)

\* where ahci_port_stop and ahci_port_start are, and go on to
After == [reset_st |-> "reset_cr", reset_cr |-> "reset_fr", reset_fr |-> "reset_det",
          reset_det |-> "reset_start", reset_start |-> "reset_fre", reset_fre |-> "signature",
          setup_st |-> "setup_cr", setup_cr |-> "setup_fr", setup_fr |-> "memory",
          setup_start |-> "setup_fre", setup_fre |-> "idle"]

\* ahci_port_stop
StopList ==
    /\ pc \in {"reset_st", "setup_st"}
    /\ st' = FALSE
    /\ pc' = After[pc]
    /\ UNCHANGED <<protocol, sectorSize, todo, cmd, seen, ret, boot, cr, fre, fr, ready, table, ci, device>>

\* mutant of StopReceive: CR is not waited for
StopReceiveSoon ==
    /\ pc \in {"reset_cr", "setup_cr"}
    /\ fre' = FALSE
    /\ pc' = After[pc]
    /\ UNCHANGED <<protocol, sectorSize, todo, cmd, seen, ret, boot, st, cr, fr, ready, table, ci, device>>

StopReceive ==
    /\ pc \in {"reset_cr", "setup_cr"}
    /\ ~cr
    /\ fre' = FALSE
    /\ pc' = After[pc]
    /\ UNCHANGED <<protocol, sectorSize, todo, cmd, seen, ret, boot, st, cr, fr, ready, table, ci, device>>

Stopped ==
    /\ pc = "setup_fr"
    /\ ~fr
    /\ pc' = After[pc]
    /\ UNCHANGED <<protocol, sectorSize, todo, cmd, seen, ret, boot, run, ready, table, ci, device>>

\* ahci_port_reset: the same, and DET is written; the HBA may ignore that, or reset the link
Comreset ==
    /\ pc = "reset_fr"
    /\ ~fr
    /\ pc' = After[pc]
    /\ \/ UNCHANGED <<det, bsy>>
       \/ det' = FALSE /\ bsy' = TRUE
    /\ UNCHANGED <<protocol, sectorSize, todo, cmd, seen, ret, boot, run, ready, table, ci,
                   err, sigErr, hba, halted, done>>

\* it waits for the link, for as long as it takes
WaitLink ==
    /\ pc = "reset_det"
    /\ det
    /\ pc' = After[pc]
    /\ UNCHANGED <<protocol, sectorSize, todo, cmd, seen, ret, boot, run, ready, table, ci, device>>

\* ahci_port_start
StartList ==
    /\ pc \in {"reset_start", "setup_start"}
    /\ ~cr
    /\ st' = TRUE
    /\ pc' = After[pc]
    /\ UNCHANGED <<protocol, sectorSize, todo, cmd, seen, ret, boot, cr, fre, fr, ready, table, ci, device>>

StartReceive ==
    /\ pc \in {"reset_fre", "setup_fre"}
    /\ fre' = TRUE
    /\ pc' = After[pc]
    /\ UNCHANGED <<protocol, sectorSize, todo, cmd, seen, ret, boot, st, cr, fr, ready, table, ci, device>>

\* the signature tells the protocol; it may not have come in yet
CheckSignature ==
    /\ pc = "signature"
    /\ \/ pc' = "absent" /\ UNCHANGED protocol
       \/ pc' = "setup_st" /\ ~bsy /\ protocol' \in {"SATA", "ATAPI"}
    /\ UNCHANGED <<sectorSize, todo, cmd, seen, ret, boot, run, ready, table, ci, device>>

\* ahci_port_setup: the command list, received FIS and command tables
SetupMemory ==
    /\ pc = "memory"
    /\ ready' = TRUE
    /\ table' = [s \in Slot |-> Nothing]
    /\ pc' = "setup_start"
    /\ UNCHANGED <<protocol, sectorSize, todo, cmd, seen, ret, boot, run, ci, device>>

\* HBA: CR and FR follow; CI is cleared with the command list
Follow ==
    \/ /\ cr # st /\ cr' = st
       /\ ci' = IF st THEN ci ELSE {}
       /\ UNCHANGED <<driver, boot, st, fre, fr, ready, table, device>>
    \/ /\ fr # fre /\ fr' = fre
       /\ UNCHANGED <<driver, boot, st, cr, fre, ready, table, ci, device>>
-----------------------------------------------------------------------------
(* ahci_do: a read, a write, or the information about the device, which    *)
(* takes two commands with ATAPI.                                          *)

\* ahci_atapi_port_info
AtapiInfo == <<"inquiry", "capacity">>

Commands(op) ==
    CASE op = "info" /\ protocol = "SATA"  -> <<"identify">>
      [] op = "info" /\ protocol = "ATAPI" -> AtapiInfo
      [] OTHER -> <<op>>

Call(op, count) ==
    /\ pc = "idle"
    /\ cmd.id < MaxCalls
    /\ op = "info" => count = 0
    /\ count * sectorSize =< PrdtlMax * PrdDataMax      \* bound: the command table ends there
    /\ IF op # "info" /\ count = 0
       THEN /\ ret' = "EINVAL"
            /\ cmd' = [cmd EXCEPT !.id = @ + 1]
            /\ UNCHANGED <<pc, todo>>
       ELSE /\ todo' = Commands(op)
            /\ cmd' = [id |-> cmd.id + 1, count |-> count, slot |-> NoSlot]
            /\ pc' = "setup"
            /\ UNCHANGED ret
    /\ UNCHANGED <<protocol, sectorSize, seen, boot, run, ready, table, ci, device>>

\* the call returns an error
Fail(e) ==
    /\ pc' = "idle"
    /\ ret' = e
    /\ todo' = <<>>

\* mutant of Free: the bit of CI is not looked at
FreeAny(s) == TRUE

\* the slot can be used; PxSACT is 0, there are no queued commands
Free(s) == s \notin ci

\* bytes of the command, in units; the answers other than sectors take one
DataSize(op) == IF op \in {"read", "write"} THEN cmd.count * sectorSize ELSE 1

\* ahci_prdtl_from_size
Prdtl(size) == (size + PrdDataMax - 1) \div PrdDataMax

\* mutant of Prdt: the last one is one short
PrdtShort(size) ==
    [i \in 1 .. Prdtl(size) |->
        [from |-> (i - 1) * PrdDataMax,
         len  |-> IF i = Prdtl(size) THEN size - (i - 1) * PrdDataMax - 1 ELSE PrdDataMax]]

\* the physical region descriptors: offset into the buffer, and length
Prdt(size) ==
    [i \in 1 .. Prdtl(size) |->
        [from |-> (i - 1) * PrdDataMax,
         len  |-> IF i = Prdtl(size) THEN size - (i - 1) * PrdDataMax ELSE PrdDataMax]]

\* the sector count of the command: 16 bits with SATA
Sectors == IF protocol = "SATA" THEN cmd.count % CountRange ELSE cmd.count

\* ahci_cmd_setup and the functions of the protocol up to ahci_cmd_issue
Setup ==
    /\ pc = "setup"
    /\ \E s \in Slot :
           /\ Free(s) /\ \A x \in 0 .. (s - 1) : ~Free(x)
           /\ cmd' = [cmd EXCEPT !.slot = s]
           /\ table' = [table EXCEPT ![s] =
                  [op |-> Head(todo), id |-> cmd.id, sectors |-> Sectors,
                   prdt |-> Prdt(DataSize(Head(todo)))]]
    /\ pc' = "busy"
    /\ UNCHANGED <<protocol, sectorSize, todo, seen, ret, boot, run, ready, ci, device>>

Full ==
    /\ pc = "setup"
    /\ \A s \in Slot : ~Free(s)
    /\ Fail("EFAULT")
    /\ UNCHANGED <<protocol, sectorSize, cmd, seen, boot, run, ready, table, ci, device>>

\* ahci_cmd_issue: the device is not busy, and CI is read
WaitReady ==
    /\ pc = "busy"
    /\ ~bsy
    /\ seen' = ci
    /\ pc' = "issue"
    /\ UNCHANGED <<protocol, sectorSize, todo, cmd, ret, boot, run, ready, table, ci, device>>

\* CI is written back with the bit of the slot; a write of 1 sets a bit
Issue ==
    /\ pc = "issue"
    /\ ci' = ci \cup seen \cup {cmd.slot}
    /\ seen' = {}
    /\ pc' = "poll"
    /\ UNCHANGED <<protocol, sectorSize, todo, cmd, ret, boot, run, ready, table, device>>

\* mutant of Poll: the bit is read once
PollOnce ==
    /\ pc = "poll"
    /\ pc' = "check"
    /\ UNCHANGED <<protocol, sectorSize, todo, cmd, seen, ret, boot, run, ready, table, ci, device>>

Poll ==
    /\ pc = "poll"
    /\ pc' = IF cmd.slot \in ci THEN "error" ELSE "check"
    /\ UNCHANGED <<protocol, sectorSize, todo, cmd, seen, ret, boot, run, ready, table, ci, device>>

\* mutant of PollError: an error is not looked for
PollErrorNot ==
    /\ pc = "error"
    /\ pc' = "poll"
    /\ UNCHANGED <<ret, protocol, sectorSize, todo, cmd, seen, boot, run, ready, table, ci, device>>

\* the status is looked at between two looks at CI
PollError ==
    /\ pc = "error"
    /\ IF err THEN Fail("EIO") ELSE pc' = "poll" /\ UNCHANGED <<ret, todo>>
    /\ UNCHANGED <<protocol, sectorSize, cmd, seen, boot, run, ready, table, ci, device>>

\* the last look at the status.  The capacity of an ATAPI device tells the size
\* of its sectors.
Check ==
    /\ pc = "check"
    /\ IF err THEN Fail("EIO") /\ UNCHANGED sectorSize
       ELSE /\ todo' = Tail(todo)
            /\ sectorSize' = IF Head(todo) = "capacity" THEN CdSectorSize ELSE sectorSize
            /\ IF todo' = <<>> THEN pc' = "idle" /\ ret' = "ok" ELSE pc' = "setup" /\ UNCHANGED ret
    /\ UNCHANGED <<protocol, cmd, seen, boot, run, ready, table, ci, device>>
-----------------------------------------------------------------------------
(* HBA: a command.                                                         *)

Fetch(s) ==
    /\ cr /\ ready
    /\ s \in ci
    /\ ~halted /\ ~bsy /\ det
    /\ hba = Idle
    /\ hba' = [stage |-> "move", slot |-> s, id |-> table[s].id, prd |-> 0, places |-> <<>>]
    /\ bsy' = TRUE
    /\ UNCHANGED <<driver, boot, run, ready, table, ci, det, err, sigErr, halted, done>>

\* units the device has for the command
Amount(t) ==
    IF t.op \in {"read", "write"}
    THEN (IF t.sectors = 0 THEN CountRange ELSE t.sectors) * sectorSize
    ELSE 1

\* units the next descriptor takes, and the places in the buffer they come to
Share(d, left) == IF d.len < left THEN d.len ELSE left
Places(d, left) == [k \in 1 .. Share(d, left) |-> d.from + k - 1]

\* the data of one descriptor is moved
Move ==
    /\ hba.stage = "move" /\ det
    /\ LET t == table[hba.slot]
           left == Amount(t) - Len(hba.places)
       IN  /\ hba.prd < Len(t.prdt) /\ left > 0
           /\ hba' = [hba EXCEPT !.prd = @ + 1,
                                 !.places = @ \o Places(t.prdt[hba.prd + 1], left)]
    /\ UNCHANGED <<driver, boot, run, ready, table, ci, det, bsy, err, sigErr, halted, done>>

Moved(t) == hba.prd = Len(t.prdt) \/ Len(hba.places) >= Amount(t)

\* the status is posted: after the last of the data, or with an error at any time.  The bit
\* is cleared only if there is no error.
Complete ==
    /\ hba.stage = "move" /\ det
    /\ bsy' = FALSE
    /\ \/ /\ Moved(table[hba.slot])
          /\ err' = FALSE
          /\ hba' = [hba EXCEPT !.stage = "clear"]
          /\ done' = [id |-> hba.id, op |-> table[hba.slot].op,
                      places |-> hba.places, asked |-> DataSize(table[hba.slot].op)]
          /\ UNCHANGED halted
       \/ /\ err' = TRUE
          /\ hba' = Idle
          /\ halted' = TRUE
          /\ UNCHANGED done
    /\ UNCHANGED <<driver, boot, run, ready, table, ci, det, sigErr>>

ClearBit ==
    /\ hba.stage = "clear"
    /\ ci' = ci \ {hba.slot}
    /\ hba' = Idle
    /\ UNCHANGED <<driver, boot, run, ready, table, det, bsy, err, sigErr, halted, done>>
-----------------------------------------------------------------------------
\* the firmware may have left the port running, and may own the HBA
Init ==
    /\ pc = "init"
    /\ protocol = "none"
    /\ sectorSize = 1                           \* DISK_DEFAULT_SECTOR_SIZE
    /\ todo = <<>>
    /\ cmd = [id |-> 0, count |-> 0, slot |-> NoSlot]
    /\ seen = {}
    /\ ret = "none"
    /\ oos \in BOOLEAN /\ bos \in BOOLEAN /\ ~(oos /\ bos) /\ hr = FALSE
    /\ st \in BOOLEAN /\ cr = st /\ fre = st /\ fr = st
    /\ ready = FALSE
    /\ table = [s \in Slot |-> Nothing]
    /\ ci = {}
    /\ det \in BOOLEAN /\ bsy = FALSE /\ err = FALSE /\ sigErr = FALSE
    /\ hba = Idle /\ halted = FALSE
    /\ done = [id |-> 0, op |-> "none", places |-> <<>>, asked |-> 0]

Setups == \/ Handoff \/ StartReset \/ Connected \/ StopList \/ StopReceive \/ Stopped
          \/ Comreset \/ WaitLink \/ StartList \/ StartReceive \/ CheckSignature \/ SetupMemory

Issues == Setup \/ Full \/ WaitReady \/ Issue \/ Poll \/ PollError \/ Check

Hba == \/ Release \/ Reset \/ Signature \/ Follow \/ Move \/ Complete \/ ClearBit
       \/ \E s \in Slot : Fetch(s)

Next == \/ Setups \/ Issues \/ Hba \/ Link \/ Drop
        \/ \E op \in {"read", "write", "info"}, count \in Counts : Call(op, count)

\* the driver runs on when it can, and so does the hardware, with a link that is up; nobody
\* has to call, and the link need not come up
Spec == Init /\ [][Next]_vars /\ WF_vars(Setups) /\ WF_vars(Issues) /\ WF_vars(Hba)
-----------------------------------------------------------------------------
(***************************************************************************)
(* With a device whose signature came without the error byte, ahci_do      *)
(* returns 0 only if the device has completed the last command of this     *)
(* call, once, without an error, and has moved every unit of the buffer to *)
(* its place and none beyond it, whatever came before on the port.         *)
(***************************************************************************)
ResultIsTrue ==
    ~sigErr /\ pc = "idle" /\ ret = "ok" =>
        /\ ~err
        /\ done.id = cmd.id
        /\ done.places = [i \in 1 .. done.asked |-> i - 1]

(***************************************************************************)
(* With a device whose signature came without the error byte, the call     *)
(* that issued a command is still waiting while the HBA works on it: the   *)
(* device never moves data to or from a buffer that has been given back,   *)
(* which may be on the stack (ahci_sata_port_info), and no command is      *)
(* taken up a second time.  With the error byte, ahci_port_check_error     *)
(* (port.c:248) fails the first call while the HBA works on its command.   *)
(***************************************************************************)
CommandsAreOwned ==
    ~sigErr /\ hba # Idle =>
        /\ pc \in {"poll", "error"}
        /\ hba.slot = cmd.slot /\ hba.id = cmd.id
        /\ hba.stage = "move" => <<hba.id, table[hba.slot].op>> # <<done.id, done.op>>

(***************************************************************************)
(* The header and table of a slot whose bit in CI is set, which the HBA    *)
(* may read at any time, are not written, also when commands have failed   *)
(* or were given up while the HBA worked on them, and their bits stay set. *)
(***************************************************************************)
TablesAreStable == [][\A s \in ci : cr => table'[s] = table[s]]_vars

(***************************************************************************)
(* The memory of a port is set up only while the HBA neither reads the     *)
(* command list nor writes received FISes (ahci_port_stop), whatever state *)
(* the firmware and the reset of the port have left it in.                 *)
(***************************************************************************)
SetUpWhileStopped == [][pc = "memory" /\ pc' # "memory" => ~cr /\ ~fr]_vars

(***************************************************************************)
(* The loops of ahci_init and ahci_cmd_issue end, with a device that fails *)
(* too, if the hardware goes on with what it has started, except where     *)
(* they wait for a device whose link is down: ahci_port_reset (port.c:106) *)
(* and ahci_cmd_issue have no timeout.                                     *)
(***************************************************************************)
CallsReturn ==
    pc \notin {"idle", "absent"} ~>
        \/ pc \in {"idle", "absent"}
        \/ ~det /\ pc \in {"reset_det", "busy", "poll", "error"}
=============================================================================
