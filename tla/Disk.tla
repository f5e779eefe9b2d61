-------------------------------- MODULE Disk --------------------------------
(***************************************************************************)
(* Disks and partitions: the list of disks, the scan of a disk for         *)
(* partitions (kernel/core/disk, kernel/core/gpt.c, kernel/core/mbr.c),    *)
(* the walk over the partitions (disk_next) and the reads of any offset    *)
(* and size made of reads of whole sectors.                                *)
(*                                                                         *)
(* A sector holds SectorSize cells, and the contents of a cell are its     *)
(* number on the disk: a buffer is right when it holds the right numbers.  *)
(* A controller operation fails when it touches a sector of the set bad,   *)
(* which is chosen anew in every step.                                     *)
(***************************************************************************)
EXTENDS Integers, Sequences, SequencesExt

CONSTANTS
    Disks,        \* ports with a device, in the order ahci_init finds them
    Media,        \* partition tables a disk may have
    SectorSize,   \* cells of a sector
    DiskSectors   \* sectors of a disk

ASSUME DiskAssumption == SectorSize \in Nat \ {0} /\ DiskSectors \in Nat \ {0}

VARIABLES
    media,        \* the partition table on each disk
    disks,        \* disk_first: the list of disks
    parts,        \* disk->parts: partitions of each disk
    available,    \* disk->available
    clean         \* history: no operation failed in the last scan of the disk

diskVars == <<media, disks, parts, available, clean>>

NoPart == <<>>
GptLba == 1
MbrLba == 0
-----------------------------------------------------------------------------
(* Reads.  The cells they deliver are those of Whole, disk_do reads        *)
(* sectors and fails on what is not on the disk or bad, or on no sectors.  *)

Whole(lba, n) == [i \in 1 .. (n * SectorSize) |-> lba * SectorSize + i - 1]

DiskDo(lba, n, bad) ==
    /\ n > 0
    /\ lba + n =< DiskSectors
    /\ lba .. (lba + n - 1) \cap bad = {}

\* disk_read_lba succeeds: all sectors are read, the last one in part
ReadLbaOk(lba, size, bad) ==
    IF size % SectorSize = 0 THEN DiskDo(lba, size \div SectorSize, bad)
    ELSE \A k \in 0 .. (size \div SectorSize) : DiskDo(lba + k, 1, bad)

\* mutant of ReadLba: the last sector is the one before
ReadLbaAgain(lba, size) ==
    Whole(lba, size \div SectorSize)
        \o SubSeq(Whole(lba, 1), 1, size % SectorSize)

\* the buffer of disk_read_lba
ReadLba(lba, size) ==
    Whole(lba, size \div SectorSize)
        \o SubSeq(Whole(lba + size \div SectorSize, 1), 1, size % SectorSize)

\* disk_read: an offset within a sector is read from the start of the sector
ReadOk(offset, size, bad) ==
    ReadLbaOk(offset \div SectorSize, (offset % SectorSize) + size, bad)

Read(offset, size) ==
    LET rem == offset % SectorSize
    IN  SubSeq(ReadLba(offset \div SectorSize, rem + size), rem + 1, rem + size)
-----------------------------------------------------------------------------
(* The walk over partitions.  A position is a disk and an index.           *)

After(d) == SelectInSeq(disks, LAMBDA x : x = d) + 1

\* mutant of FirstFrom: a disk without partitions ends the walk
FirstFromNext(k) ==
    IF k \in DOMAIN disks /\ parts[disks[k]] # <<>> THEN <<disks[k], 1>> ELSE NoPart

\* the first partition of the k-th disk, or of the first one after it that has any
FirstFrom(k) ==
    IF \E j \in k .. Len(disks) : parts[disks[j]] # <<>>
    THEN LET j == CHOOSE j \in k .. Len(disks) :
                      /\ parts[disks[j]] # <<>>
                      /\ \A i \in k .. (j - 1) : parts[disks[i]] = <<>>
         IN  <<disks[j], 1>>
    ELSE NoPart

RECURSIVE DiskNext(_)
DiskNext(pre) ==
    LET found == IF pre # NoPart /\ pre[2] < Len(parts[pre[1]])
                 THEN <<pre[1], pre[2] + 1>>
                 ELSE FirstFrom(IF pre = NoPart THEN 1 ELSE After(pre[1]))
    IN  IF found # NoPart /\ ~parts[found[1]][found[2]].available
        THEN DiskNext(found)
        ELSE found
-----------------------------------------------------------------------------
(* The scan.                                                               *)

\* disk_part_add, for an entry of a partition table, and the partition made
\* available: one that is known is kept, a new one is put first
PartAdd(ps, e) ==
    LET known == SelectInSeq(ps, LAMBDA p : p.start = e.start /\ p.size = e.size)
    IN  IF known # 0 THEN [ps EXCEPT ![known].available = TRUE]
        ELSE Cons([start |-> e.start, size |-> e.size, available |-> TRUE], ps)

Block(ps) == [i \in DOMAIN ps |-> [ps[i] EXCEPT !.available = FALSE]]

\* mutant of Clear: nothing is removed
ClearNot(ps) == ps

Clear(ps) == SelectSeq(ps, LAMBDA p : p.available)

\* __gpt_load_entry: unused entries and those of the firmware are skipped.  The
\* table has the last sector of a partition.
GptEntry(ps, e) ==
    IF e.unused \/ e.firmware THEN ps
    ELSE PartAdd(ps, [start |-> e.start, size |-> (e.end + 1) - e.start])

\* mbr_load, one entry: one without a start or end in either addressing is skipped
MbrEntry(ps, e) ==
    IF e.start_chs = 0 \/ e.end_chs = 0 \/ e.start = 0 \/ e.size = 0 THEN ps ELSE PartAdd(ps, e)

\* gpt_load finds a table
GptOk(m, bad) == ReadLbaOk(GptLba, 1, bad) /\ m.gpt /\ m.aligned

\* gpt_load: every sector of entries is loaded whole, those that cannot be
\* read are skipped
GptLoad(ps, m, bad) ==
    LET sector(acc, k) == IF DiskDo(m.array + k - 1, 1, bad)
                          THEN FoldLeft(GptEntry, acc, m.entries[k]) ELSE acc
    IN  FoldLeft(sector, ps, [k \in DOMAIN m.entries |-> k])

\* mbr_load
MbrOk(m, bad) == ReadLbaOk(MbrLba, SectorSize, bad) /\ m.mbr
MbrLoad(ps, m) == FoldLeft(MbrEntry, ps, m.mbrEntries)

\* disk_part_scan; when it fails all partitions stay in the list, blocked
Scan(d, old, info, bad) ==
    LET ps  == Block(old)
        m   == media'[d]
        gpt == info /\ GptOk(m, bad)
        ok  == gpt \/ (info /\ MbrOk(m, bad))
        got == IF gpt THEN Clear(GptLoad(ps, m, bad))
               ELSE IF ok THEN Clear(MbrLoad(ps, m)) ELSE ps
    IN  /\ parts' = [parts EXCEPT ![d] = got]
        /\ available' = [available EXCEPT ![d] = ok]
        /\ clean' = [clean EXCEPT ![d] = bad = {}]

\* disk_add, and the first scan of the disk
DiskAdd(d, info, bad) ==
    /\ d \in Range(Disks) \ Range(disks)
    /\ Range(SubSeq(Disks, 1, SelectInSeq(Disks, LAMBDA x : x = d) - 1)) \subseteq Range(disks)
    /\ disks' = Cons(d, disks)
    /\ UNCHANGED media
    /\ Scan(d, <<>>, info, bad)

\* a disk that has been modified is scanned again
Rescan(d, m, info, bad) ==
    /\ d \in Range(disks)
    /\ media' = [media EXCEPT ![d] = m]
    /\ UNCHANGED disks
    /\ Scan(d, parts[d], info, bad)

DiskInit ==
    /\ media \in [Range(Disks) -> Media]
    /\ disks = <<>>
    /\ parts = [d \in Range(Disks) |-> <<>>]
    /\ available = [d \in Range(Disks) |-> FALSE]
    /\ clean = [d \in Range(Disks) |-> TRUE]
=============================================================================
