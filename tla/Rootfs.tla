------------------------------- MODULE Rootfs -------------------------------
(***************************************************************************)
(* Storage from the disks up: the disks are found and scanned, main looks  *)
(* for the first partition with a file system that can be the root         *)
(* (kernel/main.c, kernel/fs/fs.c), and the kernel then reads directories  *)
(* and files of that file system.                                          *)
(***************************************************************************)
EXTENDS Fat32

CONSTANTS
    BadSets,      \* bound: the sets of sectors that fail in one step
    Names,        \* names that are looked up
    Offsets,      \* bound: offsets of reads
    Sizes         \* bound: sizes of reads

VARIABLES
    phase,        \* "boot", "search", "up", "panic", or "stale"
    part,         \* the partition main is at
    rootfs,       \* main's pointer: "null", "fs", or "freed"
    failed,       \* history: a read failed during the search
    result        \* the last operation on the root file system

fsVars == <<phase, part, rootfs, failed, result>>
vars == <<diskVars, fsVars>>

InitName == "init"                              \* FS_INIT_NAME
None == [op |-> "none"]

StartOf(p) == parts[p[1]][p[2]].start

\* what is at the start of a partition; it need not be a FAT32 file system
VolumeAt(p) == media[p[1]].volumes[StartOf(p)]
-----------------------------------------------------------------------------
(* Boot: ahci_init adds and scans the disks.                               *)

AddDisk(d, info, bad) ==
    /\ phase = "boot"
    /\ DiskAdd(d, info, bad)
    /\ UNCHANGED fsVars

RescanDisk(d, m, info, bad) ==
    /\ phase = "boot"
    /\ Rescan(d, m, info, bad)
    /\ UNCHANGED fsVars

Search ==
    /\ phase = "boot"
    /\ Range(disks) = Range(Disks)
    /\ phase' = "search"
    /\ UNCHANGED <<diskVars, part, rootfs, failed, result>>
-----------------------------------------------------------------------------
(* The search for the root.                                                *)

\* mutant of IsRootfs: an empty init will do
IsRootfsEmpty(v, start, bad) ==
    LET e == Namei(v, start, v.root, InitName, bad)
    IN  e.err = "" /\ e.entry.type = "file"

IsRootfs(v, start, bad) ==
    LET e == Namei(v, start, v.root, InitName, bad)
    IN  e.err = "" /\ e.entry.type = "file" /\ e.entry.size # 0

\* one turn of the loop of main.  fs_new leaves a freed structure in rootfs
\* when the partition has no file system.
Try(bad) ==
    LET p == DiskNext(part)
    IN  /\ phase = "search"
        /\ p # NoPart
        /\ part' = p
        /\ failed' = (failed \/ bad # {})
        /\ \/ /\ ~Fat32New(VolumeAt(p), StartOf(p), bad)
              /\ rootfs' = "freed"
              /\ UNCHANGED phase
           \/ /\ Fat32New(VolumeAt(p), StartOf(p), bad)
              /\ IsRootfs(VolumeAt(p), StartOf(p), bad)
              /\ rootfs' = "fs"
              /\ phase' = "up"
           \/ /\ Fat32New(VolumeAt(p), StartOf(p), bad)
              /\ ~IsRootfs(VolumeAt(p), StartOf(p), bad)
              /\ rootfs' = "null"
              /\ UNCHANGED phase
        /\ UNCHANGED <<diskVars, result>>

\* the loop ends without a root: main panics, or goes on with a freed structure
GiveUp ==
    /\ phase = "search"
    /\ DiskNext(part) = NoPart
    /\ phase' = IF rootfs = "null" THEN "panic" ELSE "stale"
    /\ UNCHANGED <<diskVars, part, rootfs, failed, result>>
-----------------------------------------------------------------------------
(* The root file system in use.                                            *)

Root == VolumeAt(part)
RootDir == Root.dirs[Root.root]

\* bound: files are read only after a boot in which nothing failed, since the
\* way to the root makes no difference to them
Quiet == ~failed /\ \A d \in Range(Disks) : clean[d] /\ available[d]

Idle == phase = "up" /\ result = None /\ Quiet

Lookup(name, bad) ==
    /\ Idle
    /\ result' = [op |-> "lookup", name |-> name, faulty |-> bad # {},
                  out |-> Namei(Root, StartOf(part), Root.root, name, bad)]
    /\ UNCHANGED <<diskVars, phase, part, rootfs, failed>>

List(offset, size, bad) ==
    /\ Idle
    /\ result' = [op |-> "list", offset |-> offset, size |-> size, faulty |-> bad # {},
                  out |-> ReadDir(Root, StartOf(part), Root.root, offset, size, bad)]
    /\ UNCHANGED <<diskVars, phase, part, rootfs, failed>>

ReadFile(f, offset, size, bad) ==
    /\ Idle
    /\ result' = [op |-> "read", file |-> f, offset |-> offset, size |-> size, faulty |-> bad # {},
                  out |-> Fat32Read(Root, StartOf(part), f, offset, size, bad)]
    /\ UNCHANGED <<diskVars, phase, part, rootfs, failed>>

\* the result is taken; after an overrun nothing is known of the kernel
Return ==
    /\ phase = "up" /\ result # None
    /\ result.out.err # "overrun"
    /\ result' = None
    /\ UNCHANGED <<diskVars, phase, part, rootfs, failed>>

Files == {e \in Range(Entries(RootDir)) : e.type = "file"}

Init ==
    /\ DiskInit
    /\ phase = "boot"
    /\ part = NoPart
    /\ rootfs = "null"
    /\ failed = FALSE
    /\ result = None

Next ==
    \/ \E d \in Range(Disks), info \in BOOLEAN, bad \in BadSets :
           \/ AddDisk(d, info, bad)
           \/ \E m \in Media : RescanDisk(d, m, info, bad)
    \/ Search \/ GiveUp \/ Return
    \/ \E bad \in BadSets : Try(bad)
    \/ \E bad \in BadSets, name \in Names : Lookup(name, bad)
    \/ \E bad \in BadSets, offset \in Offsets, size \in Sizes :
           \/ List(offset, size, bad)
           \/ Idle /\ \E f \in Files : ReadFile(f, offset, size, bad)

Spec == Init /\ [][Next]_vars
-----------------------------------------------------------------------------
RECURSIVE Walk(_)
Walk(p) == IF DiskNext(p) = NoPart THEN <<>> ELSE Cons(DiskNext(p), Walk(DiskNext(p)))

\* the available partitions in the order of the lists
AvailableParts ==
    FoldLeft(LAMBDA acc, d :
                 acc \o SelectSeq([i \in DOMAIN parts[d] |-> <<d, i>>],
                                  LAMBDA p : parts[d][p[2]].available),
             <<>>, disks)

(***************************************************************************)
(* A walk with disk_next meets every available partition of every disk     *)
(* once, in the order of the lists, whatever disks have no partitions and  *)
(* whatever partitions a failed scan has left blocked.                     *)
(***************************************************************************)
WalkIsComplete == Walk(NoPart) = AvailableParts

\* the partitions a table describes
TableOf(m) ==
    IF m.gpt /\ m.aligned
    THEN {[start |-> e.start, size |-> e.end - e.start + 1] :
              e \in {x \in UNION {Range(m.entries[k]) : k \in DOMAIN m.entries} :
                         ~x.unused /\ ~x.firmware}}
    ELSE IF m.mbr THEN {[start |-> e.start, size |-> e.size] :
                            e \in {x \in Range(m.mbrEntries) : x.start # 0 /\ x.size # 0}}
    ELSE {}

\* those of them that have no address in cylinders, heads and sectors
WithoutChs(m) ==
    IF m.gpt /\ m.aligned THEN {}
    ELSE {[start |-> e.start, size |-> e.size] :
              e \in {x \in Range(m.mbrEntries) : x.start_chs = 0 \/ x.end_chs = 0}}

Described(d) == {[start |-> p.start, size |-> p.size] : p \in Range(parts[d])}

(***************************************************************************)
(* After a scan that has read all it needed, the partitions of the disk    *)
(* are those of the table that is on it now, each once: those of an older  *)
(* table are gone and those that are in both have been kept.  Entries of   *)
(* an MBR that leave their CHS addresses empty are the exception: mbr_load *)
(* takes them for unused whatever their LBA.  After a scan that failed no  *)
(* partition is available.                                                 *)
(***************************************************************************)
TableIsLoaded ==
    \A d \in Range(disks) :
        /\ available[d] =>
               /\ \A i \in DOMAIN parts[d] : parts[d][i].available
               /\ IsInjective([i \in DOMAIN parts[d] |-> <<parts[d][i].start, parts[d][i].size>>])
               /\ clean[d] => Described(d) = TableOf(media[d]) \ WithoutChs(media[d])
        /\ ~available[d] => \A i \in DOMAIN parts[d] : ~parts[d][i].available

CanBeRoot(p) ==
    /\ VolumeAt(p).valid
    /\ \E e \in Range(Entries(VolumeAt(p).dirs[VolumeAt(p).root])) :
           e.long = InitName /\ e.type = "file" /\ e.size > 0

(***************************************************************************)
(* The root is the first available partition with a FAT32 file system that *)
(* has a file init which is not empty, and the kernel gives up only if     *)
(* there is none, unless a read fails during the search.                   *)
(***************************************************************************)
RootIsFirst ==
    /\ phase = "up" => CanBeRoot(part)
    /\ ~failed =>
           /\ phase = "up" =>
                  \A i \in DOMAIN AvailableParts :
                      CanBeRoot(AvailableParts[i]) =>
                          \E j \in 1 .. i : AvailableParts[j] = part
           /\ phase \in {"panic", "stale"} =>
                  \A p \in Range(AvailableParts) : ~CanBeRoot(p)

\* the name a directory shows for an entry
Shown(e) == IF e.long # "" THEN e.long ELSE e.short

(***************************************************************************)
(* A lookup finds the entry that shows the name if there is one, whatever  *)
(* longer names come before it, and otherwise at most the entry that has   *)
(* it as its short name.  Names of NAME_MAX characters are the exception:  *)
(* the lookup takes them, but __fat32_entry_name has no room for their     *)
(* terminator, so that no entry ever matches.                              *)
(***************************************************************************)
LookupIsExact ==
    result.op = "lookup" /\ result.out.err \in {"", "ENOENT"} =>
        LET shown == {e \in Range(Entries(RootDir)) : Shown(e) = result.name}
        IN  IF result.out.err = ""
            THEN IF shown # {} THEN result.out.entry \in shown
                 ELSE result.out.entry.short = result.name
            ELSE shown = {} \/ NameLen[result.name] = NameMax

(***************************************************************************)
(* Reading a directory with offsets 0, 1, ... gives every name it shows    *)
(* once and in order, then the end.  At the place of a name that does not  *)
(* fit into the buffer, or of one of NAME_MAX characters or more, it gives *)
(* the error that says so.                                                 *)
(***************************************************************************)
ListingIsComplete ==
    result.op = "list" =>
        LET shown == [i \in DOMAIN Entries(RootDir) |-> Shown(Entries(RootDir)[i])]
            k     == result.offset + 1
        IN  CASE result.out.err = ""       -> k \in DOMAIN shown /\ result.out.name = shown[k]
              [] result.out.err = "ERANGE" -> k > Len(shown)
              [] result.out.err = "EOVERFLOW" -> k \in DOMAIN shown /\ NameLen[shown[k]] + 1 > result.size
              [] result.out.err = "ENAMETOOLONG" -> k \in DOMAIN shown /\ NameLen[shown[k]] >= NameMax
              [] OTHER                     -> result.faulty

\* the clusters of a file as the whole FAT has them
RECURSIVE Chain(_, _)
Chain(v, c) == IF c = EOC THEN <<>> ELSE Cons(c, Chain(v, v.next[c]))

\* the driver's way to the cells asked for: it finds the cluster by the first
\* sector of the FAT, and the cells after it lie next to it
Reachable(v, f, offset, n) ==
    LET chain == Chain(v, f.addr)
        first == Skipped(v, offset) + 1
        last  == ((offset + n - 1) \div ClusterSize(v)) + 1
    IN  /\ \A i \in 1 .. (first - 1) : chain[i] < FatEntries
        /\ \A i \in first .. last : chain[i] = chain[first] + (i - first)

\* cell k of the file, from 0
CellOf(v, start, f, k) ==
    (start + ClusterSector(v, Chain(v, f.addr)[(k \div ClusterSize(v)) + 1])) * SectorSize
        + (k % ClusterSize(v))

(***************************************************************************)
(* A read of at most a cluster delivers exactly the cells of the file from *)
(* the offset to the end of the request or of the file, wherever it starts *)
(* and ends with respect to sectors and clusters, if the file's clusters   *)
(* there are consecutive and found in the first sector of the FAT; and it  *)
(* fails only if a sector cannot be read.                                  *)
(***************************************************************************)
ReadsAreExact ==
    result.op = "read" =>
        LET f == result.file
            n == Clip(f, result.offset, result.size)
        IN  CASE result.offset >= f.size -> result.out = [err |-> "", cells |-> <<>>]
              [] n > ClusterSize(Root) -> result.out.err # ""
              [] OTHER ->
                     Reachable(Root, f, result.offset, n) =>
                         IF result.out.err = ""
                         THEN result.out.cells =
                                  [i \in 1 .. n |-> CellOf(Root, StartOf(part), f, result.offset + i - 1)]
                         ELSE result.faulty
=============================================================================
