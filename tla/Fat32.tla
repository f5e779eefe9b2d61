-------------------------------- MODULE Fat32 -------------------------------
(***************************************************************************)
(* The FAT32 driver (kernel/fs/fat32): how it finds a file system on a     *)
(* partition, names in a directory, and the cells of a file, as operators  *)
(* on a volume.                                                            *)
(*                                                                         *)
(* A volume is a record: valid (the signatures are right), fsinfo and fat  *)
(* (the sectors of the fsinfo structure and of the first sector of the     *)
(* FAT), data (the first data sector), spc (sectors of a cluster), root    *)
(* (the cluster of the root directory), next (the FAT: the next cluster of *)
(* each, EOC at the end of a chain) and dirs (the directory in each        *)
(* cluster that is one).                                                   *)
(*                                                                         *)
(* A directory is a sequence of slots of four kinds: unused, last, lfn     *)
(* (part of the long name of the entry that follows; begin is the one with *)
(* the last bit) and entry.  Directories are well formed, smaller than a   *)
(* cluster, and end with a slot "last": the driver does not look for the   *)
(* end of a cluster.                                                       *)
(***************************************************************************)
EXTENDS Disk

CONSTANTS
    NameLen,      \* length of every name
    NameMax,      \* NAME_MAX
    FatEntries    \* entries in one sector of the FAT

EOC == -1         \* the end of a chain, or a bad cluster

\* cells of a cluster, and sectors from the start of the partition to a cluster
ClusterSize(v) == v.spc * SectorSize
ClusterSector(v, c) == v.data + v.spc * (c - 2)

\* fat32_new
Fat32New(v, start, bad) ==
    /\ ReadLbaOk(start, 1, bad)
    /\ v.valid
    /\ ReadLbaOk(start + v.fsinfo, SectorSize, bad)

\* fat32_cluster_next: the entry is looked for in the first sector of the FAT
ClusterNext(v, start, c, bad) ==
    IF ~DiskDo(start + v.fat, 1, bad) \/ v.next[c % FatEntries] = EOC THEN 0
    ELSE v.next[c % FatEntries]

\* the cluster after k calls of fat32_cluster_next, 0 if there is none
Hop(v, start, c, k, bad) ==
    FoldLeft(LAMBDA x, i : IF x = 0 THEN 0 ELSE ClusterNext(v, start, x, bad),
             c, [i \in 1 .. k |-> i])
-----------------------------------------------------------------------------
(* Directories.                                                            *)

\* the directory entry that the slot is of
OwnSlot(dir, i) ==
    CHOOSE j \in i .. Len(dir) : /\ dir[j].kind = "entry"
                                 /\ \A k \in i .. (j - 1) : dir[k].kind # "entry"

\* __fat32_entry_name: the name at slot i, or an error, and the slot it ends at.
\* A long name that is longer than the buffer or than NAME_MAX is refused at its
\* first slot, any other that leaves no room for the terminator at the entry.
\* From the middle of a long name on, the name is the short one.
EntryName(dir, i, size) ==
    LET long == dir[i].kind = "lfn" /\ dir[i].begin
        own  == OwnSlot(dir, i)
        name == IF long THEN dir[own].long ELSE dir[own].short
    IN  [err  |-> IF NameLen[name] + 1 =< size /\ NameLen[name] + 1 =< NameMax THEN ""
                  ELSE IF size < NameMax /\ ~(long /\ NameLen[name] > NameMax) THEN "EOVERFLOW"
                  ELSE "ENAMETOOLONG",
         name |-> name,
         at   |-> IF long /\ (NameLen[name] > size \/ NameLen[name] > NameMax) THEN i ELSE own]

\* mutant of Find: a name that does not fit ends the search
FindStops(dir, name) ==
    LET find[i \in DOMAIN dir] ==
            CASE dir[i].kind = "last" -> 0
              [] dir[i].kind = "unused" -> find[i + 1]
              [] OTHER -> LET e == EntryName(dir, i, NameLen[name] + 1)
                          IN  CASE e.err # "" -> 0
                                [] e.name = name -> e.at
                                [] OTHER -> find[e.at + 1]
    IN  find[1]

\* fat32_entry_from in one cluster: the slot of the entry, 0 if there is none
Find(dir, name) ==
    LET find[i \in DOMAIN dir] ==
            CASE dir[i].kind = "last" -> 0
              [] dir[i].kind = "unused" -> find[i + 1]
              [] OTHER -> LET e == EntryName(dir, i, NameLen[name] + 1)
                          IN  IF e.err = "" /\ e.name = name THEN e.at ELSE find[e.at + 1]
    IN  find[1]

\* mutant of Skip: the slots of other long names are counted
SkipLfn(dir, offset) ==
    LET skip[i \in DOMAIN dir, n \in 0 .. offset] ==
            CASE dir[i].kind = "last" -> 0
              [] dir[i].kind = "unused" -> skip[i + 1, n]
              [] OTHER -> IF n = 0 THEN i ELSE skip[i + 1, n - 1]
    IN  skip[1, offset]

\* fat32_entry_get in one cluster: the first slot of the name at the offset, 0
\* if there are not as many
Skip(dir, offset) ==
    LET skip[i \in DOMAIN dir, n \in 0 .. offset] ==
            CASE dir[i].kind = "last" -> 0
              [] dir[i].kind = "unused" -> skip[i + 1, n]
              [] dir[i].kind = "lfn" /\ n > 0 -> skip[i + 1, n]
              [] OTHER -> IF n = 0 THEN i ELSE skip[i + 1, n - 1]
    IN  skip[1, offset]

ReadCluster(v, start, c, bad) == DiskDo(start + ClusterSector(v, c), v.spc, bad)

Entries(dir) == SelectSeq(dir, LAMBDA e : e.kind = "entry")

\* fat32_namei below the root: the entry of the name, or an error.  The chain
\* of a directory is followed when a cluster does not have the name.
RECURSIVE Namei(_, _, _, _, _)
Namei(v, start, c, name, bad) ==
    CASE NameLen[name] > NameMax -> [err |-> "ENAMETOOLONG"]
      [] ~ReadCluster(v, start, c, bad) -> [err |-> "EFAULT"]
      [] OTHER ->
             LET i == Find(v.dirs[c], name)
                 n == ClusterNext(v, start, c, bad)
             IN  IF i # 0 THEN [err |-> "", entry |-> v.dirs[c][i]]
                 ELSE IF n = 0 THEN [err |-> "ENOENT"] ELSE Namei(v, start, n, name, bad)

\* fat32_read of a directory: the name at the offset, "ERANGE" at the end,
\* where fat32_read returns 0, or an error
RECURSIVE ReadDir(_, _, _, _, _, _)
ReadDir(v, start, c, offset, size, bad) ==
    IF ~ReadCluster(v, start, c, bad) THEN [err |-> "EFAULT"]
    ELSE LET i == Skip(v.dirs[c], offset)
             e == EntryName(v.dirs[c], i, size)
             n == ClusterNext(v, start, c, bad)
         IN  IF i # 0 THEN [err |-> e.err, name |-> e.name]
             ELSE IF n = 0 THEN [err |-> "ERANGE"]
             ELSE ReadDir(v, start, n, offset - Len(Entries(v.dirs[c])), size, bad)
-----------------------------------------------------------------------------
(* Files.                                                                  *)

\* clusters fat32_read skips: it stops when the offset is in the cluster, or
\* just after it
Skipped(v, offset) == IF offset = 0 THEN 0 ELSE (offset - 1) \div ClusterSize(v)

\* what is left to read
Clip(f, offset, size) == IF size > f.size - offset THEN f.size - offset ELSE size

\* fat32_read of at most a cluster of file f; the result is the buffer or an
\* error.  The buffer is filled from consecutive sectors.
ReadSmall(v, start, f, offset, size, bad) ==
    LET k    == Skipped(v, offset)
        c    == Hop(v, start, f.addr, k, bad)
        from == (start + ClusterSector(v, c)) * SectorSize + (offset - k * ClusterSize(v))
        n    == Clip(f, offset, size)
    IN  CASE offset >= f.size -> [err |-> "", cells |-> <<>>]
          [] c = 0 -> [err |-> "EINVAL"]
          [] ~ReadOk(from, n, bad) -> [err |-> "EIO"]
          [] OTHER -> [err |-> "", cells |-> Read(from, n)]

\* fat32_read of more than a cluster: cells are taken for sectors in the read
\* of all clusters but the last.  It fails where the disk ends; otherwise the
\* device writes other cells, and more than the buffer holds ("overrun").
ReadLarge(v, start, f, offset, bad) ==
    LET k == Skipped(v, offset)
        c == Hop(v, start, f.addr, k, bad)
        lba == start + ClusterSector(v, c) * SectorSize + (offset - k * ClusterSize(v))
    IN  CASE c = 0 -> [err |-> "EINVAL"]
          [] ~DiskDo(lba, ClusterSize(v), bad) -> [err |-> "EIO"]
          [] OTHER -> [err |-> "overrun"]

Fat32Read(v, start, f, offset, size, bad) ==
    IF offset < f.size /\ Clip(f, offset, size) > ClusterSize(v)
    THEN ReadLarge(v, start, f, offset, bad)
    ELSE ReadSmall(v, start, f, offset, size, bad)
=============================================================================
