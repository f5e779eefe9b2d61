------------------------------ MODULE MCRootfs ------------------------------
(***************************************************************************)
(* Two disks, each with one of four partition tables.  Sectors hold two    *)
(* cells, clusters two sectors, a sector of the FAT eight entries.         *)
(***************************************************************************)
EXTENDS Rootfs

MCDisks == <<"sda", "sdb">>

MCNameLen == [init |-> 4, INIT |-> 4, program |-> 7] @@ ("PROGRA~1" :> 8)
                @@ ("library.dat" :> 11) @@ ("LIBRAR~1" :> 8) @@ ("BOOT" :> 4) @@ ("" :> 0)
                @@ ("none" :> 4) @@ ("lib" :> 3) @@ ("settings.txt" :> 12) @@ ("SETTIN~1" :> 8)
                @@ ("settings.text" :> 13)

Unused == [kind |-> "unused"]
NoMore == [kind |-> "last"]
Lfn(b) == [kind |-> "lfn", begin |-> b]
Entry(long, short, type, addr, size) ==
    [kind |-> "entry", long |-> long, short |-> short, type |-> type, addr |-> addr, size |-> size]

\* init is fragmented, the library is consecutive and leaves the first sector
\* of the FAT, the program ends before a boundary, and the name of the settings
\* has NameMax characters
System ==
    [valid |-> TRUE, fsinfo |-> 1, fat |-> 2, data |-> 3, spc |-> 2, root |-> 2,
     next |-> [c \in 0 .. 10 |-> CASE c = 3 -> 5 [] c = 5 -> 6 [] c = 7 -> 8
                                   [] c = 8 -> 9 [] OTHER -> EOC],
     dirs |-> (2 :> <<Unused,
                      Lfn(TRUE), Entry("init", "INIT", "file", 3, 10),
                      Lfn(TRUE), Lfn(FALSE), Entry("library.dat", "LIBRAR~1", "file", 7, 12),
                      Unused, Entry("", "BOOT", "dir", 4, 0),
                      Lfn(TRUE), Entry("settings.txt", "SETTIN~1", "file", 0, 0),
                      Lfn(TRUE), Entry("program", "PROGRA~1", "file", 10, 3), NoMore>>)]

\* a file system whose init is empty
Empty ==
    [System EXCEPT !.dirs = (2 :> <<Entry("", "BOOT", "file", 7, 4),
                                    Lfn(TRUE), Entry("init", "INIT", "file", 0, 0), NoMore>>)]

NoVolume == [valid |-> FALSE]

Gpt(start, end) == [unused |-> FALSE, firmware |-> FALSE, start |-> start, end |-> end]
NoEntry == [unused |-> TRUE, firmware |-> FALSE, start |-> 0, end |-> 0]
Firmware == [unused |-> FALSE, firmware |-> TRUE, start |-> 4, end |-> 4]

\* an entry of an MBR, with some CHS addresses
Mbr(start, size) == [start_chs |-> 1, end_chs |-> 1, start |-> start, size |-> size]

\* a GPT with two sectors of entries, behind an MBR that covers the disk
GptTwo ==
    [gpt |-> TRUE, aligned |-> TRUE, mbr |-> TRUE, array |-> 2,
     mbrEntries |-> <<Mbr(1, 49)>>,
     entries |-> <<<<Gpt(5, 24), Firmware>>, <<Gpt(25, 48), NoEntry>>>>,
     volumes |-> (1 :> NoVolume @@ 5 :> Empty @@ 25 :> System)]

\* the same disk after its first partition has been removed
GptOne ==
    [GptTwo EXCEPT !.entries = <<<<NoEntry, Firmware>>, <<Gpt(25, 48), NoEntry>>>>]

MbrTwo ==
    [gpt |-> FALSE, aligned |-> TRUE, mbr |-> TRUE, array |-> 0, entries |-> <<>>,
     mbrEntries |-> <<Mbr(25, 24), Mbr(0, 0), Mbr(5, 20),
                      [Mbr(49, 24) EXCEPT !.start_chs = 0, !.end_chs = 0]>>,
     volumes |-> (5 :> NoVolume @@ 49 :> NoVolume @@ 25 :> System)]

Blank ==
    [gpt |-> TRUE, aligned |-> FALSE, mbr |-> TRUE, array |-> 2, entries |-> <<>>,
     mbrEntries |-> <<Mbr(5, 0), [Mbr(5, 20) EXCEPT !.end_chs = 0]>>, volumes |-> (5 :> NoVolume)]

MCMedia == {GptTwo, GptOne, MbrTwo, Blank}

\* no failure, or one of the partition tables, of the FAT of a partition, or
\* of the sectors of a file
MCBadSets == {{}} \cup {{s} : s \in {0, 1, 2, 3, 5, 25, 27, 28, 31, 40}}
=============================================================================
