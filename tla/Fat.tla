-------------------------------- MODULE Fat ---------------------------------
(***************************************************************************)
(* The FAT file system (fs/fat.c) behind the VFS (fs/vfs.c), as the        *)
(* console's commands use it (apps/commands.c), from boot on: the drives   *)
(* are found and mounted, then commands come.                              *)
(*                                                                         *)
(* A drive is a function from sectors to their contents: the boot record,  *)
(* bytes for the sectors of the FAT, which is packed and unpacked as the   *)
(* code does it, entries for those of directories, a value for those of    *)
(* files.  Where the root directory is comes from mounting, but            *)
(* get_phys_sector counts from a fixed place, right for a floppy: there    *)
(* clusters 0 and 1 designate sectors of the root.                         *)
(*                                                                         *)
(* Commands run one at a time: processes have no calls that read or write  *)
(* files, and while one runs the console waits.  A command is one step,    *)
(* but for reading, where each sector is a step.  Reads and writes of the  *)
(* floppy succeed (module Floppy has what they do).  Names and texts are   *)
(* typed without a slash.                                                  *)
(***************************************************************************)
EXTENDS Drives, FiniteSets, SequencesExt

CONSTANTS
    Typed,      \* names as they are typed: all that follows a command's word
    Dos,        \* to_dos_file_name: the 8.3 name each one becomes
    Values,     \* what the sectors of files hold
    Texts,      \* those of them that are typed after "write" and a name
    Lines,      \* what is typed after "write", with the text that it ends with
    Machines,   \* the drives the system may be started with
    SecLen,     \* SECTOR_SIZE
    RootSecs,   \* the 14 sectors of the root directory
    PerSec,     \* the 16 entries of a sector
    LastCluster,
    Phys,       \* 31: the sector of cluster 0
    Links,      \* the entries of the FAT, as a FAT12 has them
    Junk,       \* a name that nobody types
    MaxOut      \* bound: the sectors remembered of those that were read

Clusters == 0 .. LastCluster
DosNames == {Dos[n] : n \in Typed}
NoName == "none"        \* of an entry that is free
Empty == [name |-> NoName, dir |-> FALSE, cluster |-> 0, size |-> 0]
JunkEntry == [name |-> Junk, dir |-> FALSE, cluster |-> 0, size |-> 0]
Entries == {Empty, JunkEntry}
           \cup [name : DosNames, dir : BOOLEAN, cluster : Clusters, size : Nat]

DirSector == [ents : [1 .. PerSec -> Entries]]
DataSector == [val : Values]

ASSUME FatAssumption ==
    /\ Dos \in [Typed -> DosNames] /\ NoName \notin DosNames /\ Junk \notin DosNames \cup {NoName}
    /\ SecLen \in Nat \ {0} /\ PerSec \in Nat \ {0} /\ RootSecs \in Nat \ {0, 1}
    /\ LastCluster \in Nat \ {0} /\ Phys \in Nat
    /\ Texts \subseteq Values /\ Lines \subseteq Typed \X Texts /\ MaxOut \in Nat /\ MaxOut > LastCluster
    /\ \A m \in Machines :
          /\ m.fda = [s \in DOMAIN m.fda |-> m.fda[s]]
          /\ 0 .. Phys + LastCluster \subseteq DOMAIN m.fda
          /\ IsBoot(m.fda[0]) => m.fda[0].boot \in BootRecord
    /\ \A m \in Machines : m.answers \in Answers /\ m.port \in {"steady", "takes"}
    /\ "hda" \in HardDisks /\ "fda" \notin HardDisks

VARIABLES
    machine,    \* what the hard disks answer, and how their data port behaves
    stage,      \* what boots next: "floppy", "ata", and then "console"
    disk,       \* the contents of the floppy and of the first hard disk
    minfo,      \* what is known of each mounted drive
    dir,        \* the console's current directory: a drive, and names from its root
    f,          \* the file that is open
    out,        \* the sectors read from it
    halted      \* the kernel went through a null pointer, or waits for ever

vars == <<machine, stage, disk, minfo, dir, f, out, halted>>
boot == <<machine, stage, minfo>>

FS_NULL == [type |-> "NULL"]
OpenFile == [type : {"FILE"}, cluster : Nat, start : Clusters, eof : BOOLEAN]

Mounted == DOMAIN minfo

Init ==
    /\ \E m \in Machines :
          /\ machine = [answers |-> m.answers, port |-> m.port]
          /\ disk = [fda |-> m.fda, hda |-> m.hda]
    /\ stage = "floppy"
    /\ minfo = <<>>
    /\ dir = <<>>
    /\ f = FS_NULL
    /\ out = <<>>
    /\ halted = FALSE

-----------------------------------------------------------------------------
(* Mounting                                                                *)

(* What reading the sectors of a drive gives.                              *)
Sectors(drive) ==
    IF drive = "fda" THEN disk.fda
    ELSE [s \in DOMAIN disk.hda |-> ata_read_sector(machine.answers, machine.port, disk.hda[s])]

(* device_register: the drive is mounted, and stays so if fat_mount finds  *)
(* no file system on it.                                                   *)
device_register(drives) ==
    minfo' = [d \in Mounted \cup drives |->
                 IF d \in drives THEN fat_mount(Sectors(d)[0]) ELSE minfo[d]]

floppy_init ==
    /\ ~halted /\ stage = "floppy"
    /\ device_register({"fda"})
    /\ stage' = "ata"
    /\ UNCHANGED <<machine, disk, dir, f, out, halted>>

ata_init ==
    /\ ~halted /\ stage = "ata"
    /\ ~IdentifyHangs(machine.answers)
    /\ device_register(Present(machine.answers))
    /\ stage' = "console"
    /\ UNCHANGED <<machine, disk, dir, f, out, halted>>

ata_initHangs ==
    /\ ~halted /\ stage = "ata"
    /\ IdentifyHangs(machine.answers) \/ ReadMayHang(machine.answers, machine.port)
    /\ halted' = TRUE
    /\ UNCHANGED <<boot, disk, dir, f, out>>

-----------------------------------------------------------------------------
(* Sectors and clusters                                                    *)

get_phys_sector(c) == Phys + c

(* A sector's bytes as a directory: text in it fills the first entry.      *)
AsDir(sector) ==
    IF sector \in DirSector THEN sector.ents
    ELSE [j \in 1 .. PerSec |-> IF j = 1 THEN JunkEntry ELSE Empty]

(* The FAT's bytes from the sector of an entry on: the two sectors that    *)
(* fat_read copies.  Where the drive has no FAT they can be anything.      *)
FatSector(sector, i) == sector + i \div SecLen
IsFat(d, sector) == sector \in DOMAIN d /\ "bytes" \in DOMAIN d[sector]
FatByte(d, sector, i) == d[FatSector(sector, i)].bytes[i % SecLen]
FatWord(d, sector, i) == FatByte(d, sector, i) + 256 * FatByte(d, sector, i + 1)

(* FAT12: an entry is 12 bits.  FAT32: it is 28, of four bytes.            *)
Unpack12(c, word) == IF c % 2 = 1 THEN word \div 16 ELSE word % 4096
Unpack32(word, high) == word + 65536 * (high % 4096)

(* Where an entry is, and its length in bytes.                             *)
EntryAt(type, c) ==
    CASE type = "FAT12" -> c + c \div 2 [] type = "FAT16" -> 2 * c [] type = "FAT32" -> 4 * c
EntryBytes(type) == IF type = "FAT32" THEN 4 ELSE 2

(* The last cluster's mark is this or more; 0 is a free one.               *)
EofMark == [FAT12 |-> 4088, FAT16 |-> 65528, FAT32 |-> 268435448]
IsEof(type, next) == next >= EofMark[type] \/ next = 0

(* What the FAT may say of a cluster; beyond the disk, anything.           *)
Anything(type) == Clusters \cup {4080, EofMark[type]}
Nexts(info, d, c) ==
    LET fat_offset == EntryAt(info.type, c)
        fat_sector == info.fat_offset + fat_offset \div SecLen
        entry_offset == fat_offset % SecLen
        word == FatWord(d, fat_sector, entry_offset)
        high == FatWord(d, fat_sector, entry_offset + 2)
    IN IF \E i \in 0 .. EntryBytes(info.type) - 1 : ~IsFat(d, FatSector(fat_sector, entry_offset + i))
       THEN Anything(info.type)
       ELSE IF info.type = "FAT12" THEN {Unpack12(c, word)}
       ELSE IF info.type = "FAT16" THEN {word} ELSE {Unpack32(word, high)}

(* The clusters that fat_read visits one after another; it never leaves    *)
(* the first of a drive that is taken for an exFAT.  An entry that leads   *)
(* nowhere on the disk ends the walk here.                                 *)
Walk(info, d, c) ==
    LET leaves(x) == info.type = "EXFAT" \/ Cardinality(Nexts(info, d, x)) > 1
        next(x) == CHOOSE y \in Nexts(info, d, x) : TRUE
        visit[n \in 0 .. LastCluster + 1, x \in Clusters] ==
            IF n = 0 \/ leaves(x) THEN <<x>>
            ELSE IF IsEof(info.type, next(x)) \/ next(x) > LastCluster THEN <<x>>
            ELSE <<x>> \o visit[n - 1, next(x)]
    IN visit[LastCluster + 1, c]

-----------------------------------------------------------------------------
(* Searching                                                               *)

Slots(info) == (info.root_offset .. info.root_offset + RootSecs - 1) \X (1 .. PerSec)
Before(p, q) == p[1] < q[1] \/ (p[1] = q[1] /\ p[2] < q[2])
At(d, p) == AsDir(d[p[1]])[p[2]]

(* The first slot of the root, in the order of the two loops, with a name. *)
Found(info, d, name) == {p \in Slots(info) : At(d, p).name = name}
FirstOf(ps) == CHOOSE p \in ps : \A q \in ps \ {p} : Before(p, q)

(* fat_get_dir looks in the root only, whatever directory f was found in.  *)
fat_get_dir(info, d, n) == Found(info, d, Dos[n])

(* fat_open_subdir: the first entry with the name in the sectors of a      *)
(* directory's clusters, in the order of the walk.                         *)
SubEntries(info, d, c) ==
    LET walk == Walk(info, d, c)
    IN [j \in 1 .. Len(walk) * PerSec |->
           AsDir(d[get_phys_sector(walk[((j - 1) \div PerSec) + 1])])[((j - 1) % PerSec) + 1]]
SubFound(info, d, c, n) ==
    LET es == SubEntries(info, d, c) IN {j \in DOMAIN es : es[j].name = Dos[n]}

(* A file record for an entry; NULL keeps the name that was looked for.    *)
Opened(n, e) == [type |-> IF e.dir THEN "DIR" ELSE "FILE", name |-> n, cluster |-> e.cluster]
NotFound(n) == [type |-> "NULL", name |-> n]

fat_directory(info, d, n) ==
    LET ps == fat_get_dir(info, d, n)
    IN IF ps = {} THEN NotFound(n) ELSE Opened(n, At(d, FirstOf(ps)))

(* On a drive taken for an exFAT the loop over a directory has no end      *)
(* unless the name is in its first sector.                                 *)
Endless == [type |-> "ENDLESS"]
fat_open_subdir(info, d, c, n) ==
    LET js == SubFound(info, d, c, n)
    IN IF js # {} THEN Opened(n, SubEntries(info, d, c)[CHOOSE j \in js : \A k \in js : j <= k])
       ELSE IF info.type = "EXFAT" THEN Endless ELSE NotFound(n)

(* fat_search of a path of a drive and one or two names.  A first name     *)
(* that is not there leaves current_cluster undefined: the search goes on  *)
(* somewhere.                                                              *)
SearchResults(path) ==
    LET info == minfo[path[1]]
        d == Sectors(path[1])
        first == fat_directory(info, d, path[2])
        from == IF first.type = "NULL" THEN Clusters ELSE {first.cluster}
    IN IF Len(path) = 2 THEN {first} ELSE {fat_open_subdir(info, d, c, path[3]) : c \in from}

-----------------------------------------------------------------------------
(* Commands                                                                *)

Ready == ~halted /\ stage = "console" /\ f = FS_NULL
InDrive == Ready /\ dir # <<>>
Drive == dir[1]

(* Writing a sector of a drive; those of hard disks have no function for   *)
(* that, and the call goes to address 0.                                   *)
Stores(drive, sectors) ==
    IF drive = "fda" THEN disk' = [disk EXCEPT !.fda = sectors] /\ UNCHANGED halted
    ELSE halted' = TRUE /\ UNCHANGED disk

(* Writing back the root's sector, with an entry of it changed.            *)
PutEntry(d, p, e) == [d EXCEPT ![p[1]] = [ents |-> [AsDir(d[p[1]]) EXCEPT ![p[2]] = e]]]

(* console_cd: to a drive that is mounted, down into a directory, or back. *)
CdDrive(drive) ==
    /\ Ready /\ dir = <<>> /\ drive \in Mounted
    /\ dir' = <<drive>>
    /\ UNCHANGED <<boot, disk, f, out, halted>>

Cd(n) ==
    /\ InDrive /\ Len(dir) = 1
    /\ \E r \in SearchResults(Append(dir, n)) : r.type = "DIR"
    /\ dir' = Append(dir, n)
    /\ UNCHANGED <<boot, disk, f, out, halted>>

CdBack ==
    /\ InDrive
    /\ dir' = <<>>
    /\ UNCHANGED <<boot, disk, f, out, halted>>

(* Any command with a name, where looking for it does not end.             *)
SearchHangs(n) ==
    /\ InDrive
    /\ \/ Endless \in SearchResults(Append(dir, n))
       \/ Drive \in HardDisks /\ ReadMayHang(machine.answers, machine.port)
    /\ halted' = TRUE
    /\ UNCHANGED <<boot, disk, dir, f, out>>

(* The new entry: a file of no cluster.                                    *)
NewEntry(n) == [name |-> Dos[n], dir |-> FALSE, cluster |-> 0, size |-> 0]

(* fat_touch does nothing for a name that is found; the mutant does not    *)
(* look.                                                                   *)
MissingAlways(r) == r # Endless
Missing(r) == r.type = "NULL"

(* The entry is made in the root, in the first slot whose name is empty.   *)
(* A file that was not found in a subdirectory has no dev: what is there   *)
(* may be any drive.                                                       *)
Touch(n) ==
    /\ InDrive
    /\ \E r \in SearchResults(Append(dir, n)) : Missing(r)
    /\ \E drive \in IF Len(dir) = 1 THEN {Drive} ELSE Mounted :
          LET d == Sectors(drive)
              free == Found(minfo[drive], d, NoName)
          IN IF free = {} THEN UNCHANGED <<disk, halted>>
             ELSE Stores(drive, PutEntry(d, FirstOf(free), NewEntry(n)))
    /\ UNCHANGED <<boot, dir, f, out>>

TouchExists(n) ==
    /\ InDrive
    /\ \E r \in SearchResults(Append(dir, n)) : r # Endless /\ ~Missing(r)
    /\ UNCHANGED vars

(* When it is not a drive, get_dev_by_id returns NULL.                     *)
TouchNoDev(n) ==
    /\ InDrive /\ Len(dir) > 1
    /\ \E r \in SearchResults(Append(dir, n)) : Missing(r)
    /\ halted' = TRUE
    /\ UNCHANGED <<boot, disk, dir, f, out>>

(* console_write: the text goes to the file's first sector; then the size, *)
(* 1 since "w" made it 0, goes to the entry that fat_get_dir finds.  The   *)
(* file is looked for by name and text, which are not taken apart: a name  *)
(* of eight letters or with an extension is found, as to_dos_file_name     *)
(* stops there.  The mutant counts clusters from the first of the data.    *)
WrittenNext(c) == Phys + c + 1
Written(c) == get_phys_sector(c)

fat_write(info, d, r, v) ==
    LET d1 == [d EXCEPT ![Written(r.cluster)] = [val |-> v]]
        ps == fat_get_dir(info, d1, r.name)
        p == FirstOf(ps)
    IN IF ps = {} THEN d1 ELSE PutEntry(d1, p, [At(d1, p) EXCEPT !.size = 1])

Write(n, v) ==
    /\ InDrive /\ <<n, v>> \in Lines
    /\ \E r \in SearchResults(Append(dir, n)) :
          r.type = "FILE" /\ Stores(Drive, fat_write(minfo[Drive], Sectors(Drive), r, v))
    /\ UNCHANGED <<boot, dir, f, out>>

(* console_delete: the entry of that name in the root is cleared, clusters *)
(* are not freed.                                                          *)
Delete(n) ==
    LET d == Sectors(Drive)
        ps == fat_get_dir(minfo[Drive], d, n)
    IN
    /\ InDrive
    /\ \E r \in SearchResults(Append(dir, n)) : r.type \in {"FILE", "DIR"}
    /\ IF ps = {} THEN UNCHANGED <<disk, halted>>
       ELSE Stores(Drive, PutEntry(d, FirstOf(ps), Empty))
    /\ UNCHANGED <<boot, dir, f, out>>

(* console_read and the loader: open, then a sector at a time to the end.  *)
OpenRead(n) ==
    /\ InDrive
    /\ \E r \in SearchResults(Append(dir, n)) :
          /\ r.type = "FILE"
          /\ f' = [type |-> "FILE", cluster |-> r.cluster, start |-> r.cluster,
                   eof |-> FALSE]
    /\ out' = <<>>
    /\ UNCHANGED <<boot, disk, dir, halted>>

(* The file after a sector was read: at its end, or at the next cluster.   *)
(* The mutant forgets to go on.                                            *)
AdvancedNever(type, next) == IF IsEof(type, next) THEN [f EXCEPT !.eof = TRUE] ELSE f
Advanced(type, next) ==
    IF IsEof(type, next) THEN [f EXCEPT !.eof = TRUE] ELSE [f EXCEPT !.cluster = next]

(* A cluster beyond the disk, to which the entry of cluster 0 leads, holds *)
(* anything.  What is taken for an exFAT stays where it is.  Remembered    *)
(* are the sectors of the files that the properties are about.             *)
Remembered == f.start >= 2 /\ minfo[Drive].type \in {"FAT12", "FAT16"} /\ Len(out) < MaxOut
Content == LET s == get_phys_sector(f.cluster) IN
    IF s \in DOMAIN Sectors(Drive) THEN Sectors(Drive)[s] ELSE Garbage
fat_read ==
    /\ ~halted /\ f # FS_NULL /\ ~f.eof
    /\ out' = IF Remembered THEN Append(out, Content) ELSE out
    /\ LET info == minfo[Drive] IN
          IF info.type = "EXFAT" THEN UNCHANGED f
          ELSE \E next \in Nexts(info, Sectors(Drive), f.cluster) : f' = Advanced(info.type, next)
    /\ UNCHANGED <<boot, disk, dir, halted>>

Close ==
    /\ ~halted /\ f # FS_NULL /\ f.eof
    /\ f' = FS_NULL
    /\ out' = <<>>
    /\ UNCHANGED <<boot, disk, dir, halted>>

-----------------------------------------------------------------------------
Next ==
    \/ floppy_init \/ ata_init \/ ata_initHangs
    \/ \E drive \in Mounted : CdDrive(drive)
    \/ \E n \in Typed : \/ Cd(n) \/ Touch(n) \/ TouchExists(n) \/ TouchNoDev(n) \/ Delete(n)
                        \/ OpenRead(n) \/ SearchHangs(n) \/ \E v \in Texts : Write(n, v)
    \/ CdBack \/ fat_read \/ Close

Spec == Init /\ [][Next]_vars
FairSpec == Spec /\ WF_vars(fat_read \/ Close)

-----------------------------------------------------------------------------
(* Properties                                                              *)

(* The reference: entry k of a FAT12 is nibbles 3k to 3k+2, the lowest     *)
(* first, and a byte is two of them; a FAT16 has two bytes for an entry,   *)
(* and marks are longer.                                                   *)
Nibble(m) == LET e == Links[m \div 3] IN
    IF m % 3 = 0 THEN e % 16 ELSE IF m % 3 = 1 THEN (e \div 16) % 16 ELSE e \div 256
PackedByte(i) ==
    LET half(m) == IF m \div 3 \in DOMAIN Links THEN Nibble(m) ELSE 0
    IN half(2 * i) + 16 * half(2 * i + 1)
WideByte(i) ==
    LET e == IF Links[i \div 2] >= 4080 THEN 61440 + Links[i \div 2] ELSE Links[i \div 2]
    IN IF i \div 2 \notin DOMAIN Links THEN 0 ELSE IF i % 2 = 0 THEN e % 256 ELSE e \div 256

(* A drive laid out like a floppy, the root just before the data, whose    *)
(* clusters are single sectors, with a number of sectors that 16 bits hold. *)
FloppyLayout(sector, info) ==
    /\ IsBoot(sector) /\ sector.boot.cluster_sectors = 1 /\ sector.boot.n_sectors # 0
    /\ sector.boot.reserved_sectors = 1 /\ info.first_data_sector = Phys + 2
    /\ info.root_offset + RootSecs = Phys + 2
Standard(drive) == FloppyLayout(Sectors(drive)[0], minfo[drive])
InFile == f # FS_NULL /\ f.start >= 2 /\ Standard(Drive)

(* A drive that is formatted: below the limit it has a FAT12, else a       *)
(* FAT16, before the root, with those entries for the clusters of files.   *)
DataClusters == 2 .. LastCluster
Formatted(d) ==
    LET clusters == d[0].boot.n_sectors - (Phys + 2)
        kind == IF clusters < Limit12 THEN "FAT12" ELSE "FAT16"
        Byte(i) == IF kind = "FAT12" THEN PackedByte(i) ELSE WideByte(i)
    IN /\ d[0].boot \in BootRecord /\ clusters \in 0 .. Limit16 - 1
       /\ \A c \in DataClusters :
             /\ get_phys_sector(c) \in DOMAIN d
             /\ \A i \in EntryAt(kind, c) .. EntryAt(kind, c) + 1 :
                   /\ FatSector(1, i) < Phys + 2 - RootSecs
                   /\ IsFat(d, FatSector(1, i)) /\ FatByte(d, 1, i) = Byte(i)
WellFormed(d) == FloppyLayout(d[0], fat_mount(d[0])) => Formatted(d)

(* The drives are formatted.  The FAT says that a data cluster is free, or *)
(* the last of a file, or which one follows it, and leads nowhere for ever:*)
(* the clusters can be ranked so that each one leads to a lower one.       *)
ASSUME FilesAssumption ==
    /\ DOMAIN Links = Clusters /\ LastCluster < 4080
    /\ \A c \in DataClusters : Links[c] \in {0} \cup DataClusters \cup 4088 .. 4095
    /\ \E rank \in [DataClusters -> Clusters] : \A c \in DataClusters :
          Links[c] \in DataClusters => rank[Links[c]] < rank[c]
    /\ Limit12 \in Nat /\ Limit16 \in Nat /\ WordMod \in Nat
    /\ Limit12 <= Limit16 /\ Limit16 <= WordMod
    /\ \A m \in Machines :
          /\ m.hda = [s \in DOMAIN m.hda |-> m.hda[s]] /\ 0 \in DOMAIN m.hda
          /\ WellFormed(m.fda) /\ WellFormed(m.hda)

(* The clusters of a file, by the FAT's entries: from the first one, the   *)
(* next is added while there is one.                                       *)
Lengthened(s) == IF Links[Last(s)] \in DataClusters THEN Append(s, Links[Last(s)]) ELSE s
Chain(c) ==
    LET upto[k \in 1 .. LastCluster + 1] == IF k = 1 THEN <<c>> ELSE Lengthened(upto[k - 1])
    IN upto[LastCluster + 1]
Contents(c) == [k \in 1 .. Len(Chain(c)) |-> Sectors(Drive)[get_phys_sector(Chain(c)[k])]]

(* A file is read as its clusters' sectors, in the order of the FAT, none  *)
(* left out or read twice, up to the last one and no further, although the *)
(* FAT's 12-bit entries lie across bytes and sectors and the kind of FAT   *)
(* is guessed from the number of clusters.                                 *)
ReadsContents ==
    InFile => IsPrefix(out, Contents(f.start)) /\ (f.eof => out = Contents(f.start))

(* Reading a file that has clusters comes to its end.                      *)
ReadingEnds == InFile ~> (f = FS_NULL)

(* In the root directory, a command changes nothing but the file that its  *)
(* line becomes the name of, a line of write with its text: entries of     *)
(* other names stay, and so do all sectors of data but the first of the    *)
(* file written - if the file written has a cluster.                       *)
FloppySlots == Slots(minfo["fda"])
EntriesKept(n) ==
    \A p \in FloppySlots :
        At(disk.fda, p).name \notin {NoName, Dos[n]} => At(disk'.fda, p) = At(disk.fda, p)
DataKept(except) ==
    \A s \in (Phys + 2 .. Phys + LastCluster) \ except : disk'.fda[s] = disk.fda[s]
RootCommandIsLocal ==
    [][dir = <<"fda">> /\ Standard("fda") => \A n \in Typed :
          /\ Touch(n) \/ Delete(n) => EntriesKept(n) /\ DataKept({})
          /\ (\E v \in Texts : Write(n, v)) =>
                LET c == fat_directory(minfo["fda"], disk.fda, n).cluster
                IN c >= 2 => EntriesKept(n) /\ DataKept({get_phys_sector(c)})]_vars

(* Names stay unique in the root, however files are made and deleted in    *)
(* it: typed names that become the same 8.3 name are the same file.        *)
UniqueNames(d) ==
    \A p, q \in FloppySlots :
        p # q /\ At(d, p).name \in DosNames => At(d, p).name # At(d, q).name
RootNamesStayUnique ==
    [][dir = <<"fda">> /\ Standard("fda") /\ UniqueNames(disk.fda) => UniqueNames(disk'.fda)]_vars
=============================================================================
