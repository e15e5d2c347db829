------------------------------ MODULE FatProofs ------------------------------
(***************************************************************************)
(* Proofs about Fat, for every floppy, every number of root sectors, of    *)
(* entries in a sector and of clusters, and all names: in the root of a    *)
(* floppy a command changes nothing but the file it names, names stay      *)
(* unique, and files are read as their clusters, whatever the FAT says.    *)
(***************************************************************************)
EXTENDS Fat, NatLemmas, SequenceTheorems

-----------------------------------------------------------------------------
(* A drive with the sectors of drive d.                                    *)
SameSectors(d, w) == DOMAIN w = DOMAIN d /\ w = [s \in DOMAIN d |-> w[s]]

(* The invariant: the floppy keeps its sectors, and once it is mounted the *)
(* place of its root directory is known.                                   *)
FloppyKept ==
    /\ disk = [fda |-> disk.fda, hda |-> disk.hda]
    /\ SameSectors(disk.fda, disk.fda)
    /\ 0 .. Phys + LastCluster \subseteq DOMAIN disk.fda

RootKnown ==
    /\ stage \in {"floppy", "ata", "console"}
    /\ stage = "floppy" =>
          /\ dir = <<>>
          /\ IsBoot(disk.fda[0]) => disk.fda[0].boot \in BootRecord
    /\ stage # "floppy" => "fda" \in Mounted /\ minfo["fda"].root_offset \in Nat

FatInv == FloppyKept /\ RootKnown

(* fat_mount computes a place for the root.                                *)
LEMMA RootOffset ==
    ASSUME NEW sector, IsBoot(sector) => sector.boot \in BootRecord
    PROVE  fat_mount(sector).root_offset \in Nat
<1>1. CASE ~IsBoot(sector)
  BY <1>1 DEF fat_mount, ZeroInfo
<1>2. CASE IsBoot(sector)
  <2> DEFINE b == sector.boot
             fat_size == IF b.fat_sectors = 0 THEN b.ext_fat_sectors ELSE b.fat_sectors
             fats == b.n_fats * fat_size
  <2>1. b.n_fats \in Nat /\ fat_size \in Nat
    BY <1>2 DEF BootRecord
  <2>2. fat_mount(sector).root_offset = fats + 1
    BY <1>2 DEF fat_mount
  <2> HIDE DEF fat_size, b
  <2>3. fats \in Nat
    BY <2>1
  <2>4. QED BY <2>2, <2>3
<1>3. QED BY <1>1, <1>2

(* Writing an entry keeps the sectors.                                     *)
LEMMA PutKeeps ==
    ASSUME NEW d, SameSectors(d, d), NEW p, NEW e
    PROVE  /\ SameSectors(d, PutEntry(d, p, e))
           /\ \A s \in DOMAIN d : s # p[1] => PutEntry(d, p, e)[s] = d[s]
           /\ p[1] \in DOMAIN d =>
                 PutEntry(d, p, e)[p[1]] = [ents |-> [AsDir(d[p[1]]) EXCEPT ![p[2]] = e]]
  BY DEF PutEntry, SameSectors

(* The sectors that the entry is not written to stay as they were.         *)
LEMMA PutOthers ==
    ASSUME NEW d, SameSectors(d, d), NEW p, NEW e, NEW s, s \in DOMAIN d, s # p[1]
    PROVE  PutEntry(d, p, e)[s] = d[s]
  BY DEF PutEntry, SameSectors

(* So does writing to a file.                                              *)
LEMMA WriteKeeps ==
    ASSUME NEW d, SameSectors(d, d), NEW info, NEW r, NEW v
    PROVE  SameSectors(d, fat_write(info, d, r, v))
<1> DEFINE d1 == [d EXCEPT ![Written(r.cluster)] = [val |-> v]]
           ps == fat_get_dir(info, d1, r.name)
           p == FirstOf(ps)
           w == PutEntry(d1, p, [At(d1, p) EXCEPT !.size = 1])
<1>1. SameSectors(d, d1) /\ SameSectors(d1, d1)
  BY DEF SameSectors
<1>2. fat_write(info, d, r, v) = d1 \/ fat_write(info, d, r, v) = w
  BY DEF fat_write
<1> HIDE DEF d1, ps, p
<1>3. SameSectors(d1, w)
  BY <1>1, PutKeeps
<1> HIDE DEF w
<1>4. SameSectors(d, w)
  BY <1>1, <1>3 DEF SameSectors
<1>5. QED BY <1>1, <1>2, <1>4, Zenon

(* Writing back a floppy with the same sectors.                            *)
LEMMA StoresKeep ==
    ASSUME FloppyKept, NEW w, SameSectors(disk.fda, w), Stores("fda", w)
    PROVE  FloppyKept' /\ disk'.fda = w /\ disk'.hda = disk.hda
<1>1. disk' = [disk EXCEPT !.fda = w]
  BY DEF Stores
<1>2. disk' = [fda |-> w, hda |-> disk.hda]
  BY <1>1 DEF FloppyKept
<1>3. disk'.fda = w /\ disk'.hda = disk.hda
  BY <1>2
<1>4. SameSectors(w, w) /\ DOMAIN w = DOMAIN disk.fda
  BY DEF SameSectors
<1>5. QED BY <1>2, <1>3, <1>4 DEF FloppyKept

(* It holds at boot.                                                       *)
LEMMA FatInit == Init => FatInv
<1>1. SUFFICES ASSUME Init PROVE FatInv
  OBVIOUS
<1>2. PICK m \in Machines : disk = [fda |-> m.fda, hda |-> m.hda]
  BY <1>1 DEF Init
<1>3. /\ m.fda = [s \in DOMAIN m.fda |-> m.fda[s]]
      /\ 0 .. Phys + LastCluster \subseteq DOMAIN m.fda
      /\ IsBoot(m.fda[0]) => m.fda[0].boot \in BootRecord
  BY FatAssumption
<1>4. disk.fda = m.fda /\ disk.hda = m.hda
  BY <1>2
<1>5. FloppyKept
  BY <1>2, <1>3, <1>4 DEF FloppyKept, SameSectors
<1>6. RootKnown
  BY <1>1, <1>3, <1>4 DEF Init, RootKnown
<1>7. QED BY <1>5, <1>6 DEF FatInv

(* A step that leaves the drives alone.                                    *)
LEMMA DrivesSame ==
    ASSUME FatInv, UNCHANGED <<stage, disk, minfo>>, stage = "floppy" => dir' = dir
    PROVE  FatInv'
  BY DEF FatInv, FloppyKept, RootKnown, Mounted

(* A command that writes to the floppy, or goes through the missing        *)
(* function of a hard disk.                                                *)
LEMMA StoresSafe ==
    ASSUME FatInv, NEW drive, NEW w, Stores(drive, w), UNCHANGED <<stage, minfo, dir>>,
           stage = "console",
           drive = "fda" => SameSectors(disk.fda, w)
    PROVE  FatInv'
<1>1. CASE drive = "fda"
  BY <1>1, StoresKeep DEF FatInv, RootKnown, Mounted
<1>2. CASE drive # "fda"
  BY <1>2, DrivesSame DEF Stores
<1>3. QED BY <1>1, <1>2

(* Every step preserves it.                                                *)
LEMMA FatNext == FatInv /\ [Next]_vars => FatInv'
<1>1. SUFFICES ASSUME FatInv, [Next]_vars PROVE FatInv'
  OBVIOUS
<1>2. SameSectors(disk.fda, disk.fda)
  BY <1>1 DEF FatInv, FloppyKept
<1>3. Sectors("fda") = disk.fda
  BY DEF Sectors
<1>4. CASE floppy_init
  <2>1. /\ stage = "floppy" /\ stage' = "ata" /\ UNCHANGED <<disk, dir>>
        /\ device_register({"fda"})
    BY <1>4 DEF floppy_init
  <2>2. minfo'["fda"] = fat_mount(disk.fda[0]) /\ "fda" \in Mounted'
    BY <1>3, <2>1 DEF device_register, Mounted
  <2>3. QED BY <1>1, <2>1, <2>2, RootOffset DEF FatInv, FloppyKept, RootKnown
<1>5. CASE ata_init
  <2>1. /\ stage = "ata" /\ stage' = "console" /\ UNCHANGED <<disk, dir>>
        /\ device_register(Present(machine.answers))
    BY <1>5 DEF ata_init
  <2>2. "fda" \notin Present(machine.answers)
    BY FatAssumption DEF Present
  <2>3. "fda" \in Mounted /\ minfo["fda"].root_offset \in Nat
    BY <1>1, <2>1 DEF FatInv, RootKnown
  <2>4. minfo'["fda"] = minfo["fda"] /\ "fda" \in Mounted'
    BY <2>1, <2>2, <2>3 DEF device_register, Mounted
  <2>5. QED BY <1>1, <2>1, <2>3, <2>4 DEF FatInv, FloppyKept, RootKnown
<1>6. CASE \/ ata_initHangs \/ CdBack \/ fat_read \/ Close
           \/ \E drive \in Mounted : CdDrive(drive)
           \/ \E n \in Typed : Cd(n) \/ TouchExists(n) \/ TouchNoDev(n) \/ OpenRead(n)
                               \/ SearchHangs(n)
  <2>1. UNCHANGED <<stage, disk, minfo>>
    BY <1>6 DEF ata_initHangs, CdBack, fat_read, Close, CdDrive, Cd, TouchExists, TouchNoDev,
       OpenRead, SearchHangs, boot, vars
  <2>2. stage = "floppy" => dir' = dir
    BY <1>6 DEF ata_initHangs, CdBack, fat_read, Close, CdDrive, Cd, TouchExists, TouchNoDev,
       OpenRead, SearchHangs, vars, InDrive, Ready
  <2>3. QED BY <1>1, <2>1, <2>2, DrivesSame
<1>7. ASSUME NEW n \in Typed, Touch(n) PROVE FatInv'
  <2>1. stage = "console" /\ UNCHANGED <<stage, minfo, dir>>
    BY <1>7 DEF Touch, InDrive, Ready, boot
  <2>2. PICK drive : LET d == Sectors(drive)
                         free == Found(minfo[drive], d, NoName)
                     IN IF free = {} THEN UNCHANGED <<disk, halted>>
                        ELSE Stores(drive, PutEntry(d, FirstOf(free), NewEntry(n)))
    BY <1>7 DEF Touch
  <2> DEFINE p == FirstOf(Found(minfo[drive], Sectors(drive), NoName))
             w == PutEntry(Sectors(drive), p, NewEntry(n))
  <2>3. CASE UNCHANGED <<disk, halted>>
    BY <1>1, <2>1, <2>3, DrivesSame
  <2>4. CASE Stores(drive, w)
    <3>1. ASSUME drive = "fda"
          PROVE  SameSectors(disk.fda, w)
      <4>1. w = PutEntry(disk.fda, p, NewEntry(n))
        BY <1>3, <3>1, Zenon
      <4> HIDE DEF p, w
      <4>2. QED BY <1>2, <4>1, PutKeeps
    <3> HIDE DEF w
    <3>2. QED BY <1>1, <2>1, <2>4, <3>1, StoresSafe
  <2>5. QED BY <2>2, <2>3, <2>4
<1>8. ASSUME NEW n \in Typed, Delete(n) PROVE FatInv'
  <2> DEFINE p == FirstOf(fat_get_dir(minfo[Drive], Sectors(Drive), n))
             w == PutEntry(Sectors(Drive), p, Empty)
  <2>1. stage = "console" /\ UNCHANGED <<stage, minfo, dir>>
    BY <1>8 DEF Delete, InDrive, Ready, boot
  <2>2. UNCHANGED <<disk, halted>> \/ Stores(Drive, w)
    BY <1>8 DEF Delete
  <2>3. CASE UNCHANGED <<disk, halted>>
    BY <1>1, <2>1, <2>3, DrivesSame
  <2>4. CASE Stores(Drive, w)
    <3>1. ASSUME Drive = "fda"
          PROVE  SameSectors(disk.fda, w)
      <4>1. w = PutEntry(disk.fda, p, Empty)
        BY <1>3, <3>1, Zenon
      <4> HIDE DEF p, w
      <4>2. QED BY <1>2, <4>1, PutKeeps
    <3> HIDE DEF w
    <3>2. QED BY <1>1, <2>1, <2>4, <3>1, StoresSafe
  <2>5. QED BY <2>2, <2>3, <2>4
<1>9. ASSUME NEW n \in Typed, NEW v \in Texts, Write(n, v) PROVE FatInv'
  <2>1. stage = "console" /\ UNCHANGED <<stage, minfo, dir>>
    BY <1>9 DEF Write, InDrive, Ready, boot
  <2>2. PICK r : Stores(Drive, fat_write(minfo[Drive], Sectors(Drive), r, v))
    BY <1>9 DEF Write
  <2> DEFINE w == fat_write(minfo[Drive], Sectors(Drive), r, v)
  <2>3. Drive = "fda" => SameSectors(disk.fda, w)
    BY <1>2, <1>3, WriteKeeps
  <2> HIDE DEF w
  <2>4. Stores(Drive, w)
    BY <2>2 DEF w
  <2>5. QED BY <1>1, <2>1, <2>3, <2>4, StoresSafe
<1>10. CASE UNCHANGED vars
  BY <1>1, <1>10, DrivesSame DEF vars
<1>11. QED BY <1>1, <1>4, <1>5, <1>6, <1>7, <1>8, <1>9, <1>10 DEF Next

(* The invariant holds in every state.                                     *)
THEOREM FatInvariant == Spec => []FatInv
  BY FatInit, FatNext, PTL DEF Spec

-----------------------------------------------------------------------------
(* Directories                                                             *)

(* Whatever a sector holds, as a directory it is entries.                  *)
LEMMA AsDirEntries == \A sector : AsDir(sector) \in [1 .. PerSec -> Entries]
<1> SUFFICES ASSUME NEW sector PROVE AsDir(sector) \in [1 .. PerSec -> Entries]
  OBVIOUS
<1>1. CASE sector \in DirSector
  BY <1>1 DEF AsDir, DirSector
<1>2. CASE sector \notin DirSector
  <2>1. Empty \in Entries /\ JunkEntry \in Entries
    BY DEF Entries
  <2>2. AsDir(sector) = [j \in 1 .. PerSec |-> IF j = 1 THEN JunkEntry ELSE Empty]
    BY <1>2, Zenon DEF AsDir
  <2>3. QED BY <2>1, <2>2
<1>3. QED BY <1>1, <1>2

(* Places of entries on a drive.                                           *)
Places(d) == {p \in Nat \X (1 .. PerSec) : p[1] \in DOMAIN d}

(* Writing an entry changes the entry of that place and no other.          *)
LEMMA PutAt ==
    ASSUME NEW d, SameSectors(d, d), NEW p \in Places(d), NEW q \in Places(d),
           NEW e \in Entries
    PROVE  At(PutEntry(d, p, e), q) = IF q = p THEN e ELSE At(d, q)
<1> DEFINE w == PutEntry(d, p, e)
           es == [AsDir(d[p[1]]) EXCEPT ![p[2]] = e]
<1>1. /\ p \in Nat \X (1 .. PerSec) /\ q \in Nat \X (1 .. PerSec)
      /\ p[1] \in DOMAIN d /\ q[1] \in DOMAIN d
      /\ p[2] \in 1 .. PerSec /\ q[2] \in 1 .. PerSec
  BY DEF Places
<1>2. AsDir(d[p[1]]) \in [1 .. PerSec -> Entries]
  BY AsDirEntries
<1>3. es \in [1 .. PerSec -> Entries]
  <2>1. ASSUME NEW g \in [1 .. PerSec -> Entries], NEW j \in 1 .. PerSec
        PROVE  [g EXCEPT ![j] = e] \in [1 .. PerSec -> Entries]
    OBVIOUS
  <2>2. QED BY <1>1, <1>2, <2>1, Zenon
<1>4. w[p[1]] = [ents |-> es] /\ (q[1] # p[1] => w[q[1]] = d[q[1]])
  <2>1. /\ \A s \in DOMAIN d : s # p[1] => PutEntry(d, p, e)[s] = d[s]
        /\ p[1] \in DOMAIN d =>
              PutEntry(d, p, e)[p[1]] = [ents |-> [AsDir(d[p[1]]) EXCEPT ![p[2]] = e]]
    BY PutKeeps
  <2>2. QED BY <1>1, <2>1, Zenon
<1>5. CASE q[1] # p[1]
  BY <1>1, <1>4, <1>5 DEF At
<1>6. CASE q[1] = p[1]
  <2> HIDE DEF es
  <2>1. [ents |-> es] \in DirSector
    BY <1>3 DEF DirSector
  <2>2. AsDir([ents |-> es]) = [ents |-> es].ents
    BY <2>1, Zenon DEF AsDir
  <2>3. AsDir(w[q[1]]) = es
    BY <1>4, <1>6, <2>2
  <2>4. At(w, q) = es[q[2]]
    BY <2>3, Zenon DEF At
  <2>5. At(d, q) = AsDir(d[p[1]])[q[2]]
    BY <1>6, Zenon DEF At
  <2>6. es[q[2]] = IF q[2] = p[2] THEN e ELSE AsDir(d[p[1]])[q[2]]
    BY <1>1, <1>2 DEF es
  <2>7. (q[2] = p[2]) <=> (q = p)
    BY <1>1, <1>6
  <2>8. QED BY <2>4, <2>5, <2>6, <2>7, Zenon
<1>7. QED BY <1>5, <1>6

TextIn(d, x, v) == [d EXCEPT ![x] = [val |-> v]]

(* Text in a sector is an entry that nobody named, and free ones; other    *)
(* sectors are as they were.                                               *)
LEMMA DataAt ==
    ASSUME NEW d, SameSectors(d, d), NEW x, NEW v, NEW q \in Places(d)
    PROVE  /\ q[1] # x => At(TextIn(d, x, v), q) = At(d, q)
           /\ q[1] = x => At(TextIn(d, x, v), q).name \in {Junk, NoName}
<1> DEFINE d1 == TextIn(d, x, v)
           text == [val |-> v]
<1>1. q[1] \in DOMAIN d /\ q[2] \in 1 .. PerSec
  BY DEF Places
<1>3. (q[1] # x => d1[q[1]] = d[q[1]]) /\ (q[1] = x => d1[q[1]] = text)
  BY <1>1 DEF SameSectors, TextIn
<1>4. text \notin DirSector
  <2>1. "ents" \notin DOMAIN text
    OBVIOUS
  <2>2. \A s \in DirSector : "ents" \in DOMAIN s
    BY DEF DirSector
  <2>3. QED BY <2>1, <2>2
<1> HIDE DEF text, d1
<1>5. AsDir(text) = [j \in 1 .. PerSec |-> IF j = 1 THEN JunkEntry ELSE Empty]
  BY <1>4, Zenon DEF AsDir
<1>6. q[1] # x => At(d1, q) = At(d, q)
  BY <1>3 DEF At
<1>7. ASSUME q[1] = x PROVE At(d1, q).name \in {Junk, NoName}
  <2>1. At(d1, q) = AsDir(text)[q[2]]
    BY <1>3, <1>7, Zenon DEF At
  <2>2. At(d1, q) = JunkEntry \/ At(d1, q) = Empty
    BY <1>1, <1>5, <2>1
  <2>3. QED BY <2>2 DEF JunkEntry, Empty
<1>8. QED BY <1>6, <1>7 DEF d1

(* The loops over a directory stop at one of the places looked for.        *)
LEMMA FirstIsOne ==
    ASSUME NEW ps, ps \subseteq Nat \X (1 .. PerSec), ps # {}
    PROVE  FirstOf(ps) \in ps
<1> DEFINE sectors == {p[1] : p \in ps}
<1>1. sectors \subseteq Nat /\ sectors # {}
  OBVIOUS
<1>2. PICK s \in sectors : \A t \in sectors : s <= t
  BY <1>1, LeastNat
<1> DEFINE nths == {p[2] : p \in {q \in ps : q[1] = s}}
<1>3. nths \subseteq Nat /\ nths # {}
  BY FatAssumption
<1>4. PICK j \in nths : \A k \in nths : j <= k
  BY <1>3, LeastNat
<1>5. PICK p \in ps : p[1] = s /\ p[2] = j
  OBVIOUS
<1>6. ASSUME NEW q \in ps \ {p} PROVE Before(p, q)
  <2>1. q \in Nat \X (1 .. PerSec) /\ p \in Nat \X (1 .. PerSec)
    OBVIOUS
  <2>2. q[1] \in Nat /\ q[2] \in Nat /\ p[1] \in Nat /\ p[2] \in Nat
    BY <2>1, FatAssumption
  <2>3. p[1] <= q[1]
    BY <1>2, <1>5
  <2>4. CASE p[1] = q[1]
    <3>1. q[2] \in nths
      BY <1>5, <2>4
    <3>2. p[2] <= q[2]
      BY <1>4, <1>5, <3>1
    <3>3. p[2] # q[2]
      BY <2>1, <2>4
    <3>4. QED BY <2>2, <2>4, <3>2, <3>3 DEF Before
  <2>5. QED BY <2>2, <2>3, <2>4 DEF Before
<1>7. QED BY <1>5, <1>6, Zenon DEF FirstOf

-----------------------------------------------------------------------------
(* Commands in the root of the floppy                                      *)

InRoot == FatInv /\ dir = <<"fda">> /\ Standard("fda")

(* The root's slots are places of the floppy before the data.              *)
LEMMA RootSlots ==
    ASSUME InRoot
    PROVE  /\ FloppySlots \subseteq Places(disk.fda)
           /\ \A p \in FloppySlots : p[1] < Phys + 2
           /\ SameSectors(disk.fda, disk.fda)
<1>1. stage # "floppy"
  BY DEF InRoot, FatInv, RootKnown
<1>2. minfo["fda"].root_offset \in Nat
  BY <1>1 DEF InRoot, FatInv, RootKnown
<1>3. minfo["fda"].root_offset + RootSecs = Phys + 2
  BY DEF InRoot, Standard, FloppyLayout
<1>4. 0 .. Phys + LastCluster \subseteq DOMAIN disk.fda /\ SameSectors(disk.fda, disk.fda)
  BY DEF InRoot, FatInv, FloppyKept
<1> DEFINE at == minfo["fda"].root_offset
<1>5. FloppySlots = (at .. at + RootSecs - 1) \X (1 .. PerSec)
  BY DEF FloppySlots, Slots
<1> HIDE DEF at
<1>6. at \in Nat /\ at + RootSecs = Phys + 2
  BY <1>2, <1>3 DEF at
<1>7. ASSUME NEW p \in FloppySlots
      PROVE  p \in Places(disk.fda) /\ p[1] < Phys + 2
  <2>1. p[1] \in at .. at + RootSecs - 1 /\ p \in (at .. at + RootSecs - 1) \X (1 .. PerSec)
    BY <1>5, <1>7
  <2>2. p[1] \in Nat /\ p[1] < Phys + 2 /\ p[1] \in 0 .. Phys + LastCluster
    BY <1>6, <2>1, FatAssumption
  <2>3. p \in Nat \X (1 .. PerSec)
    BY <2>1, <2>2
  <2>4. QED BY <1>4, <2>2, <2>3 DEF Places
<1>8. QED BY <1>4, <1>7

(* What is found is found among the slots.                                 *)
LEMMA FoundIsSlot ==
    ASSUME InRoot, NEW d, NEW name, Found(minfo["fda"], d, name) # {}
    PROVE  LET p == FirstOf(Found(minfo["fda"], d, name))
           IN p \in FloppySlots /\ At(d, p).name = name
<1> DEFINE ps == Found(minfo["fda"], d, name)
<1>1. ps \subseteq FloppySlots
  BY DEF Found, FloppySlots
<1>2. ps \subseteq Nat \X (1 .. PerSec)
  BY <1>1, RootSlots DEF Places
<1>3. FirstOf(ps) \in ps
  BY <1>2, FirstIsOne
<1>4. QED BY <1>1, <1>3 DEF Found

(* A search in the root has one answer.                                    *)
LEMMA RootSearch ==
    ASSUME InRoot, NEW n
    PROVE  /\ Drive = "fda" /\ Sectors("fda") = disk.fda
           /\ SearchResults(Append(dir, n)) = {fat_directory(minfo["fda"], disk.fda, n)}
<1>1. dir = <<"fda">>
  BY DEF InRoot
<1>2. ASSUME NEW a, NEW b
      PROVE  Len(Append(<<a>>, b)) = 2 /\ Append(<<a>>, b)[1] = a /\ Append(<<a>>, b)[2] = b
  <2>1. <<a>> \in Seq({a, b}) /\ b \in {a, b} /\ Len(<<a>>) = 1
    OBVIOUS
  <2>2. QED BY <2>1
<1>3. Drive = "fda" /\ Sectors("fda") = disk.fda
  BY <1>1 DEF Drive, Sectors
<1> DEFINE path == Append(dir, n)
<1>4. Len(path) = 2 /\ path[1] = "fda" /\ path[2] = n
  BY <1>1, <1>2, Zenon
<1> HIDE DEF path
<1>5. SearchResults(path) = {fat_directory(minfo["fda"], Sectors("fda"), n)}
  BY <1>4, Zenon DEF SearchResults
<1>6. QED BY <1>3, <1>5 DEF path

(* What the answer says.                                                   *)
LEMMA Answer ==
    ASSUME NEW info, NEW d, NEW n
    PROVE  LET r == fat_directory(info, d, n) IN
           /\ r.type = "NULL" <=> fat_get_dir(info, d, n) = {}
           /\ r.name = n
  BY DEF fat_directory, Opened, NotFound

(* The floppy after Touch, Delete and Write.                               *)
LEMMA TouchedRoot ==
    ASSUME InRoot, NEW n \in Typed, Touch(n)
    PROVE  /\ fat_get_dir(minfo["fda"], disk.fda, n) = {}
           /\ \/ disk' = disk
              \/ \E p \in FloppySlots :
                    /\ At(disk.fda, p).name = NoName
                    /\ disk'.fda = PutEntry(disk.fda, p, NewEntry(n))
<1> DEFINE free == Found(minfo["fda"], disk.fda, NoName)
           w == PutEntry(disk.fda, FirstOf(free), NewEntry(n))
<1>1. Drive = "fda" /\ Sectors("fda") = disk.fda
  BY RootSearch
<1>2. fat_get_dir(minfo["fda"], disk.fda, n) = {}
  <2>1. PICK r \in SearchResults(Append(dir, n)) : r.type = "NULL"
    BY DEF Touch, Missing
  <2>2. r = fat_directory(minfo["fda"], disk.fda, n)
    BY <2>1, RootSearch
  <2>3. QED BY <2>1, <2>2, Answer
<1>3. Len(dir) = 1
  BY DEF InRoot
<1>4. IF free = {} THEN UNCHANGED <<disk, halted>> ELSE Stores("fda", w)
  <2>1. PICK drive \in {Drive} :
           LET d == Sectors(drive)
               fr == Found(minfo[drive], d, NoName)
           IN IF fr = {} THEN UNCHANGED <<disk, halted>>
              ELSE Stores(drive, PutEntry(d, FirstOf(fr), NewEntry(n)))
    BY <1>3 DEF Touch
  <2>2. drive = "fda"
    BY <1>1, <2>1
  <2>3. QED BY <1>1, <2>1, <2>2, Zenon
<1>5. CASE free = {}
  BY <1>2, <1>4, <1>5
<1>6. CASE free # {}
  <2>1. FirstOf(free) \in FloppySlots /\ At(disk.fda, FirstOf(free)).name = NoName
    BY <1>6, FoundIsSlot
  <2>2. SameSectors(disk.fda, w)
    BY RootSlots, PutKeeps
  <2> HIDE DEF w, free
  <2>3. disk'.fda = w
    BY <1>4, <1>6, <2>2, StoresKeep DEF InRoot, FatInv
  <2>4. QED BY <1>2, <2>1, <2>3 DEF w
<1>7. QED BY <1>5, <1>6

(* What delete does to the root: at most one entry of the name is emptied. *)
LEMMA DeletedRoot ==
    ASSUME InRoot, NEW n \in Typed, Delete(n)
    PROVE  \/ disk' = disk
           \/ \E p \in FloppySlots :
                 /\ At(disk.fda, p).name = Dos[n]
                 /\ disk'.fda = PutEntry(disk.fda, p, Empty)
<1> DEFINE ps == Found(minfo["fda"], disk.fda, Dos[n])
           w == PutEntry(disk.fda, FirstOf(ps), Empty)
<1>1. Drive = "fda" /\ Sectors("fda") = disk.fda
  BY RootSearch
<1>2. IF ps = {} THEN UNCHANGED <<disk, halted>> ELSE Stores("fda", w)
  <2>1. fat_get_dir(minfo["fda"], disk.fda, n) = ps
    BY DEF fat_get_dir
  <2> HIDE DEF ps
  <2>2. QED BY <1>1, <2>1, Zenon DEF Delete
<1>3. CASE ps = {}
  BY <1>2, <1>3
<1>4. CASE ps # {}
  <2>1. FirstOf(ps) \in FloppySlots /\ At(disk.fda, FirstOf(ps)).name = Dos[n]
    BY <1>4, FoundIsSlot
  <2>2. SameSectors(disk.fda, w)
    BY RootSlots, PutKeeps
  <2> HIDE DEF w, ps
  <2>3. disk'.fda = w
    BY <1>2, <1>4, <2>2, StoresKeep DEF InRoot, FatInv
  <2>4. QED BY <2>1, <2>3 DEF w
<1>5. QED BY <1>3, <1>4

(* Resized(e) is the entry of a file that was written.                     *)
Resized(e) == [e EXCEPT !.size = 1]
TextAt(c, v) == TextIn(disk.fda, Phys + c, v)

(* What write does: text in one sector, and the length in one entry.       *)
LEMMA WrittenRoot ==
    ASSUME InRoot, NEW n \in Typed, NEW v, Write(n, v)
    PROVE  LET c == fat_directory(minfo["fda"], disk.fda, n).cluster
               d1 == TextAt(c, v)
           IN \/ disk'.fda = d1
              \/ \E p \in FloppySlots :
                    /\ At(d1, p).name = Dos[n]
                    /\ disk'.fda = PutEntry(d1, p, Resized(At(d1, p)))
<1> DEFINE r == fat_directory(minfo["fda"], disk.fda, n)
           d1 == TextAt(r.cluster, v)
           ps == Found(minfo["fda"], d1, Dos[n])
           w == fat_write(minfo["fda"], disk.fda, r, v)
<1>1. Drive = "fda" /\ Sectors("fda") = disk.fda
  BY RootSearch
<1>2. Stores("fda", w)
  <2>1. PICK x \in SearchResults(Append(dir, n)) :
           Stores(Drive, fat_write(minfo[Drive], Sectors(Drive), x, v))
    BY DEF Write
  <2>2. x = r
    BY <2>1, RootSearch
  <2>3. QED BY <1>1, <2>1, <2>2, Zenon
<1>3. r.name = n
  BY Answer
<1>4. SameSectors(disk.fda, w)
  BY RootSlots, WriteKeeps
<1>5. w = IF ps = {} THEN d1 ELSE PutEntry(d1, FirstOf(ps), Resized(At(d1, FirstOf(ps))))
  <2> HIDE DEF r
  <2>1. d1 = [disk.fda EXCEPT ![Written(r.cluster)] = [val |-> v]]
    BY DEF TextAt, TextIn, Written, get_phys_sector
  <2>2. fat_get_dir(minfo["fda"], d1, r.name) = ps
    BY <1>3 DEF fat_get_dir
  <2> HIDE DEF d1, ps
  <2>3. QED BY <2>1, <2>2, Zenon DEF fat_write, Resized
<1> HIDE DEF w
<1>6. disk'.fda = w
  BY <1>2, <1>4, StoresKeep DEF InRoot, FatInv
<1>7. ps # {} => FirstOf(ps) \in FloppySlots /\ At(d1, FirstOf(ps)).name = Dos[n]
  BY FoundIsSlot
<1>8. QED BY <1>5, <1>6, <1>7, Zenon

(* A named entry is the record of a file.                                  *)
LEMMA NamedEntry ==
    ASSUME NEW e \in Entries, e.name \in DosNames
    PROVE  e \in [name : DosNames, dir : BOOLEAN, cluster : Clusters, size : Nat]
<1>1. Empty.name \notin DosNames /\ JunkEntry.name \notin DosNames
  BY FatAssumption DEF Empty, JunkEntry
<1>2. e # Empty /\ e # JunkEntry
  BY <1>1
<1>3. QED BY <1>2 DEF Entries

(* The entries that commands make.                                         *)
LEMMA NewEntries ==
    /\ \A n \in Typed : NewEntry(n) \in Entries /\ NewEntry(n).name = Dos[n] /\ Dos[n] \in DosNames
    /\ Empty \in Entries /\ Empty.name = NoName
    /\ \A e \in Entries : e.name \in DosNames => Resized(e) \in Entries /\ Resized(e).name = e.name
<1>1. ASSUME NEW n \in Typed
      PROVE  NewEntry(n) \in Entries /\ NewEntry(n).name = Dos[n] /\ Dos[n] \in DosNames
  <2>1. Dos[n] \in DosNames
    BY DEF DosNames
  <2>2. 0 \in Clusters
    BY FatAssumption DEF Clusters
  <2>3. QED BY <2>1, <2>2 DEF NewEntry, Entries
<1>2. Empty \in Entries /\ Empty.name = NoName
  BY DEF Entries, Empty
<1>3. ASSUME NEW e \in Entries, e.name \in DosNames
      PROVE  Resized(e) \in Entries /\ Resized(e).name = e.name
  <2>1. e \in [name : DosNames, dir : BOOLEAN, cluster : Clusters, size : Nat]
    BY <1>3, NamedEntry
  <2>2. Resized(e) \in [name : DosNames, dir : BOOLEAN, cluster : Clusters, size : Nat]
    BY <2>1 DEF Resized
  <2>3. Resized(e).name = e.name
    BY <2>1 DEF Resized
  <2>4. QED BY <2>2, <2>3 DEF Entries
<1>4. QED BY <1>1, <1>2, <1>3

(* An entry of the root that is written leaves other slots and all data.   *)
LEMMA PutIsLocal ==
    ASSUME InRoot, NEW d, SameSectors(d, d), DOMAIN d = DOMAIN disk.fda,
           NEW p \in FloppySlots, NEW e \in Entries
    PROVE  /\ \A q \in FloppySlots : At(PutEntry(d, p, e), q) = IF q = p THEN e ELSE At(d, q)
           /\ \A s \in Phys + 2 .. Phys + LastCluster : PutEntry(d, p, e)[s] = d[s]
<1>1. FloppySlots \subseteq Places(d)
  BY RootSlots DEF Places
<1>2. ASSUME NEW q \in FloppySlots
      PROVE  At(PutEntry(d, p, e), q) = IF q = p THEN e ELSE At(d, q)
  BY <1>1, <1>2, PutAt
<1>3. ASSUME NEW s \in Phys + 2 .. Phys + LastCluster
      PROVE  PutEntry(d, p, e)[s] = d[s]
  <2>1. s \in DOMAIN d
    <3>1. 0 .. Phys + LastCluster \subseteq DOMAIN d
      BY DEF InRoot, FatInv, FloppyKept
    <3>2. s \in 0 .. Phys + LastCluster
      BY <1>3, FatAssumption
    <3>3. QED BY <3>1, <3>2
  <2>2. s # p[1]
    <3>1. p[1] < Phys + 2 /\ p[1] \in Nat
      BY RootSlots DEF Places
    <3>2. QED BY <1>3, <3>1, FatAssumption
  <2>3. QED BY <2>1, <2>2, PutOthers
<1>4. QED BY <1>2, <1>3

(* A file that is found has a cluster of the drive.                        *)
LEMMA ClusterKnown ==
    ASSUME InRoot, NEW n \in Typed, NEW v, Write(n, v)
    PROVE  fat_directory(minfo["fda"], disk.fda, n).cluster \in Clusters
<1> DEFINE r == fat_directory(minfo["fda"], disk.fda, n)
           ps == Found(minfo["fda"], disk.fda, Dos[n])
           e == At(disk.fda, FirstOf(ps))
<1>1. r.type = "FILE"
  BY RootSearch DEF Write
<1>2. fat_get_dir(minfo["fda"], disk.fda, n) = ps
  BY DEF fat_get_dir
<1>3. ps # {}
  BY <1>1, <1>2, Answer
<1>4. r.cluster = e.cluster
  BY <1>2, <1>3 DEF fat_directory, Opened
<1>5. FirstOf(ps) \in FloppySlots /\ e.name = Dos[n]
  BY <1>3, FoundIsSlot
<1>6. FirstOf(ps)[2] \in 1 .. PerSec
  BY <1>5, RootSlots DEF Places
<1>7. e \in Entries
  BY <1>6, AsDirEntries DEF At
<1> HIDE DEF e, r, ps
<1>8. e \in [name : DosNames, dir : BOOLEAN, cluster : Clusters, size : Nat]
  BY <1>5, <1>7, NamedEntry, NewEntries
<1>9. QED BY <1>4, <1>8 DEF r

(* Where the text goes: a slot keeps its entry unless its sector is the    *)
(* one written, and then its name is none of a file.                       *)
LEMMA TextIsLocal ==
    ASSUME InRoot, NEW c, NEW v
    PROVE  /\ SameSectors(TextAt(c, v), TextAt(c, v)) /\ DOMAIN TextAt(c, v) = DOMAIN disk.fda
           /\ \A q \in FloppySlots :
                 /\ q[1] # Phys + c => At(TextAt(c, v), q) = At(disk.fda, q)
                 /\ q[1] = Phys + c => At(TextAt(c, v), q).name \in {Junk, NoName}
           /\ \A s \in DOMAIN disk.fda : s # Phys + c => TextAt(c, v)[s] = disk.fda[s]
           /\ \A q \in FloppySlots : At(TextAt(c, v), q) \in Entries
<1>1. SameSectors(disk.fda, disk.fda) /\ FloppySlots \subseteq Places(disk.fda)
  BY RootSlots
<1>2. SameSectors(TextAt(c, v), TextAt(c, v)) /\ DOMAIN TextAt(c, v) = DOMAIN disk.fda
  BY <1>1 DEF SameSectors, TextAt, TextIn
<1>3. ASSUME NEW q \in FloppySlots
      PROVE  /\ q[1] # Phys + c => At(TextAt(c, v), q) = At(disk.fda, q)
             /\ q[1] = Phys + c => At(TextAt(c, v), q).name \in {Junk, NoName}
  <2>1. q \in Places(disk.fda)
    BY <1>1
  <2>2. QED BY <1>1, <2>1, DataAt, Zenon DEF TextAt
<1>4. \A s \in DOMAIN disk.fda : s # Phys + c => TextAt(c, v)[s] = disk.fda[s]
  BY <1>1 DEF SameSectors, TextAt, TextIn
<1>5. \A q \in FloppySlots : At(TextAt(c, v), q) \in Entries
  BY <1>1, AsDirEntries DEF At, Places
<1>6. QED BY <1>2, <1>3, <1>4, <1>5

(* fat_touch and fat_delete change a slot of no name or of theirs.         *)
LEMMA TouchDeleteLocal ==
    ASSUME InRoot, NEW n \in Typed, Touch(n) \/ Delete(n)
    PROVE  EntriesKept(n) /\ DataKept({})
<1>1. CASE disk' = disk
  BY <1>1 DEF EntriesKept, DataKept
<1>2. ASSUME NEW p \in FloppySlots, NEW e \in Entries,
             At(disk.fda, p).name \in {NoName, Dos[n]},
             disk'.fda = PutEntry(disk.fda, p, e)
      PROVE  EntriesKept(n) /\ DataKept({})
  <2>1. SameSectors(disk.fda, disk.fda)
    BY RootSlots
  <2>2. /\ \A q \in FloppySlots : q # p => At(disk'.fda, q) = At(disk.fda, q)
        /\ \A s \in Phys + 2 .. Phys + LastCluster : disk'.fda[s] = disk.fda[s]
    BY <1>2, <2>1, PutIsLocal
  <2>3. QED BY <1>2, <2>2, Zenon DEF EntriesKept, DataKept
<1>3. CASE Touch(n)
  BY <1>1, <1>2, <1>3, TouchedRoot, NewEntries, Zenon
<1>4. CASE Delete(n)
  BY <1>1, <1>2, <1>4, DeletedRoot, NewEntries, Zenon
<1>5. QED BY <1>3, <1>4

(* Writing a file that has a cluster of its own changes its first sector   *)
(* and its entry.                                                          *)
LEMMA WriteLocal ==
    ASSUME InRoot, NEW n \in Typed, NEW v, Write(n, v), NEW c,
           c = fat_directory(minfo["fda"], disk.fda, n).cluster, c >= 2
    PROVE  EntriesKept(n) /\ DataKept({get_phys_sector(c)})
<1> DEFINE d1 == TextAt(c, v)
<1>1. c \in Clusters /\ c \in Nat
  <2>1. c \in Clusters
    BY ClusterKnown
  <2>2. QED BY <2>1, FatAssumption DEF Clusters
<1>2. ASSUME NEW q \in FloppySlots PROVE At(d1, q) = At(disk.fda, q)
  <2>1. q[1] < Phys + 2 /\ q[1] \in Nat
    BY RootSlots DEF Places
  <2>2. q[1] # Phys + c
    BY <1>1, <2>1, FatAssumption
  <2>3. QED BY <2>2, TextIsLocal
<1>3. ASSUME NEW s \in (Phys + 2 .. Phys + LastCluster) \ {get_phys_sector(c)}
      PROVE  d1[s] = disk.fda[s]
  <2>1. s \in 0 .. Phys + LastCluster /\ s # Phys + c
    BY FatAssumption DEF get_phys_sector
  <2>2. s \in DOMAIN disk.fda
    BY <2>1 DEF InRoot, FatInv, FloppyKept
  <2>3. QED BY <2>1, <2>2, TextIsLocal
<1>4. /\ SameSectors(d1, d1) /\ DOMAIN d1 = DOMAIN disk.fda
      /\ \A q \in FloppySlots : At(d1, q) \in Entries
  BY TextIsLocal
<1>5. \/ disk'.fda = d1
      \/ \E p \in FloppySlots :
            /\ At(d1, p).name = Dos[n]
            /\ disk'.fda = PutEntry(d1, p, Resized(At(d1, p)))
  BY WrittenRoot
<1> HIDE DEF d1
<1>6. CASE disk'.fda = d1
  BY <1>2, <1>3, <1>6, Zenon DEF EntriesKept, DataKept
<1>7. ASSUME NEW p \in FloppySlots, At(d1, p).name = Dos[n],
             disk'.fda = PutEntry(d1, p, Resized(At(d1, p)))
      PROVE  EntriesKept(n) /\ DataKept({get_phys_sector(c)})
  <2>1. Resized(At(d1, p)) \in Entries
    BY <1>4, <1>7, NewEntries
  <2>2. /\ \A q \in FloppySlots : q # p => At(disk'.fda, q) = At(d1, q)
        /\ \A s \in Phys + 2 .. Phys + LastCluster : disk'.fda[s] = d1[s]
    BY <1>4, <1>7, <2>1, PutIsLocal
  <2>3. EntriesKept(n)
    BY <1>2, <1>7, <2>2, Zenon DEF EntriesKept
  <2>4. QED BY <1>3, <2>2, <2>3, Zenon DEF DataKept
<1>8. QED BY <1>5, <1>6, <1>7

(* In the root directory of a floppy, a command changes nothing but the    *)
(* file it names, for every floppy and every size of the root: fat_touch,  *)
(* fat_delete and fat_write find the slot they write by a name that is     *)
(* free or theirs, and root and data do not overlap.                       *)
THEOREM RootCommandsAreLocal == Spec => RootCommandIsLocal
<1>1. FatInv => [dir = <<"fda">> /\ Standard("fda") => \A n \in Typed :
          /\ Touch(n) \/ Delete(n) => EntriesKept(n) /\ DataKept({})
          /\ (\E v \in Texts : Write(n, v)) =>
                LET c == fat_directory(minfo["fda"], disk.fda, n).cluster
                IN c >= 2 => EntriesKept(n) /\ DataKept({get_phys_sector(c)})]_vars
  <2>1. SUFFICES ASSUME InRoot, NEW n \in Typed
                 PROVE  /\ Touch(n) \/ Delete(n) => EntriesKept(n) /\ DataKept({})
                        /\ (\E v \in Texts : Write(n, v)) =>
                              LET c == fat_directory(minfo["fda"], disk.fda, n).cluster
                              IN c >= 2 => EntriesKept(n) /\ DataKept({get_phys_sector(c)})
    BY Zenon DEF InRoot
  <2>2. QED BY <2>1, TouchDeleteLocal, WriteLocal, Zenon
<1>2. QED BY <1>1, FatInvariant, PTL DEF RootCommandIsLocal

-----------------------------------------------------------------------------
(* Names in the root                                                       *)

(* No slot gets a name that it did not have, but those of nobody.          *)
NamesKept(w) ==
    \A q \in FloppySlots : At(w, q).name \in {At(disk.fda, q).name, Junk, NoName}

(* Then unique names stay so.                                              *)
LEMMA KeptUnique ==
    ASSUME UniqueNames(disk.fda), NEW w, NamesKept(w)
    PROVE  UniqueNames(w)
<1>1. SUFFICES ASSUME NEW p \in FloppySlots, NEW q \in FloppySlots, p # q,
                      At(w, p).name \in DosNames, At(w, p).name = At(w, q).name
               PROVE  FALSE
  BY Zenon DEF UniqueNames
<1>2. At(w, p).name \in {At(disk.fda, p).name, Junk, NoName}
  BY DEF NamesKept
<1>3. At(w, q).name \in {At(disk.fda, q).name, Junk, NoName}
  BY DEF NamesKept
<1>4. Junk \notin DosNames /\ NoName \notin DosNames
  BY FatAssumption
<1>5. At(w, p).name = At(disk.fda, p).name
  BY <1>1, <1>2, <1>4
<1>6. At(w, q).name = At(disk.fda, q).name
  BY <1>1, <1>3, <1>4
<1>7. QED BY <1>1, <1>5, <1>6, Zenon DEF UniqueNames

(* Touch puts the name in a slot when no slot has it.                      *)
LEMMA TouchUnique ==
    ASSUME InRoot, UniqueNames(disk.fda), NEW n \in Typed, Touch(n)
    PROVE  UniqueNames(disk'.fda)
<1> DEFINE w == disk'.fda
<1>1. CASE disk' = disk
  BY <1>1
<1>2. ASSUME NEW t \in FloppySlots, w = PutEntry(disk.fda, t, NewEntry(n))
      PROVE  UniqueNames(w)
  <2>1. /\ NewEntry(n) \in Entries /\ NewEntry(n).name = Dos[n]
        /\ SameSectors(disk.fda, disk.fda)
    BY NewEntries, RootSlots
  <2>2. \A q \in FloppySlots : At(w, q) = IF q = t THEN NewEntry(n) ELSE At(disk.fda, q)
    BY <1>2, <2>1, PutIsLocal
  <2>3. \A q \in FloppySlots : At(disk.fda, q).name # Dos[n]
    <3>1. Found(minfo["fda"], disk.fda, Dos[n]) = {}
      BY TouchedRoot DEF fat_get_dir
    <3>2. QED BY <3>1 DEF Found, FloppySlots
  <2> HIDE DEF w
  <2>4. SUFFICES ASSUME NEW p \in FloppySlots, NEW q \in FloppySlots, p # q,
                        At(w, p).name \in DosNames, At(w, p).name = At(w, q).name
                 PROVE  FALSE
    BY Zenon DEF UniqueNames
  <2>5. CASE p = t
    BY <2>1, <2>2, <2>3, <2>4, <2>5, Zenon
  <2>6. CASE q = t
    BY <2>1, <2>2, <2>3, <2>4, <2>6, Zenon
  <2>7. CASE p # t /\ q # t
    BY <2>2, <2>4, <2>7, Zenon DEF UniqueNames
  <2>8. QED BY <2>5, <2>6, <2>7
<1>3. QED BY <1>1, <1>2, TouchedRoot, Zenon

(* Delete takes a name away.                                               *)
LEMMA DeleteUnique ==
    ASSUME InRoot, UniqueNames(disk.fda), NEW n \in Typed, Delete(n)
    PROVE  UniqueNames(disk'.fda)
<1>1. CASE disk' = disk
  BY <1>1
<1>2. ASSUME NEW t \in FloppySlots, disk'.fda = PutEntry(disk.fda, t, Empty)
      PROVE  UniqueNames(disk'.fda)
  <2>1. Empty \in Entries /\ Empty.name = NoName /\ SameSectors(disk.fda, disk.fda)
    BY NewEntries, RootSlots
  <2>2. \A q \in FloppySlots : At(disk'.fda, q) = IF q = t THEN Empty ELSE At(disk.fda, q)
    BY <1>2, <2>1, PutIsLocal
  <2>3. ASSUME NEW q \in FloppySlots
        PROVE  At(disk'.fda, q).name \in {At(disk.fda, q).name, Junk, NoName}
    BY <2>1, <2>2, <2>3
  <2>4. QED BY <2>3, KeptUnique DEF NamesKept
<1>3. QED BY <1>1, <1>2, DeletedRoot, Zenon

(* Write gives no slot a name, even where it writes over the root: a file  *)
(* of no cluster has its text in a sector of the root.                     *)
LEMMA WriteUnique ==
    ASSUME InRoot, UniqueNames(disk.fda), NEW n \in Typed, NEW v, Write(n, v)
    PROVE  UniqueNames(disk'.fda)
<1> DEFINE c == fat_directory(minfo["fda"], disk.fda, n).cluster
           d1 == TextAt(c, v)
<1>1. /\ SameSectors(d1, d1) /\ DOMAIN d1 = DOMAIN disk.fda
      /\ \A q \in FloppySlots : At(d1, q) \in Entries
  BY TextIsLocal
<1>2. ASSUME NEW q \in FloppySlots
      PROVE  At(d1, q).name \in {At(disk.fda, q).name, Junk, NoName}
  <2>1. /\ q[1] # Phys + c => At(d1, q) = At(disk.fda, q)
        /\ q[1] = Phys + c => At(d1, q).name \in {Junk, NoName}
    BY TextIsLocal, Zenon
  <2> HIDE DEF d1, c
  <2>2. QED BY <2>1, Zenon
<1>3. \/ disk'.fda = d1
      \/ \E t \in FloppySlots :
            /\ At(d1, t).name = Dos[n]
            /\ disk'.fda = PutEntry(d1, t, Resized(At(d1, t)))
  BY WrittenRoot, Zenon
<1> HIDE DEF d1
<1>4. CASE disk'.fda = d1
  BY <1>2, <1>4, KeptUnique DEF NamesKept
<1>5. ASSUME NEW t \in FloppySlots, At(d1, t).name = Dos[n],
             disk'.fda = PutEntry(d1, t, Resized(At(d1, t)))
      PROVE  UniqueNames(disk'.fda)
  <2>1. Resized(At(d1, t)) \in Entries /\ Resized(At(d1, t)).name = At(d1, t).name
    BY <1>1, <1>5, NewEntries
  <2>2. \A q \in FloppySlots :
           At(disk'.fda, q) = IF q = t THEN Resized(At(d1, t)) ELSE At(d1, q)
    BY <1>1, <1>5, <2>1, PutIsLocal
  <2>3. \A q \in FloppySlots : At(disk'.fda, q).name = At(d1, q).name
    BY <2>1, <2>2, Zenon
  <2>4. NamesKept(disk'.fda)
    BY <1>2, <2>3, Zenon DEF NamesKept
  <2>5. QED BY <2>4, KeptUnique
<1>6. QED BY <1>3, <1>4, <1>5

(* Names stay unique in the root of a floppy, for every number of files    *)
(* and whatever fat_touch, fat_delete and fat_write do, even a write that  *)
(* falls on the root.                                                      *)
THEOREM NamesStayUnique == Spec => RootNamesStayUnique
<1>1. FatInv /\ [Next]_vars =>
        [dir = <<"fda">> /\ Standard("fda") /\ UniqueNames(disk.fda) => UniqueNames(disk'.fda)]_vars
  <2>1. SUFFICES ASSUME InRoot, UniqueNames(disk.fda), [Next]_vars PROVE UniqueNames(disk'.fda)
    BY Zenon DEF InRoot
  <2>2. CASE disk' = disk
    BY <2>1, <2>2
  <2>3. ASSUME NEW n \in Typed, \/ Touch(n) \/ Delete(n) \/ \E v \in Texts : Write(n, v)
        PROVE  UniqueNames(disk'.fda)
    BY <2>1, <2>3, TouchUnique, DeleteUnique, WriteUnique, Zenon
  <2>4. CASE \/ floppy_init \/ ata_init \/ ata_initHangs \/ CdBack \/ fat_read \/ Close
             \/ \E drive \in Mounted : CdDrive(drive)
             \/ \E n \in Typed : Cd(n) \/ TouchExists(n) \/ TouchNoDev(n) \/ OpenRead(n)
                                 \/ SearchHangs(n)
             \/ UNCHANGED vars
    <3>1. disk' = disk
      BY <2>4 DEF floppy_init, ata_init, ata_initHangs, CdBack, fat_read, Close, CdDrive, Cd,
         TouchExists, TouchNoDev, OpenRead, SearchHangs, vars
    <3>2. QED BY <2>2, <3>1
  <2>5. QED BY <2>1, <2>3, <2>4 DEF Next
<1>2. QED BY <1>1, FatInvariant, PTL DEF RootNamesStayUnique, Spec

-----------------------------------------------------------------------------
(* The clusters of a file                                                  *)

(* A sequence of data clusters that follows the FAT from c, and one that   *)
(* the FAT does not lead on from.                                          *)
Follows(s, c) ==
    /\ s \in Seq(DataClusters) /\ Len(s) \in Nat \ {0} /\ s[1] = c
    /\ \A j \in 1 .. Len(s) - 1 : s[j + 1] = Links[s[j]]
Ended(s) == Links[Last(s)] \notin DataClusters

(* One more cluster, unless the last one is the end of the file.           *)
LEMMA LengthenedFollows ==
    ASSUME NEW c \in DataClusters, NEW s, Follows(s, c)
    PROVE  /\ Follows(Lengthened(s), c)
           /\ Ended(s) => Lengthened(s) = s
           /\ ~Ended(s) => Len(Lengthened(s)) = Len(s) + 1
<1>1. CASE Ended(s)
  BY <1>1 DEF Ended, Lengthened
<1>2. CASE ~Ended(s)
  <2>1. /\ s \in Seq(DataClusters) /\ Len(s) \in Nat \ {0} /\ s[1] = c
        /\ \A j \in 1 .. Len(s) - 1 : s[j + 1] = Links[s[j]]
    BY DEF Follows
  <2>2. PICK x \in DataClusters : x = Links[s[Len(s)]]
    BY <1>2 DEF Ended, Last
  <2>3. Lengthened(s) = Append(s, x)
    BY <1>2, <2>2 DEF Lengthened, Ended, Last
  <2> DEFINE t == Append(s, x)
  <2>4. /\ t \in Seq(DataClusters) /\ Len(t) = Len(s) + 1 /\ t[Len(s) + 1] = x
        /\ \A j \in 1 .. Len(s) : t[j] = s[j]
    BY <2>1, <2>2
  <2> HIDE DEF t
  <2>5. ASSUME NEW j \in 1 .. Len(t) - 1 PROVE t[j + 1] = Links[t[j]]
    <3>1. CASE j = Len(s)
      <4>1. t[j] = s[Len(s)] /\ t[j + 1] = x
        BY <2>1, <2>4, <3>1
      <4>2. QED BY <2>2, <4>1
    <3>2. CASE j # Len(s)
      <4>1. j \in 1 .. Len(s) - 1 /\ j \in 1 .. Len(s) /\ j + 1 \in 1 .. Len(s)
        BY <2>1, <2>4, <3>2
      <4>2. QED BY <2>1, <2>4, <4>1
    <3>3. QED BY <3>1, <3>2
  <2>6. Follows(t, c)
    BY <2>1, <2>4, <2>5 DEF Follows
  <2>7. QED BY <1>2, <2>3, <2>4, <2>6 DEF t
<1>3. QED BY <1>1, <1>2

(* The function that Chain is defined with exists.                         *)
Upto(g, c, m) == g = [k \in 1 .. m |-> IF k = 1 THEN <<c>> ELSE Lengthened(g[k - 1])]

(* The function that Upto defines by recursion exists.                     *)
LEMMA UptoExists ==
    ASSUME NEW c, NEW m \in Nat
    PROVE  \E g : Upto(g, c, m)
<1> DEFINE T == {n \in Nat : ~ \E g : Upto(g, c, n)}
<1>1. SUFFICES ASSUME T # {} PROVE FALSE
  OBVIOUS
<1>2. PICK n \in T : \A y \in T : n <= y
  BY <1>1, LeastNat
<1>3. n # 0
  <2>1. Upto([k \in 1 .. 0 |-> <<c>>], c, 0)
    BY DEF Upto
  <2> QED BY <2>1
<1>4. n - 1 \in Nat /\ n - 1 \notin T
  BY <1>2, <1>3
<1>5. PICK h : Upto(h, c, n - 1)
  BY <1>4
<1> DEFINE g == [k \in 1 .. n |-> IF k = n /\ n # 1 THEN Lengthened(h[n - 1])
                                  ELSE IF k = 1 THEN <<c>> ELSE h[k]]
<1>6. ASSUME NEW k \in 1 .. n
      PROVE  g[k] = IF k = 1 THEN <<c>> ELSE Lengthened(g[k - 1])
  <2>1. CASE k = 1
    BY <2>1
  <2>2. CASE k # 1
    <3>1. /\ k - 1 \in 1 .. n - 1 /\ k - 1 \in 1 .. n /\ k - 1 # n
          /\ k # n => k \in 1 .. n - 1
      BY <1>2, <1>3, <2>2
    <3>2. \A j \in 1 .. n - 1 : h[j] = IF j = 1 THEN <<c>> ELSE Lengthened(h[j - 1])
      BY <1>5, Zenon DEF Upto
    <3>3. g[k - 1] = h[k - 1]
      BY <3>1, <3>2
    <3>4. CASE k = n
      BY <2>2, <3>3, <3>4
    <3>5. CASE k # n
      <4>1. g[k] = h[k]
        BY <2>2, <3>5
      <4>2. h[k] = Lengthened(h[k - 1])
        BY <2>2, <3>1, <3>2, <3>5
      <4>3. QED BY <2>2, <3>3, <4>1, <4>2, Zenon
    <3>6. QED BY <3>4, <3>5
  <2>3. QED BY <2>1, <2>2
<1>7. \E f1 : Upto(f1, c, n)
  <2>1. DOMAIN g = 1 .. n /\ g = [k \in 1 .. n |-> g[k]]
    OBVIOUS
  <2> HIDE DEF g
  <2>2. g = [k \in 1 .. n |-> IF k = 1 THEN <<c>> ELSE Lengthened(g[k - 1])]
    BY <1>6, <2>1
  <2>3. QED BY <2>2 DEF Upto
<1>8. QED BY <1>2, <1>7

(* Along the FAT the rank goes down, so that the walk comes to an end      *)
(* before it could visit a cluster twice.                                  *)
LEMMA FollowsEnds ==
    ASSUME NEW c \in DataClusters, NEW s, Follows(s, c)
    PROVE  Len(s) <= LastCluster + 1 /\ (Len(s) = LastCluster + 1 => Ended(s))
<1>1. PICK rank \in [DataClusters -> Clusters] : \A x \in DataClusters :
        Links[x] \in DataClusters => rank[Links[x]] < rank[x]
  BY FilesAssumption
<1>2. \A x \in DataClusters : rank[x] \in Nat /\ rank[x] <= LastCluster
  BY <1>1, FatAssumption DEF Clusters
<1>3. /\ s \in Seq(DataClusters) /\ Len(s) \in Nat \ {0} /\ s[1] = c
      /\ \A j \in 1 .. Len(s) - 1 : s[j + 1] = Links[s[j]]
  BY DEF Follows
<1>4. \A j \in 1 .. Len(s) : s[j] \in DataClusters
  BY <1>3, ElementOfSeq
<1> DEFINE bad == {j \in 1 .. Len(s) : rank[s[j]] + j > rank[c] + 1}
<1>5. bad = {}
  <2>1. SUFFICES ASSUME bad # {} PROVE FALSE
    OBVIOUS
  <2>2. bad \subseteq Nat
    BY <1>3
  <2>3. PICK j \in bad : \A k \in bad : j <= k
    BY <2>1, <2>2, LeastNat
  <2>4. j \in 1 .. Len(s) /\ rank[s[j]] + j > rank[c] + 1
    BY <2>3
  <2>5. j # 1
    BY <1>2, <1>3, <2>4
  <2>6. j - 1 \in 1 .. Len(s) - 1 /\ j - 1 \in 1 .. Len(s) /\ j - 1 < j /\ (j - 1) + 1 = j
    BY <1>3, <2>4, <2>5
  <2>7. s[j] = Links[s[j - 1]] /\ s[j] \in DataClusters /\ s[j - 1] \in DataClusters
    BY <1>3, <1>4, <2>4, <2>6
  <2>8. rank[s[j]] < rank[s[j - 1]] /\ rank[s[j]] \in Nat /\ rank[s[j - 1]] \in Nat
    BY <1>1, <1>2, <2>7
  <2>9. ~(rank[s[j - 1]] + (j - 1) > rank[c] + 1)
    BY <2>3, <2>6
  <2>10. QED BY <1>2, <2>4, <2>6, <2>8, <2>9
<1>6. PICK z \in DataClusters : z = s[Len(s)]
  BY <1>3, <1>4
<1>7. rank[z] + Len(s) <= rank[c] + 1
  <2>1. Len(s) \in 1 .. Len(s) /\ Len(s) \notin bad
    BY <1>3, <1>5
  <2>2. QED BY <1>2, <1>3, <1>6, <2>1
<1>8. Len(s) <= LastCluster + 1
  BY <1>2, <1>3, <1>6, <1>7, FatAssumption
<1>9. ASSUME Len(s) = LastCluster + 1 PROVE Links[z] \notin DataClusters
  BY <1>1, <1>2, <1>6, <1>7, <1>9, FatAssumption
<1>10. QED BY <1>6, <1>8, <1>9 DEF Ended, Last

(* What Chain is: the clusters that follow each other up to the last.      *)
THEOREM ChainIs ==
    ASSUME NEW c \in DataClusters
    PROVE  Follows(Chain(c), c) /\ Ended(Chain(c)) /\ Len(Chain(c)) <= LastCluster + 1
<1> DEFINE N == LastCluster + 1
           upto == CHOOSE upto : upto = [k \in 1 .. N |-> IF k = 1 THEN <<c>> ELSE Lengthened(upto[k - 1])]
<1>1. N \in Nat \ {0} /\ N \in 1 .. N
  BY FatAssumption
<1>2. \E g : g = [k \in 1 .. N |-> IF k = 1 THEN <<c>> ELSE Lengthened(g[k - 1])]
  <2>1. PICK g : Upto(g, c, N)
    BY <1>1, UptoExists
  <2>2. QED BY <2>1, Zenon DEF Upto
<1>3. upto = [k \in 1 .. N |-> IF k = 1 THEN <<c>> ELSE Lengthened(upto[k - 1])]
  BY <1>2, Zenon
<1>4. Chain(c) = upto[N]
  BY Zenon DEF Chain
<1> HIDE DEF upto, N
<1>5. \A k \in 1 .. N : upto[k] = IF k = 1 THEN <<c>> ELSE Lengthened(upto[k - 1])
  BY <1>3, Zenon
<1> DEFINE good(k) == Follows(upto[k], c) /\ (Len(upto[k]) = k \/ Ended(upto[k]))
           bad == {k \in 1 .. N : ~good(k)}
<1>6. bad = {}
  <2>1. SUFFICES ASSUME bad # {} PROVE FALSE
    OBVIOUS
  <2>2. bad \subseteq Nat
    BY <1>1
  <2> HIDE DEF good
  <2>3. PICK k \in bad : \A j \in bad : k <= j
    BY <2>1, <2>2, LeastNat
  <2>4. k \in 1 .. N /\ ~good(k)
    BY <2>3
  <2>5. k # 1
    <3>1. SUFFICES ASSUME k = 1 PROVE FALSE
      OBVIOUS
    <3>2. upto[k] = <<c>>
      BY <1>5, <2>4, <3>1
    <3>3. <<c>> \in Seq(DataClusters) /\ Len(<<c>>) = 1 /\ <<c>>[1] = c
      OBVIOUS
    <3>4. Follows(<<c>>, c)
      BY <3>3 DEF Follows
    <3>5. QED BY <2>4, <3>1, <3>2, <3>3, <3>4 DEF good
  <2>6. k - 1 \in 1 .. N /\ k - 1 < k /\ k - 1 \in Nat /\ (k - 1) + 1 = k
    BY <1>1, <2>4, <2>5
  <2>7. good(k - 1)
    BY <2>3, <2>6
  <2>8. PICK s : s = upto[k - 1]
    OBVIOUS
  <2>9. upto[k] = Lengthened(s)
    BY <1>5, <2>4, <2>5, <2>8
  <2>10. Follows(s, c) /\ (Len(s) = k - 1 \/ Ended(s))
    BY <2>7, <2>8 DEF good
  <2>11. Follows(upto[k], c) /\ (Len(upto[k]) = k \/ Ended(upto[k]))
    BY <2>6, <2>9, <2>10, LengthenedFollows
  <2>12. QED BY <2>4, <2>11 DEF good
<1>7. good(N)
  BY <1>1, <1>6
<1>8. QED BY <1>1, <1>4, <1>7, FollowsEnds DEF N

-----------------------------------------------------------------------------
(* The entries of the FAT                                                  *)

(* A data cluster is a cluster of the FAT.                                 *)
LEMMA DataCluster ==
    ASSUME NEW c \in DataClusters
    PROVE  c \in Nat /\ c >= 2 /\ c \in Clusters /\ c \in DOMAIN Links
  BY FatAssumption, FilesAssumption DEF DataClusters, Clusters

(* Its entry leads to another one, or says free or end of file.            *)
LEMMA LinkValues ==
    ASSUME NEW c \in DataClusters
    PROVE  /\ Links[c] \in 0 .. 4095
           /\ Links[c] \in DataClusters => Links[c] < 4080 /\ Links[c] # 0
           /\ Links[c] \notin DataClusters => Links[c] = 0 \/ Links[c] >= 4088
<1>2. \A x \in DataClusters : x \in Nat /\ x >= 2 /\ x < 4080
  BY FatAssumption, FilesAssumption DEF DataClusters
<1>3. PICK e : e = Links[c]
  OBVIOUS
<1>4. e \in {0} \cup DataClusters \cup 4088 .. 4095
  BY <1>3, FilesAssumption
<1>5. e \in 0 .. 4095
  BY <1>2, <1>4
<1>6. e \in DataClusters => e < 4080 /\ e # 0
  BY <1>2
<1>7. e \notin DataClusters => e = 0 \/ e >= 4088
  BY <1>4
<1>8. QED BY <1>3, <1>5, <1>6, <1>7

(* Nibble m of the packed entries, 0 after the last one.                   *)
Half(m) == IF m \div 3 \in DOMAIN Links THEN Nibble(m) ELSE 0

(* The three half bytes of an entry.                                       *)
LEMMA HalfOf ==
    ASSUME NEW c \in DataClusters, NEW m \in Nat, m \div 3 = c
    PROVE  /\ m % 3 = 0 => Half(m) = Links[c] % 16
           /\ m % 3 = 1 => Half(m) = (Links[c] \div 16) % 16
           /\ m % 3 = 2 => Half(m) = Links[c] \div 256
           /\ Half(m) \in 0 .. 15
<1>1. Links[c] \in 0 .. 4095
  BY LinkValues
<1>2. Half(m) = Nibble(m)
  <2>1. c \in DOMAIN Links
    BY DataCluster
  <2>2. QED BY <2>1 DEF Half
<1>3. m % 3 = 0 \/ m % 3 = 1 \/ m % 3 = 2
  BY DivMod
<1>4. PICK e \in 0 .. 4095 : e = Links[c]
  BY <1>1
<1>5. /\ m % 3 = 0 => Nibble(m) = e % 16
      /\ m % 3 = 1 => Nibble(m) = (e \div 16) % 16
      /\ m % 3 = 2 => Nibble(m) = e \div 256
  BY <1>4 DEF Nibble
<1>6. e % 16 \in 0 .. 15 /\ (e \div 16) % 16 \in 0 .. 15 /\ e \div 256 \in 0 .. 15
  BY ONLY e \in 0 .. 4095
<1>7. QED BY <1>2, <1>3, <1>4, <1>5, <1>6

(* An entry comes out of the two bytes it is packed into.                  *)
LEMMA Packed ==
    ASSUME NEW c \in DataClusters
    PROVE  Unpack12(c, PackedByte(c + c \div 2) + 256 * PackedByte((c + c \div 2) + 1)) = Links[c]
<1>1. c \in Nat /\ c >= 2
  BY DataCluster
<1>2. PICK e \in 0 .. 4095 : e = Links[c]
  BY LinkValues
<1>3. \A i : PackedByte(i) = Half(2 * i) + 16 * Half(2 * i + 1)
  BY DEF PackedByte, Half
<1>4. e = (e % 16) + 16 * ((e \div 16) % 16) + 256 * (e \div 256)
  OBVIOUS
<1>5. CASE c % 2 = 0
  <2>1. PICK h \in Nat : c = 2 * h /\ c + c \div 2 = 3 * h
    <3>1. c \div 2 \in Nat /\ c = 2 * (c \div 2)
      BY <1>1, <1>5
    <3>2. c + c \div 2 = 3 * (c \div 2)
      BY <1>1, <3>1
    <3>3. QED BY <3>1, <3>2
  <2>2. /\ (6 * h) \div 3 = c /\ (6 * h) % 3 = 0
        /\ (6 * h + 1) \div 3 = c /\ (6 * h + 1) % 3 = 1
        /\ (6 * h + 2) \div 3 = c /\ (6 * h + 2) % 3 = 2
        /\ (6 * h + 3) \div 3 = c + 1
    BY <2>1
  <2>3. /\ Half(6 * h) = e % 16 /\ Half(6 * h + 1) = (e \div 16) % 16
        /\ Half(6 * h + 2) = e \div 256
    <3>1. PICK m0 \in Nat, m1 \in Nat, m2 \in Nat : m0 = 6 * h /\ m1 = 6 * h + 1 /\ m2 = 6 * h + 2
      BY <2>1
    <3>2. /\ m0 \div 3 = c /\ m0 % 3 = 0 /\ m1 \div 3 = c /\ m1 % 3 = 1
          /\ m2 \div 3 = c /\ m2 % 3 = 2
      BY <2>2, <3>1
    <3>3. Half(m0) = Links[c] % 16
      BY <3>2, HalfOf
    <3>4. Half(m1) = (Links[c] \div 16) % 16
      BY <3>2, HalfOf
    <3>5. Half(m2) = Links[c] \div 256
      BY <3>2, HalfOf
    <3>6. QED BY <1>2, <3>1, <3>3, <3>4, <3>5
  <2>4. Half(6 * h + 3) \in 0 .. 15
    <3>1. CASE c + 1 \in DataClusters
      BY <2>1, <2>2, <3>1, HalfOf
    <3>2. CASE c + 1 \notin DataClusters
      <4>1. c + 1 \notin DOMAIN Links
        BY <1>1, <3>2, FilesAssumption, FatAssumption DEF DataClusters, Clusters
      <4>2. Half(6 * h + 3) = 0
        BY <2>2, <4>1 DEF Half
      <4>3. QED BY <4>2
    <3>3. QED BY <3>1, <3>2
  <2>5. PICK x \in 0 .. 15 : x = Half(6 * h + 3)
    BY <2>4
  <2>6. /\ PackedByte(3 * h) = (e % 16) + 16 * ((e \div 16) % 16)
        /\ PackedByte(3 * h + 1) = e \div 256 + 16 * x
    <3>1. 2 * (3 * h) = 6 * h /\ 2 * (3 * h + 1) = 6 * h + 2 /\ (6 * h + 2) + 1 = 6 * h + 3
      BY <2>1
    <3>2. QED BY <1>3, <2>3, <2>5, <3>1
  <2>7. PackedByte(3 * h) + 256 * PackedByte(3 * h + 1) = e + 4096 * x
    BY <1>4, <2>6
  <2>8. (e + 4096 * x) % 4096 = e
    OBVIOUS
  <2>9. Unpack12(c, e + 4096 * x) = e
    BY <1>5, <2>8 DEF Unpack12
  <2>10. c + c \div 2 = 3 * h /\ (c + c \div 2) + 1 = 3 * h + 1
    BY <2>1
  <2>11. QED BY <1>2, <2>7, <2>9, <2>10
<1>6. CASE c % 2 = 1
  <2>1. PICK h \in Nat : c = 2 * h + 1 /\ c + c \div 2 = 3 * h + 1
    <3>1. c \div 2 \in Nat /\ c = 2 * (c \div 2) + 1
      BY <1>1, <1>6
    <3>2. c + c \div 2 = 3 * (c \div 2) + 1
      BY <1>1, <3>1
    <3>3. QED BY <3>1, <3>2
  <2>2. /\ (6 * h + 2) \div 3 = c - 1
        /\ (6 * h + 3) \div 3 = c /\ (6 * h + 3) % 3 = 0
        /\ (6 * h + 4) \div 3 = c /\ (6 * h + 4) % 3 = 1
        /\ (6 * h + 5) \div 3 = c /\ (6 * h + 5) % 3 = 2
    BY <2>1
  <2>3. /\ Half(6 * h + 3) = e % 16 /\ Half(6 * h + 4) = (e \div 16) % 16
        /\ Half(6 * h + 5) = e \div 256
    <3>1. PICK m0 \in Nat, m1 \in Nat, m2 \in Nat : m0 = 6 * h + 3 /\ m1 = 6 * h + 4 /\ m2 = 6 * h + 5
      BY <2>1
    <3>2. /\ m0 \div 3 = c /\ m0 % 3 = 0 /\ m1 \div 3 = c /\ m1 % 3 = 1
          /\ m2 \div 3 = c /\ m2 % 3 = 2
      BY <2>2, <3>1
    <3>3. Half(m0) = Links[c] % 16
      BY <3>2, HalfOf
    <3>4. Half(m1) = (Links[c] \div 16) % 16
      BY <3>2, HalfOf
    <3>5. Half(m2) = Links[c] \div 256
      BY <3>2, HalfOf
    <3>6. QED BY <1>2, <3>1, <3>3, <3>4, <3>5
  <2>4. c - 1 \in DataClusters
    BY <1>1, <2>1, FatAssumption DEF DataClusters
  <2>5. PICK x \in 0 .. 15 : x = Half(6 * h + 2)
    BY <2>1, <2>2, <2>4, HalfOf
  <2>6. /\ PackedByte(3 * h + 1) = x + 16 * (e % 16)
        /\ PackedByte(3 * h + 2) = ((e \div 16) % 16) + 16 * (e \div 256)
    <3>1. 2 * (3 * h + 1) = 6 * h + 2 /\ (6 * h + 2) + 1 = 6 * h + 3
          /\ 2 * (3 * h + 2) = 6 * h + 4 /\ (6 * h + 4) + 1 = 6 * h + 5
      BY <2>1
    <3>2. QED BY <1>3, <2>3, <2>5, <3>1
  <2>7. PackedByte(3 * h + 1) + 256 * PackedByte(3 * h + 2) = x + 16 * e
    BY <1>4, <2>6
  <2>8. (x + 16 * e) \div 16 = e
    OBVIOUS
  <2>9. Unpack12(c, x + 16 * e) = e
    BY <1>6, <2>8 DEF Unpack12
  <2>10. (c + c \div 2) + 1 = 3 * h + 2
    BY <2>1
  <2>11. c + c \div 2 = 3 * h + 1
    BY <2>1
  <2>12. QED BY <1>2, <2>7, <2>9, <2>10, <2>11
<1>7. c % 2 = 0 \/ c % 2 = 1
  BY <1>1
<1>8. QED BY <1>5, <1>6, <1>7

(* The entries of a FAT16, whose marks are longer.                         *)
Wider(e) == IF e >= 4080 THEN 61440 + e ELSE e

(* An entry of a FAT16 is its two bytes.                                   *)
LEMMA Widened ==
    ASSUME NEW c \in DataClusters
    PROVE  WideByte(2 * c) + 256 * WideByte(2 * c + 1) = Wider(Links[c])
<1>1. c \in Nat /\ c \in DOMAIN Links
  BY DataCluster
<1>2. PICK e \in Nat : e = Wider(Links[c])
  <2>1. PICK l \in 0 .. 4095 : l = Links[c]
    BY LinkValues
  <2>2. Wider(l) \in Nat
    BY DEF Wider
  <2>3. QED BY <2>1, <2>2
<1>3. (2 * c) \div 2 = c /\ (2 * c + 1) \div 2 = c /\ (2 * c) % 2 = 0 /\ (2 * c + 1) % 2 = 1
  BY <1>1
<1>4. WideByte(2 * c) = e % 256 /\ WideByte(2 * c + 1) = e \div 256
  BY <1>1, <1>2, <1>3 DEF WideByte, Wider
<1>5. QED BY <1>2, <1>4

(* The two sectors that fat_read copies hold an entry's bytes, wherever in *)
(* them the entry begins.                                                  *)
LEMMA CopiedBytes ==
    ASSUME NEW i \in Nat, NEW k \in 0 .. 1, NEW d
    PROVE  /\ FatSector(1 + i \div SecLen, (i % SecLen) + k) = FatSector(1, i + k)
           /\ FatByte(d, 1 + i \div SecLen, (i % SecLen) + k) = FatByte(d, 1, i + k)
<1> DEFINE q == i \div SecLen
           r == i % SecLen
           x == (r + k) \div SecLen
           y == (i + k) \div SecLen
<1>1. SecLen \in Nat \ {0} /\ k \in Int
  BY FatAssumption
<1>2. q \in Int /\ r \in 0 .. SecLen - 1 /\ i = SecLen * q + r
  BY <1>1, DivMod
<1>3. x \in Int /\ (r + k) % SecLen \in 0 .. SecLen - 1 /\ r + k = SecLen * x + ((r + k) % SecLen)
  BY <1>1, <1>2, DivMod
<1>4. y \in Int /\ (i + k) % SecLen \in 0 .. SecLen - 1 /\ i + k = SecLen * y + ((i + k) % SecLen)
  BY <1>1, DivMod
<1>5. (r + k) % SecLen = (i + k) % SecLen
  <2>1. i \in Int
    OBVIOUS
  <2>2. QED BY <1>1, <2>1, ModPlus, Zenon
<1> HIDE DEF q, r, x, y
<1>6. PICK t \in 0 .. SecLen - 1 : t = (r + k) % SecLen /\ t = (i + k) % SecLen
  BY <1>3, <1>5
<1>7. SecLen * (q + x) + t = SecLen * y + t
  <2>1. SecLen * (q + x) = SecLen * q + SecLen * x /\ SecLen * q \in Int /\ SecLen * x \in Int
    BY <1>1, <1>2, <1>3, SMT
  <2>2. SecLen * y \in Int
    BY <1>1, <1>4, SMT
  <2>3. QED BY <1>1, <1>2, <1>3, <1>4, <1>6, <2>1, <2>2
<1>8. q + x = y
  BY <1>1, <1>2, <1>3, <1>4, <1>7, QuotientUnique
<1>9. (1 + q) + x = 1 + y
  BY <1>2, <1>3, <1>4, <1>8
<1>10. FatSector(1 + q, r + k) = FatSector(1, i + k)
  BY <1>9 DEF FatSector, x, y
<1>11. FatByte(d, 1 + q, r + k) = FatByte(d, 1, i + k)
  BY <1>5, <1>10 DEF FatByte
<1>12. QED BY <1>10, <1>11 DEF q, r

(* The kind of FAT that a drive is formatted with, and its bytes.          *)
Kind(d) == IF d[0].boot.n_sectors - (Phys + 2) < Limit12 THEN "FAT12" ELSE "FAT16"
KindByte(kind, i) == IF kind = "FAT12" THEN PackedByte(i) ELSE WideByte(i)

(* What a formatted disk has, and where.                                   *)
LEMMA FormattedIs ==
    ASSUME NEW d, Formatted(d)
    PROVE  /\ d[0].boot \in BootRecord
           /\ d[0].boot.n_sectors - (Phys + 2) \in 0 .. Limit16 - 1
           /\ \A c \in DataClusters :
                 /\ get_phys_sector(c) \in DOMAIN d
                 /\ \A i \in EntryAt(Kind(d), c) .. EntryAt(Kind(d), c) + 1 :
                       /\ FatSector(1, i) < Phys + 2 - RootSecs
                       /\ IsFat(d, FatSector(1, i)) /\ FatByte(d, 1, i) = KindByte(Kind(d), i)
  BY Zenon DEF Formatted, Kind, KindByte

(* A remainder that was one already.                                       *)
LEMMA ModSmall ==
    ASSUME NEW b \in Nat \ {0}, NEW x \in 0 .. b - 1
    PROVE  x % b = x
<1>1. x \div b \in Int /\ x % b \in 0 .. b - 1 /\ x = b * (x \div b) + (x % b)
  BY DivMod
<1>2. PICK q \in Int, r \in 0 .. b - 1 : q = x \div b /\ r = x % b
  BY <1>1
<1>3. x = b * q + r /\ x = b * 0 + x
  BY <1>1, <1>2
<1>4. q = 0
  BY <1>2, <1>3, QuotientUnique
<1>5. b * q = 0
  BY <1>4
<1>6. QED BY <1>2, <1>3, <1>5

(* fat_mount guesses the kind of a formatted drive, and finds its FAT and  *)
(* its root.                                                               *)
THEOREM Guessed ==
    ASSUME NEW d, FloppyLayout(d[0], fat_mount(d[0])), Formatted(d)
    PROVE  /\ fat_mount(d[0]).type = Kind(d) /\ fat_mount(d[0]).fat_offset = 1
           /\ fat_mount(d[0]).root_offset \in Nat
<1> DEFINE b == d[0].boot
           fat_size == IF b.fat_sectors = 0 THEN b.ext_fat_sectors ELSE b.fat_sectors
           fats == b.n_fats * fat_size
           root_size == (b.n_dir_entries * EntryLen + b.sector_bytes - 1) \div b.sector_bytes
           first == b.reserved_sectors + fats + root_size
           info == [type |-> FatType(((b.n_sectors - first) % WordMod) \div b.cluster_sectors),
                    fat_offset |-> b.reserved_sectors,
                    root_offset |-> fats + 1,
                    first_data_sector |-> first]
           x == b.n_sectors - (Phys + 2)
<1>1. /\ IsBoot(d[0]) /\ b.cluster_sectors = 1 /\ b.reserved_sectors = 1
      /\ fat_mount(d[0]).first_data_sector = Phys + 2
  BY DEF FloppyLayout
<1>2. b \in BootRecord /\ x \in 0 .. Limit16 - 1
  BY FormattedIs
<1>3. fat_mount(d[0]) = info
  BY <1>1 DEF fat_mount
<1>4. fat_mount(d[0]).root_offset \in Nat
  BY <1>2, RootOffset
<1> HIDE DEF fats, root_size, first
<1>5. first = Phys + 2 /\ fat_mount(d[0]).fat_offset = 1
  BY <1>1, <1>3
<1>6. fat_mount(d[0]).type = FatType(((b.n_sectors - first) % WordMod) \div b.cluster_sectors)
  BY <1>3
<1> HIDE DEF b
<1>7. (b.n_sectors - first) % WordMod = x
  <2>1. WordMod \in Nat \ {0} /\ x \in 0 .. WordMod - 1
    BY <1>2, FilesAssumption
  <2>2. b.n_sectors - first = x
    BY <1>5
  <2> HIDE DEF x
  <2>3. x % WordMod = x
    BY <2>1, ModSmall
  <2>4. QED BY <2>2, <2>3
<1> HIDE DEF x
<1>8. x \div b.cluster_sectors = x
  BY <1>1, <1>2 DEF b
<1>9. FatType(x) = IF x < Limit12 THEN "FAT12" ELSE "FAT16"
  BY <1>2, FilesAssumption DEF FatType
<1>10. fat_mount(d[0]).type = IF x < Limit12 THEN "FAT12" ELSE "FAT16"
  BY <1>6, <1>7, <1>8, <1>9
<1>11. QED BY <1>4, <1>5, <1>10 DEF Kind, x, b

(* Where an entry's bytes are those of the FAT, there is one next cluster. *)
LEMMA NextsIs ==
    ASSUME NEW info, NEW d, NEW c, NEW fs, NEW eo,
           fs = info.fat_offset + EntryAt(info.type, c) \div SecLen,
           eo = EntryAt(info.type, c) % SecLen,
           ~ \E i \in 0 .. EntryBytes(info.type) - 1 : ~IsFat(d, FatSector(fs, eo + i))
    PROVE  Nexts(info, d, c) =
              IF info.type = "FAT12" THEN {Unpack12(c, FatWord(d, fs, eo))}
              ELSE IF info.type = "FAT16" THEN {FatWord(d, fs, eo)}
              ELSE {Unpack32(FatWord(d, fs, eo), FatWord(d, fs, eo + 2))}
  BY Zenon DEF Nexts

(* What the FAT of such a drive says of a cluster is its entry.            *)
THEOREM NextIs ==
    ASSUME NEW d, NEW info, info.type = Kind(d), info.fat_offset = 1, Formatted(d),
           NEW c \in DataClusters
    PROVE  \E y : /\ Nexts(info, d, c) = {y}
                  /\ IF Links[c] \in DataClusters THEN y = Links[c] /\ ~IsEof(info.type, y)
                     ELSE IsEof(info.type, y)
<1> DEFINE kind == Kind(d)
           at == EntryAt(kind, c)
           fs == 1 + at \div SecLen
           eo == at % SecLen
           word == FatWord(d, fs, eo)
<1>1. kind \in {"FAT12", "FAT16"} /\ EntryBytes(kind) = 2
  BY DEF Kind, EntryBytes
<1>2. c \in Nat
  BY DataCluster
<1>3. /\ kind = "FAT12" => at = c + c \div 2
      /\ kind = "FAT16" => at = 2 * c
  BY <1>1 DEF EntryAt
<1> HIDE DEF kind
<1>4. at \in Nat
  BY <1>1, <1>2, <1>3
<1>5. \A i \in at .. at + 1 : IsFat(d, FatSector(1, i)) /\ FatByte(d, 1, i) = KindByte(kind, i)
  BY FormattedIs DEF kind
<1> HIDE DEF at
<1>6. ASSUME NEW k \in 0 .. 1
      PROVE  IsFat(d, FatSector(fs, eo + k)) /\ FatByte(d, fs, eo + k) = KindByte(kind, at + k)
  <2>1. at + k \in at .. at + 1
    BY <1>4
  <2>2. FatSector(fs, eo + k) = FatSector(1, at + k) /\ FatByte(d, fs, eo + k) = FatByte(d, 1, at + k)
    BY <1>4, CopiedBytes
  <2>3. QED BY <1>5, <2>1, <2>2, Zenon
<1>7. eo \in Int /\ eo + 0 = eo /\ at + 0 = at
  <2>1. eo \in Int
    BY <1>4, DivMod, FatAssumption
  <2>2. QED BY <1>4, <2>1
<1>8. FatByte(d, fs, eo) = KindByte(kind, at) /\ FatByte(d, fs, eo + 1) = KindByte(kind, at + 1)
  <2>1. 0 \in 0 .. 1 /\ 1 \in 0 .. 1
    OBVIOUS
  <2> HIDE DEF eo
  <2>2. FatByte(d, fs, eo + 0) = KindByte(kind, at + 0)
    BY <1>6, <2>1, Zenon
  <2>3. FatByte(d, fs, eo + 1) = KindByte(kind, at + 1)
    BY <1>6, <2>1, Zenon
  <2>4. QED BY <1>7, <2>2, <2>3
<1>9. word = KindByte(kind, at) + 256 * KindByte(kind, at + 1)
  BY <1>8, Zenon DEF FatWord
<1>10. \A i \in 0 .. EntryBytes(kind) - 1 : IsFat(d, FatSector(fs, eo + i))
  BY <1>1, <1>6
<1> HIDE DEF word, fs, eo
<1>11. Nexts(info, d, c) =
          IF kind = "FAT12" THEN {Unpack12(c, word)}
          ELSE IF kind = "FAT16" THEN {word} ELSE {Unpack32(word, FatWord(d, fs, eo + 2))}
  <2>1. info.type = kind /\ info.fat_offset = 1
    BY DEF kind
  <2>2. ~ \E i \in 0 .. EntryBytes(kind) - 1 : ~IsFat(d, FatSector(fs, eo + i))
    BY <1>10
  <2>3. fs = info.fat_offset + EntryAt(info.type, c) \div SecLen
    BY <2>1 DEF fs, at
  <2>4. eo = EntryAt(info.type, c) % SecLen
    BY <2>1 DEF eo, at
  <2>5. ~ \E i \in 0 .. EntryBytes(info.type) - 1 : ~IsFat(d, FatSector(fs, eo + i))
    BY <2>1, <2>2
  <2> HIDE DEF kind
  <2>6. Nexts(info, d, c) =
            IF info.type = "FAT12" THEN {Unpack12(c, FatWord(d, fs, eo))}
            ELSE IF info.type = "FAT16" THEN {FatWord(d, fs, eo)}
            ELSE {Unpack32(FatWord(d, fs, eo), FatWord(d, fs, eo + 2))}
    BY <2>3, <2>4, <2>5, NextsIs
  <2>7. QED BY <2>1, <2>6, Zenon DEF word
<1>12. PICK e \in 0 .. 4095 : e = Links[c]
  BY LinkValues
<1>13. IF e \in DataClusters THEN e < 4080 /\ e # 0 ELSE e = 0 \/ e >= 4088
  BY <1>12, LinkValues
<1>14. CASE kind = "FAT12"
  <2>1. Nexts(info, d, c) = {Unpack12(c, word)}
    BY <1>11, <1>14
  <2>2. word = PackedByte(at) + 256 * PackedByte(at + 1) /\ at = c + c \div 2
    BY <1>3, <1>9, <1>14 DEF KindByte
  <2>3. Unpack12(c, word) = e
    BY <1>12, <2>2, Packed
  <2>4. IsEof(kind, e) <=> e >= 4088 \/ e = 0
    BY <1>14 DEF IsEof, EofMark
  <2>5. Nexts(info, d, c) = {e}
    BY <2>1, <2>3
  <2>6. IF e \in DataClusters THEN ~IsEof(kind, e) ELSE IsEof(kind, e)
    BY <1>13, <2>4
  <2>7. QED BY <1>12, <2>5, <2>6 DEF kind
<1>15. CASE kind = "FAT16"
  <2>1. Nexts(info, d, c) = {word}
    BY <1>11, <1>15
  <2>2. word = WideByte(at) + 256 * WideByte(at + 1) /\ at = 2 * c
    BY <1>3, <1>9, <1>15 DEF KindByte
  <2>3. word = Wider(e)
    BY <1>12, <2>2, Widened
  <2>4. IsEof(kind, word) <=> word >= 65528 \/ word = 0
    BY <1>15 DEF IsEof, EofMark
  <2>5. IF e \in DataClusters THEN word = e /\ ~IsEof(kind, word) ELSE IsEof(kind, word)
    BY <1>13, <2>3, <2>4 DEF Wider
  <2>6. QED BY <1>12, <2>1, <2>5 DEF kind
<1>16. QED BY <1>1, <1>14, <1>15

-----------------------------------------------------------------------------
(* Searching any drive                                                     *)

(* Entries have clusters.                                                  *)
LEMMA EntryCluster == \A e \in Entries : e.cluster \in Clusters
<1>1. 0 \in Clusters
  BY FatAssumption DEF Clusters
<1>2. QED BY <1>1 DEF Entries, Empty, JunkEntry

(* A slot that is found is one of the root's.                              *)
LEMMA SlotFound ==
    ASSUME NEW info, info.root_offset \in Nat, NEW d, NEW name, Found(info, d, name) # {}
    PROVE  LET p == FirstOf(Found(info, d, name))
           IN p[1] \in Nat /\ p[1] >= info.root_offset /\ At(d, p) \in Entries
<1> DEFINE ps == Found(info, d, name)
           p == FirstOf(ps)
<1>1. RootSecs \in Nat
  BY FatAssumption
<1>2. PICK at \in Nat : at = info.root_offset
  OBVIOUS
<1>3. Slots(info) = (at .. at + RootSecs - 1) \X (1 .. PerSec)
  BY <1>2 DEF Slots
<1>4. ps \subseteq Slots(info)
  BY DEF Found
<1> HIDE DEF ps
<1>5. ps \subseteq Nat \X (1 .. PerSec)
  BY <1>1, <1>2, <1>3, <1>4
<1>6. p \in ps
  BY <1>5, FirstIsOne DEF ps
<1> HIDE DEF p
<1>7. p \in (at .. at + RootSecs - 1) \X (1 .. PerSec)
  BY <1>3, <1>4, <1>6
<1>8. p[1] \in at .. at + RootSecs - 1 /\ p[2] \in 1 .. PerSec
  BY <1>7
<1>9. At(d, p) \in Entries
  <2>1. AsDir(d[p[1]]) \in [1 .. PerSec -> Entries]
    BY AsDirEntries
  <2>2. QED BY <1>8, <2>1 DEF At
<1>10. QED BY <1>1, <1>2, <1>8, <1>9 DEF p, ps

(* A file that is found, in the root or in a directory, begins with one of *)
(* the clusters.                                                           *)
LEMMA RootCluster ==
    ASSUME NEW info, info.root_offset \in Nat, NEW d, NEW n,
           fat_directory(info, d, n).type # "NULL"
    PROVE  fat_directory(info, d, n).cluster \in Clusters
<1> DEFINE ps == fat_get_dir(info, d, n)
           e == At(d, FirstOf(ps))
<1>1. ps # {}
  BY DEF fat_directory, NotFound
<1>2. fat_directory(info, d, n).cluster = e.cluster
  BY <1>1 DEF fat_directory, Opened
<1>3. e \in Entries
  BY <1>1, SlotFound DEF fat_get_dir
<1> HIDE DEF e
<1>4. QED BY <1>2, <1>3, EntryCluster

(* A directory that a search descends to has a cluster.                    *)
LEMMA SubCluster ==
    ASSUME NEW info, NEW d, NEW c, NEW n,
           fat_open_subdir(info, d, c, n).type \notin {"NULL", "ENDLESS"}
    PROVE  fat_open_subdir(info, d, c, n).cluster \in Clusters
<1> DEFINE js == SubFound(info, d, c, n)
           least == CHOOSE j \in js : \A k \in js : j <= k
           e == SubEntries(info, d, c)[least]
           len == Len(Walk(info, d, c)) * PerSec
<1>1. js # {}
  BY DEF fat_open_subdir, NotFound, Endless
<1>2. fat_open_subdir(info, d, c, n) = Opened(n, e)
  BY <1>1, Zenon DEF fat_open_subdir
<1>3. fat_open_subdir(info, d, c, n).cluster = e.cluster
  BY <1>2 DEF Opened
<1>4. DOMAIN SubEntries(info, d, c) = 1 .. len
  BY DEF SubEntries
<1> HIDE DEF len
<1>5. js \subseteq 1 .. len
  BY <1>4 DEF SubFound
<1> HIDE DEF js
<1>6. js \subseteq Nat
  BY <1>5
<1>7. \E j \in js : \A k \in js : j <= k
  BY <1>1, <1>6, LeastNat
<1>8. least \in js
  BY <1>7, Zenon
<1> HIDE DEF least
<1>9. least \in 1 .. len /\ least \in Nat \ {0}
  BY <1>5, <1>8
<1>10. PICK x : e = AsDir(x)[((least - 1) % PerSec) + 1]
  BY <1>9 DEF SubEntries, len
<1>11. ((least - 1) % PerSec) + 1 \in 1 .. PerSec
  <2>1. PerSec \in Nat \ {0} /\ least - 1 \in Int
    BY <1>9, FatAssumption
  <2>2. PICK i \in Int : i = least - 1
    BY <2>1
  <2>3. i % PerSec \in 0 .. PerSec - 1
    BY <2>1, DivMod
  <2>4. QED BY <2>1, <2>2, <2>3
<1>12. AsDir(x) \in [1 .. PerSec -> Entries]
  BY AsDirEntries
<1> HIDE DEF e
<1>13. e \in Entries
  BY <1>10, <1>11, <1>12
<1>14. QED BY <1>3, <1>13, EntryCluster

(* The file that a search finds has a cluster.                             *)
LEMMA ResultCluster ==
    ASSUME NEW path, minfo[path[1]].root_offset \in Nat,
           NEW r \in SearchResults(path), r.type = "FILE"
    PROVE  r.cluster \in Clusters
<1> DEFINE info == minfo[path[1]]
           d == Sectors(path[1])
<1>1. r = fat_directory(info, d, path[2]) \/ \E c : r = fat_open_subdir(info, d, c, path[3])
  BY Zenon DEF SearchResults
<1> HIDE DEF info, d
<1>2. CASE r = fat_directory(info, d, path[2])
  BY <1>2, RootCluster DEF info
<1>3. CASE \E c : r = fat_open_subdir(info, d, c, path[3])
  BY <1>3, SubCluster
<1>4. QED BY <1>1, <1>2, <1>3

-----------------------------------------------------------------------------
(* What is written to the floppy                                           *)

(* No boot record is written, and where the floppy has a file system,      *)
(* nothing before its root.                                                *)
Rewritable(s) == Standard("fda") => s \in Nat /\ s >= Phys + 2 - RootSecs
Rewritten(d, w) ==
    /\ SameSectors(d, d) /\ SameSectors(d, w)
    /\ \A s \in DOMAIN d : w[s] # d[s] => ~IsBoot(w[s]) /\ Rewritable(s)

(* Writing one more sector, behind the FAT, that is no boot record;        *)
LEMMA SectorRewritten ==
    ASSUME NEW d, NEW d1, Rewritten(d, d1), NEW x, Rewritable(x), NEW y, ~IsBoot(y)
    PROVE  Rewritten(d, [d1 EXCEPT ![x] = y])
<1> DEFINE w == [d1 EXCEPT ![x] = y]
<1>1. /\ DOMAIN d1 = DOMAIN d /\ d1 = [s \in DOMAIN d |-> d1[s]] /\ SameSectors(d, d)
      /\ \A s \in DOMAIN d : d1[s] # d[s] => ~IsBoot(d1[s]) /\ Rewritable(s)
  BY DEF Rewritten, SameSectors
<1>2. w = [s \in DOMAIN d |-> IF s = x THEN y ELSE d1[s]]
  BY <1>1
<1> HIDE DEF w
<1>3. DOMAIN w = DOMAIN d /\ \A s \in DOMAIN d : w[s] = IF s = x THEN y ELSE d1[s]
  BY <1>2
<1>4. w = [s \in DOMAIN d |-> w[s]]
  BY <1>2
<1>5. \A s \in DOMAIN d : w[s] # d[s] => ~IsBoot(w[s]) /\ Rewritable(s)
  BY <1>1, <1>3
<1>6. Rewritten(d, w)
  BY <1>1, <1>3, <1>4, <1>5 DEF Rewritten, SameSectors
<1>7. QED BY <1>6 DEF w

(* writing an entry there;                                                 *)
LEMMA PutRewrites ==
    ASSUME NEW d, NEW d1, Rewritten(d, d1), NEW p, Rewritable(p[1]), NEW e
    PROVE  Rewritten(d, PutEntry(d1, p, e))
<1> DEFINE y == [ents |-> [AsDir(d1[p[1]]) EXCEPT ![p[2]] = e]]
<1>1. ~IsBoot(y)
  BY DEF IsBoot
<1>2. PutEntry(d1, p, e) = [d1 EXCEPT ![p[1]] = y]
  BY DEF PutEntry
<1> HIDE DEF y
<1>3. PICK x : x = p[1]
  OBVIOUS
<1>4. Rewritten(d, [d1 EXCEPT ![x] = y])
  BY <1>1, <1>3, SectorRewritten
<1>5. QED BY <1>2, <1>3, <1>4

(* writing nothing.                                                        *)
LEMMA FloppyRewritten ==
    ASSUME FatInv
    PROVE  Rewritten(disk.fda, disk.fda)
  BY DEF FatInv, FloppyKept, Rewritten

(* The root's slots are places that may be written.                        *)
LEMMA SlotRewritable ==
    ASSUME minfo["fda"].root_offset \in Nat, NEW d, NEW name,
           Found(minfo["fda"], d, name) # {}
    PROVE  Rewritable(FirstOf(Found(minfo["fda"], d, name))[1])
<1>1. PICK p : p = FirstOf(Found(minfo["fda"], d, name))
  OBVIOUS
<1>2. p[1] \in Nat /\ p[1] >= minfo["fda"].root_offset
  BY <1>1, SlotFound
<1>3. Standard("fda") => minfo["fda"].root_offset + RootSecs = Phys + 2
  BY DEF Standard, FloppyLayout
<1>4. PICK at \in Nat : at = minfo["fda"].root_offset
  OBVIOUS
<1>5. RootSecs \in Nat /\ Phys \in Nat
  BY FatAssumption
<1>6. QED BY <1>1, <1>2, <1>3, <1>4, <1>5 DEF Rewritable

(* What the floppy may hold after a command.                               *)
Writes(w) == Rewritten(disk.fda, w) /\ disk' = [disk EXCEPT !.fda = w]

(* What touch changes on the floppy lies behind the FAT.                   *)
LEMMA TouchWrites ==
    ASSUME FatInv, NEW n \in Typed, Touch(n)
    PROVE  disk' = disk \/ \E w : Writes(w)
<1>1. stage = "console"
  BY DEF Touch, InDrive, Ready
<1>2. minfo["fda"].root_offset \in Nat
  BY <1>1 DEF FatInv, RootKnown
<1>3. PICK drive : LET d == Sectors(drive)
                       free == Found(minfo[drive], d, NoName)
                   IN IF free = {} THEN UNCHANGED <<disk, halted>>
                      ELSE Stores(drive, PutEntry(d, FirstOf(free), NewEntry(n)))
  BY DEF Touch
<1> DEFINE free == Found(minfo[drive], Sectors(drive), NoName)
           w == PutEntry(Sectors(drive), FirstOf(free), NewEntry(n))
<1>4. disk' = disk \/ (drive = "fda" /\ free # {} /\ disk' = [disk EXCEPT !.fda = w])
  BY <1>3 DEF Stores
<1>5. ASSUME drive = "fda", free # {} PROVE Rewritten(disk.fda, w)
  <2>1. Sectors(drive) = disk.fda
    BY <1>5 DEF Sectors
  <2>2. free = Found(minfo["fda"], disk.fda, NoName) /\ w = PutEntry(disk.fda, FirstOf(free), NewEntry(n))
    BY <1>5, <2>1
  <2> HIDE DEF free, w
  <2>3. Rewritable(FirstOf(free)[1])
    BY <1>2, <1>5, <2>2, SlotRewritable
  <2>4. QED BY <2>2, <2>3, FloppyRewritten, PutRewrites
<1> HIDE DEF w, free
<1>6. QED BY <1>4, <1>5 DEF Writes

(* What delete changes does, too.                                          *)
LEMMA DeleteWrites ==
    ASSUME FatInv, NEW n \in Typed, Delete(n)
    PROVE  disk' = disk \/ \E w : Writes(w)
<1>1. stage = "console"
  BY DEF Delete, InDrive, Ready
<1>2. minfo["fda"].root_offset \in Nat
  BY <1>1 DEF FatInv, RootKnown
<1> DEFINE ps == Found(minfo[Drive], Sectors(Drive), Dos[n])
           w == PutEntry(Sectors(Drive), FirstOf(ps), Empty)
<1>3. disk' = disk \/ (Drive = "fda" /\ ps # {} /\ disk' = [disk EXCEPT !.fda = w])
  BY DEF Delete, Stores, fat_get_dir
<1>4. ASSUME Drive = "fda", ps # {} PROVE Rewritten(disk.fda, w)
  <2>1. Sectors(Drive) = disk.fda
    BY <1>4 DEF Sectors
  <2>2. ps = Found(minfo["fda"], disk.fda, Dos[n]) /\ w = PutEntry(disk.fda, FirstOf(ps), Empty)
    BY <1>4, <2>1
  <2> HIDE DEF ps, w
  <2>3. Rewritable(FirstOf(ps)[1])
    BY <1>2, <1>4, <2>2, SlotRewritable
  <2>4. QED BY <2>2, <2>3, FloppyRewritten, PutRewrites
<1> HIDE DEF w, ps
<1>5. QED BY <1>3, <1>4 DEF Writes

(* Text goes to a cluster, and clusters 0 and 1 are sectors of the root.   *)
LEMMA ClusterRewritable == \A c \in Clusters : Rewritable(Written(c))
  BY FatAssumption DEF Clusters, Rewritable, Written, get_phys_sector

(* So does the text of a file.                                             *)
LEMMA WriteRewrites ==
    ASSUME FatInv, minfo["fda"].root_offset \in Nat, NEW r, r.cluster \in Clusters, NEW v
    PROVE  Rewritten(disk.fda, fat_write(minfo["fda"], disk.fda, r, v))
<1> DEFINE d1 == [disk.fda EXCEPT ![Written(r.cluster)] = [val |-> v]]
           ps == fat_get_dir(minfo["fda"], d1, r.name)
           p == FirstOf(ps)
           w == PutEntry(d1, p, [At(d1, p) EXCEPT !.size = 1])
<1>1. Rewritten(disk.fda, d1)
  <2>1. ~IsBoot([val |-> v])
    BY DEF IsBoot
  <2>2. Rewritable(Written(r.cluster))
    BY ClusterRewritable
  <2>3. QED BY <2>1, <2>2, FloppyRewritten, SectorRewritten
<1>2. fat_write(minfo["fda"], disk.fda, r, v) = IF ps = {} THEN d1 ELSE w
  BY DEF fat_write
<1> HIDE DEF d1
<1>3. ASSUME ps # {} PROVE Rewritten(disk.fda, w)
  <2>1. Rewritable(p[1])
    BY <1>3, SlotRewritable DEF fat_get_dir
  <2> HIDE DEF p
  <2>2. QED BY <1>1, <2>1, PutRewrites
<1> HIDE DEF w, ps
<1>4. QED BY <1>1, <1>2, <1>3

(* The current directory is nowhere, or begins with a drive.              *)
DirKnown ==
    dir # <<>> => /\ stage = "console" /\ dir \in Seq(Mounted \cup Typed)
                  /\ Len(dir) >= 1 /\ Drive \in Mounted

(* A name is looked up on the drive of the current directory.              *)
LEMMA PathBegins ==
    ASSUME DirKnown, dir # <<>>, NEW n \in Typed
    PROVE  Append(dir, n)[1] = Drive /\ Append(dir, n) \in Seq(Mounted \cup Typed)
<1>1. dir \in Seq(Mounted \cup Typed) /\ Len(dir) >= 1
  BY DEF DirKnown
<1>2. QED BY <1>1 DEF Drive

(* What write changes on the floppy lies behind the FAT.                   *)
LEMMA WriteWrites ==
    ASSUME FatInv, DirKnown, NEW n \in Typed, NEW v \in Texts, Write(n, v)
    PROVE  disk' = disk \/ \E w : Writes(w)
<1>1. stage = "console" /\ dir # <<>>
  BY DEF Write, InDrive, Ready
<1>2. minfo["fda"].root_offset \in Nat
  BY <1>1 DEF FatInv, RootKnown
<1>3. PICK r \in SearchResults(Append(dir, n)) :
        r.type = "FILE" /\ Stores(Drive, fat_write(minfo[Drive], Sectors(Drive), r, v))
  BY DEF Write
<1>4. CASE Drive = "fda"
  <2>1. Append(dir, n)[1] = "fda"
    BY <1>1, <1>4, PathBegins
  <2>2. minfo[Append(dir, n)[1]].root_offset \in Nat
    BY <1>2, <2>1
  <2>3. r.cluster \in Clusters
    BY <1>3, <2>2, ResultCluster
  <2> DEFINE w == fat_write(minfo["fda"], disk.fda, r, v)
  <2>4. Rewritten(disk.fda, w)
    BY <1>2, <2>3, WriteRewrites
  <2>5. Sectors("fda") = disk.fda
    BY DEF Sectors
  <2>6. Stores("fda", w)
    BY <1>3, <1>4, <2>5
  <2> HIDE DEF w
  <2>7. disk' = [disk EXCEPT !.fda = w]
    BY <2>6 DEF Stores
  <2>8. QED BY <2>4, <2>7 DEF Writes
<1>5. CASE Drive # "fda"
  BY <1>3, <1>5 DEF Stores
<1>6. QED BY <1>4, <1>5

-----------------------------------------------------------------------------
(* The drives that are mounted                                             *)

(* What is known of a drive is what mounting it now would find, and it is  *)
(* formatted.                                                              *)
DriveKnown(drive) ==
    Standard(drive) => minfo[drive] = fat_mount(Sectors(drive)[0]) /\ Formatted(Sectors(drive))

DrivesKnown ==
    /\ disk.hda = [s \in DOMAIN disk.hda |-> disk.hda[s]] /\ 0 \in DOMAIN disk.hda
    /\ WellFormed(disk.hda)
    /\ stage = "floppy" => Mounted = {} /\ WellFormed(disk.fda)
    /\ \A drive \in Mounted : DriveKnown(drive)

(* How far file g was read into o, from a drive of sectors d: up to its    *)
(* k-th cluster, and to the end of that one if it is at its end.           *)
Held(d, c) == [j \in 1 .. Len(Chain(c)) |-> d[get_phys_sector(Chain(c)[j])]]
ReadTo(g, o, d, k) ==
    /\ k \in 1 .. Len(Chain(g.start)) /\ g.cluster = Chain(g.start)[k]
    /\ g.eof => k = Len(Chain(g.start))
    /\ o = [j \in 1 .. (IF g.eof THEN k ELSE k - 1) |-> Held(d, g.start)[j]]

FileRecord(g) ==
    g.eof \in BOOLEAN /\ g = [type |-> "FILE", cluster |-> g.cluster, start |-> g.start, eof |-> g.eof]

FileKnown ==
    f # FS_NULL =>
        /\ dir # <<>> /\ FileRecord(f)
        /\ Standard(Drive) /\ f.start >= 2 =>
              f.start \in DataClusters /\ \E k \in Nat : ReadTo(f, out, Sectors(Drive), k)

FilesInv == FatInv /\ DirKnown /\ DrivesKnown /\ FileKnown

(* What fat_mount finds on a drive with the layout of a floppy.            *)
LEMMA StandardMounted ==
    ASSUME NEW drive, Standard(drive), DriveKnown(drive)
    PROVE  /\ minfo[drive].type = Kind(Sectors(drive)) /\ minfo[drive].fat_offset = 1
           /\ minfo[drive].root_offset \in Nat
           /\ Formatted(Sectors(drive))
<1>1. minfo[drive] = fat_mount(Sectors(drive)[0]) /\ Formatted(Sectors(drive))
  BY DEF DriveKnown
<1>2. PICK d : d = Sectors(drive)
  OBVIOUS
<1>3. FloppyLayout(d[0], fat_mount(d[0])) /\ Formatted(d)
  BY <1>1, <1>2 DEF Standard
<1>4. QED BY <1>1, <1>2, <1>3, Guessed

(* Writing to the floppy leaves its boot record and its FAT alone.         *)
LEMMA RewrittenFormatted ==
    ASSUME NEW d, NEW w, Rewritten(d, w), Standard("fda"), Formatted(d), w[0] = d[0]
    PROVE  Formatted(w)
<1>1. /\ DOMAIN w = DOMAIN d
      /\ \A s \in DOMAIN d : w[s] # d[s] => s \in Nat /\ s >= Phys + 2 - RootSecs
  BY DEF Rewritten, Rewritable, SameSectors
<1>2. Phys \in Nat /\ RootSecs \in Nat
  BY FatAssumption
<1>3. Kind(w) = Kind(d)
  BY DEF Kind
<1>4. /\ w[0].boot \in BootRecord /\ w[0].boot.n_sectors - (Phys + 2) \in 0 .. Limit16 - 1
      /\ \A c \in DataClusters :
            /\ get_phys_sector(c) \in DOMAIN d
            /\ \A i \in EntryAt(Kind(w), c) .. EntryAt(Kind(w), c) + 1 :
                  /\ FatSector(1, i) < Phys + 2 - RootSecs
                  /\ IsFat(d, FatSector(1, i)) /\ FatByte(d, 1, i) = KindByte(Kind(w), i)
  BY <1>3, FormattedIs
<1>5. ASSUME NEW s, s < Phys + 2 - RootSecs, IsFat(d, s)
      PROVE  w[s] = d[s] /\ IsFat(w, s)
  <2>1. s \in DOMAIN d
    BY <1>5 DEF IsFat
  <2>2. w[s] = d[s]
    BY <1>1, <1>2, <1>5, <2>1
  <2>3. QED BY <1>1, <1>5, <2>1, <2>2 DEF IsFat
<1>6. ASSUME NEW c \in DataClusters, NEW i \in EntryAt(Kind(w), c) .. EntryAt(Kind(w), c) + 1
      PROVE  /\ FatSector(1, i) < Phys + 2 - RootSecs
             /\ IsFat(w, FatSector(1, i)) /\ FatByte(w, 1, i) = KindByte(Kind(w), i)
  <2>1. PICK s : s = FatSector(1, i)
    OBVIOUS
  <2>2. s < Phys + 2 - RootSecs /\ IsFat(d, s) /\ FatByte(d, 1, i) = KindByte(Kind(w), i)
    BY <1>4, <2>1
  <2>3. w[s] = d[s] /\ IsFat(w, s)
    BY <1>5, <2>2
  <2>4. FatByte(w, 1, i) = FatByte(d, 1, i)
    BY <2>1, <2>3, Zenon DEF FatByte
  <2>5. QED BY <2>1, <2>2, <2>3, <2>4
<1>7. \A c \in DataClusters :
         /\ get_phys_sector(c) \in DOMAIN w
         /\ \A i \in EntryAt(Kind(w), c) .. EntryAt(Kind(w), c) + 1 :
               /\ FatSector(1, i) < Phys + 2 - RootSecs
               /\ IsFat(w, FatSector(1, i)) /\ FatByte(w, 1, i) = KindByte(Kind(w), i)
  BY <1>1, <1>4, <1>6
<1>8. QED BY <1>4, <1>7, Zenon DEF Formatted, Kind, KindByte

(* A command that writes leaves what is known of the floppy true.          *)
LEMMA WritesKnown ==
    ASSUME FatInv, DriveKnown("fda"), NEW w, Writes(w), minfo' = minfo
    PROVE  DriveKnown("fda")' /\ disk'.hda = disk.hda
<1>1. disk = [fda |-> disk.fda, hda |-> disk.hda] /\ 0 \in DOMAIN disk.fda
  BY FatAssumption DEF FatInv, FloppyKept
<1>2. disk' = [disk EXCEPT !.fda = w] /\ Rewritten(disk.fda, w)
  BY DEF Writes
<1>3. disk'.fda = w /\ disk'.hda = disk.hda
  BY <1>1, <1>2
<1>4. Sectors("fda") = disk.fda /\ Sectors("fda")' = w
  BY <1>3 DEF Sectors
<1>5. ASSUME Standard("fda")'
      PROVE  minfo'["fda"] = fat_mount(w[0]) /\ Formatted(w)
  <2>1. FloppyLayout(w[0], minfo["fda"])
    BY <1>4, <1>5 DEF Standard
  <2>2. IsBoot(w[0])
    BY <2>1 DEF FloppyLayout
  <2>3. w[0] = disk.fda[0]
    BY <1>1, <1>2, <2>2 DEF Rewritten
  <2>4. Standard("fda")
    BY <1>4, <2>1, <2>3 DEF Standard
  <2>5. minfo["fda"] = fat_mount(disk.fda[0]) /\ Formatted(disk.fda)
    BY <1>4, <2>4 DEF DriveKnown
  <2>6. Formatted(w)
    BY <1>2, <2>3, <2>4, <2>5, RewrittenFormatted
  <2>7. QED BY <2>3, <2>5, <2>6
<1>6. DriveKnown("fda")'
  BY <1>4, <1>5 DEF DriveKnown
<1>7. QED BY <1>3, <1>6

(* What is read of a hard disk is the first one, or nothing of use.        *)
LEMMA HardWellFormed ==
    ASSUME DrivesKnown, NEW drive, drive # "fda"
    PROVE  WellFormed(Sectors(drive))
<1>1. /\ disk.hda = [s \in DOMAIN disk.hda |-> disk.hda[s]] /\ 0 \in DOMAIN disk.hda
      /\ WellFormed(disk.hda)
  BY DEF DrivesKnown
<1>2. Sectors(drive) = [s \in DOMAIN disk.hda |->
                           ata_read_sector(machine.answers, machine.port, disk.hda[s])]
  BY DEF Sectors
<1>3. CASE machine.answers["hda"] = "data" /\ machine.port = "steady"
  <2>1. Sectors(drive) = disk.hda
    BY <1>1, <1>2, <1>3 DEF ata_read_sector
  <2>2. QED BY <1>1, <2>1
<1>4. CASE ~(machine.answers["hda"] = "data" /\ machine.port = "steady")
  <2>1. Sectors(drive)[0] = Garbage
    BY <1>1, <1>2, <1>4 DEF ata_read_sector
  <2>2. ~IsBoot(Sectors(drive)[0])
    BY <2>1 DEF IsBoot, Garbage
  <2>3. QED BY <2>2 DEF WellFormed, FloppyLayout
<1>5. QED BY <1>3, <1>4

(* Drives of which nothing was written are the same.                       *)
LEMMA SectorsSame ==
    ASSUME UNCHANGED <<machine, disk>>, NEW drive
    PROVE  Sectors(drive)' = Sectors(drive)
  BY DEF Sectors

(* The hard disk is the same when the floppy was written.                  *)
LEMMA HardSame ==
    ASSUME UNCHANGED machine, disk'.hda = disk.hda, NEW drive, drive # "fda"
    PROVE  Sectors(drive)' = Sectors(drive)
  BY DEF Sectors

(* Mounting drives that are well formed.                                   *)
LEMMA MountKnown ==
    ASSUME NEW drives, device_register(drives), UNCHANGED <<machine, disk>>,
           \A drive \in drives : WellFormed(Sectors(drive)),
           \A drive \in Mounted : DriveKnown(drive)
    PROVE  \A drive \in Mounted' : DriveKnown(drive)'
<1>1. minfo' = [d \in Mounted \cup drives |->
                   IF d \in drives THEN fat_mount(Sectors(d)[0]) ELSE minfo[d]]
  BY DEF device_register
<1>2. SUFFICES ASSUME NEW drive \in Mounted', Standard(drive)'
               PROVE  minfo'[drive] = fat_mount(Sectors(drive)[0]) /\ Formatted(Sectors(drive))
  BY SectorsSame DEF DriveKnown
<1>3. FloppyLayout(Sectors(drive)[0], minfo'[drive])
  BY <1>2, SectorsSame DEF Standard
<1>4. drive \in Mounted \cup drives
  BY <1>1 DEF Mounted
<1>5. CASE drive \in drives
  <2>1. minfo'[drive] = fat_mount(Sectors(drive)[0])
    BY <1>1, <1>4, <1>5
  <2>2. QED BY <1>3, <1>5, <2>1 DEF WellFormed
<1>6. CASE drive \notin drives
  <2>1. minfo'[drive] = minfo[drive] /\ drive \in Mounted
    BY <1>1, <1>4, <1>6
  <2>2. QED BY <1>3, <2>1 DEF DriveKnown, Standard
<1>7. QED BY <1>5, <1>6

-----------------------------------------------------------------------------
(* Reading a file                                                          *)

(* Reading a sector of a file goes on to its next cluster, or is its end.  *)
ReadOn(g, type, next) ==
    IF IsEof(type, next) THEN [g EXCEPT !.eof = TRUE] ELSE [g EXCEPT !.cluster = next]

(* The clusters of a chain: each leads to the next, the last one to none.  *)
LEMMA ClustersOf ==
    ASSUME NEW c \in DataClusters, NEW k \in 1 .. Len(Chain(c))
    PROVE  /\ Len(Chain(c)) \in Nat \ {0} /\ k <= LastCluster + 1 /\ Chain(c)[k] \in DataClusters
           /\ k = Len(Chain(c)) <=> Links[Chain(c)[k]] \notin DataClusters
           /\ k # Len(Chain(c)) => Chain(c)[k + 1] = Links[Chain(c)[k]]
<1>1. PICK s : s = Chain(c)
  OBVIOUS
<1>2. /\ s \in Seq(DataClusters) /\ Len(s) \in Nat \ {0}
      /\ \A j \in 1 .. Len(s) - 1 : s[j + 1] = Links[s[j]]
      /\ Links[s[Len(s)]] \notin DataClusters /\ Len(s) <= LastCluster + 1
  BY <1>1, ChainIs DEF Follows, Ended, Last
<1>3. \A j \in 1 .. Len(s) : s[j] \in DataClusters
  BY <1>2, ElementOfSeq
<1>4. LastCluster \in Nat
  BY FatAssumption
<1>5. k \in 1 .. Len(s)
  BY <1>1
<1>6. k <= LastCluster + 1 /\ s[k] \in DataClusters
  BY <1>2, <1>3, <1>4, <1>5
<1>7. ASSUME k # Len(s)
      PROVE  s[k + 1] = Links[s[k]] /\ Links[s[k]] \in DataClusters
  <2>1. k \in 1 .. Len(s) - 1 /\ k + 1 \in 1 .. Len(s)
    BY <1>2, <1>5, <1>7
  <2>2. s[k + 1] = Links[s[k]] /\ s[k + 1] \in DataClusters
    BY <1>2, <1>3, <2>1
  <2>3. QED BY <2>2
<1>8. k = Len(s) => Links[s[k]] \notin DataClusters
  BY <1>2
<1>9. QED BY <1>1, <1>2, <1>6, <1>7, <1>8

(* One more of the sectors of a file.                                      *)
LEMMA OneMore ==
    ASSUME NEW L \in Nat, NEW t, NEW n \in 0 .. L - 1, NEW o, o = [j \in 1 .. n |-> t[j]]
    PROVE  Len(o) = n /\ Append(o, t[n + 1]) = [j \in 1 .. n + 1 |-> t[j]]
  OBVIOUS

(* Reading one more sector keeps what was read a beginning of the file.    *)
LEMMA ReadNext ==
    ASSUME NEW g, FileRecord(g), ~g.eof, g.start \in DataClusters,
           NEW o, NEW d, NEW k \in Nat, ReadTo(g, o, d, k),
           NEW info, info.type = Kind(d), info.fat_offset = 1, Formatted(d),
           NEW next \in Nexts(info, d, g.cluster)
    PROVE  /\ Len(o) <= LastCluster /\ get_phys_sector(g.cluster) \in DOMAIN d
           /\ \E m \in Nat : ReadTo(ReadOn(g, info.type, next),
                                    Append(o, d[get_phys_sector(g.cluster)]), d, m)
<1>0. PICK c \in DataClusters : c = g.start
  OBVIOUS
<1>1. PICK s, x : s = Chain(c) /\ x = g.cluster
  OBVIOUS
<1>2. k \in 1 .. Len(s) /\ x = s[k]
  BY <1>0, <1>1 DEF ReadTo
<1>3. /\ Len(s) \in Nat \ {0} /\ k <= LastCluster + 1 /\ x \in DataClusters
      /\ k = Len(s) <=> Links[x] \notin DataClusters
      /\ k # Len(s) => s[k + 1] = Links[x]
  BY <1>0, <1>1, <1>2, ClustersOf
<1>4. PICK t : t = Held(d, c)
  OBVIOUS
<1>5. t[k] = d[get_phys_sector(x)]
  BY <1>0, <1>1, <1>2, <1>4 DEF Held
<1>6. o = [j \in 1 .. k - 1 |-> t[j]]
  BY <1>0, <1>1, <1>4 DEF ReadTo
<1>7. Len(o) = k - 1 /\ Append(o, d[get_phys_sector(x)]) = [j \in 1 .. k |-> t[j]]
  <2>1. k - 1 \in 0 .. Len(s) - 1 /\ (k - 1) + 1 = k
    BY <1>2, <1>3
  <2>2. QED BY <1>3, <1>5, <1>6, <2>1, OneMore
<1>8. Len(o) <= LastCluster /\ get_phys_sector(x) \in DOMAIN d
  <2>1. get_phys_sector(x) \in DOMAIN d
    BY <1>3, FormattedIs
  <2>2. QED BY <1>3, <1>7, <2>1, FatAssumption
<1>9. PICK y : /\ Nexts(info, d, x) = {y}
               /\ IF Links[x] \in DataClusters THEN y = Links[x] /\ ~IsEof(info.type, y)
                  ELSE IsEof(info.type, y)
  BY <1>3, NextIs
<1>10. next = y
  BY <1>0, <1>1, <1>9
<1> DEFINE h == ReadOn(g, info.type, next)
           o2 == Append(o, d[get_phys_sector(x)])
<1>11. CASE Links[x] \in DataClusters
  <2>1. h = [g EXCEPT !.cluster = Links[x]]
    BY <1>9, <1>10, <1>11 DEF ReadOn
  <2>2. h.start = c /\ h.cluster = Links[x] /\ h.eof = FALSE
    <3>1. g = [type |-> "FILE", cluster |-> g.cluster, start |-> g.start, eof |-> g.eof]
      BY DEF FileRecord
    <3>2. g.eof = FALSE
      BY DEF FileRecord
    <3>3. QED BY <1>0, <1>1, <2>1, <3>1, <3>2
  <2>3. k + 1 \in 1 .. Len(s) /\ Links[x] = s[k + 1] /\ k + 1 \in Nat
    BY <1>2, <1>3, <1>11
  <2>4. o2 = [j \in 1 .. (k + 1) - 1 |-> t[j]]
    BY <1>7
  <2> HIDE DEF h, o2
  <2>5. ReadTo(h, o2, d, k + 1)
    BY <1>0, <1>1, <1>4, <2>2, <2>3, <2>4 DEF ReadTo
  <2>6. QED BY <1>0, <1>1, <1>8, <2>3, <2>5 DEF h, o2
<1>12. CASE Links[x] \notin DataClusters
  <2>1. h = [g EXCEPT !.eof = TRUE]
    BY <1>9, <1>10, <1>12 DEF ReadOn
  <2>2. h.start = c /\ h.cluster = x /\ h.eof = TRUE
    <3>1. g = [type |-> "FILE", cluster |-> g.cluster, start |-> g.start, eof |-> g.eof]
      BY DEF FileRecord
    <3>2. QED BY <1>0, <1>1, <2>1, <3>1
  <2>3. k = Len(s)
    BY <1>3, <1>12
  <2>4. o2 = [j \in 1 .. k |-> t[j]]
    BY <1>7
  <2> HIDE DEF h, o2
  <2>5. ReadTo(h, o2, d, k)
    BY <1>0, <1>1, <1>2, <1>4, <2>2, <2>3, <2>4 DEF ReadTo
  <2>6. QED BY <1>0, <1>1, <1>8, <2>5 DEF h, o2
<1>13. QED BY <1>11, <1>12

(* It holds at boot.                                                       *)
LEMMA FilesInit == Init => FilesInv
<1>1. SUFFICES ASSUME Init PROVE FilesInv
  OBVIOUS
<1>2. PICK m \in Machines : disk = [fda |-> m.fda, hda |-> m.hda]
  BY <1>1 DEF Init
<1>3. disk.fda = m.fda /\ disk.hda = m.hda
  BY <1>2
<1>4. stage = "floppy" /\ minfo = <<>> /\ dir = <<>> /\ f = FS_NULL
  BY <1>1 DEF Init
<1>5. Mounted = {}
  BY <1>4 DEF Mounted
<1>6. /\ m.hda = [s \in DOMAIN m.hda |-> m.hda[s]] /\ 0 \in DOMAIN m.hda
      /\ WellFormed(m.fda) /\ WellFormed(m.hda)
  BY FilesAssumption
<1>7. DrivesKnown
  BY <1>3, <1>5, <1>6 DEF DrivesKnown
<1>8. DirKnown /\ FileKnown
  BY <1>4 DEF DirKnown, FileKnown
<1>9. QED BY <1>1, <1>7, <1>8, FatInit DEF FilesInv

(* The directory, in steps that leave it or do not yet have one.           *)
LEMMA DirStep ==
    ASSUME DirKnown, dir' = dir, stage = "console" => UNCHANGED <<stage, minfo>>
    PROVE  DirKnown'
  BY DEF DirKnown, Drive, Mounted

(* The drives, in steps that leave them alone.                             *)
LEMMA DrivesStep ==
    ASSUME DrivesKnown, UNCHANGED <<machine, stage, disk, minfo>>
    PROVE  DrivesKnown'
<1>1. ASSUME NEW drive \in Mounted, DriveKnown(drive) PROVE DriveKnown(drive)'
  BY <1>1, SectorsSame DEF DriveKnown, Standard
<1>2. Mounted' = Mounted
  BY DEF Mounted
<1>3. QED BY <1>1, <1>2 DEF DrivesKnown

(* The drives after a command.                                             *)
LEMMA DrivesWritten ==
    ASSUME FatInv, DrivesKnown, stage = "console", UNCHANGED boot,
           disk' = disk \/ \E w : Writes(w)
    PROVE  DrivesKnown'
<1>1. UNCHANGED <<machine, stage, minfo>>
  BY DEF boot
<1>2. CASE disk' = disk
  BY <1>1, <1>2, DrivesStep
<1>3. ASSUME NEW w, Writes(w) PROVE DrivesKnown'
  <2>1. "fda" \in Mounted
    BY DEF FatInv, RootKnown
  <2>2. DriveKnown("fda")' /\ disk'.hda = disk.hda
    BY <1>1, <1>3, <2>1, WritesKnown DEF DrivesKnown
  <2>3. ASSUME NEW drive \in Mounted, drive # "fda", DriveKnown(drive) PROVE DriveKnown(drive)'
    <3>1. Sectors(drive)' = Sectors(drive)
      BY <1>1, <2>2, <2>3, HardSame
    <3>2. QED BY <1>1, <2>3, <3>1 DEF DriveKnown, Standard
  <2>4. Mounted' = Mounted
    BY <1>1 DEF Mounted
  <2>5. QED BY <1>1, <2>2, <2>3, <2>4 DEF DrivesKnown
<1>4. QED BY <1>2, <1>3

(* Every step keeps what is known of the drives.                           *)
LEMMA DrivesNext == FilesInv /\ [Next]_vars => DrivesKnown'
<1>1. SUFFICES ASSUME FilesInv, [Next]_vars PROVE DrivesKnown'
  OBVIOUS
<1>2. FatInv /\ DirKnown /\ DrivesKnown
  BY <1>1 DEF FilesInv
<1>3. CASE floppy_init
  <2>1. /\ stage = "floppy" /\ stage' = "ata" /\ UNCHANGED <<machine, disk>>
        /\ device_register({"fda"})
    BY <1>3 DEF floppy_init
  <2>2. Sectors("fda") = disk.fda
    BY DEF Sectors
  <2>3. \A drive \in {"fda"} : WellFormed(Sectors(drive))
    BY <1>2, <2>1, <2>2 DEF DrivesKnown
  <2>4. \A drive \in Mounted : DriveKnown(drive)
    BY <1>2 DEF DrivesKnown
  <2>5. \A drive \in Mounted' : DriveKnown(drive)'
    BY <2>1, <2>3, <2>4, MountKnown
  <2>6. QED BY <1>2, <2>1, <2>5 DEF DrivesKnown
<1>4. CASE ata_init
  <2>1. /\ stage' = "console" /\ UNCHANGED <<machine, disk>>
        /\ device_register(Present(machine.answers))
    BY <1>4 DEF ata_init
  <2>2. \A drive \in Present(machine.answers) : WellFormed(Sectors(drive))
    BY <1>2, HardWellFormed, FatAssumption DEF Present
  <2>3. \A drive \in Mounted : DriveKnown(drive)
    BY <1>2 DEF DrivesKnown
  <2> DEFINE drives == Present(machine.answers)
  <2>4. device_register(drives) /\ \A drive \in drives : WellFormed(Sectors(drive))
    BY <2>1, <2>2
  <2> HIDE DEF drives
  <2>5. \A drive \in Mounted' : DriveKnown(drive)'
    BY <2>1, <2>3, <2>4, MountKnown
  <2>6. QED BY <1>2, <2>1, <2>5 DEF DrivesKnown
<1>5. CASE \/ ata_initHangs \/ CdBack \/ fat_read \/ Close
           \/ \E drive \in Mounted : CdDrive(drive)
           \/ \E n \in Typed : Cd(n) \/ TouchExists(n) \/ TouchNoDev(n) \/ OpenRead(n)
                               \/ SearchHangs(n)
  <2>1. UNCHANGED <<machine, stage, disk, minfo>>
    BY <1>5 DEF ata_initHangs, CdBack, fat_read, Close, CdDrive, Cd, TouchExists, TouchNoDev,
       OpenRead, SearchHangs, boot, vars
  <2>2. QED BY <1>2, <2>1, DrivesStep
<1>6. ASSUME NEW n \in Typed, Touch(n) PROVE DrivesKnown'
  BY <1>2, <1>6, TouchWrites, DrivesWritten DEF Touch, InDrive, Ready
<1>7. ASSUME NEW n \in Typed, Delete(n) PROVE DrivesKnown'
  <2>1. stage = "console" /\ UNCHANGED boot
    BY <1>7 DEF Delete, InDrive, Ready
  <2>2. QED BY <1>2, <1>7, <2>1, DeleteWrites, DrivesWritten
<1>8. ASSUME NEW n \in Typed, NEW v \in Texts, Write(n, v) PROVE DrivesKnown'
  <2>1. stage = "console" /\ UNCHANGED boot
    BY <1>8 DEF Write, InDrive, Ready
  <2>2. QED BY <1>2, <1>8, <2>1, WriteWrites, DrivesWritten
<1>9. CASE UNCHANGED vars
  BY <1>2, <1>9, DrivesStep DEF vars
<1>10. QED BY <1>1, <1>3, <1>4, <1>5, <1>6, <1>7, <1>8, <1>9 DEF Next

(* Every step keeps what is known of the current directory.                *)
LEMMA DirNext == FilesInv /\ [Next]_vars => DirKnown'
<1>1. SUFFICES ASSUME FilesInv, [Next]_vars PROVE DirKnown'
  OBVIOUS
<1>2. DirKnown
  BY <1>1 DEF FilesInv
<1>3. CASE \/ floppy_init \/ ata_init \/ ata_initHangs \/ fat_read \/ Close \/ UNCHANGED vars
           \/ \E n \in Typed : \/ Touch(n) \/ TouchExists(n) \/ TouchNoDev(n) \/ Delete(n)
                               \/ OpenRead(n) \/ SearchHangs(n) \/ \E v \in Texts : Write(n, v)
  <2>1. dir' = dir /\ (stage = "console" => UNCHANGED <<stage, minfo>>)
    BY <1>3 DEF floppy_init, ata_init, ata_initHangs, fat_read, Close, vars, Touch, TouchExists,
       TouchNoDev, Delete, OpenRead, SearchHangs, Write, boot
  <2>2. QED BY <1>2, <2>1, DirStep
<1>4. CASE CdBack
  BY <1>4 DEF CdBack, DirKnown
<1>5. ASSUME NEW drive \in Mounted, CdDrive(drive) PROVE DirKnown'
  <2>1. stage = "console" /\ stage' = stage /\ minfo' = minfo /\ dir' = <<drive>>
    BY <1>5 DEF CdDrive, Ready, boot
  <2>2. Mounted' = Mounted
    BY <2>1 DEF Mounted
  <2>3. dir' \in Seq(Mounted \cup Typed) /\ Len(dir') >= 1 /\ dir'[1] \in Mounted
    BY <2>1
  <2>4. QED BY <2>1, <2>2, <2>3 DEF DirKnown, Drive
<1>6. ASSUME NEW n \in Typed, Cd(n) PROVE DirKnown'
  <2>1. stage' = stage /\ minfo' = minfo /\ dir' = Append(dir, n) /\ dir # <<>>
    BY <1>6 DEF Cd, InDrive, boot
  <2>2. Mounted' = Mounted
    BY <2>1 DEF Mounted
  <2>3. dir'[1] = Drive /\ dir' \in Seq(Mounted \cup Typed)
    BY <1>2, <2>1, PathBegins
  <2>4. dir \in Seq(Mounted \cup Typed) /\ Drive \in Mounted /\ stage = "console"
    BY <1>2, <2>1 DEF DirKnown
  <2>5. Len(dir') >= 1
    BY <2>1, <2>4
  <2>6. QED BY <2>1, <2>2, <2>3, <2>4, <2>5 DEF DirKnown, Drive
<1>7. QED BY <1>1, <1>3, <1>4, <1>5, <1>6 DEF Next

(* The file that is open, where it and the drives are left alone.          *)
LEMMA StandardSame ==
    ASSUME UNCHANGED <<machine, disk, minfo, dir>>
    PROVE  Standard(Drive)' = Standard(Drive) /\ Sectors(Drive)' = Sectors(Drive)
<1>1. Drive' = Drive /\ minfo' = minfo
  BY DEF Drive
<1>2. Sectors(Drive)' = Sectors(Drive)
  BY <1>1 DEF Sectors
<1>3. QED BY <1>1, <1>2 DEF Standard

(* Steps that change no file and no disk keep what is known of the file.   *)
LEMMA FileStep ==
    ASSUME FileKnown, UNCHANGED <<machine, disk, minfo, dir, f, out>>
    PROVE  FileKnown'
<1>1. Standard(Drive)' = Standard(Drive) /\ Sectors(Drive)' = Sectors(Drive)
  BY StandardSame
<1>2. f' = f /\ out' = out /\ dir' = dir
  OBVIOUS
<1>3. QED BY <1>1, <1>2, Zenon DEF FileKnown

(* Opening a file.                                                         *)
LEMMA OpenReadKnown ==
    ASSUME FilesInv, NEW n \in Typed, OpenRead(n)
    PROVE  FileKnown'
<1>1. /\ dir # <<>> /\ UNCHANGED <<machine, disk, minfo, dir>> /\ out' = <<>>
  BY DEF OpenRead, InDrive, boot
<1>2. PICK r \in SearchResults(Append(dir, n)) :
        /\ r.type = "FILE"
        /\ f' = [type |-> "FILE", cluster |-> r.cluster, start |-> r.cluster, eof |-> FALSE]
  BY DEF OpenRead
<1>3. f'.cluster = r.cluster /\ f'.start = r.cluster /\ f'.eof = FALSE /\ FileRecord(f)'
  BY <1>2 DEF FileRecord
<1>4. ASSUME Standard(Drive), r.cluster >= 2
      PROVE  r.cluster \in DataClusters /\ ReadTo(f', out', Sectors(Drive), 1)
  <2>1. DriveKnown(Drive) /\ Append(dir, n)[1] = Drive
    BY <1>1, PathBegins DEF FilesInv, DirKnown, DrivesKnown
  <2>2. minfo[Drive].root_offset \in Nat
    BY <1>4, <2>1, StandardMounted
  <2>3. minfo[Append(dir, n)[1]].root_offset \in Nat
    BY <2>1, <2>2
  <2>4. r.cluster \in Clusters
    BY <1>2, <2>3, ResultCluster
  <2>5. PICK c \in DataClusters : c = r.cluster
    BY <1>4, <2>4 DEF Clusters, DataClusters
  <2>6. Len(Chain(c)) \in Nat \ {0} /\ Chain(c)[1] = c
    BY <2>5, ChainIs DEF Follows
  <2>7. out' = [j \in 1 .. 0 |-> Held(Sectors(Drive), c)[j]]
    BY <1>1
  <2>8. QED BY <1>3, <2>5, <2>6, <2>7 DEF ReadTo
<1>5. Standard(Drive)' = Standard(Drive) /\ Sectors(Drive)' = Sectors(Drive)
  BY <1>1, StandardSame
<1>6. ASSUME Standard(Drive)', f'.start >= 2
      PROVE  f'.start \in DataClusters /\ \E k \in Nat : ReadTo(f', out', Sectors(Drive)', k)
  BY <1>3, <1>4, <1>5, <1>6
<1>7. dir' # <<>>
  BY <1>1
<1>8. QED BY <1>3, <1>6, <1>7 DEF FileKnown

(* Reading on keeps the file a file with the same first cluster.           *)
LEMMA RecordKept ==
    ASSUME NEW g, FileRecord(g), NEW type, NEW next
    PROVE  FileRecord(ReadOn(g, type, next)) /\ ReadOn(g, type, next).start = g.start
<1>1. /\ g.eof \in BOOLEAN
      /\ g = [type |-> "FILE", cluster |-> g.cluster, start |-> g.start, eof |-> g.eof]
  BY DEF FileRecord
<1>2. PICK c : c = g.cluster
  OBVIOUS
<1>3. PICK s : s = g.start
  OBVIOUS
<1>4. PICK e \in BOOLEAN : e = g.eof
  BY <1>1
<1>5. g = [type |-> "FILE", cluster |-> c, start |-> s, eof |-> e]
  BY <1>1, <1>2, <1>3, <1>4
<1>6. CASE IsEof(type, next)
  <2>1. ReadOn(g, type, next) = [type |-> "FILE", cluster |-> c, start |-> s, eof |-> TRUE]
    BY <1>5, <1>6 DEF ReadOn
  <2>2. QED BY <1>3, <2>1 DEF FileRecord
<1>7. CASE ~IsEof(type, next)
  <2>1. ReadOn(g, type, next) = [type |-> "FILE", cluster |-> next, start |-> s, eof |-> e]
    BY <1>5, <1>7 DEF ReadOn
  <2>2. QED BY <1>3, <2>1 DEF FileRecord
<1>8. QED BY <1>6, <1>7

(* Reading a sector.                                                       *)
LEMMA ReadKnown ==
    ASSUME FilesInv, fat_read
    PROVE  FileKnown'
<1>1. /\ f # FS_NULL /\ ~f.eof /\ UNCHANGED <<machine, disk, minfo, dir>>
      /\ out' = IF Remembered THEN Append(out, Content) ELSE out
      /\ IF minfo[Drive].type = "EXFAT" THEN UNCHANGED f
         ELSE \E next \in Nexts(minfo[Drive], Sectors(Drive), f.cluster) :
                 f' = Advanced(minfo[Drive].type, next)
  BY DEF fat_read, boot
<1>2. /\ dir # <<>> /\ FileRecord(f)
      /\ Standard(Drive) /\ f.start >= 2 =>
            f.start \in DataClusters /\ \E k \in Nat : ReadTo(f, out, Sectors(Drive), k)
  BY <1>1 DEF FilesInv, FileKnown
<1>3. \A type, next : Advanced(type, next) = ReadOn(f, type, next)
  BY DEF Advanced, ReadOn
<1>4. FileRecord(f') /\ f'.start = f.start
  <2>1. \A type, next : FileRecord(ReadOn(f, type, next)) /\ ReadOn(f, type, next).start = f.start
    BY <1>2, RecordKept
  <2>2. f' = f \/ \E next : f' = ReadOn(f, minfo[Drive].type, next)
    BY <1>1, <1>3
  <2>3. QED BY <1>2, <2>1, <2>2
<1>5. Standard(Drive)' = Standard(Drive) /\ Sectors(Drive)' = Sectors(Drive)
  BY <1>1, StandardSame
<1>6. ASSUME Standard(Drive), f.start >= 2
      PROVE  \E k \in Nat : ReadTo(f', out', Sectors(Drive), k)
  <2>1. PICK k \in Nat : ReadTo(f, out, Sectors(Drive), k)
    BY <1>2, <1>6
  <2>2. PICK d, info : d = Sectors(Drive) /\ info = minfo[Drive]
    OBVIOUS
  <2>3. DriveKnown(Drive)
    BY <1>2 DEF FilesInv, DirKnown, DrivesKnown
  <2>4. info.type = Kind(d) /\ info.fat_offset = 1 /\ Formatted(d)
    BY <1>6, <2>2, <2>3, StandardMounted
  <2>5. info.type \in {"FAT12", "FAT16"}
    BY <2>4 DEF Kind
  <2>6. PICK next \in Nexts(info, d, f.cluster) : f' = ReadOn(f, info.type, next)
    BY <1>1, <1>3, <2>2, <2>5
  <2>7. /\ Len(out) <= LastCluster /\ get_phys_sector(f.cluster) \in DOMAIN d
        /\ \E m \in Nat : ReadTo(ReadOn(f, info.type, next),
                                 Append(out, d[get_phys_sector(f.cluster)]), d, m)
    BY <1>1, <1>2, <1>6, <2>1, <2>2, <2>4, ReadNext
  <2>8. Content = d[get_phys_sector(f.cluster)]
    BY <2>2, <2>7 DEF Content
  <2>9. Remembered
    BY <1>6, <2>2, <2>5, <2>7, FatAssumption DEF Remembered
  <2>10. out' = Append(out, d[get_phys_sector(f.cluster)])
    BY <1>1, <2>8, <2>9
  <2>11. QED BY <2>2, <2>6, <2>7, <2>10
<1>7. dir' # <<>>
  BY <1>1, <1>2
<1>8. ASSUME Standard(Drive)', f'.start >= 2
      PROVE  f'.start \in DataClusters /\ \E k \in Nat : ReadTo(f', out', Sectors(Drive)', k)
  BY <1>2, <1>4, <1>5, <1>6, <1>8
<1>9. FileRecord(f)'
  BY <1>4 DEF FileRecord
<1>10. QED BY <1>7, <1>8, <1>9 DEF FileKnown

(* Every step keeps what is known of the open file.                        *)
LEMMA FileNext == FilesInv /\ [Next]_vars => FileKnown'
<1>1. SUFFICES ASSUME FilesInv, [Next]_vars PROVE FileKnown'
  OBVIOUS
<1>2. stage # "console" => f = FS_NULL
  BY <1>1 DEF FilesInv, FileKnown, DirKnown
<1>3. CASE \/ floppy_init \/ ata_init \/ ata_initHangs
           \/ CdBack \/ \E drive \in Mounted : CdDrive(drive)
           \/ \E n \in Typed : \/ Cd(n) \/ Touch(n) \/ TouchExists(n) \/ TouchNoDev(n)
                               \/ Delete(n) \/ SearchHangs(n) \/ \E v \in Texts : Write(n, v)
  <2>1. f' = f /\ f = FS_NULL
    BY <1>2, <1>3 DEF floppy_init, ata_init, ata_initHangs, CdBack, CdDrive, Cd, Touch,
       TouchExists, TouchNoDev, Delete, SearchHangs, Write, InDrive, Ready, vars
  <2>2. QED BY <2>1 DEF FileKnown
<1>4. ASSUME NEW n \in Typed, OpenRead(n) PROVE FileKnown'
  BY <1>1, <1>4, OpenReadKnown
<1>5. CASE fat_read
  BY <1>1, <1>5, ReadKnown
<1>6. CASE Close
  BY <1>6 DEF Close, FileKnown
<1>7. CASE UNCHANGED vars
  BY <1>1, <1>7, FileStep DEF vars, FilesInv
<1>8. QED BY <1>1, <1>3, <1>4, <1>5, <1>6, <1>7 DEF Next

(* FilesInv is inductive.                                                  *)
LEMMA FilesNext == FilesInv /\ [Next]_vars => FilesInv'
  BY FatNext, DirNext, DrivesNext, FileNext DEF FilesInv

Firsts(n, t) == [j \in 1 .. n |-> t[j]]

(* The first ones of a sequence are a beginning of it.                     *)
LEMMA FirstOnes ==
    ASSUME NEW L \in Nat, NEW t, t = Firsts(L, t), NEW n \in 0 .. L, NEW o, o = Firsts(n, t)
    PROVE  IsPrefix(o, t) /\ (n = L => o = t)
<1>1. Len(o) = n /\ Len(t) = L
  BY DEF Firsts
<1>2. n = L => o = t
  OBVIOUS
<1>3. SubSeq(o, 1, n) = Firsts(n, t) /\ SubSeq(t, 1, n) = Firsts(n, t)
  BY DEF Firsts
<1>4. QED BY <1>1, <1>2, <1>3 DEF IsPrefix

(* A file is read as its clusters' sectors, in the order of the FAT, none  *)
(* left out or read twice, and to its end.                                 *)
THEOREM FilesAreRead == Spec => []ReadsContents
<1>1. FilesInv => ReadsContents
  <2>1. SUFFICES ASSUME FilesInv, InFile
                 PROVE  /\ IsPrefix(out, Contents(f.start))
                        /\ f.eof => out = Contents(f.start)
    BY DEF ReadsContents
  <2>2. f # FS_NULL /\ f.start >= 2 /\ Standard(Drive)
    BY <2>1 DEF InFile
  <2>3. PICK k : f.start \in DataClusters /\ ReadTo(f, out, Sectors(Drive), k)
    BY <2>1, <2>2 DEF FilesInv, FileKnown
  <2>4. PICK t : t = Contents(f.start)
    OBVIOUS
  <2>5. t = Held(Sectors(Drive), f.start)
    BY <2>4, Zenon DEF Held, Contents
  <2>6. PICK L \in Nat \ {0} : L = Len(Chain(f.start))
    BY <2>3, ChainIs DEF Follows
  <2>7. t = [j \in 1 .. L |-> t[j]]
    BY <2>5, <2>6 DEF Held
  <2>8. PICK n : n = IF f.eof THEN k ELSE k - 1
    OBVIOUS
  <2>9. n \in 0 .. L /\ (f.eof => n = L) /\ out = [j \in 1 .. n |-> t[j]]
    BY <2>3, <2>5, <2>6, <2>8 DEF ReadTo
  <2>10. L \in Nat /\ n \in 0 .. L
    BY <2>6, <2>9
  <2>11. t = Firsts(L, t) /\ out = Firsts(n, t)
    BY <2>7, <2>9 DEF Firsts
  <2>12. IsPrefix(out, t) /\ (n = L => out = t)
    BY <2>10, <2>11, FirstOnes
  <2>13. QED BY <2>4, <2>9, <2>12
<1>2. QED BY <1>1, FilesInit, FilesNext, PTL DEF Spec
=============================================================================
