------------------------------- MODULE Drives -------------------------------
(***************************************************************************)
(* What mounting learns of a drive (fat_mount in fs/fat.c), and what the   *)
(* ATA driver (drivers/ata/ata.c) makes of the hard disks.                 *)
(***************************************************************************)
EXTENDS Integers, Sequences

CONSTANTS
    EntryLen,   \* 32, the bytes of a directory entry
    Limit12, Limit16, Limit32,  \* 4085, 65525 and 268435445 clusters
    WordMod,    \* 2^32: the counts are unsigned
    HardDisks   \* the names of the hard disks, "hda" and on

(* What is used of bootsector_t.                                           *)
BootRecord == [sector_bytes : Nat \ {0}, cluster_sectors : Nat \ {0}, reserved_sectors : Nat,
               n_fats : Nat, n_dir_entries : Nat, n_sectors : Nat, fat_sectors : Nat,
               ext_fat_sectors : Nat]

(* minfo of a device that was not mounted: static, so all zero.            *)
ZeroInfo == [type |-> "FAT12", fat_offset |-> 0, root_offset |-> 0, first_data_sector |-> 0]

(* The mutant takes the largest FAT12 for a FAT16.                         *)
FatTypeEarly(clusters) ==
    IF clusters < Limit12 - 1 THEN "FAT12" ELSE IF clusters < Limit16 THEN "FAT16"
    ELSE IF clusters < Limit32 THEN "FAT32" ELSE "EXFAT"
FatType(clusters) ==
    IF clusters < Limit12 THEN "FAT12" ELSE IF clusters < Limit16 THEN "FAT16"
    ELSE IF clusters < Limit32 THEN "FAT32" ELSE "EXFAT"

(* fat_mount: what is there at sector 0.  A disk without the jump that     *)
(* boot sectors begin with is left alone; whatever the partition table     *)
(* says is ignored.  The number of clusters is computed from the 16-bit    *)
(* number of sectors even where that is 0 because there are more.          *)
IsBoot(sector) == "boot" \in DOMAIN sector
fat_mount(sector) ==
    LET b == sector.boot
        fat_size == IF b.fat_sectors = 0 THEN b.ext_fat_sectors ELSE b.fat_sectors
        fats == b.n_fats * fat_size
        root_size == (b.n_dir_entries * EntryLen + b.sector_bytes - 1) \div b.sector_bytes
        data_sectors == (b.n_sectors - (b.reserved_sectors + fats + root_size)) % WordMod
    IN IF ~IsBoot(sector) THEN ZeroInfo
       ELSE [type |-> FatType(data_sectors \div b.cluster_sectors),
             fat_offset |-> b.reserved_sectors,
             root_offset |-> fats + 1,
             first_data_sector |-> b.reserved_sectors + fats + root_size]

-----------------------------------------------------------------------------
(* What the hard disks answer to IDENTIFY: nothing, as something else than *)
(* a disk, never with data, or with data.                                  *)
Answers == [HardDisks -> {"nothing", "other", "noData", "data"}]
identify(answer) == [hangs |-> answer = "noData", present |-> answer = "data"]
Present(answers) == {h \in HardDisks : identify(answers[h]).present}
IdentifyHangs(answers) == \E h \in HardDisks : identify(answers[h]).hangs

(* ata_read_sector reads the disk selected at boot, the primary master,    *)
(* whichever it is asked for.  It looks for the bit "data request" in the  *)
(* data port instead of the status port: on a controller where that takes  *)
(* words of the sector, it waits for one that has the bit, for ever if     *)
(* there is none, and returns what follows.  Nothing is there to be read   *)
(* if there is no primary master.                                          *)
Garbage == [text |-> "garbage"]
ata_read_sector(answers, port, sector) ==
    IF answers["hda"] = "data" /\ port = "steady" THEN sector ELSE Garbage
ReadMayHang(answers, port) == answers["hda"] = "data" /\ port = "takes"
=============================================================================
