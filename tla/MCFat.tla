-------------------------------- MODULE MCFat -------------------------------
(***************************************************************************)
(* Fat on drives of two root sectors and clusters 2 to 5: a file of three  *)
(* clusters, a file of one, and a directory that holds a file with the     *)
(* name of one in the root.  Sectors have five bytes, so that entries of   *)
(* the FAT lie across sectors.  Four clusters are the most that a FAT12    *)
(* has.                                                                    *)
(***************************************************************************)
EXTENDS Fat

(* A short name, one of eight letters, and both with a text.               *)
MCTyped == {"b", "b w", "long", "long w"}
MCDos == [n \in MCTyped |-> CASE n = "b" -> "B" [] n = "b w" -> "B W" [] OTHER -> "LONG"]
MCLines == {<<"b w", "w">>, <<"long w", "w">>}

(* The FAT: media byte, a chain 2 -> 5 -> 3, and cluster 4.                *)
MCLinks == [c \in 0 .. 5 |->
    CASE c = 0 -> 4080 [] c = 1 -> 4095 [] c = 2 -> 5 [] c = 5 -> 3 [] OTHER -> 4095]

File(name, c) == [name |-> name, dir |-> FALSE, cluster |-> c, size |-> 1]
SubDir(name, c) == [name |-> name, dir |-> TRUE, cluster |-> c, size |-> 0]
Dir(e1, e2) == [ents |-> <<e1, e2>>]
Data(v) == [val |-> v]

Boot(sectors, per_cluster) == [boot |-> [
    sector_bytes |-> 5, cluster_sectors |-> per_cluster, reserved_sectors |-> 1, n_fats |-> 1,
    n_dir_entries |-> 4, n_sectors |-> sectors, fat_sectors |-> 3, ext_fat_sectors |-> 0]]

(* Sectors 1 to 3 are the FAT, 4 and 5 the root, 6 to 9 clusters 2 to 5.   *)
Drive16(boot0, Byte(_), r1, r2, c4) == [s \in 0 .. 10 |->
    CASE s = 0 -> boot0
      [] s \in 1 .. 3 -> [bytes |-> [i \in 0 .. 4 |-> Byte(5 * (s - 1) + i)]]
      [] s = 4 -> r1 [] s = 5 -> r2 [] s = 8 -> c4
      [] s = 6 -> Data("d2") [] s = 7 -> Data("d3") [] s \in {9, 10} -> Data("d5")]
Floppy12(r1, r2, c4) == Drive16(Boot(10, 1), PackedByte, r1, r2, c4)

(* A full root; a directory with a namesake; a file of three clusters and  *)
(* one of one; no file system.                                             *)
Full == Floppy12(Dir(JunkEntry, File("B", 2)), Dir(JunkEntry, JunkEntry), Data("d4"))
Tree == Floppy12(Dir(Empty, SubDir("B", 4)), Dir(File("LONG", 2), Empty),
                 Dir(File("LONG", 3), File("B", 3)))
Files == Floppy12(Dir(File("B", 4), File("LONG", 2)), Dir(Empty, Empty), Data("d4"))
Other == [s \in 0 .. 10 |-> Data("d2")]

(* Hard disks: the fewest clusters of a FAT16; more sectors than 16 bits   *)
(* count, with one sector to a cluster and with two.                       *)
Hard(sectors, per_cluster) ==
    Drive16(Boot(sectors, per_cluster), WideByte, Dir(SubDir("B", 4), File("LONG", 2)),
            Dir(Empty, Empty), Dir(File("LONG", 3), Empty))

Machine(fda, hda, a, b, port) ==
    [fda |-> fda, hda |-> hda, answers |-> [h \in {"hda", "hdb"} |-> IF h = "hda" THEN a ELSE b],
     port |-> port]
MCMachines == {
    Machine(Full, Other, "nothing", "nothing", "steady"),
    Machine(Tree, Other, "nothing", "other", "steady"),
    Machine(Files, Other, "noData", "nothing", "steady"),
    Machine(Files, Other, "nothing", "data", "steady"),
    Machine(Tree, Hard(11, 1), "data", "nothing", "steady"),
    Machine(Other, Hard(0, 1), "data", "data", "steady"),
    Machine(Other, Hard(0, 2), "data", "other", "steady"),
    Machine(Full, Hard(11, 1), "data", "nothing", "takes")}
=============================================================================
