---------------------------- MODULE FloppyProofs ----------------------------
(* Proofs about Floppy: driver and controller stay in step through every   *)
(* failure and retry, and transfers concern the sectors they are meant     *)
(* for, for disks of any size, any number of attempts and writes.          *)
EXTENDS Floppy, NatLemmas, FiniteSetTheorems, TLAPS

-----------------------------------------------------------------------------
(* The inductive invariant                                                 *)

RestAt == {"boot", "cal", "seek", "xfer", "idle"}
WaitAt == {"resetWait", "calWait", "seekWait", "xferWait"}
SenseAt == {"resetSense", "calSense", "seekSense", "xferSense"}
RequestAt == {"seek", "seekWait", "seekSense", "xfer", "xferWait", "xferSense"}

Commands ==
    {NoCommand} \cup [op : {"RESET"}] \cup [op : {"CALIBRATE"}, drive : Drives]
    \cup [op : {"SEEK"}, drive : Drives, track : Nat]
    \cup [op : {"READ_SECT", "WRITE_SECT"}, drive : Drives, track : Nat, head : Nat,
          sector : Nat, eot : Nat]
Chip == [phase : {"command", "exec", "result"}, cmd : Commands, res : Seq(Int),
         sense : Nat, st0 : Nat, pcn : Int]
Requests == [op : {"read", "update", "text"}, caller : {"boot", "console", "process"},
             dev : Drives, lba : LBAs]
Results == [lba : LBAs, dev : Drives, ret : {"buf", "null"}, clean : BOOLEAN]

FloppyTypes ==
    /\ present \subseteq Drives
    /\ disk \in [Drives -> [LBAs -> Int]] /\ buf \in [BufSecs -> Int]
    /\ fdc \in Chip /\ cyl \in [Drives -> Int]
    /\ irq \in BOOLEAN /\ floppy_irq_done \in Nat /\ motor \in BOOLEAN
    /\ cur_drive \in Drives /\ tries \in Nat /\ todo \in Seq(Drives)
    /\ pc \in RestAt \cup WaitAt \cup SenseAt
    /\ req \in Requests \cup {NoRequest} /\ last \in Results \cup {None}

(* What the driver waits for, and what it finds when it has come.          *)
Awaited ==
    [resetWait |-> {"RESET"}, calWait |-> {"CALIBRATE"}, seekWait |-> {"SEEK"},
     xferWait |-> {"READ_SECT", "WRITE_SECT"}]
Running == fdc.phase = "exec" /\ fdc.cmd.op \in Awaited[pc] /\ fdc.sense = 0
Ended ==
    /\ pc \in {"xferWait", "xferSense"} => fdc.phase = "result" /\ Len(fdc.res) = 7 /\ fdc.sense = 0
    /\ pc \notin {"xferWait", "xferSense"} => fdc.phase = "command" /\ fdc.res = <<>>
    /\ pc \in {"calWait", "calSense", "seekWait", "seekSense"} => fdc.sense = 1
    /\ pc \in {"resetWait", "resetSense"} => fdc.sense = 4 - tries
Silent == ~irq /\ floppy_irq_done = 0
Signalled == (irq /\ floppy_irq_done = 0) \/ (~irq /\ floppy_irq_done = 1)

(* One command is under way at a time, and its interrupt is the only one.  *)
Handshake ==
    /\ pc \in RestAt => fdc.phase = "command" /\ fdc.res = <<>> /\ fdc.sense = 0 /\ Silent
    /\ pc \in WaitAt => (Running /\ Silent) \/ (Ended /\ Signalled)
    /\ pc \in SenseAt => Ended /\ Silent
    /\ pc = "resetWait" => tries = 0
    /\ pc = "resetSense" => tries <= 4
    /\ pc = "idle" => ~motor

(* The command of a request, and the places it covers.                     *)
CommandOf(r, d) ==
    LET chs == floppy_lba_to_chs(r.lba)
    IN [op |-> IF r.op = "read" THEN "READ_SECT" ELSE "WRITE_SECT", drive |-> d,
        track |-> chs.track, head |-> chs.head, sector |-> chs.sector,
        eot |-> LastSector(r.op, chs.sector)]
Extent(lba) == CommandOf([op |-> "read", lba |-> lba], 0)
SectorAt(lba, k) == LbaOf(Extent(lba).track, Places(Extent(lba))[k])

(* A result is kept while its read returns, until the next call, and while *)
(* the sector is written back.                                             *)
Serving ==
    /\ req # NoRequest <=> pc \in RequestAt
    /\ req.caller = "boot" => todo # <<>>
    /\ Recorded => req.dev \in present
    /\ req.op = "update" => last # None /\ last.lba = req.lba /\ req.caller = "console"
    /\ pc = "xferWait" /\ Running => fdc.cmd = CommandOf(req, cur_drive)
    /\ last # None => /\ last.dev \in present
                      /\ req = NoRequest \/ req.op = "update" \/ Recorded

(* Of a read without error, the buffer has what the disk has.              *)
CleanRead ==
    last # None /\ last.clean =>
        /\ last.ret = "buf" /\ cur_drive \in present
        /\ buf[1] = IF req.op = "update" THEN New ELSE disk[cur_drive][last.lba]
        /\ \A k \in 2 .. Len(Places(Extent(last.lba))) :
              buf[k] = disk[cur_drive][SectorAt(last.lba, k)]

FloppyInv == FloppyTypes /\ Handshake /\ Serving /\ CleanRead

-----------------------------------------------------------------------------
(* Constants and commands                                                  *)

(* Disks have sectors, and what is asked for are sectors.                  *)
LEMMA Geometry ==
    /\ SPT \in Nat \ {0} /\ Tracks \in Nat \ {0} /\ 2 * SPT * Tracks \in Nat
    /\ 0 \in LBAs /\ LBAs \subseteq Nat /\ Asked \subseteq LBAs
<1>1. SPT \in Nat \ {0} /\ Tracks \in Nat \ {0}
  BY FloppyAssumption
<1>2. 2 * SPT * Tracks \in Nat /\ 2 * SPT * Tracks >= 1
  BY <1>1, SMT
<1>3. QED BY <1>1, <1>2, FloppyAssumption DEF LBAs

(* The controller with a result to read is a state of the controller.      *)
LEMMA InResult ==
    ASSUME NEW c \in Chip, NEW q \in Seq(Int)
    PROVE  /\ ResultPhase(c, q) \in Chip /\ ResultPhase(c, q).phase = "result"
           /\ ResultPhase(c, q).res = q /\ ResultPhase(c, q).sense = c.sense
  BY DEF ResultPhase, Chip

(* An answer to SENSE INTERRUPT is read whole, with an interrupt to sense  *)
(* and without.                                                            *)
LEMMA CheckInt ==
    ASSUME NEW c \in Chip, c.phase = "command"
    PROVE  LET r == floppy_check_int(c)
           IN /\ r.fdc \in Chip /\ r.fdc.phase = "command" /\ r.fdc.res = <<>>
              /\ r.fdc.sense = IF c.sense = 0 THEN 0 ELSE c.sense - 1
<1> DEFINE a == Sense(c)
           left == IF c.sense = 0 THEN 0 ELSE c.sense - 1
<1>0. c.sense \in Nat
  BY DEF Chip
<1>1. floppy_send_cmd(c, [op |-> "CHECK_INT"]) = a
  BY DEF floppy_send_cmd
<1>2. /\ a \in Chip /\ a.phase = "result"
      /\ Len(a.res) <= 2 /\ a.sense = left
  <2>1. CASE c.sense = 0
    <3>1. a = ResultPhase(c, <<InvalidCommand>>)
      BY <2>1 DEF Sense
    <3> DEFINE q == <<InvalidCommand>>
    <3>2. q \in Seq(Int) /\ Len(q) = 1
      BY DEF InvalidCommand
    <3> HIDE DEF a, q
    <3>3. a = ResultPhase(c, q)
      BY <3>1 DEF q
    <3>4. a \in Chip /\ a.phase = "result" /\ a.res = q /\ a.sense = c.sense
      BY <3>2, <3>3, InResult
    <3>5. left = 0
      BY <2>1
    <3> HIDE DEF left
    <3>6. Len(a.res) <= 2
      <4>1. a.res = q
        BY <3>4
      <4>2. Len(a.res) = Len(q)
        BY <4>1
      <4>3. QED BY <4>2, <3>2
    <3>7. a.sense = left
      BY <3>4, <3>5, <2>1
    <3>8. QED BY <3>4, <3>6, <3>7
  <2>2. CASE c.sense # 0
    <3> DEFINE q == <<c.st0, c.pcn>>
               b == ResultPhase(c, q)
    <3>1. q \in Seq(Int) /\ Len(q) = 2
      BY DEF Chip
    <3> HIDE DEF q
    <3>2. b \in Chip /\ b.phase = "result" /\ b.res = q /\ b.sense = c.sense
      BY <3>1, InResult
    <3>3. a = [b EXCEPT !.sense = b.sense - 1, !.st0 = IF c.sense = 1 THEN 0 ELSE b.st0, !.pcn = 0]
      BY <2>2 DEF Sense, q
    <3> DEFINE x == b.sense - 1
               y == IF c.sense = 1 THEN 0 ELSE b.st0
    <3>4. x \in Nat /\ y \in Nat /\ x = left
      BY <1>0, <3>2, <2>2 DEF Chip
    <3> HIDE DEF a, b, x, y, left
    <3>5. a = [b EXCEPT !.sense = x, !.st0 = y, !.pcn = 0]
      BY <3>3 DEF x, y
    <3>6. a \in Chip
      <4>1. b \in Chip
        BY <3>2
      <4>2. x \in Nat /\ y \in Nat
        BY <3>4
      <4>3. a = [phase |-> b.phase, cmd |-> b.cmd, res |-> b.res, sense |-> x, st0 |-> y, pcn |-> 0]
        BY <4>1, <3>5 DEF Chip
      <4>4. /\ b.phase \in {"command", "exec", "result"} /\ b.cmd \in Commands
            /\ b.res \in Seq(Int)
        BY <4>1 DEF Chip
      <4>5. QED BY <4>2, <4>3, <4>4 DEF Chip
    <3>7. a.phase = b.phase /\ a.res = b.res /\ a.sense = x
      BY <3>2, <3>5 DEF Chip
    <3>8. a.res = q /\ a.phase = "result"
      BY <3>2, <3>7
    <3>9. Len(a.res) = Len(q)
      BY <3>8
    <3>10. Len(a.res) <= 2
      BY <3>1, <3>9
    <3>11. QED BY <3>4, <3>6, <3>7, <3>8, <3>10
  <2>3. QED BY <2>1, <2>2
<1>3. SkipBytes(a, 2) = CommandPhase(a)
  BY <1>2 DEF SkipBytes
<1> HIDE DEF a
<1>4. CommandPhase(a) = [a EXCEPT !.phase = "command", !.cmd = NoCommand, !.res = <<>>]
  BY DEF CommandPhase
<1>5. <<>> \in Seq(Int) /\ NoCommand \in Commands
  BY DEF Commands
<1>6. /\ CommandPhase(a) \in Chip /\ CommandPhase(a).phase = "command" /\ CommandPhase(a).res = <<>>
      /\ CommandPhase(a).sense = a.sense
  BY <1>2, <1>4, <1>5 DEF Chip
<1>7. floppy_check_int(c).fdc = SkipBytes(a, 2)
  BY <1>1 DEF floppy_check_int
<1>8. QED BY <1>2, <1>3, <1>6, <1>7

(* SPECIFY has no result.                                                  *)
LEMMA DriveData ==
    ASSUME NEW c \in Chip, c.phase = "command"
    PROVE  floppy_drive_data(c) = c
  BY DEF floppy_drive_data, floppy_send_cmd

(* A command that the controller carries out.                              *)
LEMMA CommandSent ==
    ASSUME NEW c \in Chip, c.phase = "command", NEW cmd \in Commands,
           cmd.op \notin {"SPECIFY", "CHECK_INT"}
    PROVE  /\ floppy_send_cmd(c, cmd) = [c EXCEPT !.phase = "exec", !.cmd = cmd]
           /\ floppy_send_cmd(c, cmd) \in Chip /\ floppy_send_cmd(c, cmd).phase = "exec"
           /\ floppy_send_cmd(c, cmd).cmd = cmd /\ floppy_send_cmd(c, cmd).sense = c.sense
<1>1. floppy_send_cmd(c, cmd) = [c EXCEPT !.phase = "exec", !.cmd = cmd]
  BY DEF floppy_send_cmd
<1>2. QED BY <1>1 DEF Chip

(* The controller between two commands.                                    *)
LEMMA InCommand ==
    ASSUME NEW c \in Chip
    PROVE  /\ CommandPhase(c) \in Chip /\ CommandPhase(c).phase = "command"
           /\ CommandPhase(c).res = <<>> /\ CommandPhase(c).sense = c.sense
<1>1. <<>> \in Seq(Int) /\ NoCommand \in Commands
  BY DEF Commands
<1>2. QED BY <1>1 DEF CommandPhase, Chip

(* A seek that ended, a reset that ended, and one that begins.             *)
LEMMA SeekEnded ==
    ASSUME NEW c \in Chip, NEW st0 \in Nat, NEW to \in Int
    PROVE  LET a == [CommandPhase(c) EXCEPT !.sense = 1, !.st0 = st0, !.pcn = to]
           IN a \in Chip /\ a.phase = "command" /\ a.res = <<>> /\ a.sense = 1
<1> DEFINE b == CommandPhase(c)
           a == [b EXCEPT !.sense = 1, !.st0 = st0, !.pcn = to]
<1>1. b \in Chip /\ b.phase = "command" /\ b.res = <<>>
  BY InCommand
<1> HIDE DEF b
<1>2. a = [b EXCEPT !.sense = 1, !.st0 = st0, !.pcn = to]
  OBVIOUS
<1> HIDE DEF a
<1>3. a = [phase |-> b.phase, cmd |-> b.cmd, res |-> b.res, sense |-> 1, st0 |-> st0, pcn |-> to]
  BY <1>1, <1>2 DEF Chip
<1>4. /\ b.phase \in {"command", "exec", "result"} /\ b.cmd \in Commands
      /\ b.res \in Seq(Int)
  BY <1>1 DEF Chip
<1>5. a \in Chip
  BY <1>3, <1>4 DEF Chip
<1>6. a.phase = b.phase /\ a.sense = 1
  BY <1>3
<1>7. a.res = b.res
  BY <1>3
<1>8. a.phase = "command" /\ a.res = <<>>
  BY <1>1, <1>6, <1>7
<1>9. QED BY <1>5, <1>6, <1>8 DEF a, b

(* The controller after its reset, with four drives to sense.              *)
LEMMA ResetEnded ==
    ASSUME NEW c \in Chip
    PROVE  LET a == [CommandPhase(c) EXCEPT !.sense = 4, !.st0 = 192]
           IN a \in Chip /\ a.phase = "command" /\ a.res = <<>> /\ a.sense = 4
<1> DEFINE b == CommandPhase(c)
           a == [b EXCEPT !.sense = 4, !.st0 = 192]
<1>1. b \in Chip /\ b.phase = "command" /\ b.res = <<>>
  BY InCommand
<1> HIDE DEF b
<1>2. a = [b EXCEPT !.sense = 4, !.st0 = 192]
  OBVIOUS
<1> HIDE DEF a
<1>3. a = [phase |-> b.phase, cmd |-> b.cmd, res |-> b.res, sense |-> 4, st0 |-> 192, pcn |-> b.pcn]
  BY <1>1, <1>2 DEF Chip
<1>4. /\ b.phase \in {"command", "exec", "result"} /\ b.cmd \in Commands
      /\ b.res \in Seq(Int) /\ b.pcn \in Int
  BY <1>1 DEF Chip
<1>5. a \in Chip
  BY <1>3, <1>4 DEF Chip
<1>6. a.phase = b.phase /\ a.sense = 4
  BY <1>3
<1>7. a.res = b.res
  BY <1>3
<1>8. a.phase = "command" /\ a.res = <<>>
  BY <1>1, <1>6, <1>7
<1>9. QED BY <1>5, <1>6, <1>8 DEF a, b

(* The controller that was told to reset.                                  *)
LEMMA ResetBegun ==
    ASSUME NEW c \in Chip, NEW a,
           a = [CommandPhase(c) EXCEPT !.phase = "exec", !.cmd = [op |-> "RESET"], !.sense = 0]
    PROVE  a \in Chip /\ a.phase = "exec" /\ a.cmd.op = "RESET" /\ a.sense = 0
<1> DEFINE b == CommandPhase(c)
           cmd == [op |-> "RESET"]
<1>1. b \in Chip
  BY InCommand
<1>2. cmd \in Commands /\ cmd.op = "RESET"
  BY DEF Commands
<1> HIDE DEF b, cmd
<1>3. a = [b EXCEPT !.phase = "exec", !.cmd = cmd, !.sense = 0]
  BY DEF b, cmd
<1>4. a = [phase |-> "exec", cmd |-> cmd, res |-> b.res, sense |-> 0, st0 |-> b.st0, pcn |-> b.pcn]
  BY <1>1, <1>3 DEF Chip
<1>5. b.res \in Seq(Int) /\ b.pcn \in Int /\ b.st0 \in Nat
  BY <1>1 DEF Chip
<1>6. a \in Chip
  BY <1>2, <1>4, <1>5 DEF Chip
<1>7. QED BY <1>2, <1>4, <1>6

(* The seven bytes of a transfer's result are read, and nothing is sensed. *)
LEMMA ResultRead ==
    ASSUME NEW c \in Chip, c.phase = "result", Len(c.res) = 7, c.sense = 0
    PROVE  LET a == floppy_check_int(SkipBytes(c, 7)).fdc
           IN a \in Chip /\ a.phase = "command" /\ a.res = <<>> /\ a.sense = 0
<1> DEFINE b == CommandPhase(c)
<1>1. SkipBytes(c, 7) = b
  BY DEF SkipBytes
<1>2. b \in Chip /\ b.phase = "command" /\ b.sense = 0
  BY InCommand
<1> HIDE DEF b
<1>3. QED BY <1>1, <1>2, CheckInt

(* The result of a transfer.                                               *)
LEMMA ResultWritten ==
    ASSUME NEW c \in Chip
    PROVE  LET a == ResultPhase(c, [i \in 1 .. 7 |-> AbnormalEnd])
           IN a \in Chip /\ a.phase = "result" /\ Len(a.res) = 7 /\ a.sense = c.sense
<1> DEFINE q == [i \in 1 .. 7 |-> AbnormalEnd]
           a == ResultPhase(c, q)
<1>1. q \in Seq(Int) /\ Len(q) = 7
  BY DEF AbnormalEnd
<1> HIDE DEF q
<1>2. a \in Chip /\ a.phase = "result" /\ a.res = q /\ a.sense = c.sense
  BY <1>1, InResult
<1> HIDE DEF a
<1>3. a.res = q
  BY <1>2
<1>4. Len(a.res) = Len(q)
  BY <1>3
<1>5. Len(a.res) = 7
  BY <1>1, <1>4
<1>6. a \in Chip /\ a.phase = "result" /\ Len(a.res) = 7 /\ a.sense = c.sense
  BY <1>2, <1>5
<1>7. QED BY <1>6 DEF a, q

-----------------------------------------------------------------------------
(* Addresses                                                               *)

(* The track, head and sector of floppy_lba_to_chs are those of lba.       *)
LEMMA ChsOf ==
    ASSUME NEW lba \in LBAs
    PROVE  LET chs == floppy_lba_to_chs(lba)
           IN /\ chs.track \in Nat /\ chs.head \in {0, 1} /\ chs.sector \in 1 .. SPT
              /\ 2 * SPT * chs.track \in Nat
              /\ lba = 2 * SPT * chs.track + SPT * chs.head + chs.sector - 1
              /\ 2 * SPT * chs.track + 2 * SPT <= 2 * SPT * Tracks
<1> DEFINE w == SPT * 2
           t == lba \div w
           m == lba % w
           h == m \div SPT
           s == lba % SPT
<1>1. SPT \in Nat \ {0} /\ w \in Nat \ {0} /\ w = 2 * SPT /\ Tracks \in Nat \ {0}
  BY Geometry
<1>2. lba \in Nat /\ lba <= w * Tracks - 1
  BY <1>1, Geometry DEF LBAs
<1>3. floppy_lba_to_chs(lba) = [head |-> h, track |-> t, sector |-> s + 1]
  BY DEF floppy_lba_to_chs
<1> HIDE DEF w
<1>4. t \in Nat /\ m \in 0 .. w - 1 /\ lba = w * t + m /\ w * t \in Nat
  BY <1>1, <1>2, SMT
<1> HIDE DEF t, m
<1>5. h \in Int /\ SPT * h <= m /\ m < SPT * h + SPT
  BY <1>1, <1>4, SMT
<1>6. h \in {0, 1}
  <2>1. h >= 0
    <3>1. CASE h <= -1
      <4>1. SPT * h <= -SPT
        BY <1>1, <1>5, <3>1, SMT
      <4>2. QED BY <1>1, <1>4, <1>5, <4>1
    <3>2. QED BY <3>1, <1>5
  <2>2. h < 2
    <3>1. CASE h >= 2
      <4>1. SPT * h >= 2 * SPT
        BY <1>1, <1>5, <3>1, SMT
      <4>2. QED BY <1>1, <1>4, <1>5, <4>1
    <3>2. QED BY <3>1, <1>5
  <2>3. QED BY <2>1, <2>2, <1>5
<1> HIDE DEF h
<1> DEFINE q == lba \div SPT
           r == m - SPT * h
<1>7. q \in Int /\ s \in 0 .. SPT - 1 /\ lba = SPT * q + s
  BY <1>1, <1>2, SMT
<1>8. r \in 0 .. SPT - 1 /\ 2 * t + h \in Int
  BY <1>1, <1>4, <1>5, <1>6
<1>9. lba = SPT * (2 * t + h) + r
  <2>1. w * t = SPT * (2 * t)
    BY <1>1, <1>4, SMT
  <2>2. SPT * (2 * t + h) = SPT * (2 * t) + SPT * h
    BY <1>1, <1>4, <1>6, SMT
  <2>3. QED BY <2>1, <2>2, <1>1, <1>4, <1>6
<1> HIDE DEF q, s, r
<1>10. q = 2 * t + h
  BY <1>1, <1>7, <1>8, <1>9, QuotientUnique
<1>11. s = r
  BY <1>1, <1>7, <1>8, <1>9, <1>10, SMT
<1>12. lba = w * t + SPT * h + s
  BY <1>1, <1>4, <1>6, <1>11 DEF r
<1>13. w * t + w <= w * Tracks
  <2>1. t < Tracks
    <3>1. CASE t >= Tracks
      <4>1. w * Tracks <= w * t
        BY <1>1, <1>4, <3>1, TimesMonotonic
      <4>2. w * Tracks \in Nat
        BY <1>1, SMT
      <4>3. QED BY <4>1, <4>2, <1>2, <1>4
    <3>2. QED BY <3>1, <1>1, <1>4
  <2>2. w * (t + 1) <= w * Tracks
    BY <1>1, <1>4, <2>1, TimesMonotonic
  <2>3. w * (t + 1) = w * t + w
    BY <1>1, <1>4, SMT
  <2>4. QED BY <2>2, <2>3
<1> DEFINE chs == floppy_lba_to_chs(lba)
<1>14. chs.track = t /\ chs.head = h /\ chs.sector = s + 1
  BY <1>3
<1> HIDE DEF chs
<1>15. chs.track \in Nat /\ chs.head \in {0, 1} /\ chs.sector \in 1 .. SPT
  BY <1>1, <1>4, <1>6, <1>7, <1>14
<1>16. 2 * SPT * chs.track = w * t /\ SPT * chs.head = SPT * h
  BY <1>1, <1>14
<1>17. lba = 2 * SPT * chs.track + SPT * chs.head + chs.sector - 1
  BY <1>1, <1>4, <1>6, <1>7, <1>12, <1>14, <1>16
<1>18. 2 * SPT * chs.track + 2 * SPT <= 2 * SPT * Tracks
  BY <1>1, <1>13, <1>16
<1>19. 2 * SPT * chs.track \in Nat
  BY <1>4, <1>16
<1>20. QED BY <1>15, <1>17, <1>18, <1>19 DEF chs

(* The extent of a transfer begins with its sector, which it has once, and *)
(* stays on the disk and in the buffer.                                    *)
LEMMA ExtentOf ==
    ASSUME NEW lba \in LBAs
    PROVE  /\ Len(Places(Extent(lba))) \in 1 .. 2 * SPT
           /\ \A k \in 1 .. Len(Places(Extent(lba))) :
                 SectorAt(lba, k) \in LBAs /\ (SectorAt(lba, k) = lba <=> k = 1)
<1> DEFINE e == Extent(lba)
           chs == floppy_lba_to_chs(lba)
           t == chs.track
           h == chs.head
           s == chs.sector
           z == LastSector("read", s)
           X == 2 * SPT * t
<1>1. e.track = t /\ e.head = h /\ e.sector = s /\ e.eot = z
  BY DEF Extent, CommandOf
<1> HIDE DEF chs, e
<1>2. /\ h \in {0, 1} /\ s \in 1 .. SPT /\ X \in Nat
      /\ lba = X + SPT * h + s - 1 /\ X + 2 * SPT <= 2 * SPT * Tracks
  BY ChsOf DEF chs
<1>3. SPT \in Nat \ {0} /\ 2 * SPT * Tracks \in Nat
  BY Geometry
<1>4. z \in s .. SPT
  BY <1>2, <1>3 DEF LastSector
<1> HIDE DEF z, X, t, h, s
<1> DEFINE A == [i \in 1 .. z - s + 1 |-> [head |-> h, sector |-> s + i - 1]]
           B == [i \in 1 .. z - 1 + 1 |-> [head |-> 1, sector |-> 1 + i - 1]]
           C == IF h = 0 THEN B ELSE <<>>
           P == A \o C
           a == z - s + 1
<1>5. Places(e) = P
  BY <1>1 DEF Places
<1>6. a \in 1 .. SPT /\ z \in 1 .. SPT
  BY <1>2, <1>3, <1>4
<1> DEFINE R == [head : Nat, sector : Nat]
<1>7. A \in Seq(R) /\ Len(A) = a
  <2>1. \A i \in 1 .. a : s + i - 1 \in Nat
    BY <1>2, <1>3, <1>4, <1>6
  <2>2. A \in [1 .. a -> R]
    BY <2>1, <1>2
  <2>3. a \in Nat
    BY <1>6
  <2> HIDE DEF A, a, R
  <2>4. QED BY <2>2, <2>3
<1>8. B \in Seq(R) /\ Len(B) = z
  <2>1. \A i \in 1 .. z : 1 + i - 1 \in Nat
    BY <1>6
  <2>2. z - 1 + 1 = z
    BY <1>6
  <2>3. B \in [1 .. z -> R]
    BY <2>1, <2>2
  <2>4. QED BY <2>3, <1>6
<1>9. \A i \in 1 .. a : A[i].head = h /\ A[i].sector = s + i - 1
  OBVIOUS
<1>10. \A i \in 1 .. z : B[i].head = 1 /\ B[i].sector = i
  BY <1>6
<1> DEFINE n == a + (IF h = 0 THEN z ELSE 0)
<1> HIDE DEF A, B, R
<1>11. C \in Seq(R) /\ Len(C) = (IF h = 0 THEN z ELSE 0)
  BY <1>8
<1>12. Len(P) = n
  BY <1>7, <1>11
<1>13. n \in 1 .. 2 * SPT
  BY <1>3, <1>6
<1> DEFINE L(k) == X + SPT * P[k].head + P[k].sector - 1
<1>14. \A k \in 1 .. Len(P) : SectorAt(lba, k) = L(k)
  BY <1>1, <1>5 DEF SectorAt, LbaOf, e, X
<1>15. ASSUME NEW k \in 1 .. n
       PROVE  L(k) \in LBAs /\ (L(k) = lba <=> k = 1)
  <2>1. a \in Int /\ k \in Int /\ s \in Int /\ z \in Int /\ 1 <= k
    BY <1>2, <1>3, <1>6, <1>13
  <2>2. CASE k <= a
    <3>1. P[k] = A[k]
      BY <2>1, <2>2, <1>7, <1>11
    <3>2. A[k].head = h /\ A[k].sector = s + k - 1
      BY <1>9, <2>1, <2>2
    <3> HIDE DEF P
    <3> DEFINE x == P[k].head
               y == P[k].sector
    <3>3. x = h /\ y = s + k - 1
      BY <3>1, <3>2
    <3>4. L(k) = X + SPT * x + y - 1
      OBVIOUS
    <3>5. s + k - 1 <= SPT
      BY <2>1, <2>2, <1>4, <1>3
    <3> HIDE DEF L, n, a, x, y
    <3>6. SPT * x = SPT * h /\ SPT * h \in {0, SPT}
      BY <3>3, <1>2, <1>3
    <3>7. L(k) = X + SPT * h + s + k - 2
      BY <3>3, <3>4, <3>6, <1>2, <1>3, <2>1
    <3>8. QED BY <2>1, <3>5, <3>6, <3>7, <1>2, <1>3 DEF LBAs
  <2>3. CASE k > a
    <3>1. h = 0 /\ k - a \in 1 .. z
      BY <2>1, <2>3, <1>2
    <3>2. P[k] = C[k - a] /\ C = B
      BY <2>1, <2>3, <1>7, <1>11, <3>1
    <3>3. B[k - a].head = 1 /\ B[k - a].sector = k - a
      BY <1>10, <3>1
    <3> HIDE DEF P, C
    <3> DEFINE x == P[k].head
               y == P[k].sector
    <3>4. x = 1 /\ y = k - a
      BY <3>2, <3>3
    <3>5. L(k) = X + SPT * x + y - 1
      OBVIOUS
    <3> HIDE DEF L, n, a, x, y
    <3>6. k - a <= SPT /\ k - a >= 1 /\ a >= 1
      BY <3>1, <1>3, <1>6, <2>1
    <3>7. L(k) = X + SPT + k - a - 1
      BY <3>4, <3>5, <1>2, <1>3, <2>1
    <3>8. lba = X + s - 1
      BY <3>1, <1>2, <1>3
    <3>9. s <= SPT /\ X + 2 * SPT <= 2 * SPT * Tracks /\ X \in Nat
      BY <1>2, <1>3
    <3>10. L(k) # lba /\ k # 1
      BY <2>1, <3>6, <3>7, <3>8, <3>9, <1>3
    <3>11. L(k) \in LBAs
      BY <2>1, <3>6, <3>7, <3>9, <1>3 DEF LBAs
    <3>12. QED BY <3>10, <3>11
  <2> HIDE DEF L, P, C, n, a
  <2>4. QED BY <2>1, <2>2, <2>3
<1> HIDE DEF L, P, n
<1>16. QED BY <1>5, <1>12, <1>13, <1>14, <1>15 DEF e

(* The command of a request covers the extent of its sector.               *)
LEMMA CommandCovers ==
    ASSUME NEW r \in Requests, NEW d \in Drives
    PROVE  LET cmd == CommandOf(r, d)
           IN /\ cmd \in Commands /\ cmd.drive = d
              /\ cmd.op = IF r.op = "read" THEN "READ_SECT" ELSE "WRITE_SECT"
              /\ Places(cmd) = Places(Extent(r.lba)) /\ cmd.track = Extent(r.lba).track
<1> DEFINE chs == floppy_lba_to_chs(r.lba)
           z == LastSector(r.op, chs.sector)
           o == IF r.op = "read" THEN "READ_SECT" ELSE "WRITE_SECT"
           cmd == CommandOf(r, d)
           e == Extent(r.lba)
<1>1. r.lba \in LBAs
  BY DEF Requests
<1>2. cmd = [op |-> o, drive |-> d, track |-> chs.track, head |-> chs.head,
             sector |-> chs.sector, eot |-> z]
  BY DEF CommandOf
<1>3. chs.track \in Nat /\ chs.head \in {0, 1} /\ chs.sector \in 1 .. SPT /\ SPT \in Nat
  BY <1>1, ChsOf, Geometry
<1>4. e.track = chs.track /\ e.head = chs.head /\ e.sector = chs.sector /\ e.eot = z
  BY DEF Extent, CommandOf, LastSector
<1> HIDE DEF chs
<1>5. z \in Nat /\ chs.head \in Nat /\ chs.sector \in Nat
  BY <1>3 DEF LastSector
<1>6. o \in {"READ_SECT", "WRITE_SECT"}
  OBVIOUS
<1> HIDE DEF z, o, cmd, e
<1>7. /\ cmd.drive = d /\ cmd.op = o /\ cmd.track = e.track /\ cmd.head = e.head
      /\ cmd.sector = e.sector /\ cmd.eot = e.eot
  BY <1>2, <1>4
<1>8. Places(cmd) = Places(e)
  BY <1>7 DEF Places
<1>9. cmd \in Commands
  BY <1>2, <1>3, <1>5, <1>6 DEF Commands
<1>10. QED BY <1>7, <1>8, <1>9 DEF cmd, e, o

-----------------------------------------------------------------------------
(* The controller and the interrupt                                        *)

(* What a command to move the head consists of.                            *)
LEMMA CommandFields ==
    ASSUME NEW cmd \in Commands
    PROVE  /\ cmd.op \in {"SEEK", "CALIBRATE"} => cmd.drive \in Drives
           /\ cmd.op = "SEEK" => cmd.track \in Nat
  BY DEF Commands, NoCommand

(* A command runs only while the driver waits for it.                      *)
LEMMA ExecAt ==
    ASSUME FloppyTypes, Handshake, fdc.phase = "exec"
    PROVE  /\ Running /\ Silent
           /\ fdc.cmd.op = "RESET" => pc = "resetWait"
           /\ fdc.cmd.op \in {"SEEK", "CALIBRATE"} => pc \in {"calWait", "seekWait"}
           /\ fdc.cmd.op \in {"READ_SECT", "WRITE_SECT"} => pc = "xferWait"
<1>1. pc \in RestAt \cup WaitAt \cup SenseAt
  BY DEF FloppyTypes
<1>2. pc \notin RestAt
  BY DEF Handshake
<1>3. ~Ended
  BY <1>1 DEF Ended, RestAt, WaitAt, SenseAt
<1>4. pc \in WaitAt /\ Running /\ Silent
  BY <1>1, <1>2, <1>3 DEF Handshake
<1>5. /\ pc = "resetWait" => Awaited[pc] = {"RESET"}
      /\ pc = "calWait" => Awaited[pc] = {"CALIBRATE"}
      /\ pc = "seekWait" => Awaited[pc] = {"SEEK"}
      /\ pc = "xferWait" => Awaited[pc] = {"READ_SECT", "WRITE_SECT"}
  BY DEF Awaited
<1>6. fdc.cmd.op \in Awaited[pc]
  BY <1>4 DEF Running
<1>7. QED BY <1>4, <1>5, <1>6 DEF WaitAt

(* The driver in a state of rest, waiting and sensing.                     *)
LEMMA Rests ==
    ASSUME pc' \in RestAt, fdc'.phase = "command", fdc'.res = <<>>, fdc'.sense = 0, Silent',
           pc' = "idle" => ~motor'
    PROVE  Handshake'
  BY DEF Handshake, RestAt, WaitAt, SenseAt

(* Handshake where the driver waits for the interrupt of its command.      *)
LEMMA Waits ==
    ASSUME pc' \in WaitAt, (Running /\ Silent)' \/ (Ended /\ Signalled)',
           pc' = "resetWait" => tries' = 0
    PROVE  Handshake'
  BY DEF Handshake, RestAt, WaitAt, SenseAt

(* Handshake where the interrupt was counted and the driver senses it.     *)
LEMMA Senses ==
    ASSUME pc' \in SenseAt, Ended', Silent', pc' = "resetSense" => tries' <= 4
    PROVE  Handshake'
  BY DEF Handshake, RestAt, WaitAt, SenseAt

(* Handshake is kept by what the controller does.                          *)
LEMMA ControllerHandshake ==
    ASSUME FloppyTypes, Handshake, ControllerStep
    PROVE  fdc' \in Chip /\ Handshake'
<1>1. fdc \in Chip /\ fdc.cmd \in Commands /\ cyl \in [Drives -> Int]
  BY DEF FloppyTypes, Chip
<1>2. CASE SeekDone
  <2> DEFINE d == fdc.cmd.drive
             to == IF fdc.cmd.op = "SEEK" THEN fdc.cmd.track ELSE 0
  <2>1. fdc.cmd.op \in {"SEEK", "CALIBRATE"} /\ fdc.phase = "exec" /\ pc' = pc /\ irq'
        /\ floppy_irq_done' = floppy_irq_done /\ tries' = tries
    BY <1>2 DEF SeekDone, SeekTo
  <2>2. d \in Drives /\ to \in Int /\ cyl[d] \in Int
    BY <1>1, <2>1, CommandFields
  <2>3. \/ fdc' = [CommandPhase(fdc) EXCEPT !.sense = 1, !.st0 = SeekEnd, !.pcn = to]
        \/ fdc' = [CommandPhase(fdc) EXCEPT !.sense = 1, !.st0 = SeekEnd + AbnormalEnd, !.pcn = cyl[d]]
    BY <1>2, Zenon DEF SeekDone, SeekTo
  <2> HIDE DEF d, to
  <2>4. fdc' \in Chip /\ fdc'.phase = "command" /\ fdc'.res = <<>> /\ fdc'.sense = 1
    <3>1. SeekEnd \in Nat /\ SeekEnd + AbnormalEnd \in Nat
      BY DEF SeekEnd, AbnormalEnd
    <3>2. PICK st0 \in Nat, at \in Int :
            fdc' = [CommandPhase(fdc) EXCEPT !.sense = 1, !.st0 = st0, !.pcn = at]
      BY <2>2, <2>3, <3>1, Zenon
    <3>3. QED BY <1>1, <3>2, SeekEnded, Zenon
  <2>5. pc \in {"calWait", "seekWait"} /\ Silent
    BY <2>1, ExecAt
  <2>6. (Ended /\ Signalled)'
    BY <2>1, <2>4, <2>5 DEF Ended, Signalled, Silent
  <2>7. QED BY <2>1, <2>4, <2>5, <2>6, Waits DEF WaitAt
<1>3. CASE TransferDone
  <2>1. fdc.cmd.op \in {"READ_SECT", "WRITE_SECT"} /\ fdc.phase = "exec" /\ pc' = pc /\ irq'
        /\ floppy_irq_done' = floppy_irq_done /\ tries' = tries
        /\ fdc' = ResultPhase(fdc, [i \in 1 .. 7 |-> AbnormalEnd])
    BY <1>3 DEF TransferDone
  <2>2. pc = "xferWait" /\ Silent /\ fdc.sense = 0
    BY <2>1, ExecAt DEF Running
  <2>3. fdc' \in Chip /\ fdc'.phase = "result" /\ Len(fdc'.res) = 7 /\ fdc'.sense = 0
    BY <1>1, <2>1, <2>2, ResultWritten
  <2>4. (Ended /\ Signalled)'
    BY <2>1, <2>2, <2>3 DEF Ended, Signalled, Silent
  <2>5. QED BY <2>1, <2>2, <2>3, <2>4, Waits DEF WaitAt
<1>4. CASE ResetDone
  <2>1. fdc.cmd.op = "RESET" /\ fdc.phase = "exec" /\ pc' = pc /\ irq'
        /\ floppy_irq_done' = floppy_irq_done /\ tries' = tries
        /\ fdc' = [CommandPhase(fdc) EXCEPT !.sense = 4, !.st0 = 192]
    BY <1>4 DEF ResetDone
  <2>2. pc = "resetWait" /\ Silent /\ tries = 0
    BY <2>1, ExecAt DEF Handshake
  <2>3. fdc' \in Chip /\ fdc'.phase = "command" /\ fdc'.res = <<>> /\ fdc'.sense = 4
    BY <1>1, <2>1, ResetEnded
  <2>4. (Ended /\ Signalled)'
    BY <2>1, <2>2, <2>3 DEF Ended, Signalled, Silent
  <2>5. QED BY <2>1, <2>2, <2>3, <2>4, Waits DEF WaitAt
<1>5. QED BY <1>2, <1>3, <1>4 DEF ControllerStep

(* The interrupt is taken, and the driver goes on.                         *)
LEMMA InterruptHandshake ==
    ASSUME FloppyTypes, Handshake, floppy_int \/ WaitIrq
    PROVE  fdc' \in Chip /\ Handshake'
<1>1. fdc \in Chip /\ fdc' = fdc /\ tries' = tries /\ pc \in RestAt \cup WaitAt \cup SenseAt
  BY DEF FloppyTypes, floppy_int, WaitIrq, floppy_wait_irq, hardware
<1>2. CASE floppy_int
  <2>1. irq /\ ~irq' /\ pc' = pc /\ floppy_irq_done' = (floppy_irq_done + 1) % 256
    BY <1>2 DEF floppy_int
  <2>2. pc \in WaitAt /\ Ended /\ floppy_irq_done = 0
    BY <1>1, <2>1 DEF Handshake, Silent, Signalled
  <2>3. floppy_irq_done' = 1
    BY <2>1, <2>2
  <2>4. (Ended /\ Signalled)'
    BY <1>1, <2>1, <2>2, <2>3 DEF Ended, Signalled
  <2>5. QED BY <1>1, <2>1, <2>2, <2>4, Waits DEF Handshake
<1>3. CASE WaitIrq
  <2>1. /\ pc \in WaitAt /\ pc' \in SenseAt /\ floppy_irq_done # 0 /\ floppy_irq_done' = 0 /\ irq' = irq
        /\ pc' = "resetSense" <=> pc = "resetWait"
        /\ pc' = "xferSense" <=> pc = "xferWait"
    BY <1>3 DEF WaitIrq, floppy_wait_irq, hardware, WaitAt, SenseAt, Cleared
  <2>2. Ended /\ ~irq
    BY <2>1 DEF Handshake, Silent, Signalled
  <2>3. Ended' /\ Silent'
    BY <1>1, <2>1, <2>2 DEF Ended, Silent, WaitAt, SenseAt
  <2>4. pc' = "resetSense" => tries' <= 4
    BY <1>1, <2>1 DEF Handshake
  <2>5. QED BY <1>1, <2>1, <2>3, <2>4, Senses
<1>4. QED BY <1>2, <1>3

(* A command that the driver sends at rest runs until its interrupt.       *)
LEMMA Sends ==
    ASSUME FloppyTypes, Handshake, pc \in RestAt, NEW cmd \in Commands,
           cmd.op \in {"CALIBRATE", "SEEK", "READ_SECT", "WRITE_SECT"},
           fdc' = floppy_send_cmd(fdc, cmd), UNCHANGED <<irq, floppy_irq_done>>,
           pc' \in {"calWait", "seekWait", "xferWait"}, cmd.op \in Awaited[pc']
    PROVE  fdc' \in Chip /\ fdc'.cmd = cmd /\ Handshake'
<1>1. fdc \in Chip /\ fdc.phase = "command" /\ fdc.sense = 0 /\ Silent
  BY DEF FloppyTypes, Handshake
<1>3. fdc' \in Chip /\ fdc'.phase = "exec" /\ fdc'.cmd = cmd /\ fdc'.sense = 0
  <2>1. cmd.op \notin {"SPECIFY", "CHECK_INT"} /\ fdc.phase = "command"
    BY <1>1
  <2> DEFINE s == floppy_send_cmd(fdc, cmd)
  <2>2. s \in Chip /\ s.phase = "exec" /\ s.cmd = cmd /\ s.sense = fdc.sense
    BY <1>1, <2>1, CommandSent, Zenon
  <2>3. fdc' = s
    OBVIOUS
  <2> HIDE DEF s
  <2>4. QED BY <1>1, <2>2, <2>3
<1>4. Running' /\ Silent'
  BY <1>1, <1>3 DEF Running, Silent
<1>5. QED BY <1>3, <1>4, Waits DEF WaitAt

(* Handshake is kept by the driver when it sends a command.                *)
LEMMA SendingHandshake ==
    ASSUME FloppyTypes, Handshake, Serving, Calibrate \/ Seek \/ Transfer
    PROVE  /\ fdc' \in Chip /\ Handshake'
           /\ Transfer => fdc'.cmd = CommandOf(req, cur_drive)
<1>1. cur_drive \in Drives /\ req \in Requests \cup {NoRequest}
  BY DEF FloppyTypes
<1>2. CASE Calibrate
  <2> DEFINE cmd == [op |-> "CALIBRATE", drive |-> cur_drive]
  <2>1. cmd \in Commands /\ cmd.op = "CALIBRATE" /\ "CALIBRATE" \in Awaited["calWait"]
    BY <1>1 DEF Commands, Awaited
  <2>2. fdc' = floppy_send_cmd(fdc, cmd) /\ pc = "cal" /\ pc' = "calWait"
        /\ UNCHANGED <<irq, floppy_irq_done>>
    BY <1>2 DEF Calibrate
  <2> HIDE DEF cmd
  <2>3. QED BY <2>1, <2>2, Sends DEF RestAt, Transfer
<1>3. CASE Seek
  <2> DEFINE cmd == [op |-> "SEEK", drive |-> cur_drive, track |-> Chs.track]
  <2>1. pc = "seek" /\ fdc' = floppy_send_cmd(fdc, cmd) /\ pc' = "seekWait"
        /\ UNCHANGED <<irq, floppy_irq_done>>
    BY <1>3 DEF Seek
  <2>2. req \in Requests
    BY <1>1, <2>1 DEF Serving, RequestAt
  <2>3. Chs.track \in Nat
    <3>1. req.lba \in LBAs
      BY <2>2 DEF Requests
    <3>2. QED BY <3>1, ChsOf DEF Chs
  <2>4. cmd \in Commands /\ cmd.op = "SEEK" /\ "SEEK" \in Awaited["seekWait"]
    BY <1>1, <2>3 DEF Commands, Awaited
  <2> HIDE DEF cmd
  <2>5. QED BY <2>1, <2>4, Sends DEF RestAt, Transfer
<1>4. CASE Transfer
  <2> DEFINE cmd == CommandOf(req, cur_drive)
  <2>1. pc = "xfer" /\ fdc' = floppy_send_cmd(fdc, cmd) /\ pc' = "xferWait"
        /\ UNCHANGED <<irq, floppy_irq_done>>
    BY <1>4 DEF Transfer, CommandOf, Chs
  <2>2. req \in Requests
    BY <1>1, <2>1 DEF Serving, RequestAt
  <2>3. cmd \in Commands /\ cmd.op \in {"READ_SECT", "WRITE_SECT"} /\ cmd.op \in Awaited["xferWait"]
    BY <1>1, <2>2, CommandCovers DEF Awaited
  <2> HIDE DEF cmd
  <2>4. QED BY <2>1, <2>3, Sends DEF RestAt, cmd
<1>5. QED BY <1>2, <1>3, <1>4

(* What the driver senses, until it gives up or is done.                   *)
LEMMA SensingHandshake ==
    ASSUME FloppyTypes, Handshake,
           ResetSense \/ ResetEnds \/ CalibrateGivesUp \/ CalibrateSense \/ SeekSense \/ TransferSense
    PROVE  fdc' \in Chip /\ Handshake'
<1>1. fdc \in Chip /\ pc \in RestAt \cup WaitAt \cup SenseAt /\ tries \in Nat
      /\ fdc.sense \in Nat
  BY DEF FloppyTypes, Chip
<1>2. CASE ResetSense
  <2>1. /\ pc = "resetSense" /\ pc' = pc /\ tries < 4 /\ tries' = tries + 1
        /\ fdc' = floppy_check_int(fdc).fdc /\ UNCHANGED <<irq, floppy_irq_done>>
    BY <1>2 DEF ResetSense
  <2>2. Ended /\ Silent /\ fdc.phase = "command" /\ fdc.sense = 4 - tries
    BY <2>1 DEF Handshake, Ended, SenseAt
  <2>3. fdc' \in Chip /\ fdc'.phase = "command" /\ fdc'.res = <<>> /\ fdc'.sense = fdc.sense - 1
    BY <1>1, <2>1, <2>2, CheckInt
  <2>4. Ended' /\ Silent' /\ tries' <= 4
    BY <1>1, <2>1, <2>2, <2>3 DEF Ended, Silent
  <2>5. QED BY <2>1, <2>3, <2>4, Senses DEF SenseAt
<1>3. CASE ResetEnds
  <2>1. /\ pc = "resetSense" /\ pc' = "cal" /\ tries = 4
        /\ fdc' = floppy_drive_data(fdc) /\ UNCHANGED <<irq, floppy_irq_done>>
    BY <1>3 DEF ResetEnds
  <2>2. Ended /\ Silent /\ fdc.phase = "command" /\ fdc.sense = 0 /\ fdc.res = <<>>
    BY <2>1, <1>1 DEF Handshake, Ended, SenseAt
  <2>3. fdc' = fdc
    BY <1>1, <2>1, <2>2, DriveData
  <2>4. QED BY <1>1, <2>1, <2>2, <2>3, Rests DEF RestAt, Silent
<1>4. CASE CalibrateGivesUp
  <2>1. /\ pc = "cal" /\ pc' = "idle" /\ ~motor'
        /\ fdc' = floppy_drive_data(fdc) /\ UNCHANGED <<irq, floppy_irq_done>>
    BY <1>4 DEF CalibrateGivesUp, BootEnds, floppy_control_motor
  <2>2. Silent /\ fdc.phase = "command" /\ fdc.sense = 0 /\ fdc.res = <<>>
    BY <2>1 DEF Handshake, RestAt
  <2>3. fdc' = fdc
    BY <1>1, <2>1, <2>2, DriveData
  <2>4. QED BY <1>1, <2>1, <2>2, <2>3, Rests DEF RestAt, Silent
<1>5. CASE CalibrateSense
  <2> DEFINE c == floppy_check_int(fdc).fdc
  <2>1. /\ pc = "calSense" /\ UNCHANGED <<irq, floppy_irq_done>>
        /\ \/ pc' = "cal" /\ fdc' = c
           \/ pc' = "idle" /\ ~motor' /\ fdc' = floppy_drive_data(c)
    BY <1>5 DEF CalibrateSense, BootEnds, floppy_control_motor
  <2>2. Ended /\ Silent /\ fdc.phase = "command" /\ fdc.sense = 1
    BY <2>1 DEF Handshake, Ended, SenseAt
  <2>3. c \in Chip /\ c.phase = "command" /\ c.res = <<>> /\ c.sense = 0
    BY <1>1, <2>2, CheckInt
  <2> HIDE DEF c
  <2>4. fdc' = c
    BY <2>1, <2>3, DriveData
  <2>5. QED BY <2>1, <2>2, <2>3, <2>4, Rests DEF RestAt, Silent
<1>6. CASE SeekSense
  <2>1. /\ pc = "seekSense" /\ UNCHANGED <<irq, floppy_irq_done>> /\ pc' \in {"xfer", "seek"}
        /\ fdc' = floppy_check_int(fdc).fdc
    BY <1>6 DEF SeekSense
  <2>2. Ended /\ Silent /\ fdc.phase = "command" /\ fdc.sense = 1
    BY <2>1 DEF Handshake, Ended, SenseAt
  <2>3. fdc' \in Chip /\ fdc'.phase = "command" /\ fdc'.res = <<>> /\ fdc'.sense = 0
    BY <1>1, <2>1, <2>2, CheckInt
  <2>4. QED BY <2>1, <2>2, <2>3, Rests DEF RestAt, Silent
<1>7. CASE TransferSense
  <2>1. /\ pc = "xferSense" /\ UNCHANGED <<irq, floppy_irq_done>> /\ pc' \in {"boot", "idle"}
        /\ ~motor' /\ fdc' = floppy_check_int(SkipBytes(fdc, 7)).fdc
    BY <1>7 DEF TransferSense, Returns, floppy_control_motor
  <2>2. Ended /\ Silent /\ fdc.phase = "result" /\ Len(fdc.res) = 7 /\ fdc.sense = 0
    BY <2>1 DEF Handshake, Ended, SenseAt
  <2>3. fdc' \in Chip /\ fdc'.phase = "command" /\ fdc'.res = <<>> /\ fdc'.sense = 0
    BY <1>1, <2>1, <2>2, ResultRead
  <2>4. QED BY <2>1, <2>2, <2>3, Rests DEF RestAt, Silent
<1>8. QED BY <1>2, <1>3, <1>4, <1>5, <1>6, <1>7

(* Calls that begin, one that gives up, and the reset.                     *)
LEMMA CallHandshake ==
    ASSUME FloppyTypes, Handshake,
           MountRead \/ SeekGivesUp \/ floppy_reset \/ Calls \/ Update
    PROVE  fdc' \in Chip /\ Handshake'
<1>1. fdc \in Chip
  BY DEF FloppyTypes
<1>2. CASE floppy_reset
  <2>1. /\ pc = "boot" /\ pc' = "resetWait" /\ tries' = 0 /\ UNCHANGED <<irq, floppy_irq_done>>
        /\ fdc' = [CommandPhase(fdc) EXCEPT !.phase = "exec", !.cmd = [op |-> "RESET"], !.sense = 0]
    BY <1>2 DEF floppy_reset
  <2>2. fdc' \in Chip /\ fdc'.phase = "exec" /\ fdc'.cmd.op = "RESET" /\ fdc'.sense = 0
    BY <1>1, <2>1, ResetBegun
  <2>3. Silent
    BY <2>1 DEF Handshake, RestAt
  <2>4. "RESET" \in Awaited["resetWait"]
    BY DEF Awaited
  <2>5. Running' /\ Silent'
    BY <2>1, <2>2, <2>3, <2>4 DEF Running, Silent
  <2>6. QED BY <2>1, <2>2, <2>5, Waits DEF WaitAt
<1>3. CASE MountRead \/ SeekGivesUp \/ Calls \/ Update
  <2>1. /\ pc \in {"boot", "seek", "idle"} /\ pc' \in {"boot", "seek", "idle"}
        /\ pc' = "idle" => ~motor'
        /\ UNCHANGED <<fdc, irq, floppy_irq_done>>
    BY <1>3 DEF MountRead, SeekGivesUp, Calls, Read, WriteText, Update, Call, Returns,
                floppy_control_motor, hardware
  <2>2. fdc.phase = "command" /\ fdc.res = <<>> /\ fdc.sense = 0 /\ Silent
    BY <2>1 DEF Handshake, RestAt
  <2>3. QED BY <1>1, <2>1, <2>2, Rests DEF RestAt, Silent
<1>4. QED BY <1>2, <1>3

(* Every step keeps Handshake.                                             *)
LEMMA HandshakeStep ==
    ASSUME FloppyTypes, Handshake, Serving, [Next]_vars
    PROVE  fdc' \in Chip /\ Handshake'
<1>1. CASE Next
  BY <1>1, ControllerHandshake, InterruptHandshake, SendingHandshake, SensingHandshake, CallHandshake
     DEF Next, DriverStep
<1>2. CASE UNCHANGED vars
  BY <1>2 DEF vars, FloppyTypes, Handshake, Running, Ended, Silent, Signalled
<1>3. QED BY <1>1, <1>2

-----------------------------------------------------------------------------
(* The data                                                                *)

(* Steps that leave the requests, the buffer and the disks alone.          *)
Quiet ==
    \/ SeekDone \/ ResetDone \/ floppy_int \/ WaitIrq \/ floppy_reset \/ ResetSense \/ ResetEnds
    \/ Calibrate \/ CalibrateGivesUp \/ CalibrateSense \/ Seek \/ SeekSense \/ Transfer

(* What all steps leave alone that transfer nothing.                       *)
LEMMA QuietFrame ==
    ASSUME Quiet
    PROVE  /\ UNCHANGED <<present, disk, buf, cur_drive, todo, req, last, writes>>
           /\ pc' \in RequestAt <=> pc \in RequestAt
           /\ pc' = "xferWait" => Transfer \/ (pc = "xferWait" /\ fdc' = fdc)
                                  \/ SeekDone \/ ResetDone
<1> USE DEF driver, hardware, RequestAt
<1>1. CASE SeekDone \/ ResetDone
  BY <1>1 DEF SeekDone, ResetDone
<1>2. CASE floppy_int
  BY <1>2 DEF floppy_int
<1>3. CASE WaitIrq
  BY <1>3 DEF WaitIrq, floppy_wait_irq
<1>4. CASE floppy_reset \/ ResetSense \/ ResetEnds
  BY <1>4 DEF floppy_reset, ResetSense, ResetEnds
<1>5. CASE Calibrate \/ CalibrateGivesUp \/ CalibrateSense
  BY <1>5 DEF Calibrate, CalibrateGivesUp, CalibrateSense, BootEnds
<1>6. CASE Seek \/ SeekSense \/ Transfer
  BY <1>6 DEF Seek, SeekSense, Transfer
<1>7. QED BY <1>1, <1>2, <1>3, <1>4, <1>5, <1>6 DEF Quiet

(* Such steps keep the types.                                              *)
LEMMA QuietTypes ==
    ASSUME FloppyTypes, fdc' \in Chip, Quiet
    PROVE  FloppyTypes'
<1>1. UNCHANGED <<present, disk, buf, cur_drive, todo, req, last>>
  BY QuietFrame
<1>2. cyl' \in [Drives -> Int]
  <2>1. CASE SeekDone
    <3> DEFINE d == fdc.cmd.drive
               to == IF fdc.cmd.op = "SEEK" THEN fdc.cmd.track ELSE 0
    <3>1. fdc.cmd.op \in {"SEEK", "CALIBRATE"} /\ fdc.cmd \in Commands
      BY <2>1 DEF SeekDone, FloppyTypes, Chip
    <3>2. d \in Drives /\ to \in Int /\ cyl \in [Drives -> Int]
      BY <3>1, CommandFields DEF FloppyTypes
    <3>3. cyl' = [cyl EXCEPT ![d] = to] \/ cyl' = [cyl EXCEPT ![d] = cyl[d]]
      BY <2>1, Zenon DEF SeekDone, SeekTo
    <3> HIDE DEF d, to
    <3>4. QED BY <3>2, <3>3
  <2>2. CASE ~SeekDone
    <3>1. cyl' = cyl
      BY <2>2 DEF Quiet, ResetDone, floppy_int, WaitIrq, floppy_wait_irq, floppy_reset, ResetSense,
         ResetEnds, Calibrate, CalibrateGivesUp, CalibrateSense, Seek, SeekSense, Transfer, hardware
    <3>2. QED BY <3>1 DEF FloppyTypes
  <2>3. QED BY <2>1, <2>2
<1>3. irq \in BOOLEAN /\ motor \in BOOLEAN /\ floppy_irq_done \in Nat /\ tries \in Nat
      /\ pc \in RestAt \cup WaitAt \cup SenseAt
  BY DEF FloppyTypes
<1>4. floppy_irq_done' \in Nat /\ tries' \in Nat /\ pc' \in RestAt \cup WaitAt \cup SenseAt
  <2> USE DEF RestAt, WaitAt, SenseAt
  <2>1. CASE SeekDone \/ ResetDone
    BY <1>3, <2>1 DEF SeekDone, ResetDone
  <2>2. CASE floppy_int
    BY <1>3, <2>2 DEF floppy_int
  <2>3. CASE WaitIrq
    BY <1>3, <2>3 DEF WaitIrq, floppy_wait_irq, Cleared
  <2>4. ASSUME ~(SeekDone \/ ResetDone \/ floppy_int \/ WaitIrq)
        PROVE  /\ floppy_irq_done' = floppy_irq_done /\ tries' \in {0, tries, tries + 1}
               /\ pc' \in {pc, "resetWait", "cal", "calWait", "idle", "seek", "seekWait", "xfer", "xferWait"}
    BY <2>4 DEF Quiet, floppy_reset, ResetSense, ResetEnds, Calibrate, CalibrateGivesUp,
                CalibrateSense, BootEnds, Seek, SeekSense, Transfer
  <2>5. CASE ~(SeekDone \/ ResetDone \/ floppy_int \/ WaitIrq)
    <3>1. tries' \in Nat
      BY <1>3, <2>4, <2>5
    <3>2. pc' \in RestAt \cup WaitAt \cup SenseAt
      BY <1>3, <2>4, <2>5
    <3>3. QED BY <1>3, <2>4, <2>5, <3>1, <3>2
  <2>6. QED BY <2>1, <2>2, <2>3, <2>5
<1>5. irq' \in BOOLEAN
  BY <1>3 DEF Quiet, SeekDone, SeekTo, ResetDone, floppy_int, WaitIrq, floppy_wait_irq, floppy_reset,
     ResetSense, ResetEnds, Calibrate, CalibrateGivesUp, CalibrateSense, Seek, SeekSense, Transfer,
     hardware
<1>6. motor' \in BOOLEAN
  <2> USE DEF floppy_control_motor
  <2>1. CASE SeekDone \/ ResetDone \/ floppy_int \/ WaitIrq
    BY <1>3, <2>1 DEF SeekDone, ResetDone, floppy_int, WaitIrq, floppy_wait_irq
  <2>2. CASE floppy_reset \/ ResetSense \/ ResetEnds
    BY <1>3, <2>2 DEF floppy_reset, ResetSense, ResetEnds
  <2>3. CASE Calibrate \/ CalibrateGivesUp \/ CalibrateSense
    BY <1>3, <2>3 DEF Calibrate, CalibrateGivesUp, CalibrateSense, BootEnds
  <2>4. CASE Seek \/ SeekSense \/ Transfer
    BY <1>3, <2>4 DEF Seek, SeekSense, Transfer
  <2>5. QED BY <2>1, <2>2, <2>3, <2>4 DEF Quiet
<1>7. QED BY <1>1, <1>2, <1>4, <1>5, <1>6 DEF FloppyTypes

(* The beginning and the end of a call.                                    *)
LEMMA CallTypes ==
    ASSUME FloppyTypes, fdc' \in Chip, Serving,
           MountRead \/ Calls \/ Update \/ SeekGivesUp \/ TransferSense
    PROVE  FloppyTypes'
<1>1. 1 \in BufSecs /\ New \in Int /\ 0 \in LBAs /\ Asked \subseteq LBAs
  BY Geometry DEF BufSecs, New
<1>2. CASE MountRead
  <2>1. todo \in Seq(Drives) /\ todo # <<>>
    BY <1>2 DEF MountRead, FloppyTypes
  <2>2. Head(todo) \in Drives
    BY <2>1
  <2>3. [op |-> "read", caller |-> "boot", dev |-> Head(todo), lba |-> 0] \in Requests
    BY <1>1, <2>2 DEF Requests
  <2>4. QED BY <1>2, <2>3 DEF MountRead, Call, floppy_control_motor, FloppyTypes, driver, hardware,
                              RestAt
<1>3. CASE Calls
  <2>1. PICK d \in Drives, lba \in Asked :
            Read("console", d, lba) \/ Read("process", d, lba) \/ WriteText(d, lba)
    BY <1>3 DEF Calls
  <2>2. \A o \in {"read", "update", "text"}, w \in {"boot", "console", "process"} :
            [op |-> o, caller |-> w, dev |-> d, lba |-> lba] \in Requests
    BY <1>1 DEF Requests
  <2>3. buf' \in [BufSecs -> Int]
    BY <1>1, <2>1 DEF Read, WriteText, FloppyTypes, hardware
  <2>4. req' \in Requests
    BY <2>1, <2>2 DEF Read, WriteText, Call
  <2>5. /\ UNCHANGED <<present, disk, cyl, irq, floppy_irq_done, cur_drive, todo>>
        /\ motor' = TRUE /\ tries' = 0 /\ pc' = "seek" /\ last' = None
    BY <2>1 DEF Read, WriteText, Call, floppy_control_motor, driver, hardware
  <2>6. QED BY <2>3, <2>4, <2>5 DEF FloppyTypes, RestAt
<1>4. CASE Update
  <2>1. last \in Results
    BY <1>4 DEF Update, FloppyTypes
  <2>2. [op |-> "update", caller |-> "console", dev |-> last.dev, lba |-> last.lba] \in Requests
    BY <2>1 DEF Requests, Results
  <2>3. buf' \in [BufSecs -> Int]
    BY <1>1, <1>4 DEF Update, FloppyTypes
  <2>4. QED BY <1>4, <2>2, <2>3 DEF Update, Call, floppy_control_motor, FloppyTypes, driver, RestAt
<1>5. CASE SeekGivesUp \/ TransferSense
  <2>1. pc \in {"seek", "xferSense"} /\ Returns
    BY <1>5 DEF SeekGivesUp, TransferSense
  <2>2. req \in Requests
    BY <2>1 DEF Serving, RequestAt, FloppyTypes
  <2>3. last' \in Results \cup {None}
    <3>1. [lba |-> req.lba, dev |-> req.dev, ret |-> "null", clean |-> FALSE] \in Results
      BY <2>2 DEF Requests, Results
    <3>2. QED BY <1>5, <3>1 DEF SeekGivesUp, TransferSense, FloppyTypes
  <2>4. cur_drive' \in Drives /\ todo' \in Seq(Drives)
    <3>1. CASE req.caller = "boot"
      <4>1. todo \in Seq(Drives) /\ todo # <<>>
        BY <3>1 DEF Serving, FloppyTypes
      <4>2. Head(todo) \in Drives /\ Tail(todo) \in Seq(Drives)
        BY <4>1
      <4>3. QED BY <2>1, <3>1, <4>2 DEF Returns
    <3>2. CASE req.caller # "boot"
      BY <2>1, <3>2 DEF Returns, FloppyTypes
    <3>3. QED BY <3>1, <3>2
  <2>5. UNCHANGED <<present, disk, buf, cyl, irq, floppy_irq_done>>
    BY <1>5 DEF SeekGivesUp, TransferSense, Returns, hardware
  <2>6. motor' \in BOOLEAN /\ tries' \in Nat /\ req' = NoRequest /\ pc' \in RestAt
    BY <2>1 DEF Returns, floppy_control_motor, RestAt
  <2>7. QED BY <2>3, <2>4, <2>5, <2>6 DEF FloppyTypes
<1>6. QED BY <1>2, <1>3, <1>4, <1>5

(* What the first n sectors of a transfer leave in the buffer or on disk.  *)
InBuffer(n) == [k \in BufSecs |-> IF k <= n THEN disk[cur_drive][SectorAt(req.lba, k)] ELSE buf[k]]
SlotsOf(n, l) == Slot(CommandOf(req, cur_drive), n, l)
OnDisk(n) == [l \in LBAs |-> IF SlotsOf(n, l) = {} THEN disk[cur_drive][l]
                             ELSE buf[CHOOSE k \in SlotsOf(n, l) : TRUE]]

(* What a transfer leaves on the disk and in the buffer, by what it was for.*)
LEMMA Transferred ==
    ASSUME FloppyTypes, Handshake, Serving, TransferDone
    PROVE  /\ req \in Requests /\ pc = "xferWait"
           /\ \E n \in 0 .. Len(Places(Extent(req.lba))) :
                /\ n # 0 => cur_drive \in present
                /\ req.op = "read" => disk' = disk /\ buf' = InBuffer(n)
                /\ req.op # "read" => buf' = buf /\ disk' = [disk EXCEPT ![cur_drive] = OnDisk(n)]
                /\ last' = IF Recorded
                           THEN [lba |-> req.lba, dev |-> req.dev, ret |-> "buf",
                                 clean |-> n = Len(Places(Extent(req.lba)))]
                           ELSE last
<1> DEFINE cmd == fdc.cmd
           len == Len(Places(Extent(req.lba)))
           all == IF Moves(cmd) THEN Len(Places(cmd)) ELSE 0
<1>1. fdc.phase = "exec" /\ cmd.op \in {"READ_SECT", "WRITE_SECT"}
  BY DEF TransferDone
<1>2. pc = "xferWait" /\ Running
  BY <1>1, ExecAt
<1>3. req \in Requests /\ cur_drive \in Drives
  BY <1>2 DEF Serving, RequestAt, FloppyTypes
<1>4. cmd = CommandOf(req, cur_drive)
  BY <1>2 DEF Serving
<1>5. /\ cmd.drive = cur_drive /\ Places(cmd) = Places(Extent(req.lba))
      /\ cmd.track = Extent(req.lba).track
      /\ cmd.op = IF req.op = "read" THEN "READ_SECT" ELSE "WRITE_SECT"
  BY <1>3, <1>4, CommandCovers
<1>6. len \in Nat
  <2>1. req.lba \in LBAs
    BY <1>3 DEF Requests
  <2>2. len \in 1 .. 2 * SPT /\ SPT \in Nat
    BY <2>1, ExtentOf, Geometry
  <2> HIDE DEF len
  <2>3. QED BY <2>2
<1>7. PICK n \in {all} \cup {k \in Cuts : k < all} :
             /\ buf' = IF cmd.op = "READ_SECT" THEN Fetched(cmd, n) ELSE buf
             /\ disk' = IF cmd.op = "WRITE_SECT" THEN Stored(cmd, n) ELSE disk
             /\ last' = IF Recorded
                        THEN [lba |-> req.lba, dev |-> req.dev, ret |-> "buf",
                              clean |-> n = Len(Places(cmd))]
                        ELSE last
  BY Zenon DEF TransferDone
<1>8. all \in {0, len} /\ (all # 0 => cur_drive \in present)
  BY <1>5 DEF Moves
<1>9. \A k : SectorAt(req.lba, k) = LbaOf(cmd.track, Places(cmd)[k])
  BY <1>5 DEF SectorAt
<1>10. Fetched(cmd, n) = InBuffer(n)
  BY <1>5, <1>9 DEF Fetched, InBuffer
<1>11. Stored(cmd, n) = [disk EXCEPT ![cur_drive] = OnDisk(n)]
  <2> DEFINE C == CommandOf(req, cur_drive)
  <2>1. Stored(cmd, n) = Stored(C, n)
    BY <1>4
  <2>2. C.drive = cur_drive
    BY <1>4, <1>5
  <2>3. Stored(C, n) = [disk EXCEPT ![C.drive] = [l \in LBAs |->
            IF Slot(C, n, l) = {} THEN disk[C.drive][l] ELSE buf[CHOOSE k \in Slot(C, n, l) : TRUE]]]
    BY DEF Stored
  <2> DEFINE F(d) == [l \in LBAs |->
                 IF Slot(C, n, l) = {} THEN disk[d][l] ELSE buf[CHOOSE k \in Slot(C, n, l) : TRUE]]
  <2>4. F(cur_drive) = OnDisk(n)
    BY Zenon DEF OnDisk, SlotsOf
  <2>5. Stored(C, n) = [disk EXCEPT ![C.drive] = F(C.drive)]
    BY <2>3
  <2> HIDE DEF F, C
  <2>6. Stored(C, n) = [disk EXCEPT ![cur_drive] = F(cur_drive)]
    BY <2>2, <2>5, Zenon
  <2>7. QED BY <2>1, <2>4, <2>6
<1> HIDE DEF all, cmd, len
<1>12. n \in 0 .. len /\ (n # 0 => cur_drive \in present)
  BY <1>6, <1>7, <1>8, FloppyAssumption
<1>13. req.op = "read" => disk' = disk /\ buf' = InBuffer(n)
  BY <1>5, <1>7, <1>10
<1>14. req.op # "read" => buf' = buf /\ disk' = [disk EXCEPT ![cur_drive] = OnDisk(n)]
  BY <1>5, <1>7, <1>11
<1>15. last' = IF Recorded THEN [lba |-> req.lba, dev |-> req.dev, ret |-> "buf", clean |-> n = len]
               ELSE last
  BY <1>5, <1>7 DEF len
<1>16. QED BY <1>2, <1>3, <1>12, <1>13, <1>14, <1>15 DEF len

(* A sector of the disk other than the one being written back is written   *)
(* as it was, and that one as it is at the beginning of the buffer.        *)
LEMMA DiskTypes ==
    ASSUME FloppyTypes, req \in Requests, NEW n \in 0 .. Len(Places(Extent(req.lba)))
    PROVE  /\ InBuffer(n) \in [BufSecs -> Int] /\ OnDisk(n) \in [LBAs -> Int]
           /\ \A l \in LBAs : \A k \in SlotsOf(n, l) :
                 k \in BufSecs /\ k \in 1 .. Len(Places(Extent(req.lba))) /\ SectorAt(req.lba, k) = l
                 /\ (l = req.lba <=> k = 1)
           /\ (n = 0 \/ SlotsOf(n, req.lba) # {})
<1> DEFINE len == Len(Places(Extent(req.lba)))
<1>1. req.lba \in LBAs /\ cur_drive \in Drives /\ disk \in [Drives -> [LBAs -> Int]] /\ buf \in [BufSecs -> Int]
  BY DEF Requests, FloppyTypes
<1>2. len \in 1 .. 2 * SPT /\ SPT \in Nat
  BY <1>1, ExtentOf, Geometry
<1>3. \A k \in 1 .. len : SectorAt(req.lba, k) \in LBAs /\ (SectorAt(req.lba, k) = req.lba <=> k = 1)
  BY <1>1, ExtentOf
<1>4. n \in 0 .. len
  OBVIOUS
<1> HIDE DEF len
<1>0. \A l : SlotsOf(n, l) = {k \in 1 .. n : SectorAt(req.lba, k) = l}
  BY <1>1, CommandCovers DEF SlotsOf, Slot, SectorAt
<1>5. \A k \in BufSecs : k <= n => k \in 1 .. len
  BY <1>2, <1>4 DEF BufSecs
<1>6. InBuffer(n) \in [BufSecs -> Int]
  BY <1>1, <1>3, <1>5 DEF InBuffer
<1>7. \A l \in LBAs : \A k \in SlotsOf(n, l) :
        k \in BufSecs /\ k \in 1 .. len /\ SectorAt(req.lba, k) = l /\ (l = req.lba <=> k = 1)
  BY <1>0, <1>2, <1>3, <1>4 DEF BufSecs
<1>8. OnDisk(n) \in [LBAs -> Int]
  <2>1. ASSUME NEW l \in LBAs, SlotsOf(n, l) # {}
        PROVE  buf[CHOOSE k \in SlotsOf(n, l) : TRUE] \in Int
    <3>1. (CHOOSE k \in SlotsOf(n, l) : TRUE) \in SlotsOf(n, l)
      BY <2>1
    <3>2. QED BY <1>1, <1>7, <3>1
  <2>2. \A l \in LBAs : disk[cur_drive][l] \in Int
    BY <1>1
  <2>3. QED BY <2>1, <2>2 DEF OnDisk
<1>9. n = 0 \/ 1 \in SlotsOf(n, req.lba)
  BY <1>0, <1>1, <1>2, <1>3, <1>4
<1>10. QED BY <1>6, <1>7, <1>8, <1>9 DEF len

(* A transfer keeps the types.                                             *)
LEMMA TransferTypes ==
    ASSUME FloppyTypes, Handshake, Serving, fdc' \in Chip, TransferDone
    PROVE  FloppyTypes'
<1>1. req \in Requests
  BY Transferred
<1>2. PICK n \in 0 .. Len(Places(Extent(req.lba))) :
        /\ req.op = "read" => disk' = disk /\ buf' = InBuffer(n)
        /\ req.op # "read" => buf' = buf /\ disk' = [disk EXCEPT ![cur_drive] = OnDisk(n)]
        /\ last' = IF Recorded
                   THEN [lba |-> req.lba, dev |-> req.dev, ret |-> "buf",
                         clean |-> n = Len(Places(Extent(req.lba)))]
                   ELSE last
  BY Transferred
<1>3. InBuffer(n) \in [BufSecs -> Int] /\ OnDisk(n) \in [LBAs -> Int]
  BY <1>1, DiskTypes
<1>4. disk' \in [Drives -> [LBAs -> Int]] /\ buf' \in [BufSecs -> Int]
  BY <1>2, <1>3 DEF FloppyTypes
<1>5. last' \in Results \cup {None}
  <2> DEFINE ok == n = Len(Places(Extent(req.lba)))
  <2>1. ok \in BOOLEAN
    OBVIOUS
  <2> HIDE DEF ok
  <2>2. [lba |-> req.lba, dev |-> req.dev, ret |-> "buf", clean |-> ok] \in Results
    BY <1>1, <2>1 DEF Requests, Results
  <2>3. QED BY <1>2, <2>2 DEF FloppyTypes, ok
<1>6. /\ UNCHANGED <<present, cur_drive, todo, cyl, floppy_irq_done, motor, pc, tries, req>>
      /\ irq' = TRUE
  BY DEF TransferDone, driver
<1>7. QED BY <1>4, <1>5, <1>6 DEF FloppyTypes

(* Every step keeps the types.                                             *)
LEMMA TypesStep ==
    ASSUME FloppyTypes, Handshake, Serving, [Next]_vars
    PROVE  FloppyTypes'
<1>1. fdc' \in Chip
  BY HandshakeStep
<1>2. CASE Next
  BY <1>1, <1>2, QuietTypes, CallTypes, TransferTypes DEF Next, DriverStep, ControllerStep, Quiet
<1>3. CASE UNCHANGED vars
  BY <1>1, <1>3 DEF vars, FloppyTypes
<1>4. QED BY <1>2, <1>3

(* Requests and results go together through every step.                    *)
LEMMA ServingStep ==
    ASSUME FloppyTypes, Handshake, Serving, [Next]_vars
    PROVE  Serving'
<1>1. CASE Quiet
  <2>1. /\ UNCHANGED <<present, cur_drive, todo, req, last>>
        /\ pc' \in RequestAt <=> pc \in RequestAt
        /\ pc' = "xferWait" => Transfer \/ (pc = "xferWait" /\ fdc' = fdc) \/ SeekDone \/ ResetDone
    BY <1>1, QuietFrame
  <2>2. ASSUME pc' = "xferWait", Running'
        PROVE  fdc'.cmd = CommandOf(req, cur_drive)
    <3>1. CASE Transfer
      BY <3>1, SendingHandshake
    <3>2. CASE pc = "xferWait" /\ fdc' = fdc
      <4>1. Running
        BY <2>2, <3>2 DEF Running
      <4>2. QED BY <3>2, <4>1 DEF Serving
    <3>3. CASE SeekDone \/ ResetDone
      <4>1. pc \in {"resetWait", "calWait", "seekWait"}
        BY <3>3, ExecAt DEF SeekDone, ResetDone
      <4>2. pc' = pc
        BY <3>3 DEF SeekDone, ResetDone
      <4>3. QED BY <2>2, <4>1, <4>2
    <3>4. QED BY <2>1, <2>2, <3>1, <3>2, <3>3
  <2>3. QED BY <2>1, <2>2 DEF Serving, Recorded
<1>2. CASE TransferDone
  <2>1. req \in Requests /\ pc = "xferWait"
    BY <1>2, Transferred
  <2>2. UNCHANGED <<present, cur_drive, todo, pc, req>> /\ fdc' = ResultPhase(fdc, [i \in 1 .. 7 |-> AbnormalEnd])
    BY <1>2 DEF TransferDone, driver
  <2>3. ~Running'
    <3>1. fdc'.phase = "result"
      BY <2>2, ResultWritten DEF FloppyTypes
    <3>2. QED BY <3>1 DEF Running
  <2>4. CASE Recorded
    <3>1. \E b : last' = [lba |-> req.lba, dev |-> req.dev, ret |-> "buf", clean |-> b]
      BY <1>2, <2>4, Transferred
    <3>2. last'.dev = req.dev /\ Recorded' /\ req.op = "read" /\ req.dev \in present
      BY <3>1, <2>2, <2>4 DEF Recorded, Serving
    <3>3. QED BY <2>2, <2>3, <3>2 DEF Serving, Recorded
  <2>5. CASE ~Recorded
    <3>1. last' = last
      BY <1>2, <2>5, Transferred
    <3>2. QED BY <2>2, <2>3, <2>5, <3>1 DEF Serving, Recorded
  <2>6. QED BY <2>4, <2>5
<1>3. CASE MountRead
  <2>1. /\ UNCHANGED <<present, cur_drive, todo>> /\ todo # <<>> /\ last' = None /\ pc' = "seek"
        /\ req' = [op |-> "read", caller |-> "boot", dev |-> Head(todo), lba |-> 0]
    BY <1>3 DEF MountRead, Call, driver
  <2>2. QED BY <2>1 DEF Serving, Recorded, RequestAt, NoRequest
<1>4. CASE Calls
  <2>1. PICK d \in Drives, lba \in Asked :
            Read("console", d, lba) \/ Read("process", d, lba) \/ WriteText(d, lba)
    BY <1>4 DEF Calls
  <2>2. /\ UNCHANGED <<present, cur_drive, todo>> /\ last' = None /\ pc' = "seek" /\ d \in present
        /\ \E o \in {"read", "text"}, w \in {"console", "process"} :
              req' = [op |-> o, caller |-> w, dev |-> d, lba |-> lba]
    BY <2>1 DEF Read, WriteText, Call, driver
  <2>3. QED BY <2>2 DEF Serving, Recorded, RequestAt, NoRequest
<1>5. CASE Update
  <2>1. /\ UNCHANGED <<present, cur_drive, todo, last>> /\ last # None /\ pc' = "seek"
        /\ req' = [op |-> "update", caller |-> "console", dev |-> last.dev, lba |-> last.lba]
    BY <1>5 DEF Update, Call, driver
  <2>2. QED BY <2>1 DEF Serving, Recorded, RequestAt, NoRequest
<1>6. CASE SeekGivesUp \/ TransferSense
  <2>1. /\ req' = NoRequest /\ pc' \in {"boot", "idle"} /\ present' = present
        /\ last' # None => Recorded
        /\ last' \in {last, None, [lba |-> req.lba, dev |-> req.dev, ret |-> "null", clean |-> FALSE]}
    BY <1>6 DEF SeekGivesUp, TransferSense, Returns
  <2>2. last' # None => last'.dev \in present
    BY <2>1 DEF Serving
  <2>3. QED BY <2>1, <2>2 DEF Serving, Recorded, RequestAt, NoRequest
<1>7. CASE UNCHANGED vars
  BY <1>7 DEF vars, Serving, Recorded, Running
<1>8. QED BY <1>1, <1>2, <1>3, <1>4, <1>5, <1>6, <1>7 DEF Next, DriverStep, ControllerStep, Quiet

(* What a sector written back leaves on the disk.                          *)
LEMMA WrittenBack ==
    ASSUME FloppyTypes, Serving, CleanRead, req \in Requests, req.op = "update", last.clean,
           NEW n \in 0 .. Len(Places(Extent(req.lba)))
    PROVE  \A l \in LBAs :
             OnDisk(n)[l] = IF l = last.lba /\ n # 0 THEN New ELSE disk[cur_drive][l]
<1>1. last # None /\ last.lba = req.lba /\ buf[1] = New
  BY DEF Serving, CleanRead
<1>2. \A k \in 2 .. Len(Places(Extent(req.lba))) : buf[k] = disk[cur_drive][SectorAt(req.lba, k)]
  BY <1>1 DEF CleanRead
<1>3. Len(Places(Extent(req.lba))) \in Nat
  BY ExtentOf, Geometry DEF Requests
<1> SUFFICES ASSUME NEW l \in LBAs
             PROVE  OnDisk(n)[l] = IF l = last.lba /\ n # 0 THEN New ELSE disk[cur_drive][l]
  OBVIOUS
<1> DEFINE S == SlotsOf(n, l)
           len == Len(Places(Extent(req.lba)))
           k == CHOOSE i \in S : TRUE
<1>4. OnDisk(n)[l] = IF S = {} THEN disk[cur_drive][l] ELSE buf[k]
  BY Zenon DEF OnDisk
<1>5. S # {} => k \in S
  OBVIOUS
<1>6. S # {} => k \in 1 .. len /\ SectorAt(req.lba, k) = l /\ (l = req.lba <=> k = 1)
  BY <1>5, DiskTypes
<1>7. l = req.lba /\ n # 0 => S # {}
  BY DiskTypes
<1>8. n = 0 => S = {}
  BY DEF SlotsOf, Slot
<1> HIDE DEF S, k, len
<1>9. CASE S = {}
  BY <1>1, <1>4, <1>7, <1>9
<1>10. CASE S # {} /\ k = 1
  BY <1>1, <1>4, <1>6, <1>8, <1>10
<1>11. CASE S # {} /\ k # 1
  <2>1. k \in 2 .. len /\ SectorAt(req.lba, k) = l /\ l # req.lba
    BY <1>3, <1>6, <1>11 DEF len
  <2>2. buf[k] = disk[cur_drive][l]
    BY <1>2, <2>1 DEF len
  <2>3. QED BY <1>1, <1>4, <1>11, <2>1, <2>2
<1>12. QED BY <1>9, <1>10, <1>11

(* A read without error leaves in the buffer what the disk has.            *)
LEMMA CleanReadStep ==
    ASSUME FloppyInv, [Next]_vars
    PROVE  CleanRead'
<1>1. FloppyTypes /\ Handshake /\ Serving /\ CleanRead
  BY DEF FloppyInv
<1>2. CASE Quiet \/ UNCHANGED vars
  <2>1. UNCHANGED <<present, disk, buf, cur_drive, req, last>>
    BY <1>2, QuietFrame DEF vars
  <2>2. QED BY <1>1, <2>1 DEF CleanRead
<1>3. CASE MountRead \/ Calls
  <2>1. last' = None
    BY <1>3 DEF MountRead, Calls, Read, WriteText
  <2>2. QED BY <2>1 DEF CleanRead
<1>4. CASE Update
  <2>1. /\ last # None /\ UNCHANGED <<present, cur_drive, disk, last>> /\ req'.op = "update"
        /\ buf' = IF last.ret = "buf" THEN [buf EXCEPT ![1] = New] ELSE buf
        /\ pc = "idle"
    BY <1>4 DEF Update, Call, driver
  <2>2. CASE last.clean
    <3>1. last \in Results /\ last.lba \in LBAs
      BY <1>1, <2>1 DEF FloppyTypes, Results
    <3>2. Len(Places(Extent(last.lba))) \in 1 .. 2 * SPT /\ SPT \in Nat \ {0}
      BY <3>1, ExtentOf, Geometry
    <3>3. buf \in [BufSecs -> Int] /\ last.ret = "buf" /\ cur_drive \in present
      BY <1>1, <2>1, <2>2 DEF FloppyTypes, CleanRead
    <3>4. buf' = [buf EXCEPT ![1] = New]
      BY <2>1, <3>3
    <3>5. buf'[1] = New
      BY <3>2, <3>3, <3>4 DEF BufSecs
    <3>6. \A k \in 2 .. Len(Places(Extent(last.lba))) : buf'[k] = buf[k]
      BY <3>2, <3>3, <3>4 DEF BufSecs
    <3>7. \A k \in 2 .. Len(Places(Extent(last.lba))) : buf[k] = disk[cur_drive][SectorAt(last.lba, k)]
      BY <1>1, <2>1, <2>2 DEF CleanRead
    <3>8. QED BY <2>1, <3>3, <3>5, <3>6, <3>7 DEF CleanRead
  <2>3. CASE ~last.clean
    BY <2>1, <2>3 DEF CleanRead
  <2>4. QED BY <2>2, <2>3
<1>5. CASE SeekGivesUp \/ TransferSense
  <2>1. CASE last' = None
    BY <2>1 DEF CleanRead
  <2>2. CASE SeekGivesUp /\ last' # None
    <3>1. last'.clean = FALSE
      BY <2>2 DEF SeekGivesUp
    <3>2. QED BY <3>1 DEF CleanRead
  <2>3. CASE TransferSense /\ last' # None
    <3>1. Recorded /\ last' = last /\ UNCHANGED <<disk, buf, present>> /\ req' = NoRequest /\ Returns
      BY <2>3 DEF TransferSense, Returns
    <3>2. cur_drive' = cur_drive /\ req.op # "update" /\ req'.op # "update"
      BY <3>1 DEF Recorded, Returns, NoRequest
    <3>3. QED BY <1>1, <3>1, <3>2 DEF CleanRead
  <2>4. QED BY <1>5, <2>1, <2>2, <2>3
<1>6. CASE TransferDone
  <2> DEFINE len == Len(Places(Extent(req.lba)))
  <2>1. req \in Requests /\ req.lba \in LBAs /\ UNCHANGED <<present, cur_drive, req>>
    BY <1>1, <1>6, Transferred DEF Requests, TransferDone, driver
  <2>2. PICK n \in 0 .. len :
          /\ n # 0 => cur_drive \in present
          /\ req.op = "read" => disk' = disk /\ buf' = InBuffer(n)
          /\ req.op # "read" => buf' = buf /\ disk' = [disk EXCEPT ![cur_drive] = OnDisk(n)]
          /\ last' = IF Recorded
                     THEN [lba |-> req.lba, dev |-> req.dev, ret |-> "buf", clean |-> n = len]
                     ELSE last
    BY <1>1, <1>6, Transferred
  <2>3. len \in 1 .. 2 * SPT /\ SPT \in Nat \ {0}
    BY <2>1, ExtentOf, Geometry
  <2>4. \A k \in 1 .. len : SectorAt(req.lba, k) \in LBAs /\ (SectorAt(req.lba, k) = req.lba <=> k = 1)
    BY <2>1, ExtentOf
  <2>5. CASE Recorded
    <3>1. req.op = "read" /\ last'.lba = req.lba /\ last'.ret = "buf" /\ last'.clean = (n = len)
      BY <2>2, <2>5 DEF Recorded
    <3> SUFFICES ASSUME n = len PROVE CleanRead'
      BY <3>1 DEF CleanRead
    <3>2. disk' = disk /\ buf' = InBuffer(n) /\ cur_drive \in present
      BY <2>2, <2>3, <3>1
    <3>3. \A k \in 1 .. len : k \in BufSecs /\ k <= n
      BY <2>3 DEF BufSecs
    <3> HIDE DEF len
    <3>4. \A k \in 1 .. len : buf'[k] = disk[cur_drive][SectorAt(req.lba, k)]
      BY <3>2, <3>3 DEF InBuffer
    <3>5. 1 \in 1 .. len /\ \A k \in 2 .. len : k \in 1 .. len
      BY <2>3
    <3>6. buf'[1] = disk[cur_drive][req.lba]
      BY <2>4, <3>4, <3>5
    <3>7. \A k \in 2 .. len : buf'[k] = disk[cur_drive][SectorAt(req.lba, k)]
      BY <3>4, <3>5
    <3>8. QED BY <2>1, <3>1, <3>2, <3>6, <3>7 DEF CleanRead, len
  <2>6. CASE ~Recorded /\ last # None
    <3>1. last' = last /\ req.op = "update" /\ last.lba = req.lba
      BY <1>1, <2>1, <2>2, <2>6 DEF Serving, Requests, NoRequest
    <3>2. buf' = buf /\ disk' = [disk EXCEPT ![cur_drive] = OnDisk(n)]
      BY <2>2, <3>1
    <3>3. CASE ~last.clean
      BY <3>1, <3>3 DEF CleanRead
    <3>4. CASE last.clean
      <4>1. \A l \in LBAs : OnDisk(n)[l] = IF l = last.lba /\ n # 0 THEN New ELSE disk[cur_drive][l]
        BY <1>1, <2>1, <3>1, <3>4, WrittenBack
      <4>2. disk'[cur_drive] = OnDisk(n)
        BY <1>1, <3>2 DEF FloppyTypes
      <4>3. ASSUME NEW k \in 2 .. len
            PROVE  buf'[k] = disk'[cur_drive][SectorAt(req.lba, k)]
        <5> HIDE DEF len
        <5>1. SectorAt(req.lba, k) \in LBAs /\ SectorAt(req.lba, k) # last.lba
          BY <2>3, <2>4, <3>1
        <5>2. buf[k] = disk[cur_drive][SectorAt(req.lba, k)]
          BY <1>1, <2>6, <3>1, <3>4 DEF CleanRead, len
        <5>3. QED BY <3>2, <4>1, <4>2, <5>1, <5>2
      <4>4. last.ret = "buf" /\ cur_drive \in present /\ buf[1] = New
        BY <1>1, <2>6, <3>1, <3>4 DEF CleanRead
      <4> HIDE DEF len
      <4>5. \A k \in 2 .. len : buf'[k] = disk'[cur_drive][SectorAt(req.lba, k)]
        BY <4>3
      <4>6. QED BY <2>1, <3>1, <3>2, <4>4, <4>5 DEF CleanRead, len
    <3>5. QED BY <3>3, <3>4
  <2>7. CASE ~Recorded /\ last = None
    BY <2>2, <2>7 DEF CleanRead
  <2>8. QED BY <2>5, <2>6, <2>7
<1>7. QED BY <1>2, <1>3, <1>4, <1>5, <1>6 DEF Next, DriverStep, ControllerStep, Quiet

-----------------------------------------------------------------------------
(* Theorems                                                                *)

(* FloppyInv holds at boot.                                                *)
LEMMA FloppyInitially == Init => FloppyInv
<1> SUFFICES ASSUME Init PROVE FloppyInv
  OBVIOUS
<1>1. present \subseteq Drives
  BY FloppyAssumption DEF Init, Drives
<1>2. disk \in [Drives -> [LBAs -> Int]]
  <2>1. \A d \in Drives : \A lba \in LBAs : Original(d, lba) \in Int
    <3>1. Cardinality(LBAs) \in Nat
      BY Geometry, FS_Interval DEF LBAs
    <3>2. QED BY <3>1, Geometry DEF Original, Drives
  <2> HIDE DEF Original
  <2>2. QED BY <2>1 DEF Init
<1>3. buf \in [BufSecs -> Int]
  BY DEF Init, Blank
<1>4. fdc \in Chip /\ fdc.phase = "command" /\ fdc.res = <<>> /\ fdc.sense = 0
  <2>1. <<>> \in Seq(Int) /\ NoCommand \in Commands
    BY DEF Commands
  <2>2. QED BY <2>1 DEF Init, Chip
<1>5. cyl \in [Drives -> Int]
  BY Geometry DEF Init
<1>6. todo \in Seq(Drives)
  <2>1. <<0>> \in Seq(Drives) /\ <<1>> \in Seq(Drives) /\ <<>> \in Seq(Drives)
    BY DEF Drives
  <2>2. QED BY <2>1 DEF Init
<1>7. /\ irq = FALSE /\ floppy_irq_done = 0 /\ motor \in BOOLEAN /\ cur_drive = 0 /\ pc = "boot"
      /\ tries = 0 /\ req = NoRequest /\ last = None
  BY DEF Init
<1>8. FloppyTypes
  BY <1>1, <1>2, <1>3, <1>4, <1>5, <1>6, <1>7 DEF FloppyTypes, Drives, RestAt
<1>9. Handshake
  BY <1>4, <1>7 DEF Handshake, Silent, RestAt, WaitAt, SenseAt
<1>10. Serving /\ CleanRead
  BY <1>7 DEF Serving, CleanRead, Recorded, RequestAt, NoRequest
<1>11. QED BY <1>8, <1>9, <1>10 DEF FloppyInv

(* FloppyInv is inductive.                                                 *)
LEMMA FloppyStep == FloppyInv /\ [Next]_vars => FloppyInv'
  BY HandshakeStep, TypesStep, ServingStep, CleanReadStep DEF FloppyInv

(* Floppy.AtRest for any disks and any number of attempts and writes: no   *)
(* failure, retry or error of a transfer leaves driver and controller out  *)
(* of step.                                                                *)
THEOREM DriverAtRest == Spec => []AtRest
<1>1. FloppyInv => AtRest
  BY DEF FloppyInv, FloppyTypes, Handshake, AtRest, Silent, Signalled, RestAt, WaitAt, SenseAt
<1>2. QED BY <1>1, FloppyInitially, FloppyStep, PTL DEF Spec

(* Floppy.ReadGetsSector: the sector and the drive that were asked for are *)
(* at the beginning of the buffer.                                         *)
THEOREM ReadsGetTheirSector == Spec => []ReadGetsSector
<1>1. FloppyInv => ReadGetsSector
  <2> SUFFICES ASSUME FloppyInv, pc = "idle", last # None, last.clean, Cardinality(present) = 1
               PROVE  buf[1] = disk[last.dev][last.lba]
    BY DEF ReadGetsSector
  <2>1. cur_drive \in present /\ last.dev \in present
    BY DEF FloppyInv, Serving, CleanRead
  <2>2. present \subseteq Drives /\ IsFiniteSet(Drives)
    <3>1. Drives = 0 .. 1
      BY DEF Drives
    <3>2. 0 \in Int /\ 1 \in Int
      OBVIOUS
    <3>3. IsFiniteSet(0 .. 1)
      BY <3>2, FS_Interval, Zenon
    <3>4. QED BY <3>1, <3>3 DEF FloppyInv, FloppyTypes
  <2>3. IsFiniteSet(present)
    BY <2>2, FS_Subset
  <2>4. cur_drive = last.dev
    BY <2>1, <2>3, FS_Singleton
  <2>5. req = NoRequest
    BY DEF FloppyInv, Serving, RequestAt
  <2>6. buf[1] = disk[cur_drive][last.lba]
    BY <2>5 DEF FloppyInv, CleanRead, NoRequest
  <2>7. QED BY <2>4, <2>6
<1>2. QED BY <1>1, FloppyInitially, FloppyStep, PTL DEF Spec

(* Floppy.UpdateIsLocal: writing back what was read without error changes  *)
(* that sector and no other, though the transfer goes over its neighbours. *)
THEOREM UpdatesAreLocal == Spec => UpdateIsLocal
<1> DEFINE Local == (disk' # disk /\ req.op = "update" /\ last.clean) =>
                        disk' = [disk EXCEPT ![cur_drive][last.lba] = New]
<1>1. FloppyInv /\ [Next]_vars => [Local]_vars
  <2> SUFFICES ASSUME FloppyInv, [Next]_vars, disk' # disk, req.op = "update", last.clean
               PROVE  disk' = [disk EXCEPT ![cur_drive][last.lba] = New]
    BY Zenon
  <2>1. FloppyTypes /\ Handshake /\ Serving /\ CleanRead
    BY DEF FloppyInv
  <2>2. TransferDone
    <3>1. ~Quiet /\ ~UNCHANGED vars
      BY QuietFrame DEF vars
    <3>2. ~(MountRead \/ Calls \/ Update \/ SeekGivesUp \/ TransferSense)
      BY DEF MountRead, Calls, Read, WriteText, Update, SeekGivesUp, TransferSense, hardware
    <3>3. QED BY <3>1, <3>2 DEF Next, DriverStep, ControllerStep, Quiet
  <2>3. req \in Requests
    BY <2>1, <2>2, Transferred
  <2>4. PICK n \in 0 .. Len(Places(Extent(req.lba))) : disk' = [disk EXCEPT ![cur_drive] = OnDisk(n)]
    BY <2>1, <2>2, Transferred
  <2>5. \A l \in LBAs : OnDisk(n)[l] = IF l = last.lba /\ n # 0 THEN New ELSE disk[cur_drive][l]
    BY <2>1, <2>3, WrittenBack
  <2>6. OnDisk(n) \in [LBAs -> Int] /\ disk \in [Drives -> [LBAs -> Int]] /\ cur_drive \in Drives
    BY <2>1, <2>3, DiskTypes DEF FloppyTypes
  <2>7. CASE n = 0
    <3>1. OnDisk(n) = disk[cur_drive]
      BY <2>5, <2>6, <2>7
    <3>2. disk' = disk
      BY <2>4, <2>6, <3>1
    <3>3. QED BY <3>2
  <2>8. CASE n # 0
    <3>1. OnDisk(n) = [disk[cur_drive] EXCEPT ![last.lba] = New]
      BY <2>5, <2>6, <2>8
    <3>2. QED BY <2>4, <3>1
  <2>9. QED BY <2>7, <2>8
<1>2. QED BY <1>1, FloppyInitially, FloppyStep, PTL DEF Spec, UpdateIsLocal
=============================================================================
