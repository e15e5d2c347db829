------------------------------- MODULE Floppy -------------------------------
(***************************************************************************)
(* The floppy driver (drivers/floppy/floppy.c) with the DMA controller it  *)
(* programs, the 82077 floppy controller, interrupt 6, and the callers of  *)
(* the driver: fat.c on behalf of the console, and on behalf of a process  *)
(* (fopen), whose system call runs with interrupts off.                    *)
(*                                                                         *)
(* The driver is one thread of control: pc is where it is between two      *)
(* points at which the controller or the interrupt can act.  What it sends *)
(* and reads between two such points is one step; a step's controller      *)
(* state is threaded through the operators for the single bytes, so that a *)
(* command sent in the wrong phase is lost and a byte too many or too few  *)
(* is read.  The controller takes bytes within the 500 polls.              *)
(***************************************************************************)
EXTENDS Integers, Sequences, FiniteSets, Dma

CONSTANTS
    SPT,        \* FLOPPY_SECTORS_PER_TRACK
    Tracks,
    MaxTries,   \* the 10 attempts to seek and to calibrate
    Configs,    \* sets of drives that the CMOS may report as 1.44 MB
    Asked,      \* bound: the sectors that callers ask for
    Cuts,       \* bound: after how many sectors a transfer may fail
    MaxWrites   \* bound: writes to the disks

ASSUME FloppyAssumption ==
    /\ SPT \in Nat \ {0} /\ Tracks \in Nat \ {0} /\ MaxTries \in Nat \ {0}
    /\ Configs \subseteq SUBSET {0, 1} /\ MaxWrites \in Nat /\ Cuts \subseteq Nat
    /\ Asked \subseteq 0 .. 2 * SPT * Tracks - 1
    /\ Channel = 2 /\ {"a0", "a1", "a2", "c0", "c1"} \subseteq Bytes

Drives == {0, 1}
LBAs == 0 .. 2 * SPT * Tracks - 1
BufSecs == 1 .. 2 * SPT         \* FLOPPY_DMA_LEN: the sectors of a cylinder
Original(d, lba) == d * Cardinality(LBAs) + lba
Blank == -1
New == -2
None == [lba |-> -1]
NoRequest == [op |-> "none", caller |-> "nobody"]

VARIABLES
    present,    \* the drives that were detected
    disk,       \* the contents of the drives' disks
    buf,        \* floppy_dmabuf, in sectors
    dma,
    fdc,        \* the controller: phase, command, result bytes, ...
    cyl,        \* ... and where the heads of the drives are
    irq,        \* interrupt 6 is waiting
    floppy_irq_done,
    motor,      \* the motor bit of the drive in DOR
    cur_drive,
    pc, tries, todo,    \* the driver; drives still to be registered
    req,        \* the call being served
    last,       \* the last read that returned, until the next call
    writes

driver == <<present, cur_drive, todo>>
hardware == <<disk, buf, dma, fdc, cyl, irq>>
vars == <<present, disk, buf, dma, fdc, cyl, irq, floppy_irq_done, motor, cur_drive,
          pc, tries, todo, req, last, writes>>

-----------------------------------------------------------------------------
(* The controller (external).  A command runs at once when it is complete, *)
(* or goes on by itself ("exec") and ends with an interrupt.               *)

InvalidCommand == 128
AbnormalEnd == 64
SeekEnd == 32
NoCommand == [op |-> "NONE"]

CommandPhase(c) == [c EXCEPT !.phase = "command", !.cmd = NoCommand, !.res = <<>>]
ResultPhase(c, bytes) == [c EXCEPT !.phase = "result", !.res = bytes]

(* SENSE INTERRUPT has two bytes of results for each interrupt of a seek   *)
(* or a reset, and one when there is none.                                 *)
Sense(c) == IF c.sense = 0 THEN ResultPhase(c, <<InvalidCommand>>)
            ELSE [ResultPhase(c, <<c.st0, c.pcn>>) EXCEPT !.sense = @ - 1,
                      !.st0 = IF c.sense = 1 THEN 0 ELSE @, !.pcn = 0]

floppy_send_cmd(c, cmd) ==
    CASE c.phase # "command" -> c
      [] cmd.op = "SPECIFY" -> c
      [] cmd.op = "CHECK_INT" -> Sense(c)
      [] OTHER -> [c EXCEPT !.phase = "exec", !.cmd = cmd]

floppy_drive_data(c) == floppy_send_cmd(c, [op |-> "SPECIFY"])

(* floppy_read_data: a byte of the result, and what is left of it; 0 when  *)
(* there is none.                                                          *)
ReadByte(c) == IF c.res = <<>> THEN 0 ELSE Head(c.res)
SkipBytes(c, n) ==
    IF Len(c.res) <= n THEN (IF c.phase = "result" THEN CommandPhase(c) ELSE c)
    ELSE [c EXCEPT !.res = SubSeq(@, n + 1, Len(@))]

(* floppy_check_int: st0, the cylinder, and the controller afterwards.     *)
(* The mutant leaves the cylinder in the controller.                       *)
CheckIntShort(c) ==
    LET a == floppy_send_cmd(c, [op |-> "CHECK_INT"])
    IN [st0 |-> ReadByte(a), cyl |-> ReadByte(SkipBytes(a, 1)), fdc |-> SkipBytes(a, 1)]
floppy_check_int(c) ==
    LET a == floppy_send_cmd(c, [op |-> "CHECK_INT"])
    IN [st0 |-> ReadByte(a), cyl |-> ReadByte(SkipBytes(a, 1)), fdc |-> SkipBytes(a, 2)]

(* A transfer with the multitrack bit: the sectors of a head up to EOT,    *)
(* then, from head 0, those of head 1.                                     *)
Places(cmd) ==
    LET side(h, from) == [i \in 1 .. cmd.eot - from + 1 |-> [head |-> h, sector |-> from + i - 1]]
    IN side(cmd.head, cmd.sector) \o (IF cmd.head = 0 THEN side(1, 1) ELSE <<>>)
LbaOf(track, p) == 2 * SPT * track + SPT * p.head + p.sector - 1

(* The DMA channel is set for the driver's buffer, in this direction.      *)
DmaSet(mode) ==
    /\ Channel \notin dma.masked /\ dma.mode = mode
    /\ dma.addr = [low |-> "a0", high |-> "a1"] /\ dma.page = "a2"
    /\ dma.count = [low |-> "c0", high |-> "c1"]

(* The first n sectors of a command's extent, to and from the buffer.      *)
Slot(cmd, n, lba) == {k \in 1 .. n : LbaOf(cmd.track, Places(cmd)[k]) = lba}
Fetched(cmd, n) ==
    [k \in BufSecs |-> IF k <= n THEN disk[cmd.drive][LbaOf(cmd.track, Places(cmd)[k])] ELSE buf[k]]
Stored(cmd, n) ==
    [disk EXCEPT ![cmd.drive] = [lba \in LBAs |->
        IF Slot(cmd, n, lba) = {} THEN @[lba] ELSE buf[CHOOSE k \in Slot(cmd, n, lba) : TRUE]]]

(* The end of a seek: the heads are there, or they are not.                *)
SeekTo(c, d, to, st0) ==
    /\ cyl' = [cyl EXCEPT ![d] = to]
    /\ fdc' = [CommandPhase(c) EXCEPT !.sense = 1, !.st0 = st0, !.pcn = to]
    /\ irq' = TRUE

SeekDone ==
    /\ fdc.phase = "exec" /\ fdc.cmd.op \in {"SEEK", "CALIBRATE"}
    /\ LET d == fdc.cmd.drive
           to == IF fdc.cmd.op = "SEEK" THEN fdc.cmd.track ELSE 0
       IN \/ SeekTo(fdc, d, to, SeekEnd)
          \/ SeekTo(fdc, d, cyl[d], SeekEnd + AbnormalEnd)
    /\ UNCHANGED <<driver, disk, buf, dma, floppy_irq_done, motor, pc, tries, req, last, writes>>

(* The end of a transfer: it moved its whole extent, or stopped earlier    *)
(* with an error.  The motor is off by then; the disk still turns.         *)
Recorded == req.op = "read" /\ req.caller = "console"
Moves(cmd) == cmd.drive \in present /\ cyl[cmd.drive] = cmd.track
              /\ DmaSet(IF cmd.op = "READ_SECT" THEN "toMemory" ELSE "toDevice")
TransferDone ==
    /\ fdc.phase = "exec" /\ fdc.cmd.op \in {"READ_SECT", "WRITE_SECT"}
    /\ LET cmd == fdc.cmd
           all == IF Moves(cmd) THEN Len(Places(cmd)) ELSE 0
       IN \E n \in {all} \cup {k \in Cuts : k < all} :
             /\ buf' = IF cmd.op = "READ_SECT" THEN Fetched(cmd, n) ELSE buf
             /\ disk' = IF cmd.op = "WRITE_SECT" THEN Stored(cmd, n) ELSE disk
             /\ last' = IF Recorded
                        THEN [lba |-> req.lba, dev |-> req.dev, ret |-> "buf",
                              clean |-> n = Len(Places(cmd))]
                        ELSE last
    /\ fdc' = ResultPhase(fdc, [i \in 1 .. 7 |-> AbnormalEnd])
    /\ irq' = TRUE
    /\ UNCHANGED <<driver, dma, cyl, floppy_irq_done, motor, pc, tries, req, writes>>

(* The controller is ready again after a reset, with an interrupt for each *)
(* of four drives.                                                         *)
ResetDone ==
    /\ fdc.phase = "exec" /\ fdc.cmd.op = "RESET"
    /\ fdc' = [CommandPhase(fdc) EXCEPT !.sense = 4, !.st0 = 192]
    /\ irq' = TRUE
    /\ UNCHANGED <<driver, disk, buf, dma, cyl, floppy_irq_done, motor, pc, tries, req, last, writes>>

(* floppy_int.  A process is in a system call, where interrupts are off.   *)
floppy_int ==
    /\ irq /\ req.caller # "process"
    /\ irq' = FALSE
    /\ floppy_irq_done' = (floppy_irq_done + 1) % 256
    /\ UNCHANGED <<driver, disk, buf, dma, fdc, cyl, motor, pc, tries, req, last, writes>>
-----------------------------------------------------------------------------
(* The driver                                                              *)

(* The mutant forgets the second side.                                     *)
LbaToChsOneSide(lba) ==
    [head |-> 0, track |-> lba \div (SPT * 2), sector |-> (lba % SPT) + 1]
floppy_lba_to_chs(lba) ==
    [head |-> (lba % (SPT * 2)) \div SPT, track |-> lba \div (SPT * 2), sector |-> (lba % SPT) + 1]

(* The buffer is aligned so that the test at its start never fails.        *)
floppy_dma_init(d) ==
    LET cleared == dma_reset_flipflop(dma_mask_channel(dma_reset(d)))
        placed == dma_set_external_page_register(dma_set_address(cleared, "a0", "a1"), "a2")
        counted == dma_set_count(dma_reset_flipflop(placed), "c0", "c1")
    IN dma_unmask_all(dma_set_read(counted))

floppy_control_motor(on) == motor' = on

(* floppy_wait_irq: where it waits, the driver goes on once the interrupt  *)
(* was counted.  The mutant does not start counting again.                 *)
NotCleared(done) == done
Cleared(done) == 0
floppy_wait_irq(here, there) ==
    /\ pc = here /\ floppy_irq_done # 0
    /\ floppy_irq_done' = Cleared(floppy_irq_done)
    /\ pc' = there
    /\ UNCHANGED <<driver, hardware, motor, tries, req, last, writes>>

(* floppy_reset: the controller is off and on again; its four interrupts   *)
(* are sensed, and the drive calibrated.                                   *)
floppy_reset ==
    /\ pc = "boot" /\ todo = <<>> /\ present # {}
    /\ fdc' = [CommandPhase(fdc) EXCEPT !.phase = "exec", !.cmd = [op |-> "RESET"], !.sense = 0]
    /\ motor' = FALSE /\ tries' = 0
    /\ pc' = "resetWait"
    /\ UNCHANGED <<driver, disk, buf, dma, cyl, irq, floppy_irq_done, req, last, writes>>

ResetSense ==
    /\ pc = "resetSense" /\ tries < 4
    /\ fdc' = floppy_check_int(fdc).fdc
    /\ tries' = tries + 1
    /\ UNCHANGED <<driver, disk, buf, dma, cyl, irq, floppy_irq_done, motor, pc, req, last, writes>>

ResetEnds ==
    /\ pc = "resetSense" /\ tries = 4
    /\ fdc' = floppy_drive_data(fdc)
    /\ floppy_control_motor(TRUE) /\ tries' = 0
    /\ pc' = "cal"
    /\ UNCHANGED <<driver, disk, buf, dma, cyl, irq, floppy_irq_done, req, last, writes>>

(* floppy_calibrate: tried again until the drive is at cylinder 0, and     *)
(* given up after MaxTries.  floppy_init ends with floppy_drive_data.      *)
Calibrate ==
    /\ pc = "cal" /\ tries < MaxTries
    /\ fdc' = floppy_send_cmd(fdc, [op |-> "CALIBRATE", drive |-> cur_drive])
    /\ pc' = "calWait"
    /\ UNCHANGED <<driver, disk, buf, dma, cyl, irq, floppy_irq_done, motor, tries, req, last, writes>>

BootEnds(c) ==
    /\ floppy_control_motor(FALSE) /\ tries' = 0
    /\ fdc' = floppy_drive_data(c)
    /\ pc' = "idle"

CalibrateGivesUp ==
    /\ pc = "cal" /\ tries = MaxTries
    /\ BootEnds(fdc)
    /\ UNCHANGED <<driver, disk, buf, dma, cyl, irq, floppy_irq_done, req, last, writes>>

Failed(r) == r.st0 % 256 >= 64       \* st0 & 0xC0
CalibrateSense ==
    /\ pc = "calSense"
    /\ LET r == floppy_check_int(fdc)
       IN IF Failed(r) \/ r.cyl # 0 THEN fdc' = r.fdc /\ pc' = "cal" /\ tries' = tries + 1 /\ UNCHANGED motor
          ELSE BootEnds(r.fdc)
    /\ UNCHANGED <<driver, disk, buf, dma, cyl, irq, floppy_irq_done, req, last, writes>>

(* floppy_seek, of a request that has switched the motor on.               *)
Chs == floppy_lba_to_chs(req.lba)
Seek ==
    /\ pc = "seek" /\ tries < MaxTries
    /\ fdc' = floppy_send_cmd(fdc, [op |-> "SEEK", drive |-> cur_drive, track |-> Chs.track])
    /\ pc' = "seekWait"
    /\ UNCHANGED <<driver, disk, buf, dma, cyl, irq, floppy_irq_done, motor, tries, req, last, writes>>

(* Success switches the motor off before the transfer.                     *)
SeekSense ==
    /\ pc = "seekSense"
    /\ LET r == floppy_check_int(fdc)
           there == ~Failed(r) /\ r.cyl = Chs.track
       IN /\ fdc' = r.fdc
          /\ pc' = IF there THEN "xfer" ELSE "seek"
          /\ IF there THEN floppy_control_motor(FALSE) ELSE UNCHANGED motor
          /\ tries' = IF there THEN 0 ELSE tries + 1
    /\ UNCHANGED <<driver, disk, buf, dma, cyl, irq, floppy_irq_done, req, last, writes>>

(* A call returns to where it came from: device_register makes the drive   *)
(* it has mounted the current one.                                         *)
Returns ==
    /\ floppy_control_motor(FALSE) /\ tries' = 0 /\ req' = NoRequest
    /\ IF req.caller = "boot"
       THEN pc' = "boot" /\ cur_drive' = Head(todo) /\ todo' = Tail(todo)
       ELSE pc' = "idle" /\ UNCHANGED <<cur_drive, todo>>
    /\ UNCHANGED present

(* The seek failed: floppy_read_sector returns 0.                          *)
SeekGivesUp ==
    /\ pc = "seek" /\ tries = MaxTries
    /\ Returns
    /\ last' = IF Recorded
               THEN [lba |-> req.lba, dev |-> req.dev, ret |-> "null", clean |-> FALSE] ELSE None
    /\ UNCHANGED <<hardware, floppy_irq_done, writes>>

(* floppy_read_sector_imp and floppy_write_sector_imp: DMA, then the       *)
(* command, whose last sector is the next one.  The mutant's is the last   *)
(* of the track when writing.                                              *)
LastOfTrack(op, sector) == IF op # "read" \/ sector + 1 >= SPT THEN SPT ELSE sector + 1
LastSector(op, sector) == IF sector + 1 >= SPT THEN SPT ELSE sector + 1
Transfer ==
    /\ pc = "xfer"
    /\ dma' = IF req.op = "read" THEN dma_set_read(floppy_dma_init(dma))
              ELSE dma_set_write(floppy_dma_init(dma))
    /\ fdc' = floppy_send_cmd(fdc,
                [op |-> IF req.op = "read" THEN "READ_SECT" ELSE "WRITE_SECT",
                 drive |-> cur_drive, track |-> Chs.track, head |-> Chs.head,
                 sector |-> Chs.sector, eot |-> LastSector(req.op, Chs.sector)])
    /\ pc' = "xferWait"
    /\ UNCHANGED <<driver, disk, buf, cyl, irq, floppy_irq_done, motor, tries, req, last, writes>>

(* The result is read and not looked at; sensing then finds no interrupt,  *)
(* which a write takes for its own failure.                                *)
TransferSense ==
    /\ pc = "xferSense"
    /\ fdc' = floppy_check_int(SkipBytes(fdc, 7)).fdc
    /\ Returns
    /\ last' = IF Recorded THEN last ELSE None
    /\ UNCHANGED <<disk, buf, dma, cyl, irq, floppy_irq_done, writes>>
-----------------------------------------------------------------------------
(* The callers                                                             *)

Call(r) ==
    /\ req' = r
    /\ floppy_control_motor(TRUE) /\ tries' = 0
    /\ pc' = "seek"

(* floppy_init registers the drives, whose mounting reads sector 0, before *)
(* it resets the controller.  Without a drive nothing is done.             *)
MountRead ==
    /\ pc = "boot" /\ todo # <<>>
    /\ Call([op |-> "read", caller |-> "boot", dev |-> Head(todo), lba |-> 0])
    /\ last' = None
    /\ UNCHANGED <<driver, hardware, floppy_irq_done, writes>>

Read(who, d, lba) ==
    /\ pc = "idle" /\ d \in present
    /\ Call([op |-> "read", caller |-> who, dev |-> d, lba |-> lba])
    /\ last' = None
    /\ UNCHANGED <<driver, hardware, floppy_irq_done, writes>>

(* fat_touch, fat_delete and the end of fat_write: an entry is changed in  *)
(* the sector that was read, and the sector written.  When the read        *)
(* returned 0 the entry is looked for, and perhaps found, at address 0.    *)
Update ==
    /\ pc = "idle" /\ last # None /\ writes < MaxWrites
    /\ buf' = IF last.ret = "buf" THEN [buf EXCEPT ![1] = New] ELSE buf
    /\ Call([op |-> "update", caller |-> "console", dev |-> last.dev, lba |-> last.lba])
    /\ writes' = writes + 1
    /\ UNCHANGED <<driver, disk, dma, fdc, cyl, irq, floppy_irq_done, last>>

(* fat_write: the buffer's first sector is cleared and gets the text, and  *)
(* is written wherever the file is.                                        *)
WriteText(d, lba) ==
    /\ pc = "idle" /\ d \in present /\ writes < MaxWrites
    /\ buf' = [buf EXCEPT ![1] = New]
    /\ Call([op |-> "text", caller |-> "console", dev |-> d, lba |-> lba])
    /\ last' = None
    /\ writes' = writes + 1
    /\ UNCHANGED <<driver, disk, dma, fdc, cyl, irq, floppy_irq_done>>

-----------------------------------------------------------------------------
(* The controller as the BIOS leaves it: idle, heads and motor anywhere.   *)
Init ==
    /\ present \in Configs
    /\ disk = [d \in Drives |-> [lba \in LBAs |-> Original(d, lba)]]
    /\ buf = [k \in BufSecs |-> Blank]
    /\ dma = [masked |-> 0 .. 3, flip |-> FALSE, addr |-> [low |-> "c0", high |-> "c0"],
              count |-> [low |-> "c0", high |-> "c0"], page |-> "c0", mode |-> "toMemory"]
    /\ fdc = [phase |-> "command", cmd |-> NoCommand, res |-> <<>>, sense |-> 0, st0 |-> 0, pcn |-> 0]
    /\ cyl \in [Drives -> {0, Tracks - 1}]
    /\ irq = FALSE /\ floppy_irq_done = 0 /\ motor \in BOOLEAN
    /\ cur_drive = 0 /\ pc = "boot" /\ tries = 0
    /\ todo = (IF 0 \in present THEN <<0>> ELSE <<>>) \o (IF 1 \in present THEN <<1>> ELSE <<>>)
    /\ req = NoRequest /\ last = None /\ writes = 0

WaitIrq ==
    \/ floppy_wait_irq("resetWait", "resetSense") \/ floppy_wait_irq("calWait", "calSense")
    \/ floppy_wait_irq("seekWait", "seekSense") \/ floppy_wait_irq("xferWait", "xferSense")

DriverStep ==
    \/ MountRead \/ floppy_reset \/ ResetSense \/ ResetEnds
    \/ Calibrate \/ CalibrateGivesUp \/ CalibrateSense
    \/ Seek \/ SeekGivesUp \/ SeekSense \/ Transfer \/ TransferSense \/ WaitIrq

ControllerStep == SeekDone \/ TransferDone \/ ResetDone

Calls ==
    \E d \in Drives, lba \in Asked :
        Read("console", d, lba) \/ Read("process", d, lba) \/ WriteText(d, lba)

Next == DriverStep \/ ControllerStep \/ floppy_int \/ Calls \/ Update

Spec == Init /\ [][Next]_vars

(* The driver runs while it can, commands end, and interrupts are taken.   *)
FairSpec == Spec /\ WF_vars(DriverStep) /\ WF_vars(ControllerStep) /\ WF_vars(floppy_int)

-----------------------------------------------------------------------------
(* Properties                                                              *)

(* Whatever failed on the way, a call leaves the controller ready for the  *)
(* next command, no interrupt waiting or counted, and the motor off: the   *)
(* next floppy_wait_irq waits for the interrupt of its own command.  No    *)
(* two interrupts are ever counted at once.                                *)
AtRest ==
    /\ floppy_irq_done <= 1
    /\ pc = "idle" =>
        /\ fdc.phase = "command" /\ fdc.res = <<>> /\ fdc.sense = 0
        /\ ~irq /\ floppy_irq_done = 0 /\ ~motor

(* Of a transfer without error, the buffer begins with the sector that was *)
(* asked for, of the drive that was asked for if it is the only one.       *)
ReadGetsSector ==
    (pc = "idle" /\ last # None) =>
        (last.clean /\ Cardinality(present) = 1 => buf[1] = disk[last.dev][last.lba])

(* A sector that was read without error, changed and written again changes *)
(* on the disk; the other sectors of the transfer are written as they are. *)
UpdateIsLocal ==
    [][(disk' # disk /\ req.op = "update" /\ last.clean) =>
          disk' = [disk EXCEPT ![cur_drive][last.lba] = New]]_vars

(* A call made with interrupts on returns, failing drive or not.           *)
CallReturns == (pc # "idle" /\ req.caller # "process" /\ present # {}) ~> (pc = "idle")
=============================================================================
