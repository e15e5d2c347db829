---------------------------- MODULE SchedulerLife ----------------------------
(* The scheduler in text mode implements ProcLife: a process is the life   *)
(* of its structure, and has the CPU when the running context is one of    *)
(* its threads and no switch is in progress.                               *)
EXTENDS Scheduler

LifeOf(p) ==
    CASE pstate[p] = "ACTIVE"  -> "ready"
      [] pstate[p] = "STOPPED" -> "ended"
      [] pstate[p] = "freed"   -> "gone"
      [] OTHER                 -> "none"

RunningProc == IF walking THEN NULL ELSE parent[cpu.owner]

Life == INSTANCE ProcLife
            WITH Proc <- Tid, First <- Console, Nobody <- NULL,
                 life <- [p \in Tid |-> LifeOf(p)], running <- RunningProc

(* Every step of timer, console and user threads is a step of ProcLife or  *)
(* does not change what ProcLife sees: a process that ended never has the  *)
(* CPU again, is reaped once and only while the console runs, and a second *)
(* one is started only after that.                                         *)
ImplementsLife == Life!LifeSpec
=============================================================================
