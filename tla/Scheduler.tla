------------------------------ MODULE Scheduler ------------------------------
(***************************************************************************)
(* Processes, threads and the timer-driven round-robin scheduler of the    *)
(* kernel: proc/sched.c, proc/proc.c, proc/thread.c, the PIT interrupt     *)
(* handler drivers/x86/pit.asm and the console's "start" command           *)
(* (apps/commands.c), which creates, polls and reaps user processes.       *)
(*                                                                         *)
(* There is one CPU.  Its state is cpu, the execution context it runs: the *)
(* thread whose stack it is on, and where in the code that thread is.  A   *)
(* timer interrupt saves the context in the thread structure that the      *)
(* global list designates and loads another one.  System calls go through  *)
(* an interrupt gate, so they are atomic with respect to the timer, except *)
(* gets (which executes sti) and the endless loops that end a thread.  The *)
(* console runs with interrupts enabled: each statement of it that touches *)
(* shared state is an action of its own.                                   *)
(*                                                                         *)
(* A thread is named by its pid and a process by the pid of its main       *)
(* thread; pids are never reused.  A structure that was freed keeps its    *)
(* contents, as kfree only marks the heap block free.                      *)
(***************************************************************************)
EXTENDS Integers, FiniteSets

CONSTANTS
    MaxPid,        \* bound: threads that are ever created
    TimeSlice,     \* thread->time, in PIT ticks
    TickMod,       \* pit_ticks is a uint8_t: it wraps at this value
    TextMode,      \* is_text_mode(): no draw thread
    KmallocFails   \* whether kmalloc can fail in create_thread

ASSUME PidAssumption == MaxPid \in Nat /\ MaxPid >= 2
ASSUME TickAssumption ==
    TimeSlice \in Nat /\ TickMod \in Nat /\ TimeSlice + 1 < TickMod
ASSUME ModeAssumption == TextMode \in BOOLEAN /\ KmallocFails \in BOOLEAN

Tid == 1..MaxPid
NULL == 0
Console == 1                \* pid of the kernel's first process
KernDir == 0                \* the kernel page directory
Ptr == Tid \cup {NULL}

(* Where a context can be.  "boot".."rmend" are the statements of the      *)
(* console, "draw" is the loop of the GUI thread, the last four belong to  *)
(* user threads ("spin" is the while(1) of end_proc and stop_thread).      *)
(* "lost" is proc_state polling through a NULL process; "wild" is          *)
(* execution on a garbage stack or structure: nothing is known about it.   *)
Unlinking == {"unlink1", "unlink2", "unlink3", "unlink4"}
ConsoleAt == {"boot", "addk", "cmd", "add", "ret", "poll", "remove", "rm",
              "rmfree", "rmend", "lost"} \cup Unlinking
Label == ConsoleAt \cup {"draw", "user", "gets", "spin", "none", "wild"}
Context == [owner : Ptr, at : Label]
NoContext == [owner |-> NULL, at |-> "none"]

VARIABLES
    list, n_proc,             \* sched.c: current process, number of processes
    next, prec, pstate,       \* process_t: ring links and state
    threads, thread_list,     \* process_t: thread counter, current thread
    pdir,                     \* process_t: page directory
    tnext, tprec, parent,     \* thread_t: ring links and process
    esp_kernel,               \* thread_t: the saved context
    tstate,                   \* life of a thread_t: none, live, freed
    pid,                      \* thread.c: next pid
    sched_on, pit_ticks,      \* pit.c
    cpu, walking,             \* running context; inside schedule()'s loop
    esp0, current_dir,        \* TSS stack (by owner), loaded page directory
    proc, procn, cur, app, i  \* locals of start_proc, console_start,
                              \* remove_proc and sched_remove_proc

procVars == <<list, n_proc, next, prec>>
procData == <<pstate, threads, pdir>>
ringVars == <<tnext, tprec, parent>>
cpuVars == <<walking, esp0, current_dir>>
pitVars == <<sched_on, pit_ticks>>
locals == <<proc, procn, cur, app, i>>
vars == <<procVars, procData, thread_list, ringVars, esp_kernel, tstate, pid,
          pitVars, cpu, cpuVars, locals>>

-----------------------------------------------------------------------------
(* The lists of the kernel, as the loops of the code walk them.            *)

(* The first k + 1 elements from start along the links nxt. *)
Visited(nxt, start, k) ==
    LET hop[j \in 0..k] == IF j = 0 THEN start ELSE nxt[hop[j - 1]]
    IN  {hop[j] : j \in 0..k}

(* What get_proc_by_id's outer and inner loop look at. *)
ProcsVisited == Visited(next, list, n_proc - 1)
ThreadsVisited(p) == Visited(tnext, thread_list[p], threads[p] - 1)

(* The process one of whose threads has the pid, NULL if there is none.    *)
get_proc_by_id(id) ==
    IF \E p \in ProcsVisited : id \in ThreadsVisited(p)
    THEN CHOOSE p \in ProcsVisited : id \in ThreadsVisited(p)
    ELSE NULL

Main(t) == parent[t] = t
CurThread == thread_list[list]        \* get_cur_proc()->thread_list

Running(l) == ~walking /\ cpu.at = l
Goto(l) == cpu' = [cpu EXCEPT !.at = l]

-----------------------------------------------------------------------------
(* sched_init: the console is the only process and is about to run         *)
(* main_proc.                                                              *)
Init ==
    /\ list = Console /\ n_proc = 1
    /\ next = [t \in Tid |-> IF t = Console THEN Console ELSE NULL]
    /\ prec = next
    /\ pstate = [t \in Tid |-> IF t = Console THEN "ACTIVE" ELSE "none"]
    /\ threads = [t \in Tid |-> IF t = Console THEN 1 ELSE 0]
    /\ thread_list = next
    /\ pdir = [t \in Tid |-> KernDir]
    /\ tnext = next /\ tprec = next /\ parent = next
    /\ esp_kernel = [t \in Tid |-> IF t = Console
                                   THEN [owner |-> Console, at |-> "boot"]
                                   ELSE NoContext]
    /\ tstate = [t \in Tid |-> IF t = Console THEN "live" ELSE "none"]
    /\ pid = 2
    /\ sched_on = 1 /\ pit_ticks = 0
    /\ cpu = esp_kernel[Console] /\ walking = FALSE
    /\ esp0 = Console /\ current_dir = KernDir
    /\ proc = NULL /\ procn = NULL /\ cur = NULL /\ app = NULL /\ i = 0

-----------------------------------------------------------------------------
(* The timer interrupt: pit_int and schedule.                              *)

(* inc byte [pit_ticks]; the mutant is a counter that does not wrap. *)
NewTicksWide == pit_ticks + 1
NewTicks == (pit_ticks + 1) % TickMod
SliceOver == sched_on = 1 /\ NewTicks > TimeSlice

(* pit_int with the scheduler off, or schedule returning at once: only the *)
(* tick counter changes.                                                   *)
TickQuiet ==
    /\ ~walking /\ cpu.at # "wild"
    /\ ~SliceOver
    /\ pit_ticks' = NewTicks
    /\ UNCHANGED <<procVars, procData, thread_list, ringVars, esp_kernel,
                   tstate, pid, sched_on, cpu, cpuVars, locals>>

(* Where schedule saves the context, and the thread that runs when the     *)
(* process has its next turn.  The mutants save after the rotation and     *)
(* forget the rotation.                                                    *)
SaveSlotLate == tnext[CurThread]
SaveSlot == CurThread
NextThreadSame == CurThread
NextThread == tnext[CurThread]

(* schedule up to the first list = list->next.  The current context is     *)
(* saved in the thread that list designates, whoever it belongs to.        *)
TickSwitch ==
    /\ ~walking /\ cpu.at # "wild"
    /\ SliceOver
    /\ pit_ticks' = 0
    /\ esp_kernel' = [esp_kernel EXCEPT ![SaveSlot] = cpu]
    /\ thread_list' = [thread_list EXCEPT ![list] = NextThread]
    /\ list' = next[list]
    /\ walking' = TRUE
    /\ UNCHANGED <<n_proc, next, prec, procData, ringVars, tstate, pid,
                   sched_on, cpu, esp0, current_dir, locals>>

(* One more iteration of the loop that skips stopped processes.            *)
SchedWalk ==
    /\ walking
    /\ pstate[list] = "STOPPED"
    /\ list' = next[list]
    /\ UNCHANGED <<n_proc, next, prec, procData, thread_list, ringVars,
                   esp_kernel, tstate, pid, pitVars, cpu, cpuVars, locals>>

(* A saved context is stale when a later context of the same thread sits   *)
(* in the structure of another one: the frame it points to is overwritten. *)
Stale(t) == \E u \in Tid \ {t} : esp_kernel[u].owner = t

(* set_esp0; the mutant leaves the previous thread's kernel stack.         *)
SetEsp0Skipped == esp0' = esp0
SetEsp0 == esp0' = CurThread

(* The rest of schedule and pit_int: kernel stack, page directory, iret.   *)
SchedLoad ==
    /\ walking
    /\ pstate[list] # "STOPPED"
    /\ walking' = FALSE
    /\ SetEsp0
    /\ current_dir' = pdir[list]
    /\ cpu' = IF Stale(CurThread)
              THEN [esp_kernel[CurThread] EXCEPT !.at = "wild"]
              ELSE esp_kernel[CurThread]
    /\ UNCHANGED <<procVars, procData, thread_list, ringVars, esp_kernel,
                   tstate, pid, pitVars, locals>>

-----------------------------------------------------------------------------
(* Creating processes: start_kernel_proc, start_proc, sched_add_proc.      *)

(* create_thread, and the fields its callers fill in, for thread t of      *)
(* process p.                                                              *)
CreateThread(t, p) ==
    /\ pid' = pid + 1
    /\ tstate' = [tstate EXCEPT ![t] = "live"]
    /\ parent' = [parent EXCEPT ![t] = p]

(* A process structure whose main thread is ready to run from label l.     *)
BuildProc(p, dir, l) ==
    /\ CreateThread(p, p)
    /\ tnext' = [tnext EXCEPT ![p] = p]
    /\ tprec' = [tprec EXCEPT ![p] = p]
    /\ thread_list' = [thread_list EXCEPT ![p] = p]
    /\ esp_kernel' = [esp_kernel EXCEPT ![p] = [owner |-> p, at |-> l]]
    /\ threads' = [threads EXCEPT ![p] = 1]
    /\ pstate' = [pstate EXCEPT ![p] = "ACTIVE"]
    /\ pdir' = [pdir EXCEPT ![p] = dir]
    /\ proc' = p

(* main_proc in text mode goes straight to the console.                    *)
BootText ==
    /\ Running("boot") /\ TextMode
    /\ Goto("cmd")
    /\ UNCHANGED <<procVars, procData, thread_list, ringVars, esp_kernel,
                   tstate, pid, pitVars, cpuVars, locals>>

(* main_proc in GUI mode first starts the draw thread; when create_thread  *)
(* fails the console starts without it.                                    *)
BootGui ==
    /\ Running("boot") /\ ~TextMode
    /\ \/ /\ BuildProc(pid, KernDir, "draw")
          /\ Goto("addk")
       \/ /\ KmallocFails
          /\ Goto("cmd")
          /\ UNCHANGED <<procData, thread_list, ringVars, esp_kernel, tstate,
                         pid, proc>>
    /\ UNCHANGED <<procVars, pitVars, cpuVars, procn, cur, app, i>>

(* start_proc up to sched_add_proc.                                        *)
StartProc ==
    /\ Running("cmd") /\ pid <= MaxPid
    /\ BuildProc(pid, pid, "user")
    /\ Goto("add")
    /\ UNCHANGED <<procVars, pitVars, cpuVars, procn, cur, app, i>>

(* load_elf, build_stack or build_heap failed: the structures built so far *)
(* are not released.  A failure before create_thread changes nothing here. *)
StartProcFails ==
    /\ Running("cmd") /\ pid <= MaxPid
    /\ CreateThread(pid, pid)
    /\ tnext' = [tnext EXCEPT ![pid] = pid]
    /\ tprec' = [tprec EXCEPT ![pid] = pid]
    /\ thread_list' = [thread_list EXCEPT ![pid] = pid]
    /\ pstate' = [pstate EXCEPT ![pid] = "NEW"]
    /\ sched_on' = 1
    /\ UNCHANGED <<procVars, threads, pdir, esp_kernel, pit_ticks, cpu,
                   cpuVars, locals>>

(* The links after sched_add_proc.  The mutants drop proc->next->prec =    *)
(* proc and proc->next = list->next.                                       *)
AddedPrecOneWay == [prec EXCEPT ![proc] = list]
AddedPrec == [prec EXCEPT ![proc] = list, ![next[list]] = proc]
AddedNextOpen == [next EXCEPT ![proc] = proc, ![list] = proc]
AddedNext == [next EXCEPT ![proc] = next[list], ![list] = proc]

(* sched_add_proc: with sched_on = 0 around it, one step.                  *)
SchedAdd ==
    /\ Running("add") \/ Running("addk")
    /\ n_proc' = n_proc + 1
    /\ prec' = AddedPrec /\ next' = AddedNext
    /\ sched_on' = 1
    /\ Goto(IF cpu.at = "add" THEN "ret" ELSE "cmd")
    /\ UNCHANGED <<list, procData, thread_list, ringVars, esp_kernel, tstate,
                   pid, pit_ticks, cpuVars, locals>>

(* return proc->thread_list->pid: read after the process became runnable.  *)
StartProcReturn ==
    /\ Running("ret")
    /\ procn' = thread_list[proc]
    /\ Goto("poll")
    /\ UNCHANGED <<procVars, procData, thread_list, ringVars, esp_kernel,
                   tstate, pid, pitVars, cpuVars, proc, cur, app, i>>

-----------------------------------------------------------------------------
(* Waiting for a process and removing it: console_start, remove_proc,      *)
(* sched_remove_proc.                                                      *)

(* proc_state(procn) == PROC_STOPPED; the mutant does not wait.            *)
HasStoppedAlways(p) == TRUE
HasStopped(p) == pstate[p] = "STOPPED"

(* An iteration of while(proc_state(procn) != PROC_STOPPED) that ends it;  *)
(* one that does not changes nothing.                                      *)
PollStopped ==
    /\ Running("poll")
    /\ LET p == get_proc_by_id(procn) IN p # NULL /\ HasStopped(p)
    /\ Goto("remove")
    /\ UNCHANGED <<procVars, procData, thread_list, ringVars, esp_kernel,
                   tstate, pid, pitVars, cpuVars, locals>>

(* proc_state dereferences NULL: it reads low memory.  A value other than  *)
(* PROC_STOPPED keeps the console polling, the other one sends remove_proc *)
(* through the NULL process.                                               *)
PollNull ==
    /\ Running("poll")
    /\ get_proc_by_id(procn) = NULL
    /\ \/ Goto("lost")
       \/ Goto("wild")
    /\ UNCHANGED <<procVars, procData, thread_list, ringVars, esp_kernel,
                   tstate, pid, pitVars, cpuVars, locals>>

RemoveBegin ==
    /\ Running("remove")
    /\ cur' = get_proc_by_id(procn)
    /\ i' = 0
    /\ Goto(IF cur' = NULL THEN "wild" ELSE "rm")
    /\ UNCHANGED <<procVars, procData, thread_list, ringVars, esp_kernel,
                   tstate, pid, pitVars, cpuVars, proc, procn, app>>

(* The bound of the loop over the threads; the mutant is one too small.    *)
ThreadsToFreeLess == threads[cur] - 1
ThreadsToFree == threads[cur]

(* The head of that loop, for the main thread and for the others.          *)
RemoveMain ==
    /\ Running("rm") /\ i < ThreadsToFree
    /\ Main(thread_list[cur])
    /\ app' = get_proc_by_id(thread_list[cur])
    /\ Goto(IF app' = NULL THEN "rmfree" ELSE "unlink1")
    /\ UNCHANGED <<procVars, procData, thread_list, ringVars, esp_kernel,
                   tstate, pid, pitVars, cpuVars, proc, procn, cur, i>>

RemoveOther ==
    /\ Running("rm") /\ i < ThreadsToFree
    /\ ~Main(thread_list[cur])
    /\ Goto("rmfree")
    /\ UNCHANGED <<procVars, procData, thread_list, ringVars, esp_kernel,
                   tstate, pid, pitVars, cpuVars, locals>>

(* The four statements of sched_remove_proc, with the scheduler on.        *)
Unlink1 ==
    /\ Running("unlink1")
    /\ next' = [next EXCEPT ![prec[app]] = next[app]]
    /\ Goto("unlink2")
    /\ UNCHANGED <<list, n_proc, prec, procData, thread_list, ringVars,
                   esp_kernel, tstate, pid, pitVars, cpuVars, locals>>

Unlink2 ==
    /\ Running("unlink2")
    /\ prec' = [prec EXCEPT ![next[app]] = prec[app]]
    /\ Goto("unlink3")
    /\ UNCHANGED <<list, n_proc, next, procData, thread_list, ringVars,
                   esp_kernel, tstate, pid, pitVars, cpuVars, locals>>

Unlink3 ==
    /\ Running("unlink3")
    /\ n_proc' = n_proc - 1
    /\ Goto("unlink4")
    /\ UNCHANGED <<list, next, prec, procData, thread_list, ringVars,
                   esp_kernel, tstate, pid, pitVars, cpuVars, locals>>

Unlink4 ==
    /\ Running("unlink4")
    /\ list' = next[app]
    /\ Goto("rmfree")
    /\ UNCHANGED <<n_proc, next, prec, procData, thread_list, ringVars,
                   esp_kernel, tstate, pid, pitVars, cpuVars, locals>>

(* The rest of the loop body.  A thread that exited is no longer in the    *)
(* ring but is still counted by threads, so the loop may come round to a   *)
(* structure it has freed; kfree ignores that.                             *)
RemoveFree ==
    /\ Running("rmfree")
    /\ tstate' = [tstate EXCEPT ![thread_list[cur]] = "freed"]
    /\ thread_list' = [thread_list EXCEPT ![cur] = tnext[thread_list[cur]]]
    /\ i' = i + 1
    /\ Goto("rm")
    /\ UNCHANGED <<procVars, procData, ringVars, esp_kernel, pid, pitVars,
                   cpuVars, proc, procn, cur, app>>

RemoveLoopEnd ==
    /\ Running("rm") /\ i >= ThreadsToFree
    /\ Goto("rmend")
    /\ UNCHANGED <<procVars, procData, thread_list, ringVars, esp_kernel,
                   tstate, pid, pitVars, cpuVars, locals>>

RemoveEnd ==
    /\ Running("rmend")
    /\ current_dir' = KernDir
    /\ pstate' = [pstate EXCEPT ![cur] = "freed"]
    /\ Goto("cmd")
    /\ UNCHANGED <<procVars, threads, pdir, thread_list, ringVars, esp_kernel,
                   tstate, pid, pitVars, walking, esp0, locals>>

-----------------------------------------------------------------------------
(* System calls of user threads.  They find themselves as                  *)
(* get_cur_proc()->thread_list.                                            *)

(* start_thread: the child is linked after the caller and starts in user   *)
(* mode at whatever eip its fresh structure held.                          *)
Fork ==
    /\ Running("user") /\ pid <= MaxPid
    /\ CreateThread(pid, list)
    /\ esp_kernel' = [esp_kernel EXCEPT ![pid] = [owner |-> pid, at |-> "user"]]
    /\ threads' = [threads EXCEPT ![list] = @ + 1]
    /\ tprec' = [tprec EXCEPT ![pid] = CurThread, ![tnext[CurThread]] = pid]
    /\ tnext' = [tnext EXCEPT ![pid] = tnext[CurThread], ![CurThread] = pid]
    /\ sched_on' = 1
    /\ UNCHANGED <<procVars, pstate, pdir, thread_list, pit_ticks, cpu, cpuVars,
                   locals>>

(* create_thread returned NULL: start_thread returns with sched_on = 0.    *)
ForkNoThread ==
    /\ Running("user") /\ KmallocFails
    /\ sched_on' = 0
    /\ UNCHANGED <<procVars, procData, thread_list, ringVars, esp_kernel,
                   tstate, pid, pit_ticks, cpu, cpuVars, locals>>

(* build_stack or build_heap failed: the thread is freed, its pid is spent.*)
ForkNoMemory ==
    /\ Running("user") /\ pid <= MaxPid
    /\ pid' = pid + 1
    /\ tstate' = [tstate EXCEPT ![pid] = "freed"]
    /\ parent' = [parent EXCEPT ![pid] = list]
    /\ sched_on' = 1
    /\ UNCHANGED <<procVars, procData, thread_list, tnext, tprec, esp_kernel,
                   pit_ticks, cpu, cpuVars, locals>>

(* The links after a thread left the ring; the mutant forgets prec->next.  *)
ExitedNextStale == tnext
ExitedNext == [tnext EXCEPT ![tprec[CurThread]] = tnext[CurThread]]

(* sched_state(1); enable_int(); while(1): how a thread ends.  The mutant  *)
(* forgets to turn the scheduler on.                                       *)
SpinOff == sched_on' = 0 /\ Goto("spin")
Spin == sched_on' = 1 /\ Goto("spin")

(* stop_thread of a thread other than the main one: it frees itself and    *)
(* spins until the timer takes the CPU away; cur->thread_list still        *)
(* designates it.                                                          *)
ExitThread ==
    /\ Running("user") /\ ~Main(CurThread)
    /\ tprec' = [tprec EXCEPT ![tnext[CurThread]] = tprec[CurThread]]
    /\ tnext' = ExitedNext
    /\ tstate' = [tstate EXCEPT ![CurThread] = "freed"]
    /\ Spin
    /\ UNCHANGED <<procVars, procData, thread_list, parent, esp_kernel, pid,
                   pit_ticks, cpuVars, locals>>

(* end_proc: stop_thread of the main thread, or end_process after a return *)
(* from main or an exception, in any thread.                               *)
EndProc ==
    /\ Running("user")
    /\ pstate' = [pstate EXCEPT ![list] = "STOPPED"]
    /\ Spin
    /\ UNCHANGED <<procVars, threads, pdir, thread_list, ringVars, esp_kernel,
                   tstate, pid, pit_ticks, cpuVars, locals>>

(* gets waits for the Enter key with interrupts on and the scheduler off.  *)
GetsBegin ==
    /\ Running("user")
    /\ sched_on' = 0
    /\ Goto("gets")
    /\ UNCHANGED <<procVars, procData, thread_list, ringVars, esp_kernel,
                   tstate, pid, pit_ticks, cpuVars, locals>>

GetsEnd ==
    /\ Running("gets")
    /\ sched_on' = 1
    /\ Goto("user")
    /\ UNCHANGED <<procVars, procData, thread_list, ringVars, esp_kernel,
                   tstate, pid, pit_ticks, cpuVars, locals>>

(* After "wild" nothing is known; the model stops there.                   *)
Undefined == cpu.at = "wild" /\ UNCHANGED vars

-----------------------------------------------------------------------------
Timer == TickQuiet \/ TickSwitch
Switch == SchedWalk \/ SchedLoad
Boot == BootText \/ BootGui
Unlink == Unlink1 \/ Unlink2 \/ Unlink3 \/ Unlink4
Remove ==
    RemoveBegin \/ RemoveMain \/ RemoveOther \/ Unlink \/ RemoveFree
                \/ RemoveLoopEnd \/ RemoveEnd
Start == StartProc \/ StartProcFails
Wait == SchedAdd \/ StartProcReturn \/ PollStopped \/ PollNull
User == Fork \/ ForkNoThread \/ ForkNoMemory \/ ExitThread \/ EndProc
             \/ GetsBegin \/ GetsEnd

Next == Timer \/ Switch \/ Boot \/ Start \/ Wait \/ Remove \/ User \/ Undefined

Spec == Init /\ [][Next]_vars

(* The timer keeps interrupting; an interrupt handler runs to its end; the *)
(* console, which gets the CPU for whole time slices, cannot be switched   *)
(* out for ever without executing its next instruction.  Nothing is        *)
(* assumed of user code or of the commands typed.                          *)
Fairness ==
    /\ WF_vars(Timer) /\ WF_vars(Switch)
    /\ SF_vars(Boot) /\ SF_vars(Wait) /\ SF_vars(Remove)

FairSpec == Spec /\ Fairness
-----------------------------------------------------------------------------
(* Properties.                                                             *)

TypeOK ==
    /\ list \in Ptr /\ n_proc \in Nat
    /\ next \in [Tid -> Ptr] /\ prec \in [Tid -> Ptr]
    /\ pstate \in [Tid -> {"none", "NEW", "ACTIVE", "STOPPED", "freed"}]
    /\ threads \in [Tid -> Nat] /\ thread_list \in [Tid -> Ptr]
    /\ pdir \in [Tid -> Ptr]
    /\ tnext \in [Tid -> Ptr] /\ tprec \in [Tid -> Ptr]
    /\ parent \in [Tid -> Ptr]
    /\ esp_kernel \in [Tid -> Context]
    /\ tstate \in [Tid -> {"none", "live", "freed"}]
    /\ pid \in 2..(MaxPid + 1)
    /\ sched_on \in {0, 1} /\ pit_ticks \in 0..(TickMod - 1)
    /\ cpu \in Context /\ walking \in BOOLEAN
    /\ esp0 \in Tid /\ current_dir \in Ptr
    /\ proc \in Ptr /\ procn \in Ptr /\ cur \in Ptr /\ app \in Ptr
    /\ i \in Nat

(* Where the console is, running or suspended.                             *)
ConsoleIs == IF cpu.owner = Console /\ ~walking
             THEN cpu.at ELSE esp_kernel[Console].at

(* The processes make one ring: the n_proc hops that get_proc_by_id and    *)
(* print_procs take visit n_proc different processes, every link back      *)
(* undoes a link forward, and the walk comes back to where it began - at   *)
(* every instant the timer can strike, except between the statements of    *)
(* sched_remove_proc.                                                      *)
ProcRing ==
    ConsoleIs \notin {"unlink2", "unlink3", "unlink4"} =>
        /\ Cardinality(ProcsVisited) = n_proc
        /\ \A p \in ProcsVisited : next[p] \in ProcsVisited /\ prec[next[p]] = p

(* The threads of a process that is not being removed make one ring with   *)
(* exactly its live threads, however forks and exits interleaved with the  *)
(* rotation of thread_list; this is what schedule rotates through and what *)
(* remove_proc frees.                                                      *)
LiveThreads(p) == {t \in Tid : parent[t] = p /\ tstate[t] = "live"}
BeingRemoved(p) == cur = p /\ ConsoleIs \in Unlinking \cup {"rm", "rmfree", "rmend"}
ThreadRing ==
    \A p \in ProcsVisited : ~BeingRemoved(p) =>
        LET live == LiveThreads(p)
        IN  /\ \A t \in live : tnext[t] \in live /\ tprec[tnext[t]] = t
            /\ \A t \in live : Visited(tnext, t, Cardinality(live) - 1) = live
            /\ tnext[thread_list[p]] \in live
            /\ Cardinality(live) <= threads[p]

(* "esp_kernel: thread's kernel stack pointer" (thread.h): what schedule   *)
(* saved in a thread's structure is a context of that thread and never of  *)
(* another one.                                                            *)
SavedContextOwn ==
    \A t \in Tid : esp_kernel[t] = NoContext \/ esp_kernel[t].owner = t

(* The globals agree with the CPU whenever code runs: list->thread_list is *)
(* the thread whose stack is in use, so system calls act on their caller   *)
(* and schedule saves into the right structure; an interrupt from user     *)
(* mode enters on that thread's kernel stack, in its address space.        *)
CpuMatchesList ==
    ~walking =>
        /\ CurThread = cpu.owner
        /\ esp0 = cpu.owner
        /\ current_dir = pdir[list]

(* schedule never resumes a thread that exited, a process that ended, or   *)
(* a structure that was freed, although an exited thread stays in          *)
(* cur->thread_list until the next switch.                                 *)
LoadsOnlyLive ==
    walking /\ pstate[list] # "STOPPED" =>
        /\ pstate[list] = "ACTIVE"
        /\ tstate[CurThread] = "live" /\ parent[CurThread] = list
        /\ esp_kernel[CurThread].at # "spin"

(* remove_proc leaves nothing behind: when the console has freed a process *)
(* structure, every thread of it was freed, none is reachable from the     *)
(* ring, and neither the CPU nor the TSS uses it - although the loop runs  *)
(* threads times, a number that is never decremented.                      *)
ReapedCompletely ==
    \A p \in Tid : pstate[p] = "freed" =>
        /\ \A t \in Tid : parent[t] = p => tstate[t] = "freed"
        /\ p \notin ProcsVisited
        /\ parent[esp0] # p /\ current_dir # p

(* Until the console removes a process for the first time, both hold in    *)
(* GUI mode too, where removing one breaks them (list = app->next).        *)
ContextsBeforeRemoval == cur = NULL => SavedContextOwn /\ CpuMatchesList

(* The scheduler is only off while a user thread waits in gets: every      *)
(* path of the system calls turns it on again (when kmalloc succeeds).     *)
SchedOffOnlyInGets ==
    sched_on = 0 => cpu.at = "gets" \/ (KmallocFails /\ cpu.at = "user")

(* "Returns given id process state" (proc.c): the pid that start_proc      *)
(* returned identifies the process until the console has removed it.       *)
PolledPidKnown == cpu.at = "poll" /\ ~walking => get_proc_by_id(procn) # NULL

(* A process is taken off the ring, and its structure released, only after *)
(* it ended by itself, and a process that ended never becomes active again.*)
EndStep ==
    \A p \in Tid :
        /\ pstate[p] = "STOPPED" => pstate'[p] \in {"STOPPED", "freed"}
        /\ pstate'[p] = "freed" /\ pstate[p] # "freed" => pstate[p] = "STOPPED"
        /\ (p \in ProcsVisited /\ p \notin ProcsVisited'
               => pstate[p] = "STOPPED" /\ cpu.owner # p)
EndIsFinal == [][EndStep]_vars

(* A process that ended is removed in the end, unless the console lost it. *)
EndedIsReaped ==
    \A p \in Tid :
        pstate[p] = "STOPPED" ~> pstate[p] = "freed" \/ ConsoleIs \in {"lost", "wild"}

(* The do-while loop of schedule terminates: with interrupts off, a ring   *)
(* of stopped processes would hang the machine.                            *)
ScheduleReturns == walking ~> ~walking

(* No runnable thread is left out for ever: the round robin over processes *)
(* and, within each, over threads reaches it, unless its process ends or   *)
(* user code keeps turning the scheduler off (gets, a failing fork).       *)
Runnable(t) ==
    tstate[t] = "live" /\ parent[t] \in ProcsVisited /\ pstate[parent[t]] = "ACTIVE"
EveryThreadRuns ==
    \A t \in Tid :
        Runnable(t) ~> \/ cpu.owner = t /\ ~walking
                       \/ ~Runnable(t)
                       \/ cpu.at = "wild"
                       \/ []<>(sched_on = 0)
=============================================================================
