---------------------------- MODULE SchedulerInv ----------------------------
(***************************************************************************)
(* The inductive invariant of Scheduler in text mode.  It says, for each   *)
(* place the console can be at, what the process ring looks like, that the *)
(* threads of the user process make one ring, how far remove_proc has      *)
(* come round it, and what the CPU may be doing.  Two more follow, for     *)
(* text and GUI mode: where contexts are saved and links lead, and the     *)
(* ring that the processes make.                                           *)
(***************************************************************************)
EXTENDS SchedulerLife

(* The console's places: no user process linked; one linked; in the loop   *)
(* of remove_proc; in remove_proc at all.                                  *)
IdleAt == {"boot", "cmd", "add"}
WaitAt == {"ret", "poll", "lost", "wild"}
LoopAt == {"rm", "rmfree"} \cup Unlinking
RemoveAt == {"remove", "rmend"} \cup LoopAt
BusyAt == WaitAt \cup RemoveAt

(* A thread structure whose kernel stack was built.                        *)
Built(t) == t \in Tid /\ esp_kernel[t].owner = t

(* The console's own structures never change.                              *)
ConsoleInv ==
    /\ thread_list[Console] = Console /\ threads[Console] = 1
    /\ tnext[Console] = Console /\ parent[Console] = Console /\ tstate[Console] = "live"
    /\ pstate[Console] = "ACTIVE" /\ pdir[Console] = KernDir
    /\ Built(Console)
    /\ ConsoleIs \in IdleAt \cup BusyAt

(* No other thread joins the console's ring.                               *)
ConsoleRing ==
    tprec[Console] = Console /\ \A t \in Tid : parent[t] = Console => t = Console

OneProc == next[Console] = Console /\ prec[Console] = Console /\ n_proc = 1
           /\ list = Console
TwoProcs == next[Console] = proc /\ prec[Console] = proc /\ n_proc = 2
            /\ list \in {Console, proc}

(* The process ring, as far as sched_remove_proc has come.                 *)
RingShape ==
    /\ ConsoleIs \in IdleAt \cup {"rmend", "unlink4"} => OneProc
    /\ ConsoleIs \in WaitAt \cup {"remove", "unlink1"} => TwoProcs
    /\ ConsoleIs \in {"rm", "rmfree"} => OneProc \/ TwoProcs
    /\ ConsoleIs = "unlink2" => next[Console] = Console /\ prec[Console] = proc
                                /\ n_proc = 2 /\ list = Console
    /\ ConsoleIs = "unlink3" => next[Console] = Console /\ prec[Console] = Console
                                /\ n_proc = 2 /\ list = Console
    /\ ConsoleIs \in BusyAt => next[proc] = Console /\ prec[proc] = Console

(* The user process the console deals with: proc, later cur and app too.   *)
ProcInv ==
    /\ ConsoleIs \in BusyAt \cup {"add"} =>
          /\ proc \in Tid \ {Console} /\ proc < pid
          /\ parent[proc] = proc /\ pdir[proc] = proc
          /\ Built(thread_list[proc]) /\ parent[thread_list[proc]] = proc
          /\ pstate[proc] \in {"ACTIVE", "STOPPED"}
    /\ ConsoleIs = "add" => pstate[proc] = "ACTIVE"
    /\ ConsoleIs \in {"poll", "remove"} => procn \in Tid \ {Console}
    /\ ConsoleIs \in RemoveAt => pstate[proc] = "STOPPED"
    /\ ConsoleIs \in LoopAt \cup {"rmend"} => cur = proc
    /\ ConsoleIs \in Unlinking => app = proc /\ thread_list[proc] = proc
    /\ ConsoleIs = "rmfree" /\ TwoProcs => thread_list[proc] # proc
    /\ ConsoleIs = "rmend" => \A t \in Tid : parent[t] = proc => tstate[t] = "freed"

(* At most one user process exists, and what was freed stays freed.        *)
OneUser ==
    \A q \in Tid \ {Console} :
        /\ pstate[q] \in {"ACTIVE", "STOPPED"}
              => q = proc /\ ConsoleIs \in BusyAt \cup {"add"}
        /\ pstate[q] = "freed" => \A t \in Tid : parent[t] = q => tstate[t] = "freed"

(* thr lists the ring of proc's threads, from the main one on.             *)
RingSeq(thr, n) ==
    /\ thr[1] = proc
    /\ \A j \in 1..n :
          /\ Built(thr[j]) /\ parent[thr[j]] = proc
          /\ tnext[thr[j]] = thr[IF j = n THEN 1 ELSE j + 1]
          /\ tprec[thr[j]] = thr[IF j = 1 THEN n ELSE j - 1]
    /\ \A j, k \in 1..n : thr[j] = thr[k] => j = k
    /\ \A t \in Tid : parent[t] = proc /\ tstate[t] = "live" => \E j \in 1..n : t = thr[j]

(* Before the removal every thread in the ring is live, and the current    *)
(* one is in it or has just exited and still spins on the CPU.             *)
Exited(t, thr, n) ==
    /\ list = proc /\ ~walking /\ cpu.at = "spin" /\ tstate[t] # "live"
    /\ \E k \in 1..n : tnext[t] = thr[k]
AtRest(thr, n) ==
    /\ \A j \in 1..n : tstate[thr[j]] = "live"
    /\ \/ \E k \in 1..n : thread_list[proc] = thr[k]
       \/ Exited(thread_list[proc], thr, n)

(* During the removal: enough iterations are left to reach every thread    *)
(* that is still live, and the main one if the process is still linked.    *)
Distance(k, j, n) == IF j >= k THEN j - k ELSE j - k + n
LoopProgress(thr, n) ==
    \E k \in 1..n :
        /\ thread_list[proc] = thr[k]
        /\ \A j \in 1..n : tstate[thr[j]] = "live" => Distance(k, j, n) < threads[proc] - i
        /\ TwoProcs => Distance(k, 1, n) < threads[proc] - i

ThreadsOK(thr, n) ==
    /\ RingSeq(thr, n)
    /\ ConsoleIs \notin LoopAt \cup {"rmend"} => AtRest(thr, n)
    /\ ConsoleIs \in LoopAt => LoopProgress(thr, n)
ThreadsInv ==
    ConsoleIs \in BusyAt \cup {"add"} =>
        \E n \in 1..threads[proc] : \E thr \in [1..n -> Tid] : ThreadsOK(thr, n)

(* Pids from pid on are unused, those below are not.                       *)
FreshInv ==
    \A t \in Tid :
        /\ t >= pid => /\ esp_kernel[t] = NoContext /\ pstate[t] = "none"
                       /\ parent[t] = NULL
        /\ parent[t] < pid /\ (parent[t] # NULL => tstate[t] # "none")

(* What runs: a built thread of the console or of proc, at a place that    *)
(* fits it; user code only runs in a process that has not ended.           *)
UserAt == {"user", "gets", "spin"}
CpuInv ==
    /\ Built(cpu.owner)
    /\ esp0 = cpu.owner /\ current_dir = pdir[parent[cpu.owner]]
    /\ ~walking => CurThread = cpu.owner
    /\ cpu.owner = Console => cpu.at \in IdleAt \cup BusyAt
    /\ cpu.owner # Console => /\ parent[cpu.owner] = proc /\ cpu.at \in UserAt
                              /\ ConsoleIs \in WaitAt
    /\ cpu.at \in {"user", "gets"} /\ ~walking => pstate[list] = "ACTIVE"
    /\ cpu.at = "spin" /\ tstate[cpu.owner] = "live" => pstate[proc] = "STOPPED"
SavedInv ==
    \A t \in Tid \ {Console} : Built(t) =>
        /\ esp_kernel[t].at \in UserAt /\ parent[t] # NULL
        /\ (esp_kernel[t].at = "spin" /\ tstate[t] = "live" /\ parent[t] = proc
               => pstate[proc] = "STOPPED")

TextInv ==
    /\ TypeOK /\ ConsoleInv /\ RingShape /\ ProcInv /\ OneUser /\ ThreadsInv
    /\ FreshInv /\ CpuInv /\ SavedInv /\ SavedContextOwn

-----------------------------------------------------------------------------
(* An invariant for both modes, which says of each thread and each process *)
(* only where its own links lead.  It tells apart the time in which the    *)
(* globals agree with the CPU; the slice in which the console goes on      *)
(* after sched_remove_proc has set list to another process; and the time   *)
(* after the tick that saves the console's context in that process, up to  *)
(* the moment when the scheduler loads the console and all is undefined.   *)
(* What makes that moment come is the order of the ring: a process is      *)
(* linked in after the console, so that pids fall from there on.           *)
Made(t) == esp_kernel[t] # NoContext
OthersAt == UserAt \cup {"draw"}
InRing == {p \in Tid : next[p] # NULL}
MainOf(p) == p \in Tid \ {Console} /\ Made(p) /\ parent[p] = p

LinkTypes ==
    /\ list \in Tid /\ n_proc \in Int /\ pid \in 2..(MaxPid + 1) /\ walking \in BOOLEAN
    /\ next \in [Tid -> Ptr] /\ prec \in [Tid -> Ptr] /\ thread_list \in [Tid -> Ptr]
    /\ tnext \in [Tid -> Ptr] /\ tprec \in [Tid -> Ptr] /\ parent \in [Tid -> Ptr]
    /\ threads \in [Tid -> Nat] /\ pdir \in [Tid -> Ptr]
    /\ pstate \in [Tid -> {"none", "NEW", "ACTIVE", "STOPPED", "freed"}]
    /\ esp_kernel \in [Tid -> Context] /\ cpu \in Context
ConsoleOwn ==
    /\ thread_list[Console] = Console /\ tnext[Console] = Console /\ tprec[Console] = Console
    /\ parent[Console] = Console /\ pdir[Console] = KernDir /\ pstate[Console] = "ACTIVE"
    /\ Made(Console)
ThreadLinks ==
    \A t \in Tid : Made(t) =>
        /\ parent[t] \in Tid /\ (parent[t] = Console => t = Console)
        /\ tnext[t] \in Tid /\ Made(tnext[t]) /\ parent[tnext[t]] = parent[t]
        /\ tprec[t] \in Tid /\ Made(tprec[t]) /\ parent[tprec[t]] = parent[t]
ThreadLists ==
    \A p \in Tid : Made(p) /\ parent[p] = p =>
        /\ thread_list[p] \in Tid /\ Made(thread_list[p]) /\ parent[thread_list[p]] = p
ProcLinks ==
    /\ Console \in InRing
    /\ \A p \in InRing : Made(p) /\ parent[p] = p /\ next[p] \in InRing /\ prec[p] \in InRing
Unused == \A t \in Tid : t >= pid => ~Made(t) /\ next[t] = NULL
Links ==
    LinkTypes /\ ConsoleOwn /\ ThreadLinks /\ ThreadLists /\ ProcLinks /\ Unused

(* What the console relies on where it is.                                 *)
Facts(at) ==
    /\ at = "boot" => pid = 2
    /\ at \in {"add", "addk"} =>
          /\ MainOf(proc) /\ proc \notin InRing /\ pstate[proc] = "ACTIVE"
          /\ \A p \in InRing : p < proc
    /\ at = "ret" => proc \in InRing \ {Console}
    /\ at \in {"poll", "remove"} => procn \in Tid \ {Console}
    /\ at \in LoopAt \cup {"rmend"} => MainOf(cur)
    /\ at \in Unlinking => app \in InRing \ {Console}

Falling(q) == \A p \in InRing \ {Console, q} : next[p] < p
Ordered ==
    \A p \in InRing \ {Console} : next[p] < p /\ (prec[p] = Console \/ prec[p] > p)
SavedAt(q) ==
    \A t \in Tid \ {Console} : Made(t) /\ parent[t] # q => esp_kernel[t].at \in OthersAt

Agree ==
    /\ SavedContextOwn /\ SavedAt(NULL) /\ esp_kernel[Console].at \in ConsoleAt
    /\ Facts(ConsoleIs) /\ Ordered /\ list \in InRing
    /\ ~walking => /\ CurThread = cpu.owner /\ esp0 = cpu.owner /\ current_dir = pdir[list]
                   /\ IF cpu.owner = Console THEN cpu.at \in ConsoleAt ELSE cpu.at \in OthersAt
OnConsole ==
    /\ SavedContextOwn /\ SavedAt(NULL) /\ esp_kernel[Console].at \in ConsoleAt
    /\ ~walking /\ cpu.owner = Console /\ esp0 = Console /\ current_dir = KernDir
    /\ cpu.at \in ConsoleAt /\ Facts(cpu.at) /\ list \in InRing
AddedAt == {"ret", "poll", "lost"}
AstrayAt == LoopAt \cup {"rmend", "cmd", "add"}
Astray ==
    /\ OnConsole /\ list # Console /\ cur # NULL /\ cpu.at \in AstrayAt \cup AddedAt
    /\ cpu.at \in AstrayAt => Ordered
    /\ cpu.at \in AddedAt =>
          Falling(list) /\ next[list] # list /\ next[next[list]] < list
    /\ cpu.at = "ret" => pstate[proc] = "ACTIVE"
    /\ cpu.at = "poll" => pstate[parent[procn]] = "ACTIVE"
Doomed ==
    \E u \in Tid \ {Console} :
        /\ esp_kernel[u].owner = Console /\ cur # NULL
        /\ list \in InRing /\ list # parent[u] /\ (list < parent[u] \/ next[list] < parent[u])
        /\ Falling(parent[u]) /\ SavedAt(parent[u])
        /\ ~walking => list # Console /\ cpu.at \in OthersAt
Lost == ~walking /\ cpu.at = "wild" /\ ContextsBeforeRemoval
ContextInv == Lost \/ (Links /\ (Agree \/ Astray \/ Doomed))

-----------------------------------------------------------------------------
(* The process ring in both modes, as a sequence of processes that begins  *)
(* with the console's.                                                     *)

(* The links nxt and prv run round thr[1], ..., thr[n] and back.           *)
Linked(thr, n, nxt, prv) ==
    \A j \in 1..n : /\ nxt[thr[j]] = thr[IF j = n THEN 1 ELSE j + 1]
                    /\ prv[thr[j]] = thr[IF j = 1 THEN n ELSE j - 1]
Distinct(thr, n) == \A j, k \in 1..n : thr[j] = thr[k] => j = k
Members(thr, n) == {thr[j] : j \in 1..n}

(* Where the console goes on, unless it will not: its context was saved in *)
(* another thread and will not be loaded, or nothing is known.             *)
Place == IF Stale(Console) \/ (~walking /\ cpu.at = "wild") THEN "none" ELSE ConsoleIs
OnCpu == ~walking /\ cpu.owner = Console
CutAt == {"unlink2", "unlink3", "unlink4"}

(* The ring, without app as soon as next leads past it; prec and n_proc    *)
(* follow one statement after the other.                                   *)
Back == IF Place = "unlink2" THEN [prec EXCEPT ![next[app]] = prec[app]] ELSE prec
ProcSeq(ring, n) ==
    /\ ring[1] = Console /\ Distinct(ring, n) /\ Linked(ring, n, next, Back)
    /\ n_proc = IF Place \in {"unlink2", "unlink3"} THEN n + 1 ELSE n
    /\ list \in Members(ring, n)
    /\ Place = "unlink1" => app \in Members(ring, n)
    /\ Place \in CutAt => app \notin Members(ring, n) /\ next[app] \in Members(ring, n)
    /\ OnCpu /\ cpu.at \in {"rm", "rmfree"} /\ list # Console => cur \notin Members(ring, n)

(* A process is unlinked once: with list on another process the console    *)
(* finds none to unlink, so it is never switched out for ever in between.  *)
RemovesCur ==
    /\ Place \in Unlinking => app = cur
    /\ OnCpu /\ cpu.at \in Unlinking => list = Console
RingInv ==
    RemovesCur /\ \E n \in 1..n_proc : \E ring \in [1..n -> Tid] : ProcSeq(ring, n)
=============================================================================
