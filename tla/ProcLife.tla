------------------------------ MODULE ProcLife ------------------------------
(***************************************************************************)
(* What the process system promises to its users, without rings, contexts  *)
(* or timer: a process is spawned, gets the CPU again and again while it   *)
(* is ready, ends itself while it has the CPU, and is reaped once, after   *)
(* it lost the CPU.  One user process exists at a time.                    *)
(***************************************************************************)
CONSTANTS Proc, First, Nobody

VARIABLES life, running

lifeVars == <<life, running>>

Alive(p) == life[p] \in {"ready", "ended"}

LifeInit ==
    /\ life = [p \in Proc |-> IF p = First THEN "ready" ELSE "none"]
    /\ running = First

(* Only the first process spawns and reaps, while it runs.                 *)
Spawn(p) ==
    /\ running = First /\ life[p] = "none"
    /\ \A q \in Proc \ {First} : ~Alive(q)
    /\ life' = [life EXCEPT ![p] = "ready"]
    /\ UNCHANGED running

Reap(p) ==
    /\ running = First /\ life[p] = "ended"
    /\ life' = [life EXCEPT ![p] = "gone"]
    /\ UNCHANGED running

Preempt ==
    /\ running # Nobody
    /\ running' = Nobody
    /\ UNCHANGED life

Dispatch(p) ==
    /\ running = Nobody /\ life[p] = "ready"
    /\ running' = p
    /\ UNCHANGED life

End ==
    /\ running \notin {Nobody, First} /\ life[running] = "ready"
    /\ life' = [life EXCEPT ![running] = "ended"]
    /\ UNCHANGED running

LifeNext ==
    \/ \E p \in Proc : Spawn(p) \/ Reap(p) \/ Dispatch(p)
    \/ Preempt \/ End

LifeSpec == LifeInit /\ [][LifeNext]_lifeVars
=============================================================================
