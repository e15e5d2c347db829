--------------------------- MODULE SchedulerProofs ---------------------------
(***************************************************************************)
(* Proofs about Scheduler in text mode, for every number of threads, every *)
(* time slice and with and without failing allocations.  TextInv           *)
(* (SchedulerInv) is shown to be inductive, one lemma per action; the      *)
(* safety properties, EndIsFinal and the refinement of ProcLife follow.    *)
(* The last parts are about both modes: ContextInv is shown to be          *)
(* inductive, and with it that the contexts are right until the first      *)
(* removal; then RingInv beside it, and with it that the processes make    *)
(* one ring.                                                               *)
(*                                                                         *)
(* In the preservation lemmas the ring of threads is a sequence: the       *)
(* first lemmas say what fork and exit do to it, and get_proc_by_id's      *)
(* walk along the links is described by HopVisits.                         *)
(***************************************************************************)
EXTENDS SchedulerInv, NatLemmas, FiniteSetTheorems

-----------------------------------------------------------------------------
(***************************************************************************)
(* Doubly linked rings, such as the rings of threads and of processes: a   *)
(* ring is written as a sequence thr of n different elements, and what     *)
(* inserting one element after another (start_thread) and taking one out   *)
(* (stop_thread) does to the links is related to the sequence.             *)
(***************************************************************************)

(* thr with p inserted after its k-th element, and without that element.   *)
Insert(thr, n, k, p) ==
    [j \in 1..(n + 1) |-> IF j <= k THEN thr[j] ELSE IF j = k + 1 THEN p ELSE thr[j - 1]]
Delete(thr, n, k) == [j \in 1..(n - 1) |-> IF j < k THEN thr[j] ELSE thr[j + 1]]

(* How the links change when p is linked after a, and when a is unlinked.  *)
LinkAfter(S, a, p, nxt, prv, nxt2, prv2) ==
    /\ \A t \in S : nxt2[t] = IF t = a THEN p ELSE IF t = p THEN nxt[a] ELSE nxt[t]
    /\ \A t \in S : prv2[t] = IF t = nxt[a] THEN p ELSE IF t = p THEN a ELSE prv[t]
Unlinked(S, a, nxt, prv, nxt2, prv2) ==
    /\ \A t \in S : nxt2[t] = IF t = prv[a] THEN nxt[a] ELSE nxt[t]
    /\ \A t \in S : prv2[t] = IF t = nxt[a] THEN prv[a] ELSE prv[t]
NotIn(p, thr, n) == \A j \in 1..n : thr[j] # p

(* What Insert yields, element by element.                                 *)
Inserted(s, S, thr, n, k, p) ==
    /\ s \in [1..(n + 1) -> S]
    /\ \A j \in 1..k : s[j] = thr[j]
    /\ s[k + 1] = p
    /\ \A j \in (k + 2)..(n + 1) : s[j] = thr[j - 1]

(* Insert yields what Inserted says.                                       *)
LEMMA InsertAt ==
    ASSUME NEW S, NEW n \in Nat, NEW thr \in [1..n -> S], NEW k \in 1..n, NEW p \in S
    PROVE  Inserted(Insert(thr, n, k, p), S, thr, n, k, p)
<1> DEFINE f(j) == IF j <= k THEN thr[j] ELSE IF j = k + 1 THEN p ELSE thr[j - 1]
<1>1. \A j \in 1..(n + 1) : f(j) \in S
  <2>1. SUFFICES ASSUME NEW j \in 1..(n + 1) PROVE f(j) \in S
    OBVIOUS
  <2>2. j <= k => j \in 1..n
    OBVIOUS
  <2>3. j > k + 1 => j - 1 \in 1..n
    OBVIOUS
  <2>4. QED BY <2>2, <2>3
<1>2. Insert(thr, n, k, p) = [j \in 1..(n + 1) |-> f(j)]
  BY DEF Insert
<1>3. \A j \in 1..(n + 1) : Insert(thr, n, k, p)[j] = f(j)
  <2> HIDE DEF f
  <2>1. QED BY <1>2
<1>4. Insert(thr, n, k, p) \in [1..(n + 1) -> S]
  <2> HIDE DEF f
  <2>1. QED BY <1>1, <1>2
<1>5. QED BY <1>3, <1>4 DEF Inserted

(* Inserting an element that was not there (a new thread) keeps the        *)
(* elements different.                                                     *)
LEMMA InsertDistinct ==
    ASSUME NEW S, NEW n \in Nat, NEW thr \in [1..n -> S], NEW k \in 1..n, NEW p \in S,
           Distinct(thr, n), NotIn(p, thr, n)
    PROVE  Distinct(Insert(thr, n, k, p), n + 1)
<1>0. Inserted(Insert(thr, n, k, p), S, thr, n, k, p)
  BY InsertAt
<1>1. PICK s : s = Insert(thr, n, k, p)
  OBVIOUS
<1>2. \A j \in 1..k : s[j] = thr[j]
  BY <1>0, <1>1 DEF Inserted
<1>3. s[k + 1] = p
  BY <1>0, <1>1 DEF Inserted
<1>4. \A j \in (k + 2)..(n + 1) : s[j] = thr[j - 1]
  BY <1>0, <1>1 DEF Inserted
<1>5. SUFFICES ASSUME NEW j \in 1..(n + 1), NEW m \in 1..(n + 1), s[j] = s[m], j < m PROVE FALSE
  BY <1>1 DEF Distinct
<1>6. \A q \in 1..(n + 1) : q # k + 1 => \E r \in 1..n : s[q] = thr[r] /\ r = IF q <= k THEN q ELSE q - 1
  <2>1. SUFFICES ASSUME NEW q \in 1..(n + 1), q # k + 1
                 PROVE \E r \in 1..n : s[q] = thr[r] /\ r = IF q <= k THEN q ELSE q - 1
    OBVIOUS
  <2>2. CASE q <= k
    BY <1>2, <2>2
  <2>3. CASE q > k
    <3>1. q \in (k + 2)..(n + 1) /\ q - 1 \in 1..n
      BY <2>1, <2>3
    <3>2. QED BY <1>4, <2>3, <3>1
  <2>4. QED BY <2>2, <2>3
<1>7. CASE j = k + 1 \/ m = k + 1
  BY <1>3, <1>5, <1>6, <1>7 DEF NotIn
<1>8. CASE j # k + 1 /\ m # k + 1
  <2>1. PICK r \in 1..n : s[j] = thr[r] /\ r = IF j <= k THEN j ELSE j - 1
    BY <1>6, <1>8
  <2>2. PICK q \in 1..n : s[m] = thr[q] /\ q = IF m <= k THEN m ELSE m - 1
    BY <1>6, <1>8
  <2>3. r = q
    BY <1>5, <2>1, <2>2 DEF Distinct
  <2>4. QED BY <1>5, <1>8, <2>1, <2>2, <2>3
<1>9. QED BY <1>7, <1>8

(* The two assignments of start_thread that link a new thread p after      *)
(* thr[k] make the ring of the sequence with p inserted there.             *)
LEMMA InsertLinked ==
    ASSUME NEW S, NEW n \in Nat, NEW thr \in [1..n -> S], NEW k \in 1..n, NEW p \in S,
           Distinct(thr, n), NotIn(p, thr, n),
           NEW nxt, NEW prv, Linked(thr, n, nxt, prv),
           NEW nxt2, NEW prv2,
           LinkAfter(S, thr[k], p, nxt, prv, nxt2, prv2)
    PROVE  Linked(Insert(thr, n, k, p), n + 1, nxt2, prv2)
<1>0. Inserted(Insert(thr, n, k, p), S, thr, n, k, p)
  BY InsertAt
<1>1. PICK s : s = Insert(thr, n, k, p)
  OBVIOUS
<1>2. \A j \in 1..k : s[j] = thr[j]
  BY <1>0, <1>1 DEF Inserted
<1>3. s[k + 1] = p
  BY <1>0, <1>1 DEF Inserted
<1>4. \A j \in (k + 2)..(n + 1) : s[j] = thr[j - 1]
  BY <1>0, <1>1 DEF Inserted
<1>5. PICK nx \in 1..n : nx = IF k = n THEN 1 ELSE k + 1
  OBVIOUS
<1>6. nxt[thr[k]] = thr[nx]
  BY <1>5 DEF Linked
<1>7. \A q \in 1..n : thr[q] \in S
  OBVIOUS
<1>8. \A q \in 1..n : q # k => nxt2[thr[q]] = thr[IF q = n THEN 1 ELSE q + 1]
  <2>1. SUFFICES ASSUME NEW q \in 1..n, q # k
                 PROVE  nxt2[thr[q]] = thr[IF q = n THEN 1 ELSE q + 1]
    OBVIOUS
  <2>2. thr[q] \in S /\ thr[q] # thr[k] /\ thr[q] # p
    BY <1>7, <2>1 DEF Distinct, NotIn
  <2>3. nxt2[thr[q]] = nxt[thr[q]]
    BY <2>2 DEF LinkAfter
  <2>4. nxt[thr[q]] = thr[IF q = n THEN 1 ELSE q + 1]
    BY DEF Linked
  <2>5. QED BY <2>3, <2>4
<1>9. \A q \in 1..n : q # nx => prv2[thr[q]] = thr[IF q = 1 THEN n ELSE q - 1]
  <2>1. SUFFICES ASSUME NEW q \in 1..n, q # nx
                 PROVE  prv2[thr[q]] = thr[IF q = 1 THEN n ELSE q - 1]
    OBVIOUS
  <2>2. thr[q] \in S /\ thr[q] # nxt[thr[k]] /\ thr[q] # p
    BY <1>6, <1>7, <2>1 DEF Distinct, NotIn
  <2>3. prv2[thr[q]] = prv[thr[q]]
    BY <2>2 DEF LinkAfter
  <2>4. prv[thr[q]] = thr[IF q = 1 THEN n ELSE q - 1]
    BY DEF Linked
  <2>5. QED BY <2>3, <2>4
<1>10. nxt2[thr[k]] = p /\ nxt2[p] = thr[nx] /\ prv2[thr[nx]] = p /\ prv2[p] = thr[k]
  BY <1>6, <1>7 DEF LinkAfter, NotIn
<1>11. SUFFICES ASSUME NEW j \in 1..(n + 1)
                PROVE  /\ nxt2[s[j]] = s[IF j = n + 1 THEN 1 ELSE j + 1]
                       /\ prv2[s[j]] = s[IF j = 1 THEN n + 1 ELSE j - 1]
  BY <1>1 DEF Linked
<1>12. s[1] = thr[1] /\ s[n + 1] = IF k = n THEN p ELSE thr[n]
  BY <1>2, <1>3, <1>4
<1>13. nxt2[s[j]] = s[IF j = n + 1 THEN 1 ELSE j + 1]
  <2>1. CASE j < k
    BY <1>2, <1>8, <2>1
  <2>2. CASE j = k
    BY <1>2, <1>3, <1>10, <2>2
  <2>3. CASE j = k + 1
    <3>1. CASE k = n
      BY <1>3, <1>5, <1>10, <1>12, <2>3, <3>1
    <3>2. CASE k < n
      BY <1>3, <1>4, <1>5, <1>10, <2>3, <3>2
    <3>3. QED BY <3>1, <3>2
  <2>4. CASE j > k + 1
    <3>1. s[j] = thr[j - 1] /\ j - 1 \in 1..n /\ j - 1 # k
      BY <1>4, <2>4
    <3>2. nxt2[s[j]] = thr[IF j - 1 = n THEN 1 ELSE j]
      BY <1>8, <3>1
    <3>3. CASE j = n + 1
      BY <1>12, <3>2, <3>3
    <3>4. CASE j < n + 1
      BY <1>4, <2>4, <3>2, <3>4
    <3>5. QED BY <3>3, <3>4
  <2>5. QED BY <2>1, <2>2, <2>3, <2>4
<1>14. prv2[s[j]] = s[IF j = 1 THEN n + 1 ELSE j - 1]
  <2>1. CASE j <= k
    <3>1. CASE j = nx
      BY <1>2, <1>5, <1>10, <1>12, <2>1, <3>1
    <3>2. CASE j # nx
      <4>1. prv2[s[j]] = thr[IF j = 1 THEN n ELSE j - 1]
        BY <1>2, <1>9, <2>1, <3>2
      <4>2. QED BY <1>2, <1>5, <1>12, <2>1, <3>2, <4>1
    <3>3. QED BY <3>1, <3>2
  <2>2. CASE j = k + 1
    BY <1>2, <1>3, <1>10, <2>2
  <2>3. CASE j > k + 1
    <3>1. s[j] = thr[j - 1] /\ j - 1 \in 1..n /\ k < n
      BY <1>4, <2>3
    <3>2. CASE j = k + 2
      BY <1>3, <1>5, <1>10, <3>1, <3>2
    <3>3. CASE j > k + 2
      BY <1>4, <1>5, <1>9, <2>3, <3>1, <3>3
    <3>4. QED BY <2>3, <3>2, <3>3
  <2>4. QED BY <2>1, <2>2, <2>3
<1>15. QED BY <1>13, <1>14
(* What Delete yields, element by element.                                 *)
Deleted(s, S, thr, n, k) ==
    /\ s \in [1..(n - 1) -> S]
    /\ \A j \in 1..(k - 1) : s[j] = thr[j]
    /\ \A j \in k..(n - 1) : s[j] = thr[j + 1]

(* s holds the elements of thr but the k-th.                               *)
AllBut(s, thr, n, k) ==
    /\ \A j \in 1..(n - 1) : \E q \in 1..n : q # k /\ s[j] = thr[q]
    /\ \A q \in 1..n : q # k => \E j \in 1..(n - 1) : thr[q] = s[j]

(* Delete yields what Deleted says.                                        *)
LEMMA DeleteAt ==
    ASSUME NEW S, NEW n \in Nat, NEW thr \in [1..n -> S], NEW k \in 1..n
    PROVE  Deleted(Delete(thr, n, k), S, thr, n, k)
<1> DEFINE f(j) == IF j < k THEN thr[j] ELSE thr[j + 1]
<1>1. \A j \in 1..(n - 1) : f(j) \in S
  OBVIOUS
<1>2. Delete(thr, n, k) = [j \in 1..(n - 1) |-> f(j)]
  BY DEF Delete
<1>3. \A j \in 1..(n - 1) : Delete(thr, n, k)[j] = f(j)
  <2> HIDE DEF f
  <2>1. QED BY <1>2
<1>4. Delete(thr, n, k) \in [1..(n - 1) -> S]
  <2> HIDE DEF f
  <2>1. QED BY <1>1, <1>2
<1>5. QED BY <1>3, <1>4 DEF Deleted

(* Deleting keeps the elements different and loses none but the k-th.      *)
LEMMA DeleteDistinct ==
    ASSUME NEW S, NEW n \in Nat, NEW thr \in [1..n -> S], NEW k \in 1..n, Distinct(thr, n)
    PROVE  Distinct(Delete(thr, n, k), n - 1) /\ AllBut(Delete(thr, n, k), thr, n, k)
<1>0. Deleted(Delete(thr, n, k), S, thr, n, k)
  BY DeleteAt
<1>1. PICK s : s = Delete(thr, n, k)
  OBVIOUS
<1>2. \A j \in 1..(k - 1) : s[j] = thr[j]
  BY <1>0, <1>1 DEF Deleted
<1>3. \A j \in k..(n - 1) : s[j] = thr[j + 1]
  BY <1>0, <1>1 DEF Deleted
<1>4. Distinct(s, n - 1)
  BY <1>2, <1>3 DEF Distinct
<1>5. \A j \in 1..(n - 1) : \E q \in 1..n : q # k /\ s[j] = thr[q]
  BY <1>2, <1>3
<1>6. \A q \in 1..n : q # k => \E j \in 1..(n - 1) : thr[q] = s[j]
  <2>1. SUFFICES ASSUME NEW q \in 1..n, q # k PROVE \E j \in 1..(n - 1) : thr[q] = s[j]
    OBVIOUS
  <2>2. CASE q < k
    BY <1>2, <2>2
  <2>3. CASE q > k
    <3>1. q - 1 \in k..(n - 1) /\ s[q - 1] = thr[q]
      BY <1>3, <2>3
    <3>2. QED BY <3>1
  <2>4. QED BY <2>1, <2>2, <2>3
<1>7. QED BY <1>1, <1>4, <1>5, <1>6, Zenon DEF AllBut

(* The two assignments of stop_thread that unlink thr[k] make the ring of  *)
(* the sequence without it.                                                *)
LEMMA DeleteLinked ==
    ASSUME NEW S, NEW n \in Nat, NEW thr \in [1..n -> S], NEW k \in 2..n,
           Distinct(thr, n),
           NEW nxt, NEW prv, Linked(thr, n, nxt, prv),
           NEW nxt2, NEW prv2,
           Unlinked(S, thr[k], nxt, prv, nxt2, prv2)
    PROVE  Linked(Delete(thr, n, k), n - 1, nxt2, prv2)
<1>0. Deleted(Delete(thr, n, k), S, thr, n, k)
  BY DeleteAt
<1>1. PICK s : s = Delete(thr, n, k)
  OBVIOUS
<1>2. \A j \in 1..(k - 1) : s[j] = thr[j]
  BY <1>0, <1>1 DEF Deleted
<1>3. \A j \in k..(n - 1) : s[j] = thr[j + 1]
  BY <1>0, <1>1 DEF Deleted
<1>4. PICK nx \in 1..n : nx = IF k = n THEN 1 ELSE k + 1
  OBVIOUS
<1>5. nxt[thr[k]] = thr[nx] /\ prv[thr[k]] = thr[k - 1]
  BY <1>4 DEF Linked
<1>6. \A q \in 1..n : thr[q] \in S
  OBVIOUS
<1>7. \A q \in 1..n : q # k - 1 => nxt2[thr[q]] = thr[IF q = n THEN 1 ELSE q + 1]
  <2>1. \A q \in 1..n : q # k - 1 => thr[q] # prv[thr[k]]
    BY <1>5 DEF Distinct
  <2>2. \A q \in 1..n : q # k - 1 => nxt2[thr[q]] = nxt[thr[q]]
    BY <1>6, <2>1 DEF Unlinked
  <2>3. QED BY <2>2 DEF Linked
<1>8. \A q \in 1..n : q # nx => prv2[thr[q]] = thr[IF q = 1 THEN n ELSE q - 1]
  BY <1>5, <1>6 DEF Linked, Distinct, Unlinked
<1>9. nxt2[thr[k - 1]] = thr[nx] /\ prv2[thr[nx]] = thr[k - 1]
  BY <1>5, <1>6 DEF Unlinked
<1>10. SUFFICES ASSUME NEW j \in 1..(n - 1)
                PROVE  /\ nxt2[s[j]] = s[IF j = n - 1 THEN 1 ELSE j + 1]
                       /\ prv2[s[j]] = s[IF j = 1 THEN n - 1 ELSE j - 1]
  BY <1>1 DEF Linked
<1>11. s[1] = thr[1] /\ s[n - 1] = IF k = n THEN thr[n - 1] ELSE thr[n]
  BY <1>2, <1>3
<1>12. nxt2[s[j]] = s[IF j = n - 1 THEN 1 ELSE j + 1]
  <2>1. CASE j < k - 1
    BY <1>2, <1>7, <2>1
  <2>2. CASE j = k - 1
    BY <1>2, <1>3, <1>4, <1>9, <1>11, <2>2
  <2>3. CASE j > k - 1
    <3>1. s[j] = thr[j + 1] /\ j + 1 \in 1..n /\ j + 1 # k - 1 /\ k # n
      BY <1>3, <2>3
    <3>2. nxt2[s[j]] = thr[IF j + 1 = n THEN 1 ELSE j + 2]
      BY <1>7, <3>1
    <3>3. CASE j = n - 1
      BY <1>11, <3>2, <3>3
    <3>4. CASE j < n - 1
      BY <1>3, <2>3, <3>2, <3>4
    <3>5. QED BY <3>3, <3>4
  <2>4. QED BY <2>1, <2>2, <2>3
<1>13. prv2[s[j]] = s[IF j = 1 THEN n - 1 ELSE j - 1]
  <2>1. CASE j <= k - 1
    <3>1. CASE j = nx
      BY <1>2, <1>4, <1>9, <1>11, <2>1, <3>1
    <3>2. CASE j # nx
      <4>1. prv2[s[j]] = thr[IF j = 1 THEN n ELSE j - 1]
        BY <1>2, <1>8, <2>1, <3>2
      <4>2. QED BY <1>2, <1>4, <1>11, <2>1, <3>2, <4>1
    <3>3. QED BY <3>1, <3>2
  <2>2. CASE j > k - 1
    <3>1. CASE j = k
      BY <1>2, <1>3, <1>4, <1>9, <2>2, <3>1
    <3>2. CASE j > k
      BY <1>3, <1>4, <1>8, <2>2, <3>2
    <3>3. QED BY <2>2, <3>1, <3>2
  <2>3. QED BY <2>1, <2>2
<1>14. QED BY <1>12, <1>13

-----------------------------------------------------------------------------
(* The invariant is preserved.                                             *)

USE PidAssumption, TickAssumption, ModeAssumption DEF Tid, Ptr, NULL, Console, KernDir

(* The state sched_init leaves satisfies TextInv.                          *)
LEMMA InitInv == ASSUME TextMode, Init PROVE TextInv
<1> USE DEF Init, NoContext
<1>0. [owner |-> 1, at |-> "boot"] \in Context /\ NoContext \in Context
  BY DEF Context, Label, ConsoleAt
<1>1. TypeOK
  <2>1. esp_kernel \in [Tid -> Context] /\ cpu \in Context
    BY <1>0
  <2>2. next \in [Tid -> Ptr] /\ pstate \in [Tid -> {"none", "NEW", "ACTIVE", "STOPPED", "freed"}]
    OBVIOUS
  <2>3. threads \in [Tid -> Nat] /\ pdir \in [Tid -> Ptr] /\ tstate \in [Tid -> {"none", "live", "freed"}]
    OBVIOUS
  <2>4. prec = next /\ thread_list = next /\ tnext = next /\ tprec = next /\ parent = next
    OBVIOUS
  <2>5. prec \in [Tid -> Ptr] /\ thread_list \in [Tid -> Ptr] /\ tnext \in [Tid -> Ptr]
        /\ tprec \in [Tid -> Ptr] /\ parent \in [Tid -> Ptr]
    BY <2>2, <2>4, Zenon
  <2>6. list \in Ptr /\ n_proc \in Nat /\ pid \in 2..(MaxPid + 1) /\ sched_on \in {0, 1}
        /\ pit_ticks \in 0..(TickMod - 1) /\ esp0 \in Tid /\ current_dir \in Ptr /\ proc \in Ptr /\ procn \in Ptr /\ cur \in Ptr
        /\ app \in Ptr /\ i \in Nat
    OBVIOUS
  <2>7. walking \in BOOLEAN
    BY Zenon
  <2>8. QED BY <2>1, <2>2, <2>3, <2>5, <2>6, <2>7, Zenon DEF TypeOK
<1>2. ConsoleInv /\ ConsoleIs = "boot"
  BY DEF ConsoleInv, ConsoleIs, Built, IdleAt
<1>3. RingShape
  BY <1>2 DEF RingShape, OneProc, IdleAt, BusyAt, WaitAt, RemoveAt, LoopAt, Unlinking
<1>4. ProcInv /\ ThreadsInv
  BY <1>2 DEF ProcInv, ThreadsInv, IdleAt, BusyAt, WaitAt, RemoveAt, LoopAt, Unlinking
<1>5. OneUser /\ FreshInv
  BY DEF OneUser, FreshInv
<1>6. CpuInv
  BY <1>2 DEF CpuInv, Built, CurThread, IdleAt
<1>7. SavedInv /\ SavedContextOwn
  BY DEF SavedInv, SavedContextOwn, Built
<1>8. QED BY <1>1, <1>2, <1>3, <1>4, <1>5, <1>6, <1>7 DEF TextInv

(* The ring of threads is the same sequence after a step that keeps the    *)
(* links and the life of the threads.                                      *)
LEMMA RingSeqSame ==
    ASSUME UNCHANGED <<proc, parent, tnext, tprec, tstate>>,
           \A t : Built(t)' <=> Built(t),
           NEW n, NEW thr
    PROVE  RingSeq(thr, n)' <=> RingSeq(thr, n)
  BY DEF RingSeq

(* So is the current thread's place in it, if the CPU does the same thing. *)
LEMMA AtRestSame ==
    ASSUME UNCHANGED <<proc, list, walking, cpu, thread_list, tnext, tstate>>,
           NEW n, NEW thr
    PROVE  AtRest(thr, n)' <=> AtRest(thr, n)
  BY DEF AtRest, Exited

(* So is the progress of remove_proc's loop.                               *)
LEMMA LoopProgressSame ==
    ASSUME UNCHANGED <<proc, next, prec, n_proc, list, thread_list, threads, tstate, i>>,
           NEW n, NEW thr
    PROVE  LoopProgress(thr, n)' <=> LoopProgress(thr, n)
  BY DEF LoopProgress, TwoProcs

(* A tick that does not switch (pit_int) preserves TextInv.                *)
LEMMA TickQuietInv == ASSUME TextInv, TickQuiet PROVE TextInv'
<1> USE DEF TickQuiet, procVars, procData, ringVars, cpuVars, locals
<1>1. TypeOK'
  BY DEF TextInv, TypeOK, NewTicks
<1>2. ConsoleIs' = ConsoleIs
  BY DEF ConsoleIs
<1>3. (ConsoleInv /\ RingShape /\ ProcInv /\ OneUser)'
  BY <1>2 DEF TextInv, ConsoleInv, RingShape, ProcInv, OneUser, OneProc, TwoProcs, Built
<1>4. ThreadsInv'
  <2>1. \A t : Built(t)' <=> Built(t)
    BY DEF Built
  <2>2. \A thr, n : ThreadsOK(thr, n)' <=> ThreadsOK(thr, n)
    BY <1>2, <2>1, RingSeqSame, AtRestSame, LoopProgressSame DEF ThreadsOK
  <2>3. QED BY <1>2, <2>2 DEF TextInv, ThreadsInv
<1>5. (FreshInv /\ CpuInv /\ SavedInv /\ SavedContextOwn)'
  BY <1>2 DEF TextInv, FreshInv, CpuInv, SavedInv, SavedContextOwn, Built, CurThread
<1>6. QED BY <1>1, <1>2, <1>3, <1>4, <1>5 DEF TextInv

(* While a statement of the console runs, list designates the console.     *)
LEMMA ConsoleRuns ==
    ASSUME TextInv, ~walking, cpu.at \in ConsoleAt
    PROVE  /\ cpu.owner = Console /\ list = Console /\ ConsoleIs = cpu.at
           /\ cpu.at \in IdleAt \cup BusyAt
           /\ cpu.at \in BusyAt \cup {"add"} => proc # Console
<1>1. cpu.owner = Console
  BY DEF TextInv, CpuInv, UserAt, ConsoleAt, Unlinking
<1>2. ConsoleIs = cpu.at
  BY <1>1 DEF ConsoleIs
<1>3. cpu.at \in IdleAt \cup BusyAt
  BY <1>2 DEF TextInv, ConsoleInv
<1>4. cpu.at \in BusyAt \cup {"add"} => proc # Console
  BY <1>2 DEF TextInv, ProcInv
<1>5. list = Console
  <2>1. list # Console => list = proc /\ cpu.at \in BusyAt
    BY <1>2, <1>3 DEF TextInv, RingShape, OneProc, TwoProcs, IdleAt, BusyAt, WaitAt, RemoveAt, LoopAt, Unlinking
  <2>2. list = proc /\ cpu.at \in BusyAt => parent[CurThread] = proc
    BY <1>2 DEF TextInv, ProcInv, CurThread
  <2>3. CurThread = Console /\ parent[Console] = Console
    BY <1>1 DEF TextInv, CpuInv, ConsoleInv
  <2>4. QED BY <2>1, <2>2, <2>3, <1>4
<1>6. QED BY <1>1, <1>2, <1>3, <1>4, <1>5

(* What a step of the console does to the running context.                 *)
LEMMA GotoFacts ==
    ASSUME TypeOK, cpu.owner = Console, ~walking, ~walking', NEW l \in Label, Goto(l)
    PROVE  cpu' \in Context /\ cpu'.owner = Console /\ cpu'.at = l /\ ConsoleIs' = l
<1>1. cpu \in [owner : Ptr, at : Label]
  BY DEF TypeOK, Context
<1>2. cpu' \in Context /\ cpu'.owner = Console /\ cpu'.at = l
  BY <1>1 DEF Goto, Context
<1>3. QED BY <1>2 DEF ConsoleIs

(* While list is the console, its steps keep the user threads at rest.     *)
LEMMA AtRestConsole ==
    ASSUME UNCHANGED <<proc, list, thread_list, tnext, tstate>>, list = Console, proc # Console,
           NEW n, NEW thr
    PROVE  AtRest(thr, n)' <=> AtRest(thr, n)
  BY DEF AtRest, Exited

(* Starting the console in text mode (main_proc) preserves TextInv.        *)
LEMMA BootTextInv == ASSUME TextInv, BootText PROVE TextInv'
<1> USE DEF BootText, Running, procVars, procData, ringVars, pitVars, cpuVars, locals
<1>1. cpu.owner = Console /\ list = Console /\ ConsoleIs = "boot"
  BY ConsoleRuns DEF ConsoleAt
<1>2. cpu' \in Context /\ cpu'.owner = Console /\ cpu'.at = "cmd" /\ ConsoleIs' = "cmd"
  <2>1. "cmd" \in Label
    BY DEF Label, ConsoleAt
  <2>2. QED BY <1>1, <2>1, GotoFacts DEF TextInv
<1>3. TypeOK'
  BY <1>2 DEF TextInv, TypeOK
<1>4. (ConsoleInv /\ RingShape /\ ProcInv /\ OneUser)'
  BY <1>1, <1>2 DEF TextInv, ConsoleInv, RingShape, ProcInv, OneUser, OneProc, TwoProcs, Built,
     IdleAt, WaitAt, LoopAt, RemoveAt, BusyAt, Unlinking
<1>5. ThreadsInv'
  BY <1>2 DEF ThreadsInv, WaitAt, LoopAt, RemoveAt, BusyAt, Unlinking
<1>6. (FreshInv /\ CpuInv /\ SavedInv /\ SavedContextOwn)'
  BY <1>1, <1>2 DEF TextInv, FreshInv, CpuInv, SavedInv, SavedContextOwn, Built, CurThread, IdleAt
<1>7. QED BY <1>1, <1>2, <1>3, <1>4, <1>5, <1>6 DEF TextInv

(* Building a process (start_proc) preserves TextInv: the new ring has one *)
(* thread.                                                                 *)
LEMMA StartProcInv == ASSUME TextInv, StartProc PROVE TextInv'
<1> USE DEF StartProc, BuildProc, CreateThread, Running, procVars, pitVars, cpuVars
<1>1. cpu.owner = Console /\ list = Console /\ ConsoleIs = "cmd"
  BY ConsoleRuns DEF ConsoleAt
<1>2. cpu' \in Context /\ cpu'.owner = Console /\ cpu'.at = "add" /\ ConsoleIs' = "add"
  <2>1. "add" \in Label
    BY DEF Label, ConsoleAt
  <2>2. QED BY <1>1, <2>1, GotoFacts DEF TextInv
<1>3. pid \in Tid \ {Console}
  BY DEF TextInv, TypeOK
<1>4. \A t \in Tid : parent[t] # pid
  BY <1>3 DEF TextInv, TypeOK, FreshInv
<1>5. [owner |-> pid, at |-> "user"] \in Context
  BY <1>3 DEF Context, Label
<1>6. \A t : Built(t)' <=> Built(t) \/ t = pid
  <2>1. esp_kernel \in [Tid -> Context] /\ esp_kernel' = [esp_kernel EXCEPT ![pid] = [owner |-> pid, at |-> "user"]]
    BY DEF TextInv, TypeOK
  <2>2. esp_kernel'[pid].owner = pid /\ \A t \in Tid : t # pid => esp_kernel'[t] = esp_kernel[t]
    BY <1>3, <2>1
  <2>3. QED BY <1>3, <2>2 DEF Built
<1>7. TypeOK'
  <2>1. pid' \in 2..(MaxPid + 1) /\ proc' \in Ptr
    BY <1>3 DEF TextInv, TypeOK
  <2>2. /\ tnext' \in [Tid -> Ptr] /\ tprec' \in [Tid -> Ptr] /\ thread_list' \in [Tid -> Ptr]
        /\ threads' \in [Tid -> Nat] /\ pdir' \in [Tid -> Ptr]
    BY <1>3 DEF TextInv, TypeOK
  <2>3. parent' \in [Tid -> Ptr] /\ tstate' \in [Tid -> {"none", "live", "freed"}]
    BY <1>3 DEF TextInv, TypeOK
  <2>4. pstate' \in [Tid -> {"none", "NEW", "ACTIVE", "STOPPED", "freed"}]
    BY <1>3 DEF TextInv, TypeOK
  <2>5. esp_kernel' \in [Tid -> Context]
    BY <1>3, <1>5 DEF TextInv, TypeOK
  <2>6. QED BY <1>2, <2>1, <2>2, <2>3, <2>4, <2>5 DEF TextInv, TypeOK
<1>8. ConsoleInv'
  BY <1>2, <1>3, <1>6 DEF TextInv, TypeOK, ConsoleInv, IdleAt
<1>9. RingShape'
  BY <1>1, <1>2 DEF TextInv, RingShape, OneProc, IdleAt, WaitAt, LoopAt, RemoveAt, BusyAt, Unlinking
<1>10. ProcInv'
  BY <1>2, <1>3, <1>6 DEF TextInv, TypeOK, ProcInv, WaitAt, LoopAt, RemoveAt, BusyAt, Unlinking
<1>11. OneUser'
  BY <1>1, <1>2, <1>3, <1>4 DEF TextInv, TypeOK, OneUser, WaitAt, LoopAt, RemoveAt, BusyAt, Unlinking
<1>12. ThreadsInv'
  <2>0. PICK p : p = pid
    OBVIOUS
  <2> DEFINE thr == [j \in 1..1 |-> p]
  <2>1. thr \in [1..1 -> Tid] /\ 1 \in 1..threads'[proc']
    BY <1>3, <2>0 DEF TextInv, TypeOK
  <2>2. RingSeq(thr, 1)'
    BY <1>3, <1>4, <1>6, <2>0 DEF TextInv, TypeOK, RingSeq
  <2>3. AtRest(thr, 1)'
    BY <1>3, <2>0 DEF TextInv, TypeOK, AtRest
  <2>4. ThreadsOK(thr, 1)'
    BY <1>2, <2>2, <2>3 DEF ThreadsOK, LoopAt, Unlinking
  <2> HIDE DEF thr
  <2>5. QED BY <2>1, <2>4 DEF ThreadsInv
<1>13. FreshInv'
  BY <1>3 DEF TextInv, TypeOK, FreshInv
<1>14. CpuInv'
  BY <1>1, <1>2, <1>3, <1>6 DEF TextInv, TypeOK, ConsoleInv, CpuInv, CurThread, IdleAt
<1>15. SavedInv'
  BY <1>3, <1>4, <1>6 DEF TextInv, TypeOK, SavedInv, UserAt
<1>16. SavedContextOwn'
  BY <1>3 DEF TextInv, TypeOK, SavedContextOwn, NoContext
<1>17. QED BY <1>7, <1>8, <1>9, <1>10, <1>11, <1>12, <1>13, <1>14, <1>15, <1>16 DEF TextInv

(* A failing start_proc preserves TextInv: what it leaks is never linked.  *)
LEMMA StartProcFailsInv == ASSUME TextInv, StartProcFails PROVE TextInv'
<1> USE DEF StartProcFails, CreateThread, Running, procVars, cpuVars, locals
<1>1. cpu.owner = Console /\ list = Console /\ ConsoleIs = "cmd" /\ ConsoleIs' = "cmd"
  BY ConsoleRuns DEF ConsoleAt, ConsoleIs
<1>2. pid \in Tid \ {Console}
  BY DEF TextInv, TypeOK
<1>3. \A t \in Tid : parent[t] # pid
  BY <1>2 DEF TextInv, TypeOK, FreshInv
<1>4. \A t : Built(t)' <=> Built(t)
  BY DEF Built
<1>5. ~Built(pid)
  BY <1>2 DEF TextInv, TypeOK, FreshInv, Built, NoContext
<1>6. TypeOK'
  <2>1. pid' \in 2..(MaxPid + 1)
    BY <1>2 DEF TextInv, TypeOK
  <2>2. tnext' \in [Tid -> Ptr] /\ tprec' \in [Tid -> Ptr] /\ thread_list' \in [Tid -> Ptr]
    BY <1>2 DEF TextInv, TypeOK
  <2>3. parent' \in [Tid -> Ptr] /\ tstate' \in [Tid -> {"none", "live", "freed"}]
    BY <1>2 DEF TextInv, TypeOK
  <2>4. pstate' \in [Tid -> {"none", "NEW", "ACTIVE", "STOPPED", "freed"}]
    BY <1>2 DEF TextInv, TypeOK
  <2>5. QED BY <2>1, <2>2, <2>3, <2>4 DEF TextInv, TypeOK
<1>7. ConsoleInv'
  BY <1>1, <1>2, <1>4 DEF TextInv, TypeOK, ConsoleInv
<1>8. RingShape'
  BY <1>1 DEF TextInv, RingShape, OneProc, IdleAt, WaitAt, LoopAt, RemoveAt, BusyAt, Unlinking
<1>9. ProcInv' /\ ThreadsInv'
  BY <1>1 DEF ProcInv, ThreadsInv, WaitAt, LoopAt, RemoveAt, BusyAt, Unlinking
<1>10. OneUser'
  BY <1>1, <1>2, <1>3 DEF TextInv, TypeOK, OneUser, WaitAt, LoopAt, RemoveAt, BusyAt, Unlinking
<1>11. FreshInv'
  BY <1>2 DEF TextInv, TypeOK, FreshInv
<1>12. CpuInv'
  BY <1>1, <1>2, <1>4 DEF TextInv, TypeOK, ConsoleInv, CpuInv, CurThread
<1>13. SavedInv' /\ SavedContextOwn'
  <2>1. \A t \in Tid \ {pid} : parent'[t] = parent[t] /\ tstate'[t] = tstate[t] /\ pstate'[t] = pstate[t]
    BY <1>2 DEF TextInv, TypeOK
  <2>2. \A t \in Tid : parent[t] \in Ptr
    BY DEF TextInv, TypeOK
  <2>3. SavedInv'
    BY <1>3, <1>4, <1>5, <2>1, <2>2 DEF TextInv, SavedInv
  <2>4. QED BY <2>3 DEF TextInv, SavedContextOwn
<1>14. QED BY <1>6, <1>7, <1>8, <1>9, <1>10, <1>11, <1>12, <1>13 DEF TextInv

(* sched_add_proc preserves TextInv: two processes are linked both ways.   *)
LEMMA SchedAddInv == ASSUME TextInv, SchedAdd PROVE TextInv'
<1> USE DEF SchedAdd, Running, procData, ringVars, cpuVars, locals
<1>1. cpu.owner = Console /\ list = Console /\ ConsoleIs = "add" /\ cpu.at = "add"
  BY ConsoleRuns DEF ConsoleAt, IdleAt, WaitAt, LoopAt, RemoveAt, BusyAt, Unlinking
<1>2. cpu' \in Context /\ cpu'.owner = Console /\ cpu'.at = "ret" /\ ConsoleIs' = "ret"
  <2>1. "ret" \in Label
    BY DEF Label, ConsoleAt
  <2>2. QED BY <1>1, <2>1, GotoFacts DEF TextInv
<1>3. proc \in Tid \ {Console}
  BY <1>1 DEF TextInv, ProcInv
<1>4. OneProc
  BY <1>1 DEF TextInv, RingShape, IdleAt
<1>5. prec' = [prec EXCEPT ![proc] = Console, ![Console] = proc]
      /\ next' = [next EXCEPT ![proc] = Console, ![Console] = proc]
  BY <1>1, <1>4 DEF OneProc, AddedPrec, AddedNext
<1>6. \A t : Built(t)' <=> Built(t)
  BY DEF Built
<1>7. TypeOK'
  <2>1. next' \in [Tid -> Ptr] /\ prec' \in [Tid -> Ptr]
    <3>1. next \in [Tid -> Ptr] /\ prec \in [Tid -> Ptr] /\ Console \in Tid
      BY DEF TextInv, TypeOK
    <3>2. QED BY <1>3, <1>5, <3>1
  <2>2. n_proc' \in Nat
    BY DEF TextInv, TypeOK
  <2>3. QED BY <1>2, <2>1, <2>2 DEF TextInv, TypeOK
<1>8. ConsoleInv'
  BY <1>2, <1>6 DEF TextInv, ConsoleInv, BusyAt, WaitAt
<1>9. RingShape'
  <2>1. TwoProcs' /\ next'[proc] = Console /\ prec'[proc] = Console
    BY <1>1, <1>3, <1>4, <1>5 DEF TextInv, TypeOK, OneProc, TwoProcs
  <2>2. QED BY <1>2, <2>1 DEF RingShape, IdleAt, WaitAt, Unlinking
<1>10. ProcInv' /\ OneUser'
  BY <1>1, <1>2, <1>6 DEF TextInv, ProcInv, OneUser, WaitAt, LoopAt, RemoveAt, BusyAt, Unlinking
<1>11. ThreadsInv'
  <2>1. PICK n \in 1..threads[proc] : \E thr \in [1..n -> Tid] : ThreadsOK(thr, n)
    BY <1>1 DEF TextInv, ThreadsInv
  <2>2. PICK thr \in [1..n -> Tid] : ThreadsOK(thr, n)
    BY <2>1
  <2>3. RingSeq(thr, n)' /\ AtRest(thr, n)'
    BY <1>1, <1>3, <1>6, <2>2, RingSeqSame, AtRestConsole DEF ThreadsOK, LoopAt, Unlinking
  <2>4. ThreadsOK(thr, n)'
    BY <1>2, <2>3 DEF ThreadsOK, LoopAt, Unlinking
  <2>5. QED BY <2>4 DEF ThreadsInv
<1>12. (FreshInv /\ SavedInv /\ SavedContextOwn)'
  BY <1>6 DEF TextInv, FreshInv, SavedInv, SavedContextOwn
<1>13. CpuInv'
  BY <1>1, <1>2, <1>6 DEF TextInv, CpuInv, CurThread, BusyAt, WaitAt
<1>14. QED BY <1>7, <1>8, <1>9, <1>10, <1>11, <1>12, <1>13 DEF TextInv

(* Reading the pid that start_proc returns preserves TextInv.              *)
LEMMA StartProcReturnInv == ASSUME TextInv, StartProcReturn PROVE TextInv'
<1> USE DEF StartProcReturn, Running, procVars, procData, ringVars, pitVars, cpuVars
<1>1. cpu.owner = Console /\ list = Console /\ ConsoleIs = "ret"
  BY ConsoleRuns DEF ConsoleAt
<1>2. cpu' \in Context /\ cpu'.owner = Console /\ cpu'.at = "poll" /\ ConsoleIs' = "poll"
  <2>1. "poll" \in Label
    BY DEF Label, ConsoleAt
  <2>2. QED BY <1>1, <2>1, GotoFacts DEF TextInv
<1>3. proc \in Tid \ {Console} /\ procn' \in Tid \ {Console}
  BY <1>1 DEF TextInv, ProcInv, ConsoleInv, Built, BusyAt, WaitAt
<1>4. \A t : Built(t)' <=> Built(t)
  BY DEF Built
<1>5. TypeOK'
  BY <1>2, <1>3 DEF TextInv, TypeOK
<1>6. (ConsoleInv /\ RingShape /\ ProcInv /\ OneUser)'
  BY <1>1, <1>2, <1>3, <1>4 DEF TextInv, ConsoleInv, RingShape, ProcInv, OneUser, OneProc, TwoProcs,
     IdleAt, WaitAt, LoopAt, RemoveAt, BusyAt, Unlinking
<1>7. ThreadsInv'
  <2>1. PICK n \in 1..threads[proc] : \E thr \in [1..n -> Tid] : ThreadsOK(thr, n)
    BY <1>1 DEF TextInv, ThreadsInv, BusyAt, WaitAt
  <2>2. PICK thr \in [1..n -> Tid] : ThreadsOK(thr, n)
    BY <2>1
  <2>3. RingSeq(thr, n)' /\ AtRest(thr, n)'
    BY <1>1, <1>3, <1>4, <2>2, RingSeqSame, AtRestConsole DEF ThreadsOK, LoopAt, Unlinking
  <2>4. ThreadsOK(thr, n)'
    BY <1>2, <2>3 DEF ThreadsOK, LoopAt, Unlinking
  <2>5. QED BY <2>4 DEF ThreadsInv
<1>8. (FreshInv /\ SavedInv /\ SavedContextOwn)'
  BY <1>4 DEF TextInv, FreshInv, SavedInv, SavedContextOwn
<1>9. CpuInv'
  BY <1>1, <1>2, <1>4 DEF TextInv, CpuInv, CurThread, BusyAt, WaitAt
<1>10. QED BY <1>5, <1>6, <1>7, <1>8, <1>9 DEF TextInv

(* h is the walk of k hops from start along nxt, as get_proc_by_id does it.*)
IsHop(h, nxt, start, k) == h = [j \in 0..k |-> IF j = 0 THEN start ELSE nxt[h[j - 1]]]

(* The walk along the links exists, for every length.                      *)
LEMMA HopExists ==
    ASSUME NEW nxt, NEW start, NEW k \in Nat
    PROVE  \E h : IsHop(h, nxt, start, k)
<1> DEFINE T == {m \in Nat : ~ \E h : IsHop(h, nxt, start, m)}
<1>1. SUFFICES ASSUME T # {} PROVE FALSE
  OBVIOUS
<1>2. PICK m \in T : \A y \in T : m <= y
  BY <1>1, LeastNat
<1>3. m # 0
  <2>1. IsHop([j \in 0..0 |-> start], nxt, start, 0)
    BY DEF IsHop
  <2> QED BY <2>1
<1>4. m - 1 \in Nat /\ m - 1 \notin T
  BY <1>2, <1>3
<1>5. PICK h : IsHop(h, nxt, start, m - 1)
  BY <1>4
<1> DEFINE g == [j \in 0..m |-> IF j = m THEN nxt[h[m - 1]] ELSE h[j]]
<1>6. ASSUME NEW j \in 0..m PROVE g[j] = IF j = 0 THEN start ELSE nxt[g[j - 1]]
  <2>1. /\ j # m => j \in 0..(m - 1)
        /\ j # 0 => j - 1 \in 0..(m - 1) /\ j - 1 \in 0..m /\ j - 1 # m
    BY <1>4
  <2>2. \A x \in 0..(m - 1) : h[x] = IF x = 0 THEN start ELSE nxt[h[x - 1]]
    BY <1>5, Zenon DEF IsHop
  <2>3. QED BY <1>3, <2>1, <2>2
<1>7. IsHop(g, nxt, start, m)
  <2>1. DOMAIN g = 0..m /\ g = [j \in 0..m |-> g[j]]
    OBVIOUS
  <2> HIDE DEF g
  <2>2. QED BY <1>6, <2>1 DEF IsHop
<1>8. QED BY <1>7

(* h goes that walk, hop by hop, and its places are what Visited holds.    *)
HopVisits(h, nxt, start, k) ==
    /\ h[0] = start
    /\ \A j \in 1..k : h[j] = nxt[h[j - 1]]
    /\ \A x : x \in Visited(nxt, start, k) <=> \E j \in 0..k : x = h[j]

(* Visited is the set of the places of that walk.                          *)
LEMMA VisitedHop ==
    ASSUME NEW nxt, NEW start, NEW k \in Nat
    PROVE  \E h : HopVisits(h, nxt, start, k)
<1> DEFINE hop == CHOOSE hop : hop = [j \in 0..k |-> IF j = 0 THEN start ELSE nxt[hop[j - 1]]]
<1>1. \E h : h = [j \in 0..k |-> IF j = 0 THEN start ELSE nxt[h[j - 1]]]
  <2>1. PICK h : IsHop(h, nxt, start, k)
    BY HopExists
  <2>2. h = [j \in 0..k |-> IF j = 0 THEN start ELSE nxt[h[j - 1]]]
    BY <2>1 DEF IsHop
  <2>3. QED BY <2>2
<1>2. hop = [j \in 0..k |-> IF j = 0 THEN start ELSE nxt[hop[j - 1]]]
  BY <1>1, Zenon
<1>3. Visited(nxt, start, k) = {hop[j] : j \in 0..k}
  BY Zenon DEF Visited
<1> HIDE DEF hop
<1> DEFINE place(j) == IF j = 0 THEN start ELSE nxt[hop[j - 1]]
<1>4. hop[0] = start /\ \A j \in 1..k : hop[j] = nxt[hop[j - 1]]
  <2>1. hop = [j \in 0..k |-> place(j)]
    BY <1>2, Zenon
  <2>2. ASSUME NEW j \in 0..k PROVE hop[j] = place(j)
    <3> HIDE DEF place
    <3>1. QED BY <2>1, Zenon
  <2>3. 0 \in 0..k
    OBVIOUS
  <2>4. ASSUME NEW j \in 1..k PROVE hop[j] = nxt[hop[j - 1]]
    <3>1. j \in 0..k /\ j # 0
      OBVIOUS
    <3>2. QED BY <2>2, <3>1, Zenon
  <2>5. hop[0] = start
    BY <2>2, <2>3, Zenon
  <2>6. QED BY <2>4, <2>5
<1>5. \A x : x \in Visited(nxt, start, k) <=> \E j \in 0..k : x = hop[j]
  BY <1>3
<1>6. HopVisits(hop, nxt, start, k)
  BY <1>4, <1>5, Zenon DEF HopVisits
<1>7. QED BY <1>6, Zenon

(* A walk visits the place where it starts.                                *)
LEMMA VisitedStart ==
    ASSUME NEW nxt, NEW start, NEW k \in Nat
    PROVE  start \in Visited(nxt, start, k)
<1>1. PICK h : HopVisits(h, nxt, start, k)
  BY VisitedHop
<1>2. h[0] = start
  BY <1>1, Zenon DEF HopVisits
<1>3. QED BY <1>1, <1>2 DEF HopVisits

(* What walks of no and of one hop visit: the process ring is that short.  *)
LEMMA VisitedFew ==
    ASSUME NEW nxt, NEW start
    PROVE  /\ Visited(nxt, start, 0) = {start}
           /\ Visited(nxt, start, 1) = {start, nxt[start]}
<1>1. Visited(nxt, start, 0) = {start}
  <2>1. PICK h : HopVisits(h, nxt, start, 0)
    BY VisitedHop
  <2>2. h[0] = start /\ 0..0 = {0}
    BY <2>1 DEF HopVisits
  <2>3. QED BY <2>1, <2>2 DEF HopVisits
<1>2. Visited(nxt, start, 1) = {start, nxt[start]}
  <2>1. PICK h : HopVisits(h, nxt, start, 1)
    BY VisitedHop
  <2>2. h[0] = start /\ h[1] = nxt[start] /\ 0..1 = {0, 1}
    BY <2>1 DEF HopVisits
  <2>3. QED BY <2>1, <2>2 DEF HopVisits
<1>3. QED BY <1>1, <1>2

(* get_proc_by_id(id), with the user process linked, finds that process or *)
(* nothing, and finds it by its current thread.                            *)
LEMMA LookupUser ==
    ASSUME TextInv, TwoProcs, ConsoleIs \in BusyAt, list = Console, NEW id, id # Console
    PROVE  /\ get_proc_by_id(id) \in {NULL, proc}
           /\ id = thread_list[proc] => get_proc_by_id(id) = proc
<1>1. proc \in Tid \ {Console} /\ threads[proc] \in Nat /\ next[Console] = proc /\ n_proc - 1 = 1
  BY DEF TextInv, TypeOK, ProcInv, TwoProcs
<1>2. ProcsVisited = {Console, proc}
  BY <1>1, VisitedFew DEF ProcsVisited
<1>3. ThreadsVisited(Console) = {Console}
  <2>1. threads[Console] - 1 = 0 /\ thread_list[Console] = Console
    BY DEF TextInv, ConsoleInv
  <2>2. QED BY <2>1, VisitedFew DEF ThreadsVisited
<1>4. thread_list[proc] \in ThreadsVisited(proc)
  <2>1. threads[proc] - 1 \in Nat
    BY <1>1 DEF TextInv, ThreadsInv
  <2>2. QED BY <2>1, VisitedStart DEF ThreadsVisited
<1>5. QED
  <2>1. \A p \in ProcsVisited : id \in ThreadsVisited(p) => p = proc
    BY <1>2, <1>3
  <2>2. get_proc_by_id(id) \in {NULL, proc}
    BY <2>1 DEF get_proc_by_id
  <2>3. ASSUME id = thread_list[proc] PROVE get_proc_by_id(id) = proc
    <3>1. proc \in ProcsVisited /\ id \in ThreadsVisited(proc)
      BY <1>2, <1>4, <2>3
    <3>2. QED BY <2>1, <3>1 DEF get_proc_by_id
  <2>4. QED BY <2>2, <2>3

(* With only the console linked it finds nothing for a user pid.           *)
LEMMA LookupNone ==
    ASSUME TextInv, OneProc, NEW id, id # Console
    PROVE  get_proc_by_id(id) = NULL
<1>1. ProcsVisited = {Console}
  BY VisitedFew DEF ProcsVisited, OneProc
<1>2. threads[Console] - 1 = 0 /\ thread_list[Console] = Console
  BY DEF TextInv, ConsoleInv
<1>3. ThreadsVisited(Console) = {Console}
  BY <1>2, VisitedFew DEF ThreadsVisited
<1>4. QED BY <1>1, <1>3 DEF get_proc_by_id

(* A step of the console before remove_proc's loop keeps ThreadsInv.       *)
LEMMA ThreadsKept ==
    ASSUME TextInv, list = Console,
           ConsoleIs \in BusyAt \ (LoopAt \cup {"rmend"}),
           ConsoleIs' \in BusyAt \ (LoopAt \cup {"rmend"}),
           UNCHANGED <<proc, list, thread_list, threads, ringVars, tstate, esp_kernel>>
    PROVE  ThreadsInv'
<1> USE DEF ringVars
<1>1. PICK n \in 1..threads[proc] : \E thr \in [1..n -> Tid] : ThreadsOK(thr, n)
  BY DEF TextInv, ThreadsInv
<1>2. PICK thr \in [1..n -> Tid] : ThreadsOK(thr, n)
  BY <1>1
<1>3. proc # Console /\ \A t : Built(t)' <=> Built(t)
  BY DEF TextInv, ProcInv, Built
<1>4. RingSeq(thr, n)' /\ AtRest(thr, n)'
  BY <1>2, <1>3, RingSeqSame, AtRestConsole DEF ThreadsOK
<1>5. ThreadsOK(thr, n)'
  BY <1>4 DEF ThreadsOK
<1>6. QED BY <1>5 DEF ThreadsInv

(* A step of that loop which moves no thread keeps ThreadsInv.             *)
LEMMA LoopKept ==
    ASSUME TextInv, ConsoleIs \in LoopAt, ConsoleIs' \in LoopAt, TwoProcs' => TwoProcs,
           UNCHANGED <<proc, thread_list, threads, ringVars, tstate, esp_kernel, i>>
    PROVE  ThreadsInv'
<1> USE DEF ringVars
<1>1. PICK n \in 1..threads[proc] : \E thr \in [1..n -> Tid] : ThreadsOK(thr, n)
  BY DEF TextInv, ThreadsInv, RemoveAt, BusyAt
<1>2. PICK thr \in [1..n -> Tid] : ThreadsOK(thr, n)
  BY <1>1
<1>3. \A t : Built(t)' <=> Built(t)
  BY DEF Built
<1>4. RingSeq(thr, n)' /\ LoopProgress(thr, n)'
  <2>1. RingSeq(thr, n)'
    BY <1>2, <1>3, RingSeqSame DEF ThreadsOK
  <2>2. LoopProgress(thr, n)
    BY <1>2 DEF ThreadsOK
  <2>3. QED BY <2>1, <2>2 DEF LoopProgress
<1>5. ThreadsOK(thr, n)'
  BY <1>4 DEF ThreadsOK
<1>6. QED BY <1>5 DEF ThreadsInv

(* The last iteration of console_start's polling preserves TextInv.        *)
LEMMA PollStoppedInv == ASSUME TextInv, PollStopped PROVE TextInv'
<1> USE DEF PollStopped, Running, procVars, procData, ringVars, pitVars, cpuVars, locals
<1>1. cpu.owner = Console /\ list = Console /\ ConsoleIs = "poll" /\ proc \in Tid \ {Console}
  BY ConsoleRuns DEF TextInv, ProcInv, ConsoleAt, WaitAt, LoopAt, RemoveAt, BusyAt, Unlinking
<1>2. cpu' \in Context /\ cpu'.owner = Console /\ cpu'.at = "remove" /\ ConsoleIs' = "remove"
  <2>1. "remove" \in Label
    BY DEF Label, ConsoleAt, Unlinking
  <2>2. QED BY <1>1, <2>1, GotoFacts DEF TextInv
<1>3. \A t : Built(t)' <=> Built(t)
  BY DEF Built
<1>4. pstate[proc] = "STOPPED"
  <2>1. procn # Console /\ TwoProcs /\ ConsoleIs \in BusyAt
    BY <1>1 DEF TextInv, ProcInv, RingShape, WaitAt, BusyAt
  <2>2. QED BY <1>1, <2>1, LookupUser DEF HasStopped
<1>5. TypeOK'
  BY <1>2 DEF TextInv, TypeOK
<1>6. (ConsoleInv /\ RingShape /\ OneUser)'
  BY <1>1, <1>2, <1>3 DEF TextInv, ConsoleInv, RingShape, OneUser, OneProc, TwoProcs, IdleAt, WaitAt, LoopAt, RemoveAt, BusyAt, Unlinking
<1>7. ProcInv'
  BY <1>1, <1>2, <1>3, <1>4 DEF TextInv, ProcInv, IdleAt, WaitAt, LoopAt, RemoveAt, BusyAt, Unlinking
<1>8. ThreadsInv'
  BY <1>1, <1>2, ThreadsKept DEF IdleAt, WaitAt, LoopAt, RemoveAt, BusyAt, Unlinking
<1>9. (FreshInv /\ SavedInv /\ SavedContextOwn)'
  BY <1>3 DEF TextInv, FreshInv, SavedInv, SavedContextOwn
<1>10. CpuInv'
  BY <1>1, <1>2, <1>3 DEF TextInv, CpuInv, CurThread, BusyAt, RemoveAt
<1>11. QED BY <1>5, <1>6, <1>7, <1>8, <1>9, <1>10 DEF TextInv

(* So does polling a pid that is no longer known.                          *)
LEMMA PollNullInv == ASSUME TextInv, PollNull PROVE TextInv'
<1> USE DEF PollNull, Running, procVars, procData, ringVars, pitVars, cpuVars, locals
<1>1. cpu.owner = Console /\ list = Console /\ ConsoleIs = "poll" /\ proc \in Tid \ {Console}
  BY ConsoleRuns DEF TextInv, ProcInv, ConsoleAt, WaitAt, BusyAt
<1>2. PICK l \in {"lost", "wild"} : Goto(l)
  OBVIOUS
<1>3. cpu' \in Context /\ cpu'.owner = Console /\ cpu'.at = l /\ ConsoleIs' = l
  <2>1. l \in Label
    BY DEF Label, ConsoleAt
  <2>2. QED BY <1>1, <1>2, <2>1, GotoFacts DEF TextInv
<1>4. \A t : Built(t)' <=> Built(t)
  BY DEF Built
<1>5. TypeOK'
  BY <1>3 DEF TextInv, TypeOK
<1>6. (ConsoleInv /\ RingShape /\ OneUser /\ ProcInv)'
  BY <1>1, <1>3, <1>4 DEF TextInv, ConsoleInv, RingShape, OneUser, ProcInv, OneProc, TwoProcs, IdleAt, WaitAt, LoopAt, RemoveAt, BusyAt, Unlinking
<1>7. ThreadsInv'
  BY <1>1, <1>3, ThreadsKept DEF IdleAt, WaitAt, LoopAt, RemoveAt, BusyAt, Unlinking
<1>8. (FreshInv /\ SavedInv /\ SavedContextOwn)'
  BY <1>4 DEF TextInv, FreshInv, SavedInv, SavedContextOwn
<1>9. CpuInv'
  BY <1>1, <1>3, <1>4 DEF TextInv, CpuInv, CurThread, BusyAt, WaitAt
<1>10. QED BY <1>5, <1>6, <1>7, <1>8, <1>9 DEF TextInv

(* Entering remove_proc preserves TextInv: the loop count, threads,        *)
(* reaches every thread of the ring.                                       *)
LEMMA RemoveBeginInv == ASSUME TextInv, RemoveBegin PROVE TextInv'
<1> USE DEF RemoveBegin, Running, procVars, procData, ringVars, pitVars, cpuVars
<1>1. cpu.owner = Console /\ list = Console /\ ConsoleIs = "remove" /\ proc \in Tid \ {Console}
  BY ConsoleRuns DEF TextInv, ProcInv, ConsoleAt, RemoveAt, BusyAt
<1>2. PICK l \in {"rm", "wild"} : Goto(l) /\ (l = "rm" => cur' # NULL)
  OBVIOUS
<1>3. cpu' \in Context /\ cpu'.owner = Console /\ cpu'.at = l /\ ConsoleIs' = l
  <2>1. l \in Label
    BY DEF Label, ConsoleAt
  <2>2. QED BY <1>1, <1>2, <2>1, GotoFacts DEF TextInv
<1>4. \A t : Built(t)' <=> Built(t)
  BY DEF Built
<1>5. cur' \in {NULL, proc}
  <2>1. procn # Console /\ TwoProcs /\ ConsoleIs \in BusyAt
    BY <1>1 DEF TextInv, ProcInv, RingShape, RemoveAt, BusyAt
  <2>2. QED BY <1>1, <2>1, LookupUser
<1>6. TypeOK'
  BY <1>1, <1>3, <1>5 DEF TextInv, TypeOK
<1>7. (ConsoleInv /\ RingShape /\ OneUser)'
  BY <1>1, <1>3, <1>4 DEF TextInv, ConsoleInv, RingShape, OneUser, OneProc, TwoProcs, IdleAt, WaitAt, LoopAt, RemoveAt, BusyAt, Unlinking
<1>8. ProcInv'
  BY <1>1, <1>2, <1>3, <1>4, <1>5 DEF TextInv, ProcInv, IdleAt, WaitAt, LoopAt, RemoveAt, BusyAt, Unlinking
<1>9. CASE l = "wild"
  <2>1. ThreadsInv'
    BY <1>1, <1>3, <1>9, ThreadsKept DEF IdleAt, WaitAt, LoopAt, RemoveAt, BusyAt, Unlinking
  <2>2. (FreshInv /\ SavedInv /\ SavedContextOwn)'
    BY <1>4 DEF TextInv, FreshInv, SavedInv, SavedContextOwn
  <2>3. CpuInv'
    BY <1>1, <1>3, <1>4 DEF TextInv, CpuInv, CurThread, IdleAt, WaitAt, LoopAt, RemoveAt, BusyAt, Unlinking
  <2>4. QED BY <1>6, <1>7, <1>8, <2>1, <2>2, <2>3 DEF TextInv
<1>10. CASE l = "rm"
  <2>1. PICK n \in 1..threads[proc] : \E thr \in [1..n -> Tid] : ThreadsOK(thr, n)
    BY <1>1 DEF TextInv, ThreadsInv, RemoveAt, BusyAt
  <2>2. PICK thr \in [1..n -> Tid] : ThreadsOK(thr, n)
    BY <2>1
  <2>3. RingSeq(thr, n)'
    BY <1>4, <2>2, RingSeqSame DEF ThreadsOK
  <2>4. AtRest(thr, n)
    BY <1>1, <2>2 DEF ThreadsOK, LoopAt, Unlinking
  <2>5. PICK k \in 1..n : thread_list[proc] = thr[k]
    BY <1>1, <2>4 DEF AtRest, Exited
  <2>6. \A j \in 1..n : Distance(k, j, n) < threads[proc] - 0
    <3>1. threads[proc] \in Nat
      BY <1>1 DEF TextInv, TypeOK
    <3>2. QED BY <3>1 DEF Distance
  <2>7. 1 \in 1..n
    BY DEF TextInv, TypeOK
  <2>8. LoopProgress(thr, n)'
    BY <2>5, <2>6, <2>7 DEF LoopProgress
  <2>9. ThreadsOK(thr, n)'
    BY <1>3, <1>10, <2>3, <2>8 DEF ThreadsOK, LoopAt
  <2>10. ThreadsInv'
    BY <2>9 DEF ThreadsInv
  <2>11. (FreshInv /\ SavedInv /\ SavedContextOwn)'
    BY <1>4 DEF TextInv, FreshInv, SavedInv, SavedContextOwn
  <2>12. CpuInv'
    BY <1>1, <1>3, <1>4 DEF TextInv, CpuInv, CurThread, IdleAt, WaitAt, LoopAt, RemoveAt, BusyAt, Unlinking
  <2>13. QED BY <1>6, <1>7, <1>8, <2>10, <2>11, <2>12 DEF TextInv
<1>11. QED BY <1>9, <1>10

(* The loop meeting the main thread preserves TextInv.                     *)
LEMMA RemoveMainInv == ASSUME TextInv, RemoveMain PROVE TextInv'
<1> USE DEF RemoveMain, Running, procVars, procData, ringVars, pitVars, cpuVars
<1>1. cpu.owner = Console /\ list = Console /\ ConsoleIs = "rm" /\ proc \in Tid \ {Console} /\ cur = proc
  BY ConsoleRuns DEF TextInv, ProcInv, ConsoleAt, LoopAt, RemoveAt, BusyAt
<1>2. PICK l \in {"rmfree", "unlink1"} : Goto(l) /\ (l = "rmfree" <=> app' = NULL)
  OBVIOUS
<1>3. cpu' \in Context /\ cpu'.owner = Console /\ cpu'.at = l /\ ConsoleIs' = l
  <2>1. l \in Label
    BY DEF Label, ConsoleAt, Unlinking
  <2>2. QED BY <1>1, <1>2, <2>1, GotoFacts DEF TextInv
<1>4. \A t : Built(t)' <=> Built(t)
  BY DEF Built
<1>5. thread_list[proc] = proc
  BY <1>1 DEF TextInv, ProcInv, Main, LoopAt, RemoveAt, BusyAt
<1>6. OneProc \/ TwoProcs
  BY <1>1 DEF TextInv, RingShape
<1>7. OneProc => l = "rmfree"
  BY <1>1, <1>2, <1>5, LookupNone
<1>8. TwoProcs => l = "unlink1" /\ app' = proc
  BY <1>1, <1>2, <1>5, LookupUser DEF LoopAt, RemoveAt, BusyAt
<1>9. app' \in Ptr
  BY <1>1, <1>2, <1>6, <1>7, <1>8
<1>10. TypeOK'
  BY <1>3, <1>9 DEF TextInv, TypeOK
<1>11. RingShape'
  BY <1>1, <1>3, <1>6, <1>7, <1>8 DEF TextInv, RingShape, OneProc, TwoProcs, IdleAt, WaitAt, LoopAt, RemoveAt, BusyAt, Unlinking
<1>12. ProcInv'
  <2>1. l = "unlink1" => app' = proc
    BY <1>2, <1>6, <1>7, <1>8
  <2>2. l = "rmfree" => ~TwoProcs'
    BY <1>8 DEF TwoProcs
  <2>3. QED BY <1>1, <1>3, <1>4, <1>5, <2>1, <2>2 DEF TextInv, ProcInv, IdleAt, WaitAt, LoopAt, RemoveAt, BusyAt, Unlinking
<1>13. (ConsoleInv /\ OneUser)'
  BY <1>1, <1>3, <1>4 DEF TextInv, ConsoleInv, OneUser, IdleAt, WaitAt, LoopAt, RemoveAt, BusyAt, Unlinking
<1>14. ThreadsInv'
  <2>1. TwoProcs' => TwoProcs
    BY DEF TwoProcs
  <2>2. QED BY <1>1, <1>3, <2>1, LoopKept DEF LoopAt, Unlinking
<1>15. (FreshInv /\ SavedInv /\ SavedContextOwn)'
  BY <1>4 DEF TextInv, FreshInv, SavedInv, SavedContextOwn
<1>16. CpuInv'
  BY <1>1, <1>3, <1>4 DEF TextInv, CpuInv, CurThread, IdleAt, WaitAt, LoopAt, RemoveAt, BusyAt, Unlinking
<1>17. QED BY <1>10, <1>11, <1>12, <1>13, <1>14, <1>15, <1>16 DEF TextInv

(* The loop meeting another thread preserves TextInv.                      *)
LEMMA RemoveOtherInv == ASSUME TextInv, RemoveOther PROVE TextInv'
<1> USE DEF RemoveOther, Running, procVars, procData, ringVars, pitVars, cpuVars, locals
<1>1. cpu.owner = Console /\ list = Console /\ ConsoleIs = "rm" /\ proc \in Tid \ {Console}
  BY ConsoleRuns DEF TextInv, ProcInv, ConsoleAt, WaitAt, LoopAt, RemoveAt, BusyAt, Unlinking
<1>2. cpu' \in Context /\ cpu'.owner = Console /\ cpu'.at = "rmfree" /\ ConsoleIs' = "rmfree"
  <2>1. "rmfree" \in Label
    BY DEF Label, ConsoleAt, Unlinking
  <2>2. QED BY <1>1, <2>1, GotoFacts DEF TextInv
<1>3. \A t : Built(t)' <=> Built(t)
  BY DEF Built
<1>4. thread_list[proc] # proc
  BY <1>1 DEF TextInv, ProcInv, Main, LoopAt, RemoveAt, BusyAt
<1>5. TypeOK'
  BY <1>2 DEF TextInv, TypeOK
<1>6. (ConsoleInv /\ RingShape /\ OneUser)'
  BY <1>1, <1>2, <1>3 DEF TextInv, ConsoleInv, RingShape, OneUser, OneProc, TwoProcs, IdleAt, WaitAt, LoopAt, RemoveAt, BusyAt, Unlinking
<1>7. ProcInv'
  BY <1>1, <1>2, <1>3, <1>4 DEF TextInv, ProcInv, IdleAt, WaitAt, LoopAt, RemoveAt, BusyAt, Unlinking
<1>8. ThreadsInv'
  <2>1. TwoProcs' => TwoProcs
    BY DEF TwoProcs
  <2>2. QED BY <1>1, <1>2, <2>1, LoopKept DEF LoopAt, Unlinking
<1>9. (FreshInv /\ SavedInv /\ SavedContextOwn)'
  BY <1>3 DEF TextInv, FreshInv, SavedInv, SavedContextOwn
<1>10. CpuInv'
  BY <1>1, <1>2, <1>3 DEF TextInv, CpuInv, CurThread, IdleAt, WaitAt, LoopAt, RemoveAt, BusyAt, Unlinking
<1>11. QED BY <1>5, <1>6, <1>7, <1>8, <1>9, <1>10 DEF TextInv

(* First statement of sched_remove_proc.                                   *)
LEMMA Unlink1Inv == ASSUME TextInv, Unlink1 PROVE TextInv'
<1> USE DEF Unlink1, Running, procData, ringVars, pitVars, cpuVars, locals
<1>1. cpu.owner = Console /\ list = Console /\ ConsoleIs = "unlink1" /\ proc \in Tid \ {Console}
  BY ConsoleRuns DEF TextInv, ProcInv, ConsoleAt, WaitAt, LoopAt, RemoveAt, BusyAt, Unlinking
<1>2. cpu' \in Context /\ cpu'.owner = Console /\ cpu'.at = "unlink2" /\ ConsoleIs' = "unlink2"
  <2>1. "unlink2" \in Label
    BY DEF Label, ConsoleAt, Unlinking
  <2>2. QED BY <1>1, <2>1, GotoFacts DEF TextInv
<1>3. \A t : Built(t)' <=> Built(t)
  BY DEF Built
<1>4. app = proc /\ cur = proc /\ next[proc] = Console /\ prec[proc] = Console
      /\ next \in [Tid -> Ptr] /\ prec \in [Tid -> Ptr] /\ Console \in Tid
  BY <1>1 DEF TextInv, TypeOK, ProcInv, RingShape, LoopAt, RemoveAt, BusyAt, Unlinking
<1>5. next' = [next EXCEPT ![Console] = Console] /\ next' \in [Tid -> Ptr] /\ next'[proc] = Console
  BY <1>1, <1>4
<1>6. TypeOK'
  BY <1>2, <1>5 DEF TextInv, TypeOK
<1>7. (ConsoleInv /\ OneUser)'
  BY <1>1, <1>2, <1>3 DEF TextInv, ConsoleInv, OneUser, IdleAt, WaitAt, LoopAt, RemoveAt, BusyAt, Unlinking
<1>8. RingShape'
  BY <1>1, <1>2, <1>4, <1>5 DEF TextInv, RingShape, OneProc, TwoProcs, IdleAt, WaitAt, LoopAt, RemoveAt, BusyAt, Unlinking
<1>9. ~TwoProcs'
  BY <1>1, <1>4, <1>5 DEF TextInv, RingShape, OneProc, TwoProcs
<1>10. ProcInv'
  BY <1>1, <1>2, <1>3, <1>9 DEF TextInv, ProcInv, IdleAt, WaitAt, LoopAt, RemoveAt, BusyAt, Unlinking
<1>11. ThreadsInv'
  BY <1>1, <1>2, <1>9, LoopKept DEF LoopAt, Unlinking
<1>12. (FreshInv /\ SavedInv /\ SavedContextOwn)'
  BY <1>3 DEF TextInv, FreshInv, SavedInv, SavedContextOwn
<1>13. CpuInv'
  BY <1>1, <1>2, <1>3, <1>5 DEF TextInv, CpuInv, CurThread, IdleAt, WaitAt, LoopAt, RemoveAt, BusyAt, Unlinking
<1>14. QED BY <1>6, <1>7, <1>8, <1>10, <1>11, <1>12, <1>13 DEF TextInv

(* Second statement of sched_remove_proc.                                  *)
LEMMA Unlink2Inv == ASSUME TextInv, Unlink2 PROVE TextInv'
<1> USE DEF Unlink2, Running, procData, ringVars, pitVars, cpuVars, locals
<1>1. cpu.owner = Console /\ list = Console /\ ConsoleIs = "unlink2" /\ proc \in Tid \ {Console}
  BY ConsoleRuns DEF TextInv, ProcInv, ConsoleAt, WaitAt, LoopAt, RemoveAt, BusyAt, Unlinking
<1>2. cpu' \in Context /\ cpu'.owner = Console /\ cpu'.at = "unlink3" /\ ConsoleIs' = "unlink3"
  <2>1. "unlink3" \in Label
    BY DEF Label, ConsoleAt, Unlinking
  <2>2. QED BY <1>1, <2>1, GotoFacts DEF TextInv
<1>3. \A t : Built(t)' <=> Built(t)
  BY DEF Built
<1>4. app = proc /\ cur = proc /\ next[proc] = Console /\ prec[proc] = Console
      /\ next \in [Tid -> Ptr] /\ prec \in [Tid -> Ptr] /\ Console \in Tid
  BY <1>1 DEF TextInv, TypeOK, ProcInv, RingShape, LoopAt, RemoveAt, BusyAt, Unlinking
<1>5. prec' = [prec EXCEPT ![Console] = Console] /\ prec' \in [Tid -> Ptr] /\ prec'[proc] = Console
  BY <1>1, <1>4
<1>6. TypeOK'
  BY <1>2, <1>5 DEF TextInv, TypeOK
<1>7. (ConsoleInv /\ OneUser)'
  BY <1>1, <1>2, <1>3 DEF TextInv, ConsoleInv, OneUser, IdleAt, WaitAt, LoopAt, RemoveAt, BusyAt, Unlinking
<1>8. RingShape'
  BY <1>1, <1>2, <1>4, <1>5 DEF TextInv, RingShape, OneProc, TwoProcs, IdleAt, WaitAt, LoopAt, RemoveAt, BusyAt, Unlinking
<1>9. ~TwoProcs'
  BY <1>1, <1>4, <1>5 DEF TextInv, RingShape, OneProc, TwoProcs
<1>10. ProcInv'
  BY <1>1, <1>2, <1>3, <1>9 DEF TextInv, ProcInv, IdleAt, WaitAt, LoopAt, RemoveAt, BusyAt, Unlinking
<1>11. ThreadsInv'
  BY <1>1, <1>2, <1>9, LoopKept DEF LoopAt, Unlinking
<1>12. (FreshInv /\ SavedInv /\ SavedContextOwn)'
  BY <1>3 DEF TextInv, FreshInv, SavedInv, SavedContextOwn
<1>13. CpuInv'
  BY <1>1, <1>2, <1>3, <1>5 DEF TextInv, CpuInv, CurThread, IdleAt, WaitAt, LoopAt, RemoveAt, BusyAt, Unlinking
<1>14. QED BY <1>6, <1>7, <1>8, <1>10, <1>11, <1>12, <1>13 DEF TextInv

(* Third statement of sched_remove_proc.                                   *)
LEMMA Unlink3Inv == ASSUME TextInv, Unlink3 PROVE TextInv'
<1> USE DEF Unlink3, Running, procData, ringVars, pitVars, cpuVars, locals
<1>1. cpu.owner = Console /\ list = Console /\ ConsoleIs = "unlink3" /\ proc \in Tid \ {Console}
  BY ConsoleRuns DEF TextInv, ProcInv, ConsoleAt, WaitAt, LoopAt, RemoveAt, BusyAt, Unlinking
<1>2. cpu' \in Context /\ cpu'.owner = Console /\ cpu'.at = "unlink4" /\ ConsoleIs' = "unlink4"
  <2>1. "unlink4" \in Label
    BY DEF Label, ConsoleAt, Unlinking
  <2>2. QED BY <1>1, <2>1, GotoFacts DEF TextInv
<1>3. \A t : Built(t)' <=> Built(t)
  BY DEF Built
<1>4. app = proc /\ cur = proc /\ next[proc] = Console /\ prec[proc] = Console
      /\ next \in [Tid -> Ptr] /\ prec \in [Tid -> Ptr] /\ Console \in Tid
  BY <1>1 DEF TextInv, TypeOK, ProcInv, RingShape, LoopAt, RemoveAt, BusyAt, Unlinking
<1>5. n_proc' = 1
  BY <1>1 DEF TextInv, RingShape
<1>6. TypeOK'
  BY <1>2, <1>5 DEF TextInv, TypeOK
<1>7. (ConsoleInv /\ OneUser)'
  BY <1>1, <1>2, <1>3 DEF TextInv, ConsoleInv, OneUser, IdleAt, WaitAt, LoopAt, RemoveAt, BusyAt, Unlinking
<1>8. RingShape'
  BY <1>1, <1>2, <1>4, <1>5 DEF TextInv, RingShape, OneProc, TwoProcs, IdleAt, WaitAt, LoopAt, RemoveAt, BusyAt, Unlinking
<1>9. ~TwoProcs'
  BY <1>1, <1>4, <1>5 DEF TextInv, RingShape, OneProc, TwoProcs
<1>10. ProcInv'
  BY <1>1, <1>2, <1>3, <1>9 DEF TextInv, ProcInv, IdleAt, WaitAt, LoopAt, RemoveAt, BusyAt, Unlinking
<1>11. ThreadsInv'
  BY <1>1, <1>2, <1>9, LoopKept DEF LoopAt, Unlinking
<1>12. (FreshInv /\ SavedInv /\ SavedContextOwn)'
  BY <1>3 DEF TextInv, FreshInv, SavedInv, SavedContextOwn
<1>13. CpuInv'
  BY <1>1, <1>2, <1>3, <1>5 DEF TextInv, CpuInv, CurThread, IdleAt, WaitAt, LoopAt, RemoveAt, BusyAt, Unlinking
<1>14. QED BY <1>6, <1>7, <1>8, <1>10, <1>11, <1>12, <1>13 DEF TextInv

(* Fourth statement of sched_remove_proc: in text mode list does not       *)
(* change.                                                                 *)
LEMMA Unlink4Inv == ASSUME TextInv, Unlink4 PROVE TextInv'
<1> USE DEF Unlink4, Running, procData, ringVars, pitVars, cpuVars, locals
<1>1. cpu.owner = Console /\ list = Console /\ ConsoleIs = "unlink4" /\ proc \in Tid \ {Console}
  BY ConsoleRuns DEF TextInv, ProcInv, ConsoleAt, WaitAt, LoopAt, RemoveAt, BusyAt, Unlinking
<1>2. cpu' \in Context /\ cpu'.owner = Console /\ cpu'.at = "rmfree" /\ ConsoleIs' = "rmfree"
  <2>1. "rmfree" \in Label
    BY DEF Label, ConsoleAt, Unlinking
  <2>2. QED BY <1>1, <2>1, GotoFacts DEF TextInv
<1>3. \A t : Built(t)' <=> Built(t)
  BY DEF Built
<1>4. app = proc /\ cur = proc /\ next[proc] = Console /\ prec[proc] = Console
      /\ next \in [Tid -> Ptr] /\ prec \in [Tid -> Ptr] /\ Console \in Tid
  BY <1>1 DEF TextInv, TypeOK, ProcInv, RingShape, LoopAt, RemoveAt, BusyAt, Unlinking
<1>5. list' = Console
  BY <1>4
<1>6. TypeOK'
  BY <1>2, <1>5 DEF TextInv, TypeOK
<1>7. (ConsoleInv /\ OneUser)'
  BY <1>1, <1>2, <1>3 DEF TextInv, ConsoleInv, OneUser, IdleAt, WaitAt, LoopAt, RemoveAt, BusyAt, Unlinking
<1>8. RingShape'
  BY <1>1, <1>2, <1>4, <1>5 DEF TextInv, RingShape, OneProc, TwoProcs, IdleAt, WaitAt, LoopAt, RemoveAt, BusyAt, Unlinking
<1>9. ~TwoProcs'
  BY <1>1, <1>4, <1>5 DEF TextInv, RingShape, OneProc, TwoProcs
<1>10. ProcInv'
  BY <1>1, <1>2, <1>3, <1>9 DEF TextInv, ProcInv, IdleAt, WaitAt, LoopAt, RemoveAt, BusyAt, Unlinking
<1>11. ThreadsInv'
  BY <1>1, <1>2, <1>9, LoopKept DEF LoopAt, Unlinking
<1>12. (FreshInv /\ SavedInv /\ SavedContextOwn)'
  BY <1>3 DEF TextInv, FreshInv, SavedInv, SavedContextOwn
<1>13. CpuInv'
  BY <1>1, <1>2, <1>3, <1>5 DEF TextInv, CpuInv, CurThread, IdleAt, WaitAt, LoopAt, RemoveAt, BusyAt, Unlinking
<1>14. QED BY <1>6, <1>7, <1>8, <1>10, <1>11, <1>12, <1>13 DEF TextInv

(* Freeing a thread and moving on preserves TextInv: one iteration less,   *)
(* and the live threads are one hop nearer.                                *)
LEMMA RemoveFreeInv == ASSUME TextInv, RemoveFree PROVE TextInv'
<1> USE DEF RemoveFree, Running, procVars, procData, ringVars, pitVars, cpuVars
<1>1. cpu.owner = Console /\ list = Console /\ ConsoleIs = "rmfree" /\ proc \in Tid \ {Console} /\ cur = proc
  BY ConsoleRuns DEF TextInv, ProcInv, ConsoleAt, WaitAt, LoopAt, RemoveAt, BusyAt, Unlinking
<1>2. cpu' \in Context /\ cpu'.owner = Console /\ cpu'.at = "rm" /\ ConsoleIs' = "rm"
  <2>1. "rm" \in Label
    BY DEF Label, ConsoleAt, Unlinking
  <2>2. QED BY <1>1, <2>1, GotoFacts DEF TextInv
<1>3. \A t : Built(t)' <=> Built(t)
  BY DEF Built
<1>4. PICK n \in 1..threads[proc] : \E thr \in [1..n -> Tid] : ThreadsOK(thr, n)
  BY <1>1 DEF TextInv, ThreadsInv, LoopAt, RemoveAt, BusyAt
<1>5. PICK thr \in [1..n -> Tid] : RingSeq(thr, n) /\ LoopProgress(thr, n)
  BY <1>1, <1>4 DEF ThreadsOK, LoopAt
<1>6. threads[proc] \in Nat /\ i \in Nat /\ thread_list \in [Tid -> Ptr] /\ tstate \in [Tid -> {"none", "live", "freed"}]
  BY <1>1 DEF TextInv, TypeOK
<1>7. PICK k \in 1..n :
        /\ thread_list[proc] = thr[k]
        /\ \A j \in 1..n : tstate[thr[j]] = "live" => Distance(k, j, n) < threads[proc] - i
        /\ TwoProcs => Distance(k, 1, n) < threads[proc] - i
  BY <1>5 DEF LoopProgress
<1>8. PICK m \in 1..n : m = (IF k = n THEN 1 ELSE k + 1)
  BY <1>6
<1>9. /\ tstate' = [tstate EXCEPT ![thr[k]] = "freed"]
      /\ thread_list' = [thread_list EXCEPT ![proc] = thr[m]]
      /\ thr[k] \in Tid /\ thr[m] \in Tid /\ Built(thr[m]) /\ parent[thr[m]] = proc
  <2>1. thr[k] \in Tid /\ thr[m] \in Tid
    BY Zenon
  <2>2. Built(thr[m]) /\ parent[thr[m]] = proc
    BY <1>5, Zenon DEF RingSeq
  <2>3. tnext[thr[k]] = thr[m]
    BY <1>5, <1>8, Zenon DEF RingSeq
  <2>4. /\ tstate' = [tstate EXCEPT ![thread_list[proc]] = "freed"]
        /\ thread_list' = [thread_list EXCEPT ![proc] = tnext[thread_list[proc]]]
    BY <1>1
  <2>5. QED BY ONLY <1>7, <2>1, <2>2, <2>3, <2>4
<1>10. \A t \in Tid : tstate'[t] = IF t = thr[k] THEN "freed" ELSE tstate[t]
  BY <1>6, <1>9
<1>11. TypeOK'
  <2>1. tstate' \in [Tid -> {"none", "live", "freed"}]
    BY <1>6, <1>9
  <2>2. thread_list' \in [Tid -> Ptr]
    BY <1>6, <1>9
  <2>3. i' \in Nat
    BY <1>6
  <2>4. QED BY <1>2, <2>1, <2>2, <2>3 DEF TextInv, TypeOK
<1>12. ConsoleInv'
  BY <1>1, <1>2, <1>3, <1>6, <1>9 DEF TextInv, ConsoleInv, IdleAt, WaitAt, LoopAt, RemoveAt, BusyAt, Unlinking
<1>13. RingShape'
  BY <1>1, <1>2 DEF TextInv, RingShape, OneProc, TwoProcs, IdleAt, WaitAt, LoopAt, RemoveAt, BusyAt, Unlinking
<1>14. ProcInv'
  BY <1>1, <1>2, <1>3, <1>6, <1>9 DEF TextInv, ProcInv, IdleAt, WaitAt, LoopAt, RemoveAt, BusyAt, Unlinking
<1>15. OneUser'
  BY <1>1, <1>2, <1>10 DEF TextInv, OneUser, IdleAt, WaitAt, LoopAt, RemoveAt, BusyAt, Unlinking
<1>16. ThreadsInv'
  <2>1. RingSeq(thr, n)'
    BY <1>3, <1>5, <1>10 DEF RingSeq
  <2>2. \A j \in 1..n : j # k => Distance(m, j, n) = Distance(k, j, n) - 1
    BY <1>6, <1>8 DEF Distance
  <2>3. \A j \in 1..n : tstate'[thr[j]] = "live" => Distance(m, j, n) < threads[proc] - (i + 1)
    <3>1. SUFFICES ASSUME NEW j \in 1..n, tstate'[thr[j]] = "live"
                   PROVE  Distance(m, j, n) < threads[proc] - (i + 1)
      OBVIOUS
    <3>2. j # k /\ tstate[thr[j]] = "live"
      BY <1>10, <3>1
    <3>3. Distance(k, j, n) \in Int /\ Distance(k, j, n) < threads[proc] - i
      BY <1>6, <1>7, <3>2 DEF Distance
    <3>4. Distance(m, j, n) = Distance(k, j, n) - 1
      BY <2>2, <3>2
    <3>5. QED BY ONLY <1>6, <3>3, <3>4
  <2>4. ASSUME TwoProcs' PROVE Distance(m, 1, n) < threads[proc] - (i + 1)
    <3>1. TwoProcs
      BY <2>4 DEF TwoProcs
    <3>2. k # 1 /\ 1 \in 1..n
      BY <1>1, <1>5, <1>6, <1>7, <3>1 DEF TextInv, ProcInv, RingSeq
    <3>3. Distance(k, 1, n) \in Int /\ Distance(k, 1, n) < threads[proc] - i
      BY <1>6, <1>7, <3>1 DEF Distance
    <3>4. Distance(m, 1, n) = Distance(k, 1, n) - 1
      BY <2>2, <3>2
    <3>5. QED BY ONLY <1>6, <3>3, <3>4
  <2>5. LoopProgress(thr, n)'
    BY <1>1, <1>6, <1>9, <2>3, <2>4 DEF LoopProgress
  <2>6. ThreadsOK(thr, n)'
    BY <1>2, <2>1, <2>5 DEF ThreadsOK, LoopAt
  <2>7. QED BY <2>6 DEF ThreadsInv
<1>17. FreshInv'
  BY <1>10 DEF TextInv, FreshInv
<1>18. (SavedInv /\ SavedContextOwn)'
  BY <1>3, <1>10 DEF TextInv, SavedInv, SavedContextOwn
<1>19. CpuInv'
  BY <1>1, <1>2, <1>3, <1>6, <1>9 DEF TextInv, CpuInv, CurThread, IdleAt, WaitAt, LoopAt, RemoveAt, BusyAt, Unlinking
<1>20. QED BY <1>11, <1>12, <1>13, <1>14, <1>15, <1>16, <1>17, <1>18, <1>19 DEF TextInv

(* When the loop ends, no thread of the process is live.                   *)
LEMMA RemoveLoopEndInv == ASSUME TextInv, RemoveLoopEnd PROVE TextInv'
<1> USE DEF RemoveLoopEnd, Running, procVars, procData, ringVars, pitVars, cpuVars, locals
<1>1. cpu.owner = Console /\ list = Console /\ ConsoleIs = "rm" /\ proc \in Tid \ {Console} /\ cur = proc
  BY ConsoleRuns DEF TextInv, ProcInv, ConsoleAt, WaitAt, LoopAt, RemoveAt, BusyAt, Unlinking
<1>2. cpu' \in Context /\ cpu'.owner = Console /\ cpu'.at = "rmend" /\ ConsoleIs' = "rmend"
  <2>1. "rmend" \in Label
    BY DEF Label, ConsoleAt, Unlinking
  <2>2. QED BY <1>1, <2>1, GotoFacts DEF TextInv
<1>3. \A t : Built(t)' <=> Built(t)
  BY DEF Built
<1>4. PICK n \in 1..threads[proc] : \E thr \in [1..n -> Tid] : ThreadsOK(thr, n)
  BY <1>1 DEF TextInv, ThreadsInv, LoopAt, RemoveAt, BusyAt
<1>5. PICK thr \in [1..n -> Tid] : RingSeq(thr, n) /\ LoopProgress(thr, n)
  BY <1>1, <1>4 DEF ThreadsOK, LoopAt
<1>6. threads[proc] \in Nat /\ i \in Nat /\ i >= threads[proc]
  BY <1>1 DEF TextInv, TypeOK, ThreadsToFree
<1>7. PICK k \in 1..n :
        /\ \A j \in 1..n : tstate[thr[j]] = "live" => Distance(k, j, n) < threads[proc] - i
        /\ TwoProcs => Distance(k, 1, n) < threads[proc] - i
  BY <1>5 DEF LoopProgress
<1>8. \A j \in 1..n : Distance(k, j, n) \in Nat
  BY <1>6 DEF Distance
<1>9. ~TwoProcs
  <2>1. 1 \in 1..n
    BY <1>6
  <2>2. QED BY <1>6, <1>7, <1>8, <2>1
<1>10. \A t \in Tid : parent[t] = proc => tstate[t] = "freed"
  <2>1. SUFFICES ASSUME NEW t \in Tid, parent[t] = proc PROVE tstate[t] = "freed"
    OBVIOUS
  <2>2. tstate[t] # "live"
    <3>1. SUFFICES ASSUME tstate[t] = "live" PROVE FALSE
      OBVIOUS
    <3>2. PICK j \in 1..n : t = thr[j]
      BY <1>5, <2>1, <3>1 DEF RingSeq
    <3>3. Distance(k, j, n) < threads[proc] - i /\ Distance(k, j, n) \in Nat
      BY <1>7, <1>8, <3>1, <3>2
    <3>4. QED BY <1>6, <3>3
  <2>3. tstate[t] # "none" /\ tstate[t] \in {"none", "live", "freed"}
    BY <1>1, <2>1 DEF TextInv, TypeOK, FreshInv
  <2>4. QED BY <2>2, <2>3
<1>11. TypeOK'
  BY <1>2 DEF TextInv, TypeOK
<1>12. (ConsoleInv /\ OneUser)'
  BY <1>1, <1>2, <1>3 DEF TextInv, ConsoleInv, OneUser, IdleAt, WaitAt, LoopAt, RemoveAt, BusyAt, Unlinking
<1>13. RingShape'
  BY <1>1, <1>2, <1>9 DEF TextInv, RingShape, OneProc, TwoProcs, IdleAt, WaitAt, LoopAt, RemoveAt, BusyAt, Unlinking
<1>14. ProcInv'
  BY <1>1, <1>2, <1>3, <1>10 DEF TextInv, ProcInv, IdleAt, WaitAt, LoopAt, RemoveAt, BusyAt, Unlinking
<1>15. ThreadsInv'
  <2>1. RingSeq(thr, n)'
    BY <1>3, <1>5, RingSeqSame
  <2>2. ThreadsOK(thr, n)'
    BY <1>2, <2>1 DEF ThreadsOK, LoopAt, Unlinking
  <2>3. QED BY <2>2 DEF ThreadsInv
<1>16. (FreshInv /\ SavedInv /\ SavedContextOwn)'
  BY <1>3 DEF TextInv, FreshInv, SavedInv, SavedContextOwn
<1>17. CpuInv'
  BY <1>1, <1>2, <1>3 DEF TextInv, CpuInv, CurThread, IdleAt, WaitAt, LoopAt, RemoveAt, BusyAt, Unlinking
<1>18. QED BY <1>11, <1>12, <1>13, <1>14, <1>15, <1>16, <1>17 DEF TextInv

(* Releasing the process structure preserves TextInv.                      *)
LEMMA RemoveEndInv == ASSUME TextInv, RemoveEnd PROVE TextInv'
<1> USE DEF RemoveEnd, Running, procVars, ringVars, pitVars, locals
<1>1. cpu.owner = Console /\ list = Console /\ ConsoleIs = "rmend" /\ proc \in Tid \ {Console} /\ cur = proc
  BY ConsoleRuns DEF TextInv, ProcInv, ConsoleAt, WaitAt, LoopAt, RemoveAt, BusyAt, Unlinking
<1>2. cpu' \in Context /\ cpu'.owner = Console /\ cpu'.at = "cmd" /\ ConsoleIs' = "cmd"
  <2>1. "cmd" \in Label
    BY DEF Label, ConsoleAt, Unlinking
  <2>2. QED BY <1>1, <2>1, GotoFacts DEF TextInv
<1>3. \A t : Built(t)' <=> Built(t)
  BY DEF Built
<1>4. pstate \in [Tid -> {"none", "NEW", "ACTIVE", "STOPPED", "freed"}]
  BY DEF TextInv, TypeOK
<1>5. \A q \in Tid : pstate'[q] = IF q = proc THEN "freed" ELSE pstate[q]
  BY <1>1, <1>4
<1>6. TypeOK'
  BY <1>1, <1>2, <1>4 DEF TextInv, TypeOK
<1>7. ConsoleInv'
  BY <1>1, <1>2, <1>3, <1>5 DEF TextInv, ConsoleInv, IdleAt, WaitAt, LoopAt, RemoveAt, BusyAt, Unlinking
<1>8. RingShape'
  BY <1>1, <1>2 DEF TextInv, RingShape, OneProc, TwoProcs, IdleAt, WaitAt, LoopAt, RemoveAt, BusyAt, Unlinking
<1>9. ProcInv' /\ ThreadsInv'
  BY <1>2 DEF ProcInv, ThreadsInv, IdleAt, WaitAt, LoopAt, RemoveAt, BusyAt, Unlinking
<1>10. OneUser'
  BY <1>1, <1>2, <1>5 DEF TextInv, OneUser, ProcInv, IdleAt, WaitAt, LoopAt, RemoveAt, BusyAt, Unlinking
<1>11. FreshInv'
  BY <1>1, <1>5 DEF TextInv, FreshInv, ProcInv, IdleAt, WaitAt, LoopAt, RemoveAt, BusyAt, Unlinking
<1>12. SavedInv' /\ SavedContextOwn'
  <2>1. \A t \in Tid : parent[t] = proc => tstate[t] = "freed"
    BY <1>1 DEF TextInv, ProcInv
  <2>2. QED BY <1>3, <2>1 DEF TextInv, SavedInv, SavedContextOwn
<1>13. CpuInv'
  BY <1>1, <1>2, <1>3 DEF TextInv, ConsoleInv, CpuInv, CurThread, IdleAt
<1>14. QED BY <1>6, <1>7, <1>8, <1>9, <1>10, <1>11, <1>12, <1>13 DEF TextInv

(* list is the console or the linked user process.                         *)
LEMMA ListCases ==
    ASSUME TextInv
    PROVE  /\ list = Console \/ (list = proc /\ TwoProcs /\ ConsoleIs \in BusyAt)
           /\ ConsoleIs \in BusyAt => proc \in Tid \ {Console} /\ next[proc] = Console
           /\ next[Console] = Console \/ (TwoProcs /\ ConsoleIs \in BusyAt)
  BY DEF TextInv, ConsoleInv, RingShape, ProcInv, OneProc, TwoProcs, IdleAt, WaitAt, LoopAt, RemoveAt, BusyAt, Unlinking

(* The first half of schedule preserves TextInv: the context saved is that *)
(* of the thread list designates, and the rotation stays in the ring.      *)
LEMMA TickSwitchInv == ASSUME TextInv, TickSwitch PROVE TextInv'
<1> USE DEF TickSwitch, SaveSlot, NextThread, procData, ringVars, locals
<1>1. /\ CurThread = cpu.owner /\ cpu.owner \in Tid /\ cpu \in Context /\ Built(cpu.owner)
      /\ esp_kernel \in [Tid -> Context] /\ thread_list \in [Tid -> Ptr] /\ tnext \in [Tid -> Ptr]
  BY DEF TextInv, TypeOK, CpuInv, Built
<1>2. list \in Tid /\ next \in [Tid -> Ptr] /\ next[list] \in {Console, proc} /\ (ConsoleIs \notin BusyAt => next[list] = Console)
  <2>1. next \in [Tid -> Ptr]
    BY DEF TextInv, TypeOK
  <2>2. list \in Tid
    BY ListCases
  <2>3. QED BY <2>1, <2>2, ListCases DEF TwoProcs
<1>3. \A t \in Tid : esp_kernel'[t] = IF t = cpu.owner THEN cpu ELSE esp_kernel[t]
  BY <1>1
<1>4. \A t : Built(t)' <=> Built(t)
  BY <1>1, <1>3 DEF Built
<1>5. ConsoleIs' = ConsoleIs
  BY <1>3 DEF ConsoleIs
<1>6. list = Console => cpu.owner = Console /\ thread_list'[Console] = Console /\ thread_list' = thread_list
  BY <1>1 DEF TextInv, ConsoleInv, CurThread
<1>7. cpu.owner # Console => list = proc /\ ConsoleIs \in WaitAt /\ proc \in Tid \ {Console}
  BY <1>6, ListCases DEF TextInv, CpuInv
<1>8. cpu.owner = Console => list = Console
  BY <1>1, ListCases DEF TextInv, ProcInv, ConsoleInv, CurThread
<1>9. \A p \in Tid : thread_list'[p] = IF p = list THEN tnext[cpu.owner] ELSE thread_list[p]
  BY <1>1
<1>10. TypeOK'
  <2>1. esp_kernel' \in [Tid -> Context] /\ thread_list' \in [Tid -> Ptr] /\ list' \in Ptr /\ pit_ticks' \in 0..(TickMod - 1)
    BY <1>1, <1>2
  <2>2. QED BY <2>1 DEF TextInv, TypeOK
<1>11. ThreadsInv' /\ ProcInv'
  <2>1. CASE list = Console
    <3>1. TwoProcs' <=> TwoProcs
      BY <1>2, <2>1 DEF TwoProcs
    <3>2. ThreadsInv'
      <4>1. SUFFICES ASSUME ConsoleIs \in BusyAt \cup {"add"} PROVE ThreadsInv'
        BY <1>5 DEF ThreadsInv
      <4>2. PICK n \in 1..threads[proc] : \E thr \in [1..n -> Tid] : ThreadsOK(thr, n)
        BY <4>1 DEF TextInv, ThreadsInv
      <4>3. PICK thr \in [1..n -> Tid] : ThreadsOK(thr, n)
        BY <4>2
      <4>4. RingSeq(thr, n)'
        BY <1>4, <4>3, RingSeqSame DEF ThreadsOK
      <4>5. AtRest(thr, n) => AtRest(thr, n)'
        <5>1. proc # Console
          BY <4>1 DEF TextInv, ProcInv
        <5>2. QED BY <1>6, <2>1, <5>1 DEF AtRest, Exited
      <4>6. LoopProgress(thr, n) => LoopProgress(thr, n)'
        BY <1>6, <2>1, <3>1 DEF LoopProgress
      <4>7. ThreadsOK(thr, n)'
        BY <1>5, <4>3, <4>4, <4>5, <4>6 DEF ThreadsOK
      <4>8. QED BY <4>7 DEF ThreadsInv
    <3>3. ProcInv'
      BY <1>4, <1>5, <1>6, <2>1, <3>1 DEF TextInv, ProcInv
    <3>4. QED BY <3>2, <3>3
  <2>2. CASE list # Console
    <3>1. list = proc /\ ConsoleIs \in WaitAt /\ proc \in Tid \ {Console}
      BY <1>7, <1>8, <2>2
    <3>2. PICK n \in 1..threads[proc] : \E thr \in [1..n -> Tid] : ThreadsOK(thr, n)
      BY <3>1 DEF TextInv, ThreadsInv, BusyAt
    <3>3. PICK thr \in [1..n -> Tid] : RingSeq(thr, n) /\ AtRest(thr, n)
      BY <3>1, <3>2 DEF ThreadsOK, IdleAt, WaitAt, LoopAt, RemoveAt, BusyAt, Unlinking
    <3>4. threads[proc] \in Nat /\ thread_list[proc] = cpu.owner
      BY <1>1, <3>1 DEF TextInv, TypeOK, CurThread
    <3>5. PICK k \in 1..n : tnext[cpu.owner] = thr[k]
      <4>1. ASSUME NEW m \in 1..n, cpu.owner = thr[m] PROVE \E k \in 1..n : tnext[cpu.owner] = thr[k]
        <5>1. tnext[cpu.owner] = thr[IF m = n THEN 1 ELSE m + 1]
          BY <3>3, <4>1 DEF RingSeq
        <5>2. (IF m = n THEN 1 ELSE m + 1) \in 1..n
          BY <3>4
        <5>3. QED BY <5>1, <5>2
      <4>2. QED BY <3>3, <3>4, <4>1 DEF AtRest, Exited
    <3>6. thread_list'[proc] = thr[k] /\ Built(thr[k]) /\ parent[thr[k]] = proc
      BY <1>9, <3>1, <3>3, <3>5 DEF RingSeq
    <3>7. RingSeq(thr, n)'
      BY <1>4, <3>3, RingSeqSame
    <3>8. AtRest(thr, n)'
      BY <3>3, <3>6 DEF AtRest
    <3>9. ThreadsOK(thr, n)'
      BY <1>5, <3>1, <3>7, <3>8 DEF ThreadsOK, IdleAt, WaitAt, LoopAt, RemoveAt, BusyAt, Unlinking
    <3>10. ThreadsInv'
      BY <3>9 DEF ThreadsInv
    <3>11. ProcInv'
      BY <1>4, <1>5, <3>1, <3>6 DEF TextInv, ProcInv, IdleAt, WaitAt, LoopAt, RemoveAt, BusyAt, Unlinking
    <3>12. QED BY <3>10, <3>11
  <2>3. QED BY <2>1, <2>2
<1>12. ConsoleInv'
  <2>1. thread_list'[Console] = Console
    BY <1>6, <1>9 DEF TextInv, ConsoleInv
  <2>2. QED BY <1>4, <1>5, <2>1 DEF TextInv, ConsoleInv
<1>13. RingShape'
  BY <1>2, <1>5, <1>7, <1>8, ListCases DEF TextInv, RingShape, OneProc, TwoProcs, IdleAt, WaitAt, LoopAt, RemoveAt, BusyAt, Unlinking
<1>14. (OneUser /\ FreshInv)'
  <2>1. ~(cpu.owner >= pid)
    BY <1>1 DEF TextInv, FreshInv, Built, NoContext
  <2>2. QED BY <1>3, <1>5, <2>1 DEF TextInv, OneUser, FreshInv
<1>15. CpuInv'
  BY <1>4, <1>5 DEF TextInv, CpuInv
<1>16. SavedInv'
  BY <1>1, <1>3, <1>4, <1>7 DEF TextInv, CpuInv, SavedInv
<1>17. SavedContextOwn'
  BY <1>1, <1>3 DEF TextInv, SavedContextOwn
<1>18. QED BY <1>10, <1>11, <1>12, <1>13, <1>14, <1>15, <1>16, <1>17 DEF TextInv

(* Skipping a stopped process preserves TextInv.                           *)
LEMMA SchedWalkInv == ASSUME TextInv, SchedWalk PROVE TextInv'
<1> USE DEF SchedWalk, procData, ringVars, pitVars, cpuVars, locals
<1>1. list = proc /\ TwoProcs /\ ConsoleIs \in BusyAt /\ list' = Console /\ TwoProcs'
  BY ListCases DEF TextInv, ConsoleInv, TwoProcs
<1>2. ConsoleIs' = ConsoleIs
  BY DEF ConsoleIs
<1>3. \A t : Built(t)' <=> Built(t)
  BY DEF Built
<1>4. TypeOK'
  BY <1>1 DEF TextInv, TypeOK
<1>5. (ConsoleInv /\ ProcInv /\ OneUser)'
  BY <1>1, <1>2, <1>3 DEF TextInv, ConsoleInv, ProcInv, OneUser
<1>6. RingShape'
  BY <1>1, <1>2, ListCases DEF TextInv, RingShape, OneProc, TwoProcs, IdleAt, WaitAt, LoopAt, RemoveAt, BusyAt, Unlinking
<1>7. ThreadsInv'
  <2>1. PICK n \in 1..threads[proc] : \E thr \in [1..n -> Tid] : ThreadsOK(thr, n)
    BY <1>1 DEF TextInv, ThreadsInv
  <2>2. PICK thr \in [1..n -> Tid] : ThreadsOK(thr, n)
    BY <2>1
  <2>3. RingSeq(thr, n)'
    BY <1>3, <2>2, RingSeqSame DEF ThreadsOK
  <2>4. AtRest(thr, n) => AtRest(thr, n)'
    BY DEF AtRest, Exited
  <2>5. LoopProgress(thr, n) => LoopProgress(thr, n)'
    BY <1>1 DEF LoopProgress
  <2>6. ThreadsOK(thr, n)'
    BY <1>2, <2>2, <2>3, <2>4, <2>5 DEF ThreadsOK
  <2>7. QED BY <2>6 DEF ThreadsInv
<1>8. (FreshInv /\ CpuInv /\ SavedInv /\ SavedContextOwn)'
  BY <1>2, <1>3 DEF TextInv, FreshInv, CpuInv, SavedInv, SavedContextOwn
<1>9. QED BY <1>4, <1>5, <1>6, <1>7, <1>8 DEF TextInv

(* The second half of schedule preserves TextInv: the saved context is the *)
(* thread's own and fits its process.                                      *)
LEMMA SchedLoadInv == ASSUME TextInv, SchedLoad PROVE TextInv'
<1> USE DEF SchedLoad, procVars, procData, ringVars, pitVars, locals
<1>1. Built(CurThread) /\ parent[CurThread] = list /\ CurThread \in Tid /\ list \in Tid
  BY ListCases DEF TextInv, ConsoleInv, ProcInv, Built, CurThread
<1>2. ~Stale(CurThread)
  BY <1>1 DEF TextInv, SavedContextOwn, NoContext, Stale
<1>3. cpu' = esp_kernel[CurThread] /\ cpu'.owner = CurThread /\ cpu' \in Context /\ esp0' = CurThread
  BY <1>1, <1>2 DEF TextInv, TypeOK, Built, SetEsp0
<1>4. CurThread = Console <=> list = Console
  BY <1>1 DEF TextInv, ConsoleInv, CurThread
<1>5. ConsoleIs' = ConsoleIs
  BY <1>3 DEF ConsoleIs
<1>6. \A t : Built(t)' <=> Built(t)
  BY DEF Built
<1>7. list # Console => list = proc /\ ConsoleIs \in WaitAt /\ pstate[proc] = "ACTIVE"
  BY ListCases DEF TextInv, ProcInv, BusyAt
<1>8. TypeOK'
  <2>1. pdir[list] \in Ptr
    BY <1>1 DEF TextInv, TypeOK
  <2>2. QED BY <1>1, <1>3, <2>1 DEF TextInv, TypeOK
<1>9. (ConsoleInv /\ RingShape /\ ProcInv /\ OneUser)'
  BY <1>5, <1>6 DEF TextInv, ConsoleInv, RingShape, ProcInv, OneUser, OneProc, TwoProcs
<1>10. ThreadsInv'
  <2>1. SUFFICES ASSUME ConsoleIs \in BusyAt \cup {"add"} PROVE ThreadsInv'
    BY <1>5 DEF ThreadsInv
  <2>2. PICK n \in 1..threads[proc] : \E thr \in [1..n -> Tid] : ThreadsOK(thr, n)
    BY <2>1 DEF TextInv, ThreadsInv
  <2>3. PICK thr \in [1..n -> Tid] : ThreadsOK(thr, n)
    BY <2>2
  <2>4. RingSeq(thr, n)'
    BY <1>6, <2>3, RingSeqSame DEF ThreadsOK
  <2>5. AtRest(thr, n) => AtRest(thr, n)'
    BY DEF AtRest, Exited
  <2>6. LoopProgress(thr, n) => LoopProgress(thr, n)'
    BY DEF LoopProgress, TwoProcs
  <2>7. ThreadsOK(thr, n)'
    BY <1>5, <2>3, <2>4, <2>5, <2>6 DEF ThreadsOK
  <2>8. QED BY <2>7 DEF ThreadsInv
<1>11. (FreshInv /\ SavedInv /\ SavedContextOwn)'
  BY <1>6 DEF TextInv, FreshInv, SavedInv, SavedContextOwn
<1>12. CpuInv'
  <2>1. CASE list = Console
    <3>1. cpu'.at \in IdleAt \cup BusyAt /\ cpu'.at = ConsoleIs
      BY <1>3, <1>4, <2>1 DEF TextInv, ConsoleInv, ConsoleIs
    <3>2. cpu'.at \notin {"user", "gets", "spin"}
      BY <3>1 DEF IdleAt, WaitAt, LoopAt, RemoveAt, BusyAt, Unlinking
    <3>3. QED BY <1>1, <1>3, <1>4, <1>5, <1>6, <2>1, <3>1, <3>2 DEF CpuInv, CurThread
  <2>2. CASE list # Console
    <3>1. cpu'.at \in UserAt /\ (cpu'.at = "spin" /\ tstate[CurThread] = "live" => pstate[proc] = "STOPPED")
      BY <1>1, <1>3, <1>4, <1>7, <2>2 DEF TextInv, SavedInv
    <3>2. QED BY <1>1, <1>3, <1>4, <1>5, <1>6, <1>7, <2>2, <3>1 DEF CpuInv, CurThread
  <2>3. QED BY <2>1, <2>2
<1>13. QED BY <1>8, <1>9, <1>10, <1>11, <1>12 DEF TextInv

(* While a user thread runs, list designates its process and the console   *)
(* waits for it.                                                           *)
LEMMA UserRuns ==
    ASSUME TextInv, ~walking, cpu.at \in {"user", "gets"}
    PROVE  /\ cpu.owner # Console /\ list = proc /\ CurThread = cpu.owner /\ ConsoleIs \in WaitAt
           /\ pstate[proc] = "ACTIVE" /\ proc \in Tid \ {Console} /\ TwoProcs
<1>1. cpu.owner # Console
  BY DEF TextInv, CpuInv, IdleAt, WaitAt, LoopAt, RemoveAt, BusyAt, Unlinking
<1>2. ConsoleIs \in WaitAt /\ CurThread = cpu.owner /\ pstate[list] = "ACTIVE"
  BY <1>1 DEF TextInv, CpuInv
<1>3. list # Console
  BY <1>1, <1>2 DEF TextInv, ConsoleInv, CurThread
<1>4. QED BY <1>1, <1>2, <1>3, ListCases DEF BusyAt

(* What a step of a user thread does to the running context.               *)
LEMMA UserGoto ==
    ASSUME TypeOK, cpu.owner # Console, ~walking, ~walking', NEW l \in Label, Goto(l),
           esp_kernel'[Console] = esp_kernel[Console]
    PROVE  cpu' \in Context /\ cpu'.owner = cpu.owner /\ cpu'.at = l /\ ConsoleIs' = ConsoleIs
<1>1. cpu \in [owner : Ptr, at : Label]
  BY DEF TypeOK, Context
<1>2. cpu' \in Context /\ cpu'.owner = cpu.owner /\ cpu'.at = l
  BY <1>1 DEF Goto, Context
<1>3. QED BY <1>2 DEF ConsoleIs

(* While a user thread runs it is one of the ring, and all are live.       *)
LEMMA UserRing ==
    ASSUME TextInv, ~walking, cpu.at \in {"user", "gets"}
    PROVE  \E n \in 1..threads[proc] : \E thr \in [1..n -> Tid] :
              /\ RingSeq(thr, n)
              /\ \A j \in 1..n : tstate[thr[j]] = "live"
              /\ \E k \in 1..n : cpu.owner = thr[k]
<1>1. list = proc /\ CurThread = cpu.owner /\ ConsoleIs \in WaitAt
  BY UserRuns
<1>2. PICK n \in 1..threads[proc] : \E thr \in [1..n -> Tid] : ThreadsOK(thr, n)
  BY <1>1 DEF TextInv, ThreadsInv, BusyAt
<1>3. PICK thr \in [1..n -> Tid] : RingSeq(thr, n) /\ AtRest(thr, n)
  BY <1>1, <1>2 DEF ThreadsOK, IdleAt, WaitAt, LoopAt, RemoveAt, BusyAt, Unlinking
<1>4. (\A j \in 1..n : tstate[thr[j]] = "live") /\ \E k \in 1..n : cpu.owner = thr[k]
  BY <1>1, <1>3 DEF AtRest, Exited, CurThread
<1>5. QED BY <1>3, <1>4

(* gets preserves TextInv.                                                 *)
LEMMA GetsInv == ASSUME TextInv, GetsBegin \/ GetsEnd PROVE TextInv'
<1> USE DEF GetsBegin, GetsEnd, Running, procVars, procData, ringVars, cpuVars, locals
<1>1. /\ cpu.owner # Console /\ list = proc /\ CurThread = cpu.owner /\ ConsoleIs \in WaitAt
      /\ pstate[proc] = "ACTIVE" /\ proc \in Tid \ {Console} /\ TwoProcs
  BY UserRuns
<1>2. PICK l \in {"user", "gets"} : Goto(l)
  OBVIOUS
<1>3. cpu' \in Context /\ cpu'.owner = cpu.owner /\ cpu'.at = l /\ ConsoleIs' = ConsoleIs
  <2>1. l \in Label
    BY DEF Label
  <2>2. QED BY <1>1, <1>2, <2>1, UserGoto DEF TextInv
<1>4. \A t : Built(t)' <=> Built(t)
  BY DEF Built
<1>5. TypeOK'
  BY <1>3 DEF TextInv, TypeOK
<1>6. (ConsoleInv /\ RingShape /\ ProcInv /\ OneUser)'
  BY <1>3, <1>4 DEF TextInv, ConsoleInv, RingShape, ProcInv, OneUser, OneProc, TwoProcs
<1>7. ThreadsInv'
  <2>1. PICK n \in 1..threads[proc] : \E thr \in [1..n -> Tid] :
              /\ RingSeq(thr, n) /\ (\A j \in 1..n : tstate[thr[j]] = "live")
              /\ \E k \in 1..n : cpu.owner = thr[k]
    BY UserRing
  <2>2. PICK thr \in [1..n -> Tid] :
              /\ RingSeq(thr, n) /\ (\A j \in 1..n : tstate[thr[j]] = "live")
              /\ \E k \in 1..n : cpu.owner = thr[k]
    BY <2>1
  <2>3. RingSeq(thr, n)'
    BY <1>4, <2>2, RingSeqSame
  <2>4. AtRest(thr, n)'
    BY <1>1, <2>2 DEF AtRest, CurThread
  <2>5. ThreadsOK(thr, n)'
    BY <1>1, <1>3, <2>3, <2>4 DEF ThreadsOK, IdleAt, WaitAt, LoopAt, RemoveAt, BusyAt, Unlinking
  <2>6. QED BY <2>5 DEF ThreadsInv
<1>8. (FreshInv /\ SavedInv /\ SavedContextOwn)'
  BY <1>4 DEF TextInv, FreshInv, SavedInv, SavedContextOwn
<1>9. CpuInv'
  BY <1>1, <1>3, <1>4 DEF TextInv, CpuInv, CurThread, UserAt
<1>10. QED BY <1>5, <1>6, <1>7, <1>8, <1>9 DEF TextInv

(* end_proc preserves TextInv.                                             *)
LEMMA EndProcInv == ASSUME TextInv, EndProc PROVE TextInv'
<1> USE DEF EndProc, Spin, Running, procVars, ringVars, cpuVars, locals
<1>1. /\ cpu.owner # Console /\ list = proc /\ CurThread = cpu.owner /\ ConsoleIs \in WaitAt
      /\ pstate[proc] = "ACTIVE" /\ proc \in Tid \ {Console} /\ TwoProcs
  BY UserRuns
<1>2. cpu' \in Context /\ cpu'.owner = cpu.owner /\ cpu'.at = "spin" /\ ConsoleIs' = ConsoleIs
  <2>1. "spin" \in Label
    BY DEF Label
  <2>2. QED BY <1>1, <2>1, UserGoto DEF TextInv
<1>3. \A t : Built(t)' <=> Built(t)
  BY DEF Built
<1>4. pstate \in [Tid -> {"none", "NEW", "ACTIVE", "STOPPED", "freed"}]
  BY DEF TextInv, TypeOK
<1>5. \A q \in Tid : pstate'[q] = IF q = proc THEN "STOPPED" ELSE pstate[q]
  BY <1>1, <1>4
<1>6. TypeOK'
  <2>1. pstate' \in [Tid -> {"none", "NEW", "ACTIVE", "STOPPED", "freed"}]
    BY <1>1, <1>4
  <2>2. QED BY <1>2, <2>1 DEF TextInv, TypeOK
<1>7. (ConsoleInv /\ RingShape)'
  BY <1>1, <1>2, <1>3, <1>5 DEF TextInv, ConsoleInv, RingShape, OneProc, TwoProcs
<1>8. ProcInv'
  BY <1>1, <1>2, <1>3, <1>5 DEF TextInv, ProcInv, IdleAt, WaitAt, LoopAt, RemoveAt, BusyAt, Unlinking
<1>9. OneUser'
  BY <1>1, <1>2, <1>5 DEF TextInv, OneUser, BusyAt
<1>10. ThreadsInv'
  <2>1. PICK n \in 1..threads[proc] : \E thr \in [1..n -> Tid] :
              /\ RingSeq(thr, n) /\ (\A j \in 1..n : tstate[thr[j]] = "live")
              /\ \E k \in 1..n : cpu.owner = thr[k]
    BY UserRing
  <2>2. PICK thr \in [1..n -> Tid] :
              /\ RingSeq(thr, n) /\ (\A j \in 1..n : tstate[thr[j]] = "live")
              /\ \E k \in 1..n : cpu.owner = thr[k]
    BY <2>1
  <2>3. RingSeq(thr, n)'
    BY <1>3, <2>2, RingSeqSame
  <2>4. AtRest(thr, n)'
    BY <1>1, <2>2 DEF AtRest, CurThread
  <2>5. ThreadsOK(thr, n)'
    BY <1>1, <1>2, <2>3, <2>4 DEF ThreadsOK, IdleAt, WaitAt, LoopAt, RemoveAt, BusyAt, Unlinking
  <2>6. QED BY <2>5 DEF ThreadsInv
<1>11. FreshInv'
  BY <1>1, <1>5 DEF TextInv, FreshInv, ProcInv, BusyAt
<1>12. (SavedInv /\ SavedContextOwn)'
  BY <1>1, <1>3, <1>5 DEF TextInv, SavedInv, SavedContextOwn
<1>13. CpuInv'
  BY <1>1, <1>2, <1>3, <1>5 DEF TextInv, CpuInv, CurThread, UserAt
<1>14. QED BY <1>6, <1>7, <1>8, <1>9, <1>10, <1>11, <1>12, <1>13 DEF TextInv

(* start_thread without memory for the structure preserves TextInv.        *)
LEMMA ForkNoThreadInv == ASSUME TextInv, ForkNoThread PROVE TextInv'
<1> USE DEF ForkNoThread, procVars, procData, ringVars, cpuVars, locals
<1>1. ConsoleIs' = ConsoleIs /\ \A t : Built(t)' <=> Built(t)
  BY DEF ConsoleIs, Built
<1>2. TypeOK'
  BY DEF TextInv, TypeOK
<1>3. (ConsoleInv /\ RingShape /\ ProcInv /\ OneUser)'
  BY <1>1 DEF TextInv, ConsoleInv, RingShape, ProcInv, OneUser, OneProc, TwoProcs
<1>4. ThreadsInv'
  <2>1. \A thr, n : ThreadsOK(thr, n)' <=> ThreadsOK(thr, n)
    BY <1>1, RingSeqSame, AtRestSame, LoopProgressSame DEF ThreadsOK
  <2>2. QED BY <1>1, <2>1 DEF TextInv, ThreadsInv
<1>5. (FreshInv /\ CpuInv /\ SavedInv /\ SavedContextOwn)'
  BY <1>1 DEF TextInv, FreshInv, CpuInv, SavedInv, SavedContextOwn, CurThread
<1>6. QED BY <1>2, <1>3, <1>4, <1>5 DEF TextInv

(* start_thread without memory for stack or heap preserves TextInv.        *)
LEMMA ForkNoMemoryInv == ASSUME TextInv, ForkNoMemory PROVE TextInv'
<1> USE DEF ForkNoMemory, Running, procVars, procData, cpuVars, locals
<1>1. /\ cpu.owner # Console /\ list = proc /\ CurThread = cpu.owner /\ ConsoleIs \in WaitAt
      /\ pstate[proc] = "ACTIVE" /\ proc \in Tid \ {Console} /\ TwoProcs
  BY UserRuns
<1>2. pid \in Tid \ {Console} /\ proc < pid /\ ~Built(pid)
  BY <1>1 DEF TextInv, TypeOK, ProcInv, FreshInv, Built, NoContext, BusyAt
<1>3. ConsoleIs' = ConsoleIs /\ \A t : Built(t)' <=> Built(t)
  BY DEF ConsoleIs, Built
<1>4. parent \in [Tid -> Ptr] /\ tstate \in [Tid -> {"none", "live", "freed"}]
  BY DEF TextInv, TypeOK
<1>5. \A t \in Tid : /\ parent'[t] = IF t = pid THEN proc ELSE parent[t]
                    /\ tstate'[t] = IF t = pid THEN "freed" ELSE tstate[t]
  BY <1>1, <1>2, <1>4
<1>6. TypeOK'
  <2>1. parent' \in [Tid -> Ptr] /\ tstate' \in [Tid -> {"none", "live", "freed"}]
    BY <1>1, <1>2, <1>4
  <2>2. pid' \in 2..(MaxPid + 1)
    BY DEF TextInv, TypeOK
  <2>3. QED BY <2>1, <2>2 DEF TextInv, TypeOK
<1>7. (ConsoleInv /\ RingShape)'
  BY <1>2, <1>3, <1>5 DEF TextInv, ConsoleInv, RingShape, OneProc, TwoProcs
<1>8. ProcInv'
  BY <1>1, <1>2, <1>3, <1>5 DEF TextInv, TypeOK, ProcInv, IdleAt, WaitAt, LoopAt, RemoveAt, BusyAt, Unlinking
<1>9. OneUser'
  BY <1>1, <1>3, <1>5 DEF TextInv, OneUser
<1>10. ThreadsInv'
  <2>1. PICK n \in 1..threads[proc] : \E thr \in [1..n -> Tid] :
              /\ RingSeq(thr, n) /\ (\A j \in 1..n : tstate[thr[j]] = "live")
              /\ \E k \in 1..n : cpu.owner = thr[k]
    BY UserRing
  <2>2. PICK thr \in [1..n -> Tid] :
              /\ RingSeq(thr, n) /\ (\A j \in 1..n : tstate[thr[j]] = "live")
              /\ \E k \in 1..n : cpu.owner = thr[k]
    BY <2>1
  <2>3. RingSeq(thr, n)'
    BY <1>2, <1>3, <1>5, <2>2 DEF RingSeq
  <2>4. \A j \in 1..n : tstate'[thr[j]] = "live"
    BY <1>2, <1>5, <2>2 DEF RingSeq
  <2>5. AtRest(thr, n)'
    BY <1>1, <2>2, <2>4 DEF AtRest, CurThread
  <2>6. ThreadsOK(thr, n)'
    BY <1>1, <1>3, <2>3, <2>5 DEF ThreadsOK, IdleAt, WaitAt, LoopAt, RemoveAt, BusyAt, Unlinking
  <2>7. QED BY <2>6 DEF ThreadsInv
<1>11. FreshInv'
  BY <1>1, <1>2, <1>5 DEF TextInv, TypeOK, FreshInv
<1>12. (SavedInv /\ SavedContextOwn)'
  BY <1>2, <1>3, <1>5 DEF TextInv, SavedInv, SavedContextOwn
<1>13. CpuInv'
  BY <1>1, <1>2, <1>3, <1>5 DEF TextInv, CpuInv, CurThread, Built
<1>14. QED BY <1>6, <1>7, <1>8, <1>9, <1>10, <1>11, <1>12, <1>13 DEF TextInv

(* start_thread preserves TextInv: the child is linked after its creator.  *)
LEMMA ForkInv == ASSUME TextInv, Fork PROVE TextInv'
<1> USE DEF Fork, CreateThread, Running, procVars, cpuVars, locals
<1>1. /\ cpu.owner # Console /\ list = proc /\ CurThread = cpu.owner /\ ConsoleIs \in WaitAt
      /\ pstate[proc] = "ACTIVE" /\ proc \in Tid \ {Console} /\ TwoProcs
  BY UserRuns
<1>2. pid \in Tid \ {Console} /\ proc < pid /\ ~Built(pid) /\ parent[pid] = NULL
  BY <1>1 DEF TextInv, TypeOK, ProcInv, FreshInv, Built, NoContext, BusyAt
<1>3. /\ parent \in [Tid -> Ptr] /\ tstate \in [Tid -> {"none", "live", "freed"}] /\ threads \in [Tid -> Nat]
      /\ esp_kernel \in [Tid -> Context] /\ tnext \in [Tid -> Ptr] /\ tprec \in [Tid -> Ptr]
  BY DEF TextInv, TypeOK
<1>4. /\ \A t \in Tid : parent'[t] = IF t = pid THEN proc ELSE parent[t]
      /\ \A t \in Tid : tstate'[t] = IF t = pid THEN "live" ELSE tstate[t]
      /\ \A t \in Tid : threads'[t] = IF t = proc THEN threads[t] + 1 ELSE threads[t]
  <2>1. \A t \in Tid : parent'[t] = IF t = pid THEN proc ELSE parent[t]
    BY <1>1, <1>2, <1>3
  <2>2. \A t \in Tid : tstate'[t] = IF t = pid THEN "live" ELSE tstate[t]
    BY <1>2, <1>3
  <2>3. \A t \in Tid : threads'[t] = IF t = proc THEN threads[t] + 1 ELSE threads[t]
    BY <1>1, <1>3
  <2>4. QED BY <2>1, <2>2, <2>3
<1>41. /\ esp_kernel'[pid] = [owner |-> pid, at |-> "user"]
       /\ \A t \in Tid : t # pid => esp_kernel'[t] = esp_kernel[t]
  BY <1>2, <1>3, Zenon
<1>5. ConsoleIs' = ConsoleIs /\ \A t : Built(t)' <=> Built(t) \/ t = pid
  <2>1. ConsoleIs' = ConsoleIs
    BY <1>2, <1>41 DEF ConsoleIs
  <2>2. pid \in Tid /\ esp_kernel'[pid].owner = pid
    BY <1>2, <1>41
  <2>3. QED BY ONLY <1>41, <2>1, <2>2 DEF Built
<1>6. ThreadsInv' /\ tnext' \in [Tid -> Ptr] /\ tprec' \in [Tid -> Ptr] /\ tnext'[Console] = Console
  <2>1. PICK n \in 1..threads[proc] : \E thr \in [1..n -> Tid] :
              /\ RingSeq(thr, n) /\ (\A j \in 1..n : tstate[thr[j]] = "live")
              /\ \E k \in 1..n : cpu.owner = thr[k]
    BY UserRing
  <2>2. PICK thr \in [1..n -> Tid] :
              /\ RingSeq(thr, n) /\ (\A j \in 1..n : tstate[thr[j]] = "live")
              /\ \E k \in 1..n : cpu.owner = thr[k]
    BY <2>1
  <2>3. PICK k \in 1..n : cpu.owner = thr[k]
    BY <2>2
  <2>4. PICK p : p = pid
    OBVIOUS
  <2>5. /\ threads[proc] \in Nat /\ n \in Nat /\ p \in Tid /\ thr[k] \in Tid
        /\ \A j \in 1..n : thr[j] # p /\ thr[j] \in Tid /\ thr[j] # Console
    <3>1. p \in Tid /\ p # Console /\ ~Built(p) /\ proc # Console /\ threads[proc] \in Nat
          /\ parent[Console] = Console
      BY <1>1, <1>2, <1>3, <2>4 DEF TextInv, ConsoleInv
    <3>2. \A j \in 1..n : thr[j] \in Tid /\ Built(thr[j]) /\ parent[thr[j]] = proc
      BY <2>2 DEF RingSeq
    <3>3. QED BY <3>1, <3>2
  <2>6. Linked(thr, n, tnext, tprec) /\ Distinct(thr, n)
    BY <2>2 DEF RingSeq, Linked, Distinct
  <2>7. PICK nx \in Tid \ {Console, p} : nx = tnext[thr[k]]
    <3> DEFINE m == IF k = n THEN 1 ELSE k + 1
    <3>1. m \in 1..n
      BY ONLY <2>5, k \in 1..n
    <3>2. tnext[thr[k]] = thr[m]
      BY <2>6, Zenon DEF Linked
    <3> HIDE DEF m
    <3>3. thr[m] \in Tid \ {Console, p}
      BY ONLY <2>5, <3>1
    <3>4. QED BY ONLY <3>2, <3>3
  <2>8. /\ tprec' = [tprec EXCEPT ![p] = thr[k], ![nx] = p]
        /\ tnext' = [tnext EXCEPT ![p] = nx, ![thr[k]] = p]
    BY <1>1, <2>3, <2>4, <2>7
  <2>9. /\ tnext' \in [Tid -> Ptr]
        /\ \A t \in Tid : tnext'[t] = IF t = thr[k] THEN p ELSE IF t = p THEN nx ELSE tnext[t]
    <3>1. tnext \in [Tid -> Ptr] /\ p \in Ptr /\ nx \in Ptr
      BY <1>3, <2>5, <2>7
    <3>2. QED BY ONLY <2>5, <2>7, <2>8, <3>1
  <2>10. /\ tprec' \in [Tid -> Ptr]
         /\ \A t \in Tid : tprec'[t] = IF t = nx THEN p ELSE IF t = p THEN thr[k] ELSE tprec[t]
    <3>1. tprec \in [Tid -> Ptr] /\ p \in Ptr /\ thr[k] \in Ptr
      BY <1>3, <2>5
    <3>2. QED BY ONLY <2>5, <2>7, <2>8, <3>1
  <2>11. PICK ins : ins = Insert(thr, n, k, p)
    OBVIOUS
  <2>12. Inserted(ins, Tid, thr, n, k, p)
    BY <2>5, <2>11, InsertAt
  <2>13. Distinct(ins, n + 1)
    BY <2>5, <2>6, <2>11, InsertDistinct DEF NotIn
  <2>14. Linked(ins, n + 1, tnext', tprec')
    <3>1. LinkAfter(Tid, thr[k], p, tnext, tprec, tnext', tprec') /\ NotIn(p, thr, n)
      BY <2>5, <2>7, <2>9, <2>10 DEF LinkAfter, NotIn
    <3>2. QED BY ONLY <2>5, <2>6, <2>11, <3>1, InsertLinked
  <2>15. /\ ins \in [1..(n + 1) -> Tid]
         /\ \A j \in 1..k : ins[j] = thr[j]
         /\ ins[k + 1] = p
         /\ \A j \in (k + 2)..(n + 1) : ins[j] = thr[j - 1]
    BY <2>12 DEF Inserted
  <2>16. \A j \in 1..(n + 1) : ins[j] = p \/ \E q \in 1..n : ins[j] = thr[q]
    <3>1. SUFFICES ASSUME NEW j \in 1..(n + 1) PROVE ins[j] = p \/ \E q \in 1..n : ins[j] = thr[q]
      OBVIOUS
    <3>2. CASE j <= k
      BY ONLY <2>5, <2>15, <3>1, <3>2
    <3>3. CASE j = k + 1
      BY ONLY <2>15, <3>3
    <3>4. CASE j > k + 1
      <4>1. j \in (k + 2)..(n + 1) /\ j - 1 \in 1..n
        BY ONLY <2>5, <3>1, k \in 1..n, <3>4
      <4>2. QED BY ONLY <2>15, <4>1
    <3>5. QED BY ONLY <2>5, <3>1, <3>2, <3>3, <3>4
  <2>17. \A j \in 1..(n + 1) : Built(ins[j])' /\ parent'[ins[j]] = proc /\ tstate'[ins[j]] = "live"
    <3>1. Built(p)' /\ parent'[p] = proc /\ tstate'[p] = "live"
      BY <1>2, <1>4, <1>5, <2>4
    <3>2. \A q \in 1..n : Built(thr[q]) /\ parent[thr[q]] = proc /\ tstate[thr[q]] = "live"
      BY <2>2 DEF RingSeq
    <3>3. \A q \in 1..n : Built(thr[q])' /\ parent'[thr[q]] = proc /\ tstate'[thr[q]] = "live"
      BY <1>4, <1>5, <2>4, <2>5, <3>2
    <3>4. QED BY ONLY <2>16, <3>1, <3>3
  <2>18. \A t \in Tid : parent'[t] = proc /\ tstate'[t] = "live" => \E j \in 1..(n + 1) : t = ins[j]
    <3>1. SUFFICES ASSUME NEW t \in Tid, parent'[t] = proc, tstate'[t] = "live"
                   PROVE  \E j \in 1..(n + 1) : t = ins[j]
      OBVIOUS
    <3>2. CASE t = p
      BY ONLY <2>5, <2>15, <3>2
    <3>3. CASE t # p
      <4>1. PICK j \in 1..n : t = thr[j]
        BY <1>4, <2>2, <2>4, <3>1, <3>3 DEF RingSeq
      <4>2. CASE j <= k
        <5>1. j \in 1..k /\ j \in 1..(n + 1)
          BY ONLY <2>5, j \in 1..n, k \in 1..n, <4>2
        <5>2. ins[j] = thr[j]
          BY ONLY <2>15, <5>1
        <5>3. QED BY <4>1, <5>1, <5>2
      <4>3. CASE j > k
        <5>1. j + 1 \in (k + 2)..(n + 1) /\ j + 1 \in 1..(n + 1) /\ (j + 1) - 1 = j
          BY ONLY <2>5, j \in 1..n, k \in 1..n, <4>3
        <5>2. ins[j + 1] = thr[j]
          <6>1. PICK x \in (k + 2)..(n + 1) : x = j + 1 /\ x - 1 = j
            BY ONLY <5>1
          <6>2. ins[x] = thr[x - 1]
            BY ONLY <2>15, <6>1
          <6>3. QED BY <6>1, <6>2, Zenon
        <5>3. QED BY <4>1, <5>1, <5>2
      <4>4. QED BY <2>5, <4>2, <4>3
    <3>4. QED BY <3>2, <3>3
  <2>19. ins[1] = proc /\ ins[k] = cpu.owner
    <3>1. thr[1] = proc /\ 1 \in 1..k /\ k \in 1..k
      BY <2>2, <2>5 DEF RingSeq
    <3>2. QED BY ONLY <2>3, <2>15, <3>1
  <2>20. tnext'[Console] = Console
    BY <1>2, <2>4, <2>5, <2>9 DEF TextInv, ConsoleInv
  <2>21. n + 1 \in 1..threads'[proc]
    <3>1. threads'[proc] = threads[proc] + 1
      BY <1>1, <1>4
    <3>2. PICK m \in Nat : m = threads[proc]
      BY <2>5
    <3>3. QED BY ONLY <2>1, <2>5, <3>1, <3>2
  <2>22. RingSeq(ins, n + 1)'
    BY <2>13, <2>14, <2>17, <2>18, <2>19 DEF RingSeq, Linked, Distinct
  <2>23. AtRest(ins, n + 1)'
    <3>1. k \in 1..(n + 1) /\ thread_list'[proc'] = ins[k]
      BY <1>1, <2>5, <2>19 DEF CurThread
    <3>2. QED BY <2>17, <3>1 DEF AtRest
  <2>24. ThreadsOK(ins, n + 1)'
    BY <1>1, <1>5, <2>22, <2>23 DEF ThreadsOK, IdleAt, WaitAt, LoopAt, RemoveAt, BusyAt, Unlinking
  <2>25. QED BY <2>9, <2>10, <2>15, <2>20, <2>21, <2>24 DEF ThreadsInv
<1>7. TypeOK'
  <2>1. [owner |-> pid, at |-> "user"] \in Context
    BY <1>2 DEF Context, Label
  <2>2. parent' \in [Tid -> Ptr] /\ tstate' \in [Tid -> {"none", "live", "freed"}]
    BY <1>1, <1>2, <1>3
  <2>3. esp_kernel' \in [Tid -> Context] /\ threads' \in [Tid -> Nat]
    BY <1>1, <1>2, <1>3, <2>1
  <2>4. pid' \in 2..(MaxPid + 1)
    BY DEF TextInv, TypeOK
  <2>5. QED BY <1>6, <2>2, <2>3, <2>4 DEF TextInv, TypeOK
<1>8. (ConsoleInv /\ RingShape)'
  BY <1>1, <1>2, <1>4, <1>41, <1>5, <1>6 DEF TextInv, ConsoleInv, RingShape, OneProc, TwoProcs
<1>9. ProcInv'
  BY <1>1, <1>2, <1>4, <1>5 DEF TextInv, TypeOK, ProcInv, IdleAt, WaitAt, LoopAt, RemoveAt, BusyAt, Unlinking
<1>10. OneUser'
  BY <1>1, <1>4, <1>5 DEF TextInv, OneUser
<1>11. FreshInv'
  BY <1>1, <1>2, <1>4, <1>41 DEF TextInv, TypeOK, FreshInv
<1>12. SavedInv' /\ SavedContextOwn'
  <2>1. SavedInv /\ SavedContextOwn
    BY DEF TextInv
  <2>2. pstate' = pstate /\ proc' = proc /\ proc # NULL /\ pid # NULL
    BY <1>1, <1>2
  <2>3. esp_kernel'[pid].owner = pid /\ esp_kernel'[pid].at = "user" /\ parent'[pid] = proc
    BY <1>2, <1>4, <1>41
  <2>4. \A t \in Tid : t # pid => /\ esp_kernel'[t] = esp_kernel[t] /\ parent'[t] = parent[t]
                                 /\ tstate'[t] = tstate[t]
    BY <1>4, <1>41
  <2>5. SavedContextOwn'
    BY ONLY <2>1, <2>3, <2>4 DEF SavedContextOwn
  <2>6. SavedInv'
    BY ONLY <1>5, <2>1, <2>2, <2>3, <2>4 DEF SavedInv, UserAt, NULL
  <2>7. QED BY <2>5, <2>6
<1>13. CpuInv'
  <2>1. cpu.owner # pid /\ cpu.owner \in Tid
    BY <1>2 DEF TextInv, CpuInv, Built
  <2>2. QED BY <1>1, <1>4, <1>5, <2>1 DEF TextInv, CpuInv, CurThread
<1>14. QED BY <1>6, <1>7, <1>8, <1>9, <1>10, <1>11, <1>12, <1>13 DEF TextInv

(* stop_thread preserves TextInv: the ring closes behind the thread, which *)
(* spins until the next switch.                                            *)
LEMMA ExitThreadInv == ASSUME TextInv, ExitThread PROVE TextInv'
<1> USE DEF ExitThread, Spin, ExitedNext, Main, Running, procVars, procData, cpuVars, locals
<1>1. /\ cpu.owner # Console /\ list = proc /\ CurThread = cpu.owner /\ ConsoleIs \in WaitAt
      /\ pstate[proc] = "ACTIVE" /\ proc \in Tid \ {Console} /\ TwoProcs
  BY UserRuns
<1>2. cpu' \in Context /\ cpu'.owner = cpu.owner /\ cpu'.at = "spin" /\ ConsoleIs' = ConsoleIs
  <2>1. "spin" \in Label
    BY DEF Label
  <2>2. QED BY <1>1, <2>1, UserGoto DEF TextInv
<1>3. \A t : Built(t)' <=> Built(t)
  BY DEF Built
<1>4. tnext \in [Tid -> Ptr] /\ tprec \in [Tid -> Ptr] /\ tstate \in [Tid -> {"none", "live", "freed"}]
  BY DEF TextInv, TypeOK
<1>5. PICK a : a = cpu.owner
  OBVIOUS
<1>6. a \in Tid \ {Console} /\ parent[a] = proc /\ parent[a] # a /\ a # proc
  BY <1>1, <1>5 DEF TextInv, CpuInv, Built
<1>7. tstate' \in [Tid -> {"none", "live", "freed"}] /\ \A t \in Tid : tstate'[t] = IF t = a THEN "freed" ELSE tstate[t]
  <2>1. tstate' = [tstate EXCEPT ![a] = "freed"]
    BY <1>1, <1>5
  <2>2. QED BY <1>4, <1>6, <2>1
<1>8. ThreadsInv' /\ tnext' \in [Tid -> Ptr] /\ tprec' \in [Tid -> Ptr] /\ tnext'[Console] = Console
  <2>1. PICK n \in 1..threads[proc] : \E thr \in [1..n -> Tid] :
              /\ RingSeq(thr, n) /\ (\A j \in 1..n : tstate[thr[j]] = "live")
              /\ \E k \in 1..n : cpu.owner = thr[k]
    BY UserRing
  <2>2. PICK thr \in [1..n -> Tid] :
              /\ RingSeq(thr, n) /\ (\A j \in 1..n : tstate[thr[j]] = "live")
              /\ \E k \in 1..n : cpu.owner = thr[k]
    BY <2>1
  <2>3. PICK k \in 1..n : a = thr[k]
    BY <1>5, <2>2
  <2>4. threads[proc] \in Nat /\ n \in Nat
    BY <1>1 DEF TextInv, TypeOK
  <2>5. Linked(thr, n, tnext, tprec) /\ Distinct(thr, n) /\ thr[1] = proc
    BY <2>2 DEF RingSeq, Linked, Distinct
  <2>6. k \in 2..n /\ n - 1 \in Nat \ {0}
    BY <1>6, <2>3, <2>4, <2>5
  <2>7. \A q \in 1..n : thr[q] \in Tid \ {Console} /\ Built(thr[q]) /\ parent[thr[q]] = proc /\ tstate[thr[q]] = "live"
    BY <1>1, <2>2 DEF RingSeq, TextInv, ConsoleInv
  <2>8. PICK nx \in Tid \ {Console} : nx = tnext[a]
    <3> DEFINE m == IF k = n THEN 1 ELSE k + 1
    <3>1. m \in 1..n
      BY ONLY <2>4, k \in 1..n
    <3>2. tnext[thr[k]] = thr[m]
      BY <2>5, Zenon DEF Linked
    <3> HIDE DEF m
    <3>3. thr[m] \in Tid \ {Console}
      BY ONLY <2>7, <3>1
    <3>4. QED BY ONLY <2>3, <3>2, <3>3
  <2>9. PICK pv \in Tid \ {Console} : pv = tprec[a] /\ pv = thr[k - 1] /\ k - 1 \in 1..n
    <3>1. k - 1 \in 1..n /\ k # 1
      BY <2>4, <2>6
    <3>2. tprec[a] = thr[k - 1]
      BY <2>3, <2>5, <3>1 DEF Linked
    <3>3. QED BY <2>7, <3>1, <3>2
  <2>10. /\ tprec' = [tprec EXCEPT ![nx] = pv]
         /\ tnext' = [tnext EXCEPT ![pv] = nx]
    BY <1>1, <1>5, <2>8, <2>9
  <2>11. tnext' \in [Tid -> Ptr] /\ \A t \in Tid : tnext'[t] = IF t = pv THEN nx ELSE tnext[t]
    <3>1. tnext \in [Tid -> Ptr] /\ nx \in Ptr
      BY <1>4, <2>8
    <3>2. QED BY ONLY <2>9, <2>10, <3>1
  <2>12. tprec' \in [Tid -> Ptr] /\ \A t \in Tid : tprec'[t] = IF t = nx THEN pv ELSE tprec[t]
    <3>1. tprec \in [Tid -> Ptr] /\ pv \in Ptr
      BY <1>4, <2>9
    <3>2. QED BY ONLY <2>8, <2>10, <3>1
  <2>13. PICK del : del = Delete(thr, n, k)
    OBVIOUS
  <2>14. del \in [1..(n - 1) -> Tid] /\ del[1] = proc
    <3>1. Deleted(del, Tid, thr, n, k)
      BY <2>4, <2>13, DeleteAt
    <3>2. 1 \in 1..(k - 1)
      BY <2>6
    <3>3. QED BY <2>5, <3>1, <3>2 DEF Deleted
  <2>15. /\ Distinct(del, n - 1)
         /\ \A j \in 1..(n - 1) : \E q \in 1..n : q # k /\ del[j] = thr[q]
         /\ \A q \in 1..n : q # k => \E j \in 1..(n - 1) : thr[q] = del[j]
    <3>1. Distinct(Delete(thr, n, k), n - 1) /\ AllBut(Delete(thr, n, k), thr, n, k)
      BY <2>4, <2>5, DeleteDistinct
    <3>2. QED BY <2>13, <3>1, Zenon DEF AllBut
  <2>16. Linked(del, n - 1, tnext', tprec')
    <3>1. Unlinked(Tid, thr[k], tnext, tprec, tnext', tprec')
      BY <2>3, <2>8, <2>9, <2>11, <2>12 DEF Unlinked
    <3>2. QED BY ONLY <2>4, <2>5, <2>6, <2>13, <3>1, DeleteLinked
  <2>17. \A j \in 1..(n - 1) : /\ Built(del[j])' /\ parent'[del[j]] = proc /\ tstate'[del[j]] = "live"
    <3>1. \A q \in 1..n : q # k => thr[q] # a
      BY <2>3, <2>5 DEF Distinct
    <3>2. \A q \in 1..n : q # k => Built(thr[q])' /\ parent'[thr[q]] = proc /\ tstate'[thr[q]] = "live"
      BY <1>3, <1>7, <2>7, <3>1
    <3>3. SUFFICES ASSUME NEW j \in 1..(n - 1)
                   PROVE  Built(del[j])' /\ parent'[del[j]] = proc /\ tstate'[del[j]] = "live"
      OBVIOUS
    <3>4. PICK q \in 1..n : q # k /\ del[j] = thr[q]
      BY <2>15
    <3>5. QED BY ONLY <3>2, <3>4 DEF Built
  <2>18. \A t \in Tid : parent'[t] = proc /\ tstate'[t] = "live" => \E j \in 1..(n - 1) : t = del[j]
    <3>1. SUFFICES ASSUME NEW t \in Tid, parent'[t] = proc, tstate'[t] = "live"
                   PROVE  \E j \in 1..(n - 1) : t = del[j]
      OBVIOUS
    <3>2. t # a /\ tstate[t] = "live" /\ parent[t] = proc
      BY <1>7, <3>1
    <3>3. PICK q \in 1..n : t = thr[q]
      BY <2>2, <3>2 DEF RingSeq
    <3>4. q # k
      BY ONLY <2>3, <3>2, <3>3
    <3>5. QED BY ONLY <2>15, <3>3, <3>4
  <2>19. RingSeq(del, n - 1)'
    BY <2>14, <2>15, <2>16, <2>17, <2>18 DEF RingSeq, Linked, Distinct
  <2>20. \E j \in 1..(n - 1) : tnext'[a] = del[j]
    <3>1. PICK q \in 1..n : tnext[a] = thr[q] /\ q = IF k = n THEN 1 ELSE k + 1
      <4>1. k \in 1..n /\ n \in Nat
        BY ONLY <2>4, k \in 1..n
      <4>2. tnext[thr[k]] = thr[IF k = n THEN 1 ELSE k + 1]
        BY <2>5, Zenon DEF Linked
      <4>3. PICK q : q = IF k = n THEN 1 ELSE k + 1
        OBVIOUS
      <4>4. q \in 1..n
        BY ONLY <4>1, <4>3
      <4>5. QED BY ONLY <2>3, <4>2, <4>3, <4>4
    <3>2. q # k /\ a # pv
      <4>1. q # k /\ k \in 1..n /\ k - 1 # k
        BY ONLY <2>4, <2>6, k \in 1..n, <3>1
      <4>2. thr[k - 1] # thr[k]
        BY ONLY <2>5, <2>9, <4>1 DEF Distinct
      <4>3. QED BY <2>3, <2>9, <4>1, <4>2
    <3>3. tnext'[a] = thr[q]
      BY <1>6, <2>11, <3>1, <3>2
    <3>4. QED BY ONLY <2>15, <3>1, <3>2, <3>3
  <2>21. AtRest(del, n - 1)'
    <3>1. Exited(a, del, n - 1)'
      BY <1>1, <1>2, <1>6, <1>7, <2>20 DEF Exited
    <3>2. thread_list'[proc'] = a
      BY <1>1, <1>5 DEF CurThread
    <3>3. QED BY <2>17, <3>1, <3>2 DEF AtRest
  <2>22. ThreadsOK(del, n - 1)'
    BY <1>1, <1>2, <2>19, <2>21 DEF ThreadsOK, IdleAt, WaitAt, LoopAt, RemoveAt, BusyAt, Unlinking
  <2>23. n - 1 \in 1..threads'[proc]
    <3>1. threads' = threads
      BY Zenon
    <3>2. n - 1 \in 1..threads[proc]
      BY ONLY <2>4, <2>6, n \in 1..threads[proc]
    <3>3. QED BY ONLY <3>1, <3>2
  <2>24. tnext'[Console] = Console
    BY <2>9, <2>11 DEF TextInv, ConsoleInv
  <2>25. QED BY <2>11, <2>12, <2>14, <2>22, <2>23, <2>24 DEF ThreadsInv
<1>9. TypeOK'
  BY <1>2, <1>7, <1>8 DEF TextInv, TypeOK
<1>10. (ConsoleInv /\ RingShape)'
  BY <1>1, <1>2, <1>3, <1>8 DEF TextInv, ConsoleInv, RingShape, OneProc, TwoProcs
<1>11. ProcInv'
  BY <1>1, <1>2, <1>3 DEF TextInv, ProcInv, IdleAt, WaitAt, LoopAt, RemoveAt, BusyAt, Unlinking
<1>12. OneUser'
  BY <1>2, <1>7 DEF TextInv, OneUser
<1>13. FreshInv'
  BY <1>6, <1>7 DEF TextInv, FreshInv
<1>14. (SavedInv /\ SavedContextOwn)'
  BY <1>3, <1>7 DEF TextInv, SavedInv, SavedContextOwn
<1>15. CpuInv'
  BY <1>1, <1>2, <1>3, <1>5, <1>6, <1>7 DEF TextInv, CpuInv, CurThread, UserAt
<1>16. QED BY <1>8, <1>9, <1>10, <1>11, <1>12, <1>13, <1>14, <1>15 DEF TextInv

(* Every step of the system, and a stuttering step, preserves TextInv.     *)
LEMMA NextInv == ASSUME TextMode, TextInv, [Next]_vars PROVE TextInv'
<1>1. CASE UNCHANGED vars
  <2> USE DEF vars, procVars, procData, ringVars, pitVars, cpuVars, locals
  <2>1. ConsoleIs' = ConsoleIs /\ \A t : Built(t)' <=> Built(t)
    BY <1>1 DEF ConsoleIs, Built
  <2>2. \A thr, n : ThreadsOK(thr, n)' <=> ThreadsOK(thr, n)
    BY <1>1, <2>1, RingSeqSame, AtRestSame, LoopProgressSame DEF ThreadsOK
  <2>3. ThreadsInv'
    BY <1>1, <2>1, <2>2 DEF TextInv, ThreadsInv
  <2>4. (TypeOK /\ ConsoleInv /\ RingShape /\ ProcInv /\ OneUser)'
    BY <1>1, <2>1 DEF TextInv, TypeOK, ConsoleInv, RingShape, ProcInv, OneUser, OneProc, TwoProcs
  <2>5. (FreshInv /\ CpuInv /\ SavedInv /\ SavedContextOwn)'
    BY <1>1, <2>1 DEF TextInv, FreshInv, CpuInv, SavedInv, SavedContextOwn, CurThread
  <2>6. QED BY <2>3, <2>4, <2>5 DEF TextInv
<1>2. CASE Timer \/ Switch \/ Boot \/ Start \/ Wait
  <2>1. ~BootGui
    BY DEF BootGui
  <2>2. QED BY <1>2, <2>1, TickQuietInv, TickSwitchInv, SchedWalkInv, SchedLoadInv, BootTextInv,
          StartProcInv, StartProcFailsInv, SchedAddInv, StartProcReturnInv, PollStoppedInv,
          PollNullInv DEF Timer, Switch, Boot, Start, Wait
<1>3. CASE Remove
  BY <1>3, RemoveBeginInv, RemoveMainInv, RemoveOtherInv, Unlink1Inv, Unlink2Inv, Unlink3Inv,
     Unlink4Inv, RemoveFreeInv, RemoveLoopEndInv, RemoveEndInv DEF Remove, Unlink
<1>4. CASE User
  BY <1>4, ForkInv, ForkNoThreadInv, ForkNoMemoryInv, ExitThreadInv, EndProcInv, GetsInv DEF User
<1>5. QED BY <1>1, <1>2, <1>3, <1>4 DEF Next, Undefined

(* In text mode TextInv always holds: this is the induction that the other *)
(* theorems rest on.                                                       *)
THEOREM TextInvariant == ASSUME TextMode PROVE Spec => []TextInv
<1>1. Init => TextInv
  BY InitInv
<1>2. TextInv /\ [Next]_vars => TextInv'
  BY NextInv
<1>3. QED BY <1>1, <1>2, PTL DEF Spec

(* In text mode every variable keeps its type.                             *)
THEOREM TypeCorrect == ASSUME TextMode PROVE Spec => []TypeOK
<1>1. TextInv => TypeOK
  BY DEF TextInv
<1>2. QED BY <1>1, TextInvariant, PTL

(* In text mode schedule never saves the context of one thread in the      *)
(* structure of another one.                                               *)
THEOREM ContextsAreOwn == ASSUME TextMode PROVE Spec => []SavedContextOwn
<1>1. TextInv => SavedContextOwn
  BY DEF TextInv
<1>2. QED BY <1>1, TextInvariant, PTL

(* In text mode list->thread_list, the TSS and the page directory are      *)
(* those of the thread that runs, whenever code runs.                      *)
THEOREM CpuAgrees == ASSUME TextMode PROVE Spec => []CpuMatchesList
<1>1. ASSUME TextInv PROVE CpuMatchesList
  <2>1. SUFFICES ASSUME ~walking PROVE CurThread = cpu.owner /\ esp0 = cpu.owner /\ current_dir = pdir[list]
    BY DEF CpuMatchesList
  <2>2. CurThread = cpu.owner /\ esp0 = cpu.owner /\ current_dir = pdir[parent[cpu.owner]]
    BY <1>1, <2>1 DEF TextInv, CpuInv
  <2>3. parent[CurThread] = list
    BY <1>1, ListCases DEF TextInv, ConsoleInv, ProcInv, CurThread
  <2>4. QED BY <2>2, <2>3
<1>2. QED BY <1>1, TextInvariant, PTL

(* What get_proc_by_id's outer loop visits: the console, and the user      *)
(* process exactly while it is linked both ways.                           *)
Visits == ProcsVisited = IF TwoProcs THEN {Console, proc} ELSE {Console}

(* Visits follows from TextInv.                                            *)
LEMMA VisitedProcs == TextInv => Visits
<1> SUFFICES ASSUME TextInv PROVE ProcsVisited = IF TwoProcs THEN {Console, proc} ELSE {Console}
  BY DEF Visits
<1>1. CASE TwoProcs
  <2>1. next[Console] = proc /\ list \in {Console, proc} /\ n_proc - 1 = 1
    BY <1>1 DEF TwoProcs
  <2>2. list = proc => next[proc] = Console
    BY ListCases, <1>1 DEF TextInv, RingShape, TwoProcs, OneProc
  <2>3. QED BY <1>1, <2>1, <2>2, VisitedFew DEF ProcsVisited
<1>2. CASE ~TwoProcs
  <2>1. list = Console /\ next[Console] = Console /\ n_proc - 1 \in {0, 1}
    BY <1>2, ListCases DEF TextInv, ConsoleInv, RingShape, OneProc, TwoProcs, IdleAt, WaitAt,
         LoopAt, RemoveAt, BusyAt, Unlinking
  <2>2. QED BY <1>2, <2>1, VisitedFew DEF ProcsVisited
<1>3. QED BY <1>1, <1>2

(* A walk of n hops from any element of a ring of n visits all of them.    *)
LEMMA RingVisited ==
    ASSUME NEW S, NEW n \in Nat \ {0}, NEW thr \in [1..n -> S], NEW nxt, NEW prv,
           Linked(thr, n, nxt, prv), NEW k \in 1..n
    PROVE  Visited(nxt, thr[k], n - 1) = Members(thr, n)
<1> DEFINE place(j) == IF k + j <= n THEN k + j ELSE k + j - n
<1>0. n - 1 \in Nat
  OBVIOUS
<1>1. PICK h : HopVisits(h, nxt, thr[k], n - 1)
  BY <1>0, VisitedHop, Zenon
<1>2. h[0] = thr[k] /\ \A j \in 1..(n - 1) : h[j] = nxt[h[j - 1]]
  BY <1>1, Zenon DEF HopVisits
<1> DEFINE T == {j \in 0..(n - 1) : h[j] # thr[place(j)]}
<1>3. T = {}
  <2>1. SUFFICES ASSUME T # {} PROVE FALSE
    OBVIOUS
  <2>2. PICK m \in T : \A y \in T : m <= y
    <3>1. T \subseteq Nat
      OBVIOUS
    <3> HIDE DEF T
    <3>2. QED BY <2>1, <3>1, LeastNat
  <2>3. m # 0
    BY <1>2, <2>2
  <2>4. m \in 1..(n - 1) /\ m - 1 \in 0..(n - 1) /\ m - 1 \notin T
    BY <2>2, <2>3
  <2>5. h[m - 1] = thr[place(m - 1)]
    BY <2>4
  <2>6. place(m - 1) \in 1..n
    BY <2>4
  <2>7. nxt[thr[place(m - 1)]] = thr[IF place(m - 1) = n THEN 1 ELSE place(m - 1) + 1]
    <3> HIDE DEF place
    <3>1. QED BY <2>6 DEF Linked
  <2>8. (IF place(m - 1) = n THEN 1 ELSE place(m - 1) + 1) = place(m)
    BY <2>4
  <2>9. h[m] = thr[place(m)]
    <3> HIDE DEF place
    <3>1. QED BY <1>2, <2>4, <2>5, <2>7, <2>8
  <2>10. QED BY <2>2, <2>9
<1>4. \A j \in 0..(n - 1) : h[j] = thr[place(j)] /\ place(j) \in 1..n
  BY <1>3
<1>5. ASSUME NEW q \in 1..n PROVE \E j \in 0..(n - 1) : thr[q] = h[j]
  <2> DEFINE j == IF q >= k THEN q - k ELSE q - k + n
  <2>1. j \in 0..(n - 1)
    OBVIOUS
  <2>2. place(j) = q
    OBVIOUS
  <2> HIDE DEF j, place
  <2>3. h[j] = thr[q]
    BY <1>4, <2>1, <2>2
  <2>4. QED BY <2>1, <2>3
<1> HIDE DEF place, T
<1>6. \A x : x \in Visited(nxt, thr[k], n - 1) <=> \E j \in 0..(n - 1) : x = h[j]
  BY <1>1 DEF HopVisits
<1>7. ASSUME NEW x PROVE x \in Visited(nxt, thr[k], n - 1) <=> x \in Members(thr, n)
  <2>1. ASSUME x \in Visited(nxt, thr[k], n - 1) PROVE x \in Members(thr, n)
    <3>1. PICK j \in 0..(n - 1) : x = h[j]
      BY <1>6, <2>1
    <3>2. x = thr[place(j)] /\ place(j) \in 1..n
      BY <1>4, <3>1
    <3>3. QED BY <3>2, Zenon DEF Members
  <2>2. ASSUME x \in Members(thr, n) PROVE x \in Visited(nxt, thr[k], n - 1)
    <3>1. PICK q \in 1..n : x = thr[q]
      BY <2>2, Zenon DEF Members
    <3>2. QED BY <1>5, <1>6, <3>1
  <2>3. QED BY <2>1, <2>2
<1>8. QED BY <1>7, Zenon

(* A ring of n different elements has n of them.                           *)
LEMMA RingCount ==
    ASSUME NEW S, NEW n \in Nat, NEW thr \in [1..n -> S], Distinct(thr, n)
    PROVE  Cardinality(Members(thr, n)) = n
<1> DEFINE T == Members(thr, n)
<1>1. thr \in [1..n -> T] /\ \A t \in T : \E j \in 1..n : thr[j] = t
  BY DEF Members
<1>2. thr \in Bijection(1..n, T)
  BY <1>1 DEF Distinct, Bijection, Injection, Surjection, IsInjective
<1>3. ExistsBijection(1..n, T)
  BY <1>2 DEF ExistsBijection
<1>4. QED BY <1>3, FS_CountingElements

(* The console's ring has only its own thread.                             *)
LEMMA ConsoleRingInit == Init => ConsoleRing
  BY DEF Init, ConsoleRing

(* The second invariant is inductive beside TextInv.                       *)
LEMMA ConsoleRingNext ==
    ASSUME TextMode, TextInv, ConsoleRing, [Next]_vars
    PROVE  ConsoleRing'
<1>1. pid \in 2..(MaxPid + 1) /\ tprec \in [Tid -> Ptr] /\ parent \in [Tid -> Ptr]
  BY DEF TextInv, TypeOK
<1>2. CASE UNCHANGED <<tprec, parent>>
  BY <1>2 DEF ConsoleRing
<1>3. CASE StartProc \/ StartProcFails
  BY <1>1, <1>3 DEF StartProc, StartProcFails, BuildProc, CreateThread, ConsoleRing
<1>4. CASE Fork \/ ForkNoMemory \/ ExitThread
  <2>1. ~walking /\ cpu.at = "user"
    BY <1>4 DEF Fork, ForkNoMemory, ExitThread, Running
  <2>2. list = proc /\ CurThread = cpu.owner /\ proc \in Tid \ {Console}
    BY <2>1, UserRuns
  <2>3. tnext[CurThread] # Console
    <3>1. PICK n \in 1..threads[proc] : \E thr \in [1..n -> Tid] :
                 RingSeq(thr, n) /\ \E k \in 1..n : cpu.owner = thr[k]
      BY <2>1, UserRing
    <3>2. PICK thr \in [1..n -> Tid] : RingSeq(thr, n) /\ \E k \in 1..n : cpu.owner = thr[k]
      BY <3>1
    <3>3. PICK k \in 1..n : cpu.owner = thr[k]
      BY <3>2
    <3>4. PICK m \in 1..n : m = IF k = n THEN 1 ELSE k + 1
      <4>1. threads[proc] \in Nat
        BY <2>2 DEF TextInv, TypeOK
      <4>2. QED BY <4>1
    <3>5. tnext[thr[k]] = thr[m] /\ parent[thr[m]] = proc
      BY <3>2, <3>4 DEF RingSeq
    <3>6. QED BY <2>2, <3>3, <3>5 DEF TextInv, ConsoleInv
  <2>4. CASE Fork
    <3>1. parent' = [parent EXCEPT ![pid] = proc]
      BY <2>2, <2>4 DEF Fork, CreateThread
    <3>2. tprec' = [tprec EXCEPT ![pid] = CurThread, ![tnext[CurThread]] = pid]
      BY <2>4 DEF Fork
    <3>3. \A t \in Tid : parent'[t] = parent[t] \/ parent'[t] = proc
      BY <1>1, <3>1
    <3>4. pid # Console
      BY <1>1
    <3>5. tprec'[Console] = tprec[Console]
      <4> DEFINE u == tnext[CurThread]
                 b == CurThread
      <4> HIDE DEF u, b
      <4>1. tprec' = [tprec EXCEPT ![pid] = b, ![u] = pid] /\ u # Console
        BY <2>3, <3>2 DEF u, b
      <4>2. QED BY <1>1, <3>4, <4>1
    <3>6. QED BY <2>2, <3>3, <3>5 DEF ConsoleRing
  <2>5. CASE ForkNoMemory
    BY <1>1, <2>2, <2>5 DEF ForkNoMemory, ConsoleRing
  <2>6. CASE ExitThread
    BY <1>1, <2>3, <2>6 DEF ExitThread, ConsoleRing
  <2>7. QED BY <1>4, <2>4, <2>5, <2>6
<1>5. \/ UNCHANGED <<tprec, parent>> \/ StartProc \/ StartProcFails
      \/ Fork \/ ForkNoMemory \/ ExitThread
  <2> USE DEF ringVars
  <2>1. CASE Remove
    BY <2>1 DEF Remove, Unlink, RemoveBegin, RemoveMain, RemoveOther, Unlink1, Unlink2, Unlink3,
       Unlink4, RemoveFree, RemoveLoopEnd, RemoveEnd
  <2>2. CASE Timer \/ Switch \/ Boot \/ UNCHANGED vars
    BY <2>2 DEF Timer, Switch, TickQuiet, TickSwitch, SchedWalk, SchedLoad, Boot, BootText, BootGui, vars
  <2>3. CASE Wait
    BY <2>3 DEF Wait, SchedAdd, StartProcReturn, PollStopped, PollNull
  <2>4. CASE ForkNoThread \/ EndProc \/ GetsBegin \/ GetsEnd
    BY <2>4 DEF ForkNoThread, EndProc, GetsBegin, GetsEnd
  <2>5. QED BY <2>1, <2>2, <2>3, <2>4 DEF Next, Start, User, Undefined
<1>6. QED BY <1>2, <1>3, <1>4, <1>5

(* The conjuncts of ThreadRing for one process, from a sequence that is    *)
(* its ring.                                                               *)
RingOf(live, first, count) ==
    /\ \A t \in live : tnext[t] \in live /\ tprec[tnext[t]] = t
    /\ \A t \in live : Visited(tnext, t, Cardinality(live) - 1) = live
    /\ tnext[first] \in live
    /\ Cardinality(live) <= count

(* Links that run round a sequence make the ring that ThreadRing speaks of.*)
LEMMA RingOfSeq ==
    ASSUME NEW n \in Nat \ {0}, NEW thr \in [1..n -> Tid],
           Linked(thr, n, tnext, tprec), Distinct(thr, n), NEW live, live = Members(thr, n),
           NEW first, (\E k \in 1..n : first = thr[k]) \/ (\E k \in 1..n : tnext[first] = thr[k]),
           NEW count \in Nat, n <= count
    PROVE  RingOf(live, first, count)
<1>1. Cardinality(live) = n
  BY RingCount
<1>2. ASSUME NEW k \in 1..n
      PROVE  tnext[thr[k]] \in live /\ tprec[tnext[thr[k]]] = thr[k]
  <2>1. PICK m \in 1..n : m = IF k = n THEN 1 ELSE k + 1
    OBVIOUS
  <2>2. tnext[thr[k]] = thr[m] /\ tprec[thr[m]] = thr[IF m = 1 THEN n ELSE m - 1]
    BY <2>1 DEF Linked
  <2>3. (IF m = 1 THEN n ELSE m - 1) = k
    BY <2>1
  <2>4. QED BY <2>2, <2>3 DEF Members
<1>3. \A t \in live : tnext[t] \in live /\ tprec[tnext[t]] = t
  BY <1>2 DEF Members
<1>4. ASSUME NEW t \in live PROVE Visited(tnext, t, n - 1) = live
  <2>1. PICK k \in 1..n : t = thr[k]
    BY DEF Members
  <2>2. Visited(tnext, thr[k], n - 1) = Members(thr, n)
    BY RingVisited, Zenon
  <2>3. QED BY <2>1, <2>2
<1>5. tnext[first] \in live
  BY <1>2 DEF Members
<1>6. QED BY <1>1, <1>3, <1>4, <1>5 DEF RingOf

(* In text mode the threads of a process that is not being removed make    *)
(* one ring of exactly its live threads, for any number of forks and exits *)
(* and wherever the timer interrupts them.                                 *)
THEOREM RingOfThreads == ASSUME TextMode PROVE Spec => []ThreadRing
<1>1. ASSUME TextInv, ConsoleRing PROVE ThreadRing
  <2>1. SUFFICES ASSUME NEW p \in ProcsVisited, ~BeingRemoved(p)
                 PROVE  RingOf(LiveThreads(p), thread_list[p], threads[p])
    BY Zenon DEF ThreadRing, RingOf
  <2>2. CASE p = Console
    <3> DEFINE thr == [j \in 1..1 |-> Console]
    <3>1. LiveThreads(Console) = {Console}
      BY <1>1 DEF TextInv, ConsoleInv, ConsoleRing, LiveThreads
    <3>2. /\ thr \in [1..1 -> Tid] /\ Distinct(thr, 1) /\ Linked(thr, 1, tnext, tprec)
          /\ Members(thr, 1) = {Console} /\ thr[1] = Console
      BY <1>1 DEF Linked, Distinct, Members, TextInv, ConsoleInv, ConsoleRing
    <3>3. thread_list[Console] = Console /\ threads[Console] = 1
      BY <1>1 DEF TextInv, ConsoleInv
    <3> HIDE DEF thr
    <3>4. RingOf({Console}, Console, 1)
      <4>1. 1 \in Nat \ {0} /\ 1 \in Nat /\ 1 <= 1 /\ 1 \in 1..1
        OBVIOUS
      <4>2. \E k \in 1..1 : Console = thr[k]
        BY <3>2, <4>1
      <4>3. {Console} = Members(thr, 1)
        BY <3>2
      <4>4. QED BY <3>2, <4>1, <4>2, <4>3, RingOfSeq, Zenon
    <3>5. QED BY <2>2, <3>1, <3>3, <3>4
  <2>3. CASE p # Console
    <3>1. p = proc /\ TwoProcs
      BY <1>1, <2>1, <2>3, VisitedProcs DEF Visits
    <3>2. ConsoleIs \in WaitAt \cup {"remove"}
      BY <1>1, <2>1, <2>3, <3>1 DEF BeingRemoved, TextInv, ConsoleInv, RingShape, ProcInv, OneProc,
         TwoProcs, IdleAt, WaitAt, LoopAt, RemoveAt, BusyAt, Unlinking
    <3>3. PICK n \in 1..threads[proc] : \E thr \in [1..n -> Tid] : ThreadsOK(thr, n)
      BY <1>1, <3>2 DEF TextInv, ThreadsInv, BusyAt, RemoveAt
    <3>4. PICK thr \in [1..n -> Tid] : RingSeq(thr, n) /\ AtRest(thr, n)
      BY <3>2, <3>3 DEF ThreadsOK, WaitAt, LoopAt, Unlinking
    <3>5. threads[proc] \in Nat /\ n \in Nat \ {0} /\ n <= threads[proc]
      <4>1. proc \in Tid
        BY <1>1, <3>2 DEF TextInv, ProcInv, BusyAt, RemoveAt
      <4>2. threads[proc] \in Nat
        BY <1>1, <4>1 DEF TextInv, TypeOK
      <4>3. QED BY <4>2
    <3>6. Linked(thr, n, tnext, tprec) /\ Distinct(thr, n)
      BY <3>4 DEF RingSeq, Linked, Distinct
    <3>7. LiveThreads(proc) = Members(thr, n)
      <4>1. \A j \in 1..n : thr[j] \in LiveThreads(proc)
        BY <3>4 DEF RingSeq, AtRest, LiveThreads
      <4>2. \A t \in LiveThreads(proc) : \E j \in 1..n : t = thr[j]
        BY <3>4 DEF RingSeq, LiveThreads
      <4>3. QED BY <4>1, <4>2 DEF Members
    <3>8. \/ \E k \in 1..n : thread_list[proc] = thr[k]
          \/ \E k \in 1..n : tnext[thread_list[proc]] = thr[k]
      BY <3>4 DEF AtRest, Exited
    <3>9. QED BY <3>1, <3>5, <3>6, <3>7, <3>8, RingOfSeq
  <2>4. QED BY <2>2, <2>3
<1>2. TextInv /\ ConsoleRing /\ [Next]_vars => ConsoleRing'
  BY ConsoleRingNext
<1>3. QED BY <1>1, <1>2, ConsoleRingInit, TextInvariant, PTL DEF Spec

(* In text mode schedule never resumes a thread that exited, a process     *)
(* that ended, or freed structures.                                        *)
THEOREM ResumesLive == ASSUME TextMode PROVE Spec => []LoadsOnlyLive
<1>1. ASSUME TextInv PROVE LoadsOnlyLive
  <2>1. SUFFICES ASSUME walking, pstate[list] # "STOPPED"
                 PROVE  /\ pstate[list] = "ACTIVE"
                        /\ tstate[CurThread] = "live" /\ parent[CurThread] = list
                        /\ esp_kernel[CurThread].at # "spin"
    BY DEF LoadsOnlyLive
  <2>2. CASE list = Console
    <3>1. CurThread = Console /\ ConsoleIs = esp_kernel[Console].at
      BY <1>1, <2>1, <2>2 DEF TextInv, ConsoleInv, CurThread, ConsoleIs
    <3>2. QED BY <1>1, <2>2, <3>1 DEF TextInv, ConsoleInv, IdleAt, WaitAt, LoopAt, RemoveAt, BusyAt, Unlinking
  <2>3. CASE list # Console
    <3>1. list = proc /\ ConsoleIs \in WaitAt /\ pstate[proc] = "ACTIVE" /\ proc \in Tid \ {Console}
      BY <1>1, <2>1, <2>3, ListCases DEF TextInv, ProcInv, BusyAt
    <3>2. PICK n \in 1..threads[proc] : \E thr \in [1..n -> Tid] : ThreadsOK(thr, n)
      BY <1>1, <3>1 DEF TextInv, ThreadsInv, BusyAt
    <3>3. PICK thr \in [1..n -> Tid] : RingSeq(thr, n) /\ AtRest(thr, n)
      BY <3>1, <3>2 DEF ThreadsOK, IdleAt, WaitAt, LoopAt, RemoveAt, BusyAt, Unlinking
    <3>4. PICK k \in 1..n : thread_list[proc] = thr[k]
      BY <2>1, <3>3 DEF AtRest, Exited
    <3>5. Built(CurThread) /\ parent[CurThread] = proc /\ tstate[CurThread] = "live"
      BY <3>1, <3>3, <3>4 DEF RingSeq, AtRest, CurThread
    <3>6. CurThread # Console
      BY <1>1, <3>1, <3>5 DEF TextInv, ConsoleInv
    <3>7. esp_kernel[CurThread].at # "spin"
      BY <1>1, <3>1, <3>5, <3>6 DEF TextInv, SavedInv, Built
    <3>8. QED BY <3>1, <3>5, <3>7
  <2>4. QED BY <2>2, <2>3
<1>2. QED BY <1>1, TextInvariant, PTL

(* In text mode remove_proc leaves no thread, no link and no use of the    *)
(* process behind.                                                         *)
THEOREM ReapsAll == ASSUME TextMode PROVE Spec => []ReapedCompletely
<1>1. ASSUME TextInv PROVE ReapedCompletely
  <2>1. SUFFICES ASSUME NEW q \in Tid, pstate[q] = "freed"
                 PROVE  /\ \A t \in Tid : parent[t] = q => tstate[t] = "freed"
                        /\ q \notin ProcsVisited
                        /\ parent[esp0] # q /\ current_dir # q
    BY DEF ReapedCompletely
  <2>2. q # Console /\ \A t \in Tid : parent[t] = q => tstate[t] = "freed"
    BY <1>1, <2>1 DEF TextInv, ConsoleInv, OneUser
  <2>3. TwoProcs => proc # q
    BY <1>1, <2>1, <2>2 DEF TextInv, ConsoleInv, RingShape, ProcInv, OneProc, TwoProcs, IdleAt, WaitAt,
         LoopAt, RemoveAt, BusyAt, Unlinking
  <2>4. q \notin ProcsVisited
    BY <1>1, <2>2, <2>3, VisitedProcs DEF Visits
  <2>5. parent[cpu.owner] # q /\ esp0 = cpu.owner /\ current_dir = pdir[parent[cpu.owner]]
    BY <1>1, <2>1, <2>2 DEF TextInv, ConsoleInv, CpuInv, ProcInv, BusyAt
  <2>6. current_dir # q
    BY <1>1, <2>1, <2>2, <2>5 DEF TextInv, ConsoleInv, CpuInv, ProcInv, BusyAt
  <2>7. QED BY <2>2, <2>4, <2>5, <2>6
<1>2. QED BY <1>1, TextInvariant, PTL

(* What a step can do to the state of a process: nothing, or one of the    *)
(* four changes that start_proc, end_proc and remove_proc make.            *)
LEMMA PstateSteps ==
    ASSUME TextMode, TextInv, [Next]_vars
    PROVE  \/ pstate' = pstate
           \/ StartProc \/ StartProcFails \/ EndProc \/ RemoveEnd
<1> USE DEF procVars, procData, vars
<1>1. CASE UNCHANGED vars
  BY <1>1
<1>2. CASE Timer \/ Switch \/ Boot \/ Start \/ Wait
  BY <1>2 DEF Timer, TickQuiet, TickSwitch, Switch, SchedWalk, SchedLoad, Boot, BootText, BootGui,
     Start, Wait, SchedAdd, StartProcReturn, PollStopped, PollNull
<1>3. CASE Remove
  BY <1>3 DEF Remove, RemoveBegin, RemoveMain, RemoveOther, Unlink, Unlink1, Unlink2, Unlink3,
     Unlink4, RemoveFree, RemoveLoopEnd
<1>4. CASE User
  BY <1>4 DEF User, Fork, ForkNoThread, ForkNoMemory, ExitThread, GetsBegin, GetsEnd
<1>5. QED BY <1>1, <1>2, <1>3, <1>4 DEF Next, Undefined

(* list designates the console or the user process.                        *)
OnList == list = Console \/ list = proc

(* OnList follows from TextInv.                                            *)
LEMMA ListOn == TextInv => OnList
  BY ListCases DEF OnList

(* Only sched_remove_proc takes a linked process off the ring.             *)
LEMMA LeavesRing ==
    ASSUME TextMode, TextInv, [Next]_vars,
           NEW q \in ProcsVisited, q \notin ProcsVisited'
    PROVE  Unlink1 /\ q = proc
<1>1. TextInv'
  BY NextInv
<1>12. Visits' /\ OnList'
  BY <1>1, VisitedProcs, ListOn, PTL
<1>2. TwoProcs /\ q = proc /\ ~(TwoProcs' /\ proc' = proc)
  BY <1>1, <1>12, VisitedProcs DEF Visits
<1>3. ConsoleIs \notin IdleAt \cup {"unlink2", "unlink3", "unlink4"}
  BY <1>2 DEF TextInv, ConsoleInv, ProcInv, RingShape, OneProc, TwoProcs, RemoveAt, LoopAt, Unlinking, BusyAt
<1>4. ~(UNCHANGED <<next, prec, n_proc, proc>>)
  <2>1. list' = Console \/ list' = proc'
    BY <1>12 DEF OnList
  <2>2. QED BY <1>2, <2>1 DEF TwoProcs
<1>5. ~(Running("cmd") \/ Running("add") \/ Running("unlink2") \/ Running("unlink3"))
  <2>1. cpu.at \in IdleAt \cup BusyAt /\ ~walking => ConsoleIs = cpu.at
    BY DEF TextInv, CpuInv, UserAt, ConsoleIs, IdleAt, WaitAt, LoopAt, RemoveAt, BusyAt, Unlinking
  <2>2. QED BY <1>3, <2>1 DEF Running, IdleAt, WaitAt, LoopAt, RemoveAt, BusyAt, Unlinking
<1>6. ~Running("addk")
  BY DEF TextInv, CpuInv, Running, UserAt, IdleAt, WaitAt, LoopAt, RemoveAt, BusyAt, Unlinking
<1> USE DEF procVars, procData, vars, locals
<1>7. ~(UNCHANGED vars)
  BY <1>4
<1>8. ~(Timer \/ Switch \/ Boot \/ Start \/ Wait)
  BY <1>4, <1>5, <1>6 DEF Timer, TickQuiet, TickSwitch, Switch, SchedWalk, SchedLoad, Boot, BootText, BootGui,
     Start, StartProc, StartProcFails, Wait, SchedAdd, StartProcReturn, PollStopped, PollNull
<1>9. ~(User \/ Undefined)
  BY <1>4, <1>7 DEF User, Fork, ForkNoThread, ForkNoMemory, ExitThread, EndProc, GetsBegin, GetsEnd, Undefined
<1>10. Remove => Unlink1
  BY <1>4, <1>5 DEF Remove, RemoveBegin, RemoveMain, RemoveOther, Unlink, Unlink2, Unlink3,
     Unlink4, RemoveFree, RemoveLoopEnd, RemoveEnd
<1>11. QED BY <1>2, <1>7, <1>8, <1>9, <1>10 DEF Next

(* In text mode a process is taken off the ring and released only after it *)
(* ended by itself, and never comes back.                                  *)
THEOREM EndsAreFinal == ASSUME TextMode PROVE Spec => EndIsFinal
<1>1. ASSUME TextInv, [Next]_vars, NEW q \in Tid
      PROVE  /\ pstate[q] = "STOPPED" => pstate'[q] \in {"STOPPED", "freed"}
             /\ pstate'[q] = "freed" /\ pstate[q] # "freed" => pstate[q] = "STOPPED"
             /\ (q \in ProcsVisited /\ q \notin ProcsVisited'
                    => pstate[q] = "STOPPED" /\ cpu.owner # q)
  <2>0. pstate \in [Tid -> {"none", "NEW", "ACTIVE", "STOPPED", "freed"}]
    BY <1>1 DEF TextInv, TypeOK
  <2>1. /\ pstate[q] = "STOPPED" => pstate'[q] \in {"STOPPED", "freed"}
        /\ pstate'[q] = "freed" /\ pstate[q] # "freed" => pstate[q] = "STOPPED"
    <3>1. CASE pstate' = pstate
      BY <3>1
    <3>2. CASE StartProc \/ StartProcFails
      <4>1. pid \in Tid => pstate[pid] = "none"
        BY <1>1 DEF TextInv, TypeOK, FreshInv
      <4>2. \E s \in {"NEW", "ACTIVE"} : pstate' = [pstate EXCEPT ![pid] = s]
        BY <3>2 DEF StartProc, StartProcFails, BuildProc
      <4>3. QED BY <2>0, <4>1, <4>2
    <3>3. CASE EndProc
      <4>1. list = proc /\ pstate[proc] = "ACTIVE"
        BY <1>1, <3>3, UserRuns DEF EndProc, Running
      <4>2. QED BY <2>0, <3>3, <4>1 DEF EndProc
    <3>4. CASE RemoveEnd
      <4>1. cur = proc /\ pstate[proc] = "STOPPED"
        BY <1>1, <3>4, ConsoleRuns DEF ConsoleAt, RemoveEnd, Running, TextInv, ProcInv, IdleAt, WaitAt, LoopAt, RemoveAt, BusyAt, Unlinking
      <4>2. QED BY <2>0, <3>4, <4>1 DEF RemoveEnd
    <3>5. QED BY <1>1, <3>1, <3>2, <3>3, <3>4, PstateSteps
  <2>2. ASSUME q \in ProcsVisited, q \notin ProcsVisited' PROVE pstate[q] = "STOPPED" /\ cpu.owner # q
    <3>1. Unlink1 /\ q = proc
      BY <1>1, <2>2, LeavesRing
    <3>2. ConsoleIs = "unlink1" /\ cpu.owner = Console
      BY <1>1, <3>1, ConsoleRuns DEF ConsoleAt, Unlink1, Running, IdleAt, WaitAt, LoopAt, RemoveAt, BusyAt, Unlinking
    <3>3. QED BY <1>1, <3>1, <3>2 DEF TextInv, ProcInv, RemoveAt, LoopAt, Unlinking, BusyAt
  <2>3. QED BY <2>1, <2>2
<1>2. TextInv /\ [Next]_vars => EndStep
  BY <1>1 DEF EndStep
<1>3. QED BY <1>2, TextInvariant, PTL DEF Spec, EndIsFinal

-----------------------------------------------------------------------------
(* A step that changes neither the states of processes nor the process     *)
(* that has the CPU is a stuttering step of ProcLife.                      *)
LEMMA LifeStutter ==
    ASSUME pstate' = pstate, RunningProc' = RunningProc
    PROVE  UNCHANGED Life!lifeVars
  BY DEF Life!lifeVars, LifeOf

(* The process that has the CPU: the console or the user process.          *)
LEMMA RunningIs ==
    ASSUME TextInv, ~walking
    PROVE  /\ RunningProc = parent[cpu.owner] /\ RunningProc # NULL
           /\ RunningProc = IF cpu.owner = Console THEN Console ELSE proc
<1>1. cpu.owner = Console => parent[cpu.owner] = Console
  BY DEF TextInv, ConsoleInv
<1>2. cpu.owner # Console => parent[cpu.owner] = proc /\ proc # NULL
  BY DEF TextInv, CpuInv, ProcInv, BusyAt
<1>3. QED BY <1>1, <1>2 DEF RunningProc

(* Steps that leave the process states alone change who has the CPU only   *)
(* in the timer interrupt.                                                 *)
LEMMA RunningKept ==
    ASSUME TextMode, TextInv, [Next]_vars, pstate' = pstate, ~TickSwitch, ~SchedLoad
    PROVE  RunningProc' = RunningProc
<1> USE DEF procVars, procData, vars, cpuVars, ringVars
<1>0. cpu.owner \in Tid /\ cpu \in [owner : Ptr, at : Label] /\ parent \in [Tid -> Ptr]
  BY DEF TextInv, CpuInv, Built, TypeOK, Context
<1>1. walking' = walking
  BY DEF Next, Timer, TickQuiet, Switch, SchedWalk, Boot, BootText, BootGui, Start, StartProc, StartProcFails,
     Wait, SchedAdd, StartProcReturn, PollStopped, PollNull, Remove, RemoveBegin, RemoveMain, RemoveOther,
     Unlink, Unlink1, Unlink2, Unlink3, Unlink4, RemoveFree, RemoveLoopEnd, RemoveEnd, User, Fork, ForkNoThread,
     ForkNoMemory, ExitThread, EndProc, GetsBegin, GetsEnd, Undefined
<1>2. cpu' = cpu \/ \E l : Goto(l)
  BY DEF Next, Timer, TickQuiet, Switch, SchedWalk, Boot, BootText, BootGui, Start, StartProc, StartProcFails,
     Wait, SchedAdd, StartProcReturn, PollStopped, PollNull, Remove, RemoveBegin, RemoveMain, RemoveOther,
     Unlink, Unlink1, Unlink2, Unlink3, Unlink4, RemoveFree, RemoveLoopEnd, RemoveEnd, User, Fork, ForkNoThread,
     ForkNoMemory, ExitThread, EndProc, GetsBegin, GetsEnd, Undefined, Spin
<1>3. cpu'.owner = cpu.owner
  BY <1>0, <1>2 DEF Goto
<1>4. parent' = parent \/ (cpu.owner # pid /\ \E q : parent' = [parent EXCEPT ![pid] = q])
  <2>1. Built(cpu.owner) /\ (pid \in Tid => ~Built(pid))
    BY DEF TextInv, TypeOK, CpuInv, FreshInv, Built, NoContext
  <2>2. parent' = parent \/ \E q : parent' = [parent EXCEPT ![pid] = q]
    BY DEF Next, Timer, TickQuiet, Switch, SchedWalk, Boot, BootText, BootGui, Start, StartProc, StartProcFails,
       BuildProc, CreateThread,
       Wait, SchedAdd, StartProcReturn, PollStopped, PollNull, Remove, RemoveBegin, RemoveMain, RemoveOther,
       Unlink, Unlink1, Unlink2, Unlink3, Unlink4, RemoveFree, RemoveLoopEnd, RemoveEnd, User, Fork, ForkNoThread,
       ForkNoMemory, ExitThread, EndProc, GetsBegin, GetsEnd, Undefined
  <2>3. QED BY <1>0, <2>1, <2>2
<1>5. parent'[cpu.owner] = parent[cpu.owner]
  BY <1>0, <1>4
<1>6. QED BY <1>1, <1>3, <1>5 DEF RunningProc

(* In text mode the scheduler implements ProcLife: spawned, dispatched and *)
(* preempted in turn, ended by itself, reaped once.                        *)
THEOREM RefinesLife == ASSUME TextMode PROVE Spec => ImplementsLife
<1>1. ASSUME Init PROVE Life!LifeInit
  <2>1. RunningProc = Console
    BY <1>1 DEF Init, RunningProc
  <2>2. \A p \in Tid : LifeOf(p) = IF p = Console THEN "ready" ELSE "none"
    BY <1>1 DEF Init, LifeOf
  <2>3. QED BY <2>1, <2>2 DEF Life!LifeInit
<1>2. ASSUME TextInv, [Next]_vars PROVE [Life!LifeNext]_(Life!lifeVars)
  <2>0. TextInv' /\ pstate \in [Tid -> {"none", "NEW", "ACTIVE", "STOPPED", "freed"}]
    BY <1>2, NextInv DEF TextInv, TypeOK
  <2>1. CASE TickSwitch
    <3>1. RunningProc # NULL /\ RunningProc' = NULL /\ pstate' = pstate
      BY <1>2, <2>1, RunningIs DEF TickSwitch, RunningProc, procData
    <3>2. Life!Preempt
      BY <3>1 DEF Life!Preempt, LifeOf
    <3>3. QED BY <3>2 DEF Life!LifeNext
  <2>2. CASE SchedLoad
    <3>1. list \in Tid /\ pstate[list] = "ACTIVE" /\ parent[CurThread] = list /\ CurThread \in Tid
          /\ esp_kernel[CurThread].owner = CurThread
      BY <1>2, <2>2, ListCases DEF SchedLoad, TextInv, ConsoleInv, ProcInv, Built, CurThread
    <3>2. cpu'.owner = CurThread
      BY <1>2, <2>2, <3>1 DEF SchedLoad, TextInv, TypeOK, Context
    <3>3. RunningProc = NULL /\ RunningProc' = list /\ pstate' = pstate
      BY <2>2, <3>1, <3>2 DEF SchedLoad, RunningProc, procData, ringVars
    <3>4. LifeOf(list) = "ready"
      BY <3>1 DEF LifeOf
    <3>5. Life!Dispatch(list)
      BY <3>1, <3>3, <3>4 DEF Life!Dispatch, LifeOf
    <3>6. QED BY <3>1, <3>5 DEF Life!LifeNext
  <2>3. CASE pstate' = pstate /\ ~TickSwitch /\ ~SchedLoad
    BY <1>2, <2>3, RunningKept, LifeStutter
  <2>4. CASE StartProc
    <3>1. pid \in Tid /\ pstate[pid] = "none" /\ ~walking
      BY <1>2, <2>4 DEF StartProc, Running, TextInv, TypeOK, FreshInv
    <3>2. cpu.owner = Console /\ ConsoleIs = "cmd"
      BY <1>2, <2>4, ConsoleRuns DEF StartProc, Running, ConsoleAt
    <3>3. pstate' = [pstate EXCEPT ![pid] = "ACTIVE"] /\ cpu'.owner = Console /\ ~walking'
      BY <1>2, <2>4, <3>1, <3>2 DEF StartProc, BuildProc, Goto, cpuVars, TextInv, TypeOK, Context
    <3>4. RunningProc = Console /\ RunningProc' = Console
      BY <1>2, <2>0, <3>1, <3>2, <3>3, RunningIs DEF RunningProc, TextInv, ConsoleInv
    <3>5. \A q \in Tid : LifeOf(q)' = IF q = pid THEN "ready" ELSE LifeOf(q)
      BY <2>0, <3>1, <3>3 DEF LifeOf
    <3>6. \A q \in Tid \ {Console} : LifeOf(q) \notin {"ready", "ended"}
      BY <1>2, <3>2 DEF TextInv, OneUser, LifeOf, IdleAt, WaitAt, LoopAt, RemoveAt, BusyAt, Unlinking
    <3>7. LifeOf(pid) = "none"
      BY <3>1 DEF LifeOf
    <3>8. Life!Spawn(pid)
      BY <3>1, <3>4, <3>5, <3>6, <3>7 DEF Life!Spawn, Life!Alive
    <3>9. QED BY <3>1, <3>8 DEF Life!LifeNext
  <2>5. CASE StartProcFails
    <3>1. pid \in Tid /\ pstate[pid] = "none" /\ ~walking /\ ~Built(pid)
      BY <1>2, <2>5 DEF StartProcFails, Running, TextInv, TypeOK, FreshInv, Built, NoContext
    <3>2. pstate' = [pstate EXCEPT ![pid] = "NEW"] /\ cpu' = cpu /\ ~walking'
      BY <2>5, <3>1 DEF StartProcFails, cpuVars
    <3>3. cpu.owner = Console
      BY <1>2, <2>5, ConsoleRuns DEF StartProcFails, Running, ConsoleAt
    <3>4. RunningProc = Console /\ RunningProc' = Console
      BY <1>2, <2>0, <3>1, <3>2, <3>3, RunningIs DEF RunningProc, TextInv, ConsoleInv
    <3>5. \A q \in Tid : LifeOf(q)' = LifeOf(q)
      BY <2>0, <3>1, <3>2 DEF LifeOf
    <3>6. QED BY <3>4, <3>5 DEF Life!lifeVars
  <2>6. CASE EndProc
    <3>1. /\ cpu.owner # Console /\ list = proc /\ pstate[proc] = "ACTIVE" /\ ~walking
          /\ proc \in Tid \ {Console}
      BY <1>2, <2>6, UserRuns DEF EndProc, Running
    <3>2. /\ pstate' = [pstate EXCEPT ![proc] = "STOPPED"] /\ cpu'.owner = cpu.owner /\ ~walking'
          /\ parent' = parent
      BY <1>2, <2>6, <3>1 DEF EndProc, Spin, Goto, cpuVars, ringVars, TextInv, TypeOK, Context
    <3>3. RunningProc = proc /\ RunningProc' = proc
      BY <1>2, <3>1, <3>2, RunningIs DEF RunningProc
    <3>4. \A q \in Tid : LifeOf(q)' = IF q = proc THEN "ended" ELSE LifeOf(q)
      BY <2>0, <3>1, <3>2 DEF LifeOf
    <3>5. LifeOf(proc) = "ready"
      BY <3>1 DEF LifeOf
    <3>6. Life!End
      <4>1. [q \in Tid |-> LifeOf(q)][RunningProc] = "ready"
        BY <3>1, <3>3, <3>5
      <4>2. [q \in Tid |-> LifeOf(q)]' = [[q \in Tid |-> LifeOf(q)] EXCEPT ![RunningProc] = "ended"]
        BY <3>1, <3>3, <3>4
      <4>3. RunningProc \notin {NULL, Console} /\ RunningProc' = RunningProc
        BY <3>1, <3>3
      <4>4. QED BY <4>1, <4>2, <4>3, Zenon DEF Life!End
    <3>7. QED BY <3>6 DEF Life!LifeNext
  <2>7. CASE RemoveEnd
    <3>1. cpu.owner = Console /\ ConsoleIs = "rmend" /\ ~walking
      BY <1>2, <2>7, ConsoleRuns DEF RemoveEnd, Running, ConsoleAt
    <3>2. cur = proc /\ proc \in Tid \ {Console} /\ pstate[proc] = "STOPPED"
      BY <1>2, <3>1 DEF TextInv, ProcInv, RemoveAt, BusyAt
    <3>3. pstate' = [pstate EXCEPT ![proc] = "freed"] /\ cpu'.owner = Console /\ ~walking'
      BY <1>2, <2>7, <3>1, <3>2 DEF RemoveEnd, Goto, TextInv, TypeOK, Context
    <3>4. RunningProc = Console /\ RunningProc' = Console
      BY <1>2, <2>0, <3>1, <3>2, <3>3, RunningIs DEF RunningProc, TextInv, ConsoleInv
    <3>5. \A q \in Tid : LifeOf(q)' = IF q = proc THEN "gone" ELSE LifeOf(q)
      BY <2>0, <3>2, <3>3 DEF LifeOf
    <3>6. LifeOf(proc) = "ended"
      BY <3>2 DEF LifeOf
    <3>7. Life!Reap(proc)
      BY <3>2, <3>4, <3>5, <3>6 DEF Life!Reap
    <3>8. QED BY <3>2, <3>7 DEF Life!LifeNext
  <2>8. QED BY <1>2, <2>1, <2>2, <2>3, <2>4, <2>5, <2>6, <2>7, PstateSteps
<1>3. QED BY <1>1, <1>2, TextInvariant, PTL DEF Spec, ImplementsLife, Life!LifeSpec

(* In text mode the scheduler is off only while a user thread waits in     *)
(* gets, or after a fork for which kmalloc failed: no path of the system   *)
(* calls or of the console leaves it off.                                  *)
THEOREM SchedulerStaysOn == ASSUME TextMode PROVE Spec => []SchedOffOnlyInGets
<1> DEFINE OffInv == SchedOffOnlyInGets /\ (sched_on = 0 => ~walking)
<1> USE DEF SchedOffOnlyInGets
<1>1. Init => OffInv
  BY DEF Init
<1>2. ASSUME TextInv, OffInv, [Next]_vars PROVE OffInv'
  <2> USE DEF procVars, procData, vars, cpuVars, ringVars, pitVars, Running
  <2>0. cpu \in [owner : Ptr, at : Label] /\ sched_on \in {0, 1}
    BY <1>2 DEF TextInv, TypeOK, Context
  <2>1. CASE UNCHANGED vars
    BY <1>2, <2>1
  <2>2. CASE Timer \/ Switch \/ Boot \/ Start \/ Wait
    <3>1. sched_on = 0 => cpu.at \in {"gets", "user"} /\ ~walking
      BY <1>2
    <3>2. CASE Timer \/ Switch
      BY <1>2, <2>0, <3>2 DEF Timer, TickQuiet, TickSwitch, SliceOver, Switch, SchedWalk, SchedLoad
    <3>3. CASE Boot \/ Start \/ Wait
      BY <1>2, <2>0, <3>1, <3>3 DEF Boot, BootText, BootGui, Start, StartProc, StartProcFails, Wait, SchedAdd,
         StartProcReturn, PollStopped, PollNull
    <3>4. QED BY <2>2, <3>2, <3>3
  <2>3. CASE Remove
    BY <1>2, <2>3 DEF Remove, RemoveBegin, RemoveMain, RemoveOther, Unlink, Unlink1, Unlink2, Unlink3,
       Unlink4, RemoveFree, RemoveLoopEnd, RemoveEnd
  <2>4. CASE User
    BY <1>2, <2>0, <2>4 DEF User, Fork, ForkNoThread, ForkNoMemory, ExitThread, EndProc, GetsBegin, GetsEnd,
       Spin, Goto
  <2>5. QED BY <1>2, <2>1, <2>2, <2>3, <2>4 DEF Next, Undefined
<1>3. TextInv /\ OffInv /\ [Next]_vars => OffInv'
  BY <1>2
<1>4. OffInv => SchedOffOnlyInGets
  OBVIOUS
<1>5. QED BY <1>1, <1>3, <1>4, TextInvariant, PTL DEF Spec

-----------------------------------------------------------------------------
(***************************************************************************)
(* Both modes.  No assumption is made about TextMode from here on, and     *)
(* nothing above that rests on TextInv is used.                            *)
(***************************************************************************)

(* A walk along links that do not leave a set stays in it.                 *)
LEMMA VisitedIn ==
    ASSUME NEW S, NEW nxt, NEW start \in S, NEW k \in Int, \A s \in S : nxt[s] \in S
    PROVE  Visited(nxt, start, k) \subseteq S
<1>1. CASE k < 0
  <2>1. 0..k = {}
    BY <1>1
  <2>2. Visited(nxt, start, k) = {}
    BY <2>1, Zenon DEF Visited
  <2>3. QED BY <2>2
<1>2. CASE k \in Nat
  <2>1. PICK h : HopVisits(h, nxt, start, k)
    BY <1>2, VisitedHop
  <2> DEFINE T == {m \in 0..k : h[m] \notin S}
  <2>2. T = {}
    <3>1. SUFFICES ASSUME T # {} PROVE FALSE
      OBVIOUS
    <3>2. T \subseteq Nat
      BY <1>2
    <3>3. PICK m \in T : \A y \in T : m <= y
      BY <3>1, <3>2, LeastNat
    <3>4. m # 0 /\ m \in 1..k
      BY <1>2, <2>1, <3>3 DEF HopVisits
    <3>5. m - 1 \in 0..k /\ m - 1 \notin T
      BY <1>2, <3>3, <3>4
    <3>6. h[m - 1] \in S
      BY <3>5
    <3>7. h[m] = nxt[h[m - 1]]
      BY <2>1, <3>4, Zenon DEF HopVisits
    <3>8. QED BY <3>3, <3>6, <3>7
  <2>3. QED BY <2>1, <2>2 DEF HopVisits
<1>3. QED BY <1>1, <1>2

(* What get_proc_by_id finds is a linked process that the thread is of.    *)
LEMMA LookupLinked ==
    ASSUME Links, list \in InRing, NEW id, get_proc_by_id(id) # NULL
    PROVE  /\ get_proc_by_id(id) \in InRing
           /\ id \in Tid /\ Made(id) /\ parent[id] = get_proc_by_id(id)
<1>1. ProcsVisited \subseteq InRing
  <2>1. \A p \in InRing : next[p] \in InRing
    BY DEF Links, ProcLinks
  <2>2. n_proc - 1 \in Int
    BY DEF Links, LinkTypes
  <2>3. QED BY <2>1, <2>2, VisitedIn DEF ProcsVisited
<1>2. ASSUME NEW p \in InRing, id \in ThreadsVisited(p)
      PROVE  id \in Tid /\ Made(id) /\ parent[id] = p
  <2> DEFINE S == {t \in Tid : Made(t) /\ parent[t] = p}
  <2>1. \A t \in S : tnext[t] \in S
    BY DEF Links, ThreadLinks
  <2>2. thread_list[p] \in S
    BY DEF Links, ThreadLists, ProcLinks, InRing
  <2>3. threads[p] - 1 \in Int
    BY DEF Links, LinkTypes, InRing
  <2> HIDE DEF S
  <2>4. ThreadsVisited(p) \subseteq S
    BY <2>1, <2>2, <2>3, VisitedIn DEF ThreadsVisited
  <2>5. QED BY <1>2, <2>4 DEF S
<1>3. PICK p \in ProcsVisited : get_proc_by_id(id) = p /\ id \in ThreadsVisited(p)
  BY Zenon DEF get_proc_by_id
<1>4. QED BY <1>1, <1>2, <1>3

(* A step that leaves all links as they are.                               *)
LEMMA LinksSame ==
    ASSUME Links, list' \in Tid, n_proc' \in Int, walking' \in BOOLEAN, cpu' \in Context,
           UNCHANGED <<next, prec, pstate, threads, thread_list, pdir, tnext, tprec, parent,
                       esp_kernel, pid>>
    PROVE  Links' /\ InRing' = InRing
<1>1. LinkTypes' /\ ConsoleOwn' /\ InRing' = InRing
  BY DEF Links, LinkTypes, ConsoleOwn, InRing, Made
<1>2. ThreadLinks' /\ ThreadLists'
  BY DEF Links, ThreadLinks, ThreadLists, Made
<1>3. ProcLinks' /\ Unused'
  BY <1>1 DEF Links, ProcLinks, Unused, Made
<1>4. QED BY <1>1, <1>2, <1>3 DEF Links

(* At boot the globals and the CPU agree on the console.                   *)
LEMMA InitContext == Init => ContextInv
<1> SUFFICES ASSUME Init PROVE Links /\ Agree
  BY DEF ContextInv
<1>1. \A t \in Tid : Made(t) <=> t = Console
  BY DEF Init, Made, NoContext
<1>2. InRing = {Console}
  BY DEF Init, InRing
<1>3. LinkTypes
  <2>1. esp_kernel \in [Tid -> Context] /\ cpu \in Context
    BY DEF Init, Context, Label, ConsoleAt, NoContext
  <2>2. pstate \in [Tid -> {"none", "NEW", "ACTIVE", "STOPPED", "freed"}] /\ threads \in [Tid -> Nat]
        /\ next \in [Tid -> Ptr] /\ pdir \in [Tid -> Ptr]
    BY DEF Init
  <2>3. /\ list = Console /\ n_proc = 1 /\ pid = 2 /\ walking = FALSE /\ prec = next
        /\ thread_list = next /\ tnext = next /\ tprec = next /\ parent = next
    BY DEF Init
  <2>4. list \in Tid /\ n_proc \in Int /\ pid \in 2..(MaxPid + 1) /\ walking \in BOOLEAN
    <3>1. list \in Tid /\ n_proc \in Int /\ pid \in 2..(MaxPid + 1)
      BY <2>3
    <3>2. QED BY <2>3, <3>1, Zenon
  <2>5. /\ prec \in [Tid -> Ptr] /\ thread_list \in [Tid -> Ptr] /\ tnext \in [Tid -> Ptr]
        /\ tprec \in [Tid -> Ptr] /\ parent \in [Tid -> Ptr]
    BY <2>2, <2>3, Zenon
  <2>6. QED BY <2>1, <2>2, <2>4, <2>5, Zenon DEF LinkTypes
<1>4. Links
  BY <1>1, <1>2, <1>3 DEF Init, Links, ConsoleOwn, ThreadLinks, ThreadLists, ProcLinks, Unused
<1>5. Agree
  BY <1>1, <1>2 DEF Init, Agree, SavedContextOwn, SavedAt, Facts, ConsoleIs, Ordered, CurThread, ConsoleAt, LoopAt, Unlinking
<1> QED BY <1>4, <1>5

(* The console runs: list is its process, or sched_remove_proc moved it.   *)
LEMMA ConsoleState ==
    ASSUME Links, Agree \/ Astray \/ Doomed, ~walking, cpu.at \in ConsoleAt
    PROVE  OnConsole /\ ((list = Console /\ Ordered) \/ Astray)
<1>1. cpu.at \notin OthersAt
  BY DEF ConsoleAt, OthersAt, UserAt, Unlinking
<1>2. CASE Agree
  <2>1. cpu.owner = Console /\ CurThread = Console
    BY <1>1, <1>2 DEF Agree
  <2>2. parent[CurThread] = list
    BY <1>2 DEF Agree, Links, ThreadLists, ProcLinks, CurThread, InRing
  <2>3. list = Console /\ parent[Console] = Console /\ pdir[Console] = KernDir
    BY <2>1, <2>2 DEF Links, ConsoleOwn
  <2>4. ConsoleIs = cpu.at
    BY <2>1 DEF ConsoleIs
  <2>5. QED BY <1>2, <2>1, <2>3, <2>4 DEF Agree, OnConsole
<1>3. CASE Astray
  BY <1>3 DEF Astray
<1>4. CASE Doomed
  BY <1>1, <1>4 DEF Doomed
<1>5. QED BY <1>2, <1>3, <1>4

(* Another thread runs, of the process that list is.                       *)
LEMMA OtherState ==
    ASSUME Links, Agree \/ Astray \/ Doomed, ~walking, cpu.at \in OthersAt
    PROVE  /\ list \in InRing \ {Console} /\ CurThread \in Tid \ {Console} /\ Made(CurThread)
           /\ parent[CurThread] = list
           /\ (Agree /\ cpu.owner = CurThread) \/ Doomed
<1>1. cpu.at \notin ConsoleAt
  BY DEF ConsoleAt, OthersAt, UserAt, Unlinking
<1>2. list \in InRing /\ CurThread \in Tid /\ Made(CurThread) /\ parent[CurThread] = list
  <2>1. list \in InRing
    BY DEF Agree, Astray, OnConsole, Doomed
  <2>2. QED BY <2>1 DEF Links, ThreadLists, ProcLinks, CurThread, InRing
<1>3. CASE Agree
  <2>1. CurThread = cpu.owner /\ cpu.owner # Console
    BY <1>1, <1>3 DEF Agree
  <2>2. thread_list[Console] = Console
    BY DEF Links, ConsoleOwn
  <2>3. QED BY <1>2, <1>3, <2>1, <2>2 DEF CurThread
<1>4. CASE Astray
  BY <1>1, <1>4 DEF Astray, OnConsole
<1>5. CASE Doomed
  <2>1. list # Console /\ parent[Console] = Console
    BY <1>5 DEF Doomed, Links, ConsoleOwn
  <2>2. QED BY <1>2, <1>5, <2>1
<1>6. QED BY <1>3, <1>4, <1>5

(* The console at its next place, with the links as they are.              *)
LEMMA ConsoleGoes ==
    ASSUME Links, OnConsole, NEW l \in ConsoleAt, Goto(l), Facts(l)', list' \in InRing, n_proc' \in Int,
           UNCHANGED <<next, prec, pstate, threads, thread_list, pdir, tnext, tprec, parent,
                       esp_kernel, pid, walking, esp0, current_dir>>
    PROVE  /\ Links' /\ InRing' = InRing /\ OnConsole' /\ cpu'.at = l
           /\ Ordered => Ordered'
           /\ list' = Console /\ Ordered => ContextInv'
<1>1. cpu \in Context /\ list \in Tid /\ walking = FALSE
  BY DEF Links, LinkTypes, OnConsole
<1>2. cpu' \in Context /\ cpu'.at = l /\ cpu'.owner = cpu.owner
  BY <1>1 DEF Goto, Context, Label
<1>3. Links' /\ InRing' = InRing
  BY <1>1, <1>2, LinksSame DEF InRing
<1>4. SavedContextOwn' /\ SavedAt(NULL)'
  BY DEF OnConsole, SavedContextOwn, SavedAt, Made
<1>5. Facts(cpu.at)'
  BY <1>2 DEF Facts
<1>6. OnConsole'
  BY <1>2, <1>3, <1>4, <1>5 DEF OnConsole
<1>7. Ordered => Ordered'
  BY <1>3 DEF Ordered
<1>8. ASSUME list' = Console, Ordered PROVE ContextInv'
  <2>1. ConsoleIs' = cpu'.at
    BY <1>1, <1>2 DEF ConsoleIs, OnConsole
  <2>2. CurThread' = Console /\ pdir'[Console] = KernDir
    BY <1>8 DEF CurThread, Links, ConsoleOwn
  <2>3. Agree'
    BY <1>6, <1>7, <1>8, <2>1, <2>2 DEF Agree, OnConsole
  <2>4. QED BY <1>3, <2>3 DEF ContextInv
<1>9. QED BY <1>2, <1>3, <1>6, <1>7, <1>8

(* The same in remove_proc and before a command, also when astray.         *)
LEMMA ConsoleGoesOn ==
    ASSUME Links, OnConsole, (list = Console /\ Ordered) \/ Astray, cpu.at \in AstrayAt,
           NEW l \in AstrayAt, Goto(l), Facts(l)', list' \in InRing, n_proc' \in Int, cur' = cur,
           list' # Console => cur # NULL,
           UNCHANGED <<next, prec, pstate, threads, thread_list, pdir, tnext, tprec, parent,
                       esp_kernel, pid, walking, esp0, current_dir>>
    PROVE  ContextInv'
<1>1. l \in ConsoleAt /\ l \notin AddedAt
  BY DEF AstrayAt, LoopAt, ConsoleAt, AddedAt, Unlinking
<1>2. Ordered
  BY DEF Astray
<1>3. Links' /\ OnConsole' /\ cpu'.at = l /\ Ordered' /\ (list' = Console => ContextInv')
  BY <1>1, <1>2, ConsoleGoes
<1>4. ASSUME list' # Console PROVE Astray'
  BY <1>1, <1>3, <1>4 DEF Astray, AddedAt
<1>5. QED BY <1>3, <1>4 DEF ContextInv

-----------------------------------------------------------------------------
(* The steps of the console that change no link                            *)

(* main_proc in text mode changes nothing but its place.                   *)
LEMMA BootTextContext ==
    ASSUME Links, Agree \/ Astray \/ Doomed, BootText
    PROVE  ContextInv'
<1>1. ~walking /\ cpu.at = "boot" /\ cpu.at \in ConsoleAt /\ "cmd" \in ConsoleAt /\ Goto("cmd")
  BY DEF BootText, Running, ConsoleAt
<1>2. OnConsole /\ list = Console /\ Ordered
  BY <1>1, ConsoleState DEF Astray, AstrayAt, AddedAt, LoopAt, Unlinking
<1>3. Facts("cmd")'
  BY DEF Facts, LoopAt, Unlinking
<1>4. QED
  BY <1>1, <1>2, <1>3, ConsoleGoes DEF BootText, procVars, procData, ringVars, cpuVars, Links, LinkTypes, OnConsole

(* start_proc returns the pid of a thread of the process it linked in.     *)
LEMMA ReturnContext ==
    ASSUME Links, Agree \/ Astray \/ Doomed, StartProcReturn
    PROVE  ContextInv'
<1>1. /\ ~walking /\ cpu.at = "ret" /\ cpu.at \in ConsoleAt /\ "poll" \in ConsoleAt /\ Goto("poll")
      /\ procn' = thread_list[proc]
      /\ UNCHANGED <<next, prec, pstate, threads, thread_list, pdir, tnext, tprec, parent,
                      esp_kernel, pid, walking, esp0, current_dir, list, n_proc, proc, cur, app>>
  BY DEF StartProcReturn, Running, ConsoleAt, procVars, procData, ringVars, cpuVars
<1>2. OnConsole /\ ((list = Console /\ Ordered) \/ Astray)
  BY <1>1, ConsoleState
<1>3. proc \in InRing \ {Console}
  BY <1>1, <1>2 DEF OnConsole, Facts
<1>4. thread_list[proc] \in Tid /\ parent[thread_list[proc]] = proc /\ parent[Console] = Console
  BY <1>3 DEF Links, ThreadLists, ProcLinks, ConsoleOwn, InRing
<1>5. Facts("poll")'
  BY <1>1, <1>3, <1>4 DEF Facts, LoopAt, Unlinking
<1>6. /\ Links' /\ InRing' = InRing /\ OnConsole' /\ cpu'.at = "poll" /\ (Ordered => Ordered')
      /\ (list' = Console /\ Ordered => ContextInv')
  BY <1>1, <1>2, <1>5, ConsoleGoes DEF Links, LinkTypes, OnConsole
<1>7. ASSUME Astray PROVE Astray'
  <2>1. Falling(list) /\ next[list] # list /\ next[next[list]] < list /\ pstate[proc] = "ACTIVE"
    BY <1>1, <1>7 DEF Astray, AddedAt
  <2>2. Falling(list)'
    BY <1>1, <1>6, <2>1 DEF Falling
  <2>3. pstate'[parent'[procn']] = "ACTIVE"
    BY <1>1, <1>4, <2>1
  <2>4. QED BY <1>1, <1>6, <1>7, <2>1, <2>2, <2>3 DEF Astray, AddedAt, AstrayAt, LoopAt, Unlinking
<1>8. QED BY <1>1, <1>2, <1>6, <1>7 DEF ContextInv

(* The wait ends; it cannot while astray, when the polled process is       *)
(* active.                                                                 *)
LEMMA PollStoppedContext ==
    ASSUME Links, Agree \/ Astray \/ Doomed, PollStopped
    PROVE  ContextInv'
<1>1. /\ ~walking /\ cpu.at = "poll" /\ cpu.at \in ConsoleAt /\ "remove" \in ConsoleAt /\ Goto("remove")
      /\ UNCHANGED <<next, prec, pstate, threads, thread_list, pdir, tnext, tprec, parent,
                      esp_kernel, pid, walking, esp0, current_dir, list, n_proc, proc, procn, cur, app>>
  BY DEF PollStopped, Running, ConsoleAt, procVars, procData, ringVars, cpuVars, locals
<1>2. OnConsole /\ ((list = Console /\ Ordered) \/ Astray)
  BY <1>1, ConsoleState
<1>3. ~Astray
  <2>1. get_proc_by_id(procn) # NULL /\ pstate[get_proc_by_id(procn)] = "STOPPED"
    BY DEF PollStopped, HasStopped
  <2>2. parent[procn] = get_proc_by_id(procn)
    BY <1>2, <2>1, LookupLinked DEF OnConsole
  <2>3. QED BY <1>1, <2>1, <2>2 DEF Astray
<1>4. Facts("remove")'
  BY <1>1, <1>2 DEF OnConsole, Facts, LoopAt, Unlinking
<1>5. QED BY <1>1, <1>2, <1>3, <1>4, ConsoleGoes DEF Links, LinkTypes, OnConsole

(* From where nothing is known the contexts were right, or a removal had   *)
(* begun.                                                                  *)
LEMMA WildContext ==
    ASSUME Links, OnConsole, (list = Console /\ Ordered) \/ cur' # NULL, Goto("wild"),
           UNCHANGED <<list, thread_list, pdir, esp_kernel, walking, esp0, current_dir>>
    PROVE  ContextInv'
<1>1. cpu'.at = "wild" /\ cpu'.owner = Console /\ ~walking'
  BY DEF Links, LinkTypes, OnConsole, Goto, Context
<1>2. SavedContextOwn'
  BY DEF OnConsole, SavedContextOwn
<1>3. list = Console => CpuMatchesList'
  BY <1>1 DEF OnConsole, CpuMatchesList, CurThread, Links, ConsoleOwn
<1>4. QED BY <1>1, <1>2, <1>3 DEF ContextInv, Lost, ContextsBeforeRemoval

(* proc_state through a NULL process: the console is lost, or anything     *)
(* goes.                                                                   *)
LEMMA PollNullContext ==
    ASSUME Links, Agree \/ Astray \/ Doomed, PollNull
    PROVE  ContextInv'
<1>1. /\ ~walking /\ cpu.at = "poll" /\ cpu.at \in ConsoleAt /\ "lost" \in ConsoleAt
      /\ Goto("lost") \/ Goto("wild")
      /\ UNCHANGED <<next, prec, pstate, threads, thread_list, pdir, tnext, tprec, parent,
                      esp_kernel, pid, walking, esp0, current_dir, list, n_proc, proc, procn, cur, app>>
  BY DEF PollNull, Running, ConsoleAt, procVars, procData, ringVars, cpuVars, locals
<1>2. OnConsole /\ ((list = Console /\ Ordered) \/ Astray)
  BY <1>1, ConsoleState
<1>3. CASE Goto("wild")
  BY <1>1, <1>2, <1>3, WildContext DEF Astray
<1>4. CASE Goto("lost")
  <2>1. Facts("lost")'
    BY DEF Facts, LoopAt, Unlinking
  <2>2. /\ Links' /\ InRing' = InRing /\ OnConsole' /\ cpu'.at = "lost"
        /\ (list' = Console /\ Ordered => ContextInv')
    BY <1>1, <1>2, <1>4, <2>1, ConsoleGoes DEF Links, LinkTypes, OnConsole
  <2>3. ASSUME Astray PROVE Astray'
    <3>1. Falling(list) /\ next[list] # list /\ next[next[list]] < list
      BY <1>1, <2>3 DEF Astray, AddedAt
    <3>2. Falling(list)'
      BY <1>1, <2>2, <3>1 DEF Falling
    <3>3. QED BY <1>1, <2>2, <2>3, <3>1, <3>2 DEF Astray, AddedAt, AstrayAt, LoopAt, Unlinking
  <2>4. QED BY <1>1, <1>2, <2>2, <2>3 DEF ContextInv
<1>5. QED BY <1>1, <1>3, <1>4

(* remove_proc looks up the process, which is never the console's own.     *)
LEMMA RemoveBeginContext ==
    ASSUME Links, Agree \/ Astray \/ Doomed, RemoveBegin
    PROVE  ContextInv'
<1>1. /\ ~walking /\ cpu.at = "remove" /\ cpu.at \in ConsoleAt /\ "rm" \in ConsoleAt
      /\ cur' = get_proc_by_id(procn) /\ Goto(IF cur' = NULL THEN "wild" ELSE "rm")
      /\ UNCHANGED <<next, prec, pstate, threads, thread_list, pdir, tnext, tprec, parent,
                      esp_kernel, pid, walking, esp0, current_dir, list, n_proc, proc, procn, app>>
  BY DEF RemoveBegin, Running, ConsoleAt, procVars, procData, ringVars, cpuVars
<1>2. OnConsole /\ list = Console /\ Ordered
  BY <1>1, ConsoleState DEF Astray, AstrayAt, AddedAt, LoopAt, Unlinking
<1>3. CASE cur' = NULL
  BY <1>1, <1>2, <1>3, WildContext
<1>4. CASE cur' # NULL
  <2>1. cur' \in InRing /\ procn \in Tid /\ Made(procn) /\ parent[procn] = cur' /\ procn # Console
    BY <1>1, <1>2, <1>4, LookupLinked DEF OnConsole, Facts
  <2>2. MainOf(cur)'
    BY <1>1, <2>1 DEF MainOf, Links, ThreadLinks, ProcLinks, InRing, Made
  <2>3. Facts("rm")'
    BY <2>2 DEF Facts, LoopAt, Unlinking
  <2>4. QED BY <1>1, <1>2, <1>4, <2>3, ConsoleGoes DEF Links, LinkTypes, OnConsole
<1>5. QED BY <1>3, <1>4

(* A thread that is not the main one is only freed.                        *)
LEMMA RemoveOtherContext ==
    ASSUME Links, Agree \/ Astray \/ Doomed, RemoveOther
    PROVE  ContextInv'
<1>1. /\ ~walking /\ cpu.at = "rm" /\ cpu.at \in ConsoleAt /\ cpu.at \in AstrayAt /\ "rmfree" \in AstrayAt
      /\ Goto("rmfree")
      /\ UNCHANGED <<next, prec, pstate, threads, thread_list, pdir, tnext, tprec, parent,
                      esp_kernel, pid, walking, esp0, current_dir, list, n_proc, proc, procn, cur, app>>
  BY DEF RemoveOther, Running, ConsoleAt, AstrayAt, LoopAt, Unlinking, procVars, procData, ringVars, cpuVars, locals
<1>2. OnConsole /\ ((list = Console /\ Ordered) \/ Astray)
  BY <1>1, ConsoleState
<1>3. MainOf(cur) /\ MainOf(cur)' /\ cur # NULL
  BY <1>1, <1>2 DEF OnConsole, Facts, LoopAt, Unlinking, MainOf, Made
<1>4. Facts("rmfree")'
  BY <1>1, <1>2, <1>3 DEF OnConsole, Facts, LoopAt, Unlinking, InRing
<1>5. list' \in InRing /\ n_proc' \in Int
  BY <1>1, <1>2, <1>4 DEF OnConsole, Links, LinkTypes, ProcLinks, Facts, Unlinking
<1>6. QED BY <1>1, <1>2, <1>3, <1>4, <1>5, ConsoleGoesOn

(* The loop of remove_proc ends.                                           *)
LEMMA RemoveLoopEndContext ==
    ASSUME Links, Agree \/ Astray \/ Doomed, RemoveLoopEnd
    PROVE  ContextInv'
<1>1. /\ ~walking /\ cpu.at = "rm" /\ cpu.at \in ConsoleAt /\ cpu.at \in AstrayAt /\ "rmend" \in AstrayAt
      /\ Goto("rmend")
      /\ UNCHANGED <<next, prec, pstate, threads, thread_list, pdir, tnext, tprec, parent,
                      esp_kernel, pid, walking, esp0, current_dir, list, n_proc, proc, procn, cur, app>>
  BY DEF RemoveLoopEnd, Running, ConsoleAt, AstrayAt, LoopAt, Unlinking, procVars, procData, ringVars, cpuVars, locals
<1>2. OnConsole /\ ((list = Console /\ Ordered) \/ Astray)
  BY <1>1, ConsoleState
<1>3. MainOf(cur) /\ MainOf(cur)' /\ cur # NULL
  BY <1>1, <1>2 DEF OnConsole, Facts, LoopAt, Unlinking, MainOf, Made
<1>4. Facts("rmend")'
  BY <1>1, <1>2, <1>3 DEF OnConsole, Facts, LoopAt, Unlinking, InRing
<1>5. list' \in InRing /\ n_proc' \in Int
  BY <1>1, <1>2, <1>4 DEF OnConsole, Links, LinkTypes, ProcLinks, Facts, Unlinking
<1>6. QED BY <1>1, <1>2, <1>3, <1>4, <1>5, ConsoleGoesOn

(* sched_remove_proc counts the process out.                               *)
LEMMA Unlink3Context ==
    ASSUME Links, Agree \/ Astray \/ Doomed, Unlink3
    PROVE  ContextInv'
<1>1. /\ ~walking /\ cpu.at = "unlink3" /\ cpu.at \in ConsoleAt /\ cpu.at \in AstrayAt /\ "unlink4" \in AstrayAt
      /\ Goto("unlink4")
      /\ n_proc' = n_proc - 1
      /\ UNCHANGED <<next, prec, pstate, threads, thread_list, pdir, tnext, tprec, parent,
                      esp_kernel, pid, walking, esp0, current_dir, list, proc, procn, cur, app>>
  BY DEF Unlink3, Running, ConsoleAt, AstrayAt, LoopAt, Unlinking, procVars, procData, ringVars, cpuVars, locals
<1>2. OnConsole /\ ((list = Console /\ Ordered) \/ Astray)
  BY <1>1, ConsoleState
<1>3. MainOf(cur) /\ MainOf(cur)' /\ cur # NULL
  BY <1>1, <1>2 DEF OnConsole, Facts, LoopAt, Unlinking, MainOf, Made
<1>4. Facts("unlink4")'
  BY <1>1, <1>2, <1>3 DEF OnConsole, Facts, LoopAt, Unlinking, InRing
<1>5. list' \in InRing /\ n_proc' \in Int
  BY <1>1, <1>2, <1>4 DEF OnConsole, Links, LinkTypes, ProcLinks, Facts, Unlinking
<1>6. QED BY <1>1, <1>2, <1>3, <1>4, <1>5, ConsoleGoesOn

(* list = app->next: from here on the console may be astray.               *)
LEMMA Unlink4Context ==
    ASSUME Links, Agree \/ Astray \/ Doomed, Unlink4
    PROVE  ContextInv'
<1>1. /\ ~walking /\ cpu.at = "unlink4" /\ cpu.at \in ConsoleAt /\ cpu.at \in AstrayAt /\ "rmfree" \in AstrayAt
      /\ Goto("rmfree")
      /\ list' = next[app]
      /\ UNCHANGED <<next, prec, pstate, threads, thread_list, pdir, tnext, tprec, parent,
                      esp_kernel, pid, walking, esp0, current_dir, n_proc, proc, procn, cur, app>>
  BY DEF Unlink4, Running, ConsoleAt, AstrayAt, LoopAt, Unlinking, procVars, procData, ringVars, cpuVars, locals
<1>2. OnConsole /\ ((list = Console /\ Ordered) \/ Astray)
  BY <1>1, ConsoleState
<1>3. MainOf(cur) /\ MainOf(cur)' /\ cur # NULL
  BY <1>1, <1>2 DEF OnConsole, Facts, LoopAt, Unlinking, MainOf, Made
<1>4. Facts("rmfree")'
  BY <1>1, <1>2, <1>3 DEF OnConsole, Facts, LoopAt, Unlinking, InRing
<1>5. list' \in InRing /\ n_proc' \in Int
  BY <1>1, <1>2, <1>4 DEF OnConsole, Links, LinkTypes, ProcLinks, Facts, Unlinking
<1>6. QED BY <1>1, <1>2, <1>3, <1>4, <1>5, ConsoleGoesOn

(* The main thread of the process: the process that is looked up is        *)
(* linked.                                                                 *)
LEMMA RemoveMainContext ==
    ASSUME Links, Agree \/ Astray \/ Doomed, RemoveMain
    PROVE  ContextInv'
<1>1. /\ ~walking /\ cpu.at = "rm" /\ cpu.at \in ConsoleAt /\ cpu.at \in AstrayAt
      /\ "rmfree" \in AstrayAt /\ "unlink1" \in AstrayAt
      /\ app' = get_proc_by_id(thread_list[cur]) /\ Goto(IF app' = NULL THEN "rmfree" ELSE "unlink1")
      /\ UNCHANGED <<next, prec, pstate, threads, thread_list, pdir, tnext, tprec, parent,
                      esp_kernel, pid, walking, esp0, current_dir, list, n_proc, proc, procn, cur>>
  BY DEF RemoveMain, Running, ConsoleAt, AstrayAt, LoopAt, Unlinking, procVars, procData, ringVars, cpuVars
<1>2. OnConsole /\ ((list = Console /\ Ordered) \/ Astray)
  BY <1>1, ConsoleState
<1>3. MainOf(cur) /\ MainOf(cur)' /\ cur # NULL
  BY <1>1, <1>2 DEF OnConsole, Facts, LoopAt, Unlinking, MainOf, Made
<1>4. list' \in InRing /\ n_proc' \in Int
  BY <1>1, <1>2 DEF OnConsole, Links, LinkTypes
<1>5. CASE app' = NULL
  <2>1. Facts("rmfree")'
    BY <1>3 DEF Facts, LoopAt, Unlinking
  <2>2. QED BY <1>1, <1>2, <1>3, <1>4, <1>5, <2>1, ConsoleGoesOn
<1>6. CASE app' # NULL
  <2>1. app' \in InRing /\ parent[thread_list[cur]] = app'
    BY <1>1, <1>2, <1>6, LookupLinked DEF OnConsole
  <2>2. parent[thread_list[cur]] = cur /\ cur # Console
    BY <1>3 DEF Links, ThreadLists, MainOf
  <2>3. Facts("unlink1")'
    BY <1>1, <1>3, <2>1, <2>2 DEF Facts, LoopAt, Unlinking, InRing
  <2>4. QED BY <1>1, <1>2, <1>3, <1>4, <1>6, <2>3, ConsoleGoesOn
<1>7. QED BY <1>5, <1>6

-----------------------------------------------------------------------------
(* The steps of the console that change links                              *)

(* What is left to show of such a step.                                    *)
LEMMA ConsoleAgrees ==
    ASSUME Links', OnConsole', Ordered', list' = Console
    PROVE  ContextInv'
<1>1. ConsoleIs' = cpu'.at /\ CurThread' = Console /\ pdir'[Console] = KernDir
  BY DEF ConsoleIs, OnConsole, CurThread, Links, ConsoleOwn
<1>2. Facts(ConsoleIs)'
  BY <1>1 DEF OnConsole, Facts
<1>3. Agree'
  BY <1>1, <1>2 DEF Agree, OnConsole
<1>4. QED BY <1>3 DEF ContextInv
(* The same where list may have been moved: the console agrees or is       *)
(* astray.                                                                 *)
LEMMA ConsoleJoins ==
    ASSUME Links', OnConsole', Ordered', cpu'.at \in AstrayAt, list' # Console => cur' # NULL
    PROVE  ContextInv'
<1>1. CASE list' = Console
  BY <1>1, ConsoleAgrees
<1>2. CASE list' # Console
  <2>1. cpu'.at \notin AddedAt
    BY DEF AstrayAt, LoopAt, AddedAt, Unlinking
  <2>2. Astray'
    BY <1>2, <2>1 DEF Astray, AddedAt
  <2>3. QED BY <2>2 DEF ContextInv
<1>3. QED BY <1>1, <1>2

(* The predecessor skips the process; pids still fall around the ring.     *)
LEMMA Unlink1Context ==
    ASSUME Links, Agree \/ Astray \/ Doomed, Unlink1
    PROVE  ContextInv'
<1>1. /\ ~walking /\ cpu.at = "unlink1" /\ cpu.at \in ConsoleAt /\ cpu.at \in AstrayAt /\ "unlink2" \in AstrayAt
      /\ Goto("unlink2") /\ next' = [next EXCEPT ![prec[app]] = next[app]]
      /\ UNCHANGED <<prec, pstate, threads, thread_list, pdir, tnext, tprec, parent,
                      esp_kernel, pid, walking, esp0, current_dir, list, n_proc, proc, procn, cur, app>>
  BY DEF Unlink1, Running, ConsoleAt, AstrayAt, LoopAt, Unlinking, procVars, procData, ringVars, cpuVars, locals
<1>2. OnConsole /\ Ordered
  BY <1>1, ConsoleState DEF Astray
<1>3. MainOf(cur) /\ cur # NULL /\ app \in InRing \ {Console}
  BY <1>1, <1>2 DEF OnConsole, Facts, LoopAt, Unlinking, MainOf
<1>4. /\ prec[app] \in InRing /\ next[app] \in InRing /\ next[app] < app
      /\ (prec[app] = Console \/ prec[app] > app)
  BY <1>2, <1>3 DEF Links, ProcLinks, Ordered
<1>5. InRing \subseteq Tid /\ \A p \in Tid : next'[p] = IF p = prec[app] THEN next[app] ELSE next[p]
  BY <1>1 DEF InRing, Links, LinkTypes
<1>6. InRing' = InRing
  <2>1. \A p \in Tid : next'[p] # NULL <=> next[p] # NULL
    BY <1>4, <1>5 DEF InRing
  <2>2. QED BY <2>1 DEF InRing
<1>7. cpu' \in Context /\ cpu'.at = "unlink2" /\ cpu'.owner = Console
  BY <1>1, <1>2 DEF Goto, OnConsole, Links, LinkTypes, Context, Label, ConsoleAt, Unlinking
<1>8. Links'
  <2>1. LinkTypes'
    <3>1. next' \in [Tid -> Ptr]
      BY <1>1, <1>4 DEF Links, LinkTypes, InRing
    <3>2. QED BY <1>1, <1>7, <3>1 DEF Links, LinkTypes
  <2>2. ConsoleOwn' /\ ThreadLinks' /\ ThreadLists'
    BY <1>1 DEF Links, ConsoleOwn, ThreadLinks, ThreadLists, Made
  <2>3. ProcLinks'
    BY <1>1, <1>4, <1>5, <1>6 DEF Links, ProcLinks, Made
  <2>4. Unused'
    BY <1>1, <1>4, <1>5 DEF Links, Unused, Made, InRing
  <2>5. QED BY <2>1, <2>2, <2>3, <2>4 DEF Links
<1>9. Ordered'
  <2>1. ASSUME NEW p \in InRing \ {Console}
        PROVE  next'[p] < p /\ (prec'[p] = Console \/ prec'[p] > p)
    <3>1. next[p] < p /\ (prec[p] = Console \/ prec[p] > p) /\ p \in Tid /\ prec' = prec
      BY <1>1, <1>2, <1>5 DEF Ordered
    <3>2. next[app] \in Tid /\ app \in Tid /\ prec[app] \in Tid
      BY <1>3, <1>4 DEF InRing
    <3>3. QED BY <1>4, <1>5, <3>1, <3>2
  <2>2. QED BY <1>6, <2>1 DEF Ordered
<1>10. OnConsole'
  <2>1. SavedContextOwn' /\ SavedAt(NULL)'
    BY <1>1, <1>2 DEF OnConsole, SavedContextOwn, SavedAt, Made
  <2>2. Facts(cpu.at)'
    BY <1>1, <1>3, <1>6, <1>7 DEF Facts, LoopAt, Unlinking, MainOf, Made
  <2>3. QED BY <1>1, <1>2, <1>6, <1>7, <2>1, <2>2 DEF OnConsole, ConsoleAt, Unlinking
<1>11. QED BY <1>1, <1>3, <1>7, <1>8, <1>9, <1>10, ConsoleJoins

(* The successor skips the process on the way back.                        *)
LEMMA Unlink2Context ==
    ASSUME Links, Agree \/ Astray \/ Doomed, Unlink2
    PROVE  ContextInv'
<1>1. /\ ~walking /\ cpu.at = "unlink2" /\ cpu.at \in ConsoleAt /\ cpu.at \in AstrayAt /\ "unlink3" \in AstrayAt
      /\ Goto("unlink3") /\ prec' = [prec EXCEPT ![next[app]] = prec[app]]
      /\ UNCHANGED <<next, pstate, threads, thread_list, pdir, tnext, tprec, parent,
                      esp_kernel, pid, walking, esp0, current_dir, list, n_proc, proc, procn, cur, app>>
  BY DEF Unlink2, Running, ConsoleAt, AstrayAt, LoopAt, Unlinking, procVars, procData, ringVars, cpuVars, locals
<1>2. OnConsole /\ Ordered
  BY <1>1, ConsoleState DEF Astray
<1>3. MainOf(cur) /\ cur # NULL /\ app \in InRing \ {Console}
  BY <1>1, <1>2 DEF OnConsole, Facts, LoopAt, Unlinking, MainOf
<1>4. /\ prec[app] \in InRing /\ next[app] \in InRing /\ next[app] < app
      /\ (prec[app] = Console \/ prec[app] > app)
  BY <1>2, <1>3 DEF Links, ProcLinks, Ordered
<1>5. /\ InRing \subseteq Tid /\ InRing' = InRing
      /\ \A p \in Tid : prec'[p] = IF p = next[app] THEN prec[app] ELSE prec[p]
  BY <1>1 DEF InRing, Links, LinkTypes
<1>6. cpu' \in Context /\ cpu'.at = "unlink3" /\ cpu'.owner = Console
  BY <1>1, <1>2 DEF Goto, OnConsole, Links, LinkTypes, Context, Label, ConsoleAt, Unlinking
<1>7. Links'
  <2>1. LinkTypes'
    <3>1. prec' \in [Tid -> Ptr]
      BY <1>1, <1>4 DEF Links, LinkTypes, InRing
    <3>2. QED BY <1>1, <1>6, <3>1 DEF Links, LinkTypes
  <2>2. ConsoleOwn' /\ ThreadLinks' /\ ThreadLists'
    BY <1>1 DEF Links, ConsoleOwn, ThreadLinks, ThreadLists, Made
  <2>3. ProcLinks'
    BY <1>1, <1>4, <1>5 DEF Links, ProcLinks, Made
  <2>4. Unused'
    BY <1>1 DEF Links, Unused, Made
  <2>5. QED BY <2>1, <2>2, <2>3, <2>4 DEF Links
<1>8. Ordered'
  <2>1. ASSUME NEW p \in InRing \ {Console}
        PROVE  next'[p] < p /\ (prec'[p] = Console \/ prec'[p] > p)
    <3>1. next[p] < p /\ (prec[p] = Console \/ prec[p] > p) /\ p \in Tid /\ next' = next
      BY <1>1, <1>2, <1>5 DEF Ordered
    <3>2. next[app] \in Tid /\ app \in Tid /\ prec[app] \in Tid
      BY <1>3, <1>4 DEF InRing
    <3>3. QED BY <1>4, <1>5, <3>1, <3>2
  <2>2. QED BY <1>5, <2>1 DEF Ordered
<1>9. OnConsole'
  <2>1. SavedContextOwn' /\ SavedAt(NULL)'
    BY <1>1, <1>2 DEF OnConsole, SavedContextOwn, SavedAt, Made
  <2>2. Facts(cpu.at)'
    BY <1>1, <1>3, <1>5, <1>6 DEF Facts, LoopAt, Unlinking, MainOf, Made
  <2>3. QED BY <1>1, <1>2, <1>5, <1>6, <2>1, <2>2 DEF OnConsole, ConsoleAt, Unlinking
<1>10. QED BY <1>1, <1>3, <1>6, <1>7, <1>8, <1>9, ConsoleJoins

(* The body of the loop turns thread_list of the process being removed.    *)
LEMMA RemoveFreeContext ==
    ASSUME Links, Agree \/ Astray \/ Doomed, RemoveFree
    PROVE  ContextInv'
<1>1. /\ ~walking /\ cpu.at = "rmfree" /\ cpu.at \in ConsoleAt /\ cpu.at \in AstrayAt /\ "rm" \in AstrayAt
      /\ Goto("rm") /\ thread_list' = [thread_list EXCEPT ![cur] = tnext[thread_list[cur]]]
      /\ UNCHANGED <<next, prec, pstate, threads, pdir, tnext, tprec, parent,
                      esp_kernel, pid, walking, esp0, current_dir, list, n_proc, proc, procn, cur, app>>
  BY DEF RemoveFree, Running, ConsoleAt, AstrayAt, LoopAt, procVars, procData, ringVars, cpuVars
<1>2. OnConsole /\ Ordered /\ (list # Console => cur # NULL)
  BY <1>1, ConsoleState DEF Astray
<1>3. MainOf(cur)
  BY <1>1, <1>2 DEF OnConsole, Facts, LoopAt, Unlinking
<1> DEFINE t == tnext[thread_list[cur]]
<1>4. t \in Tid /\ Made(t) /\ parent[t] = cur
  BY <1>3 DEF Links, ThreadLists, ThreadLinks, MainOf
<1>5. /\ \A p \in Tid : thread_list'[p] = IF p = cur THEN t ELSE thread_list[p]
      /\ thread_list' \in [Tid -> Ptr] /\ InRing' = InRing
  BY <1>1, <1>4 DEF Links, LinkTypes, InRing
<1>6. cpu' \in Context /\ cpu'.at = "rm" /\ cpu'.owner = Console
  BY <1>1, <1>2 DEF Goto, OnConsole, Links, LinkTypes, Context, Label, ConsoleAt
<1> HIDE DEF t
<1>7. Links'
  <2>1. LinkTypes'
    BY <1>1, <1>5, <1>6 DEF Links, LinkTypes
  <2>2. ConsoleOwn'
    BY <1>1, <1>3, <1>5 DEF Links, ConsoleOwn, Made, MainOf
  <2>3. ThreadLinks' /\ Unused'
    BY <1>1 DEF Links, ThreadLinks, Unused, Made
  <2>4. ThreadLists'
    BY <1>1, <1>4, <1>5 DEF Links, ThreadLists, Made
  <2>5. ProcLinks'
    BY <1>1, <1>5 DEF Links, ProcLinks, Made
  <2>6. QED BY <2>1, <2>2, <2>3, <2>4, <2>5 DEF Links
<1>8. Ordered'
  BY <1>1, <1>2, <1>5 DEF Ordered
<1>9. OnConsole'
  <2>1. SavedContextOwn' /\ SavedAt(NULL)'
    BY <1>1, <1>2 DEF OnConsole, SavedContextOwn, SavedAt, Made
  <2>2. Facts(cpu.at)'
    BY <1>1, <1>3, <1>6 DEF Facts, LoopAt, Unlinking, MainOf, Made
  <2>3. QED BY <1>1, <1>2, <1>5, <1>6, <2>1, <2>2 DEF OnConsole, ConsoleAt
<1>10. QED BY <1>1, <1>2, <1>6, <1>7, <1>8, <1>9, ConsoleJoins

(* remove_proc loads the kernel's directory and frees the process.         *)
LEMMA RemoveEndContext ==
    ASSUME Links, Agree \/ Astray \/ Doomed, RemoveEnd
    PROVE  ContextInv'
<1>1. /\ ~walking /\ cpu.at = "rmend" /\ cpu.at \in ConsoleAt /\ cpu.at \in AstrayAt /\ "cmd" \in AstrayAt
      /\ Goto("cmd") /\ current_dir' = KernDir /\ pstate' = [pstate EXCEPT ![cur] = "freed"]
      /\ UNCHANGED <<next, prec, thread_list, threads, pdir, tnext, tprec, parent,
                      esp_kernel, pid, walking, esp0, list, n_proc, proc, procn, cur, app>>
  BY DEF RemoveEnd, Running, ConsoleAt, AstrayAt, LoopAt, procVars, ringVars, locals
<1>2. OnConsole /\ Ordered /\ (list # Console => cur # NULL)
  BY <1>1, ConsoleState DEF Astray
<1>3. MainOf(cur)
  BY <1>1, <1>2 DEF OnConsole, Facts, LoopAt, Unlinking
<1>4. /\ pstate' \in [Tid -> {"none", "NEW", "ACTIVE", "STOPPED", "freed"}]
      /\ pstate'[Console] = pstate[Console] /\ InRing' = InRing
  BY <1>1, <1>3 DEF Links, LinkTypes, InRing, MainOf
<1>5. cpu' \in Context /\ cpu'.at = "cmd" /\ cpu'.owner = Console
  BY <1>1, <1>2 DEF Goto, OnConsole, Links, LinkTypes, Context, Label, ConsoleAt
<1>6. Links'
  <2>1. LinkTypes'
    BY <1>1, <1>4, <1>5 DEF Links, LinkTypes
  <2>2. ConsoleOwn'
    BY <1>1, <1>4 DEF Links, ConsoleOwn, Made
  <2>3. ThreadLinks' /\ ThreadLists' /\ Unused'
    BY <1>1 DEF Links, ThreadLinks, ThreadLists, Unused, Made
  <2>4. ProcLinks'
    BY <1>1, <1>4 DEF Links, ProcLinks, Made
  <2>5. QED BY <2>1, <2>2, <2>3, <2>4 DEF Links
<1>7. Ordered'
  BY <1>1, <1>2, <1>4 DEF Ordered
<1>8. OnConsole'
  <2>1. SavedContextOwn' /\ SavedAt(NULL)'
    BY <1>1, <1>2 DEF OnConsole, SavedContextOwn, SavedAt, Made
  <2>2. Facts(cpu.at)'
    BY <1>5 DEF Facts, LoopAt, Unlinking
  <2>3. QED BY <1>1, <1>2, <1>4, <1>5, <2>1, <2>2 DEF OnConsole, ConsoleAt
<1>9. QED BY <1>1, <1>2, <1>5, <1>6, <1>7, <1>8, ConsoleJoins

(* A process is linked in after list. After the console this keeps the     *)
(* order; astray, it is the one place where pids rise, and list is two     *)
(* steps from it.                                                          *)
LEMMA SchedAddContext ==
    ASSUME Links, Agree \/ Astray \/ Doomed, SchedAdd
    PROVE  ContextInv'
<1> DEFINE l == IF cpu.at = "add" THEN "ret" ELSE "cmd"
<1>1. /\ ~walking /\ cpu.at \in {"add", "addk"} /\ cpu.at \in ConsoleAt
      /\ l \in {"ret", "cmd"} /\ l \in ConsoleAt /\ Goto(l)
      /\ n_proc' = n_proc + 1 /\ prec' = AddedPrec /\ next' = AddedNext
      /\ UNCHANGED <<pstate, threads, thread_list, pdir, tnext, tprec, parent,
                      esp_kernel, pid, walking, esp0, current_dir, list, proc, procn, cur, app>>
  BY DEF SchedAdd, Running, ConsoleAt, procData, ringVars, cpuVars, locals
<1>2. OnConsole /\ ((list = Console /\ Ordered) \/ Astray)
  BY <1>1, ConsoleState
<1>3. /\ MainOf(proc) /\ proc \notin InRing /\ pstate[proc] = "ACTIVE" /\ \A p \in InRing : p < proc
  BY <1>1, <1>2 DEF OnConsole, Facts
<1>4. list \in InRing /\ next[list] \in InRing /\ InRing \subseteq Tid /\ proc \in Tid \ {Console}
  BY <1>2, <1>3 DEF OnConsole, Links, ProcLinks, InRing, MainOf
<1>5. /\ \A p \in Tid : next'[p] = IF p = list THEN proc ELSE IF p = proc THEN next[list] ELSE next[p]
      /\ next' \in [Tid -> Ptr]
  BY <1>1, <1>3, <1>4 DEF AddedNext, Links, LinkTypes
<1>6. /\ \A p \in Tid : prec'[p] = IF p = next[list] THEN proc ELSE IF p = proc THEN list ELSE prec[p]
      /\ prec' \in [Tid -> Ptr]
  BY <1>1, <1>3, <1>4 DEF AddedPrec, Links, LinkTypes
<1>7. InRing' = InRing \cup {proc}
  <2>1. \A p \in Tid : next'[p] # NULL <=> (next[p] # NULL \/ p = proc)
    BY <1>4, <1>5 DEF InRing
  <2>2. QED BY <1>4, <2>1 DEF InRing
<1> HIDE DEF l
<1>8. cpu' \in Context /\ cpu'.at = l /\ cpu'.owner = Console
  BY <1>1, <1>2 DEF Goto, OnConsole, Links, LinkTypes, Context, Label
<1>9. Links'
  <2>1. LinkTypes'
    <3>1. LinkTypes
      BY <1>2 DEF OnConsole, Links
    <3>2. n_proc' \in Int
      BY ONLY <1>1, <3>1 DEF LinkTypes
    <3>3. next' \in [Tid -> Ptr] /\ prec' \in [Tid -> Ptr] /\ cpu' \in Context
      BY ONLY <1>5, <1>6, <1>8
    <3>4. UNCHANGED <<list, pid, walking, thread_list, tnext, tprec, parent, threads, pdir, pstate, esp_kernel>>
      BY ONLY <1>1
    <3>5. QED BY ONLY <3>1, <3>2, <3>3, <3>4 DEF LinkTypes
  <2>2. ConsoleOwn' /\ ThreadLinks' /\ ThreadLists'
    BY <1>1 DEF Links, ConsoleOwn, ThreadLinks, ThreadLists, Made
  <2>3. ProcLinks'
    BY <1>1, <1>3, <1>4, <1>5, <1>6, <1>7 DEF Links, ProcLinks, Made, MainOf
  <2>4. Unused'
    BY <1>1, <1>3, <1>4, <1>5 DEF Links, Unused, Made, InRing, MainOf
  <2>5. QED BY <2>1, <2>2, <2>3, <2>4 DEF Links
<1>10. OnConsole'
  <2>1. SavedContextOwn' /\ SavedAt(NULL)'
    BY <1>1, <1>2 DEF OnConsole, SavedContextOwn, SavedAt, Made
  <2>2. Facts(cpu.at)'
    BY <1>1, <1>4, <1>7, <1>8 DEF Facts, LoopAt, Unlinking
  <2>3. QED BY <1>1, <1>2, <1>7, <1>8, <2>1, <2>2 DEF OnConsole
<1>11. CASE list = Console /\ Ordered
  <2>1. ASSUME NEW p \in InRing' \ {Console}
        PROVE  next'[p] < p /\ (prec'[p] = Console \/ prec'[p] > p)
    <3>1. CASE p = proc
      BY <1>3, <1>4, <1>5, <1>6, <1>11, <3>1
    <3>2. CASE p \in InRing
      <4>1. next[p] < p /\ (prec[p] = Console \/ prec[p] > p) /\ p < proc /\ p \in Tid
        BY <1>3, <1>4, <1>11, <2>1, <3>2 DEF Ordered
      <4>2. QED BY <1>4, <1>5, <1>6, <1>11, <2>1, <4>1
    <3>3. QED BY <1>7, <2>1, <3>1, <3>2
  <2>2. Ordered'
    BY <2>1 DEF Ordered
  <2>3. QED BY <1>1, <1>9, <1>10, <1>11, <2>2, ConsoleAgrees
<1>12. CASE Astray
  <2>1. list # Console /\ cur # NULL /\ cpu.at = "add" /\ Ordered /\ l = "ret"
    BY <1>1, <1>12 DEF Astray, AstrayAt, AddedAt, LoopAt, Unlinking, l
  <2>2. next[list] < list /\ list < proc
    BY <1>3, <1>4, <2>1 DEF Ordered
  <2>3. next'[list] = proc /\ next'[proc] = next[list] /\ proc # list
    BY <1>3, <1>4, <1>5
  <2>4. ASSUME NEW p \in InRing' \ {Console, list} PROVE next'[p] < p
    <3>1. CASE p = proc
      <4>1. next[list] \in Tid /\ list \in Tid /\ proc \in Tid
        BY <1>4
      <4>2. QED BY <2>2, <2>3, <3>1, <4>1
    <3>2. CASE p \in InRing
      BY <1>3, <1>4, <1>5, <2>1, <2>4, <3>2 DEF Ordered
    <3>3. QED BY <1>7, <2>4, <3>1, <3>2
  <2>5. Falling(list)'
    BY <1>1, <2>4 DEF Falling
  <2>6. Astray'
    BY <1>1, <1>3, <1>8, <1>10, <2>1, <2>2, <2>3, <2>5 DEF Astray, AddedAt, AstrayAt, LoopAt, Unlinking
  <2>7. QED BY <1>9, <2>6 DEF ContextInv
<1>13. QED BY <1>2, <1>11, <1>12

(* A new process, not linked yet.                                          *)
LEMMA BuildLinks ==
    ASSUME Links, OnConsole, pid \in Tid, NEW dir \in Ptr, NEW l \in OthersAt, BuildProc(pid, dir, l), cpu' \in Context,
           UNCHANGED <<list, n_proc, next, prec, walking>>
    PROVE  /\ Links' /\ InRing' = InRing /\ MainOf(proc)' /\ proc' \notin InRing' /\ pstate'[proc'] = "ACTIVE"
           /\ \A p \in InRing' : p < proc'
           /\ SavedContextOwn' /\ SavedAt(NULL)' /\ esp_kernel'[Console] = esp_kernel[Console]
<1>1. /\ pid' = pid + 1 /\ proc' = pid /\ pid \in Tid \ {Console} /\ l \in Label
      /\ [owner |-> pid, at |-> l] # NoContext /\ [owner |-> pid, at |-> l] \in Context
  BY DEF BuildProc, CreateThread, Links, LinkTypes, OthersAt, UserAt, Label, NoContext, Context
<1>2. /\ \A t \in Tid \ {pid} : /\ parent'[t] = parent[t] /\ tnext'[t] = tnext[t] /\ tprec'[t] = tprec[t]
                                /\ thread_list'[t] = thread_list[t] /\ esp_kernel'[t] = esp_kernel[t]
                                /\ pstate'[t] = pstate[t] /\ pdir'[t] = pdir[t]
      /\ parent'[pid] = pid /\ tnext'[pid] = pid /\ tprec'[pid] = pid /\ thread_list'[pid] = pid
      /\ esp_kernel'[pid] = [owner |-> pid, at |-> l] /\ pstate'[pid] = "ACTIVE"
  BY DEF BuildProc, CreateThread, Links, LinkTypes
<1>3. LinkTypes'
  <2>1. /\ parent' \in [Tid -> Ptr] /\ tnext' \in [Tid -> Ptr] /\ tprec' \in [Tid -> Ptr]
        /\ thread_list' \in [Tid -> Ptr] /\ pdir' \in [Tid -> Ptr] /\ threads' \in [Tid -> Nat]
        /\ pid' \in 2..(MaxPid + 1)
    BY <1>1 DEF BuildProc, CreateThread, Links, LinkTypes
  <2>2. esp_kernel' \in [Tid -> Context] /\ pstate' \in [Tid -> {"none", "NEW", "ACTIVE", "STOPPED", "freed"}]
    BY <1>1 DEF BuildProc, Links, LinkTypes
  <2>3. QED BY <2>1, <2>2 DEF Links, LinkTypes
<1>4. /\ \A t \in Tid \ {pid} : Made(t)' <=> Made(t)
      /\ esp_kernel'[pid] # NoContext /\ ~Made(pid) /\ next[pid] = NULL
  BY <1>1, <1>2 DEF Made, Links, LinkTypes, Unused
<1>5. InRing' = InRing /\ pid \notin InRing /\ \A p \in InRing : p < pid
  <2>1. InRing' = InRing /\ pid \notin InRing
    BY <1>4 DEF InRing
  <2>2. pid \in Int /\ \A p \in Tid : p >= pid => next[p] = NULL
    BY <1>1 DEF Links, Unused
  <2>3. \A p \in InRing : p < pid
    BY <2>2 DEF InRing
  <2>4. QED BY <2>1, <2>3
<1>6. ConsoleOwn'
  BY <1>1, <1>2, <1>4 DEF Links, ConsoleOwn
<1>7. ThreadLinks'
  <2>1. ASSUME NEW t \in Tid, Made(t)'
        PROVE  /\ parent'[t] \in Tid /\ (parent'[t] = Console => t = Console)
               /\ tnext'[t] \in Tid /\ Made(tnext[t])' /\ parent'[tnext'[t]] = parent'[t]
               /\ tprec'[t] \in Tid /\ Made(tprec[t])' /\ parent'[tprec'[t]] = parent'[t]
    <3>1. CASE t = pid
      BY <1>1, <1>2, <1>4, <3>1 DEF Made
    <3>2. CASE t # pid
      <4>1. /\ Made(t) /\ parent[t] \in Tid /\ (parent[t] = Console => t = Console)
            /\ tnext[t] \in Tid /\ Made(tnext[t]) /\ parent[tnext[t]] = parent[t]
            /\ tprec[t] \in Tid /\ Made(tprec[t]) /\ parent[tprec[t]] = parent[t]
        BY <1>4, <2>1, <3>2 DEF Links, ThreadLinks
      <4>2. tnext[t] # pid /\ tprec[t] # pid
        BY <1>4, <4>1
      <4>3. tnext'[t] = tnext[t] /\ tprec'[t] = tprec[t] /\ parent'[t] = parent[t]
        BY <1>2, <3>2
      <4>4. QED BY <1>2, <4>1, <4>2, <4>3 DEF Made
    <3>3. QED BY <3>1, <3>2
  <2>2. QED BY <2>1 DEF ThreadLinks
<1>8. ThreadLists'
  <2>1. ASSUME NEW p \in Tid, Made(p)', parent'[p] = p
        PROVE  thread_list'[p] \in Tid /\ Made(thread_list[p])' /\ parent'[thread_list'[p]] = p
    <3>1. CASE p = pid
      BY <1>1, <1>2, <1>4, <3>1 DEF Made
    <3>2. CASE p # pid
      <4>1. thread_list[p] \in Tid /\ Made(thread_list[p]) /\ parent[thread_list[p]] = p
        BY <1>2, <1>4, <2>1, <3>2 DEF Links, ThreadLists
      <4>2. thread_list[p] # pid /\ thread_list'[p] = thread_list[p]
        BY <1>2, <1>4, <3>2, <4>1
      <4>3. QED BY <1>2, <4>1, <4>2 DEF Made
    <3>3. QED BY <3>1, <3>2
  <2>2. QED BY <2>1 DEF ThreadLists
<1>9. ProcLinks'
  BY <1>2, <1>4, <1>5 DEF Links, ProcLinks, InRing
<1>10. Unused'
  BY <1>1, <1>2, <1>4 DEF Links, Unused, LinkTypes
<1>11. SavedContextOwn' /\ SavedAt(NULL)'
  <2>1. SavedContextOwn'
    BY <1>2 DEF OnConsole, SavedContextOwn
  <2>2. ASSUME NEW t \in Tid \ {Console}, Made(t)' PROVE esp_kernel'[t].at \in OthersAt
    <3>1. CASE t = pid
      BY <1>2, <3>1
    <3>2. CASE t # pid
      <4>1. Made(t) /\ parent[t] # NULL
        BY <1>4, <2>2, <3>2 DEF Links, ThreadLinks
      <4>2. QED BY <1>2, <3>2, <4>1 DEF OnConsole, SavedAt
    <3>3. QED BY <3>1, <3>2
  <2>3. QED BY <2>1, <2>2 DEF SavedAt
<1>12. QED BY <1>1, <1>2, <1>3, <1>4, <1>5, <1>6, <1>7, <1>8, <1>9, <1>10, <1>11 DEF Links, MainOf, Made

(* start_proc builds a process whose pid is above all those in the ring.   *)
LEMMA StartProcContext ==
    ASSUME Links, Agree \/ Astray \/ Doomed, StartProc
    PROVE  ContextInv'
<1>1. /\ ~walking /\ cpu.at = "cmd" /\ cpu.at \in ConsoleAt /\ cpu.at \in AstrayAt /\ "add" \in AstrayAt
      /\ Goto("add") /\ BuildProc(pid, pid, "user") /\ pid <= MaxPid
      /\ UNCHANGED <<next, prec, list, n_proc, walking, esp0, current_dir, cur>>
  BY DEF StartProc, Running, ConsoleAt, AstrayAt, procVars, cpuVars
<1>2. OnConsole /\ Ordered /\ (list # Console => cur # NULL)
  BY <1>1, ConsoleState DEF Astray
<1>3. pid \in Tid /\ pid \in Ptr /\ "user" \in OthersAt
  BY <1>1 DEF Links, LinkTypes, OthersAt, UserAt
<1>4. cpu' \in Context /\ cpu'.at = "add" /\ cpu'.owner = Console
  BY <1>1, <1>2 DEF Goto, OnConsole, Links, LinkTypes, Context, Label, ConsoleAt
<1>5. /\ Links' /\ InRing' = InRing /\ MainOf(proc)' /\ proc' \notin InRing' /\ pstate'[proc'] = "ACTIVE"
      /\ \A p \in InRing' : p < proc'
      /\ SavedContextOwn' /\ SavedAt(NULL)' /\ esp_kernel'[Console] = esp_kernel[Console]
  BY <1>1, <1>2, <1>3, <1>4, BuildLinks
<1>6. Facts(cpu.at)'
  BY <1>4, <1>5 DEF Facts, LoopAt, Unlinking
<1>7. OnConsole'
  BY <1>1, <1>2, <1>4, <1>5, <1>6 DEF OnConsole, ConsoleAt
<1>8. Ordered'
  BY <1>1, <1>2, <1>5 DEF Ordered
<1>9. QED BY <1>1, <1>2, <1>4, <1>5, <1>7, <1>8, ConsoleJoins

(* main_proc in GUI mode builds the draw thread, or does without it.       *)
LEMMA BootGuiContext ==
    ASSUME Links, Agree \/ Astray \/ Doomed, BootGui
    PROVE  ContextInv'
<1>1. /\ ~walking /\ cpu.at = "boot" /\ cpu.at \in ConsoleAt /\ "cmd" \in ConsoleAt /\ "addk" \in ConsoleAt
      /\ UNCHANGED <<next, prec, list, n_proc, walking, esp0, current_dir, cur, procn, app>>
  BY DEF BootGui, Running, ConsoleAt, procVars, cpuVars
<1>2. OnConsole /\ list = Console /\ Ordered
  BY <1>1, ConsoleState DEF Astray, AstrayAt, AddedAt, LoopAt, Unlinking
<1>3. CASE BuildProc(pid, KernDir, "draw") /\ Goto("addk")
  <2>1. pid = 2 /\ pid \in Tid /\ KernDir \in Ptr /\ "draw" \in OthersAt
    BY <1>1, <1>2 DEF OnConsole, Facts, OthersAt
  <2>2. cpu' \in Context /\ cpu'.at = "addk" /\ cpu'.owner = Console
    BY <1>1, <1>2, <1>3 DEF Goto, OnConsole, Links, LinkTypes, Context, Label, ConsoleAt
  <2>3. /\ Links' /\ InRing' = InRing /\ MainOf(proc)' /\ proc' \notin InRing' /\ pstate'[proc'] = "ACTIVE"
        /\ \A p \in InRing' : p < proc'
        /\ SavedContextOwn' /\ SavedAt(NULL)' /\ esp_kernel'[Console] = esp_kernel[Console]
    BY <1>1, <1>2, <1>3, <2>1, <2>2, BuildLinks
  <2>4. Facts(cpu.at)'
    BY <2>2, <2>3 DEF Facts, LoopAt, Unlinking
  <2>5. OnConsole'
    BY <1>1, <1>2, <2>2, <2>3, <2>4 DEF OnConsole
  <2>6. Ordered'
    BY <1>1, <1>2, <2>3 DEF Ordered
  <2>7. QED BY <1>1, <1>2, <2>3, <2>5, <2>6, ConsoleAgrees
<1>4. CASE Goto("cmd") /\ UNCHANGED <<procData, thread_list, ringVars, esp_kernel, pid, proc>>
  <2>1. Facts("cmd")'
    BY DEF Facts, LoopAt, Unlinking
  <2>2. n_proc' \in Int /\ list' \in InRing
    BY <1>1, <1>2 DEF OnConsole, Links, LinkTypes
  <2>3. QED BY <1>1, <1>2, <1>4, <2>1, <2>2, ConsoleGoes DEF procData, ringVars
<1>5. QED BY <1>3, <1>4 DEF BootGui

(* Threads below pid keep what they have when the thread pid is entered.   *)
LEMMA FreshLinks ==
    ASSUME Links, pid \in Tid, pid' = pid + 1, NEW p \in Ptr, parent' = [parent EXCEPT ![pid] = p],
           \/ UNCHANGED <<tnext, tprec, thread_list, pstate>>
           \/ /\ tnext' = [tnext EXCEPT ![pid] = pid] /\ tprec' = [tprec EXCEPT ![pid] = pid]
              /\ thread_list' = [thread_list EXCEPT ![pid] = pid] /\ pstate' = [pstate EXCEPT ![pid] = "NEW"],
           UNCHANGED <<list, n_proc, next, prec, threads, pdir, esp_kernel, cpu, walking>>
    PROVE  Links' /\ InRing' = InRing /\ pid # Console
           /\ \A t \in Tid : Made(t) => t # pid /\ parent'[t] = parent[t] /\ pstate'[t] = pstate[t]
<1>1. pid \in Tid \ {Console} /\ ~Made(pid) /\ next[pid] = NULL
  BY DEF Links, LinkTypes, Unused
<1>2. /\ \A t \in Tid \ {pid} : /\ parent'[t] = parent[t] /\ tnext'[t] = tnext[t] /\ tprec'[t] = tprec[t]
                                /\ thread_list'[t] = thread_list[t] /\ pstate'[t] = pstate[t]
  BY DEF Links, LinkTypes
<1>3. LinkTypes'
  <2>1. parent' \in [Tid -> Ptr] /\ pid' \in 2..(MaxPid + 1)
    BY DEF Links, LinkTypes
  <2>2. tnext' \in [Tid -> Ptr] /\ tprec' \in [Tid -> Ptr] /\ thread_list' \in [Tid -> Ptr]
    <3>1. tnext' \in [Tid -> Ptr]
      BY DEF Links, LinkTypes
    <3>2. tprec' \in [Tid -> Ptr]
      BY DEF Links, LinkTypes
    <3>3. thread_list' \in [Tid -> Ptr]
      BY DEF Links, LinkTypes
    <3>4. QED BY <3>1, <3>2, <3>3
  <2>3. pstate' \in [Tid -> {"none", "NEW", "ACTIVE", "STOPPED", "freed"}]
    BY DEF Links, LinkTypes
  <2>4. QED BY <2>1, <2>2, <2>3 DEF Links, LinkTypes
<1>4. InRing' = InRing /\ pid \notin InRing /\ \A t \in Tid : Made(t)' <=> Made(t)
  BY <1>1 DEF InRing, Made
<1>5. ConsoleOwn'
  BY <1>1, <1>2, <1>4 DEF Links, ConsoleOwn
<1>6. ThreadLinks'
  <2>1. ASSUME NEW t \in Tid, Made(t)
        PROVE  /\ parent'[t] \in Tid /\ (parent'[t] = Console => t = Console)
               /\ tnext'[t] \in Tid /\ Made(tnext'[t]) /\ parent'[tnext'[t]] = parent'[t]
               /\ tprec'[t] \in Tid /\ Made(tprec'[t]) /\ parent'[tprec'[t]] = parent'[t]
    <3>1. /\ t # pid /\ parent[t] \in Tid /\ (parent[t] = Console => t = Console)
          /\ tnext[t] \in Tid /\ Made(tnext[t]) /\ parent[tnext[t]] = parent[t]
          /\ tprec[t] \in Tid /\ Made(tprec[t]) /\ parent[tprec[t]] = parent[t]
      BY <1>1, <2>1 DEF Links, ThreadLinks
    <3>2. tnext[t] # pid /\ tprec[t] # pid
      BY <1>1, <3>1
    <3>3. QED BY <1>2, <3>1, <3>2
  <2>2. QED BY <2>1 DEF ThreadLinks, Made
<1>7. ThreadLists'
  <2>1. ASSUME NEW q \in Tid, Made(q), parent'[q] = q
        PROVE  thread_list'[q] \in Tid /\ Made(thread_list'[q]) /\ parent'[thread_list'[q]] = q
    <3>1. q # pid /\ thread_list[q] \in Tid /\ Made(thread_list[q]) /\ parent[thread_list[q]] = q
      BY <1>1, <1>2, <2>1 DEF Links, ThreadLists
    <3>2. thread_list[q] # pid
      BY <1>1, <3>1
    <3>3. QED BY <1>2, <3>1, <3>2
  <2>2. QED BY <2>1 DEF ThreadLists, Made
<1>8. ProcLinks'
  BY <1>1, <1>2, <1>4 DEF Links, ProcLinks, InRing
<1>9. Unused'
  BY <1>4 DEF Links, Unused, LinkTypes
<1>10. QED BY <1>1, <1>2, <1>3, <1>4, <1>5, <1>6, <1>7, <1>8, <1>9 DEF Links

(* A start_proc that fails leaves structures that nothing leads to.        *)
LEMMA StartProcFailsContext ==
    ASSUME Links, Agree \/ Astray \/ Doomed, StartProcFails
    PROVE  ContextInv'
<1>1. /\ ~walking /\ cpu.at = "cmd" /\ cpu.at \in ConsoleAt /\ cpu.at \in AstrayAt /\ pid <= MaxPid
      /\ pid' = pid + 1 /\ parent' = [parent EXCEPT ![pid] = pid]
      /\ tnext' = [tnext EXCEPT ![pid] = pid] /\ tprec' = [tprec EXCEPT ![pid] = pid]
      /\ thread_list' = [thread_list EXCEPT ![pid] = pid] /\ pstate' = [pstate EXCEPT ![pid] = "NEW"]
      /\ UNCHANGED <<list, n_proc, next, prec, threads, pdir, esp_kernel, cpu, walking,
                      esp0, current_dir, cur>>
  BY DEF StartProcFails, CreateThread, Running, ConsoleAt, AstrayAt, procVars, cpuVars, locals
<1>2. OnConsole /\ Ordered /\ (list # Console => cur # NULL)
  BY <1>1, ConsoleState DEF Astray
<1>3. pid \in Tid /\ pid \in Ptr
  BY <1>1 DEF Links, LinkTypes
<1>4. /\ Links' /\ InRing' = InRing
      /\ \A t \in Tid : Made(t) => t # pid /\ parent'[t] = parent[t] /\ pstate'[t] = pstate[t]
  BY <1>1, <1>3, FreshLinks
<1>5. Facts(cpu.at)'
  BY <1>1 DEF Facts, LoopAt, Unlinking
<1>6. SavedContextOwn' /\ SavedAt(NULL)'
  <2>1. SavedContextOwn'
    BY <1>1, <1>2 DEF OnConsole, SavedContextOwn
  <2>2. SavedAt(NULL)'
    BY <1>1, <1>2, <1>4 DEF OnConsole, SavedAt, Made
  <2>3. QED BY <2>1, <2>2
<1>7. OnConsole'
  BY <1>1, <1>2, <1>4, <1>5, <1>6 DEF OnConsole
<1>8. Ordered'
  BY <1>1, <1>2, <1>4 DEF Ordered
<1>9. QED BY <1>1, <1>2, <1>4, <1>7, <1>8, ConsoleJoins

-----------------------------------------------------------------------------
(* The timer                                                               *)

(* Nothing that the invariant is about changes.                            *)
LEMMA SameContext ==
    ASSUME Links, Agree \/ Astray \/ Doomed,
           UNCHANGED <<list, n_proc, next, prec, pstate, threads, thread_list, pdir, tnext, tprec, parent,
                       esp_kernel, pid, cpu, walking, esp0, current_dir, proc, procn, cur, app>>
    PROVE  ContextInv'
<1>1. Links' /\ InRing' = InRing
  BY LinksSame DEF Links, LinkTypes
<1>2. (SavedContextOwn => SavedContextOwn') /\ (Ordered => Ordered') /\ (SavedAt(NULL) => SavedAt(NULL)')
  BY <1>1 DEF SavedContextOwn, Ordered, SavedAt, Made
<1>3. (Facts(ConsoleIs) => Facts(ConsoleIs)') /\ (Facts(cpu.at) => Facts(cpu.at)')
  BY <1>1 DEF Facts, ConsoleIs, MainOf, Made
<1>4. ASSUME Agree PROVE Agree'
  BY <1>1, <1>2, <1>3, <1>4 DEF Agree, CurThread
<1>5. ASSUME Astray PROVE Astray'
  <2>1. OnConsole'
    BY <1>1, <1>2, <1>3, <1>5 DEF Astray, OnConsole
  <2>2. Falling(list) => Falling(list)'
    BY <1>1 DEF Falling
  <2>3. QED BY <1>1, <1>2, <1>5, <2>1, <2>2 DEF Astray
<1>6. ASSUME Doomed PROVE Doomed'
  BY <1>1, <1>6 DEF Doomed, Falling, SavedAt, Made
<1>7. QED BY <1>1, <1>4, <1>5, <1>6 DEF ContextInv

(* A tick within the slice.                                                *)
LEMMA TickQuietContext ==
    ASSUME Links, Agree \/ Astray \/ Doomed, TickQuiet
    PROVE  ContextInv'
  BY SameContext DEF TickQuiet, procVars, procData, ringVars, cpuVars, locals

(* Whatever runs, but for the undefined, is somewhere known.               *)
LEMMA RunsAt ==
    ASSUME Links, Agree \/ Astray \/ Doomed, ~walking
    PROVE  cpu.at \in ConsoleAt \cup OthersAt /\ list \in InRing
  BY DEF Agree, Astray, OnConsole, Doomed

(* The switch keeps the links, and saves in the current thread.            *)
LEMMA SwitchLinks ==
    ASSUME Links, list \in InRing, cpu.at \in ConsoleAt \cup OthersAt, TickSwitch
    PROVE  /\ Links' /\ InRing' = InRing /\ list' = next[list] /\ list' \in InRing /\ walking'
           /\ CurThread \in Tid /\ Made(CurThread) /\ parent[CurThread] = list
           /\ esp_kernel'[CurThread] = cpu
           /\ \A t \in Tid : (t # CurThread => esp_kernel'[t] = esp_kernel[t]) /\ (Made(t)' <=> Made(t))
<1> DEFINE c == CurThread
<1>1. c \in Tid /\ Made(c) /\ parent[c] = list
  BY DEF Links, ThreadLists, ProcLinks, CurThread, InRing
<1>2. tnext[c] \in Tid /\ Made(tnext[c]) /\ parent[tnext[c]] = list
  BY <1>1 DEF Links, ThreadLinks
<1>3. /\ esp_kernel' = [esp_kernel EXCEPT ![c] = cpu] /\ list' = next[list] /\ walking' = TRUE
      /\ thread_list' = [thread_list EXCEPT ![list] = tnext[c]]
      /\ UNCHANGED <<n_proc, next, prec, pstate, threads, pdir, tnext, tprec, parent, pid, cpu>>
  BY DEF TickSwitch, SaveSlot, NextThread, procData, ringVars
<1> HIDE DEF c
<1>4. cpu # NoContext /\ cpu \in Context
  BY DEF NoContext, ConsoleAt, OthersAt, UserAt, Unlinking, Links, LinkTypes
<1>5. /\ esp_kernel' \in [Tid -> Context] /\ esp_kernel'[c] = cpu
      /\ \A t \in Tid : t # c => esp_kernel'[t] = esp_kernel[t]
  BY <1>1, <1>3, <1>4 DEF Links, LinkTypes
<1>6. /\ thread_list' \in [Tid -> Ptr]
      /\ \A p \in Tid : thread_list'[p] = IF p = list THEN tnext[c] ELSE thread_list[p]
  BY <1>2, <1>3 DEF Links, LinkTypes
<1>7. \A t \in Tid : Made(t)' <=> Made(t)
  BY <1>1, <1>4, <1>5 DEF Made
<1>8. InRing' = InRing /\ list' \in InRing /\ list' \in Tid
  BY <1>3 DEF InRing, Links, ProcLinks
<1>9. LinkTypes'
  BY <1>3, <1>4, <1>5, <1>6, <1>8 DEF Links, LinkTypes
<1>10. ConsoleOwn'
  <2>1. list = Console => c = Console
    BY <1>1 DEF Links, ThreadLinks
  <2>2. thread_list'[Console] = Console
    BY <1>6, <2>1 DEF Links, ConsoleOwn
  <2>3. QED BY <1>3, <1>7, <2>2 DEF Links, ConsoleOwn
<1>11. ThreadLinks'
  <2>1. ASSUME NEW t \in Tid, Made(t)
        PROVE  /\ parent[t] \in Tid /\ (parent[t] = Console => t = Console)
               /\ tnext[t] \in Tid /\ Made(tnext[t])' /\ parent[tnext[t]] = parent[t]
               /\ tprec[t] \in Tid /\ Made(tprec[t])' /\ parent[tprec[t]] = parent[t]
    <3>1. /\ parent[t] \in Tid /\ (parent[t] = Console => t = Console)
          /\ tnext[t] \in Tid /\ Made(tnext[t]) /\ parent[tnext[t]] = parent[t]
          /\ tprec[t] \in Tid /\ Made(tprec[t]) /\ parent[tprec[t]] = parent[t]
      BY <2>1 DEF Links, ThreadLinks
    <3>2. esp_kernel'[tnext[t]] # NoContext /\ esp_kernel'[tprec[t]] # NoContext
      BY <1>7, <3>1 DEF Made
    <3>3. QED BY <1>3, <3>1, <3>2 DEF Made
  <2>2. QED BY <1>3, <1>7, <2>1 DEF ThreadLinks
<1>12. ThreadLists'
  <2>1. ASSUME NEW p \in Tid, Made(p), parent[p] = p
        PROVE  thread_list'[p] \in Tid /\ esp_kernel'[thread_list'[p]] # NoContext /\ parent[thread_list'[p]] = p
    <3>1. thread_list[p] \in Tid /\ Made(thread_list[p]) /\ parent[thread_list[p]] = p
      BY <2>1 DEF Links, ThreadLists
    <3>2. QED BY <1>2, <1>6, <1>7, <3>1 DEF Made
  <2>2. QED BY <1>3, <1>7, <2>1 DEF ThreadLists, Made
<1>13. ProcLinks' /\ Unused'
  BY <1>3, <1>7, <1>8 DEF Links, ProcLinks, Unused, InRing
<1>14. QED
  BY <1>1, <1>3, <1>5, <1>7, <1>8, <1>9, <1>10, <1>11, <1>12, <1>13 DEF Links, c

(* The tick that ends a slice saves the CPU's context in the current       *)
(* thread: its own when they agree, the console's in another process when  *)
(* astray.                                                                 *)
LEMMA TickSwitchContext ==
    ASSUME Links, Agree \/ Astray \/ Doomed, TickSwitch
    PROVE  ContextInv'
<1> DEFINE c == CurThread
<1>1. /\ ~walking
      /\ UNCHANGED <<next, prec, pstate, pdir, parent, pid, cpu, esp0, current_dir, proc, procn, cur, app>>
  BY DEF TickSwitch, procData, ringVars, locals
<1>2. cpu.at \in ConsoleAt \cup OthersAt /\ list \in InRing
  BY <1>1, RunsAt
<1>3. /\ Links' /\ InRing' = InRing /\ list' = next[list] /\ list' \in InRing /\ walking'
      /\ c \in Tid /\ Made(c) /\ parent[c] = list /\ esp_kernel'[c] = cpu
      /\ \A t \in Tid : (t # c => esp_kernel'[t] = esp_kernel[t]) /\ (Made(t)' <=> Made(t))
  BY <1>2, SwitchLinks
<1>4. InRing \subseteq Tid /\ parent[Console] = Console
  BY DEF InRing, Links, ConsoleOwn
<1>5. CASE Agree
  <2>1. /\ c = cpu.owner /\ (c # Console => cpu.at \in OthersAt) /\ (c = Console => cpu.at \in ConsoleAt)
        /\ SavedContextOwn /\ SavedAt(NULL) /\ esp_kernel[Console].at \in ConsoleAt
        /\ Facts(ConsoleIs) /\ Ordered
    BY <1>1, <1>5 DEF Agree
  <2> HIDE DEF c
  <2>2. SavedContextOwn'
    BY <1>3, <2>1 DEF SavedContextOwn
  <2>3. SavedAt(NULL)'
    BY <1>1, <1>3, <2>1 DEF SavedAt
  <2>4. esp_kernel'[Console].at \in ConsoleAt
    BY <1>3, <2>1
  <2>5. ConsoleIs' = ConsoleIs
    BY <1>1, <1>3, <2>1 DEF ConsoleIs
  <2>6. Facts(ConsoleIs)'
    BY <1>1, <1>3, <2>1, <2>5 DEF Facts, MainOf
  <2>7. Ordered'
    BY <1>1, <1>3, <2>1 DEF Ordered
  <2>8. Agree'
    BY <1>3, <2>2, <2>3, <2>4, <2>6, <2>7 DEF Agree
  <2>9. QED BY <1>3, <2>8 DEF ContextInv
<1>6. CASE Astray
  <2>1. /\ cpu.owner = Console /\ list # Console /\ cur # NULL /\ SavedAt(NULL)
        /\ Falling(list) /\ next[list] # list /\ (next[list] < list \/ next[next[list]] < list)
    <3>1. CASE cpu.at \in AddedAt
      BY <1>6, <3>1 DEF Astray, OnConsole
    <3>2. CASE cpu.at \in AstrayAt
      <4>1. Ordered /\ list \in InRing \ {Console}
        BY <1>2, <1>6, <3>2 DEF Astray
      <4>2. Falling(list) /\ next[list] < list
        BY <4>1 DEF Ordered, Falling
      <4>3. next[list] # list
        BY <1>4, <4>1, <4>2
      <4>4. QED BY <1>6, <4>2, <4>3 DEF Astray, OnConsole
    <3>3. QED BY <1>6, <3>1, <3>2 DEF Astray
  <2>2. c # Console /\ esp_kernel'[c].owner = Console
    BY <1>3, <1>4, <2>1
  <2> HIDE DEF c
  <2>4. ASSUME NEW t \in Tid \ {Console}, Made(t)', parent[t] # list PROVE esp_kernel'[t].at \in OthersAt
    <3>1. t # c /\ Made(t) /\ parent[t] # NULL
      BY <1>3, <2>4 DEF Links, ThreadLinks
    <3>2. QED BY <1>3, <2>1, <3>1 DEF SavedAt
  <2>5. \E u \in Tid \ {Console} :
           /\ esp_kernel'[u].owner = Console /\ cur' # NULL
           /\ list' \in InRing' /\ list' # parent'[u] /\ (list' < parent'[u] \/ next'[list'] < parent'[u])
           /\ (\A p \in InRing' \ {Console, parent'[u]} : next'[p] < p)
           /\ (\A t \in Tid \ {Console} : Made(t)' /\ parent'[t] # parent'[u] => esp_kernel'[t].at \in OthersAt)
    <3>1. \A p \in InRing \ {Console, list} : next[p] < p
      BY <2>1 DEF Falling
    <3>2. QED BY <1>1, <1>3, <2>1, <2>2, <2>4, <3>1
  <2>6. Doomed'
    BY <1>3, <2>5 DEF Doomed, Falling, SavedAt
  <2>7. QED BY <1>3, <2>6 DEF ContextInv
<1>7. CASE Doomed
  <2>1. PICK u \in Tid \ {Console} :
           /\ esp_kernel[u].owner = Console /\ cur # NULL
           /\ list # parent[u] /\ (list < parent[u] \/ next[list] < parent[u])
           /\ Falling(parent[u]) /\ SavedAt(parent[u]) /\ list # Console /\ cpu.at \in OthersAt
    BY <1>1, <1>7 DEF Doomed
  <2>2. Made(u) /\ parent[u] \in Tid
    BY <2>1 DEF Made, NoContext, Links, ThreadLinks
  <2>3. next[list] < parent[u] /\ next[list] \in Tid
    <3>1. next[list] < list /\ next[list] \in Tid /\ list \in Tid
      BY <1>2, <1>3, <1>4, <2>1 DEF Falling
    <3>2. QED BY <2>1, <2>2, <3>1
  <2>4. u # c
    BY <1>3, <2>1
  <2> HIDE DEF c
  <2>5. Falling(parent[u])' /\ SavedAt(parent[u])'
    <3>1. Falling(parent[u])'
      BY <1>1, <1>3, <2>1 DEF Falling
    <3>2. SavedAt(parent[u])'
      BY <1>1, <1>3, <2>1 DEF SavedAt
    <3>3. QED BY <3>1, <3>2
  <2>6. Doomed'
    BY <1>1, <1>3, <2>1, <2>2, <2>3, <2>4, <2>5 DEF Doomed
  <2>7. QED BY <1>3, <2>6 DEF ContextInv
<1>8. QED BY <1>5, <1>6, <1>7

(* Skipping a stopped process goes down the ring.                          *)
LEMMA SchedWalkContext ==
    ASSUME Links, Agree \/ Astray \/ Doomed, SchedWalk
    PROVE  ContextInv'
<1>1. /\ walking /\ walking' = walking /\ pstate[list] = "STOPPED" /\ list' = next[list]
      /\ UNCHANGED <<n_proc, next, prec, pstate, threads, thread_list, pdir, tnext, tprec, parent,
                      esp_kernel, pid, cpu, esp0, current_dir, proc, procn, cur, app>>
  BY DEF SchedWalk, procData, ringVars, cpuVars, locals
<1>2. Agree \/ Doomed
  BY <1>1 DEF Astray, OnConsole
<1>3. list \in InRing /\ list' \in InRing /\ InRing \subseteq Tid /\ list # Console
  <2>1. list \in InRing
    BY <1>2 DEF Agree, Doomed
  <2>2. QED BY <1>1, <2>1 DEF Links, ProcLinks, InRing, ConsoleOwn
<1>4. Links' /\ InRing' = InRing
  <2>1. list' \in Tid /\ n_proc' \in Int /\ cpu' \in Context /\ walking' \in BOOLEAN
    BY <1>1, <1>3 DEF Links, LinkTypes
  <2>2. QED BY <1>1, <2>1, LinksSame
<1>5. CASE Agree
  <2>1. SavedContextOwn' /\ SavedAt(NULL)' /\ Ordered'
    BY <1>1, <1>4, <1>5 DEF Agree, SavedContextOwn, SavedAt, Ordered, Made
  <2>2. Facts(ConsoleIs)'
    <3>1. ConsoleIs' = ConsoleIs
      BY <1>1 DEF ConsoleIs
    <3>2. QED BY <1>1, <1>4, <1>5, <3>1 DEF Agree, Facts, MainOf, Made
  <2>3. Agree'
    BY <1>1, <1>3, <1>4, <1>5, <2>1, <2>2 DEF Agree
  <2>4. QED BY <1>4, <2>3 DEF ContextInv
<1>6. CASE Doomed
  <2>1. PICK u \in Tid \ {Console} :
           /\ esp_kernel[u].owner = Console /\ cur # NULL
           /\ list # parent[u] /\ (list < parent[u] \/ next[list] < parent[u])
           /\ Falling(parent[u]) /\ SavedAt(parent[u])
    BY <1>6 DEF Doomed
  <2>2. Made(u) /\ parent[u] \in Tid
    BY <2>1 DEF Made, NoContext, Links, ThreadLinks
  <2>3. next[list] < parent[u] /\ next[list] \in Tid
    <3>1. next[list] < list /\ next[list] \in Tid /\ list \in Tid
      BY <1>1, <1>3, <2>1 DEF Falling
    <3>2. QED BY <2>1, <2>2, <3>1
  <2>4. Falling(parent[u])' /\ SavedAt(parent[u])'
    BY <1>1, <1>4, <2>1 DEF Falling, SavedAt, Made
  <2>5. Doomed'
    BY <1>1, <1>3, <1>4, <2>1, <2>2, <2>3, <2>4 DEF Doomed
  <2>6. QED BY <1>4, <2>5 DEF ContextInv
<1>7. QED BY <1>2, <1>5, <1>6

(* What is loaded is the thread's own context; once the console's was      *)
(* saved elsewhere, the console's own is stale and loading it is           *)
(* undefined.                                                              *)
LEMMA SchedLoadContext ==
    ASSUME Links, Agree \/ Astray \/ Doomed, SchedLoad
    PROVE  ContextInv'
<1> DEFINE c == CurThread
<1>1. /\ walking /\ walking' = FALSE /\ esp0' = c /\ current_dir' = pdir[list]
      /\ cpu' = IF Stale(c) THEN [esp_kernel[c] EXCEPT !.at = "wild"] ELSE esp_kernel[c]
      /\ UNCHANGED <<list, n_proc, next, prec, pstate, threads, thread_list, pdir, tnext, tprec, parent,
                      esp_kernel, pid, proc, procn, cur, app>>
  BY DEF SchedLoad, SetEsp0, procVars, procData, ringVars, locals
<1>2. (Agree \/ Doomed) /\ list \in InRing
  BY <1>1 DEF Astray, OnConsole, Agree, Doomed
<1>3. c \in Tid /\ Made(c) /\ parent[c] = list
  BY <1>2 DEF Links, ThreadLists, ProcLinks, CurThread, InRing
<1>4. CurThread' = c
  BY <1>1 DEF CurThread
<1>5. c = Console <=> list = Console
  BY <1>3 DEF Links, ThreadLinks, ConsoleOwn
<1> HIDE DEF c
<1>6. esp_kernel[c] \in Context
  BY <1>3 DEF Links, LinkTypes
<1>7. ASSUME ~Stale(c) PROVE Links' /\ InRing' = InRing /\ cpu' = esp_kernel[c]
  <2>1. cpu' = esp_kernel[c]
    BY <1>1, <1>7
  <2>2. list' \in Tid /\ n_proc' \in Int /\ cpu' \in Context /\ walking' \in BOOLEAN
    BY <1>1, <1>6, <2>1 DEF Links, LinkTypes
  <2>3. QED BY <1>1, <2>1, <2>2, LinksSame
<1>8. CASE Agree
  <2>1. ~Stale(c)
    BY <1>3, <1>8 DEF Agree, SavedContextOwn, Stale, NoContext
  <2>2. Links' /\ InRing' = InRing /\ cpu' = esp_kernel[c]
    BY <1>7, <2>1
  <2>3. cpu'.owner = c /\ IF c = Console THEN cpu'.at \in ConsoleAt ELSE cpu'.at \in OthersAt
    <3>1. esp_kernel[c].owner = c
      BY <1>3, <1>8 DEF Agree, SavedContextOwn, Made
    <3>2. parent[c] # NULL
      BY <1>2, <1>3 DEF InRing
    <3>3. QED BY <1>3, <1>8, <2>2, <3>1, <3>2 DEF Agree, SavedAt
  <2>4. SavedContextOwn' /\ SavedAt(NULL)' /\ Ordered'
    BY <1>1, <1>8, <2>2 DEF Agree, SavedContextOwn, SavedAt, Ordered, Made
  <2>5. Facts(ConsoleIs)'
    <3>1. ConsoleIs' = ConsoleIs
      BY <1>1, <2>2, <2>3 DEF ConsoleIs
    <3>2. QED BY <1>1, <1>8, <2>2, <3>1 DEF Agree, Facts, MainOf, Made
  <2>6. Agree'
    BY <1>1, <1>2, <1>4, <1>8, <2>2, <2>3, <2>4, <2>5 DEF Agree
  <2>7. QED BY <2>2, <2>6 DEF ContextInv
<1>9. CASE Doomed
  <2>1. PICK u \in Tid \ {Console} :
           /\ esp_kernel[u].owner = Console /\ cur # NULL
           /\ list # parent[u] /\ (list < parent[u] \/ next[list] < parent[u])
           /\ Falling(parent[u]) /\ SavedAt(parent[u])
    BY <1>9 DEF Doomed
  <2>2. CASE Stale(c)
    <3>1. cpu'.at = "wild" /\ ~walking' /\ cur' # NULL
      BY <1>1, <1>6, <2>1, <2>2 DEF Context
    <3>2. QED BY <3>1 DEF ContextInv, Lost, ContextsBeforeRemoval
  <2>3. CASE ~Stale(c)
    <3>1. Links' /\ InRing' = InRing /\ cpu' = esp_kernel[c]
      BY <1>7, <2>3
    <3>2. c # Console /\ list # Console
      BY <1>5, <2>1, <2>3 DEF Stale
    <3>3. cpu'.at \in OthersAt
      BY <1>3, <2>1, <3>1, <3>2 DEF SavedAt
    <3>4. Falling(parent[u])' /\ SavedAt(parent[u])'
      BY <1>1, <2>1, <3>1 DEF Falling, SavedAt, Made
    <3>5. Doomed'
      BY <1>1, <1>2, <2>1, <3>1, <3>2, <3>3, <3>4 DEF Doomed
    <3>6. QED BY <3>1, <3>5 DEF ContextInv
  <2>4. QED BY <2>2, <2>3
<1>10. QED BY <1>2, <1>8, <1>9

-----------------------------------------------------------------------------
(* System calls                                                            *)

(* A user thread goes on: the threads there are keep their contexts, and a *)
(* new one has a context of its own.                                       *)
LEMMA UserStays ==
    ASSUME Links, Agree \/ Astray \/ Doomed, ~walking, cpu.at \in OthersAt,
           Links', InRing' = InRing, cpu'.owner = cpu.owner, cpu'.at \in OthersAt,
           UNCHANGED <<list, next, prec, thread_list, pdir, walking, esp0, current_dir,
                       proc, procn, cur, app>>,
           \A t \in Tid : Made(t) => esp_kernel'[t] = esp_kernel[t] /\ parent'[t] = parent[t],
           \A t \in Tid : ~Made(t) =>
              esp_kernel'[t] = NoContext
              \/ (esp_kernel'[t].owner = t /\ esp_kernel'[t].at \in OthersAt),
           \A p \in Tid : Made(p) /\ p # list => pstate'[p] = pstate[p]
    PROVE  ContextInv'
<1> DEFINE c == CurThread
<1>1. /\ list \in InRing \ {Console} /\ c \in Tid \ {Console} /\ Made(c)
      /\ (Agree /\ cpu.owner = c) \/ Doomed
  BY OtherState
<1>2. CurThread' = c
  BY DEF CurThread
<1>3. c < pid
  BY <1>1 DEF Links, Unused, LinkTypes
<1> HIDE DEF c
<1>4. Made(Console) /\ esp_kernel'[Console] = esp_kernel[Console] /\ InRing \subseteq Tid
  BY DEF Links, ConsoleOwn, InRing
<1>5. CASE Agree /\ cpu.owner = c
  <2>1. SavedContextOwn'
    BY <1>5 DEF Agree, SavedContextOwn, Made, NoContext
  <2>2. ASSUME NEW t \in Tid \ {Console}, Made(t)' PROVE esp_kernel'[t].at \in OthersAt
    <3>1. CASE Made(t)
      <4>1. parent[t] # NULL
        BY <3>1 DEF Links, ThreadLinks
      <4>2. QED BY <1>5, <3>1, <4>1 DEF Agree, SavedAt
    <3>2. CASE ~Made(t)
      BY <2>2, <3>2 DEF Made
    <3>3. QED BY <3>1, <3>2
  <2>3. SavedAt(NULL)'
    BY <2>2 DEF SavedAt
  <2>4. ConsoleIs = esp_kernel[Console].at /\ ConsoleIs' = ConsoleIs
    BY <1>1, <1>4, <1>5 DEF ConsoleIs
  <2>5. Facts(ConsoleIs)'
    <3>1. Facts(ConsoleIs)
      BY <1>5 DEF Agree
    <3>2. ConsoleIs # "boot"
      BY <1>1, <1>3, <3>1 DEF Facts, Links, LinkTypes
    <3>3. ASSUME ConsoleIs \in {"add", "addk"}
          PROVE  MainOf(proc)' /\ pstate'[proc] = "ACTIVE"
      <4>1. MainOf(proc) /\ proc \notin InRing /\ pstate[proc] = "ACTIVE"
        BY <3>1, <3>3 DEF Facts
      <4>2. QED BY <1>1, <4>1 DEF MainOf, Made
    <3>4. ASSUME ConsoleIs \in LoopAt \cup {"rmend"} PROVE MainOf(cur)'
      <4>1. MainOf(cur)
        BY <3>1, <3>4 DEF Facts
      <4>2. QED BY <4>1 DEF MainOf, Made
    <3>5. QED BY <2>4, <3>1, <3>2, <3>3, <3>4 DEF Facts
  <2>6. Ordered'
    BY <1>5 DEF Agree, Ordered
  <2>7. Agree'
    BY <1>1, <1>2, <1>4, <1>5, <2>1, <2>3, <2>5, <2>6 DEF Agree
  <2>8. QED BY <2>7 DEF ContextInv
<1>6. CASE Doomed
  <2>1. PICK u \in Tid \ {Console} :
           /\ esp_kernel[u].owner = Console /\ cur # NULL
           /\ list \in InRing /\ list # parent[u] /\ (list < parent[u] \/ next[list] < parent[u])
           /\ Falling(parent[u]) /\ SavedAt(parent[u])
    BY <1>6 DEF Doomed
  <2>2. Made(u)
    BY <2>1 DEF Made, NoContext
  <2>3. parent'[u] = parent[u] /\ esp_kernel'[u] = esp_kernel[u]
    BY <2>2
  <2>4. Falling(parent[u])'
    BY <2>1, <2>3 DEF Falling
  <2>5. ASSUME NEW t \in Tid \ {Console}, Made(t)', parent'[t] # parent'[u] PROVE esp_kernel'[t].at \in OthersAt
    <3>1. CASE Made(t)
      BY <2>1, <2>3, <2>5, <3>1 DEF SavedAt
    <3>2. CASE ~Made(t)
      BY <2>5, <3>2 DEF Made
    <3>3. QED BY <3>1, <3>2
  <2>6. SavedAt(parent[u])'
    BY <2>5 DEF SavedAt
  <2>7. Doomed'
    BY <1>1, <2>1, <2>3, <2>4, <2>6 DEF Doomed
  <2>8. QED BY <2>7 DEF ContextInv
<1>7. QED BY <1>1, <1>5, <1>6

(* The calls that change no link.                                          *)
LEMMA CallContext ==
    ASSUME Links, Agree \/ Astray \/ Doomed, ~walking, cpu.at \in OthersAt,
           NEW l \in OthersAt, Goto(l),
           pstate' = pstate \/ pstate' = [pstate EXCEPT ![list] = "STOPPED"],
           UNCHANGED <<list, n_proc, next, prec, threads, thread_list, pdir, tnext, tprec, parent,
                       esp_kernel, pid, walking, esp0, current_dir, proc, procn, cur, app>>
    PROVE  ContextInv'
<1>1. cpu' \in Context /\ cpu'.at = l /\ cpu'.owner = cpu.owner
  BY DEF Links, LinkTypes, Goto, Context, Label, OthersAt, UserAt
<1>2. list \in InRing \ {Console}
  BY OtherState
<1>3. /\ pstate' \in [Tid -> {"none", "NEW", "ACTIVE", "STOPPED", "freed"}]
      /\ \A p \in Tid : p # list => pstate'[p] = pstate[p]
  BY DEF Links, LinkTypes
<1>4. LinkTypes' /\ InRing' = InRing
  BY <1>1, <1>3 DEF Links, LinkTypes, InRing
<1>5. ConsoleOwn'
  BY <1>2, <1>3 DEF Links, ConsoleOwn, Made
<1>6. ThreadLinks' /\ ThreadLists' /\ ProcLinks' /\ Unused'
  <2>1. ThreadLinks' /\ ThreadLists'
    BY DEF Links, ThreadLinks, ThreadLists, Made
  <2>2. ProcLinks' /\ Unused'
    BY <1>4 DEF Links, ProcLinks, Unused, Made
  <2>3. QED BY <2>1, <2>2
<1>7. Links'
  BY <1>4, <1>5, <1>6 DEF Links
<1>8. \A t \in Tid : ~Made(t) => esp_kernel'[t] = NoContext
  BY DEF Made
<1>9. QED
  <2>1. \A t \in Tid : Made(t) => esp_kernel'[t] = esp_kernel[t] /\ parent'[t] = parent[t]
    BY <1>1
  <2>2. \A t \in Tid : ~Made(t) =>
          esp_kernel'[t] = NoContext
          \/ (esp_kernel'[t].owner = t /\ esp_kernel'[t].at \in OthersAt)
    BY <1>8
  <2>3. \A p \in Tid : Made(p) /\ p # list => pstate'[p] = pstate[p]
    BY <1>3
  <2>4. QED BY <1>1, <1>4, <1>7, <2>1, <2>2, <2>3, UserStays

(* end_proc stops a process that is linked, so not the one being started.  *)
LEMMA EndProcContext ==
    ASSUME Links, Agree \/ Astray \/ Doomed, EndProc
    PROVE  ContextInv'
<1>1. ~walking /\ cpu.at \in OthersAt /\ "spin" \in OthersAt /\ Goto("spin")
  BY DEF EndProc, Running, Spin, OthersAt, UserAt
<1>2. QED BY <1>1, CallContext DEF EndProc, procVars, ringVars, cpuVars, locals

(* gets waits and returns in the same thread.                              *)
LEMMA GetsContext ==
    ASSUME Links, Agree \/ Astray \/ Doomed, GetsBegin \/ GetsEnd
    PROVE  ContextInv'
<1>1. ~walking /\ cpu.at \in OthersAt /\ "gets" \in OthersAt /\ "user" \in OthersAt
  BY DEF GetsBegin, GetsEnd, Running, OthersAt, UserAt
<1>2. CASE GetsBegin
  BY <1>1, <1>2, CallContext DEF GetsBegin, procVars, procData, ringVars, cpuVars, locals
<1>3. CASE GetsEnd
  BY <1>1, <1>3, CallContext DEF GetsEnd, procVars, procData, ringVars, cpuVars, locals
<1>4. QED BY <1>2, <1>3

(* A fork without memory for the thread changes no link.                   *)
LEMMA ForkNoThreadContext ==
    ASSUME Links, Agree \/ Astray \/ Doomed, ForkNoThread
    PROVE  ContextInv'
  BY SameContext DEF ForkNoThread, procVars, procData, ringVars, cpuVars, locals

(* A fork without memory for the stack spends a pid.                       *)
LEMMA ForkNoMemoryContext ==
    ASSUME Links, Agree \/ Astray \/ Doomed, ForkNoMemory
    PROVE  ContextInv'
<1>1. /\ ~walking /\ cpu.at \in OthersAt /\ pid \in Tid /\ list \in Ptr
      /\ pid' = pid + 1 /\ parent' = [parent EXCEPT ![pid] = list]
      /\ UNCHANGED <<list, n_proc, next, prec, pstate, threads, thread_list, pdir, tnext, tprec,
                      esp_kernel, cpu, walking, esp0, current_dir, proc, procn, cur, app>>
  BY DEF ForkNoMemory, Running, OthersAt, UserAt, Links, LinkTypes, procVars, procData, cpuVars, locals
<1>2. Links' /\ InRing' = InRing /\ \A t \in Tid : Made(t) => parent'[t] = parent[t]
  BY <1>1, FreshLinks
<1>3. \A t \in Tid : ~Made(t) => esp_kernel'[t] = NoContext
  BY <1>1 DEF Made
<1>4. QED
  <2>1. \A t \in Tid : Made(t) => esp_kernel'[t] = esp_kernel[t] /\ parent'[t] = parent[t]
    BY <1>1, <1>2
  <2>2. \A t \in Tid : ~Made(t) =>
          esp_kernel'[t] = NoContext
          \/ (esp_kernel'[t].owner = t /\ esp_kernel'[t].at \in OthersAt)
    BY <1>3
  <2>3. \A p \in Tid : Made(p) /\ p # list => pstate'[p] = pstate[p]
    BY <1>1
  <2>4. QED BY <1>1, <1>2, <2>1, <2>2, <2>3, UserStays

(* stop_thread: the neighbours of the thread are linked to each other.     *)
LEMMA ExitThreadContext ==
    ASSUME Links, Agree \/ Astray \/ Doomed, ExitThread
    PROVE  ContextInv'
<1> DEFINE c == CurThread
<1> DEFINE a == tprec[c]
<1> DEFINE n == tnext[c]
<1>1. /\ ~walking /\ cpu.at \in OthersAt /\ Goto("spin") /\ "spin" \in OthersAt
      /\ tprec' = [tprec EXCEPT ![n] = a] /\ tnext' = [tnext EXCEPT ![a] = n]
      /\ UNCHANGED <<list, n_proc, next, prec, pstate, threads, thread_list, pdir, parent,
                      esp_kernel, pid, walking, esp0, current_dir, proc, procn, cur, app>>
  BY DEF ExitThread, ExitedNext, Running, Spin, OthersAt, UserAt, procVars, procData, cpuVars, locals
<1>2. c \in Tid \ {Console} /\ Made(c) /\ parent[c] = list /\ list # Console
  BY <1>1, OtherState
<1>3. /\ a \in Tid /\ Made(a) /\ parent[a] = list /\ n \in Tid /\ Made(n) /\ parent[n] = list
      /\ a # Console /\ n # Console
  BY <1>2 DEF Links, ThreadLinks, ConsoleOwn
<1> HIDE DEF a, n, c
<1>4. cpu' \in Context /\ cpu'.at = "spin" /\ cpu'.owner = cpu.owner
  BY <1>1 DEF Links, LinkTypes, Goto, Context, Label
<1>5. /\ tnext' \in [Tid -> Ptr] /\ tprec' \in [Tid -> Ptr]
      /\ \A t \in Tid : tnext'[t] = IF t = a THEN n ELSE tnext[t]
      /\ \A t \in Tid : tprec'[t] = IF t = n THEN a ELSE tprec[t]
  BY <1>1, <1>3 DEF Links, LinkTypes
<1>6. LinkTypes' /\ ConsoleOwn' /\ InRing' = InRing
  <2>1. LinkTypes'
    BY <1>1, <1>4, <1>5 DEF Links, LinkTypes
  <2>2. Console \in Tid /\ Console # a /\ Console # n
    BY <1>3, PidAssumption DEF Tid
  <2>3. tnext'[Console] = tnext[Console] /\ tprec'[Console] = tprec[Console]
    BY <1>5, <2>2
  <2>4. ConsoleOwn'
    BY <1>1, <2>3 DEF Links, ConsoleOwn, Made
  <2>5. InRing' = InRing
    BY <1>1 DEF InRing, Made
  <2>6. QED BY <2>1, <2>4, <2>5
<1>7. ThreadLinks'
  <2>1. ASSUME NEW t \in Tid, Made(t)
        PROVE  /\ parent[t] \in Tid /\ (parent[t] = Console => t = Console)
               /\ tnext'[t] \in Tid /\ Made(tnext'[t]) /\ parent[tnext'[t]] = parent[t]
               /\ tprec'[t] \in Tid /\ Made(tprec'[t]) /\ parent[tprec'[t]] = parent[t]
    <3>1. /\ parent[t] \in Tid /\ (parent[t] = Console => t = Console)
          /\ tnext[t] \in Tid /\ Made(tnext[t]) /\ parent[tnext[t]] = parent[t]
          /\ tprec[t] \in Tid /\ Made(tprec[t]) /\ parent[tprec[t]] = parent[t]
      BY <2>1 DEF Links, ThreadLinks
    <3>2. QED BY <1>3, <1>5, <3>1
  <2>2. QED BY <1>1, <2>1 DEF ThreadLinks, Made
<1>8. ThreadLists' /\ ProcLinks' /\ Unused'
  <2>1. ThreadLists'
    BY <1>1 DEF Links, ThreadLists, Made
  <2>2. ProcLinks' /\ Unused'
    BY <1>1, <1>6 DEF Links, ProcLinks, Unused, Made
  <2>3. QED BY <2>1, <2>2
<1>9. Links'
  BY <1>6, <1>7, <1>8 DEF Links
<1>10. \A t \in Tid : ~Made(t) => esp_kernel'[t] = NoContext
  BY <1>1 DEF Made
<1>11. QED
  <2>1. \A t \in Tid : Made(t) => esp_kernel'[t] = esp_kernel[t] /\ parent'[t] = parent[t]
    BY <1>1
  <2>2. \A t \in Tid : ~Made(t) =>
          esp_kernel'[t] = NoContext
          \/ (esp_kernel'[t].owner = t /\ esp_kernel'[t].at \in OthersAt)
    BY <1>10
  <2>3. \A p \in Tid : Made(p) /\ p # list => pstate'[p] = pstate[p]
    BY <1>1
  <2>4. QED BY <1>1, <1>4, <1>6, <1>9, <2>1, <2>2, <2>3, UserStays

(* start_thread: the new thread is linked in after the caller.             *)
LEMMA ForkContext ==
    ASSUME Links, Agree \/ Astray \/ Doomed, Fork
    PROVE  ContextInv'
<1> DEFINE c == CurThread
<1> DEFINE n == tnext[c]
<1> DEFINE k == [owner |-> pid, at |-> "user"]
<1>1. /\ ~walking /\ cpu.at \in OthersAt /\ pid \in Tid \ {Console}
      /\ pid' = pid + 1 /\ parent' = [parent EXCEPT ![pid] = list]
      /\ esp_kernel' = [esp_kernel EXCEPT ![pid] = k] /\ threads' = [threads EXCEPT ![list] = @ + 1]
      /\ tprec' = [tprec EXCEPT ![pid] = c, ![n] = pid]
      /\ tnext' = [tnext EXCEPT ![pid] = n, ![c] = pid]
      /\ UNCHANGED <<list, n_proc, next, prec, pstate, thread_list, pdir, cpu,
                      walking, esp0, current_dir, proc, procn, cur, app>>
  BY DEF Fork, CreateThread, Running, OthersAt, UserAt, Links, LinkTypes, procVars, cpuVars, locals
<1>2. c \in Tid \ {Console} /\ Made(c) /\ parent[c] = list /\ list \in Tid \ {Console}
  BY <1>1, OtherState DEF InRing
<1>3. n \in Tid \ {Console} /\ Made(n) /\ parent[n] = list
  BY <1>2 DEF Links, ThreadLinks, ConsoleOwn
<1>4. ~Made(pid) /\ next[pid] = NULL /\ c # pid /\ n # pid
  BY <1>1, <1>2, <1>3 DEF Links, LinkTypes, Unused
<1>5. k \in Context /\ k # NoContext /\ k.owner = pid /\ k.at \in OthersAt
  BY <1>1 DEF Context, Label, NoContext, OthersAt, UserAt
<1> HIDE DEF c, n, k
<1>51. /\ tnext \in [Tid -> Ptr] /\ tprec \in [Tid -> Ptr] /\ pid \in Tid /\ c \in Tid /\ n \in Tid
       /\ n \in Ptr /\ c \in Ptr /\ pid \in Ptr
  BY <1>1, <1>2, <1>3 DEF Links, LinkTypes, Ptr
<1>6. /\ tnext' \in [Tid -> Ptr] /\ tnext'[pid] = n /\ tnext'[c] = pid
      /\ \A t \in Tid \ {pid, c} : tnext'[t] = tnext[t]
  BY <1>1, <1>4, <1>51
<1>7. /\ tprec' \in [Tid -> Ptr] /\ tprec'[pid] = c /\ tprec'[n] = pid
      /\ \A t \in Tid \ {pid, n} : tprec'[t] = tprec[t]
  BY <1>1, <1>4, <1>51
<1>8. /\ parent' \in [Tid -> Ptr] /\ parent'[pid] = list
      /\ \A t \in Tid \ {pid} : parent'[t] = parent[t]
  BY <1>1, <1>2 DEF Links, LinkTypes
<1>9. /\ esp_kernel' \in [Tid -> Context] /\ esp_kernel'[pid] = k
      /\ \A t \in Tid \ {pid} : esp_kernel'[t] = esp_kernel[t]
  BY <1>1, <1>5 DEF Links, LinkTypes
<1>10. threads' \in [Tid -> Nat] /\ pid' \in 2..(MaxPid + 1)
  BY <1>1, <1>2 DEF Links, LinkTypes
<1>11. LinkTypes'
  BY <1>1, <1>6, <1>7, <1>8, <1>9, <1>10 DEF Links, LinkTypes
<1>12. InRing' = InRing /\ pid \notin InRing
  BY <1>1, <1>4 DEF InRing
<1>13. ConsoleOwn'
  BY <1>1, <1>2, <1>3, <1>6, <1>7, <1>8, <1>9 DEF Links, ConsoleOwn, Made
<1>14. ThreadLinks'
  <2>1. ASSUME NEW t \in Tid, esp_kernel'[t] # NoContext
        PROVE  /\ parent'[t] \in Tid /\ (parent'[t] = Console => t = Console)
               /\ tnext'[t] \in Tid /\ esp_kernel'[tnext'[t]] # NoContext /\ parent'[tnext'[t]] = parent'[t]
               /\ tprec'[t] \in Tid /\ esp_kernel'[tprec'[t]] # NoContext /\ parent'[tprec'[t]] = parent'[t]
    <3>1. CASE t = pid
      BY <1>1, <1>2, <1>3, <1>4, <1>6, <1>7, <1>8, <1>9, <3>1 DEF Made
    <3>2. CASE t # pid
      <4>1. /\ Made(t) /\ parent[t] \in Tid /\ (parent[t] = Console => t = Console)
            /\ tnext[t] \in Tid /\ Made(tnext[t]) /\ parent[tnext[t]] = parent[t]
            /\ tprec[t] \in Tid /\ Made(tprec[t]) /\ parent[tprec[t]] = parent[t]
        BY <1>9, <2>1, <3>2 DEF Links, ThreadLinks, Made
      <4>2. tnext[t] # pid /\ tprec[t] # pid /\ parent'[t] = parent[t]
        BY <1>4, <1>8, <3>2, <4>1
      <4>3. tnext'[t] \in Tid /\ esp_kernel'[tnext'[t]] # NoContext /\ parent'[tnext'[t]] = parent[t]
        <5>1. CASE t = c
          BY <1>1, <1>2, <1>5, <1>6, <1>8, <1>9, <5>1
        <5>2. CASE t # c
          BY <1>6, <1>8, <1>9, <3>2, <4>1, <4>2, <5>2 DEF Made
        <5>3. QED BY <5>1, <5>2
      <4>4. tprec'[t] \in Tid /\ esp_kernel'[tprec'[t]] # NoContext /\ parent'[tprec'[t]] = parent[t]
        <5>1. CASE t = n
          BY <1>1, <1>3, <1>5, <1>7, <1>8, <1>9, <5>1
        <5>2. CASE t # n
          BY <1>7, <1>8, <1>9, <3>2, <4>1, <4>2, <5>2 DEF Made
        <5>3. QED BY <5>1, <5>2
      <4>5. QED BY <4>1, <4>2, <4>3, <4>4
    <3>3. QED BY <3>1, <3>2
  <2>2. QED BY <2>1 DEF ThreadLinks, Made
<1>15. ThreadLists'
  <2>1. ASSUME NEW q \in Tid, esp_kernel'[q] # NoContext, parent'[q] = q
        PROVE  thread_list'[q] \in Tid /\ esp_kernel'[thread_list'[q]] # NoContext
               /\ parent'[thread_list'[q]] = q
    <3>1. q # pid
      BY <1>2, <1>4, <1>8, <1>12, <2>1, <1>1, OtherState
    <3>2. thread_list[q] \in Tid /\ Made(thread_list[q]) /\ parent[thread_list[q]] = q
      BY <1>8, <1>9, <2>1, <3>1 DEF Links, ThreadLists, Made
    <3>3. thread_list[q] # pid
      BY <1>4, <3>2
    <3>4. QED BY <1>1, <1>8, <1>9, <3>2, <3>3 DEF Made
  <2>2. QED BY <2>1 DEF ThreadLists, Made
<1>16. ProcLinks'
  BY <1>1, <1>8, <1>9, <1>12 DEF Links, ProcLinks, InRing, Made
<1>17. Unused'
  BY <1>1, <1>9 DEF Links, LinkTypes, Unused, Made
<1>18. Links'
  BY <1>11, <1>13, <1>14, <1>15, <1>16, <1>17 DEF Links
<1>19. \A t \in Tid : Made(t) => esp_kernel'[t] = esp_kernel[t] /\ parent'[t] = parent[t]
  BY <1>4, <1>8, <1>9
<1>20. \A t \in Tid : ~Made(t) =>
          esp_kernel'[t] = NoContext \/ (esp_kernel'[t].owner = t /\ esp_kernel'[t].at \in OthersAt)
  <2>1. ASSUME NEW t \in Tid \ {pid}, ~Made(t) PROVE esp_kernel'[t] = NoContext
    BY <1>9, <2>1 DEF Made
  <2>2. esp_kernel'[pid].owner = pid /\ esp_kernel'[pid].at \in OthersAt
    BY <1>5, <1>9
  <2>3. QED BY <2>1, <2>2
<1>21. QED BY <1>1, <1>12, <1>18, <1>19, <1>20, UserStays

-----------------------------------------------------------------------------
(* Every step                                                              *)

(* After "wild" the model stops.                                           *)
LEMMA LostStops == ASSUME Lost, [Next]_vars PROVE UNCHANGED vars
<1>1. ~walking /\ cpu.at = "wild"
  BY DEF Lost
<1>2. ~Timer /\ ~Switch
  BY <1>1 DEF Timer, TickQuiet, TickSwitch, Switch, SchedWalk, SchedLoad
<1>3. ~Boot /\ ~Start
  BY <1>1 DEF Boot, BootText, BootGui, Start, StartProc, StartProcFails, Running
<1>4. ~Wait
  BY <1>1 DEF Wait, SchedAdd, StartProcReturn, PollStopped, PollNull, Running
<1>5. ~Remove
  BY <1>1 DEF Remove, Unlink, RemoveBegin, RemoveMain, RemoveOther, Unlink1, Unlink2, Unlink3,
              Unlink4, RemoveFree, RemoveLoopEnd, RemoveEnd, Running
<1>6. ~User
  BY <1>1 DEF User, Fork, ForkNoThread, ForkNoMemory, ExitThread, EndProc, GetsBegin, GetsEnd, Running
<1>7. QED BY <1>2, <1>3, <1>4, <1>5, <1>6 DEF Next, Undefined

(* So the contexts stay as they were.                                      *)
LEMMA LostContext == ASSUME Lost, [Next]_vars PROVE ContextInv'
<1>1. UNCHANGED vars
  BY LostStops
<1>2. Lost'
  BY <1>1 DEF vars, procVars, procData, cpuVars, locals, Lost, ContextsBeforeRemoval, SavedContextOwn,
              CpuMatchesList, CurThread
<1>3. QED BY <1>2 DEF ContextInv

(* ContextInv is inductive.                                                *)
LEMMA NextContext == ContextInv /\ [Next]_vars => ContextInv'
<1> SUFFICES ASSUME ContextInv, [Next]_vars PROVE ContextInv'
  OBVIOUS
<1>1. CASE Lost
  BY <1>1, LostContext
<1>2. CASE Links /\ (Agree \/ Astray \/ Doomed)
  <2> USE <1>2
  <2>1. CASE Timer
    BY <2>1, TickQuietContext, TickSwitchContext DEF Timer
  <2>2. CASE Switch
    BY <2>2, SchedWalkContext, SchedLoadContext DEF Switch
  <2>3. CASE Boot
    BY <2>3, BootTextContext, BootGuiContext DEF Boot
  <2>4. CASE Start
    BY <2>4, StartProcContext, StartProcFailsContext DEF Start
  <2>5. CASE Wait
    BY <2>5, SchedAddContext, ReturnContext, PollStoppedContext, PollNullContext DEF Wait
  <2>6. CASE Remove
    BY <2>6, RemoveBeginContext, RemoveMainContext, RemoveOtherContext, Unlink1Context, Unlink2Context,
       Unlink3Context, Unlink4Context, RemoveFreeContext, RemoveLoopEndContext, RemoveEndContext
       DEF Remove, Unlink
  <2>7. CASE User
    BY <2>7, ForkContext, ForkNoThreadContext, ForkNoMemoryContext, ExitThreadContext, EndProcContext,
       GetsContext DEF User
  <2>8. CASE UNCHANGED vars
    BY <2>8, SameContext DEF vars, procVars, procData, ringVars, cpuVars, locals
  <2>9. QED
    BY <2>1, <2>2, <2>3, <2>4, <2>5, <2>6, <2>7, <2>8 DEF Next, Undefined
<1>3. QED BY <1>1, <1>2 DEF ContextInv

(* In both modes: each thread's and each process's links lead where the    *)
(* code expects them, and the globals agree with the CPU, or a removal     *)
(* has moved list under the console and the pids around the ring tell how  *)
(* it ends.                                                                *)
THEOREM ContextInvariant == Spec => []ContextInv
<1>1. QED BY InitContext, NextContext, PTL DEF Spec

(* The invariant answers for the contexts.                                 *)
LEMMA ContextInvContexts == ContextInv => ContextsBeforeRemoval
<1> SUFFICES ASSUME ContextInv, cur = NULL PROVE SavedContextOwn /\ CpuMatchesList
  BY DEF ContextsBeforeRemoval
<1>1. CASE Lost
  BY <1>1 DEF Lost, ContextsBeforeRemoval
<1>2. CASE Agree
  BY <1>2 DEF Agree, CpuMatchesList
<1>3. CASE Astray \/ Doomed
  BY <1>3 DEF Astray, Doomed
<1>4. QED BY <1>1, <1>2, <1>3 DEF ContextInv

(* In GUI mode too, with the draw thread in the ring, schedule saves       *)
(* every context in its own thread, and list, the TSS and the page         *)
(* directory agree with the CPU, until the console removes a process for   *)
(* the first time.                                                         *)
THEOREM ContextsUntilRemoval == Spec => []ContextsBeforeRemoval
<1>1. QED BY ContextInvariant, ContextInvContexts, PTL
-----------------------------------------------------------------------------
(***************************************************************************)
(* The process ring in both modes.  RingInv is inductive beside            *)
(* ContextInv, which says where the console is and what it works on.       *)
(***************************************************************************)

(* At boot the console's process is the ring.                              *)
LEMMA InitRing == Init => RingInv
<1> SUFFICES ASSUME Init PROVE RingInv
  OBVIOUS
<1>1. n_proc = 1 /\ list = Console /\ next[Console] = Console /\ prec[Console] = Console
      /\ ~walking /\ cpu.owner = Console /\ cpu.at = "boot"
  BY DEF Init
<1>2. Place = "boot"
  <2>1. ~Stale(Console)
    BY DEF Init, Stale, NoContext
  <2>2. QED BY <1>1, <2>1 DEF Place, ConsoleIs
<1>3. PICK ring \in [1..1 -> Tid] : ring[1] = Console
  <2> DEFINE one == [j \in 1..1 |-> Console]
  <2>1. one \in [1..1 -> Tid]
    BY PidAssumption
  <2>2. one[1] = Console
    OBVIOUS
  <2> HIDE DEF one
  <2>3. QED BY <2>1, <2>2
<1>4. Distinct(ring, 1) /\ Linked(ring, 1, next, Back) /\ list \in Members(ring, 1)
  BY <1>1, <1>2, <1>3 DEF Distinct, Linked, Back, Members
<1>5. ProcSeq(ring, 1)
  BY <1>1, <1>2, <1>3, <1>4 DEF ProcSeq, CutAt
<1>6. RemovesCur
  BY <1>1, <1>2 DEF RemovesCur, Unlinking
<1>7. QED BY <1>1, <1>5, <1>6 DEF RingInv

(* From a process of the ring the links lead to one of the ring.           *)
LEMMA RingCloses ==
    ASSUME NEW n \in Nat, NEW ring \in [1..n -> Tid], NEW nxt, NEW prv, Linked(ring, n, nxt, prv),
           NEW p \in Members(ring, n)
    PROVE  nxt[p] \in Members(ring, n) /\ p \in Tid /\ nxt[p] \in Tid
<1>1. PICK k \in 1..n : p = ring[k]
  BY DEF Members
<1>2. PICK m \in 1..n : m = IF k = n THEN 1 ELSE k + 1
  OBVIOUS
<1>3. nxt[p] = ring[m]
  BY <1>1, <1>2 DEF Linked
<1>4. QED BY <1>1, <1>2, <1>3 DEF Members

(* A step that changes no link of the ring and neither begins nor ends an  *)
(* unlinking; list may go on.                                              *)
LEMMA RingKept ==
    ASSUME RingInv, n_proc \in Int, UNCHANGED <<next, prec, n_proc>>, list' \in {list, next[list]},
           \/ Place' = Place /\ UNCHANGED <<app, cur>>
           \/ Place \notin Unlinking /\ Place' \notin Unlinking,
           (OnCpu /\ cpu.at \in Unlinking)' => list' = Console,
           (OnCpu /\ cpu.at \in {"rm", "rmfree"} /\ list # Console)'
               => list' = list /\ cur' = cur /\ OnCpu /\ cpu.at \in {"rm", "rmfree"}
    PROVE  RingInv'
<1>1. PICK n \in 1..n_proc : \E ring \in [1..n -> Tid] : ProcSeq(ring, n)
  BY DEF RingInv
<1>2. PICK ring \in [1..n -> Tid] : ProcSeq(ring, n)
  BY <1>1
<1>3. Back' = Back
  BY DEF Back, Unlinking
<1>4. n \in Nat /\ Linked(ring, n, next, Back) /\ list \in Members(ring, n)
  BY <1>2 DEF ProcSeq
<1>5. list' \in Members(ring, n)
  BY <1>4, RingCloses
<1>6. Linked(ring, n, next, Back)'
  BY ONLY <1>3, <1>4, next' = next DEF Linked
<1>7. /\ n_proc' = IF Place' \in {"unlink2", "unlink3"} THEN n + 1 ELSE n
      /\ Place' = "unlink1" => app' \in Members(ring, n)
      /\ Place' \in CutAt => app' \notin Members(ring, n) /\ next'[app'] \in Members(ring, n)
  BY <1>2 DEF ProcSeq, CutAt, Unlinking
<1>8. (OnCpu /\ cpu.at \in {"rm", "rmfree"} /\ list # Console)' => cur' \notin Members(ring, n)
  BY <1>2 DEF ProcSeq
<1>9. ProcSeq(ring, n)'
  BY <1>2, <1>5, <1>6, <1>7, <1>8 DEF ProcSeq, Distinct, Members
<1>10. RemovesCur'
  BY DEF RingInv, RemovesCur
<1>11. QED BY <1>1, <1>9, <1>10 DEF RingInv

(* Nothing that RingInv is about changes.                                  *)
LEMMA SameRing ==
    ASSUME RingInv, UNCHANGED <<list, n_proc, next, prec, esp_kernel, cpu, walking, app, cur>>
    PROVE  RingInv'
<1>1. Place' = Place /\ (OnCpu' <=> OnCpu)
  BY DEF Place, Stale, ConsoleIs, OnCpu
<1>2. Back' = Back
  BY <1>1 DEF Back
<1>3. \A n : \A ring : ProcSeq(ring, n)' <=> ProcSeq(ring, n)
  BY <1>1, <1>2 DEF ProcSeq, Distinct, Linked, Members
<1>4. QED BY <1>1, <1>3 DEF RingInv, RemovesCur

(* The console runs: its place is where it is.                             *)
LEMMA PlaceIs ==
    ASSUME OnConsole
    PROVE  Place = cpu.at /\ OnCpu
<1>1. ~Stale(Console)
  BY DEF OnConsole, SavedContextOwn, Stale, NoContext
<1>2. cpu.at # "wild"
  BY DEF OnConsole, ConsoleAt, Unlinking
<1>3. QED BY <1>1, <1>2 DEF OnConsole, Place, ConsoleIs, OnCpu

(* The same after a step of the console, which puts into a structure no    *)
(* context of another thread.                                              *)
LEMMA PlaceAfter ==
    ASSUME OnConsole, walking' = walking, cpu'.owner = cpu.owner,
           \A t \in Tid : esp_kernel'[t] = esp_kernel[t] \/ esp_kernel'[t].owner = t
    PROVE  Place' = (IF cpu'.at = "wild" THEN "none" ELSE cpu'.at) /\ OnCpu'
<1>1. ~Stale(Console)'
  BY DEF OnConsole, SavedContextOwn, Stale, NoContext
<1>2. QED BY <1>1 DEF OnConsole, Place, ConsoleIs, OnCpu

(* A step of the console that leaves the ring alone.                       *)
LEMMA ConsoleKeepsRing ==
    ASSUME Links, OnConsole, RingInv, UNCHANGED <<list, next, prec, n_proc, walking>>,
           cpu'.owner = cpu.owner, cpu.at \notin Unlinking, cpu'.at \notin Unlinking,
           \A t \in Tid : esp_kernel'[t] = esp_kernel[t] \/ esp_kernel'[t].owner = t,
           cpu'.at \in {"rm", "rmfree"} => list = Console \/ (cur' = cur /\ cpu.at \in {"rm", "rmfree"})
    PROVE  RingInv'
<1>1. Place = cpu.at /\ OnCpu
  BY PlaceIs
<1>2. Place' = (IF cpu'.at = "wild" THEN "none" ELSE cpu'.at) /\ OnCpu'
  BY PlaceAfter
<1>3. Place \notin Unlinking /\ Place' \notin Unlinking
  BY <1>1, <1>2 DEF Unlinking
<1>4. n_proc \in Int
  BY DEF Links, LinkTypes
<1>5. QED BY <1>1, <1>3, <1>4, RingKept
(* The steps of the console outside sched_add_proc and sched_remove_proc.  *)
LEMMA CommandsKeepRing ==
    ASSUME Links, Agree \/ Astray \/ Doomed, RingInv,
           Boot \/ Start \/ StartProcReturn \/ PollStopped \/ PollNull
    PROVE  RingInv'
<1> USE DEF procVars, procData, ringVars, cpuVars, locals
<1>1. /\ ~walking /\ cpu.at \in ConsoleAt \ Unlinking
      /\ cpu'.owner = cpu.owner /\ cpu'.at \in {"cmd", "addk", "add", "poll", "remove", "lost", "wild"}
      /\ UNCHANGED <<list, next, prec, n_proc, walking>>
  <2> USE DEF Running, ConsoleAt, Unlinking, Goto, Links, LinkTypes, Context
  <2>1. CASE BootText
    BY <2>1 DEF BootText
  <2>2. CASE BootGui
    BY <2>2 DEF BootGui
  <2>3. CASE StartProc
    BY <2>3 DEF StartProc
  <2>4. CASE StartProcFails
    BY <2>4 DEF StartProcFails
  <2>5. CASE StartProcReturn
    BY <2>5 DEF StartProcReturn
  <2>6. CASE PollStopped
    BY <2>6 DEF PollStopped
  <2>7. CASE PollNull
    BY <2>7 DEF PollNull
  <2>8. QED BY <2>1, <2>2, <2>3, <2>4, <2>5, <2>6, <2>7 DEF Boot, Start
<1>2. \A t \in Tid : esp_kernel'[t] = esp_kernel[t] \/ esp_kernel'[t].owner = t
  <2>1. esp_kernel' = esp_kernel \/ \E l : esp_kernel' = [esp_kernel EXCEPT ![pid] = [owner |-> pid, at |-> l]]
    BY DEF Boot, BootText, BootGui, Start, StartProc, StartProcFails, StartProcReturn, PollStopped,
           PollNull, BuildProc
  <2>2. esp_kernel \in [Tid -> Context]
    BY DEF Links, LinkTypes
  <2>3. QED BY <2>1, <2>2
<1>3. OnConsole
  BY <1>1, ConsoleState
<1>4. cpu'.at \notin Unlinking /\ cpu'.at \notin {"rm", "rmfree"}
  BY <1>1 DEF Unlinking
<1>5. QED BY <1>1, <1>2, <1>3, <1>4, ConsoleKeepsRing

(* remove_proc outside sched_remove_proc.                                  *)
LEMMA LoopKeepsRing ==
    ASSUME Links, Agree \/ Astray \/ Doomed, RingInv,
           RemoveBegin \/ RemoveOther \/ RemoveFree \/ RemoveLoopEnd \/ RemoveEnd
           \/ (RemoveMain /\ app' = NULL)
    PROVE  RingInv'
<1> USE DEF procVars, procData, ringVars, cpuVars, locals
<1>1. /\ ~walking /\ cpu.at \in {"remove", "rm", "rmfree", "rmend"}
      /\ cpu'.owner = cpu.owner /\ cpu'.at \in {"wild", "rm", "rmfree", "rmend", "cmd"}
      /\ cpu.at = "remove" \/ cur' = cur
      /\ cpu.at = "rmend" => cpu'.at = "cmd"
      /\ UNCHANGED <<list, next, prec, n_proc, walking, esp_kernel>>
  <2> USE DEF Running, Goto, Links, LinkTypes, Context
  <2>1. CASE RemoveBegin
    BY <2>1 DEF RemoveBegin
  <2>2. CASE RemoveOther
    BY <2>2 DEF RemoveOther
  <2>3. CASE RemoveFree
    BY <2>3 DEF RemoveFree
  <2>4. CASE RemoveLoopEnd
    BY <2>4 DEF RemoveLoopEnd
  <2>5. CASE RemoveEnd
    BY <2>5 DEF RemoveEnd
  <2>6. CASE RemoveMain /\ app' = NULL
    BY <2>6 DEF RemoveMain
  <2>7. QED BY <2>1, <2>2, <2>3, <2>4, <2>5, <2>6
<1>2. cpu.at \in ConsoleAt /\ cpu.at \notin Unlinking /\ cpu'.at \notin Unlinking
  BY <1>1 DEF ConsoleAt, Unlinking
<1>3. OnConsole /\ (cpu.at = "remove" => list = Console)
  BY <1>1, <1>2, ConsoleState DEF Astray, AstrayAt, AddedAt, LoopAt, Unlinking
<1>4. QED BY <1>1, <1>2, <1>3, ConsoleKeepsRing

(* sched_add_proc puts the process in the ring behind list, which may be   *)
(* another process than the console's.                                     *)
LEMMA SchedAddRing ==
    ASSUME Links, Agree \/ Astray \/ Doomed, RingInv, SchedAdd
    PROVE  RingInv'
<1>1. /\ ~walking /\ cpu.at \in {"add", "addk"} /\ cpu'.at \in {"ret", "cmd"} /\ cpu'.owner = cpu.owner
      /\ n_proc' = n_proc + 1 /\ prec' = AddedPrec /\ next' = AddedNext
      /\ UNCHANGED <<list, esp_kernel, walking, proc, app, cur>>
  BY DEF SchedAdd, Running, Goto, Links, LinkTypes, Context, procData, ringVars, cpuVars, locals
<1>2. OnConsole
  BY <1>1, ConsoleState DEF ConsoleAt
<1>3. /\ Place \in {"add", "addk"} /\ Place' \in {"ret", "cmd"}
      /\ ~(OnCpu /\ cpu.at \in {"rm", "rmfree"})' /\ ~(OnCpu /\ cpu.at \in Unlinking)'
  BY <1>1, <1>2, PlaceIs, PlaceAfter DEF Unlinking
<1>4. proc \in Tid /\ proc \notin InRing /\ next \in [Tid -> Ptr] /\ prec \in [Tid -> Ptr] /\ n_proc \in Int
  BY <1>1, <1>2 DEF OnConsole, Facts, MainOf, Links, LinkTypes
<1>5. PICK n \in 1..n_proc : \E ring \in [1..n -> Tid] : ProcSeq(ring, n)
  BY DEF RingInv
<1>6. PICK ring \in [1..n -> Tid] : ProcSeq(ring, n)
  BY <1>5
<1>7. /\ n \in Nat \ {0} /\ n_proc = n /\ ring[1] = Console /\ Distinct(ring, n)
      /\ Linked(ring, n, next, prec)
  BY <1>3, <1>4, <1>5, <1>6 DEF ProcSeq, Back
<1>8. PICK k \in 1..n : list = ring[k]
  BY <1>6 DEF ProcSeq, Members
<1>9. next[list] \in Tid
  BY <1>7, RingCloses, <1>6 DEF ProcSeq
<1>10. NotIn(proc, ring, n)
  <2>1. SUFFICES ASSUME NEW j \in 1..n, ring[j] = proc PROVE FALSE
    BY DEF NotIn
  <2>2. proc \in Members(ring, n)
    BY <2>1 DEF Members
  <2>3. next[proc] \in Tid
    BY <1>7, <2>2, RingCloses
  <2>4. QED BY <1>4, <2>3 DEF InRing, NULL
<1>11. LinkAfter(Tid, ring[k], proc, next, prec, next', prec')
  BY <1>1, <1>4, <1>8, <1>9, <1>10 DEF LinkAfter, AddedNext, AddedPrec, NotIn
<1>12. PICK s : s = Insert(ring, n, k, proc)
  OBVIOUS
<1>13. s \in [1..(n + 1) -> Tid] /\ s[1] = Console /\ list \in Members(s, n + 1)
  <2>1. Inserted(s, Tid, ring, n, k, proc)
    BY <1>4, <1>7, <1>12, InsertAt
  <2>2. s \in [1..(n + 1) -> Tid] /\ \A j \in 1..k : s[j] = ring[j]
    BY <2>1 DEF Inserted
  <2>3. 1 \in 1..k /\ k \in 1..k /\ k \in 1..(n + 1)
    BY <1>7
  <2>4. s[1] = Console /\ s[k] = list
    BY <1>7, <1>8, <2>2, <2>3
  <2>5. QED BY <2>2, <2>3, <2>4 DEF Members
<1>14. Distinct(s, n + 1)
  BY <1>4, <1>7, <1>10, <1>12, InsertDistinct
<1>15. Linked(s, n + 1, next', prec')
  BY ONLY <1>4, <1>7, <1>10, <1>11, <1>12, InsertLinked, n \in Nat, ring \in [1..n -> Tid], k \in 1..n
<1>16. ProcSeq(s, n + 1)'
  <2>1. Back' = prec'
    BY <1>3 DEF Back
  <2>2. Linked(s, n + 1, next, Back)'
    BY ONLY <1>15, <2>1 DEF Linked
  <2>3. list' \in Members(s, n + 1) /\ n_proc' = n + 1
    BY <1>1, <1>7, <1>13
  <2>4. QED BY <1>3, <1>13, <1>14, <2>2, <2>3 DEF ProcSeq, Distinct, Members, CutAt
<1>17. n + 1 \in 1..n_proc'
  BY <1>1, <1>7
<1>18. RemovesCur'
  BY <1>3 DEF RemovesCur, Unlinking
<1>19. QED BY <1>13, <1>16, <1>17, <1>18 DEF RingInv
(* The process that sched_remove_proc is called for is the one that is     *)
(* removed and is in the ring; once it is not, get_proc_by_id finds none.  *)
LEMMA RemoveMainRing ==
    ASSUME Links, Agree \/ Astray \/ Doomed, RingInv, RemoveMain, app' # NULL
    PROVE  RingInv'
<1>1. /\ ~walking /\ cpu.at = "rm" /\ cpu'.at = "unlink1" /\ cpu'.owner = cpu.owner
      /\ app' = get_proc_by_id(thread_list[cur])
      /\ UNCHANGED <<list, next, prec, n_proc, walking, esp_kernel, cur>>
  BY DEF RemoveMain, Running, Goto, Links, LinkTypes, Context, procVars, procData, ringVars, cpuVars
<1>2. OnConsole /\ cpu.at \in LoopAt
  BY <1>1, ConsoleState DEF ConsoleAt, LoopAt
<1>3. Place = "rm" /\ OnCpu /\ Place' = "unlink1" /\ OnCpu'
  BY <1>1, <1>2, PlaceIs, PlaceAfter
<1>4. PICK n \in 1..n_proc : \E ring \in [1..n -> Tid] : ProcSeq(ring, n)
  BY DEF RingInv
<1>5. PICK ring \in [1..n -> Tid] : ProcSeq(ring, n)
  BY <1>4
<1>6. /\ n \in Nat /\ n_proc \in Int /\ list \in Members(ring, n) /\ Linked(ring, n, next, prec)
  BY <1>3, <1>5 DEF ProcSeq, Back, Links, LinkTypes
<1>7. app' = cur /\ app' \in Members(ring, n)
  <2>1. PICK p \in ProcsVisited : app' = p
    BY <1>1, Zenon DEF get_proc_by_id
  <2>2. ProcsVisited \subseteq Members(ring, n)
    <3>1. \A q \in Members(ring, n) : next[q] \in Members(ring, n)
      BY <1>6, RingCloses
    <3>2. n_proc - 1 \in Int
      BY <1>6
    <3>3. QED BY <1>6, <3>1, <3>2, VisitedIn DEF ProcsVisited
  <2>3. parent[thread_list[cur]] = app'
    BY <1>1, <1>2, LookupLinked DEF OnConsole
  <2>4. parent[thread_list[cur]] = cur
    BY <1>2 DEF OnConsole, Facts, Links, ThreadLists, MainOf
  <2>5. QED BY <2>1, <2>2, <2>3, <2>4
<1>8. list = Console
  BY <1>1, <1>3, <1>5, <1>7 DEF ProcSeq
<1>9. Linked(ring, n, next, Back)'
  <2>1. Back' = prec'
    BY <1>3 DEF Back
  <2>2. QED BY ONLY <1>1, <1>6, <2>1 DEF Linked
<1>10. ProcSeq(ring, n)'
  BY <1>1, <1>3, <1>5, <1>6, <1>7, <1>8, <1>9 DEF ProcSeq, Distinct, Members, CutAt
<1>11. RemovesCur'
  BY <1>1, <1>7, <1>8 DEF RemovesCur
<1>12. QED BY <1>1, <1>4, <1>10, <1>11 DEF RingInv

(* Between the statements of sched_remove_proc.                            *)
LEMMA OnUnlink ==
    ASSUME Links, Agree \/ Astray \/ Doomed, RingInv, ~walking, cpu.at \in Unlinking,
           cpu'.owner = cpu.owner, esp_kernel' = esp_kernel, walking' = walking, app' = app, cur' = cur,
           cpu'.at \in Unlinking \cup {"rmfree"}
    PROVE  /\ Place = cpu.at /\ Place' = cpu'.at /\ OnCpu' /\ list = Console /\ app = cur
           /\ app \in Tid \ {Console} /\ next \in [Tid -> Ptr] /\ prec \in [Tid -> Ptr] /\ n_proc \in Int
           /\ (cpu'.at \in Unlinking => list' = Console) => RemovesCur'
<1>1. OnConsole
  BY ConsoleState DEF ConsoleAt
<1>2. Place = cpu.at /\ OnCpu /\ Place' = cpu'.at /\ OnCpu'
  <2>1. cpu'.at # "wild"
    BY DEF Unlinking
  <2>2. QED BY <1>1, <2>1, PlaceIs, PlaceAfter
<1>3. list = Console /\ app = cur
  BY <1>2 DEF RingInv, RemovesCur
<1>4. app \in Tid \ {Console} /\ next \in [Tid -> Ptr] /\ prec \in [Tid -> Ptr] /\ n_proc \in Int
  BY <1>1 DEF OnConsole, Facts, Links, LinkTypes, InRing
<1>5. QED BY <1>2, <1>3, <1>4 DEF RemovesCur

(* prec->next = next leaves a ring without the process, but for one link   *)
(* back and for n_proc.                                                    *)
LEMMA Unlink1Ring ==
    ASSUME Links, Agree \/ Astray \/ Doomed, RingInv, Unlink1
    PROVE  RingInv'
<1>1. /\ ~walking /\ cpu.at = "unlink1" /\ cpu'.at = "unlink2" /\ cpu'.owner = cpu.owner
      /\ next' = [next EXCEPT ![prec[app]] = next[app]]
      /\ UNCHANGED <<list, prec, n_proc, walking, esp_kernel, app, cur>>
  BY DEF Unlink1, Running, Goto, Links, LinkTypes, Context, procVars, procData, ringVars, cpuVars, locals
<1>2. /\ Place = "unlink1" /\ Place' = "unlink2" /\ OnCpu' /\ list = Console
      /\ app \in Tid \ {Console} /\ next \in [Tid -> Ptr] /\ prec \in [Tid -> Ptr] /\ n_proc \in Int
      /\ RemovesCur'
  BY <1>1, OnUnlink DEF Unlinking
<1>3. PICK n \in 1..n_proc : \E ring \in [1..n -> Tid] : ProcSeq(ring, n)
  BY DEF RingInv
<1>4. PICK ring \in [1..n -> Tid] : ProcSeq(ring, n)
  BY <1>3
<1>5. /\ n \in Nat \ {0} /\ n_proc = n /\ ring[1] = Console /\ Distinct(ring, n)
      /\ Linked(ring, n, next, prec)
  BY <1>2, <1>3, <1>4 DEF ProcSeq, Back
<1>6. PICK k \in 1..n : app = ring[k]
  BY <1>2, <1>4 DEF ProcSeq, Members
<1>7. k \in 2..n /\ k - 1 \in 1..n /\ k - 1 # k /\ n - 1 \in Nat \ {0}
  BY ONLY <1>2, <1>5, <1>6, k \in 1..n
<1>8. prec[app] = ring[k - 1] /\ prec[app] # app
  <2>1. k # 1
    BY ONLY <1>7
  <2>2. prec[ring[k]] = ring[k - 1]
    BY <1>5, <2>1, Zenon DEF Linked
  <2>3. ring[k - 1] # ring[k]
    BY ONLY <1>5, <1>7 DEF Distinct
  <2>4. QED BY <1>6, <2>2, <2>3, Zenon
<1>9. PICK m \in 1..n : m # k /\ next[app] = ring[m]
  <2>1. PICK m : m = IF k = n THEN 1 ELSE k + 1
    OBVIOUS
  <2>2. m \in 1..n /\ m # k
    BY ONLY <1>5, <1>7, <2>1
  <2>3. next[ring[k]] = ring[m]
    BY <1>5, <2>1, Zenon DEF Linked
  <2>4. QED BY <1>6, <2>2, <2>3, Zenon
<1>10. next[app] \in Tid /\ prec[app] \in Tid
  BY <1>7, <1>8, <1>9
<1>11. next'[app] = next[app] /\ Back' = [prec EXCEPT ![next[app]] = prec[app]]
  BY <1>1, <1>2, <1>8, <1>10 DEF Back
<1>12. Unlinked(Tid, ring[k], next, prec, next', Back')
  BY ONLY <1>1, <1>2, <1>6, <1>10, <1>11 DEF Unlinked
<1>13. PICK s : s = Delete(ring, n, k)
  OBVIOUS
<1>14. s \in [1..(n - 1) -> Tid] /\ s[1] = Console
  <2>1. Deleted(s, Tid, ring, n, k)
    BY <1>5, <1>13, DeleteAt
  <2>2. 1 \in 1..(k - 1)
    BY ONLY <1>7
  <2>3. QED BY <1>5, <2>1, <2>2 DEF Deleted
<1>15. Distinct(s, n - 1) /\ AllBut(s, ring, n, k)
  BY <1>5, <1>13, DeleteDistinct
<1>16. Linked(s, n - 1, next', Back')
  BY ONLY <1>5, <1>7, <1>12, <1>13, DeleteLinked, ring \in [1..n -> Tid]
<1>17. list \in Members(s, n - 1) /\ app \notin Members(s, n - 1) /\ next[app] \in Members(s, n - 1)
  <2>1. list = s[1] /\ 1 \in 1..(n - 1)
    BY ONLY <1>2, <1>7, <1>14
  <2>2. \A j \in 1..(n - 1) : s[j] # app
    <3>1. SUFFICES ASSUME NEW j \in 1..(n - 1) PROVE s[j] # app
      OBVIOUS
    <3>2. PICK q \in 1..n : q # k /\ s[j] = ring[q]
      BY <1>15 DEF AllBut
    <3>3. QED BY ONLY <1>5, <1>6, <3>2, k \in 1..n DEF Distinct
  <2>3. PICK j \in 1..(n - 1) : next[app] = s[j]
    BY <1>9, <1>15 DEF AllBut
  <2>4. QED BY <2>1, <2>2, <2>3 DEF Members
<1>18. ProcSeq(s, n - 1)'
  <2>1. (n - 1) + 1 = n_proc'
    BY ONLY <1>1, <1>5
  <2>2. Linked(s, n - 1, next, Back)'
    BY ONLY <1>16 DEF Linked
  <2>3. QED BY <1>1, <1>2, <1>11, <1>14, <1>15, <1>17, <2>1, <2>2 DEF ProcSeq, Distinct, Members, CutAt
<1>19. n - 1 \in 1..n_proc'
  BY ONLY <1>1, <1>5, <1>7
<1>20. QED BY <1>2, <1>14, <1>18, <1>19 DEF RingInv

(* The other three statements.                                             *)
LEMMA UnlinksKeepRing ==
    ASSUME Links, Agree \/ Astray \/ Doomed, RingInv, Unlink2 \/ Unlink3 \/ Unlink4
    PROVE  RingInv'
<1> USE DEF procVars, procData, ringVars, cpuVars, locals
<1>1. /\ ~walking /\ cpu.at \in CutAt /\ cpu'.owner = cpu.owner
      /\ cpu'.at = (IF cpu.at = "unlink2" THEN "unlink3" ELSE IF cpu.at = "unlink3" THEN "unlink4" ELSE "rmfree")
      /\ prec' = (IF cpu.at = "unlink2" THEN [prec EXCEPT ![next[app]] = prec[app]] ELSE prec)
      /\ n_proc' = (IF cpu.at = "unlink3" THEN n_proc - 1 ELSE n_proc)
      /\ list' = (IF cpu.at = "unlink4" THEN next[app] ELSE list)
      /\ UNCHANGED <<next, walking, esp_kernel, app, cur>>
  <2> USE DEF Running, Goto, Links, LinkTypes, Context, CutAt
  <2>1. CASE Unlink2
    BY <2>1 DEF Unlink2
  <2>2. CASE Unlink3
    BY <2>2 DEF Unlink3
  <2>3. CASE Unlink4
    BY <2>3 DEF Unlink4
  <2>4. QED BY <2>1, <2>2, <2>3
<1>2. cpu.at \in Unlinking /\ cpu'.at \in Unlinking \cup {"rmfree"} /\ (cpu'.at = "unlink1" <=> FALSE)
      /\ (cpu'.at \in Unlinking => cpu.at # "unlink4")
  BY <1>1 DEF CutAt, Unlinking
<1>3. /\ Place = cpu.at /\ Place' = cpu'.at /\ list = Console /\ app = cur
      /\ n_proc \in Int /\ RemovesCur'
  BY <1>1, <1>2, OnUnlink
<1>4. PICK n \in 1..n_proc : \E ring \in [1..n -> Tid] : ProcSeq(ring, n)
  BY DEF RingInv
<1>5. PICK ring \in [1..n -> Tid] : ProcSeq(ring, n)
  BY <1>4
<1>6. Back' = Back
  BY <1>1, <1>3 DEF Back, CutAt
<1>7. Linked(ring, n, next, Back)'
  BY ONLY <1>1, <1>5, <1>6 DEF ProcSeq, Linked
<1>8. /\ n \in 1..n_proc'
      /\ n_proc' = IF Place' \in {"unlink2", "unlink3"} THEN n + 1 ELSE n
  BY <1>1, <1>3, <1>4, <1>5 DEF ProcSeq, CutAt
<1>9. /\ app \notin Members(ring, n) /\ next[app] \in Members(ring, n) /\ list' \in Members(ring, n)
  BY <1>1, <1>3, <1>5 DEF ProcSeq
<1>10. ProcSeq(ring, n)'
  BY <1>1, <1>2, <1>3, <1>5, <1>7, <1>8, <1>9 DEF ProcSeq, Distinct, Members
<1>11. QED BY <1>3, <1>8, <1>10 DEF RingInv

(* A switch takes list one process on.  When the console was astray, its   *)
(* context is saved in another process, and that is the end of its place.  *)
LEMMA TickSwitchRing ==
    ASSUME Links, Agree \/ Astray \/ Doomed, RingInv, TickSwitch
    PROVE  RingInv'
<1> DEFINE c == CurThread
<1>1. ~walking /\ UNCHANGED <<next, prec, n_proc, cpu, app, cur>> /\ n_proc \in Int
  BY DEF TickSwitch, procData, ringVars, locals, Links, LinkTypes
<1>2. cpu.at \in ConsoleAt \cup OthersAt /\ list \in InRing
  BY <1>1, RunsAt
<1>3. /\ list' = next[list] /\ walking' /\ c \in Tid /\ parent[c] = list /\ esp_kernel'[c] = cpu
      /\ \A t \in Tid : t # c => esp_kernel'[t] = esp_kernel[t]
  BY <1>2, SwitchLinks
<1>4. (cpu.at \in ConsoleAt => cpu.at \notin OthersAt) /\ "wild" \notin ConsoleAt \cup OthersAt
  BY DEF ConsoleAt, OthersAt, UserAt, Unlinking
<1>5. CASE Agree
  <2>1. c = cpu.owner /\ (\A t \in Tid : esp_kernel[t] = NoContext \/ esp_kernel[t].owner = t)
    BY <1>1, <1>5 DEF Agree, SavedContextOwn
  <2> HIDE DEF c
  <2>2. ~Stale(Console) /\ ~Stale(Console)'
    BY <1>3, <2>1 DEF Stale, NoContext
  <2>3. ConsoleIs' = ConsoleIs
    BY <1>1, <1>3, <2>1 DEF ConsoleIs
  <2>4. Place' = Place
    BY <1>2, <1>3, <1>4, <2>2, <2>3 DEF Place
  <2>5. QED BY <1>1, <1>3, <2>4, RingKept DEF OnCpu
<1>6. CASE Astray \/ Doomed
  <2>1. PICK u \in Tid \ {Console} : esp_kernel'[u].owner = Console
    <3>1. CASE Astray
      <4>1. cpu.owner = Console /\ list # Console /\ parent[Console] = Console
        BY <3>1 DEF Astray, OnConsole, Links, ConsoleOwn
      <4>2. QED BY <1>3, <4>1
    <3>2. CASE Doomed
      <4>1. PICK u \in Tid \ {Console} : esp_kernel[u].owner = Console /\ list # parent[u]
        BY <3>2 DEF Doomed
      <4>2. QED BY <1>3, <4>1
    <3>3. QED BY <1>6, <3>1, <3>2
  <2>2. Stale(Console)' /\ Place' = "none"
    BY <2>1 DEF Stale, Place
  <2>3. Place \notin Unlinking
    <3>1. CASE Astray
      <4>1. Place = cpu.at /\ OnCpu /\ list # Console
        BY <3>1, PlaceIs DEF Astray
      <4>2. QED BY <4>1 DEF RingInv, RemovesCur
    <3>2. CASE Doomed
      <4>1. Stale(Console)
        BY <3>2 DEF Doomed, Stale
      <4>2. QED BY <4>1 DEF Place, Unlinking
    <3>3. QED BY <1>6, <3>1, <3>2
  <2> HIDE DEF c
  <2>4. Place' \notin Unlinking
    BY <2>2 DEF Unlinking
  <2>5. QED BY <1>1, <1>3, <2>3, <2>4, RingKept DEF OnCpu
<1>7. QED BY <1>5, <1>6

(* Skipping a stopped process takes list one process on.                   *)
LEMMA SchedWalkRing ==
    ASSUME Links, RingInv, SchedWalk
    PROVE  RingInv'
<1>1. /\ walking /\ walking' = walking /\ list' = next[list] /\ n_proc \in Int
      /\ UNCHANGED <<n_proc, next, prec, esp_kernel, cpu, app, cur>>
  BY DEF SchedWalk, procData, ringVars, cpuVars, locals, Links, LinkTypes
<1>2. Place' = Place
  BY <1>1 DEF Place, Stale, ConsoleIs
<1>3. QED BY <1>1, <1>2, RingKept DEF OnCpu

(* The console is loaded only when list is its process, or as undefined.   *)
LEMMA SchedLoadRing ==
    ASSUME Links, Agree \/ Astray \/ Doomed, RingInv, SchedLoad
    PROVE  RingInv'
<1> DEFINE c == CurThread
<1>1. /\ walking /\ ~walking' /\ n_proc \in Int
      /\ cpu' = IF Stale(c) THEN [esp_kernel[c] EXCEPT !.at = "wild"] ELSE esp_kernel[c]
      /\ UNCHANGED <<list, n_proc, next, prec, esp_kernel, app, cur>>
  BY DEF SchedLoad, procVars, procData, ringVars, locals, Links, LinkTypes
<1>2. (Agree \/ Doomed) /\ list \in InRing
  BY <1>1 DEF Astray, OnConsole, Agree, Doomed
<1>3. c \in Tid /\ Made(c) /\ parent[c] = list /\ list # NULL
  BY <1>2 DEF Links, ThreadLists, ProcLinks, CurThread, InRing, NULL
<1>4. c = Console <=> list = Console
  BY <1>3 DEF Links, ThreadLinks, ConsoleOwn
<1> HIDE DEF c
<1>5. esp_kernel[c] \in Context
  BY <1>3 DEF Links, LinkTypes
<1>6. list # Console => cpu'.at \in OthersAt \cup {"wild"}
  <2>1. ASSUME list # Console PROVE esp_kernel[c].at \in OthersAt
    <3>1. CASE Agree
      BY <1>3, <1>4, <2>1, <3>1 DEF Agree, SavedAt
    <3>2. CASE Doomed
      BY <1>3, <1>4, <2>1, <3>2 DEF Doomed, SavedAt
    <3>3. QED BY <1>2, <3>1, <3>2
  <2>2. CASE Stale(c)
    BY <1>1, <1>5, <2>2 DEF Context
  <2>3. CASE ~Stale(c)
    BY <1>1, <2>1, <2>3
  <2>4. QED BY <2>2, <2>3
<1>7. list # Console => cpu'.at \notin Unlinking /\ cpu'.at \notin {"rm", "rmfree"}
  BY <1>6 DEF OthersAt, UserAt, Unlinking
<1>8. Place' = Place \/ (Place \notin Unlinking /\ Place' \notin Unlinking)
  <2>1. CASE Stale(Console)
    <3>1. Stale(Console)'
      BY <1>1, <2>1 DEF Stale
    <3>2. QED BY <2>1, <3>1 DEF Place
  <2>2. CASE ~Stale(Console)
    <3>1. Agree
      BY <1>2, <2>2 DEF Doomed, Stale
    <3>2. ~Stale(c) /\ esp_kernel[c].owner = c
      BY <1>3, <3>1 DEF Agree, SavedContextOwn, Stale, NoContext, Made
    <3>3. cpu' = esp_kernel[c]
      BY <1>1, <3>2
    <3>4. ConsoleIs' = ConsoleIs
      BY <1>1, <3>2, <3>3 DEF ConsoleIs
    <3>5. cpu'.at # "wild"
      <4>1. esp_kernel[Console].at \in ConsoleAt /\ (c # Console => esp_kernel[c].at \in OthersAt)
        BY <1>3, <3>1 DEF Agree, SavedAt
      <4>2. QED BY <3>3, <4>1 DEF ConsoleAt, OthersAt, UserAt, Unlinking
    <3>6. ~Stale(Console)'
      BY <1>1, <2>2 DEF Stale
    <3>7. QED BY <1>1, <2>2, <3>4, <3>5, <3>6 DEF Place
  <2>3. QED BY <2>1, <2>2
<1>9. QED BY <1>1, <1>7, <1>8, RingKept

(* System calls leave the ring of processes alone.                         *)
LEMMA UserKeepsRing ==
    ASSUME Links, Agree \/ Astray \/ Doomed, RingInv, User
    PROVE  RingInv'
<1>1. /\ ~walking /\ cpu.at \in OthersAt /\ cpu'.owner = cpu.owner /\ cpu'.at \in OthersAt
      /\ UNCHANGED <<list, next, prec, n_proc, walking, app, cur>>
      /\ esp_kernel' = esp_kernel \/ esp_kernel' = [esp_kernel EXCEPT ![pid] = [owner |-> pid, at |-> "user"]]
  <2> USE DEF Running, Goto, Spin, Links, LinkTypes, Context, OthersAt, UserAt,
              procVars, procData, ringVars, cpuVars, locals
  <2>1. CASE Fork
    BY <2>1 DEF Fork
  <2>2. CASE ForkNoThread
    BY <2>2 DEF ForkNoThread
  <2>3. CASE ForkNoMemory
    BY <2>3 DEF ForkNoMemory
  <2>4. CASE ExitThread
    BY <2>4 DEF ExitThread
  <2>5. CASE EndProc
    BY <2>5 DEF EndProc
  <2>6. CASE GetsBegin \/ GetsEnd
    BY <2>6 DEF GetsBegin, GetsEnd
  <2>7. QED BY <2>1, <2>2, <2>3, <2>4, <2>5, <2>6 DEF User
<1>2. /\ pid # Console /\ n_proc \in Int /\ esp_kernel \in [Tid -> Context]
      /\ pid \in Tid => esp_kernel[pid].owner = NULL
  BY DEF Links, LinkTypes, Unused, Made, NoContext
<1>3. /\ esp_kernel'[Console] = esp_kernel[Console]
      /\ \A t \in Tid : esp_kernel'[t].owner = Console <=> esp_kernel[t].owner = Console
  BY <1>1, <1>2 DEF NULL, Console
<1>4. Stale(Console)' <=> Stale(Console)
  BY <1>3 DEF Stale
<1>5. cpu'.at # "wild" /\ cpu.at # "wild" /\ cpu.at \notin ConsoleAt
      /\ cpu'.at \notin Unlinking /\ cpu'.at \notin {"rm", "rmfree"}
  BY <1>1 DEF ConsoleAt, OthersAt, UserAt, Unlinking
<1>6. Place' = Place
  <2>1. CASE Doomed
    <3>1. Stale(Console)
      BY <2>1 DEF Doomed, Stale
    <3>2. QED BY <1>4, <3>1 DEF Place
  <2>2. CASE Agree
    <3>1. cpu.owner # Console
      BY <1>1, <1>5, <2>2 DEF Agree
    <3>2. ConsoleIs' = ConsoleIs
      BY <1>1, <1>3, <3>1 DEF ConsoleIs
    <3>3. QED BY <1>1, <1>4, <1>5, <3>2 DEF Place
  <2>3. ~Astray
    BY <1>5 DEF Astray, OnConsole
  <2>4. QED BY <2>1, <2>2, <2>3
<1>7. QED BY <1>1, <1>2, <1>5, <1>6, RingKept

(* RingInv is inductive beside ContextInv.                                 *)
LEMMA NextRing == ContextInv /\ RingInv /\ [Next]_vars => RingInv'
<1> SUFFICES ASSUME ContextInv, RingInv, [Next]_vars PROVE RingInv'
  OBVIOUS
<1>1. CASE UNCHANGED vars
  BY <1>1, SameRing DEF vars, procVars, cpuVars, locals
<1>2. CASE Lost
  BY <1>1, <1>2, LostStops
<1>3. CASE Links /\ (Agree \/ Astray \/ Doomed)
  <2> USE <1>3
  <2>1. CASE Timer
    <3>1. CASE TickQuiet
      BY <3>1, SameRing DEF TickQuiet, procVars, cpuVars, locals
    <3>2. QED BY <2>1, <3>1, TickSwitchRing DEF Timer
  <2>2. CASE Switch
    BY <2>2, SchedWalkRing, SchedLoadRing DEF Switch
  <2>3. CASE Boot \/ Start
    BY <2>3, CommandsKeepRing
  <2>4. CASE Wait
    BY <2>4, CommandsKeepRing, SchedAddRing DEF Wait
  <2>5. CASE Remove
    BY <2>5, LoopKeepsRing, RemoveMainRing, Unlink1Ring, UnlinksKeepRing DEF Remove, Unlink
  <2>6. CASE User
    BY <2>6, UserKeepsRing
  <2>7. QED BY <1>1, <2>1, <2>2, <2>3, <2>4, <2>5, <2>6 DEF Next, Undefined
<1>4. QED BY <1>2, <1>3 DEF ContextInv

(* In both modes the processes are one cycle, linked both ways, but for    *)
(* the statements of sched_remove_proc.                                    *)
THEOREM RingInvariant == Spec => []RingInv
<1>1. QED BY InitContext, NextContext, InitRing, NextRing, PTL DEF Spec

(* The walks of get_proc_by_id and print_procs see each process once, in   *)
(* both modes, also after list was moved under the console, at every       *)
(* instant the timer can strike but between the statements of              *)
(* sched_remove_proc.                                                      *)
THEOREM RingOfProcesses == Spec => []ProcRing
<1>1. ASSUME RingInv PROVE ProcRing
  <2>1. SUFFICES ASSUME ConsoleIs \notin CutAt
                 PROVE  /\ Cardinality(ProcsVisited) = n_proc
                        /\ \A p \in ProcsVisited : next[p] \in ProcsVisited /\ prec[next[p]] = p
    BY DEF ProcRing, CutAt
  <2>2. PICK n \in 1..n_proc : \E ring \in [1..n -> Tid] : ProcSeq(ring, n)
    BY <1>1 DEF RingInv
  <2>3. PICK ring \in [1..n -> Tid] : ProcSeq(ring, n)
    BY <2>2
  <2>4. Place \notin CutAt
    BY <2>1 DEF Place, CutAt
  <2>5. /\ n \in Nat \ {0} /\ n_proc = n /\ Distinct(ring, n) /\ Linked(ring, n, next, prec)
    BY <2>2, <2>3, <2>4 DEF ProcSeq, Back, CutAt
  <2>6. PICK k \in 1..n : list = ring[k]
    BY <2>3 DEF ProcSeq, Members
  <2>7. ProcsVisited = Members(ring, n)
    <3>1. Visited(next, ring[k], n - 1) = Members(ring, n)
      BY ONLY <2>5, RingVisited, n \in Nat \ {0}, ring \in [1..n -> Tid], k \in 1..n, Zenon
    <3>2. QED BY <2>5, <2>6, <3>1 DEF ProcsVisited
  <2>8. Cardinality(Members(ring, n)) = n
    BY <2>5, RingCount
  <2>9. ASSUME NEW p \in Members(ring, n) PROVE next[p] \in Members(ring, n) /\ prec[next[p]] = p
    <3>1. PICK j \in 1..n : p = ring[j]
      BY DEF Members
    <3>2. PICK m \in 1..n : m = IF j = n THEN 1 ELSE j + 1
      BY <2>5
    <3>3. next[ring[j]] = ring[m] /\ prec[ring[m]] = ring[IF m = 1 THEN n ELSE m - 1]
      BY ONLY <2>5, <3>2, j \in 1..n, m \in 1..n DEF Linked
    <3>4. (IF m = 1 THEN n ELSE m - 1) = j
      BY ONLY <2>5, <3>2, j \in 1..n
    <3>5. QED BY <3>1, <3>3, <3>4 DEF Members
  <2>10. QED BY <2>5, <2>7, <2>8, <2>9
<1>2. QED BY <1>1, RingInvariant, PTL
=============================================================================
