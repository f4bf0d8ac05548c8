--------------------------- MODULE RustScanProofs ---------------------------
(***************************************************************************)
(* Proofs about RustScan for every port list, every concurrency, every     *)
(* number of descriptors and whichever threads the system refuses.  IInv   *)
(* is inductive: InitInv and NextInv prove it one action at a time, and    *)
(* the properties follow from it.                                          *)
(***************************************************************************)
EXTENDS RustScan, FiniteSetTheorems, TLAPS

Elems(q) == {q[k] : k \in DOMAIN q}
Distinct(q) == \A j, k \in DOMAIN q : q[j] = q[k] => j = k

(* No task waits twice, for a permit or for a thread, and every closure    *)
(* that was handed to the pool is in its queue.                            *)
QueuesAgree ==
    /\ Distinct(waiters)
    /\ Distinct(queue)
    /\ Elems(queue) = In({"queued"})

(* The tasks spawned so far are the first ones.                            *)
SpawnedInOrder ==
    /\ \A i \in Index : task[i] = "none" <=> i >= spawned
    /\ phase # "spawn" => spawned = TaskCount

(* A closure that has returned left its verdict and its result.            *)
TaskLeavesResult ==
    \A i \in Index :
        IF task[i] \in {"probed", "done"}
        THEN verdict[i] \in PortState /\ outcome[i] = [port |-> Items[i], state |-> verdict[i]]
        ELSE verdict[i] = Unset

(* What was awaited was done, and only a complete list is printed.         *)
AwaitedAreDone ==
    /\ Len(results) <= TaskCount
    /\ \A k \in 1 .. Len(results) : task[k - 1] = "done"
    /\ phase = "exit" => Len(results) = TaskCount

(* A socket is only cloned for a banner that was asked for.                *)
ClonesAreForBanners == ~banner => In({"stream"}) = {}

(* No more closures run than there are threads, and a task only panics at  *)
(* a refusal, with its closure handed over and not awaited.                *)
ThreadsAgree ==
    /\ Cardinality(Probing) <= threads
    /\ ~refused => panicked = {}
    /\ \A i \in panicked : task[i] \in {"queued", "probing", "socket", "stream", "probed"}

(* The inductive invariant.                                                *)
IInv ==
    /\ TypeOK
    /\ PermitsAreConserved
    /\ PermitMeansThread
    /\ AwaitedInOrder
    /\ EnoughDescriptors
    /\ QueuesAgree
    /\ SpawnedInOrder
    /\ TaskLeavesResult
    /\ AwaitedAreDone
    /\ ClonesAreForBanners
    /\ ThreadsAgree

States == {"none", "new", "waiting", "permit", "queued", "probing", "socket", "stream", "probed", "done"}


-----------------------------------------------------------------------------
(* First-in, first-out queues of tasks.                                    *)

(* An element that joins a queue joins its elements.                       *)
LEMMA Pushed ==
    ASSUME NEW S, NEW q \in Seq(S), Distinct(q), NEW i \in S, i \notin Elems(q)
    PROVE  /\ Append(q, i) \in Seq(S)
           /\ Distinct(Append(q, i))
           /\ Elems(Append(q, i)) = Elems(q) \cup {i}
<1> DEFINE r == Append(q, i)
<1>1. /\ r \in Seq(S) /\ Len(r) = Len(q) + 1 /\ Len(q) \in Nat
      /\ DOMAIN r = 1 .. Len(q) + 1 /\ DOMAIN q = 1 .. Len(q)
      /\ \A k \in 1 .. Len(q) : r[k] = q[k]
      /\ r[Len(q) + 1] = i
  OBVIOUS
<1> HIDE DEF r
<1>2. Distinct(r)
  BY <1>1 DEF Distinct, Elems
<1>3. Elems(r) = Elems(q) \cup {i}
  BY <1>1 DEF Elems
<1> QED
  BY <1>1, <1>2, <1>3 DEF r

(* The head of a queue leaves it, and its elements.                        *)
LEMMA Popped ==
    ASSUME NEW S, NEW q \in Seq(S), Distinct(q), q # <<>>
    PROVE  /\ Head(q) \in S /\ Head(q) \in Elems(q)
           /\ Tail(q) \in Seq(S)
           /\ Distinct(Tail(q))
           /\ Elems(Tail(q)) = Elems(q) \ {Head(q)}
<1> DEFINE r == Tail(q)
           n == Len(q) - 1
<1>1. /\ Len(q) \in Nat \ {0} /\ DOMAIN q = 1 .. Len(q)
      /\ Head(q) = q[1] /\ q[1] \in S
  OBVIOUS
<1>2. r \in Seq(S) /\ Len(r) = n
  OBVIOUS
<1>3. n \in Nat /\ DOMAIN q = 1 .. n + 1
  BY <1>1
<1>4. DOMAIN r = 1 .. n
  BY <1>2
<1>5. \A k \in 1 .. n : r[k] = q[k + 1]
  OBVIOUS
<1> HIDE DEF r, n
<1>6. Distinct(r)
  <2> SUFFICES ASSUME NEW j \in 1 .. n, NEW k \in 1 .. n, r[j] = r[k] PROVE j = k
    BY <1>4 DEF Distinct
  <2>1. j + 1 \in DOMAIN q /\ k + 1 \in DOMAIN q /\ q[j + 1] = q[k + 1]
    BY <1>3, <1>5
  <2>2. j + 1 = k + 1
    BY <2>1 DEF Distinct
  <2> QED
    BY <1>3, <2>2
<1>7. Elems(r) = Elems(q) \ {Head(q)}
  <2>1. ASSUME NEW k \in 1 .. n PROVE r[k] \in Elems(q) \ {Head(q)}
    <3>1. k + 1 \in DOMAIN q /\ 1 \in DOMAIN q /\ k + 1 # 1 /\ r[k] = q[k + 1]
      BY <1>3, <1>5
    <3>2. q[k + 1] # q[1]
      BY <3>1 DEF Distinct
    <3> QED
      BY <1>1, <3>1, <3>2 DEF Elems
  <2>2. ASSUME NEW k \in DOMAIN q, q[k] # Head(q) PROVE q[k] \in Elems(r)
    <3>1. k - 1 \in 1 .. n /\ r[k - 1] = q[k]
      BY <1>1, <1>3, <1>5, <2>2
    <3> QED
      BY <1>4, <3>1 DEF Elems
  <2> QED
    BY <1>4, <2>1, <2>2 DEF Elems
<1>8. Head(q) \in Elems(q)
  BY <1>1 DEF Elems
<1> QED
  BY <1>1, <1>2, <1>6, <1>7, <1>8 DEF r

(* A queue is as long as it has elements.                                  *)
LEMMA QueueLength ==
    ASSUME NEW S, NEW q \in Seq(S), Distinct(q)
    PROVE  IsFiniteSet(Elems(q)) /\ Len(q) \in Nat /\ Cardinality(Elems(q)) = Len(q)
<1>1. Len(q) \in Nat /\ DOMAIN q = 1 .. Len(q) /\ q \in [1 .. Len(q) -> S]
  OBVIOUS
<1>2. q \in [1 .. Len(q) -> Elems(q)]
  BY <1>1 DEF Elems
<1>3. q \in Bijection(1 .. Len(q), Elems(q))
  BY <1>1, <1>2 DEF Bijection, Injection, IsInjective, Surjection, Elems, Distinct
<1>4. IsFiniteSet(1 .. Len(q)) /\ Cardinality(1 .. Len(q)) = Len(q)
  BY <1>1, FS_Interval
<1>5. IsFiniteSet(Elems(q)) /\ Cardinality(Elems(q)) = Cardinality(1 .. Len(q))
  <2>1. ExistsBijection(1 .. Len(q), Elems(q))
    BY <1>3 DEF ExistsBijection
  <2> QED
    BY <2>1, <1>4, FS_Bijection
<1> QED
  BY <1>1, <1>4, <1>5

USE DEF Index, PortState, In, Probing, options, pool, probes, max_blocking_threads

-----------------------------------------------------------------------------
(* There are finitely many tasks, so every set of them can be counted.     *)
LEMMA FiniteTasks ==
    ASSUME NEW S \in SUBSET Index
    PROVE  IsFiniteSet(S) /\ Cardinality(S) \in Nat
<1>1. IsFiniteSet(Index)
  BY ScanAssumption, FS_Interval
<1>2. IsFiniteSet(S)
  BY <1>1, FS_Subset
<1> QED
  BY <1>2, FS_CardinalityType

(* Tasks that hold permits are no more than --concurrency.                 *)
LEMMA HoldersAreBounded ==
    ASSUME IInv, NEW S \in SUBSET Holders
    PROVE  Cardinality(S) \in Nat /\ concurrency \in Nat /\ Cardinality(S) <= concurrency
<1>1. concurrency \in Nat /\ permits \in Nat /\ permits + Cardinality(Holders) = concurrency
  BY ScanAssumption DEF IInv, TypeOK, PermitsAreConserved
<1>2. Holders \subseteq Index
  BY DEF Holders
<1>3. IsFiniteSet(Holders) /\ Cardinality(Holders) \in Nat
  BY <1>2, FiniteTasks
<1>4. Cardinality(S) <= Cardinality(Holders) /\ Cardinality(S) \in Nat
  BY <1>2, <1>3, FiniteTasks, FS_Subset
<1> QED
  BY <1>1, <1>3, <1>4

(* A step that changes neither the pool nor the closures that run.         *)
LEMMA PoolStays ==
    ASSUME IInv, UNCHANGED <<threads, refused, panicked, queue>>, Probing' = Probing,
           \A j \in panicked : task'[j] = task[j] \/ task'[j] \in {"probing", "socket", "stream", "probed"}
    PROVE  ThreadsAgree' /\ PermitMeansThread'
<1>1. ThreadsAgree'
  BY DEF IInv, TypeOK, ThreadsAgree
<1>2. PermitMeansThread'
  BY DEF IInv, PermitMeansThread
<1> QED
  BY <1>1, <1>2

(* IInv holds when the caller enters scan_ports.                           *)
LEMMA InitInv == Init => IInv
<1> SUFFICES ASSUME Init PROVE IInv
  OBVIOUS
<1> USE ScanAssumption DEF Init
<1>1. TypeOK
  BY DEF TypeOK
<1>2. PermitsAreConserved
  <2>1. Holders = {}
    BY DEF Holders
  <2> QED
    BY <2>1, FS_EmptySet DEF PermitsAreConserved
<1>3. AwaitedInOrder /\ EnoughDescriptors /\ AwaitedAreDone /\ ClonesAreForBanners
  BY DEF AwaitedInOrder, EnoughDescriptors, AwaitedAreDone, ClonesAreForBanners
<1>4. QueuesAgree /\ SpawnedInOrder /\ TaskLeavesResult
  BY DEF QueuesAgree, Distinct, Elems, SpawnedInOrder, TaskLeavesResult
<1>5. ThreadsAgree /\ PermitMeansThread
  <2>1. Probing = {} /\ Cardinality(Probing) = 0
    BY FS_EmptySet
  <2> QED
    BY <2>1 DEF ThreadsAgree, PermitMeansThread
<1> QED
  BY <1>1, <1>2, <1>3, <1>4, <1>5 DEF IInv

LEMMA SpawnKeepsInv == IInv /\ SpawnTask => IInv'
<1> SUFFICES ASSUME IInv, SpawnTask PROVE IInv'
  OBVIOUS
<1> USE ScanAssumption DEF IInv, SpawnTask
<1>1. spawned \in Index /\ task[spawned] = "none" /\ task \in [Index -> States]
  BY DEF TypeOK, SpawnedInOrder, States
<1>2. \A i \in Index : task'[i] = IF i = spawned THEN "new" ELSE task[i]
  BY <1>1
<1>3. TypeOK'
  BY <1>1 DEF TypeOK
<1>4. PermitsAreConserved'
  <2>1. Holders' = Holders /\ In({"waiting"})' = In({"waiting"})
    BY <1>1, <1>2 DEF Holders
  <2> QED
    BY <2>1 DEF PermitsAreConserved
<1>5. AwaitedInOrder' /\ EnoughDescriptors' /\ ClonesAreForBanners'
  BY <1>1, <1>2 DEF AwaitedInOrder, EnoughDescriptors, ClonesAreForBanners
<1>6. QueuesAgree'
  <2>1. In({"queued"})' = In({"queued"})
    BY <1>1, <1>2
  <2> QED
    BY <2>1 DEF QueuesAgree, Elems
<1>7. SpawnedInOrder' /\ TaskLeavesResult'
  BY <1>1, <1>2 DEF SpawnedInOrder, TaskLeavesResult
<1>8. AwaitedAreDone'
  <2>1. \A k \in 1 .. Len(results) : k - 1 \in Index /\ task[k - 1] = "done"
    BY DEF AwaitedAreDone, TypeOK
  <2> QED
    BY <1>1, <1>2, <2>1 DEF AwaitedAreDone
<1>9. ThreadsAgree' /\ PermitMeansThread'
  <2>1. Probing' = Probing
    BY <1>1, <1>2
  <2>2. \A j \in panicked : task'[j] = task[j]
    BY <1>1, <1>2 DEF ThreadsAgree, TypeOK
  <2> QED
    BY <2>1, <2>2, PoolStays
<1> QED
  BY <1>3, <1>4, <1>5, <1>6, <1>7, <1>8, <1>9

(* The caller's other steps leave the tasks alone.                         *)
LEMMA CallerKeepsInv == IInv /\ (AllSpawned \/ AwaitTask \/ AwaitPanics \/ ProcessEnds \/ PrintReport) => IInv'
<1> SUFFICES ASSUME IInv, AllSpawned \/ AwaitTask \/ AwaitPanics \/ ProcessEnds \/ PrintReport PROVE IInv'
  OBVIOUS
<1> USE ScanAssumption DEF IInv
<1>1. UNCHANGED <<concurrency, banner, spawned, task, permits, waiters, queue, threads, refused, panicked,
                 starved, outcome, verdict>>
  BY DEF AllSpawned, AwaitTask, AwaitPanics, ProcessEnds, PrintReport
<1>2. TypeOK' /\ AwaitedInOrder' /\ AwaitedAreDone'
  <2>1. CASE AllSpawned
    BY <1>1, <2>1 DEF AllSpawned, TypeOK, AwaitedInOrder, AwaitedAreDone
  <2>2. CASE AwaitTask
    <3> DEFINE n == Len(results)
               o == outcome[n]
    <3>1. /\ results \in Seq(Result) /\ n \in Index
          /\ verdict[n] \in PortState /\ o = [port |-> Items[n], state |-> verdict[n]]
          /\ task[n] = "done" /\ phase # "exit" /\ phase' = phase /\ report' = report
          /\ results' = Append(results, o)
      BY <2>2 DEF AwaitTask, TypeOK, TaskLeavesResult, options, probes
    <3>2. o \in Result
      BY <3>1 DEF Result
    <3>3. results' \in Seq(Result) /\ Len(results') = n + 1 /\ results'[n + 1] = o
      BY <3>1, <3>2
    <3>4. \A k \in 1 .. n : results'[k] = results[k]
      BY <3>1, <3>2
    <3>5. TypeOK'
      BY <1>1, <3>1, <3>3 DEF TypeOK
    <3>6. AwaitedInOrder'
      <4> SUFFICES ASSUME NEW k \in 1 .. n + 1
                   PROVE  results'[k] = [port |-> Items[k - 1], state |-> verdict[k - 1]]
        BY <1>1, <3>3 DEF AwaitedInOrder
      <4>1. CASE k \in 1 .. n
        BY <3>4, <4>1 DEF AwaitedInOrder
      <4>2. CASE k = n + 1
        BY <3>1, <3>3, <4>2
      <4> QED
        BY <3>1, <4>1, <4>2
    <3>7. AwaitedAreDone'
      <4>1. \A k \in 1 .. n + 1 : task[k - 1] = "done"
        BY <3>1 DEF AwaitedAreDone
      <4> QED
        BY <1>1, <3>1, <3>3, <4>1 DEF AwaitedAreDone
    <3> QED
      BY <3>5, <3>6, <3>7
  <2>3. CASE PrintReport
    BY <1>1, <2>3 DEF PrintReport, TypeOK, AwaitedInOrder, AwaitedAreDone
  <2>4. CASE AwaitPanics \/ ProcessEnds
    BY <1>1, <2>4 DEF AwaitPanics, ProcessEnds, TypeOK, AwaitedInOrder, AwaitedAreDone
  <2> QED
    BY <2>1, <2>2, <2>3, <2>4
<1>3. PermitsAreConserved'
  <2>1. Holders' = Holders
    BY <1>1 DEF Holders
  <2> QED
    BY <1>1, <2>1 DEF PermitsAreConserved
<1>4. EnoughDescriptors' /\ ClonesAreForBanners' /\ QueuesAgree' /\ TaskLeavesResult'
  BY <1>1 DEF EnoughDescriptors, ClonesAreForBanners, QueuesAgree, Elems, TaskLeavesResult
<1>5. SpawnedInOrder'
  BY <1>1 DEF SpawnedInOrder, AllSpawned, AwaitTask, AwaitPanics, ProcessEnds, PrintReport
<1>6. ThreadsAgree' /\ PermitMeansThread'
  BY <1>1, PoolStays
<1> QED
  BY <1>2, <1>3, <1>4, <1>5, <1>6

-----------------------------------------------------------------------------
(* A step of a task or of the pool never takes a task that is done back,   *)
(* and leaves what was awaited as it was.                                  *)
LEMMA TasksGoForward ==
    ASSUME IInv,
           \A j \in Index : /\ task[j] = "done" => task'[j] = "done" /\ verdict'[j] = verdict[j]
                            /\ task'[j] = "none" <=> task[j] = "none",
           UNCHANGED <<phase, concurrency, banner, spawned, results>>
    PROVE  SpawnedInOrder' /\ AwaitedAreDone' /\ AwaitedInOrder'
<1> USE ScanAssumption DEF IInv
<1>1. \A k \in 1 .. Len(results) : k - 1 \in Index /\ task[k - 1] = "done"
  BY DEF AwaitedAreDone, TypeOK
<1>2. SpawnedInOrder'
  BY DEF SpawnedInOrder
<1>3. AwaitedAreDone'
  BY <1>1 DEF AwaitedAreDone
<1>4. AwaitedInOrder'
  BY <1>1 DEF AwaitedInOrder
<1> QED
  BY <1>2, <1>3, <1>4

(* A permit goes from the semaphore to the task, or the task queues up.    *)
LEMMA AcquireKeepsInv == ASSUME IInv, NEW i \in Index, acquire_owned(i) PROVE IInv'
<1> USE ScanAssumption DEF IInv, acquire_owned
<1>0. task[i] = "new" /\ i \notin panicked
  BY DEF ThreadsAgree
<1>1. /\ task \in [Index -> States] /\ task[i] = "new" /\ permits \in Nat /\ concurrency \in Nat
      /\ waiters \in Seq(Index) /\ Elems(waiters) = In({"waiting"}) /\ i \notin panicked
      /\ UNCHANGED <<phase, concurrency, banner, spawned, queue, threads, refused, panicked,
                     starved, outcome, verdict, results, report>>
  BY <1>0 DEF TypeOK, States, PermitsAreConserved, Elems
<1>2. /\ \A j \in Index : j # i => task'[j] = task[j]
      /\ task'[i] = IF permits > 0 THEN "permit" ELSE "waiting"
      /\ task' \in [Index -> States]
  BY <1>1 DEF States
<1>3. /\ permits' \in 0 .. concurrency /\ waiters' \in Seq(Index) /\ Distinct(waiters')
      /\ Elems(waiters') = In({"waiting"})' /\ (permits' > 0 => waiters' = <<>>)
  <2>1. CASE permits > 0
    BY <1>1, <1>2, <2>1 DEF TypeOK, QueuesAgree, PermitsAreConserved
  <2>2. CASE ~(permits > 0)
    <3>1. i \notin Elems(waiters) /\ Distinct(waiters)
      BY <1>1 DEF QueuesAgree
    <3>2. waiters' = Append(waiters, i)
      BY <2>2
    <3>3. /\ waiters' \in Seq(Index) /\ Distinct(waiters')
          /\ Elems(waiters') = Elems(waiters) \cup {i}
      <4> HIDE DEF Index, In
      <4> QED
        BY <1>1, <3>1, <3>2, Pushed
    <3>4. In({"waiting"})' = In({"waiting"}) \cup {i}
      BY <1>2, <2>2
    <3> QED
      BY <1>1, <2>2, <3>3, <3>4 DEF TypeOK
  <2> QED
    BY <2>1, <2>2
<1>4. permits' + Cardinality(Holders') = concurrency
  <2>1. CASE permits > 0
    <3>1. Holders' = Holders \cup {i} /\ i \notin Holders
      BY <1>1, <1>2, <2>1 DEF Holders
    <3>2. IsFiniteSet(Holders) /\ Cardinality(Holders) \in Nat
      BY FiniteTasks DEF Holders
    <3>3. Cardinality(Holders') = Cardinality(Holders) + 1
      BY <3>1, <3>2, FS_AddElement
    <3> QED
      BY <1>1, <2>1, <3>2, <3>3 DEF PermitsAreConserved
  <2>2. CASE ~(permits > 0)
    <3>1. Holders' = Holders
      BY <1>1, <1>2, <2>2 DEF Holders
    <3> QED
      BY <1>1, <2>2, <3>1 DEF PermitsAreConserved
  <2> QED
    BY <2>1, <2>2
<1>5. TypeOK'
  BY <1>1, <1>2, <1>3 DEF TypeOK, States
<1>6. PermitsAreConserved'
  BY <1>1, <1>3, <1>4 DEF PermitsAreConserved, Elems
<1>7. QueuesAgree'
  <2>1. In({"queued"})' = In({"queued"}) /\ Elems(queue') = Elems(queue)
    BY <1>1, <1>2
  <2> QED
    BY <1>1, <1>3, <2>1 DEF QueuesAgree
<1>8. SpawnedInOrder' /\ AwaitedAreDone' /\ AwaitedInOrder'
  BY <1>1, <1>2, TasksGoForward
<1>9. EnoughDescriptors' /\ ClonesAreForBanners'
  BY <1>1, <1>2 DEF EnoughDescriptors, ClonesAreForBanners
<1>10. TaskLeavesResult'
  BY <1>1, <1>2 DEF TaskLeavesResult
<1>11. ThreadsAgree' /\ PermitMeansThread'
  <2>1. Probing' = Probing
    BY <1>1, <1>2
  <2>2. \A j \in panicked : task'[j] = task[j]
    BY <1>1, <1>2 DEF TypeOK
  <2> QED
    BY <1>1, <2>1, <2>2, PoolStays
<1> QED
  BY <1>5, <1>6, <1>7, <1>8, <1>9, <1>10, <1>11

(* No more closures run than --concurrency: there is a thread for each.    *)
LEMMA ProbesAreBounded ==
    ASSUME IInv, NEW S \in SUBSET Probing
    PROVE  Cardinality(S) \in Nat /\ Cardinality(S) <= concurrency
<1>1. IsFiniteSet(Probing) /\ Cardinality(Probing) \in Nat /\ Cardinality(S) \in Nat
  BY FiniteTasks
<1>2. Cardinality(S) <= Cardinality(Probing)
  BY <1>1, FS_Subset
<1>3. Cardinality(Probing) <= threads /\ threads \in Nat /\ threads <= concurrency /\ concurrency \in Nat
  BY ScanAssumption DEF IInv, TypeOK, ThreadsAgree
<1> QED
  BY <1>1, <1>2, <1>3

LEMMA AllProbesAreBounded == IInv => Cardinality(Probing) <= concurrency
BY ProbesAreBounded

(* When no task has panicked every closure in the pool has a permit, and a *)
(* task about to hand its closure over has one more.                       *)
LEMMA ClosuresHavePermits ==
    ASSUME IInv, panicked = {}, NEW i \in Index, task[i] = "permit"
    PROVE  Len(queue) + Cardinality(Probing) + 1 <= concurrency
<1> DEFINE Q == In({"queued"})
           P == Probing
<1>1. Len(queue) \in Nat /\ Len(queue) = Cardinality(Q)
  BY QueueLength DEF IInv, TypeOK, QueuesAgree
<1>2. Q \cap P = {} /\ i \notin Q \cup P /\ (Q \cup P) \cup {i} \subseteq Holders
  BY DEF Holders
<1>3. IsFiniteSet(Q) /\ IsFiniteSet(P) /\ Cardinality(Q) \in Nat /\ Cardinality(P) \in Nat
  BY FiniteTasks
<1>4. IsFiniteSet(Q \cup P) /\ Cardinality(Q \cup P) \in Nat
  BY FiniteTasks
<1>5. /\ concurrency \in Nat
      /\ Cardinality((Q \cup P) \cup {i}) <= concurrency
  BY <1>2, HoldersAreBounded
<1>6. Probing = P
  OBVIOUS
<1> HIDE DEF Q, P
<1>7. Cardinality(Q \cup P) = Cardinality(Q) + Cardinality(P)
  <2>1. Cardinality(Q \cap P) = 0
    BY <1>2, FS_EmptySet
  <2>2. Cardinality(Q \cup P) = Cardinality(Q) + Cardinality(P) - Cardinality(Q \cap P)
    BY <1>3, FS_Union
  <2> QED
    BY <1>3, <2>1, <2>2
<1>8. Cardinality((Q \cup P) \cup {i}) = Cardinality(Q \cup P) + 1
  BY <1>2, <1>4, FS_AddElement
<1> QED
  BY <1>1, <1>3, <1>5, <1>6, <1>7, <1>8

(* A closure that joins the queue.                                         *)
LEMMA HandedOver ==
    ASSUME IInv, NEW i \in Index, task[i] = "permit", queue' = Append(queue, i),
           task'[i] = "queued", \A j \in Index : j # i => (task'[j] = "queued" <=> task[j] = "queued")
    PROVE  /\ queue' \in Seq(Index) /\ Distinct(queue')
           /\ Elems(queue') = In({"queued"})'
           /\ Len(queue') = Len(queue) + 1 /\ Len(queue) \in Nat
<1>1. queue \in Seq(Index) /\ Distinct(queue) /\ Elems(queue) = In({"queued"})
  BY DEF IInv, TypeOK, QueuesAgree
<1>2. i \notin Elems(queue)
  BY <1>1
<1>3. /\ queue' \in Seq(Index) /\ Distinct(queue')
      /\ Elems(queue') = Elems(queue) \cup {i}
  <2> HIDE DEF Index, In
  <2> QED
    BY <1>1, <1>2, Pushed
<1>4. In({"queued"})' = In({"queued"}) \cup {i}
  OBVIOUS
<1>5. Len(queue') = Len(queue) + 1 /\ Len(queue) \in Nat
  BY <1>1
<1> QED
  BY <1>1, <1>3, <1>4, <1>5

(* The closure takes the task's permit with it into the pool's queue.      *)
LEMMA HandOverKeepsInv == ASSUME IInv, NEW i \in Index, spawn_blocking(i) PROVE IInv'
<1> USE ScanAssumption DEF IInv, spawn_blocking
<1>0. task[i] = "permit" /\ i \notin panicked
  BY DEF ThreadsAgree
<1>1. /\ task \in [Index -> States] /\ task[i] = "permit" /\ i \notin panicked
      /\ UNCHANGED <<phase, concurrency, banner, spawned, permits, waiters, panicked, starved, outcome, verdict,
                     results, report>>
      /\ threads \in Nat /\ concurrency \in Nat /\ threads <= concurrency
  BY <1>0 DEF TypeOK, States
<1>2. /\ \A j \in Index : j # i => task'[j] = task[j]
      /\ task'[i] = "queued"
      /\ task' \in [Index -> States]
  BY <1>1 DEF States
<1>3. /\ queue' \in Seq(Index) /\ Distinct(queue')
      /\ Elems(queue') = In({"queued"})'
      /\ Len(queue') = Len(queue) + 1 /\ Len(queue) \in Nat
  BY <1>1, <1>2, HandedOver
<1>4. Probing' = Probing /\ Cardinality(Probing) \in Nat /\ Cardinality(Probing') = Cardinality(Probing)
  <2>1. Probing' = Probing
    BY <1>1, <1>2
  <2>2. Cardinality(Probing) \in Nat
    BY FiniteTasks
  <2> QED
    BY <2>1, <2>2
<1>5. threads' \in 0 .. concurrency /\ threads <= threads' /\ refused' \in BOOLEAN /\ (refused => refused')
  <2>1. refused \in BOOLEAN
    BY DEF TypeOK
  <2>2. CASE UNCHANGED <<threads, refused>>
    BY <1>1, <2>1, <2>2
  <2>3. CASE threads' = threads + 1 /\ threads < concurrency /\ UNCHANGED refused
    BY <1>1, <2>1, <2>3
  <2>4. CASE refused' = TRUE /\ UNCHANGED threads
    BY <1>1, <2>1, <2>4
  <2> QED
    BY <2>2, <2>3, <2>4 DEF WantsThread
<1>6. TypeOK'
  BY <1>1, <1>2, <1>3, <1>5 DEF TypeOK, States
<1>7. PermitsAreConserved'
  <2>1. Holders' = Holders /\ In({"waiting"})' = In({"waiting"})
    BY <1>1, <1>2 DEF Holders
  <2> QED
    BY <1>1, <2>1 DEF PermitsAreConserved
<1>8. QueuesAgree'
  BY <1>1, <1>3 DEF QueuesAgree
<1>9. SpawnedInOrder' /\ AwaitedAreDone' /\ AwaitedInOrder'
  BY <1>1, <1>2, TasksGoForward
<1>10. EnoughDescriptors' /\ TaskLeavesResult' /\ ClonesAreForBanners'
  BY <1>1, <1>2 DEF EnoughDescriptors, TaskLeavesResult, ClonesAreForBanners
<1>11. ThreadsAgree'
  <2>1. Cardinality(Probing') <= threads'
    BY <1>1, <1>4, <1>5 DEF ThreadsAgree
  <2>2. \A j \in panicked : task'[j] = task[j]
    BY <1>1, <1>2 DEF TypeOK
  <2> HIDE DEF Probing
  <2> QED
    BY <1>1, <1>5, <2>1, <2>2 DEF ThreadsAgree
<1>12. PermitMeansThread'
  <2> SUFFICES ASSUME ~refused' PROVE Len(queue) + 1 + Cardinality(Probing) <= threads'
    BY <1>3, <1>4 DEF PermitMeansThread
  <2>1. ~refused /\ panicked = {} /\ Len(queue) + Cardinality(Probing) <= threads
    BY <1>5 DEF ThreadsAgree, PermitMeansThread
  <2>2. Len(queue) + Cardinality(Probing) + 1 <= concurrency
    BY <1>1, <2>1, ClosuresHavePermits
  <2>3. CASE ~WantsThread /\ UNCHANGED <<threads, refused>>
    <3>1. Cardinality(Probing) + Len(queue) < threads \/ ~(threads < concurrency)
      BY <2>3 DEF WantsThread, IdleThread
    <3> QED
      BY <1>1, <1>3, <1>4, <2>2, <2>3, <3>1
  <2>4. CASE threads' = threads + 1
    BY <1>1, <1>3, <1>4, <2>1, <2>4
  <2> QED
    BY <2>3, <2>4
<1> QED
  BY <1>6, <1>7, <1>8, <1>9, <1>10, <1>11, <1>12

(* The first waiter waits.                                                 *)
LEMMA FirstWaiter ==
    ASSUME IInv, waiters # <<>>
    PROVE  /\ Head(waiters) \in Index /\ task[Head(waiters)] = "waiting"
           /\ Tail(waiters) \in Seq(Index) /\ Distinct(Tail(waiters))
           /\ Elems(Tail(waiters)) = In({"waiting"}) \ {Head(waiters)}
<1>1. waiters \in Seq(Index) /\ Distinct(waiters) /\ Elems(waiters) = In({"waiting"})
  BY DEF IInv, TypeOK, QueuesAgree, PermitsAreConserved, Elems
<1>2. /\ Head(waiters) \in Index /\ Head(waiters) \in Elems(waiters)
      /\ Tail(waiters) \in Seq(Index) /\ Distinct(Tail(waiters))
      /\ Elems(Tail(waiters)) = Elems(waiters) \ {Head(waiters)}
  BY <1>1, Popped
<1> QED
  BY <1>1, <1>2

(* The permit of a task that is done, or that panics, goes to the first    *)
(* waiter, or back to the semaphore.                                       *)
LEMMA DroppedPermit ==
    ASSUME IInv, NEW i \in Index, NEW place \in {"done", "queued"}, DropPermit(i, place),
           task[i] \in {"permit", "probed"}, i \notin panicked, concurrency' = concurrency,
           \/ place = "done" /\ panicked' = panicked
           \/ place = "queued" /\ panicked' = panicked \cup {i}
    PROVE  /\ task' \in [Index -> States]
           /\ task'[i] = place
           /\ \A j \in Index : j # i => \/ task'[j] = task[j]
                                        \/ task[j] = "waiting" /\ task'[j] = "permit"
           /\ permits' \in 0 .. concurrency
           /\ waiters' \in Seq(Index)
           /\ Distinct(waiters')
           /\ PermitsAreConserved'
<1> USE ScanAssumption DEF IInv, DropPermit
<1> DEFINE h == Head(waiters)
<1>1. /\ task \in [Index -> States] /\ permits \in Nat /\ concurrency \in Nat
      /\ waiters \in Seq(Index) /\ Distinct(waiters) /\ Elems(waiters) = In({"waiting"})
      /\ permits <= concurrency
  BY DEF TypeOK, States, QueuesAgree, PermitsAreConserved, Elems
<1>2. waiters # <<>> => /\ h \in Index /\ task[h] = "waiting"
                        /\ waiters' \in Seq(Index) /\ Distinct(waiters')
                        /\ Elems(waiters') = In({"waiting"}) \ {h}
  BY FirstWaiter
<1>3. /\ \A j \in Index : task'[j] = IF j = i THEN place
                                     ELSE IF waiters # <<>> /\ j = h THEN "permit" ELSE task[j]
      /\ task' \in [Index -> States]
  BY <1>1, <1>2 DEF States
<1> HIDE DEF h
<1>4. /\ waiters' \in Seq(Index) /\ Distinct(waiters') /\ Elems(waiters') = In({"waiting"})'
  <2>1. CASE waiters = <<>>
    BY <1>1, <1>3, <2>1
  <2>2. CASE waiters # <<>>
    <3>1. In({"waiting"})' = In({"waiting"}) \ {h}
      BY <1>1, <1>2, <1>3, <2>2
    <3> QED
      BY <1>1, <1>2, <2>2, <3>1
  <2> QED
    BY <2>1, <2>2
<1>5. /\ IsFiniteSet(Holders) /\ Cardinality(Holders) \in Nat /\ i \in Holders
      /\ IsFiniteSet(Holders \ {i}) /\ Cardinality(Holders \ {i}) \in Nat
      /\ Cardinality(Holders \ {i}) = Cardinality(Holders) - 1
  <2>1. IsFiniteSet(Holders) /\ Cardinality(Holders) \in Nat /\ i \in Holders
    BY <1>1, FiniteTasks DEF Holders
  <2>2. IsFiniteSet(Holders \ {i}) /\ Cardinality(Holders \ {i}) \in Nat
    BY FiniteTasks DEF Holders
  <2> QED
    BY <2>1, <2>2, FS_RemoveElement
<1>6. /\ permits' \in 0 .. concurrency /\ permits' + Cardinality(Holders') = concurrency
      /\ permits' > 0 => waiters' = <<>>
  <2>1. CASE waiters = <<>>
    <3>1. Holders' = Holders \ {i}
      BY <1>1, <1>3, <2>1 DEF Holders
    <3>2. permits' = permits + 1 /\ waiters' = <<>> /\ permits + Cardinality(Holders) = concurrency
      BY <2>1 DEF PermitsAreConserved
    <3>3. permits + 1 + (Cardinality(Holders) - 1) = concurrency
      BY <1>1, <1>5, <3>2
    <3> QED
      BY <1>1, <1>5, <3>1, <3>2, <3>3
  <2>2. CASE waiters # <<>>
    <3>1. Holders' = (Holders \ {i}) \cup {h} /\ h \notin Holders \ {i}
      <4>1. h \notin panicked /\ h # i
        BY <1>2, <2>2 DEF ThreadsAgree
      <4> QED
        BY <1>1, <1>2, <1>3, <2>2, <4>1 DEF Holders
    <3>2. Cardinality(Holders') = Cardinality(Holders)
      <4>1. Cardinality((Holders \ {i}) \cup {h}) = Cardinality(Holders \ {i}) + 1
        BY <1>5, <3>1, FS_AddElement
      <4> QED
        BY <1>5, <3>1, <4>1
    <3>3. permits' = permits /\ permits = 0
      BY <1>1, <2>2 DEF PermitsAreConserved
    <3> QED
      BY <1>1, <3>2, <3>3 DEF PermitsAreConserved
  <2> QED
    BY <2>1, <2>2
<1>7. PermitsAreConserved'
  BY <1>4, <1>6 DEF PermitsAreConserved, Elems
<1>8. task'[i] = place
  BY <1>3
<1>9. \A j \in Index : j # i => task'[j] = task[j] \/ (task[j] = "waiting" /\ task'[j] = "permit")
  BY <1>2, <1>3
<1> QED
  BY <1>3, <1>4, <1>6, <1>7, <1>8, <1>9

(* The task that awaited its closure is done.                              *)
LEMMA CompleteKeepsInv == ASSUME IInv, NEW i \in Index, CompleteTask(i) PROVE IInv'
<1> USE ScanAssumption DEF IInv, CompleteTask
<1>1. /\ task \in [Index -> States] /\ task[i] = "probed" /\ i \notin panicked
      /\ UNCHANGED <<phase, concurrency, banner, spawned, queue, threads, refused, panicked,
                     starved, outcome, verdict, results, report>>
  BY DEF TypeOK, States
<1>2. /\ task' \in [Index -> States] /\ task'[i] = "done"
      /\ \A j \in Index : j # i => \/ task'[j] = task[j]
                                   \/ task[j] = "waiting" /\ task'[j] = "permit"
      /\ permits' \in 0 .. concurrency /\ waiters' \in Seq(Index) /\ Distinct(waiters')
      /\ PermitsAreConserved'
  BY <1>1, DroppedPermit
<1>3. TypeOK'
  BY <1>1, <1>2 DEF TypeOK, States
<1>4. QueuesAgree'
  <2>1. In({"queued"})' = In({"queued"}) /\ Elems(queue') = Elems(queue)
    BY <1>1, <1>2
  <2> QED
    BY <1>1, <1>2, <2>1 DEF QueuesAgree
<1>5. SpawnedInOrder' /\ AwaitedAreDone' /\ AwaitedInOrder'
  <2>1. \A j \in Index : /\ task[j] = "done" => task'[j] = "done" /\ verdict'[j] = verdict[j]
                         /\ task'[j] = "none" <=> task[j] = "none"
    BY <1>1, <1>2
  <2> QED
    BY <1>1, <2>1, TasksGoForward
<1>6. EnoughDescriptors' /\ ClonesAreForBanners'
  BY <1>1, <1>2 DEF EnoughDescriptors, ClonesAreForBanners
<1>7. TaskLeavesResult'
  BY <1>1, <1>2 DEF TaskLeavesResult
<1>8. ThreadsAgree' /\ PermitMeansThread'
  <2>1. Probing' = Probing
    BY <1>1, <1>2
  <2>2. \A j \in panicked : task'[j] = task[j]
    BY <1>1, <1>2 DEF ThreadsAgree, TypeOK
  <2> QED
    BY <1>1, <2>1, <2>2, PoolStays
<1> QED
  BY <1>2, <1>3, <1>4, <1>5, <1>6, <1>7, <1>8

(* The task that panics leaves its closure behind, without a permit.       *)
LEMMA PanicKeepsInv == ASSUME IInv, NEW i \in Index, spawn_blocking_panics(i) PROVE IInv'
<1> USE ScanAssumption DEF IInv, spawn_blocking_panics
<1>1. /\ task \in [Index -> States] /\ task[i] = "permit" /\ i \notin panicked
      /\ panicked' = panicked \cup {i} /\ refused' = TRUE
      /\ UNCHANGED <<phase, concurrency, banner, spawned, threads, starved, outcome, verdict, results, report>>
  BY DEF TypeOK, States, ThreadsAgree
<1>2. /\ task' \in [Index -> States] /\ task'[i] = "queued"
      /\ \A j \in Index : j # i => \/ task'[j] = task[j]
                                   \/ task[j] = "waiting" /\ task'[j] = "permit"
      /\ permits' \in 0 .. concurrency /\ waiters' \in Seq(Index) /\ Distinct(waiters')
      /\ PermitsAreConserved'
  BY <1>1, DroppedPermit
<1>3. /\ queue' \in Seq(Index) /\ Distinct(queue')
      /\ Elems(queue') = In({"queued"})'
  BY <1>1, <1>2, HandedOver
<1>4. TypeOK'
  BY <1>1, <1>2, <1>3 DEF TypeOK, States
<1>5. QueuesAgree'
  BY <1>2, <1>3 DEF QueuesAgree
<1>6. SpawnedInOrder' /\ AwaitedAreDone' /\ AwaitedInOrder'
  <2>1. \A j \in Index : /\ task[j] = "done" => task'[j] = "done" /\ verdict'[j] = verdict[j]
                         /\ task'[j] = "none" <=> task[j] = "none"
    BY <1>1, <1>2
  <2> QED
    BY <1>1, <2>1, TasksGoForward
<1>7. EnoughDescriptors' /\ ClonesAreForBanners'
  BY <1>1, <1>2 DEF EnoughDescriptors, ClonesAreForBanners
<1>8. TaskLeavesResult'
  BY <1>1, <1>2 DEF TaskLeavesResult
<1>9. ThreadsAgree' /\ PermitMeansThread'
  <2>1. Probing' = Probing
    BY <1>1, <1>2
  <2>2. Cardinality(Probing') <= threads'
    BY <1>1, <2>1 DEF ThreadsAgree
  <2>3. \A j \in panicked' : task'[j] \in {"queued", "probing", "socket", "stream", "probed"}
    BY <1>1, <1>2 DEF ThreadsAgree, TypeOK
  <2> HIDE DEF Probing
  <2> QED
    BY <1>1, <2>2, <2>3 DEF ThreadsAgree, PermitMeansThread
<1> QED
  BY <1>2, <1>4, <1>5, <1>6, <1>7, <1>8, <1>9

(* The oldest closure leaves the queue for a thread, its permit with it.   *)
LEMMA StartKeepsInv == IInv /\ StartBlocking => IInv'
<1> SUFFICES ASSUME IInv, StartBlocking PROVE IInv'
  OBVIOUS
<1> USE ScanAssumption DEF IInv, StartBlocking
<1>1. /\ task \in [Index -> States] /\ queue # <<>>
      /\ queue \in Seq(Index) /\ Distinct(queue) /\ Elems(queue) = In({"queued"})
      /\ queue' = Tail(queue) /\ task' = [task EXCEPT ![Head(queue)] = "probing"]
      /\ UNCHANGED <<phase, concurrency, banner, spawned, permits, waiters, threads, refused, panicked,
                     starved, outcome, verdict, results, report>>
  BY DEF TypeOK, States, QueuesAgree
<1>2. PICK h \in Index : h = Head(queue)
  BY <1>1, Popped
<1>3. /\ task[h] = "queued"
      /\ queue' \in Seq(Index) /\ Distinct(queue')
      /\ Elems(queue') = Elems(queue) \ {h}
  BY <1>1, <1>2, Popped
<1>4. /\ \A j \in Index : j # h => task'[j] = task[j]
      /\ task'[h] = "probing"
      /\ task' \in [Index -> States]
  BY <1>1, <1>2 DEF States
<1>5. TypeOK'
  BY <1>1, <1>3, <1>4 DEF TypeOK, States
<1>6. PermitsAreConserved'
  <2>1. Holders' = Holders /\ In({"waiting"})' = In({"waiting"})
    BY <1>1, <1>3, <1>4 DEF Holders
  <2> QED
    BY <1>1, <2>1 DEF PermitsAreConserved
<1>7. QueuesAgree'
  <2>1. In({"queued"})' = In({"queued"}) \ {h}
    BY <1>3, <1>4
  <2> QED
    BY <1>1, <1>3, <2>1 DEF QueuesAgree
<1>8. SpawnedInOrder' /\ AwaitedAreDone' /\ AwaitedInOrder'
  BY <1>1, <1>3, <1>4, TasksGoForward
<1>9. EnoughDescriptors' /\ ClonesAreForBanners'
  BY <1>1, <1>3, <1>4 DEF EnoughDescriptors, ClonesAreForBanners
<1>10. TaskLeavesResult'
  BY <1>1, <1>3, <1>4 DEF TaskLeavesResult
<1>11. ThreadsAgree' /\ PermitMeansThread'
  <2>1. Probing' = Probing \cup {h} /\ h \notin Probing
    BY <1>3, <1>4
  <2>2. IsFiniteSet(Probing) /\ Cardinality(Probing) \in Nat
    BY FiniteTasks
  <2>3. Cardinality(Probing') = Cardinality(Probing) + 1
    BY <2>1, <2>2, FS_AddElement
  <2>4. Len(queue') = Len(queue) - 1 /\ Len(queue) \in Nat /\ threads \in Nat
    BY <1>1 DEF TypeOK
  <2>5. Cardinality(Probing') <= threads
    BY <2>2, <2>3, <2>4
  <2>6. \A j \in panicked : task'[j] \in {"queued", "probing", "socket", "stream", "probed"}
    BY <1>4 DEF ThreadsAgree, TypeOK
  <2> HIDE DEF Probing
  <2>7. ThreadsAgree'
    BY <1>1, <2>5, <2>6 DEF ThreadsAgree
  <2>8. PermitMeansThread'
    BY <1>1, <2>2, <2>3, <2>4 DEF PermitMeansThread
  <2> QED
    BY <2>7, <2>8
<1> QED
  BY <1>5, <1>6, <1>7, <1>8, <1>9, <1>10, <1>11

(* A thread that leaves was idle, and no closure was waiting for it.       *)
LEMMA LeaveKeepsInv == IInv /\ ThreadLeaves => IInv'
<1> SUFFICES ASSUME IInv, ThreadLeaves PROVE IInv'
  OBVIOUS
<1> USE ScanAssumption DEF IInv, ThreadLeaves
<1>1. UNCHANGED <<phase, concurrency, banner, spawned, task, permits, waiters, queue, refused, panicked,
                 starved, outcome, verdict, results, report>>
  OBVIOUS
<1>2. /\ Cardinality(Probing) \in Nat /\ threads \in Nat /\ concurrency \in Nat /\ threads <= concurrency
      /\ Cardinality(Probing) < threads /\ threads' = threads - 1 /\ Len(queue) = 0
  BY FiniteTasks DEF TypeOK
<1>3. TypeOK'
  BY <1>1, <1>2 DEF TypeOK
<1>4. PermitsAreConserved'
  <2>1. Holders' = Holders
    BY <1>1 DEF Holders
  <2> QED
    BY <1>1, <2>1 DEF PermitsAreConserved
<1>5. AwaitedInOrder' /\ EnoughDescriptors' /\ AwaitedAreDone' /\ ClonesAreForBanners'
  BY <1>1 DEF AwaitedInOrder, EnoughDescriptors, AwaitedAreDone, ClonesAreForBanners
<1>6. QueuesAgree' /\ SpawnedInOrder' /\ TaskLeavesResult'
  BY <1>1 DEF QueuesAgree, Elems, SpawnedInOrder, TaskLeavesResult
<1>7. ThreadsAgree' /\ PermitMeansThread'
  <2>1. Probing' = Probing
    BY <1>1
  <2> HIDE DEF Probing
  <2> QED
    BY <1>1, <1>2, <2>1 DEF ThreadsAgree, PermitMeansThread
<1> QED
  BY <1>3, <1>4, <1>5, <1>6, <1>7

(* Two descriptors for each probe with --banner, one without, are enough:  *)
(* the probe that asks for one has room for it.                            *)
LEMMA RoomForDescriptors ==
    ASSUME IInv, NEW i \in Index,
           task[i] = "probing" \/ (task[i] = "socket" /\ banner),
           (IF banner THEN 2 ELSE 1) * concurrency <= DescriptorLimit
    PROVE  FreeDescriptor
<1> DEFINE S == In({"socket", "stream"})
           T == In({"stream"})
<1>1. /\ S \subseteq Probing /\ T \subseteq Probing /\ i \in Probing /\ i \notin T
      /\ T \cup {i} \subseteq Probing /\ S \cup {i} \subseteq Probing
  OBVIOUS
<1>2. /\ Cardinality(S) \in Nat /\ Cardinality(T) \in Nat /\ concurrency \in Nat
      /\ IsFiniteSet(S) /\ IsFiniteSet(T)
  BY FiniteTasks, ScanAssumption DEF IInv, TypeOK
<1>3. Cardinality(T) + 1 <= concurrency
  <2>1. Cardinality(T \cup {i}) = Cardinality(T) + 1
    BY <1>1, <1>2, FS_AddElement
  <2>2. Cardinality(T \cup {i}) <= concurrency
    BY <1>1, ProbesAreBounded
  <2> QED
    BY <2>1, <2>2
<1>4. task[i] = "probing" => Cardinality(S) + 1 <= concurrency
  <2> SUFFICES ASSUME task[i] = "probing" PROVE Cardinality(S) + 1 <= concurrency
    OBVIOUS
  <2>1. Cardinality(S \cup {i}) = Cardinality(S) + 1
    BY <1>2, FS_AddElement
  <2>2. Cardinality(S \cup {i}) <= concurrency
    BY <1>1, ProbesAreBounded
  <2> QED
    BY <2>1, <2>2
<1>10. Cardinality(S) <= concurrency
  BY <1>1, ProbesAreBounded
<1>5. ~banner => Cardinality(T) = 0
  <2>1. ~banner => T = {}
    BY DEF IInv, ClonesAreForBanners
  <2> QED
    BY <2>1, FS_EmptySet
<1>6. FreeDescriptor <=> Cardinality(S) + Cardinality(T) < DescriptorLimit
  BY DEF FreeDescriptor
<1>7. DescriptorLimit \in Nat
  BY ScanAssumption
<1> HIDE DEF S, T
<1>8. CASE banner
  <2>1. concurrency + concurrency <= DescriptorLimit
    BY <1>2, <1>8
  <2> QED
    BY <1>2, <1>3, <1>6, <1>7, <1>10, <2>1
<1>9. CASE ~banner
  <2>1. concurrency <= DescriptorLimit /\ task[i] = "probing"
    BY <1>2, <1>9
  <2> QED
    BY <1>2, <1>4, <1>5, <1>6, <1>7, <1>9, <2>1
<1> QED
  BY <1>8, <1>9

(* What a step of a probe can do: move on, or leave its result.            *)
LEMMA ProbeSteps ==
    ASSUME IInv, NEW i \in Index, blocking_scan(i)
    PROVE  /\ task[i] \in {"probing", "socket", "stream"}
           /\ UNCHANGED <<phase, concurrency, banner, spawned, permits, waiters, queue, threads, refused, panicked,
                          results, report>>
           /\ \/ /\ task[i] \in {"probing", "socket"}
                 /\ task' = [task EXCEPT ![i] = IF task[i] = "probing" THEN "socket" ELSE "stream"]
                 /\ task[i] = "socket" => banner
                 /\ UNCHANGED <<starved, outcome, verdict>>
              \/ \E s \in PortState : Returns(i, s)
           /\ \/ starved' = starved
              \/ starved' = starved \cup {i} /\ ~FreeDescriptor /\ (task[i] = "socket" => banner)
                 /\ task[i] # "stream"
<1> USE ScanAssumption
<1>1. CASE SocketNew(i)
  BY <1>1 DEF SocketNew
<1>2. CASE ConnectEnds(i)
  <2>1. PICK s \in Found :
          IF s = "open" /\ banner /\ FreeDescriptor
          THEN task' = [task EXCEPT ![i] = "stream"] /\ UNCHANGED probes
          ELSE Returns(i, s) /\ starved' = IF s = "open" /\ banner THEN starved \cup {i} ELSE starved
    BY <1>2 DEF ConnectEnds
  <2>2. /\ task[i] = "socket" /\ s \in PortState
        /\ UNCHANGED <<phase, concurrency, banner, spawned, permits, waiters, queue, threads, refused, panicked,
                          results, report>>
    BY <1>2 DEF ConnectEnds
  <2>3. CASE s = "open" /\ banner /\ FreeDescriptor
    BY <2>1, <2>2, <2>3
  <2>4. CASE ~(s = "open" /\ banner /\ FreeDescriptor)
    BY <2>1, <2>2, <2>4
  <2> QED
    BY <2>3, <2>4
<1>3. CASE BannerEnds(i)
  BY <1>3 DEF BannerEnds
<1> QED
  BY <1>1, <1>2, <1>3 DEF blocking_scan

(* The permit stays with the task as long as its probe runs.               *)
LEMMA ProbeKeepsInv == ASSUME IInv, NEW i \in Index, blocking_scan(i) PROVE IInv'
<1> USE ScanAssumption DEF IInv
<1>1. /\ task \in [Index -> States] /\ task[i] \in {"probing", "socket", "stream"}
      /\ UNCHANGED <<phase, concurrency, banner, spawned, permits, waiters, queue, threads, refused, panicked,
                          results, report>>
      /\ verdict \in [Index -> PortState \cup {Unset}] /\ outcome \in [Index -> {<<>>} \cup Result]
  BY ProbeSteps DEF TypeOK, States
<1>2. /\ task' \in [Index -> States]
      /\ \A j \in Index : j # i => task'[j] = task[j] /\ verdict'[j] = verdict[j] /\ outcome'[j] = outcome[j]
      /\ \/ task'[i] \in {"socket", "stream"} /\ UNCHANGED <<outcome, verdict>>
            /\ (task'[i] = "stream" => banner)
         \/ task'[i] = "probed" /\ verdict'[i] \in PortState
            /\ outcome'[i] = [port |-> Items[i], state |-> verdict'[i]]
      /\ verdict' \in [Index -> PortState \cup {Unset}] /\ outcome' \in [Index -> {<<>>} \cup Result]
  <2>1. CASE /\ task[i] \in {"probing", "socket"}
             /\ task' = [task EXCEPT ![i] = IF task[i] = "probing" THEN "socket" ELSE "stream"]
             /\ task[i] = "socket" => banner
             /\ UNCHANGED <<starved, outcome, verdict>>
    BY <1>1, <2>1 DEF States
  <2>2. ASSUME NEW s \in PortState, Returns(i, s)
        PROVE    /\ task' \in [Index -> States]
                 /\ \A j \in Index : j # i => task'[j] = task[j] /\ verdict'[j] = verdict[j] /\ outcome'[j] = outcome[j]
                 /\ task'[i] = "probed" /\ verdict'[i] \in PortState
                 /\ outcome'[i] = [port |-> Items[i], state |-> verdict'[i]]
                 /\ verdict' \in [Index -> PortState \cup {Unset}] /\ outcome' \in [Index -> {<<>>} \cup Result]
    BY <1>1, <2>2 DEF Returns, States, Result
  <2> QED
    BY <2>1, <2>2, ProbeSteps
<1>3. TypeOK'
  <2>1. starved' \subseteq Index
    BY ProbeSteps DEF TypeOK
  <2> QED
    BY <1>1, <1>2, <2>1 DEF TypeOK, States
<1>4. PermitsAreConserved'
  <2>1. Holders' = Holders /\ In({"waiting"})' = In({"waiting"})
    BY <1>1, <1>2 DEF Holders
  <2> QED
    BY <1>1, <2>1 DEF PermitsAreConserved
<1>5. QueuesAgree'
  <2>1. In({"queued"})' = In({"queued"})
    BY <1>1, <1>2
  <2> QED
    BY <1>1, <2>1 DEF QueuesAgree, Elems
<1>6. SpawnedInOrder' /\ AwaitedAreDone' /\ AwaitedInOrder'
  BY <1>1, <1>2, TasksGoForward
<1>7. EnoughDescriptors'
  <2> SUFFICES ASSUME (IF banner THEN 2 ELSE 1) * concurrency <= DescriptorLimit
               PROVE  starved' = {}
    BY <1>1 DEF EnoughDescriptors
  <2>1. starved = {}
    BY DEF EnoughDescriptors
  <2>2. task[i] = "stream" \/ (task[i] = "socket" /\ ~banner) \/ FreeDescriptor
    BY <1>1, RoomForDescriptors
  <2> QED
    BY <2>1, <2>2, ProbeSteps
<1>8. ClonesAreForBanners'
  BY <1>1, <1>2 DEF ClonesAreForBanners
<1>9. TaskLeavesResult'
  BY <1>1, <1>2 DEF TaskLeavesResult
<1>10. ThreadsAgree' /\ PermitMeansThread'
  <2>1. Probing' \subseteq Probing
    BY <1>1, <1>2
  <2>2. Cardinality(Probing') \in Nat /\ Cardinality(Probing) \in Nat /\ Cardinality(Probing') <= Cardinality(Probing)
    BY <2>1, FiniteTasks, FS_Subset
  <2>3. threads \in Nat /\ Len(queue) \in Nat
    BY DEF TypeOK
  <2>4. Cardinality(Probing') <= threads
    BY <2>2, <2>3 DEF ThreadsAgree
  <2>5. ThreadsAgree'
    BY <1>1, <1>2, <2>4 DEF ThreadsAgree, TypeOK
  <2>6. PermitMeansThread'
    BY <1>1, <2>2, <2>3 DEF PermitMeansThread
  <2> QED
    BY <2>5, <2>6
<1> QED
  BY <1>3, <1>4, <1>5, <1>6, <1>7, <1>8, <1>9, <1>10

LEMMA StutterKeepsInv == IInv /\ UNCHANGED vars => IInv'
<1> SUFFICES ASSUME IInv, UNCHANGED vars PROVE IInv'
  OBVIOUS
<1>1. UNCHANGED <<phase, concurrency, banner, spawned, task, permits, waiters, queue, threads, refused, panicked,
                 starved, outcome, verdict, results, report>>
  BY DEF vars
<1>2. TypeOK'
  BY <1>1 DEF IInv, TypeOK
<1>3. PermitsAreConserved'
  <2>1. Holders' = Holders
    BY <1>1 DEF Holders
  <2> QED
    BY <1>1, <2>1 DEF IInv, PermitsAreConserved
<1>4. AwaitedInOrder' /\ EnoughDescriptors' /\ AwaitedAreDone' /\ ClonesAreForBanners'
  BY <1>1 DEF IInv, AwaitedInOrder, EnoughDescriptors, AwaitedAreDone, ClonesAreForBanners
<1>5. QueuesAgree' /\ SpawnedInOrder' /\ TaskLeavesResult'
  BY <1>1 DEF IInv, QueuesAgree, Elems, SpawnedInOrder, TaskLeavesResult
<1>6. ThreadsAgree' /\ PermitMeansThread'
  BY <1>1, PoolStays
<1> QED
  BY <1>2, <1>3, <1>4, <1>5, <1>6 DEF IInv

LEMMA NextInv == IInv /\ [Next]_vars => IInv'
BY SpawnKeepsInv, CallerKeepsInv, AcquireKeepsInv, HandOverKeepsInv, PanicKeepsInv, CompleteKeepsInv,
   StartKeepsInv, LeaveKeepsInv, ProbeKeepsInv, StutterKeepsInv
DEF Next, Caller, Runtime, Task, Terminated

(* IInv holds in every reachable state.                                    *)
THEOREM InvHolds == Spec => []IInv
BY InitInv, NextInv, PTL DEF Spec

-----------------------------------------------------------------------------

(* Every variable keeps its type: in particular no permit is made up.      *)
THEOREM TypeCorrect == Spec => []TypeOK
<1>1. IInv => TypeOK
  BY DEF IInv
<1> QED
  BY <1>1, InvHolds, PTL

(* No permit is lost, and none is idle while a task waits for one.         *)
THEOREM PermitsComeBack == Spec => []PermitsAreConserved
<1>1. IInv => PermitsAreConserved
  BY DEF IInv
<1> QED
  BY <1>1, InvHolds, PTL

(* The results awaited so far are those of the first ports, in order.      *)
THEOREM AwaitsInPortOrder == Spec => []AwaitedInOrder
<1>1. IInv => AwaitedInOrder
  BY DEF IInv
<1> QED
  BY <1>1, InvHolds, PTL

(* Two descriptors for each of --concurrency probes with --banner, one     *)
(* without, are enough: no probe finds none left.                          *)
THEOREM DescriptorsSuffice == Spec => []EnoughDescriptors
<1>1. IInv => EnoughDescriptors
  BY DEF IInv
<1> QED
  BY <1>1, InvHolds, PTL

(* As long as no thread is refused a task that holds a permit never waits  *)
(* for one: queued and running closures all hold permits, and there are as *)
(* many threads.                                                           *)
THEOREM PermitsMeanThreads == Spec => []PermitMeansThread
<1>1. IInv => PermitMeansThread
  BY DEF IInv
<1> QED
  BY <1>1, InvHolds, PTL

-----------------------------------------------------------------------------
(* The refinement of ScanContract.                                         *)

LEMMA InitRefines == Init => Contract!Init
BY ScanAssumption DEF Init, Contract!Init

LEMMA CallerRefines == IInv /\ Caller => [Contract!Next]_Contract!vars
<1> SUFFICES ASSUME IInv, Caller PROVE [Contract!Next]_Contract!vars
  OBVIOUS
<1>1. CASE SpawnTask
  <2>1. spawned \in Index /\ task[spawned] = "none"
    BY <1>1, ScanAssumption DEF SpawnTask, IInv, TypeOK, SpawnedInOrder
  <2>2. Probing' = Probing
    BY <1>1, <2>1 DEF SpawnTask, IInv, TypeOK
  <2> QED
    BY <1>1, <2>2 DEF SpawnTask, Contract!vars
<1>2. CASE AllSpawned \/ AwaitTask \/ AwaitPanics \/ ProcessEnds
  BY <1>2 DEF AllSpawned, AwaitTask, AwaitPanics, ProcessEnds, Contract!vars
<1>3. CASE PrintReport
  <2>1. Len(results) = TaskCount
    BY <1>3 DEF PrintReport
  <2>2. ASSUME NEW i \in Index
        PROVE  verdict[i] # Unset /\ results[i + 1] = [port |-> Items[i], state |-> verdict[i]]
    <3>1. i + 1 \in 1 .. Len(results) /\ (i + 1) - 1 = i
      BY <2>1, ScanAssumption
    <3>2. task[i] = "done" /\ results[i + 1] = [port |-> Items[i], state |-> verdict[i]]
      BY <3>1 DEF IInv, AwaitedAreDone, AwaitedInOrder
    <3> QED
      BY <3>2, ScanAssumption DEF IInv, TaskLeavesResult
  <2>3. [i \in Index |-> report'[i + 1]] = [i \in Index |-> [port |-> Items[i], state |-> verdict[i]]]
    BY <1>3, <2>2 DEF PrintReport
  <2> QED
    BY <1>3, <2>2, <2>3 DEF PrintReport, Contract!Next, Contract!Report
<1> QED
  BY <1>1, <1>2, <1>3 DEF Caller

(* Before its last task is done the caller cannot have printed.            *)
LEMMA NotYetPrinted == ASSUME IInv, NEW i \in Index, task[i] # "done" PROVE phase # "exit"
<1>1. ASSUME phase = "exit" PROVE FALSE
  <2>1. i + 1 \in 1 .. Len(results) /\ (i + 1) - 1 = i
    BY <1>1, ScanAssumption DEF IInv, AwaitedAreDone
  <2> QED
    BY <2>1 DEF IInv, AwaitedAreDone
<1> QED
  BY <1>1

(* A task's step starts and ends no probe.                                 *)
LEMMA TaskRefines == ASSUME IInv, NEW i \in Index, Task(i) PROVE UNCHANGED Contract!vars
<1>1. task \in [Index -> States] /\ UNCHANGED <<phase, concurrency, banner, verdict, report>>
  BY DEF IInv, TypeOK, States, Task, acquire_owned, spawn_blocking, spawn_blocking_panics, CompleteTask
<1>2. Probing' = Probing
  <2>1. CASE acquire_owned(i) \/ spawn_blocking(i)
    BY <1>1, <2>1 DEF acquire_owned, spawn_blocking
  <2>2. ASSUME NEW place \in {"queued", "done"}, DropPermit(i, place), task[i] \in {"permit", "probed"}
        PROVE  Probing' = Probing
    <3>1. CASE waiters = <<>>
      BY <1>1, <2>2, <3>1 DEF DropPermit
    <3>2. CASE waiters # <<>>
      <4>1. PICK h \in Index : h = Head(waiters) /\ task[h] = "waiting"
        BY <3>2, FirstWaiter
      <4> QED
        BY <1>1, <2>2, <3>2, <4>1 DEF DropPermit
    <3> QED
      BY <3>1, <3>2
  <2>3. CASE spawn_blocking_panics(i) \/ CompleteTask(i)
    BY <2>2, <2>3 DEF spawn_blocking_panics, CompleteTask
  <2> QED
    BY <2>1, <2>3 DEF Task
<1> QED
  BY <1>1, <1>2 DEF Contract!vars

LEMMA StartRefines == IInv /\ IInv' /\ StartBlocking => [Contract!Next]_Contract!vars
<1> SUFFICES ASSUME IInv, IInv', StartBlocking PROVE [Contract!Next]_Contract!vars
  OBVIOUS
<1>1. /\ task \in [Index -> States] /\ queue # <<>> /\ task' = [task EXCEPT ![Head(queue)] = "probing"]
      /\ queue \in Seq(Index) /\ Distinct(queue) /\ Elems(queue) = In({"queued"})
      /\ UNCHANGED <<phase, concurrency, verdict, report>>
  BY DEF StartBlocking, IInv, TypeOK, States, QueuesAgree
<1>2. PICK h \in Index : h = Head(queue) /\ h \in Elems(queue)
  BY <1>1, Popped
<1>3. task[h] = "queued"
  BY <1>1, <1>2
<1>4. Probing' = Probing \cup {h} /\ h \notin Probing
  BY <1>1, <1>2, <1>3
<1>5. Cardinality(Probing') <= concurrency
  <2>1. ASSUME IInv' PROVE (Cardinality(Probing) <= concurrency)'
    BY <2>1, AllProbesAreBounded, PTL
  <2> QED
    BY <1>1, <2>1
<1>6. verdict[h] = Unset /\ phase # "exit"
  BY <1>3, NotYetPrinted DEF IInv, TaskLeavesResult
<1>7. Contract!Start(h)
  BY <1>1, <1>4, <1>5, <1>6 DEF Contract!Start, Cardinality, Contract!Cardinality
<1> QED
  BY <1>7 DEF Contract!Next

LEMMA LeaveRefines == ThreadLeaves => UNCHANGED Contract!vars
BY DEF ThreadLeaves, Contract!vars

LEMMA ProbeRefines == ASSUME IInv, NEW i \in Index, blocking_scan(i) PROVE [Contract!Next]_Contract!vars
<1>1. /\ task \in [Index -> States] /\ task[i] \in {"probing", "socket", "stream"}
      /\ UNCHANGED <<phase, concurrency, report>>
  BY ProbeSteps DEF IInv, TypeOK, States
<1>2. phase # "exit"
  BY <1>1, NotYetPrinted
<1>3. CASE /\ task[i] \in {"probing", "socket"}
           /\ task' = [task EXCEPT ![i] = IF task[i] = "probing" THEN "socket" ELSE "stream"]
           /\ UNCHANGED verdict
  <2>1. Probing' = Probing
    BY <1>1, <1>3
  <2> QED
    BY <1>1, <1>3, <2>1 DEF Contract!vars
<1>4. ASSUME NEW s \in PortState, Returns(i, s) PROVE [Contract!Next]_Contract!vars
  <2>1. Probing' = Probing \ {i} /\ i \in Probing
    BY <1>1, <1>4 DEF Returns
  <2>2. Contract!Finish(i)
    BY <1>1, <1>2, <1>4, <2>1 DEF Returns, Contract!Finish
  <2> QED
    BY <2>2 DEF Contract!Next
<1> QED
  BY <1>3, <1>4, ProbeSteps

(* scan_ports implements the safety part of the scan contract, whichever   *)
(* threads the system refuses: one probe per port, at most --concurrency   *)
(* at a time, and no report but a complete one in port order.              *)
THEOREM ImplementsScanContract == Spec => ImplementsContract
<1>1. IInv /\ IInv' /\ [Next]_vars => [Contract!Next]_Contract!vars
  <2>1. ASSUME UNCHANGED vars PROVE UNCHANGED Contract!vars
    BY <2>1 DEF vars, Contract!vars
  <2> QED
    BY <2>1, CallerRefines, TaskRefines, StartRefines, LeaveRefines, ProbeRefines DEF Next, Runtime, Terminated
<1> QED
  BY <1>1, InitRefines, InvHolds, PTL DEF Spec, ImplementsContract, Contract!Spec
=============================================================================
