---------------------------- MODULE CPoolProofs ----------------------------
(***************************************************************************)
(* Proofs about CPool for every port list, every THREAD_LIMIT and every    *)
(* requested concurrency.  Inv is inductive: InitInv and NextInv prove it  *)
(* one action at a time, and the properties follow from it.                *)
(***************************************************************************)
EXTENDS CPool, FiniteSetTheorems, TLAPS

USE DEF Thread, Worker, Index, PortState, Slot, Holding, ZeroSlot, workers, worker_count

-----------------------------------------------------------------------------
(* worker_count asks for at least one thread and never for more than any   *)
(* of the three bounds.                                                    *)
LEMMA WorkerCount ==
    ASSUME requested \in Concurrency
    PROVE  /\ workers \in Nat
           /\ 1 <= workers
           /\ workers <= requested
           /\ workers <= ThreadLimit
           /\ workers <= TaskCount
BY PoolAssumption

(* There are finitely many threads, so every set of them can be counted.   *)
LEMMA FiniteThreads ==
    ASSUME NEW S \in SUBSET Thread
    PROVE  IsFiniteSet(S) /\ Cardinality(S) \in Nat
<1>1. IsFiniteSet(1 .. TaskCount)
  BY PoolAssumption, FS_Interval
<1>2. IsFiniteSet(1 .. TaskCount \cup {0})
  BY <1>1, FS_AddElement
<1>3. IsFiniteSet(S)
  BY <1>2, FS_Subset
<1> QED
  BY <1>3, FS_CardinalityType

(* Inv holds when the calling thread enters run_scan.                      *)
LEMMA InitInv == Init => Inv
<1> SUFFICES ASSUME Init PROVE Inv
  OBVIOUS
<1> USE PoolAssumption DEF Init
<1>1. TypeOK
  BY WorkerCount DEF TypeOK
<1>2. ThreadsMatchPhase /\ HoldersAgree /\ OneOwner /\ NoThreadOutlivesPool
  BY DEF ThreadsMatchPhase, HoldersAgree, OneOwner, NoThreadOutlivesPool
<1>3. NoIndexLost
  BY DEF NoIndexLost
<1>4. CounterSpent
  <2>1. Done = {}
    BY DEF Done
  <2> QED
    BY <2>1, FS_EmptySet DEF CounterSpent
<1> QED
  BY <1>1, <1>2, <1>3, <1>4 DEF Inv

-----------------------------------------------------------------------------
(* Each action preserves Inv.                                              *)

LEMMA AllocateKeepsInv == Inv /\ AllocateResults => Inv'
<1> SUFFICES ASSUME Inv, AllocateResults PROVE Inv'
  OBVIOUS
<1> USE PoolAssumption DEF Inv, AllocateResults
<1>1. TypeOK'
  BY DEF TypeOK
<1>2. ThreadsMatchPhase' /\ HoldersAgree' /\ OneOwner' /\ NoThreadOutlivesPool'
  BY DEF TypeOK, ThreadsMatchPhase, HoldersAgree, OneOwner, NoThreadOutlivesPool
<1>3. NoIndexLost'
  BY DEF NoIndexLost
<1>4. CounterSpent'
  BY DEF CounterSpent, Done
<1> QED
  BY <1>1, <1>2, <1>3, <1>4

LEMMA CreateKeepsInv == Inv /\ CreateWorker => Inv'
<1> SUFFICES ASSUME Inv, CreateWorker PROVE Inv'
  OBVIOUS
<1> USE PoolAssumption DEF Inv, CreateWorker
<1>1. /\ started + 1 \in Worker
      /\ pc[started + 1] = "absent"
  BY WorkerCount DEF TypeOK, ThreadsMatchPhase
<1>2. TypeOK'
  BY <1>1, WorkerCount DEF TypeOK
<1>3. ThreadsMatchPhase'
  BY <1>1 DEF TypeOK, ThreadsMatchPhase
<1>4. HoldersAgree' /\ OneOwner' /\ NoThreadOutlivesPool'
  BY <1>1 DEF TypeOK, HoldersAgree, OneOwner, NoThreadOutlivesPool
<1>5. NoIndexLost'
  BY <1>1 DEF TypeOK, NoIndexLost
<1>6. CounterSpent'
  <2>1. Done' = Done
    BY <1>1 DEF TypeOK, Done
  <2> QED
    BY <2>1 DEF CounterSpent
<1> QED
  BY <1>2, <1>3, <1>4, <1>5, <1>6

LEMMA StopCreatingKeepsInv == Inv /\ StopCreating => Inv'
<1> SUFFICES ASSUME Inv, StopCreating PROVE Inv'
  OBVIOUS
<1> USE PoolAssumption DEF Inv, StopCreating
<1>1. pc[0] = "absent"
  BY DEF ThreadsMatchPhase
<1>2. TypeOK'
  BY DEF TypeOK
<1>3. ThreadsMatchPhase'
  BY DEF TypeOK, ThreadsMatchPhase
<1>4. HoldersAgree' /\ OneOwner' /\ NoThreadOutlivesPool'
  BY <1>1 DEF TypeOK, HoldersAgree, OneOwner, NoThreadOutlivesPool
<1>5. NoIndexLost'
  BY <1>1 DEF TypeOK, NoIndexLost
<1>6. CounterSpent'
  <2>1. Done' = Done
    BY <1>1 DEF TypeOK, Done
  <2> QED
    BY <2>1 DEF CounterSpent
<1> QED
  BY <1>2, <1>3, <1>4, <1>5, <1>6

LEMMA JoinKeepsInv == Inv /\ Join => Inv'
<1> SUFFICES ASSUME Inv, Join PROVE Inv'
  OBVIOUS
<1> USE PoolAssumption DEF Inv, Join
<1>1. TypeOK'
  BY WorkerCount DEF TypeOK
<1>2. ThreadsMatchPhase'
  BY DEF TypeOK, ThreadsMatchPhase
<1>3. HoldersAgree' /\ OneOwner' /\ NoThreadOutlivesPool'
  BY DEF HoldersAgree, OneOwner, NoThreadOutlivesPool
<1>4. NoIndexLost' /\ CounterSpent'
  BY DEF NoIndexLost, CounterSpent, Done
<1> QED
  BY <1>1, <1>2, <1>3, <1>4

(* After the last join every worker has ended; after its own work_loop the *)
(* calling thread has.                                                     *)
LEMMA ReturnKeepsInv == Inv /\ PoolReturns => Inv'
<1> SUFFICES ASSUME Inv, PoolReturns PROVE Inv'
  OBVIOUS
<1> USE PoolAssumption DEF Inv, PoolReturns
<1>1. \A t \in Thread : pc[t] \in {"absent", "done"}
  BY DEF TypeOK, ThreadsMatchPhase
<1>2. Done # {}
  <2>1. CASE phase = "join"
    <3>1. 1 \in Thread /\ pc[1] = "done"
      BY <2>1 DEF TypeOK, ThreadsMatchPhase
    <3> QED
      BY <3>1 DEF Done
  <2>2. CASE phase = "inline"
    BY <2>2 DEF Done
  <2> QED
    BY <2>1, <2>2
<1>3. TypeOK' /\ ThreadsMatchPhase'
  BY DEF TypeOK, ThreadsMatchPhase
<1>4. HoldersAgree' /\ OneOwner' /\ NoThreadOutlivesPool'
  BY <1>1 DEF HoldersAgree, OneOwner, NoThreadOutlivesPool
<1>5. NoIndexLost'
  BY DEF NoIndexLost
<1>6. CounterSpent'
  BY <1>2 DEF CounterSpent, Done
<1> QED
  BY <1>3, <1>4, <1>5, <1>6

LEMMA PrintKeepsInv == Inv /\ PrintReport => Inv'
<1> SUFFICES ASSUME Inv, PrintReport PROVE Inv'
  OBVIOUS
<1> USE PoolAssumption DEF Inv, PrintReport
<1>1. TypeOK' /\ ThreadsMatchPhase'
  BY DEF TypeOK, ThreadsMatchPhase
<1>2. HoldersAgree' /\ OneOwner' /\ NoThreadOutlivesPool'
  BY DEF HoldersAgree, OneOwner, NoThreadOutlivesPool
<1>3. NoIndexLost' /\ CounterSpent'
  BY DEF NoIndexLost, CounterSpent, Done
<1> QED
  BY <1>1, <1>2, <1>3

(* A thread that claims an index is the first to hold it, because no       *)
(* holder's index has reached the counter.                                 *)
LEMMA TakeKeepsInv == Inv /\ (\E t \in Thread : take_next(t)) => Inv'
<1> SUFFICES ASSUME Inv, NEW t \in Thread, take_next(t) PROVE Inv'
  OBVIOUS
<1> USE PoolAssumption DEF Inv, take_next
<1>1. TypeOK'
  BY DEF TypeOK
<1>2. ThreadsMatchPhase'
  BY DEF TypeOK, ThreadsMatchPhase
<1>3. HoldersAgree'
  BY DEF TypeOK, HoldersAgree, NoIndexLost
<1>4. OneOwner'
  BY DEF TypeOK, OneOwner, HoldersAgree
<1>5. NoIndexLost'
  <2> SUFFICES ASSUME NEW i \in Index
               PROVE  IF i < next'
                      THEN \/ verdict[i] = Unset /\ \E u \in Thread : Holding(u)' /\ index'[u] = i
                           \/ verdict[i] # Unset /\ results[i] = [port |-> Items[i], state |-> verdict[i]]
                      ELSE verdict[i] = Unset /\ results[i] = ZeroSlot
    BY DEF NoIndexLost
  <2>1. CASE i < next
    <3>1. ASSUME NEW u \in Thread, Holding(u)
          PROVE  Holding(u)' /\ index'[u] = index[u]
      BY <3>1 DEF TypeOK
    <3> QED
      BY <2>1, <3>1 DEF TypeOK, NoIndexLost
  <2>2. CASE i = next
    <3>1. Holding(t)' /\ index'[t] = i
      BY <2>2 DEF TypeOK
    <3> QED
      BY <2>2, <3>1 DEF TypeOK, NoIndexLost
  <2>3. CASE i > next
    BY <2>3 DEF TypeOK, NoIndexLost
  <2> QED
    BY <2>1, <2>2, <2>3 DEF TypeOK
<1>6. CounterSpent'
  <2>1. Cardinality(Done) \in Nat /\ IsFiniteSet(Done)
    BY FiniteThreads DEF Done
  <2>2. CASE next >= TaskCount
    <3>1. Done' = Done \cup {t} /\ t \notin Done
      BY <2>2 DEF TypeOK, Done
    <3>2. Cardinality(Done') = Cardinality(Done) + 1
      BY <2>1, <3>1, FS_AddElement
    <3> QED
      BY <2>1, <2>2, <3>2 DEF TypeOK, CounterSpent
  <2>3. CASE next < TaskCount
    <3>1. Done' = Done
      BY <2>3 DEF TypeOK, Done
    <3> QED
      BY <2>1, <2>3, <3>1 DEF TypeOK, CounterSpent
  <2> QED
    BY <2>2, <2>3 DEF TypeOK
<1>7. NoThreadOutlivesPool'
  BY DEF TypeOK, NoThreadOutlivesPool
<1> QED
  BY <1>1, <1>2, <1>3, <1>4, <1>5, <1>6, <1>7 DEF NoThreadOutlivesPool

LEMMA BeginKeepsInv == Inv /\ (\E t \in Thread : BeginTask(t)) => Inv'
<1> SUFFICES ASSUME Inv, NEW t \in Thread, BeginTask(t) PROVE Inv'
  OBVIOUS
<1> USE PoolAssumption DEF Inv, BeginTask
<1>1. index[t] \in Index /\ index[t] < next /\ verdict[index[t]] = Unset
  BY DEF HoldersAgree
<1>2. TypeOK'
  BY <1>1 DEF TypeOK
<1>3. ThreadsMatchPhase'
  BY DEF TypeOK, ThreadsMatchPhase
<1>4. HoldersAgree' /\ OneOwner'
  BY <1>1 DEF TypeOK, HoldersAgree, OneOwner
<1>5. NoIndexLost'
  BY <1>1 DEF TypeOK, NoIndexLost
<1>6. CounterSpent'
  <2>1. Done' = Done
    BY DEF TypeOK, Done
  <2> QED
    BY <2>1 DEF CounterSpent
<1>7. NoThreadOutlivesPool'
  BY DEF NoThreadOutlivesPool
<1> QED
  BY <1>2, <1>3, <1>4, <1>5, <1>6, <1>7 DEF NoThreadOutlivesPool

LEMMA EndKeepsInv == Inv /\ (\E t \in Thread : EndTask(t)) => Inv'
<1> SUFFICES ASSUME Inv, NEW t \in Thread, EndTask(t) PROVE Inv'
  OBVIOUS
<1> USE PoolAssumption DEF Inv
<1>1. PICK s \in PortState :
        /\ results' = [results EXCEPT ![index[t]].state = s]
        /\ verdict' = [verdict EXCEPT ![index[t]] = s]
  BY DEF EndTask
<1>2. /\ pc[t] = "probe"
      /\ pc' = [pc EXCEPT ![t] = "take"]
      /\ UNCHANGED <<phase, requested, next, started, joined, index, report>>
  BY DEF EndTask
<1>3. /\ index[t] \in Index
      /\ index[t] < next
      /\ results[index[t]].port = Items[index[t]]
  BY <1>2 DEF HoldersAgree
<1>4. TypeOK'
  BY <1>1, <1>2, <1>3 DEF TypeOK
<1>5. ThreadsMatchPhase'
  BY <1>2 DEF TypeOK, ThreadsMatchPhase
<1>6. OneOwner'
  BY <1>2 DEF TypeOK, OneOwner
<1>7. HoldersAgree'
  BY <1>1, <1>2, <1>3 DEF TypeOK, HoldersAgree, OneOwner
<1>8. NoIndexLost'
  <2>1. results'[index[t]] = [port |-> Items[index[t]], state |-> s] /\ verdict'[index[t]] = s
    BY <1>1, <1>3 DEF TypeOK
  <2>2. ASSUME NEW i \in Index, i # index[t]
        PROVE  results'[i] = results[i] /\ verdict'[i] = verdict[i]
    BY <1>1, <2>2 DEF TypeOK
  <2>3. ASSUME NEW u \in Thread, Holding(u), index[u] # index[t]
        PROVE  Holding(u)' /\ index'[u] = index[u]
    BY <1>2, <2>3 DEF TypeOK
  <2> QED
    BY <1>2, <1>3, <2>1, <2>2, <2>3 DEF NoIndexLost
<1>9. CounterSpent' /\ NoThreadOutlivesPool'
  <2>1. Done' = Done
    BY <1>2 DEF TypeOK, Done
  <2> QED
    BY <1>2, <2>1 DEF CounterSpent, NoThreadOutlivesPool
<1> QED
  BY <1>2, <1>4, <1>5, <1>6, <1>7, <1>8, <1>9 DEF NoThreadOutlivesPool

LEMMA NextInv == Inv /\ [Next]_vars => Inv'
<1>1. Inv /\ UNCHANGED vars => Inv'
  BY DEF Inv, vars, TypeOK, ThreadsMatchPhase, HoldersAgree, OneOwner, NoIndexLost,
         CounterSpent, Done, NoThreadOutlivesPool
<1> QED
  BY <1>1, AllocateKeepsInv, CreateKeepsInv, StopCreatingKeepsInv, JoinKeepsInv, ReturnKeepsInv,
     PrintKeepsInv, TakeKeepsInv, BeginKeepsInv, EndKeepsInv
  DEF Next, run_scan, pool_run, work_loop, Terminated

-----------------------------------------------------------------------------
(* The inductive invariant holds in every reachable state of the pool.     *)
THEOREM InvHolds == Spec => []Inv
BY InitInv, NextInv, PTL DEF Spec

(* Every variable of the pool keeps its type.                              *)
THEOREM TypeCorrect == Spec => []TypeOK
BY InvHolds, PTL DEF Inv

(* No two threads of work_loop ever write the same PortResult.             *)
THEOREM SlotsHaveOneOwner == Spec => []OneOwner
BY InvHolds, PTL DEF Inv

(* An index the counter has passed is with a thread or has its result.     *)
THEOREM NothingIsLost == Spec => []NoIndexLost
BY InvHolds, PTL DEF Inv

(* When pool_run returns, no thread can still use its stack frame or the   *)
(* slots.                                                                  *)
THEOREM NoThreadIsLeft == Spec => []NoThreadOutlivesPool
BY InvHolds, PTL DEF Inv

(* The report of run_scan is complete and shows what the probes found.     *)
THEOREM ReportsAreComplete == Spec => []ReportIsComplete
<1>1. ASSUME Inv, phase = "exit", NEW i \in Index
      PROVE  verdict[i] # Unset /\ report[i] = [port |-> Items[i], state |-> verdict[i]]
  <2>1. i < next
    BY <1>1, PoolAssumption DEF Inv, TypeOK, CounterSpent
  <2>2. \A t \in Thread : ~Holding(t)
    BY <1>1 DEF Inv, NoThreadOutlivesPool
  <2> QED
    BY <1>1, <2>1, <2>2 DEF Inv, NoIndexLost
<1>2. Inv => ReportIsComplete
  BY <1>1 DEF ReportIsComplete
<1> QED
  BY <1>2, InvHolds, PTL

(* The threads that can be in work_loop: the workers, or the caller alone. *)
Live == IF started = 0 THEN {0} ELSE 1 .. started

LEMMA LiveThreads ==
    ASSUME Inv
    PROVE  /\ \A t \in Thread : pc[t] # "absent" => t \in Live
           /\ IsFiniteSet(Live)
           /\ Cardinality(Live) = IF started = 0 THEN 1 ELSE started
<1> USE PoolAssumption
<1>1. \A t \in Thread : pc[t] # "absent" => t \in Live
  BY DEF Inv, TypeOK, ThreadsMatchPhase, Live
<1>2. CASE started = 0
  BY <1>1, <1>2, FS_Singleton DEF Live
<1>3. CASE started # 0
  <2>1. started \in Nat
    BY WorkerCount DEF Inv, TypeOK
  <2>2. IsFiniteSet(1 .. started) /\ Cardinality(1 .. started) = started
    BY <1>3, <2>1, FS_Interval
  <2> QED
    BY <1>1, <1>3, <2>2 DEF Live
<1> QED
  BY <1>2, <1>3

(* A set of live threads is no larger than worker_count.                   *)
LEMMA LiveBound ==
    ASSUME Inv, NEW S \in SUBSET Thread, \A t \in S : pc[t] # "absent"
    PROVE  /\ IsFiniteSet(S)
           /\ Cardinality(S) \in Nat
           /\ Cardinality(S) <= IF started = 0 THEN 1 ELSE started
           /\ Cardinality(S) <= workers
<1>1. S \in SUBSET Live
  BY LiveThreads
<1>2. Cardinality(S) <= IF started = 0 THEN 1 ELSE started
  BY <1>1, LiveThreads, FS_Subset
<1>3. started \in Nat /\ started <= workers /\ workers \in Nat /\ 1 <= workers
  BY WorkerCount DEF Inv, TypeOK
<1> QED
  BY <1>2, <1>3, FiniteThreads

(* The shared counter stays within the ports plus one step per thread.     *)
THEOREM CounterIsBounded == Spec => []CounterBound
<1>1. ASSUME Inv PROVE CounterBound
  <2>1. /\ Cardinality(Done) \in Nat
        /\ Cardinality(Done) <= IF started = 0 THEN 1 ELSE started
    BY <1>1, LiveBound DEF Done
  <2>2. started \in Nat
    BY <1>1, WorkerCount DEF Inv, TypeOK
  <2> QED
    BY <1>1, <2>1, <2>2, PoolAssumption DEF Inv, TypeOK, CounterSpent, CounterBound
<1> QED
  BY <1>1, InvHolds, PTL

(* The threads never exceed --concurrency, nor THREAD_LIMIT, and the       *)
(* probes in flight never exceed the threads.                              *)
THEOREM ConcurrencyIsBounded == Spec => []ConcurrencyBound
<1>1. ASSUME Inv PROVE ConcurrencyBound
  <2>1. Cardinality(Probing) <= IF started = 0 THEN 1 ELSE started
    BY <1>1, LiveBound DEF Probing
  <2>2. /\ started \in Nat
        /\ started <= workers
    BY <1>1, WorkerCount DEF Inv, TypeOK
  <2>3. /\ workers \in Nat
        /\ workers <= requested
        /\ workers <= ThreadLimit
        /\ requested \in Nat
    BY <1>1, WorkerCount, PoolAssumption DEF Inv, TypeOK
  <2> QED
    BY <2>1, <2>2, <2>3, PoolAssumption DEF ConcurrencyBound
<1> QED
  BY <1>1, InvHolds, PTL

(* No step changes a slot, or a verdict, once its probe has ended.         *)
THEOREM SlotsAreWrittenOnce == Spec => WrittenOnce
<1>1. ASSUME Inv, [Next]_vars, NEW i \in Index, verdict[i] # Unset
      PROVE  results'[i] = results[i] /\ verdict'[i] = verdict[i]
  <2>1. ASSUME NEW t \in Thread, Holding(t) PROVE index[t] # i
    BY <1>1, <2>1 DEF Inv, HoldersAgree
  <2>2. ASSUME NEW t \in Thread, work_loop(t)
        PROVE  results'[i] = results[i] /\ verdict'[i] = verdict[i]
    BY <1>1, <2>1, <2>2 DEF Inv, TypeOK, work_loop, take_next, BeginTask, EndTask
  <2>3. CASE run_scan \/ UNCHANGED vars
    BY <2>3 DEF run_scan, AllocateResults, pool_run, CreateWorker, StopCreating, Join,
                PoolReturns, PrintReport, vars
  <2> QED
    BY <1>1, <2>2, <2>3 DEF Next, Terminated
<1>2. Inv /\ [Next]_vars =>
        [\A i \in Index : verdict[i] # Unset => results'[i] = results[i] /\ verdict'[i] = verdict[i]]_vars
  BY <1>1
<1> QED
  BY <1>2, InvHolds, PTL DEF Spec, WrittenOnce

-----------------------------------------------------------------------------
(* Refinement: every step of the pool is a step of the scan contract, or   *)
(* leaves what the contract sees unchanged.                                *)

(* The positions being probed are no more than the threads probing them.   *)
LEMMA ActiveBound ==
    ASSUME Inv
    PROVE  IsFiniteSet(Active) /\ Cardinality(Active) <= requested
<1> DEFINE f == [t \in Probing |-> index[t]]
<1>1. f \in Surjection(Probing, Active)
  BY DEF Surjection, Active
<1>2. /\ IsFiniteSet(Probing)
      /\ Cardinality(Probing) \in Nat
      /\ Cardinality(Probing) <= workers
  BY LiveBound DEF Probing
<1>3. /\ IsFiniteSet(Active)
      /\ Cardinality(Active) <= Cardinality(Probing)
  BY <1>1, <1>2, FS_Surjection
<1>4. /\ workers \in Nat
      /\ workers <= requested
      /\ requested \in Nat
  BY WorkerCount, PoolAssumption DEF Inv, TypeOK
<1>5. Cardinality(Active) \in Nat
  BY <1>3, FS_CardinalityType
<1> QED
  BY <1>2, <1>3, <1>4, <1>5

LEMMA InitRefines == Init => Contract!Init
BY DEF Init, Contract!Init, ContractPhase, Active, Probing

(* A step that changes neither the threads nor the verdicts.               *)
LEMMA CallerRefines == Inv /\ run_scan => [Contract!Next]_Contract!vars
<1> SUFFICES ASSUME Inv, run_scan PROVE [Contract!Next]_Contract!vars
  OBVIOUS
<1>1. CASE AllocateResults
  <2>1. Probing' = Probing /\ Active' = Active
    BY <1>1 DEF AllocateResults, Probing, Active
  <2>2. CASE phase' = "create"
    BY <1>1, <2>1, <2>2 DEF AllocateResults, Contract!vars, ContractPhase
  <2>3. CASE phase' = "out_of_memory"
    <3>1. next = 0
      BY <1>1 DEF AllocateResults, Inv, ThreadsMatchPhase
    <3>2. Active = {}
      BY <3>1 DEF Inv, HoldersAgree, Active, Probing
    <3>3. \A i \in Index : verdict[i] = Unset
      <4>1. \A i \in Index : ~(i < next)
        BY <3>1, PoolAssumption
      <4> QED
        BY <4>1 DEF Inv, NoIndexLost
    <3> QED
      BY <1>1, <2>1, <2>3, <3>2, <3>3
      DEF AllocateResults, Contract!Next, Contract!Refuse, ContractPhase
  <2> QED
    BY <1>1, <2>2, <2>3 DEF AllocateResults
<1>2. CASE pool_run
  <2>1. Probing' = Probing
    <3>1. ASSUME CreateWorker PROVE started + 1 \in Thread /\ pc[started + 1] = "absent"
      BY <3>1, WorkerCount, PoolAssumption DEF CreateWorker, Inv, TypeOK, ThreadsMatchPhase
    <3>2. ASSUME StopCreating PROVE pc[0] = "absent"
      BY <3>2 DEF StopCreating, Inv, ThreadsMatchPhase
    <3> QED
      BY <1>2, <3>1, <3>2 DEF pool_run, CreateWorker, StopCreating, Join, PoolReturns, Probing, Inv, TypeOK
  <2>2. /\ index' = index
        /\ ContractPhase' = ContractPhase
        /\ UNCHANGED <<requested, verdict, report>>
    BY <1>2 DEF pool_run, CreateWorker, StopCreating, Join, PoolReturns, ContractPhase
  <2> QED
    BY <2>1, <2>2 DEF Active, Contract!vars
<1>3. CASE PrintReport
  <2>1. Active' = Active /\ UNCHANGED <<requested, verdict>>
    BY <1>3 DEF PrintReport, Active, Probing
  <2>2. \A i \in Index : verdict[i] # Unset /\ results[i] = [port |-> Items[i], state |-> verdict[i]]
    <3>1. \A t \in Thread : ~Holding(t)
      BY <1>3 DEF PrintReport, Inv, NoThreadOutlivesPool
    <3>2. \A i \in Index : i < next
      BY <1>3, PoolAssumption DEF PrintReport, Inv, TypeOK, CounterSpent
    <3> QED
      BY <3>1, <3>2 DEF Inv, NoIndexLost
  <2>3. report' = [i \in Index |-> [port |-> Items[i], state |-> verdict[i]]]
    BY <1>3, <2>2 DEF PrintReport, Inv, TypeOK
  <2> QED
    BY <1>3, <2>1, <2>2, <2>3 DEF PrintReport, Contract!Next, Contract!Report, ContractPhase
<1> QED
  BY <1>1, <1>2, <1>3 DEF run_scan

(* A thread's step: claiming is invisible, a probe starts and finishes.    *)
LEMMA ThreadRefines == Inv /\ Inv' /\ (\E t \in Thread : work_loop(t)) => [Contract!Next]_Contract!vars
<1> SUFFICES ASSUME Inv, Inv', NEW t \in Thread, work_loop(t)
             PROVE  [Contract!Next]_Contract!vars
  OBVIOUS
<1>0. /\ pc \in [Thread -> {"absent", "take", "task", "probe", "done"}]
      /\ index \in [Thread -> Nat]
      /\ verdict \in [Index -> PortState \cup {Unset}]
  BY DEF Inv, TypeOK
<1>1. CASE take_next(t)
  <2>1. Probing' = Probing /\ t \notin Probing
    BY <1>0, <1>1 DEF take_next, Probing
  <2>2. \A u \in Probing : index'[u] = index[u]
    BY <1>0, <1>1, <2>1 DEF take_next, Probing
  <2>3. Active' = Active
    BY <2>1, <2>2 DEF Active
  <2> QED
    BY <1>1, <2>3 DEF take_next, Contract!vars, ContractPhase
<1>2. phase \notin {"exit", "out_of_memory"} \/ take_next(t)
  <2>1. CASE phase = "exit"
    BY <2>1 DEF work_loop, BeginTask, EndTask, Inv, NoThreadOutlivesPool
  <2>2. CASE phase = "out_of_memory"
    BY <2>2 DEF work_loop, BeginTask, EndTask, Inv, ThreadsMatchPhase, HoldersAgree
  <2> QED
    BY <2>1, <2>2
<1>3. CASE BeginTask(t)
  <2>1. /\ index[t] \in Index
        /\ verdict[index[t]] = Unset
    BY <1>3 DEF BeginTask, Inv, HoldersAgree
  <2>2. index[t] \notin Active
    <3>1. \A u \in Probing : index[u] # index[t]
      BY <1>3 DEF BeginTask, Probing, Inv, OneOwner
    <3> QED
      BY <3>1 DEF Active
  <2>3. Probing' = Probing \cup {t}
    BY <1>0, <1>3 DEF BeginTask, Probing
  <2>4. Active' = Active \cup {index[t]}
    BY <1>3, <2>3 DEF BeginTask, Active
  <2>5. Cardinality(Active') <= requested
    <3>1. ASSUME Inv' PROVE (Cardinality(Active) <= requested)'
      BY <3>1, ActiveBound, PTL
    <3> QED
      BY <1>3, <3>1 DEF BeginTask
  <2>6. Contract!Start(index[t])
    BY <1>2, <1>3, <2>1, <2>2, <2>4, <2>5
    DEF BeginTask, take_next, Contract!Start, ContractPhase, Cardinality, Contract!Cardinality
  <2> QED
    BY <2>1, <2>6 DEF Contract!Next
<1>4. CASE EndTask(t)
  <2>1. index[t] \in Index
    BY <1>4 DEF EndTask, Inv, HoldersAgree
  <2>2. Probing' = Probing \ {t} /\ t \in Probing
    BY <1>0, <1>4 DEF EndTask, Probing
  <2>3. \A u \in Probing : index[u] = index[t] => u = t
    BY <2>2 DEF Probing, Inv, OneOwner
  <2>4. Active' = Active \ {index[t]} /\ index[t] \in Active
    BY <1>4, <2>2, <2>3 DEF EndTask, Active
  <2>5. Contract!Finish(index[t])
    BY <1>2, <1>4, <2>4 DEF EndTask, take_next, Contract!Finish, ContractPhase
  <2> QED
    BY <2>1, <2>5 DEF Contract!Next
<1> QED
  BY <1>1, <1>3, <1>4 DEF work_loop

(* The pool implements the safety part of the scan contract: each port is  *)
(* probed once, never more than --concurrency at a time, and the report is *)
(* complete and in port order, or the scan was refused before any probe.   *)
THEOREM ImplementsScanContract == Spec => Contract!Spec
<1>1. Inv /\ Inv' /\ [Next]_vars => [Contract!Next]_Contract!vars
  <2>1. ASSUME UNCHANGED vars PROVE UNCHANGED Contract!vars
    BY <2>1 DEF vars, Contract!vars, ContractPhase, Active, Probing
  <2> QED
    BY <2>1, CallerRefines, ThreadRefines DEF Next, Terminated
<1> QED
  BY <1>1, InitRefines, InvHolds, PTL DEF Spec, Contract!Spec
=============================================================================
