--------------------------- MODULE CppPoolProofs ---------------------------
(***************************************************************************)
(* Proofs about CppPool for every port list and every concurrency, whether *)
(* or not threads can be created.  IInv is inductive: InitInv and NextInv  *)
(* prove it one action at a time, and the properties follow from it.       *)
(***************************************************************************)
EXTENDS CppPool, FiniteSetTheorems, TLAPS

(* Which threads exist, and how far the caller can be without them.        *)
ThreadsMatch ==
    /\ \A t \in Thread : pc[t] # "absent" => t \in 1 .. started \/ (t = 0 /\ started = 0)
    /\ \A t \in 1 .. joined : pc[t] = "done"
    /\ phase = "start" => started = 0 /\ pc[0] = "absent"
    /\ phase = "create" => pc[0] = "absent"
    /\ phase = "join" => started = workers /\ started > 0
    /\ phase \in {"report", "exit"} => nextIndex >= TaskCount

(* A thread holds an index the counter has passed.                         *)
HoldersAgree == \A t \in Probing : index[t] \in Index /\ index[t] < nextIndex

(* An index the counter has passed is with a thread, or its result is in   *)
(* place; the others are untouched.                                        *)
NoIndexLost ==
    \A i \in Index :
        IF i < nextIndex
        THEN \/ verdict[i] = Unset /\ \E t \in Probing : index[t] = i
             \/ verdict[i] # Unset /\ results[i] = [port |-> Items[i], state |-> verdict[i]]
        ELSE verdict[i] = Unset /\ results[i] = DefaultResult

(* A thread ends only when no index is left.                               *)
CounterSpent == \A t \in Thread : pc[t] = "done" => nextIndex >= TaskCount

(* The inductive invariant.                                                *)
IInv ==
    /\ TypeOK
    /\ ThreadsMatch
    /\ OneWriter
    /\ JoinedBeforeRead
    /\ HoldersAgree
    /\ NoIndexLost
    /\ CounterSpent

USE DEF Thread, Worker, Index, PortState, Probing, DefaultResult

-----------------------------------------------------------------------------
(* The pool wants at least one thread and never more than --concurrency.   *)
LEMMA Workers ==
    ASSUME concurrency \in Concurrency
    PROVE  workers \in Nat /\ 1 <= workers /\ workers <= concurrency /\ workers <= TaskCount
BY PoolAssumption DEF workers

(* What the counter has not passed is untouched.                           *)
LEMMA UntouchedAhead ==
    ASSUME IInv, NEW i \in Index, i >= nextIndex
    PROVE  verdict[i] = Unset /\ results[i] = DefaultResult
<1>1. ~(i < nextIndex)
  BY PoolAssumption DEF IInv, TypeOK
<1> HIDE DEF Index, DefaultResult, Probing
<1> QED
  BY <1>1 DEF IInv, NoIndexLost

(* IInv holds when the calling thread enters scanPorts.                    *)
LEMMA InitInv == Init => IInv
<1> SUFFICES ASSUME Init PROVE IInv
  OBVIOUS
<1> USE PoolAssumption DEF Init
<1>1. TypeOK
  BY Workers DEF TypeOK, Result
<1>2. ThreadsMatch /\ OneWriter /\ JoinedBeforeRead /\ HoldersAgree /\ NoIndexLost /\ CounterSpent
  BY DEF ThreadsMatch, OneWriter, JoinedBeforeRead, HoldersAgree, NoIndexLost, CounterSpent
<1> QED
  BY <1>1, <1>2 DEF IInv

LEMMA ChooseKeepsInv == IInv /\ ChooseInline => IInv'
<1> SUFFICES ASSUME IInv, ChooseInline PROVE IInv'
  OBVIOUS
<1> USE PoolAssumption DEF IInv, ChooseInline
<1>1. started = 0 /\ pc[0] = "absent" /\ workers' = workers
  BY DEF ThreadsMatch, workers
<1>2. TypeOK'
  BY <1>1 DEF TypeOK
<1>3. ThreadsMatch'
  <2>1. joined = 0 /\ phase' \in {"inline", "create"}
    BY <1>1 DEF TypeOK
  <2>2. ASSUME NEW t \in Thread, t # 0 PROVE pc'[t] = "absent"
    <3>1. t \notin 1 .. started
      BY <1>1
    <3>2. pc[t] = "absent"
      BY <2>2, <3>1 DEF ThreadsMatch
    <3> QED
      BY <2>2, <3>2 DEF TypeOK
  <2>3. phase' = "create" => pc'[0] = "absent"
    BY <1>1
  <2> QED
    BY <1>1, <2>1, <2>2, <2>3 DEF ThreadsMatch
<1>4. Probing' = Probing /\ JoinedBeforeRead'
  BY <1>1 DEF TypeOK, JoinedBeforeRead
<1>5. OneWriter' /\ HoldersAgree' /\ NoIndexLost'
  BY <1>4 DEF OneWriter, HoldersAgree, NoIndexLost
<1>6. CounterSpent'
  BY <1>1 DEF TypeOK, CounterSpent
<1> QED
  BY <1>2, <1>3, <1>4, <1>5, <1>6

LEMMA CreateKeepsInv == IInv /\ CreateThread => IInv'
<1> SUFFICES ASSUME IInv, CreateThread PROVE IInv'
  OBVIOUS
<1> USE PoolAssumption DEF IInv, CreateThread
<1>1. /\ started + 1 \in Worker /\ pc[started + 1] = "absent" /\ workers' = workers
      /\ workers \in Nat /\ started \in Nat
  BY Workers DEF TypeOK, ThreadsMatch, workers
<1>2. TypeOK'
  BY <1>1 DEF TypeOK
<1>3. ThreadsMatch'
  BY <1>1 DEF TypeOK, ThreadsMatch
<1>4. Probing' = Probing /\ JoinedBeforeRead'
  BY <1>1 DEF TypeOK, JoinedBeforeRead
<1>5. OneWriter' /\ HoldersAgree' /\ NoIndexLost'
  BY <1>4 DEF OneWriter, HoldersAgree, NoIndexLost
<1>6. CounterSpent'
  BY <1>1 DEF TypeOK, CounterSpent
<1> QED
  BY <1>2, <1>3, <1>4, <1>5, <1>6

(* The caller's other steps before it returns leave the threads alone.     *)
LEMMA QuietKeepsInv == IInv /\ (CreateThrows \/ ReturnResults \/ JoinThread \/ Unwound) => IInv'
<1> SUFFICES ASSUME IInv, CreateThrows \/ ReturnResults \/ JoinThread \/ Unwound PROVE IInv'
  OBVIOUS
<1> USE PoolAssumption DEF IInv, CreateThrows, ReturnResults, JoinThread, Unwound
<1>1. /\ UNCHANGED <<concurrency, nextIndex, started, pc, index, results, verdict, report>>
      /\ workers' = workers /\ workers \in Nat /\ 1 <= workers /\ started \in Nat /\ joined \in Nat
  BY Workers DEF workers, TypeOK
<1>2. TypeOK'
  BY <1>1 DEF TypeOK
<1>3. ThreadsMatch'
  BY <1>1 DEF TypeOK, ThreadsMatch
<1>4. Probing' = Probing
  BY <1>1
<1>5. JoinedBeforeRead'
  BY <1>1 DEF TypeOK, JoinedBeforeRead
<1>6. OneWriter' /\ HoldersAgree' /\ NoIndexLost' /\ CounterSpent'
  BY <1>1, <1>4 DEF OneWriter, HoldersAgree, NoIndexLost, CounterSpent
<1> QED
  BY <1>2, <1>3, <1>5, <1>6

(* scanPorts returns after the last join, or after the caller's own work:  *)
(* every thread has ended, and at least one has found no index left.       *)
LEMMA ReturnKeepsInv == IInv /\ scanPorts_returns => IInv'
<1> SUFFICES ASSUME IInv, scanPorts_returns PROVE IInv'
  OBVIOUS
<1> USE PoolAssumption DEF IInv, scanPorts_returns
<1>1. workers' = workers /\ workers \in Nat /\ 1 <= workers /\ started \in Nat
  BY Workers DEF workers, TypeOK
<1>2. \A t \in Thread : pc[t] \in {"absent", "done"}
  <2>1. CASE phase = "join" /\ joined = started
    BY <1>1, <2>1 DEF TypeOK, ThreadsMatch
  <2>2. CASE phase = "inline" /\ pc[0] = "done"
    BY <1>1, <2>2 DEF TypeOK, ThreadsMatch
  <2> QED
    BY <2>1, <2>2
<1>3. nextIndex >= TaskCount
  <2>1. CASE phase = "join" /\ joined = started
    <3>1. 1 \in Thread /\ pc[1] = "done"
      BY <1>1, <2>1, Workers DEF TypeOK, ThreadsMatch
    <3> QED
      BY <3>1 DEF CounterSpent
  <2>2. CASE phase = "inline" /\ pc[0] = "done"
    BY <2>2 DEF CounterSpent
  <2> QED
    BY <2>1, <2>2
<1>4. TypeOK'
  BY <1>1 DEF TypeOK
<1>5. ThreadsMatch'
  BY <1>1, <1>3 DEF TypeOK, ThreadsMatch
<1>6. JoinedBeforeRead'
  BY <1>2 DEF JoinedBeforeRead
<1>7. OneWriter' /\ HoldersAgree' /\ NoIndexLost' /\ CounterSpent'
  BY DEF OneWriter, HoldersAgree, NoIndexLost, CounterSpent
<1> QED
  BY <1>4, <1>5, <1>6, <1>7

LEMMA WriteKeepsInv == IInv /\ WriteReport => IInv'
<1> SUFFICES ASSUME IInv, WriteReport PROVE IInv'
  OBVIOUS
<1> USE PoolAssumption DEF IInv, WriteReport
<1>1. workers' = workers
  BY DEF workers
<1>2. TypeOK'
  BY <1>1 DEF TypeOK
<1>3. ThreadsMatch' /\ JoinedBeforeRead'
  BY <1>1 DEF ThreadsMatch, JoinedBeforeRead
<1>4. OneWriter' /\ HoldersAgree' /\ NoIndexLost' /\ CounterSpent'
  BY DEF OneWriter, HoldersAgree, NoIndexLost, CounterSpent
<1> QED
  BY <1>2, <1>3, <1>4

(* A thread that claims an index is the first to hold it, because no       *)
(* holder's index has reached the counter.                                 *)
LEMMA FetchKeepsInv == ASSUME IInv, NEW t \in Thread, fetch_add(t) PROVE IInv'
<1> USE PoolAssumption DEF IInv, fetch_add
<1>1. /\ pc \in [Thread -> {"absent", "fetch", "probe", "done"}]
      /\ index \in [Thread -> Nat] /\ nextIndex \in Nat
      /\ workers' = workers
      /\ t \notin Probing
  BY DEF TypeOK, workers
<1>2. IF nextIndex < TaskCount
      THEN Probing' = Probing \cup {t} /\ pc'[t] = "probe"
      ELSE Probing' = Probing /\ pc'[t] = "done"
  BY <1>1
<1>3. \A u \in Probing : index'[u] = index[u]
  BY <1>1
<1>4. index'[t] = nextIndex
  BY <1>1
<1>5. TypeOK'
  BY <1>1 DEF TypeOK
<1>6. ThreadsMatch' /\ JoinedBeforeRead'
  BY <1>1 DEF TypeOK, ThreadsMatch, JoinedBeforeRead
<1>7. HoldersAgree'
  <2> SUFFICES ASSUME NEW u \in Probing' PROVE index'[u] \in Index /\ index'[u] < nextIndex'
    BY DEF HoldersAgree
  <2>1. CASE u \in Probing
    BY <1>1, <1>3, <2>1 DEF HoldersAgree
  <2>2. CASE u \notin Probing
    BY <1>1, <1>2, <1>4, <2>2
  <2> QED
    BY <2>1, <2>2
<1>8. OneWriter'
  <2> SUFFICES ASSUME NEW u \in Probing'
               PROVE  /\ verdict[index'[u]] = Unset /\ results[index'[u]] = DefaultResult
                      /\ \A v \in Probing' : index'[u] = index'[v] => u = v
    BY DEF OneWriter
  <2>1. CASE u \in Probing
    <3>1. index'[u] = index[u] /\ index[u] \in Index /\ index[u] < nextIndex
      BY <1>3, <2>1 DEF HoldersAgree
    <3> QED
      BY <1>1, <1>2, <1>3, <1>4, <2>1, <3>1 DEF OneWriter
  <2>2. CASE u \notin Probing
    <3>1. u = t /\ nextIndex < TaskCount /\ nextIndex \in Index
      BY <1>1, <1>2, <2>2
    <3>2. verdict[nextIndex] = Unset /\ results[nextIndex] = DefaultResult
      BY <1>1, <3>1, UntouchedAhead
    <3>3. \A v \in Probing : index'[v] # nextIndex
      BY <1>1, <1>3 DEF HoldersAgree
    <3> QED
      BY <1>2, <1>4, <3>1, <3>2, <3>3
  <2> QED
    BY <2>1, <2>2
<1>9. NoIndexLost'
  <2> SUFFICES ASSUME NEW i \in Index
               PROVE  IF i < nextIndex'
                      THEN \/ verdict[i] = Unset /\ \E u \in Probing' : index'[u] = i
                           \/ verdict[i] # Unset /\ results[i] = [port |-> Items[i], state |-> verdict[i]]
                      ELSE verdict[i] = Unset /\ results[i] = DefaultResult
    BY DEF NoIndexLost
  <2>1. CASE i < nextIndex
    BY <1>1, <1>2, <1>3, <2>1 DEF NoIndexLost
  <2>2. CASE i = nextIndex
    <3>1. t \in Probing' /\ index'[t] = i
      BY <1>1, <1>2, <1>4, <2>2
    <3>2. verdict[i] = Unset /\ UNCHANGED verdict
      BY <1>1, <2>2, UntouchedAhead
    <3>3. i < nextIndex'
      BY <1>1, <2>2
    <3> QED
      BY <3>1, <3>2, <3>3
  <2>3. CASE i > nextIndex
    BY <1>1, <2>3 DEF NoIndexLost
  <2> QED
    BY <1>1, <2>1, <2>2, <2>3
<1>10. CounterSpent'
  BY <1>1 DEF CounterSpent
<1> QED
  BY <1>5, <1>6, <1>7, <1>8, <1>9, <1>10

(* The result goes into the slot of the index the thread alone holds.      *)
LEMMA StoreKeepsInv == ASSUME IInv, NEW t \in Thread, StoreResult(t) PROVE IInv'
<1> USE PoolAssumption DEF IInv, StoreResult
<1>1. /\ pc \in [Thread -> {"absent", "fetch", "probe", "done"}]
      /\ results \in [Index -> Result]
      /\ verdict \in [Index -> PortState \cup {Unset}]
      /\ workers' = workers
  BY DEF TypeOK, workers
<1>2. PICK s \in PortState :
        /\ results' = [results EXCEPT ![index[t]] = [port |-> Items[index[t]], state |-> s]]
        /\ verdict' = [verdict EXCEPT ![index[t]] = s]
  OBVIOUS
<1>3. t \in Probing /\ Probing' = Probing \ {t} /\ index[t] \in Index /\ index[t] < nextIndex
  BY <1>1 DEF HoldersAgree
<1>4. TypeOK'
  <2>1. [port |-> Items[index[t]], state |-> s] \in Result
    BY <1>3 DEF Result
  <2>2. results' \in [Index -> Result] /\ verdict' \in [Index -> PortState \cup {Unset}]
    BY <1>1, <1>2, <2>1
  <2>3. pc' \in [Thread -> {"absent", "fetch", "probe", "done"}]
    BY <1>1
  <2> QED
    BY <1>1, <2>2, <2>3 DEF TypeOK
<1>5. ThreadsMatch' /\ JoinedBeforeRead'
  BY <1>1 DEF TypeOK, ThreadsMatch, JoinedBeforeRead
<1>6. HoldersAgree'
  BY <1>3 DEF HoldersAgree
<1>7. OneWriter'
  <2>1. \A u \in Probing' : index[u] \in Index /\ index[u] # index[t]
    BY <1>3 DEF OneWriter, HoldersAgree
  <2> QED
    BY <1>1, <1>2, <1>3, <2>1 DEF OneWriter
<1>8. NoIndexLost'
  <2>1. results'[index[t]] = [port |-> Items[index[t]], state |-> s] /\ verdict'[index[t]] = s
    BY <1>1, <1>2, <1>3
  <2>2. \A i \in Index : i # index[t] => results'[i] = results[i] /\ verdict'[i] = verdict[i]
    BY <1>1, <1>2
  <2>3. \A i \in Index : i # index[t] =>
            ((\E u \in Probing : index[u] = i) => (\E u \in Probing' : index[u] = i))
    BY <1>3
  <2> QED
    BY <1>3, <2>1, <2>2, <2>3 DEF NoIndexLost
<1>9. CounterSpent'
  BY <1>1 DEF CounterSpent
<1> QED
  BY <1>4, <1>5, <1>6, <1>7, <1>8, <1>9

LEMMA StutterKeepsInv == IInv /\ UNCHANGED vars => IInv'
BY DEF IInv, vars, TypeOK, workers, ThreadsMatch, OneWriter, JoinedBeforeRead, HoldersAgree,
       NoIndexLost, CounterSpent

LEMMA NextInv == IInv /\ [Next]_vars => IInv'
BY ChooseKeepsInv, CreateKeepsInv, QuietKeepsInv, ReturnKeepsInv, WriteKeepsInv, FetchKeepsInv,
   StoreKeepsInv, StutterKeepsInv
DEF Next, runScan, scanPorts, worker, Terminated

(* IInv holds in every reachable state.                                    *)
THEOREM InvHolds == Spec => []IInv
BY InitInv, NextInv, PTL DEF Spec

-----------------------------------------------------------------------------

(* Every variable of the pool keeps its type.                              *)
THEOREM TypeCorrect == Spec => []TypeOK
<1>1. IInv => TypeOK
  BY DEF IInv
<1> QED
  BY <1>1, InvHolds, PTL

(* No two threads of the worker lambda ever assign the same result, and    *)
(* none assigns a result twice.                                            *)
THEOREM SlotsHaveOneWriter == Spec => []OneWriter
<1>1. IInv => OneWriter
  BY DEF IInv
<1> QED
  BY <1>1, InvHolds, PTL

(* Whatever the caller reads in the results vector was written by a thread *)
(* that has been joined.                                                   *)
THEOREM ThreadsJoinFirst == Spec => []JoinedBeforeRead
<1>1. IInv => JoinedBeforeRead
  BY DEF IInv
<1> QED
  BY <1>1, InvHolds, PTL

-----------------------------------------------------------------------------
(* The refinement of ScanContract.                                         *)

Active == {index[t] : t \in Probing}

(* The positions being probed are no more than the threads probing them,   *)
(* which are the jthreads, or the caller alone.                            *)
LEMMA ActiveBound ==
    ASSUME IInv
    PROVE  IsFiniteSet(Active) /\ Cardinality(Active) <= concurrency
<1> DEFINE Live == IF started = 0 THEN {0} ELSE 1 .. started
<1>1. /\ workers \in Nat /\ 1 <= workers /\ workers <= concurrency /\ concurrency \in Nat
      /\ started \in Nat /\ started <= workers
  BY Workers, PoolAssumption DEF IInv, TypeOK
<1>2. IsFiniteSet(Live) /\ Cardinality(Live) \in Nat /\ Cardinality(Live) <= workers
  <2>1. CASE started = 0
    <3>1. IsFiniteSet({0}) /\ Cardinality({0}) = 1
      BY FS_Singleton
    <3> QED
      BY <1>1, <2>1, <3>1
  <2>2. CASE started # 0
    <3>1. IsFiniteSet(1 .. started) /\ Cardinality(1 .. started) = started
      BY <1>1, <2>2, FS_Interval
    <3> QED
      BY <1>1, <2>2, <3>1
  <2> QED
    BY <2>1, <2>2
<1>3. Probing \subseteq Live
  BY PoolAssumption DEF IInv, ThreadsMatch
<1>4. /\ IsFiniteSet(Probing) /\ Cardinality(Probing) \in Nat
      /\ Cardinality(Probing) <= Cardinality(Live)
  <2> HIDE DEF Live, Probing
  <2>1. IsFiniteSet(Probing) /\ Cardinality(Probing) <= Cardinality(Live)
    BY <1>2, <1>3, FS_Subset
  <2> QED
    BY <2>1, FS_CardinalityType
<1> DEFINE f == [t \in Probing |-> index[t]]
<1>5. f \in Surjection(Probing, Active)
  BY DEF Surjection, Active
<1>6. /\ IsFiniteSet(Active) /\ Cardinality(Active) \in Nat
      /\ Cardinality(Active) <= Cardinality(Probing)
  <2> HIDE DEF f, Probing, Active
  <2>1. IsFiniteSet(Active) /\ Cardinality(Active) <= Cardinality(Probing)
    BY <1>4, <1>5, FS_Surjection
  <2> QED
    BY <2>1, FS_CardinalityType
<1> HIDE DEF Live, Probing, Active
<1> QED
  BY <1>1, <1>2, <1>4, <1>6

LEMMA InitRefines == Init => Contract!Init
BY DEF Init, Contract!Init, ContractPhase

LEMMA CallerRefines == IInv /\ runScan => [Contract!Next]_Contract!vars
<1> SUFFICES ASSUME IInv, runScan PROVE [Contract!Next]_Contract!vars
  OBVIOUS
<1>1. CASE scanPorts
  <2>1. Probing' = Probing
    <3>1. ASSUME CreateThread PROVE started + 1 \in Thread /\ pc[started + 1] = "absent"
      BY <3>1, Workers, PoolAssumption DEF CreateThread, IInv, TypeOK, ThreadsMatch
    <3>2. ASSUME ChooseInline PROVE pc[0] = "absent"
      BY <3>2 DEF ChooseInline, IInv, ThreadsMatch
    <3> QED
      BY <1>1, <3>1, <3>2 DEF scanPorts, ChooseInline, CreateThread, CreateThrows, ReturnResults,
         JoinThread, Unwound, scanPorts_returns, IInv, TypeOK
  <2>2. /\ index' = index
        /\ ContractPhase' = ContractPhase
        /\ UNCHANGED <<concurrency, verdict, report>>
    BY <1>1 DEF scanPorts, ChooseInline, CreateThread, CreateThrows, ReturnResults, JoinThread,
       Unwound, scanPorts_returns, ContractPhase
  <2> QED
    BY <2>1, <2>2 DEF Contract!vars
<1>2. CASE WriteReport
  <2>1. Probing' = Probing /\ UNCHANGED <<index, concurrency, verdict>>
    BY <1>2 DEF WriteReport
  <2>2. \A i \in Index : verdict[i] # Unset /\ results[i] = [port |-> Items[i], state |-> verdict[i]]
    <3>1. Probing = {}
      BY <1>2 DEF WriteReport, IInv, JoinedBeforeRead
    <3>2. \A i \in Index : i < nextIndex
      BY <1>2, PoolAssumption DEF WriteReport, IInv, TypeOK, ThreadsMatch
    <3> QED
      BY <3>1, <3>2 DEF IInv, NoIndexLost
  <2>3. report' = [i \in Index |-> [port |-> Items[i], state |-> verdict[i]]]
    BY <1>2, <2>2 DEF WriteReport, IInv, TypeOK
  <2> QED
    BY <1>2, <2>1, <2>2, <2>3 DEF WriteReport, Contract!Next, Contract!Report, ContractPhase
<1> QED
  BY <1>1, <1>2 DEF runScan

(* A thread's step: its claim starts a probe, or finds no index left; its  *)
(* store finishes the probe.                                               *)
LEMMA ThreadRefines == ASSUME IInv, IInv', NEW t \in Thread, worker(t) PROVE [Contract!Next]_Contract!vars
<1>0. /\ pc \in [Thread -> {"absent", "fetch", "probe", "done"}]
      /\ index \in [Thread -> Nat] /\ nextIndex \in Nat
  BY DEF IInv, TypeOK
<1>1. phase # "exit"
  BY DEF worker, fetch_add, StoreResult, IInv, JoinedBeforeRead
<1>2. CASE fetch_add(t) /\ nextIndex >= TaskCount
  <2>1. Probing' = Probing /\ \A u \in Probing : index'[u] = index[u]
    BY <1>0, <1>2 DEF fetch_add
  <2>2. Active' = Active
    BY <2>1 DEF Active
  <2> QED
    BY <1>2, <2>2 DEF fetch_add, Contract!vars, ContractPhase, Active
<1>3. CASE fetch_add(t) /\ nextIndex < TaskCount
  <2>1. PICK i \in Index : i = nextIndex
    BY <1>0, <1>3, PoolAssumption
  <2>2. /\ Probing' = Probing \cup {t} /\ t \notin Probing
        /\ index'[t] = i /\ \A u \in Probing : index'[u] = index[u]
    BY <1>0, <1>3, <2>1, PoolAssumption DEF fetch_add
  <2>3. Active' = Active \cup {i}
    BY <2>2 DEF Active
  <2>4. verdict[i] = Unset
    BY <1>0, <2>1, UntouchedAhead
  <2>5. i \notin Active
    <3>1. \A u \in Probing : index[u] # i
      BY <1>0, <2>1 DEF IInv, HoldersAgree
    <3> HIDE DEF Probing
    <3> QED
      BY <3>1 DEF Active
  <2>6. Cardinality(Active') <= concurrency
    <3>1. ASSUME IInv' PROVE (Cardinality(Active) <= concurrency)'
      BY <3>1, ActiveBound, PTL
    <3> QED
      BY <1>3, <3>1 DEF fetch_add
  <2>7. Contract!Start(i)
    BY <1>1, <1>3, <2>3, <2>4, <2>5, <2>6
    DEF fetch_add, Contract!Start, ContractPhase, Active, Cardinality, Contract!Cardinality
  <2> QED
    BY <2>7 DEF Contract!Next
<1>4. CASE StoreResult(t)
  <2>1. PICK i \in Index : i = index[t]
    BY <1>4 DEF StoreResult, IInv, HoldersAgree
  <2>2. Probing' = Probing \ {t} /\ t \in Probing
    BY <1>0, <1>4 DEF StoreResult
  <2>3. \A u \in Probing : index[u] = i => u = t
    BY <2>1, <2>2 DEF IInv, OneWriter
  <2>4. Active' = Active \ {i} /\ i \in Active
    BY <1>4, <2>1, <2>2, <2>3 DEF StoreResult, Active
  <2>5. Contract!Finish(i)
    BY <1>1, <1>4, <2>1, <2>4 DEF StoreResult, Contract!Finish, ContractPhase, Active
  <2> QED
    BY <2>5 DEF Contract!Next
<1> QED
  BY <1>0, <1>2, <1>3, <1>4, PoolAssumption DEF worker

(* scanPorts implements the safety part of the scan contract, whichever    *)
(* thread cannot be created: a std::terminate maps to a scan that goes no  *)
(* further.                                                                *)
THEOREM ImplementsScanContract == Spec => ImplementsContract
<1>1. IInv /\ IInv' /\ [Next]_vars => [Contract!Next]_Contract!vars
  <2>1. ASSUME UNCHANGED vars PROVE UNCHANGED Contract!vars
    BY <2>1 DEF vars, Contract!vars, ContractPhase
  <2> QED
    BY <2>1, CallerRefines, ThreadRefines DEF Next, Terminated
<1> QED
  BY <1>1, InitRefines, InvHolds, PTL DEF Spec, Contract!Spec, ImplementsContract
=============================================================================
