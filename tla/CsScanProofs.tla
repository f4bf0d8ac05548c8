---------------------------- MODULE CsScanProofs ---------------------------
(***************************************************************************)
(* Proofs about CsScan for every port list, every concurrency and every    *)
(* number of descriptors.  IInv is inductive: InitInv and NextInv prove it *)
(* one action at a time, and the properties follow from it.                *)
(***************************************************************************)
EXTENDS CsScan, FiniteSetTheorems, TLAPS

(* The tasks started so far are the first ones.                            *)
StartedInOrder == \A i \in Index : task[i] = "none" <=> i >= started

(* What a task leaves behind: an exception, or a verdict and its result.   *)
TaskLeavesResult ==
    \A i \in Index :
        IF task[i] \in {"leaving", "done"} /\ i \notin faulted
        THEN verdict[i] # Unset /\ results[i] = [port |-> Items[i], state |-> verdict[i]]
        ELSE verdict[i] = Unset

(* An exception comes from a task that has ended or is about to, and keeps *)
(* the report from being written.                                          *)
FaultsAreFinal ==
    /\ \A i \in faulted : task[i] \in {"leaving", "done"}
    /\ phase \in {"report", "exit"} => faulted = {}

(* The inductive invariant.                                                *)
IInv ==
    /\ TypeOK
    /\ PermitsAreConserved
    /\ NoTaskOutlivesScan
    /\ EnoughDescriptors
    /\ StartedInOrder
    /\ TaskLeavesResult
    /\ FaultsAreFinal

USE DEF Index, PortState, In

-----------------------------------------------------------------------------
(* There are finitely many tasks, so every set of them can be counted.     *)
LEMMA FiniteTasks ==
    ASSUME NEW S \in SUBSET Index
    PROVE  IsFiniteSet(S) /\ Cardinality(S) \in Nat
<1>1. IsFiniteSet(Index)
  BY ScanAssumption, FS_Interval
<1>2. IsFiniteSet(S)
  BY <1>1, FS_Subset
<1> QED
  BY <1>2, FS_CardinalityType

(* No more tasks probe at a time than --concurrency allows; a task that    *)
(* has entered and not begun leaves room for itself.                       *)
LEMMA ProbesAreBounded ==
    ASSUME IInv
    PROVE  /\ Cardinality(In("probing")) \in Nat
           /\ Cardinality(In("probing")) <= concurrency
           /\ \A i \in Index : task[i] = "entered" => Cardinality(In("probing")) + 1 <= concurrency
<1>1. /\ concurrency \in Nat /\ count \in Nat
      /\ count + Cardinality(Holders) = concurrency
  BY ScanAssumption DEF IInv, TypeOK, PermitsAreConserved
<1>2. /\ IsFiniteSet(Holders) /\ Cardinality(Holders) \in Nat
      /\ IsFiniteSet(In("probing")) /\ Cardinality(In("probing")) \in Nat
  BY FiniteTasks DEF Holders
<1>3. Cardinality(In("probing")) <= Cardinality(Holders)
  <2>1. In("probing") \subseteq Holders
    BY DEF Holders
  <2> QED
    BY <1>2, <2>1, FS_Subset
<1>4. ASSUME NEW i \in Index, task[i] = "entered"
      PROVE  Cardinality(In("probing")) + 1 <= concurrency
  <2>1. i \notin In("probing") /\ In("probing") \cup {i} \subseteq Holders
    BY <1>4 DEF Holders
  <2>2. Cardinality(In("probing") \cup {i}) <= Cardinality(Holders)
    BY <1>2, <2>1, FS_Subset
  <2>3. Cardinality(In("probing") \cup {i}) = Cardinality(In("probing")) + 1
    BY <1>2, <2>1, FS_AddElement
  <2> QED
    BY <1>1, <1>2, <2>2, <2>3
<1> QED
  BY <1>1, <1>2, <1>3, <1>4

-----------------------------------------------------------------------------

(* IInv holds when the caller enters ScanPortsAsync.                       *)
LEMMA InitInv == Init => IInv
<1> SUFFICES ASSUME Init PROVE IInv
  OBVIOUS
<1> USE ScanAssumption DEF Init
<1>1. TypeOK
  BY DEF TypeOK, NullResult, Result
<1>2. PermitsAreConserved
  <2>1. Holders = {}
    BY DEF Holders
  <2> QED
    BY <2>1, FS_EmptySet DEF PermitsAreConserved
<1>3. NoTaskOutlivesScan /\ EnoughDescriptors
  BY DEF NoTaskOutlivesScan, EnoughDescriptors
<1>4. StartedInOrder /\ TaskLeavesResult /\ FaultsAreFinal
  BY DEF StartedInOrder, TaskLeavesResult, FaultsAreFinal
<1> QED
  BY <1>1, <1>2, <1>3, <1>4 DEF IInv

LEMMA TaskRunKeepsInv == IInv /\ TaskRun => IInv'
<1> SUFFICES ASSUME IInv, TaskRun PROVE IInv'
  OBVIOUS
<1> USE ScanAssumption DEF IInv, TaskRun
<1>1. started \in Index /\ task[started] = "none"
  BY DEF TypeOK, StartedInOrder
<1>2. TypeOK'
  BY <1>1 DEF TypeOK
<1>3. PermitsAreConserved'
  <2>1. Holders' = Holders
    BY <1>1 DEF TypeOK, Holders
  <2> QED
    BY <2>1 DEF PermitsAreConserved
<1>4. NoTaskOutlivesScan' /\ EnoughDescriptors'
  BY DEF NoTaskOutlivesScan, EnoughDescriptors
<1>5. StartedInOrder'
  BY <1>1 DEF TypeOK, StartedInOrder
<1>6. TaskLeavesResult' /\ FaultsAreFinal'
  BY <1>1 DEF TypeOK, TaskLeavesResult, FaultsAreFinal
<1> QED
  BY <1>2, <1>3, <1>4, <1>5, <1>6

(* The caller goes on only when every task is done.                        *)
LEMMA CallerKeepsInv == IInv /\ (WhenAll \/ WriteReport) => IInv'
<1> SUFFICES ASSUME IInv, WhenAll \/ WriteReport PROVE IInv'
  OBVIOUS
<1> USE ScanAssumption DEF IInv, WhenAll, WriteReport
<1>1. TypeOK'
  BY DEF TypeOK
<1>2. PermitsAreConserved'
  <2>1. Holders' = Holders
    BY DEF Holders
  <2> QED
    BY <2>1 DEF PermitsAreConserved
<1>3. NoTaskOutlivesScan' /\ EnoughDescriptors'
  BY DEF TypeOK, NoTaskOutlivesScan, EnoughDescriptors
<1>4. StartedInOrder' /\ TaskLeavesResult'
  BY DEF StartedInOrder, TaskLeavesResult
<1>5. FaultsAreFinal'
  BY DEF FaultsAreFinal
<1> QED
  BY <1>1, <1>2, <1>3, <1>4, <1>5

(* A permit moves from the semaphore to the task.                          *)
LEMMA WaitKeepsInv == ASSUME IInv, NEW i \in Index, WaitAsync(i) PROVE IInv'
<1> USE ScanAssumption DEF IInv, WaitAsync
<1>1. count \in Nat \ {0} /\ concurrency \in Nat /\ task \in [Index -> {"none", "waiting", "entered", "probing", "leaving", "done"}]
  BY DEF TypeOK
<1>2. TypeOK'
  BY <1>1 DEF TypeOK
<1>3. PermitsAreConserved'
  <2>1. Holders' = Holders \cup {i} /\ i \notin Holders
    BY <1>1 DEF Holders
  <2>2. IsFiniteSet(Holders) /\ Cardinality(Holders) \in Nat
    BY FiniteTasks DEF Holders
  <2>3. Cardinality(Holders') = Cardinality(Holders) + 1
    BY <2>1, <2>2, FS_AddElement
  <2> QED
    BY <1>1, <2>2, <2>3 DEF PermitsAreConserved
<1>4. NoTaskOutlivesScan' /\ EnoughDescriptors'
  BY <1>1 DEF NoTaskOutlivesScan, EnoughDescriptors
<1>5. StartedInOrder' /\ TaskLeavesResult' /\ FaultsAreFinal'
  BY <1>1 DEF StartedInOrder, TaskLeavesResult, FaultsAreFinal
<1> QED
  BY <1>2, <1>3, <1>4, <1>5

(* The permit stays with the task, whether it probes or faults; and it     *)
(* faults only when there are fewer descriptors than permits.              *)
LEMMA NewSocketKeepsInv == ASSUME IInv, NEW i \in Index, NewSocket(i) PROVE IInv'
<1> USE ScanAssumption DEF IInv, NewSocket
<1>1. task \in [Index -> {"none", "waiting", "entered", "probing", "leaving", "done"}] /\ concurrency \in Nat
  BY DEF TypeOK
<1>2. TypeOK'
  BY <1>1 DEF TypeOK
<1>3. PermitsAreConserved'
  <2>1. Holders' = Holders
    BY <1>1 DEF Holders
  <2> QED
    BY <2>1 DEF PermitsAreConserved
<1>4. NoTaskOutlivesScan'
  BY <1>1 DEF NoTaskOutlivesScan
<1>5. EnoughDescriptors'
  <2>1. CASE concurrency <= DescriptorLimit
    <3>1. Cardinality(In("probing")) \in Nat /\ Cardinality(In("probing")) < DescriptorLimit
      BY <1>1, <2>1, ProbesAreBounded
    <3> QED
      BY <3>1 DEF EnoughDescriptors
  <2>2. CASE ~(concurrency <= DescriptorLimit)
    BY <2>2 DEF EnoughDescriptors
  <2> QED
    BY <2>1, <2>2
<1>6. StartedInOrder' /\ TaskLeavesResult'
  BY <1>1 DEF StartedInOrder, TaskLeavesResult
<1>7. FaultsAreFinal'
  <2>1. phase = "start"
    BY <1>1 DEF TypeOK, NoTaskOutlivesScan
  <2>2. \A j \in faulted' : task'[j] \in {"leaving", "done"}
    <3>1. faulted \subseteq Index /\ i \notin faulted
      BY DEF TypeOK, FaultsAreFinal
    <3> QED
      BY <1>1, <3>1 DEF FaultsAreFinal
  <2> QED
    BY <2>1, <2>2 DEF FaultsAreFinal
<1> QED
  BY <1>2, <1>3, <1>4, <1>5, <1>6, <1>7

LEMMA ScanPortKeepsInv == ASSUME IInv, NEW i \in Index, ScanPortAsync(i) PROVE IInv'
<1> USE ScanAssumption DEF IInv, ScanPortAsync
<1>1. /\ task \in [Index -> {"none", "waiting", "entered", "probing", "leaving", "done"}]
      /\ results \in [Index -> Result]
      /\ verdict \in [Index -> PortState \cup {Unset}]
  BY DEF TypeOK
<1>2. PICK s \in PortState :
          /\ results' = [results EXCEPT ![i] = [port |-> Items[i], state |-> s]]
          /\ verdict' = [verdict EXCEPT ![i] = s]
  OBVIOUS
<1>3. TypeOK'
  <2>1. [port |-> Items[i], state |-> s] \in Result
    BY DEF Result
  <2>2. results' \in [Index -> Result] /\ verdict' \in [Index -> PortState \cup {Unset}]
    BY <1>1, <1>2, <2>1
  <2>3. task' \in [Index -> {"none", "waiting", "entered", "probing", "leaving", "done"}]
    BY <1>1
  <2> QED
    BY <2>2, <2>3 DEF TypeOK
<1>4. PermitsAreConserved'
  <2>1. Holders' = Holders
    BY <1>1 DEF Holders
  <2> QED
    BY <2>1 DEF PermitsAreConserved
<1>5. NoTaskOutlivesScan' /\ EnoughDescriptors'
  BY <1>1 DEF NoTaskOutlivesScan, EnoughDescriptors
<1>6. StartedInOrder' /\ FaultsAreFinal'
  BY <1>1 DEF StartedInOrder, FaultsAreFinal
<1>7. TaskLeavesResult'
  <2>1. i \notin faulted
    BY DEF FaultsAreFinal
  <2> QED
    BY <1>1, <1>2, <2>1 DEF TaskLeavesResult
<1> QED
  BY <1>3, <1>4, <1>5, <1>6, <1>7

(* A permit moves from the task back to the semaphore.                     *)
LEMMA ReleaseKeepsInv == ASSUME IInv, NEW i \in Index, Release(i) PROVE IInv'
<1> USE ScanAssumption DEF IInv, Release
<1>1. task \in [Index -> {"none", "waiting", "entered", "probing", "leaving", "done"}] /\ concurrency \in Nat /\ count \in Nat
  BY DEF TypeOK
<1>2. /\ Holders' = Holders \ {i} /\ i \in Holders
      /\ IsFiniteSet(Holders) /\ Cardinality(Holders) \in Nat
  BY <1>1, FiniteTasks DEF Holders
<1>3. Cardinality(Holders') = Cardinality(Holders) - 1 /\ Cardinality(Holders') \in Nat
  <2>1. Holders' \subseteq Index
    BY DEF Holders
  <2>2. Cardinality(Holders') \in Nat
    BY <2>1, <1>2, FS_RemoveElement, FS_CardinalityType
  <2> QED
    BY <1>2, <2>2, FS_RemoveElement
<1>4. count + 1 + Cardinality(Holders') = concurrency
  BY <1>1, <1>2, <1>3 DEF PermitsAreConserved
<1>5. TypeOK'
  <2>1. count' \in 0 .. concurrency
    BY <1>1, <1>3, <1>4
  <2>2. task' \in [Index -> {"none", "waiting", "entered", "probing", "leaving", "done"}]
    BY <1>1
  <2> QED
    BY <2>1, <2>2 DEF TypeOK
<1>6. PermitsAreConserved'
  BY <1>4 DEF PermitsAreConserved
<1>7. NoTaskOutlivesScan' /\ EnoughDescriptors'
  BY <1>1 DEF NoTaskOutlivesScan, EnoughDescriptors
<1>8. StartedInOrder' /\ TaskLeavesResult' /\ FaultsAreFinal'
  BY <1>1 DEF StartedInOrder, TaskLeavesResult, FaultsAreFinal
<1> QED
  BY <1>5, <1>6, <1>7, <1>8

LEMMA StutterKeepsInv == IInv /\ UNCHANGED vars => IInv'
BY DEF IInv, vars, TypeOK, PermitsAreConserved, Holders, NoTaskOutlivesScan, EnoughDescriptors,
       StartedInOrder, TaskLeavesResult, FaultsAreFinal

LEMMA NextInv == IInv /\ [Next]_vars => IInv'
BY TaskRunKeepsInv, CallerKeepsInv, WaitKeepsInv, NewSocketKeepsInv, ScanPortKeepsInv, ReleaseKeepsInv, StutterKeepsInv
DEF Next, Caller, Task, Terminated

(* IInv holds in every reachable state.                                    *)
THEOREM InvHolds == Spec => []IInv
BY InitInv, NextInv, PTL DEF Spec

-----------------------------------------------------------------------------

(* Every variable keeps its type: in particular the semaphore's count      *)
(* never exceeds --concurrency.                                            *)
THEOREM TypeCorrect == Spec => []TypeOK
<1>1. IInv => TypeOK
  BY DEF IInv
<1> QED
  BY <1>1, InvHolds, PTL

(* No permit is lost, whichever sockets fail.                              *)
THEOREM PermitsComeBack == Spec => []PermitsAreConserved
<1>1. IInv => PermitsAreConserved
  BY DEF IInv
<1> QED
  BY <1>1, InvHolds, PTL

(* ScanPortsAsync is not left, normally or by an exception, before every   *)
(* task has ended.                                                         *)
THEOREM TasksEndFirst == Spec => []NoTaskOutlivesScan
<1>1. IInv => NoTaskOutlivesScan
  BY DEF IInv
<1> QED
  BY <1>1, InvHolds, PTL

(* As many descriptors as --concurrency are enough: no socket fails.       *)
THEOREM DescriptorsSuffice == Spec => []EnoughDescriptors
<1>1. IInv => EnoughDescriptors
  BY DEF IInv
<1> QED
  BY <1>1, InvHolds, PTL

-----------------------------------------------------------------------------
(* The refinement of ScanContract.                                         *)

LEMMA InitRefines == Init => Contract!Init
BY ScanAssumption DEF Init, Contract!Init

LEMMA CallerRefines == IInv /\ Caller => [Contract!Next]_Contract!vars
<1> SUFFICES ASSUME IInv, Caller PROVE [Contract!Next]_Contract!vars
  OBVIOUS
<1>1. CASE TaskRun
  <2>1. started \in Index /\ task[started] = "none"
    BY <1>1, ScanAssumption DEF TaskRun, IInv, TypeOK, StartedInOrder
  <2>2. In("probing")' = In("probing")
    BY <1>1, <2>1 DEF TaskRun, IInv, TypeOK
  <2> QED
    BY <1>1, <2>2 DEF TaskRun, Contract!vars
<1>2. CASE WhenAll
  BY <1>2 DEF WhenAll, Contract!vars
<1>3. CASE WriteReport
  <2>1. /\ \A i \in Index : verdict[i] # Unset /\ results[i] = [port |-> Items[i], state |-> verdict[i]]
        /\ DOMAIN results = Index
    BY <1>3 DEF WriteReport, IInv, TypeOK, NoTaskOutlivesScan, FaultsAreFinal, TaskLeavesResult
  <2>2. report' = [i \in Index |-> [port |-> Items[i], state |-> verdict[i]]]
    BY <1>3, <2>1 DEF WriteReport, IInv, TypeOK
  <2> QED
    BY <1>3, <2>1, <2>2 DEF WriteReport, Contract!Next, Contract!Report
<1> QED
  BY <1>1, <1>2, <1>3 DEF Caller

LEMMA TaskRefines == ASSUME IInv, IInv', NEW i \in Index, Task(i) PROVE [Contract!Next]_Contract!vars
<1>0. task \in [Index -> {"none", "waiting", "entered", "probing", "leaving", "done"}]
  BY DEF IInv, TypeOK
<1>1. CASE WaitAsync(i) \/ Release(i)
  <2>1. In("probing")' = In("probing")
    BY <1>0, <1>1 DEF WaitAsync, Release
  <2> QED
    BY <1>1, <2>1 DEF WaitAsync, Release, Contract!vars
<1>2. CASE NewSocket(i) /\ task'[i] = "probing"
  <2>1. In("probing")' = In("probing") \cup {i} /\ i \notin In("probing")
    BY <1>0, <1>2 DEF NewSocket
  <2>2. Cardinality(In("probing")') <= concurrency
    <3>1. ASSUME IInv' PROVE (Cardinality(In("probing")) <= concurrency)'
      BY <3>1, ProbesAreBounded, PTL
    <3> QED
      BY <1>2, <3>1 DEF NewSocket
  <2>3. verdict[i] = Unset /\ phase # "exit"
    BY <1>2 DEF NewSocket, IInv, TaskLeavesResult, NoTaskOutlivesScan
  <2>4. Contract!Start(i)
    BY <1>2, <2>1, <2>2, <2>3 DEF NewSocket, Contract!Start, Cardinality, Contract!Cardinality
  <2> QED
    BY <2>4 DEF Contract!Next
<1>3. CASE NewSocket(i) /\ task'[i] # "probing"
  <2>1. In("probing")' = In("probing")
    BY <1>0, <1>3 DEF NewSocket
  <2> QED
    BY <1>3, <2>1 DEF NewSocket, Contract!vars
<1>4. CASE ScanPortAsync(i)
  <2>1. In("probing")' = In("probing") \ {i} /\ i \in In("probing")
    BY <1>0, <1>4 DEF ScanPortAsync
  <2>2. phase # "exit"
    BY <1>4 DEF ScanPortAsync, IInv, NoTaskOutlivesScan
  <2>3. Contract!Finish(i)
    BY <1>4, <2>1, <2>2 DEF ScanPortAsync, Contract!Finish
  <2> QED
    BY <2>3 DEF Contract!Next
<1> QED
  BY <1>1, <1>2, <1>3, <1>4 DEF Task

(* ScanPortsAsync implements the safety part of the scan contract,         *)
(* whichever sockets fail: a crash maps to a scan that goes no further.    *)
THEOREM ImplementsScanContract == Spec => ImplementsContract
<1>1. IInv /\ IInv' /\ [Next]_vars => [Contract!Next]_Contract!vars
  <2>1. ASSUME UNCHANGED vars PROVE UNCHANGED Contract!vars
    BY <2>1 DEF vars, Contract!vars
  <2> QED
    BY <2>1, CallerRefines, TaskRefines DEF Next, Terminated
<1> QED
  BY <1>1, InitRefines, InvHolds, PTL DEF Spec, Contract!Spec, ImplementsContract
=============================================================================
