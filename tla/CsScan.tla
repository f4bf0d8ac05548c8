------------------------------- MODULE CsScan -------------------------------
(***************************************************************************)
(* ScanPortsAsync of the C# program (Scanner.cs) under PrepareAndScanAsync *)
(* (Program.cs): one task per port, all started at once, each entering a   *)
(* SemaphoreSlim before it probes and leaving it in a finally block; the   *)
(* caller awaits them all and prints the report.                           *)
(*                                                                         *)
(* A probe opens its socket outside the try block that classifies socket   *)
(* errors, so a process that has run out of descriptors sees an exception  *)
(* there: the task faults, WhenAll rethrows it once every task has ended,  *)
(* and nothing above catches it.                                           *)
(***************************************************************************)
EXTENDS Naturals, FiniteSets

CONSTANTS
    TaskCount,       \* ports.Count
    Items,           \* the port at each index
    Concurrency,     \* the values --concurrency accepts
    DescriptorLimit, \* the sockets the process may have open at a time
    Unset            \* stands for "no probe of this port has ended"

Index == 0 .. TaskCount - 1
Port == 1 .. 65535
PortState == {"open", "closed", "filtered", "error"}

(* PortRange.Parse returns at least one port, in increasing order.         *)
ASSUME ScanAssumption ==
    /\ TaskCount \in Nat \ {0}
    /\ Items \in [Index -> Port]
    /\ \A i, j \in Index : i < j => Items[i] < Items[j]
    /\ Concurrency \subseteq Nat \ {0}
    /\ DescriptorLimit \in Nat
    /\ Unset \notin PortState

VARIABLES
    phase,       \* where the caller is in ScanPortsAsync and above
    concurrency, \* options.Concurrency
    started,     \* the tasks started so far
    task,        \* where each task is
    count,       \* the semaphore's count
    faulted,     \* the tasks whose exception is on its way out
    verdict,     \* history: what the probe of each index found
    results,     \* the array of results
    report       \* the lines printed

vars == <<phase, concurrency, started, task, count, faulted, verdict, results, report>>

NullResult == [port |-> 0, state |-> "null"]

In(state) == {i \in Index : task[i] = state}

Init ==
    /\ phase = "start"
    /\ concurrency \in Concurrency
    /\ started = 0
    /\ task = [i \in Index |-> "none"]
    /\ count = concurrency
    /\ faulted = {}
    /\ verdict = [i \in Index |-> Unset]
    /\ results = [i \in Index |-> NullResult]
    /\ report = <<>>

-----------------------------------------------------------------------------
(* The caller.                                                             *)

TaskRun ==
    /\ phase = "start"
    /\ started < TaskCount
    /\ started' = started + 1
    /\ task' = [task EXCEPT ![started] = "waiting"]
    /\ UNCHANGED <<phase, concurrency, count, faulted, verdict, results, report>>

(* Slip: WhenAny, or a wait that ends with the first exception.            *)
WhenFirstFaults ==
    /\ phase = "start"
    /\ started = TaskCount
    /\ faulted # {} \/ In("done") = Index
    /\ phase' = IF faulted = {} THEN "report" ELSE "crashed"
    /\ UNCHANGED <<concurrency, started, task, count, faulted, verdict, results, report>>

(* WhenAll completes when every task has, and faults if one of them has.   *)
WhenAll ==
    /\ phase = "start"
    /\ started = TaskCount
    /\ In("done") = Index
    /\ phase' = IF faulted = {} THEN "report" ELSE "crashed"
    /\ UNCHANGED <<concurrency, started, task, count, faulted, verdict, results, report>>

WriteReport ==
    /\ phase = "report"
    /\ phase' = "exit"
    /\ report' = results
    /\ UNCHANGED <<concurrency, started, task, count, faulted, verdict, results>>

-----------------------------------------------------------------------------
(* A task.                                                                 *)

(* Slip: the task does not enter the semaphore at all.                     *)
NoWaitAsync(i) ==
    /\ task[i] = "waiting"
    /\ task' = [task EXCEPT ![i] = "entered"]
    /\ UNCHANGED <<phase, concurrency, started, count, faulted, verdict, results, report>>

(* Slip: the last permit is never handed out.                              *)
WaitAsyncOffByOne(i) ==
    /\ task[i] = "waiting"
    /\ count > 1
    /\ count' = count - 1
    /\ task' = [task EXCEPT ![i] = "entered"]
    /\ UNCHANGED <<phase, concurrency, started, faulted, verdict, results, report>>

(* SemaphoreSlim promises no order among the tasks that wait for it.       *)
WaitAsync(i) ==
    /\ task[i] = "waiting"
    /\ count > 0
    /\ count' = count - 1
    /\ task' = [task EXCEPT ![i] = "entered"]
    /\ UNCHANGED <<phase, concurrency, started, faulted, verdict, results, report>>

(* new Socket: the probe begins, or its exception leaves ScanPortAsync for *)
(* the finally block.                                                      *)
NewSocket(i) ==
    /\ task[i] = "entered"
    /\ IF Cardinality(In("probing")) < DescriptorLimit
       THEN task' = [task EXCEPT ![i] = "probing"] /\ faulted' = faulted
       ELSE task' = [task EXCEPT ![i] = "leaving"] /\ faulted' = faulted \cup {i}
    /\ UNCHANGED <<phase, concurrency, started, count, verdict, results, report>>

(* ScanPortAsync disposes of the socket and returns; the result is stored. *)
ScanPortAsync(i) ==
    /\ task[i] = "probing"
    /\ task' = [task EXCEPT ![i] = "leaving"]
    /\ \E s \in PortState :
          /\ results' = [results EXCEPT ![i] = [port |-> Items[i], state |-> s]]
          /\ verdict' = [verdict EXCEPT ![i] = s]
    /\ UNCHANGED <<phase, concurrency, started, count, faulted, report>>

(* Slip: the release is not in a finally block.                            *)
ReleaseUnlessFaulted(i) ==
    /\ task[i] = "leaving"
    /\ count' = IF i \in faulted THEN count ELSE count + 1
    /\ task' = [task EXCEPT ![i] = "done"]
    /\ UNCHANGED <<phase, concurrency, started, faulted, verdict, results, report>>

(* Slip: released in the try block and again in finally.                   *)
ReleaseTwice(i) ==
    /\ task[i] = "leaving"
    /\ count' = count + 2
    /\ task' = [task EXCEPT ![i] = "done"]
    /\ UNCHANGED <<phase, concurrency, started, faulted, verdict, results, report>>

(* finally { semaphore.Release(); }, with or without an exception.         *)
Release(i) ==
    /\ task[i] = "leaving"
    /\ count' = count + 1
    /\ task' = [task EXCEPT ![i] = "done"]
    /\ UNCHANGED <<phase, concurrency, started, faulted, verdict, results, report>>

Caller == TaskRun \/ WhenAll \/ WriteReport

Task(i) == WaitAsync(i) \/ NewSocket(i) \/ ScanPortAsync(i) \/ Release(i)

Stopped == phase \in {"exit", "crashed"}

Terminated == Stopped /\ UNCHANGED vars

Next == Caller \/ (\E i \in Index : Task(i)) \/ Terminated

Spec == Init /\ [][Next]_vars

(* The thread pool runs every task that is ready; a probe ends because its *)
(* connect and its read are cancelled by a timer.                          *)
Fairness ==
    /\ WF_vars(Caller)
    /\ \A i \in Index : WF_vars(Task(i))

FairSpec == Spec /\ Fairness

-----------------------------------------------------------------------------
(* Properties.                                                             *)

Result == [port : {0} \cup Port, state : PortState \cup {"null"}]

(* Every variable keeps its type.                                          *)
TypeOK ==
    /\ phase \in {"start", "report", "exit", "crashed"}
    /\ concurrency \in Concurrency
    /\ started \in 0 .. TaskCount
    /\ task \in [Index -> {"none", "waiting", "entered", "probing", "leaving", "done"}]
    /\ count \in 0 .. concurrency
    /\ faulted \subseteq Index
    /\ verdict \in [Index -> PortState \cup {Unset}]
    /\ results \in [Index -> Result]
    /\ report \in {<<>>} \cup [Index -> Result]

Holders == In("entered") \cup In("probing") \cup In("leaving")

(* Whether a probe returns or throws, its permit comes back: count and     *)
(* holders always add up, so a failed socket never slows or stops the rest *)
(* of the scan.                                                            *)
PermitsAreConserved == count + Cardinality(Holders) = concurrency

(* An exception is held back until every other task has ended: no probe is *)
(* in flight, and none still to come, when the process goes down or        *)
(* disposes of the semaphore.                                              *)
NoTaskOutlivesScan == phase # "start" => In("done") = Index

(* Descriptors that suffice for --concurrency are never found wanting: a   *)
(* permit comes back only after its task has disposed of its socket.       *)
EnoughDescriptors == concurrency <= DescriptorLimit => faulted = {}

(* Every scan ends, with its report or with an exception, whatever sockets *)
(* fail: nobody waits for a permit that never comes back.                  *)
AlwaysStops == <>Stopped

Contract == INSTANCE ScanContract WITH
    phase <- IF phase = "exit" THEN "reported" ELSE "scanning",
    limit <- concurrency,
    active <- In("probing")

(* Whichever sockets fail, ScanPortsAsync keeps to the scan contract: one  *)
(* probe per port, at most --concurrency at a time, and only a complete    *)
(* report, in port order, with no null element of the results array in it. *)
ImplementsContract == Contract!Spec

(* README.md:152: the state `error` is for anything that could not be      *)
(* classified, and README.md:219 gives the four binaries the same output:  *)
(* a port whose socket cannot be opened is one of the report's errors.     *)
EndsWithReport == phase # "crashed"
=============================================================================
