------------------------------ MODULE CppPool ------------------------------
(***************************************************************************)
(* scanPorts of the C++ program (Scanner.cpp) under runScan (main.cpp):    *)
(* the calling thread starts min(concurrency, ports) jthreads, or does the *)
(* work itself when that is at most one; the jthreads are joined by their  *)
(* destructors, which run after `return results` has named its value.      *)
(*                                                                         *)
(* Unlike the C pool there is no cap on the number of threads, and a       *)
(* thread that cannot be created is an exception nobody catches.           *)
(***************************************************************************)
EXTENDS Naturals, FiniteSets

CONSTANTS
    TaskCount,      \* ports.size()
    Items,          \* the port at each index
    Concurrency,    \* the values --concurrency accepts
    ThreadsCanFail, \* whether the system may refuse to create a thread
    Unset           \* stands for "no probe of this port has ended"

Index == 0 .. TaskCount - 1
Worker == 1 .. TaskCount
Thread == {0} \cup Worker
Port == 1 .. 65535
PortState == {"open", "closed", "filtered", "error"}

(* parsePorts returns at least one port, in increasing order.              *)
ASSUME PoolAssumption ==
    /\ TaskCount \in Nat \ {0}
    /\ Items \in [Index -> Port]
    /\ \A i, j \in Index : i < j => Items[i] < Items[j]
    /\ Concurrency \subseteq Nat \ {0}
    /\ ThreadsCanFail \in BOOLEAN
    /\ Unset \notin PortState

VARIABLES
    phase,       \* where the calling thread is in scanPorts and runScan
    concurrency, \* options.concurrency
    nextIndex,   \* the atomic the threads share
    started,     \* the jthreads constructed so far
    joined,      \* the jthreads whose destructor has run
    pc,          \* where each thread is in the worker lambda
    index,       \* the index each thread claimed last
    results,     \* the vector of results
    verdict,     \* history: what the probe of each index found
    report       \* the lines printed

vars == <<phase, concurrency, nextIndex, started, joined, pc, index, results, verdict, report>>

(* The results vector is filled with default PortResults.                  *)
DefaultResult == [port |-> 0, state |-> "error"]

(* Slip: one thread per port, whatever --concurrency says.                 *)
workersIgnoreConcurrency == TaskCount

workers == IF concurrency < TaskCount THEN concurrency ELSE TaskCount

Init ==
    /\ phase = "start"
    /\ concurrency \in Concurrency
    /\ nextIndex = 0
    /\ started = 0
    /\ joined = 0
    /\ pc = [t \in Thread |-> "absent"]
    /\ index = [t \in Thread |-> 0]
    /\ results = [i \in Index |-> DefaultResult]
    /\ verdict = [i \in Index |-> Unset]
    /\ report = <<>>

-----------------------------------------------------------------------------
(* The calling thread.                                                     *)

(* One worker would be a thread the caller only waits for.                 *)
ChooseInline ==
    /\ phase = "start"
    /\ IF workers <= 1
       THEN phase' = "inline" /\ pc' = [pc EXCEPT ![0] = "fetch"]
       ELSE phase' = "create" /\ pc' = pc
    /\ UNCHANGED <<concurrency, nextIndex, started, joined, index, results, verdict, report>>

(* Slip: the creation loop runs once too often (i <= workers).             *)
CreateThreadOffByOne ==
    /\ phase = "create"
    /\ started <= workers
    /\ started' = started + 1
    /\ pc' = [pc EXCEPT ![started + 1] = "fetch"]
    /\ UNCHANGED <<phase, concurrency, nextIndex, joined, index, results, verdict, report>>

(* emplace_back constructs a jthread, which may run at once.               *)
CreateThread ==
    /\ phase = "create"
    /\ started < workers
    /\ started' = started + 1
    /\ pc' = [pc EXCEPT ![started + 1] = "fetch"]
    /\ UNCHANGED <<phase, concurrency, nextIndex, joined, index, results, verdict, report>>

(* The constructor throws std::system_error.  No frame has a handler, so   *)
(* it is up to the implementation whether the stack is unwound (joining    *)
(* the threads already started) before std::terminate.                     *)
CreateThrows ==
    /\ ThreadsCanFail
    /\ phase = "create"
    /\ started < workers
    /\ phase' \in {"unwind", "terminated"}
    /\ UNCHANGED <<concurrency, nextIndex, started, joined, pc, index, results, verdict, report>>

(* Slip: the results are returned from a copy or move made before the      *)
(* jthreads are destroyed, so the caller reads while threads still write.  *)
ReturnResultsBeforeJoin ==
    /\ phase = "create"
    /\ started = workers
    /\ phase' = "report"
    /\ UNCHANGED <<concurrency, nextIndex, started, joined, pc, index, results, verdict, report>>

(* return results: the value is the vector itself (the return object), and *)
(* the jthreads go out of scope after it.                                  *)
ReturnResults ==
    /\ phase = "create"
    /\ started = workers
    /\ phase' = "join"
    /\ UNCHANGED <<concurrency, nextIndex, started, joined, pc, index, results, verdict, report>>

(* ~vector destroys the jthreads, each joined by its destructor.           *)
JoinThread ==
    /\ phase \in {"join", "unwind"}
    /\ joined < started
    /\ pc[joined + 1] = "done"
    /\ joined' = joined + 1
    /\ UNCHANGED <<phase, concurrency, nextIndex, started, pc, index, results, verdict, report>>

Unwound ==
    /\ phase = "unwind"
    /\ joined = started
    /\ phase' = "terminated"
    /\ UNCHANGED <<concurrency, nextIndex, started, joined, pc, index, results, verdict, report>>

scanPorts_returns ==
    /\ \/ phase = "join" /\ joined = started
       \/ phase = "inline" /\ pc[0] = "done"
    /\ phase' = "report"
    /\ UNCHANGED <<concurrency, nextIndex, started, joined, pc, index, results, verdict, report>>

(* runScan prints the report and main returns kExitOk.                     *)
WriteReport ==
    /\ phase = "report"
    /\ phase' = "exit"
    /\ report' = results
    /\ UNCHANGED <<concurrency, nextIndex, started, joined, pc, index, results, verdict>>

-----------------------------------------------------------------------------
(* A thread in the worker lambda.  std::terminate ends all of them.        *)

(* Slip: a load and a store instead of fetch_add.                          *)
fetch_addNotAtomic(t) ==
    /\ phase # "terminated"
    /\ pc[t] = "fetch"
    /\ nextIndex' \in {nextIndex, nextIndex + 1}
    /\ index' = [index EXCEPT ![t] = nextIndex]
    /\ pc' = [pc EXCEPT ![t] = IF nextIndex >= TaskCount THEN "done" ELSE "probe"]
    /\ UNCHANGED <<phase, concurrency, started, joined, results, verdict, report>>

(* Slip: past the last index the worker goes on instead of returning.      *)
fetch_addNeverReturns(t) ==
    /\ phase # "terminated"
    /\ pc[t] = "fetch"
    /\ nextIndex' = IF nextIndex >= TaskCount THEN nextIndex ELSE nextIndex + 1
    /\ index' = [index EXCEPT ![t] = nextIndex]
    /\ pc' = [pc EXCEPT ![t] = IF nextIndex >= TaskCount THEN "fetch" ELSE "probe"]
    /\ UNCHANGED <<phase, concurrency, started, joined, results, verdict, report>>

fetch_add(t) ==
    /\ phase # "terminated"
    /\ pc[t] = "fetch"
    /\ nextIndex' = nextIndex + 1
    /\ index' = [index EXCEPT ![t] = nextIndex]
    /\ pc' = [pc EXCEPT ![t] = IF nextIndex >= TaskCount THEN "done" ELSE "probe"]
    /\ UNCHANGED <<phase, concurrency, started, joined, results, verdict, report>>

(* scanPort fills a result of its own, which is then moved into the slot.  *)
StoreResult(t) ==
    /\ phase # "terminated"
    /\ pc[t] = "probe"
    /\ \E s \in PortState :
          /\ results' = [results EXCEPT ![index[t]] = [port |-> Items[index[t]], state |-> s]]
          /\ verdict' = [verdict EXCEPT ![index[t]] = s]
    /\ pc' = [pc EXCEPT ![t] = "fetch"]
    /\ UNCHANGED <<phase, concurrency, nextIndex, started, joined, index, report>>

worker(t) == fetch_add(t) \/ StoreResult(t)

scanPorts ==
    \/ ChooseInline \/ CreateThread \/ CreateThrows \/ ReturnResults
    \/ JoinThread \/ Unwound \/ scanPorts_returns

runScan == scanPorts \/ WriteReport

Stopped == phase \in {"exit", "terminated"}

Terminated == Stopped /\ UNCHANGED vars

Next == runScan \/ (\E t \in Thread : worker(t)) \/ Terminated

Spec == Init /\ [][Next]_vars

(* The kernel runs every runnable thread; a probe ends because each of its *)
(* waits has a timeout.                                                    *)
Fairness ==
    /\ WF_vars(runScan)
    /\ \A t \in Thread : WF_vars(worker(t))

FairSpec == Spec /\ Fairness

-----------------------------------------------------------------------------
(* Properties.                                                             *)

Result == [port : {0} \cup Port, state : PortState]

(* Every variable keeps its type.                                          *)
TypeOK ==
    /\ phase \in {"start", "create", "inline", "join", "unwind", "report", "exit", "terminated"}
    /\ concurrency \in Concurrency
    /\ nextIndex \in Nat
    /\ started \in 0 .. workers
    /\ joined \in 0 .. started
    /\ pc \in [Thread -> {"absent", "fetch", "probe", "done"}]
    /\ index \in [Thread -> Nat]
    /\ results \in [Index -> Result]
    /\ verdict \in [Index -> PortState \cup {Unset}]
    /\ report \in {<<>>} \cup [Index -> Result]

Probing == {t \in Thread : pc[t] = "probe"}

(* No two threads assign to the same element of results, and the element a *)
(* thread is about to assign has never been assigned.                      *)
OneWriter ==
    \A t \in Probing :
        /\ verdict[index[t]] = Unset /\ results[index[t]] = DefaultResult
        /\ \A u \in Probing : index[t] = index[u] => t = u

(* The results vector is only read, and only leaves scanPorts, after the   *)
(* last thread that writes to it has ended.                                *)
JoinedBeforeRead ==
    phase \in {"report", "exit"} => \A t \in Thread : pc[t] \in {"absent", "done"}

(* Even when a thread cannot be created, the process ends: with its report *)
(* or by std::terminate, never hung in a jthread destructor.               *)
AlwaysStops == <>Stopped

ContractPhase == IF phase = "exit" THEN "reported" ELSE "scanning"

Contract == INSTANCE ScanContract WITH
    phase <- ContractPhase,
    limit <- concurrency,
    active <- {index[t] : t \in Probing}

(* Whichever thread cannot be created, scanPorts keeps to the scan         *)
(* contract: one probe per port, never more than --concurrency at a time,  *)
(* and only a complete report, in port order.  That it ends is AlwaysStops.*)
ImplementsContract == Contract!Spec

(* README.md:150: C and C++ "additionally enforce a 512 cap of their own"; *)
(* README.md:166 repeats it for jthread.  Here a run names the cap.        *)
ThreadCap(cap) == started <= cap

(* README.md:219: the four binaries have the same exit codes.  The C pool  *)
(* goes on with the threads it has; a process ended by std::terminate has  *)
(* no exit code of the documented ones and no report.                      *)
EndsWithReport == phase # "terminated"
=============================================================================
