------------------------------ MODULE RustScan ------------------------------
(***************************************************************************)
(* scan_ports of the Rust program (scanner.rs) under run (main.rs): one    *)
(* tokio task per port, all spawned at once, each taking a permit of a     *)
(* semaphore before it hands its probe to the runtime's blocking pool; the *)
(* caller awaits the tasks in port order and prints the report.            *)
(*                                                                         *)
(* The semaphore and the blocking pool are tokio's and not in this         *)
(* repository: the semaphore is fair (a released permit goes to the first  *)
(* waiter).  The pool runs queued closures oldest first; it starts a       *)
(* thread when a closure comes and none is idle, up to                     *)
(* max_blocking_threads, and lets an idle one go after a while.  When the  *)
(* system refuses a thread the closure stays in the queue, for a thread    *)
(* that is busy or started later if there is one, or spawn_blocking panics *)
(* as well, and with it the task.  blocking_scan itself does not panic.    *)
(***************************************************************************)
EXTENDS Naturals, Sequences, FiniteSets

CONSTANTS
    TaskCount,   \* ports.len()
    Items,       \* the port at each index
    Concurrency, \* the values --concurrency accepts
    DescriptorLimit, \* the descriptors the process has left for its probes
    Found,       \* bound: the states the connections of this instance end in
    Unset        \* stands for "no probe of this port has ended"

Index == 0 .. TaskCount - 1
Port == 1 .. 65535
PortState == {"open", "closed", "filtered", "error"}

(* ports::parse returns at least one port, in increasing order.            *)
ASSUME ScanAssumption ==
    /\ TaskCount \in Nat \ {0}
    /\ Items \in [Index -> Port]
    /\ \A i, j \in Index : i < j => Items[i] < Items[j]
    /\ Concurrency \subseteq Nat \ {0}
    /\ DescriptorLimit \in Nat
    /\ Found \subseteq PortState
    /\ Unset \notin PortState

VARIABLES
    phase,       \* where the caller is in scan_ports and run
    concurrency, \* options.concurrency
    banner,      \* options.banner
    spawned,     \* the tasks spawned so far
    task,        \* where each task is
    permits,     \* the permits of the semaphore nobody holds
    waiters,     \* the tasks waiting for a permit, oldest first
    queue,       \* the closures waiting for a blocking thread, oldest first
    threads,     \* the blocking threads there are
    refused,     \* history: the system has refused a thread
    panicked,    \* the tasks whose spawn_blocking panicked
    starved,     \* the tasks that found no descriptor left
    outcome,     \* what each task's closure returned
    verdict,     \* history: what the probe of each index found
    results,     \* the results awaited so far
    report       \* the lines printed

options == <<concurrency, banner>>
pool == <<threads, refused, panicked>>
probes == <<starved, outcome, verdict>>
vars == <<phase, options, spawned, task, permits, waiters, queue, pool, probes, results, report>>

(* Slip: the blocking pool is left smaller than the semaphore.             *)
half_blocking_threads == (concurrency + 1) \div 2

(* The runtime is built with max_blocking_threads(concurrency.max(1)).     *)
max_blocking_threads == concurrency

In(states) == {i \in Index : task[i] \in states}

(* A closure that runs: before its socket, with one, and with a clone.     *)
Probing == In({"probing", "socket", "stream"})

Init ==
    /\ phase = "spawn"
    /\ concurrency \in Concurrency
    /\ banner \in BOOLEAN
    /\ spawned = 0
    /\ task = [i \in Index |-> "none"]
    /\ permits = concurrency
    /\ waiters = <<>>
    /\ queue = <<>>
    /\ threads = 0
    /\ refused = FALSE
    /\ panicked = {}
    /\ starved = {}
    /\ outcome = [i \in Index |-> <<>>]
    /\ verdict = [i \in Index |-> Unset]
    /\ results = <<>>
    /\ report = <<>>

-----------------------------------------------------------------------------
(* The caller.                                                             *)

SpawnTask ==
    /\ phase = "spawn"
    /\ spawned < TaskCount
    /\ spawned' = spawned + 1
    /\ task' = [task EXCEPT ![spawned] = "new"]
    /\ UNCHANGED <<phase, options, permits, waiters, queue, pool, probes, results, report>>

AllSpawned ==
    /\ phase = "spawn"
    /\ spawned = TaskCount
    /\ phase' = "await"
    /\ UNCHANGED <<options, spawned, task, permits, waiters, queue, pool, probes, results, report>>

(* Slip: results are collected as the tasks end, not in port order.        *)
AwaitAnyTask ==
    /\ phase = "await"
    /\ Len(results) < TaskCount
    /\ \E i \in Index :
          /\ task[i] = "done"
          /\ \A k \in DOMAIN results : results[k] # outcome[i]
          /\ results' = Append(results, outcome[i])
    /\ UNCHANGED <<phase, options, spawned, task, permits, waiters, queue, pool, probes, report>>

(* Slip: a task that panicked counts as a port that ended in error.        *)
AwaitTaskIgnoresPanic ==
    /\ phase = "await"
    /\ Len(results) < TaskCount
    /\ \/ task[Len(results)] = "done" /\ results' = Append(results, outcome[Len(results)])
       \/ /\ Len(results) \in panicked
          /\ results' = Append(results, [port |-> Items[Len(results)], state |-> "error"])
    /\ UNCHANGED <<phase, options, spawned, task, permits, waiters, queue, pool, probes, report>>

(* The tasks are awaited in the order they were spawned in, which is the   *)
(* order of the ports, whatever order they end in.                         *)
AwaitTask ==
    /\ phase = "await"
    /\ Len(results) < TaskCount
    /\ task[Len(results)] = "done"
    /\ results' = Append(results, outcome[Len(results)])
    /\ UNCHANGED <<phase, options, spawned, task, permits, waiters, queue, pool, probes, report>>

(* A task that panicked fails the expect on its handle: the panic leaves   *)
(* scan_ports and run, and main drops the runtime on its way out.          *)
AwaitPanics ==
    /\ phase = "await"
    /\ Len(results) < TaskCount
    /\ Len(results) \in panicked
    /\ phase' = "panicking"
    /\ UNCHANGED <<options, spawned, task, permits, waiters, queue, pool, probes, results, report>>

(* Dropping the runtime waits for the closures that run; then the process  *)
(* ends with the exit code of a panic, 101, and without a report.          *)
ProcessEnds ==
    /\ phase = "panicking"
    /\ Probing = {}
    /\ phase' = "crashed"
    /\ UNCHANGED <<options, spawned, task, permits, waiters, queue, pool, probes, results, report>>

PrintReport ==
    /\ phase = "await"
    /\ Len(results) = TaskCount
    /\ phase' = "exit"
    /\ report' = results
    /\ UNCHANGED <<options, spawned, task, permits, waiters, queue, pool, probes, results>>

-----------------------------------------------------------------------------
(* A task.                                                                 *)

(* Slip: the permit is a temporary, dropped as soon as it was acquired.    *)
acquire_ownedAndDrop(i) ==
    /\ task[i] = "new"
    /\ task' = [task EXCEPT ![i] = "permit"]
    /\ UNCHANGED <<phase, options, spawned, permits, waiters, queue, pool, probes, results, report>>

acquire_owned(i) ==
    /\ task[i] = "new"
    /\ IF permits > 0
       THEN /\ task' = [task EXCEPT ![i] = "permit"]
            /\ permits' = permits - 1
            /\ waiters' = waiters
       ELSE /\ task' = [task EXCEPT ![i] = "waiting"]
            /\ permits' = permits
            /\ waiters' = Append(waiters, i)
    /\ UNCHANGED <<phase, options, spawned, queue, pool, probes, results, report>>

(* Blocking threads that neither run a closure nor are about to.           *)
IdleThread == Cardinality(Probing) + Len(queue) < threads

WantsThread == ~IdleThread /\ threads < max_blocking_threads

(* The closure is handed over: an idle thread will take it, or a thread    *)
(* that was started for it, or, when there are max_blocking_threads or the *)
(* system refused one more, whichever thread is free first.                *)
spawn_blocking(i) ==
    /\ task[i] = "permit"
    /\ task' = [task EXCEPT ![i] = "queued"]
    /\ queue' = Append(queue, i)
    /\ \/ ~WantsThread /\ UNCHANGED <<threads, refused>>
       \/ WantsThread /\ threads' = threads + 1 /\ UNCHANGED refused
       \/ WantsThread /\ refused' = TRUE /\ UNCHANGED threads
    /\ UNCHANGED <<phase, options, spawned, permits, waiters, panicked, probes, results, report>>

(* Task i drops its permit, which goes to the first waiter.                *)
DropPermit(i, place) ==
    IF waiters = <<>>
    THEN /\ task' = [task EXCEPT ![i] = place]
         /\ permits' = permits + 1
         /\ waiters' = waiters
    ELSE /\ task' = [task EXCEPT ![i] = place, ![Head(waiters)] = "permit"]
         /\ permits' = permits
         /\ waiters' = Tail(waiters)

(* The system refused a thread and spawn_blocking panics: the task is over *)
(* and its permit dropped, but its closure stays in the pool's queue.      *)
spawn_blocking_panics(i) ==
    /\ task[i] = "permit"
    /\ WantsThread
    /\ refused' = TRUE
    /\ panicked' = panicked \cup {i}
    /\ queue' = Append(queue, i)
    /\ DropPermit(i, "queued")
    /\ UNCHANGED <<phase, options, spawned, threads, probes, results, report>>

(* Slip: the permit is returned without waking the first waiter.           *)
CompleteTaskNoWakeup(i) ==
    /\ task[i] = "probed"
    /\ i \notin panicked
    /\ task' = [task EXCEPT ![i] = "done"]
    /\ permits' = permits + 1
    /\ UNCHANGED <<phase, options, spawned, waiters, queue, pool, probes, results, report>>

(* Slip: the permit is given back twice, once by hand and once by drop.    *)
CompleteTaskTwice(i) ==
    /\ task[i] = "probed"
    /\ i \notin panicked
    /\ task' = [task EXCEPT ![i] = "done"]
    /\ permits' = permits + 2
    /\ UNCHANGED <<phase, options, spawned, waiters, queue, pool, probes, results, report>>

(* The closure has returned, and the task that awaits it ends.             *)
CompleteTask(i) ==
    /\ task[i] = "probed"
    /\ i \notin panicked
    /\ DropPermit(i, "done")
    /\ UNCHANGED <<phase, options, spawned, queue, pool, probes, results, report>>

-----------------------------------------------------------------------------
(* The blocking pool.                                                      *)

StartBlocking ==
    /\ queue # <<>>
    /\ Cardinality(Probing) < threads
    /\ task' = [task EXCEPT ![Head(queue)] = "probing"]
    /\ queue' = Tail(queue)
    /\ UNCHANGED <<phase, options, spawned, permits, waiters, pool, probes, results, report>>

(* An idle thread leaves when nothing came for its keep-alive time.        *)
ThreadLeaves ==
    /\ queue = <<>>
    /\ Cardinality(Probing) < threads
    /\ threads' = threads - 1
    /\ UNCHANGED <<phase, options, spawned, task, permits, waiters, queue, refused, panicked, probes,
                   results, report>>

FreeDescriptor == Cardinality(In({"socket", "stream"})) + Cardinality(In({"stream"})) < DescriptorLimit

(* blocking_scan returns a PortResult whatever happened to its sockets,    *)
(* which are dropped on the way out.                                       *)
Returns(i, s) ==
    /\ task' = [task EXCEPT ![i] = "probed"]
    /\ outcome' = [outcome EXCEPT ![i] = [port |-> Items[i], state |-> s]]
    /\ verdict' = [verdict EXCEPT ![i] = s]

SocketNew(i) ==
    /\ task[i] = "probing"
    /\ IF FreeDescriptor
       THEN task' = [task EXCEPT ![i] = "socket"] /\ UNCHANGED probes
       ELSE Returns(i, "error") /\ starved' = starved \cup {i}
    /\ UNCHANGED <<phase, options, spawned, permits, waiters, queue, pool, results, report>>

(* Slip: the stream of every open port is cloned, banner or not.           *)
ConnectEndsCloningAlways(i) ==
    /\ task[i] = "socket"
    /\ \E s \in Found :
          IF s = "open" /\ FreeDescriptor
          THEN task' = [task EXCEPT ![i] = "stream"] /\ UNCHANGED probes
          ELSE Returns(i, s) /\ starved' = IF s = "open" THEN starved \cup {i} ELSE starved
    /\ UNCHANGED <<phase, options, spawned, permits, waiters, queue, pool, results, report>>

(* connect_timeout ends; an open port whose banner is wanted is read       *)
(* through a clone of the socket, or not at all.                           *)
ConnectEnds(i) ==
    /\ task[i] = "socket"
    /\ \E s \in Found :
          IF s = "open" /\ banner /\ FreeDescriptor
          THEN task' = [task EXCEPT ![i] = "stream"] /\ UNCHANGED probes
          ELSE Returns(i, s) /\ starved' = IF s = "open" /\ banner THEN starved \cup {i} ELSE starved
    /\ UNCHANGED <<phase, options, spawned, permits, waiters, queue, pool, results, report>>

BannerEnds(i) ==
    /\ task[i] = "stream"
    /\ Returns(i, "open")
    /\ UNCHANGED <<phase, options, spawned, permits, waiters, queue, pool, starved, results, report>>

blocking_scan(i) == SocketNew(i) \/ ConnectEnds(i) \/ BannerEnds(i)

Caller == SpawnTask \/ AllSpawned \/ AwaitTask \/ AwaitPanics \/ ProcessEnds \/ PrintReport

Task(i) == acquire_owned(i) \/ spawn_blocking(i) \/ spawn_blocking_panics(i) \/ CompleteTask(i)

Stopped == phase \in {"exit", "crashed"}

Terminated == Stopped /\ UNCHANGED vars

(* A process that has ended takes no step.                                 *)
Runtime ==
    /\ ~Stopped
    /\ StartBlocking \/ ThreadLeaves \/ \E i \in Index : Task(i) \/ blocking_scan(i)

Next == Caller \/ Runtime \/ Terminated

Spec == Init /\ [][Next]_vars

(* The runtime polls every ready task and hands a queued closure to a      *)
(* thread that is free, until it is dropped; a probe ends because each of  *)
(* its waits has a timeout.  The system owes the pool no thread.           *)
Fairness ==
    /\ WF_vars(Caller)
    /\ WF_vars(phase # "panicking" /\ StartBlocking)
    /\ \A i \in Index : WF_vars(phase # "panicking" /\ Task(i)) /\ WF_vars(blocking_scan(i))

FairSpec == Spec /\ Fairness

-----------------------------------------------------------------------------
(* Properties.                                                             *)

Result == [port : Port, state : PortState]

(* Every variable keeps its type.                                          *)
TypeOK ==
    /\ phase \in {"spawn", "await", "exit", "panicking", "crashed"}
    /\ concurrency \in Concurrency
    /\ banner \in BOOLEAN
    /\ spawned \in 0 .. TaskCount
    /\ task \in [Index -> {"none", "new", "waiting", "permit", "queued", "probing", "socket", "stream",
                          "probed", "done"}]
    /\ starved \subseteq Index
    /\ permits \in 0 .. concurrency
    /\ waiters \in Seq(Index)
    /\ queue \in Seq(Index)
    /\ threads \in 0 .. max_blocking_threads
    /\ refused \in BOOLEAN
    /\ panicked \subseteq Index
    /\ outcome \in [Index -> {<<>>} \cup Result]
    /\ verdict \in [Index -> PortState \cup {Unset}]
    /\ results \in Seq(Result)
    /\ report \in {<<>>} \cup Seq(Result)

(* The tasks that have a permit: a task that panicked has dropped its own, *)
(* even while its closure is queued or runs.                               *)
Holders == (In({"permit", "queued", "probed"}) \cup Probing) \ panicked

(* No permit is lost or made up between the tasks, and none is idle while  *)
(* a task waits for one: otherwise the scan would slow down, or hang.      *)
PermitsAreConserved ==
    /\ permits + Cardinality(Holders) = concurrency
    /\ permits > 0 => waiters = <<>>
    /\ {waiters[k] : k \in DOMAIN waiters} = In({"waiting"})

(* The two bounds of the scan agree: as long as the system refuses no      *)
(* thread, a task that holds a permit never waits for a blocking thread    *)
(* behind the probe of another task.                                       *)
PermitMeansThread == ~refused => Len(queue) + Cardinality(Probing) <= threads

(* The results already awaited are those of the first ports, in order.     *)
AwaitedInOrder ==
    \A k \in 1 .. Len(results) : results[k] = [port |-> Items[k - 1], state |-> verdict[k - 1]]

(* Descriptors that suffice for the requested probes, two for each with    *)
(* --banner, are never found wanting, whichever threads were refused: a    *)
(* thread starts its next probe after both have been closed.               *)
EnoughDescriptors == (IF banner THEN 2 ELSE 1) * concurrency <= DescriptorLimit => starved = {}

(* As long as the system refuses no thread the scan ends with its report.  *)
(* When it does refuse one the process still ends, with the report or by   *)
(* the panic, unless the pool is left with a closure and with no thread:   *)
(* then the scan hangs.                                                    *)
ScanEnds ==
    /\ <>(phase = "exit" \/ refused)
    /\ <>Stopped \/ <>[](queue # <<>> /\ threads = 0)

Contract == INSTANCE ScanContract WITH
    phase <- IF phase = "exit" THEN "reported" ELSE "scanning",
    limit <- concurrency,
    active <- Probing,
    report <- IF phase = "exit" THEN [i \in Index |-> report[i + 1]] ELSE <<>>

(* scan_ports implements the safety part of the scan contract whichever    *)
(* threads the system refuses: one probe per port, at most --concurrency   *)
(* at a time, and no report but a complete one in port order.              *)
ImplementsContract == Contract!Spec
=============================================================================
