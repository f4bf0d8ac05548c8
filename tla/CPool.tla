------------------------------- MODULE CPool -------------------------------
(***************************************************************************)
(* The worker pool of the C program (pool.c) under the scan it runs        *)
(* (run_scan in main.c): the calling thread allocates the result slots,    *)
(* starts up to worker_count threads, joins them and prints the report;    *)
(* each thread claims the next index from a shared counter, probes that    *)
(* port and writes that slot, until the counter has passed the last index. *)
(*                                                                         *)
(* Thread 0 is the calling thread; it claims indexes itself when no worker *)
(* could be started.  What a probe does between its first write to the     *)
(* slot (port) and its last (state) is left to the probe modules: here a   *)
(* probe ends with any state.                                              *)
(***************************************************************************)
EXTENDS Naturals, FiniteSets

CONSTANTS
    TaskCount,   \* ports->count
    Items,       \* ports->items: the port at each index
    ThreadLimit, \* THREAD_LIMIT (512 in the code)
    Concurrency, \* the values --concurrency accepts
    Unset        \* stands for "no probe of this port has ended"

Index == 0 .. TaskCount - 1
Worker == 1 .. TaskCount
Thread == {0} \cup Worker
Port == 1 .. 65535
PortState == {"open", "closed", "filtered", "error"}

(* ports_parse returns at least one port, in increasing order.             *)
ASSUME PoolAssumption ==
    /\ TaskCount \in Nat \ {0}
    /\ Items \in [Index -> Port]
    /\ \A i, j \in Index : i < j => Items[i] < Items[j]
    /\ ThreadLimit \in Nat \ {0}
    /\ Concurrency \subseteq Nat \ {0}
    /\ Unset \notin PortState

VARIABLES
    phase,       \* where the calling thread is in run_scan and pool_run
    requested,   \* options->concurrency
    next,        \* state.next, the counter the threads share
    started,     \* the threads created so far
    joined,      \* the threads joined so far
    pc,          \* where each thread is in work_loop
    index,       \* the index each thread claimed last
    results,     \* the slots: the port and the state of a PortResult
    verdict,     \* history: what the probe of each index found
    report       \* the lines printed

vars == <<phase, requested, next, started, joined, pc, index, results, verdict, report>>

pool == <<next, pc, index, results, verdict>>

(* calloc fills a slot with zeros: no port, and PORT_OPEN is 0.            *)
ZeroSlot == [port |-> 0, state |-> "open"]

(* Slip: the number of threads follows the request and the ports alone.    *)
worker_countNoLimit(n) == IF TaskCount < n THEN TaskCount ELSE n

worker_count(n) ==
    LET capped == IF n > ThreadLimit THEN ThreadLimit ELSE n
    IN  IF TaskCount < capped THEN TaskCount ELSE capped

workers == worker_count(requested)

Init ==
    /\ phase = "prepare"
    /\ requested \in Concurrency
    /\ next = 0
    /\ started = 0
    /\ joined = 0
    /\ pc = [t \in Thread |-> "absent"]
    /\ index = [t \in Thread |-> 0]
    /\ results = [i \in Index |-> ZeroSlot]
    /\ verdict = [i \in Index |-> Unset]
    /\ report = <<>>

-----------------------------------------------------------------------------
(* The calling thread.                                                     *)

(* run_scan before pool_run: the slots are allocated, or the scan ends     *)
(* with EXIT_USAGE before any probe.                                       *)
AllocateResults ==
    /\ phase = "prepare"
    /\ phase' \in {"create", "out_of_memory"}
    /\ UNCHANGED <<requested, next, started, joined, pc, index, results, verdict, report>>

(* One turn of the creation loop.  The new thread may run at once.         *)
CreateWorker ==
    /\ phase = "create"
    /\ started < workers
    /\ started' = started + 1
    /\ pc' = [pc EXCEPT ![started + 1] = "take"]
    /\ UNCHANGED <<phase, requested, next, joined, index, results, verdict, report>>

(* Slip: without the fallback the caller joins no one and reports nothing. *)
StopCreatingNoFallback ==
    /\ phase = "create"
    /\ phase' = "join"
    /\ UNCHANGED <<requested, next, started, joined, pc, index, results, verdict, report>>

(* Slip: the caller works beside its threads, and then joins them.         *)
StopCreatingAlwaysWorks ==
    /\ phase = "create"
    /\ phase' = IF started = 0 THEN "inline" ELSE "join"
    /\ pc' = [pc EXCEPT ![0] = "take"]
    /\ UNCHANGED <<requested, next, started, joined, index, results, verdict, report>>

(* The loop ends when all are started, or early: the handle array could    *)
(* not be allocated (then none is started) or pthread_create refused.      *)
(* With no worker at all the calling thread does the work itself.          *)
StopCreating ==
    /\ phase = "create"
    /\ phase' = IF started = 0 THEN "inline" ELSE "join"
    /\ pc' = IF started = 0 THEN [pc EXCEPT ![0] = "take"] ELSE pc
    /\ UNCHANGED <<requested, next, started, joined, index, results, verdict, report>>

(* Slip: the join does not wait (its error is ignored).                    *)
JoinDoesNotWait ==
    /\ phase = "join"
    /\ joined < started
    /\ joined' = joined + 1
    /\ UNCHANGED <<phase, requested, next, started, pc, index, results, verdict, report>>

(* pthread_join, in creation order; it returns when that thread has ended. *)
Join ==
    /\ phase = "join"
    /\ joined < started
    /\ pc[joined + 1] = "done"
    /\ joined' = joined + 1
    /\ UNCHANGED <<phase, requested, next, started, pc, index, results, verdict, report>>

(* Slip: the join loop stops one thread short (i < started - 1).           *)
PoolReturnsEarly ==
    /\ \/ phase = "join" /\ joined + 1 >= started
       \/ phase = "inline" /\ pc[0] = "done"
    /\ phase' = "report"
    /\ UNCHANGED <<requested, next, started, joined, pc, index, results, verdict, report>>

(* pool_run returns: after the last join, or after its own work_loop.      *)
PoolReturns ==
    /\ \/ phase = "join" /\ joined = started
       \/ phase = "inline" /\ pc[0] = "done"
    /\ phase' = "report"
    /\ UNCHANGED <<requested, next, started, joined, pc, index, results, verdict, report>>

(* run_scan after pool_run: the report is printed from the slots, which    *)
(* are then freed.                                                         *)
PrintReport ==
    /\ phase = "report"
    /\ phase' = "exit"
    /\ report' = results
    /\ UNCHANGED <<requested, next, started, joined, pc, index, results, verdict>>

-----------------------------------------------------------------------------
(* A thread in work_loop.                                                  *)

(* Slip: ++ on a volatile, which two threads may do from the same value.   *)
take_nextNotAtomic(t) ==
    /\ pc[t] = "take"
    /\ next' \in {next, next + 1}
    /\ index' = [index EXCEPT ![t] = next]
    /\ pc' = [pc EXCEPT ![t] = IF next >= TaskCount THEN "done" ELSE "task"]
    /\ UNCHANGED <<phase, requested, started, joined, results, verdict, report>>

(* Slip: InterlockedIncrement returns the new value; the - 1 is forgotten. *)
take_nextPreIncrement(t) ==
    /\ pc[t] = "take"
    /\ next' = next + 1
    /\ index' = [index EXCEPT ![t] = next + 1]
    /\ pc' = [pc EXCEPT ![t] = IF next + 1 >= TaskCount THEN "done" ELSE "task"]
    /\ UNCHANGED <<phase, requested, started, joined, results, verdict, report>>

(* Slip: past the last index the loop goes on instead of returning.        *)
take_nextNeverReturns(t) ==
    /\ pc[t] = "take"
    /\ next' = IF next >= TaskCount THEN next ELSE next + 1
    /\ index' = [index EXCEPT ![t] = next]
    /\ pc' = [pc EXCEPT ![t] = IF next >= TaskCount THEN "take" ELSE "task"]
    /\ UNCHANGED <<phase, requested, started, joined, results, verdict, report>>

(* take_next is one atomic step; the loop then ends or runs the task.      *)
take_next(t) ==
    /\ pc[t] = "take"
    /\ next' = next + 1
    /\ index' = [index EXCEPT ![t] = next]
    /\ pc' = [pc EXCEPT ![t] = IF next >= TaskCount THEN "done" ELSE "task"]
    /\ UNCHANGED <<phase, requested, started, joined, results, verdict, report>>

(* scan_port clears the slot and writes the port before it connects.       *)
BeginTask(t) ==
    /\ pc[t] = "task"
    /\ pc' = [pc EXCEPT ![t] = "probe"]
    /\ results' = [results EXCEPT ![index[t]] = [ZeroSlot EXCEPT !.port = Items[index[t]]]]
    /\ UNCHANGED <<phase, requested, next, started, joined, index, verdict, report>>

(* Slip: a port that ended in error is probed again by the same thread.    *)
EndTaskRetries(t) ==
    /\ pc[t] = "probe"
    /\ \E s \in PortState :
          /\ results' = [results EXCEPT ![index[t]].state = s]
          /\ verdict' = [verdict EXCEPT ![index[t]] = s]
          /\ pc' = [pc EXCEPT ![t] = IF s = "error" THEN "task" ELSE "take"]
    /\ UNCHANGED <<phase, requested, next, started, joined, index, report>>

(* scan_port writes the state the probe found, and the task returns.       *)
EndTask(t) ==
    /\ pc[t] = "probe"
    /\ \E s \in PortState :
          /\ results' = [results EXCEPT ![index[t]].state = s]
          /\ verdict' = [verdict EXCEPT ![index[t]] = s]
    /\ pc' = [pc EXCEPT ![t] = "take"]
    /\ UNCHANGED <<phase, requested, next, started, joined, index, report>>

work_loop(t) == take_next(t) \/ BeginTask(t) \/ EndTask(t)

pool_run == CreateWorker \/ StopCreating \/ Join \/ PoolReturns

run_scan == AllocateResults \/ pool_run \/ PrintReport

Stopped == phase \in {"exit", "out_of_memory"}

(* A process that has exited takes no step.                                *)
Terminated == Stopped /\ UNCHANGED vars

Next == run_scan \/ (\E t \in Thread : work_loop(t)) \/ Terminated

Spec == Init /\ [][Next]_vars

(* The kernel runs every runnable thread; a probe ends because each of its *)
(* waits has a timeout.                                                    *)
Fairness ==
    /\ WF_vars(run_scan)
    /\ \A t \in Thread : WF_vars(work_loop(t))

FairSpec == Spec /\ Fairness

-----------------------------------------------------------------------------
(* Properties.                                                             *)

Slot == [port : {0} \cup Port, state : PortState]

(* Every variable keeps its type.                                          *)
TypeOK ==
    /\ phase \in {"prepare", "create", "inline", "join", "report", "exit", "out_of_memory"}
    /\ requested \in Concurrency
    /\ next \in Nat
    /\ started \in 0 .. workers
    /\ joined \in 0 .. started
    /\ pc \in [Thread -> {"absent", "take", "task", "probe", "done"}]
    /\ index \in [Thread -> Nat]
    /\ results \in [Index -> Slot]
    /\ verdict \in [Index -> PortState \cup {Unset}]
    /\ report \in {<<>>} \cup [Index -> Slot]

Holding(t) == pc[t] \in {"task", "probe"}
Probing == {t \in Thread : pc[t] = "probe"}

(* No two threads ever work on the same slot: the counter hands out each   *)
(* index once, so the unsynchronised writes of scan_port never race.       *)
OneOwner ==
    \A t, u \in Thread : Holding(t) /\ Holding(u) /\ index[t] = index[u] => t = u

(* No index is lost or done twice: one below the counter is held by a      *)
(* thread or has its verdict in its slot, one at or above it is untouched. *)
NoIndexLost ==
    \A i \in Index :
        IF i < next
        THEN \/ verdict[i] = Unset /\ \E t \in Thread : Holding(t) /\ index[t] = i
             \/ verdict[i] # Unset /\ results[i] = [port |-> Items[i], state |-> verdict[i]]
        ELSE verdict[i] = Unset /\ results[i] = ZeroSlot

(* When pool_run has returned no thread is left that could still touch its *)
(* stack frame (PoolState) or the slots run_scan is about to free.         *)
NoThreadOutlivesPool ==
    phase \in {"report", "exit"} => \A t \in Thread : pc[t] \in {"absent", "done"}

(* What is printed is what the probes found, for every port of the list:   *)
(* no slot is printed in its calloc'd state, which would read "0 open".    *)
ReportIsComplete ==
    phase = "exit" => \A i \in Index :
        verdict[i] # Unset /\ report[i] = [port |-> Items[i], state |-> verdict[i]]

(* The threads of the pool are never more than --concurrency asks for, nor *)
(* than THREAD_LIMIT, and no more probes run than there are threads: one   *)
(* when the calling thread does the work itself.                           *)
ConcurrencyBound ==
    /\ started <= requested
    /\ started <= ThreadLimit
    /\ Cardinality(Probing) <= IF started = 0 THEN 1 ELSE started

(* The counter passes the last index at most once per thread, so the long  *)
(* it is kept in cannot overflow into the negative indexes work_loop       *)
(* guards against.                                                         *)
CounterBound == next <= TaskCount + (IF started = 0 THEN 1 ELSE started)

(* A slot whose probe has ended is never written again.                    *)
WrittenOnce ==
    [][\A i \in Index : verdict[i] # Unset => results'[i] = results[i] /\ verdict'[i] = verdict[i]]_vars

(* The rest of the inductive invariant: which threads exist in which phase *)
(* of the calling thread, what a thread that holds an index may rely on,   *)
(* and that a thread only ends once the counter is past the last index.    *)
ThreadsMatchPhase ==
    /\ \A t \in Worker : pc[t] = "absent" <=> t > started
    /\ pc[0] # "absent" => started = 0 /\ phase \in {"inline", "report", "exit"}
    /\ phase \in {"prepare", "inline", "out_of_memory"} => started = 0
    /\ phase \in {"prepare", "out_of_memory"} => next = 0
    /\ phase = "join" => started > 0
    /\ phase = "inline" => pc[0] # "absent"
    /\ \A t \in 1 .. joined : pc[t] = "done"

HoldersAgree ==
    \A t \in Thread : Holding(t) =>
        /\ index[t] \in Index
        /\ index[t] < next
        /\ verdict[index[t]] = Unset
        /\ pc[t] = "probe" => results[index[t]].port = Items[index[t]]

Done == {t \in Thread : pc[t] = "done"}

CounterSpent ==
    /\ Done # {} \/ phase \in {"report", "exit"} => next >= TaskCount
    /\ next <= TaskCount + Cardinality(Done)

Inv ==
    /\ TypeOK
    /\ ThreadsMatchPhase
    /\ HoldersAgree
    /\ OneOwner
    /\ NoIndexLost
    /\ CounterSpent
    /\ NoThreadOutlivesPool
    /\ phase = "exit" => report = results

(* The pool implements the scan contract, under its fairness: in           *)
(* particular every scan ends, with the complete report or before a probe. *)
ContractPhase ==
    IF phase = "exit" THEN "reported" ELSE IF phase = "out_of_memory" THEN "refused" ELSE "scanning"

Active == {index[t] : t \in Probing}

Contract == INSTANCE ScanContract WITH phase <- ContractPhase, limit <- requested, active <- Active

ImplementsContract == Contract!FairSpec
=============================================================================
