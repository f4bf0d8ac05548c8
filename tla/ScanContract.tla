---------------------------- MODULE ScanContract ----------------------------
(***************************************************************************)
(* What a scan promises, whichever of the four programs runs it: every     *)
(* port of the list is probed once, never more than the requested number   *)
(* at a time, and the report is printed once, complete and in port order,  *)
(* after the last probe.  A program may also refuse, but only before its   *)
(* first probe: once a probe has started, its result is not lost.          *)
(*                                                                         *)
(* The worker pools of the four programs are shown to implement this       *)
(* specification, or shown where they do not.                              *)
(***************************************************************************)
EXTENDS Naturals, FiniteSets

CONSTANTS
    Index,       \* the positions of the port list
    Items,       \* the port at each position
    Concurrency, \* the values --concurrency accepts
    PortState,   \* what a probe can find
    Unset        \* stands for "not found yet"

VARIABLES
    phase,       \* "scanning", "reported" or "refused"
    limit,       \* the --concurrency of this run
    active,      \* the positions being probed
    verdict,     \* what the probe of each position found
    report       \* the lines printed: a port and a state per position

vars == <<phase, limit, active, verdict, report>>

Init ==
    /\ phase = "scanning"
    /\ limit \in Concurrency
    /\ active = {}
    /\ verdict = [i \in Index |-> Unset]
    /\ report = <<>>

Start(i) ==
    /\ phase = "scanning"
    /\ i \notin active
    /\ verdict[i] = Unset
    /\ active' = active \cup {i}
    /\ Cardinality(active') <= limit
    /\ UNCHANGED <<phase, limit, verdict, report>>

Finish(i) ==
    /\ phase = "scanning"
    /\ i \in active
    /\ active' = active \ {i}
    /\ \E s \in PortState : verdict' = [verdict EXCEPT ![i] = s]
    /\ UNCHANGED <<phase, limit, report>>

Report ==
    /\ phase = "scanning"
    /\ \A i \in Index : verdict[i] # Unset
    /\ phase' = "reported"
    /\ report' = [i \in Index |-> [port |-> Items[i], state |-> verdict[i]]]
    /\ UNCHANGED <<limit, active, verdict>>

Refuse ==
    /\ phase = "scanning"
    /\ active = {}
    /\ \A i \in Index : verdict[i] = Unset
    /\ phase' = "refused"
    /\ UNCHANGED <<limit, active, verdict, report>>

Next == (\E i \in Index : Start(i) \/ Finish(i)) \/ Report \/ Refuse

Spec == Init /\ [][Next]_vars

(* The fair version also promises an end: a probe that started finishes,   *)
(* and the scan goes on until it has reported or refused.                  *)
FairSpec == Spec /\ WF_vars(Next)
=============================================================================
