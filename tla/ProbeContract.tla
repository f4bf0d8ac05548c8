--------------------------- MODULE ProbeContract ---------------------------
(***************************************************************************)
(* What the probe of one port promises, whichever program runs it: at most *)
(* one connection, closed by the time the probe returns; one verdict,      *)
(* which the network's answer justifies and which nothing changes          *)
(* afterwards; and a banner only from a peer that accepted.                *)
(***************************************************************************)
CONSTANTS Refusal, Unreachable, OtherError   \* the errors a connect can meet

VARIABLES
    managed, \* whether timers cut off calls, and failures may be thrown
    socket,  \* "none", "open" or "closed"
    answer,  \* what the network said: "none", "accepted", or an error
    expired, \* whether the timeout is over
    broken,  \* whether a call failed, or the connection was lost again
    state,   \* the verdict, or "undecided"
    banner,  \* whether a banner was read
    done     \* whether the probe has returned

vars == <<managed, socket, answer, expired, broken, state, banner, done>>

(* The states a port may be given.  A timer of its own may run out just    *)
(* after the answer has arrived; no other timeout outruns an answer.       *)
Justified ==
    (IF answer' = "accepted" THEN {"open"} ELSE {})
    \cup (IF answer' \in Refusal THEN {"closed"} ELSE {})
    \cup (IF answer' \in Unreachable \/ (expired' /\ (managed \/ answer' = "none")) THEN {"filtered"} ELSE {})
    \cup (IF answer' \in OtherError \/ broken' THEN {"error"} ELSE {})

Answers == {"accepted"} \cup Refusal \cup Unreachable \cup OtherError

Init ==
    /\ managed \in BOOLEAN
    /\ socket = "none"
    /\ answer = "none"
    /\ expired = FALSE
    /\ broken = FALSE
    /\ state = "undecided"
    /\ banner = FALSE
    /\ done = FALSE

Open ==
    /\ ~done /\ socket = "none" /\ state = "undecided"
    /\ socket' = "open"
    /\ UNCHANGED <<managed, answer, expired, broken, state, banner, done>>

(* The network answers a connection attempt at any time, or never.         *)
Answer ==
    /\ socket = "open" /\ answer = "none"
    /\ answer' \in Answers
    /\ UNCHANGED <<managed, socket, expired, broken, state, banner, done>>

Expire ==
    /\ ~done /\ expired' = TRUE
    /\ UNCHANGED <<managed, socket, answer, broken, state, banner, done>>

(* The probe may return in the step that takes its last decision or closes *)
(* its socket, or later; never with an open socket, and without a verdict  *)
(* only by throwing.                                                       *)
MayReturn ==
    /\ done' \in BOOLEAN
    /\ done' => socket' # "open" /\ (state' # "undecided" \/ (managed /\ broken'))

NetworkMayAnswer == answer' = answer \/ (answer = "none" /\ socket = "open" /\ answer' \in Answers)
MayClose == socket' = socket \/ (socket = "open" /\ socket' = "closed")

(* A call fails; the probe may close its socket and return at once.        *)
Break ==
    /\ ~done /\ state = "undecided"
    /\ broken' = TRUE
    /\ MayClose
    /\ MayReturn
    /\ UNCHANGED <<managed, answer, expired, state, banner>>

(* The verdict, with or without closing the socket in the same step; the   *)
(* network may answer, or a call fail, in that step too.                   *)
Decide ==
    /\ ~done /\ state = "undecided"
    /\ NetworkMayAnswer
    /\ broken' \in {broken, TRUE}
    /\ state' \in Justified
    /\ MayClose
    /\ MayReturn
    /\ UNCHANGED <<managed, expired, banner>>

ReadBanner ==
    /\ ~done /\ state = "open" /\ socket = "open"
    /\ banner' = TRUE
    /\ UNCHANGED <<managed, socket, answer, expired, broken, state, done>>

Close ==
    /\ ~done /\ socket = "open"
    /\ socket' = "closed"
    /\ NetworkMayAnswer
    /\ MayReturn
    /\ UNCHANGED <<managed, expired, broken, state, banner>>

Return ==
    /\ ~done /\ MayReturn
    /\ UNCHANGED <<managed, socket, answer, expired, broken, state, banner>>

Next == Open \/ Answer \/ Expire \/ Break \/ Decide \/ ReadBanner \/ Close \/ Return

Spec == Init /\ [][Next]_vars

(* The network may stay silent; the probe returns all the same.            *)
Returns == <>done
=============================================================================
