------------------------------ MODULE CsProbe ------------------------------
(***************************************************************************)
(* The probe of one port in the C# program: ScanPortAsync and              *)
(* ReadBannerAsync (Scanner.cs).  The timeouts are timers that run beside  *)
(* the connection: a CancellationTokenSource that is due may cancel a      *)
(* ConnectAsync or ReceiveAsync although its answer has arrived, as long   *)
(* as the runtime has not completed it.                                    *)
(***************************************************************************)
EXTENDS ProbeState

Init == ProbeInit("new")

-----------------------------------------------------------------------------

(* The runtime names EPERM and EACCES alike, AccessDenied.                 *)
ClassifyError(e) ==
    CASE e = "ECONNREFUSED" -> "closed"
      [] e \in {"ETIMEDOUT", "EHOSTUNREACH", "ENETUNREACH", "EHOSTDOWN", "EACCES", "EPERM"} -> "filtered"
      [] OTHER -> "error"

(* new Socket throws when there is no descriptor left, and nothing in      *)
(* ScanPortAsync catches it.                                               *)
NewSocket ==
    /\ pc = "new"
    /\ \/ fd' = "open" /\ owners' = {"socket"} /\ pc' = "connect" /\ error' = error
       \/ error' = "EMFILE" /\ pc' = "threw" /\ UNCHANGED <<fd, owners>>
    /\ UNCHANGED <<options, clock, closes, result, wire>>

(* new CancellationTokenSource(timeout), and ConnectAsync.                 *)
ConnectAsync ==
    /\ pc = "connect"
    /\ pc' = "connecting"
    /\ left' = TimeoutTicks
    /\ syn' = TRUE
    /\ answer' \in {"none", "accepted"} \cup PossibleError
    /\ UNCHANGED <<options, elapsed, signals, error, handles, result, fd, inbox>>

Verdict(s) == state' = s /\ ms' = elapsed

(* The await ends with a connection or with a SocketException.             *)
Connected ==
    /\ pc = "connecting" /\ Writable
    /\ error' \in {PendingError, "ENOBUFS"}
    /\ IF error' = "0"
       THEN Verdict("open") /\ pc' = IF ~wanted THEN "dispose" ELSE IF http THEN "send" ELSE "receive"
       ELSE Verdict(ClassifyError(error')) /\ pc' = "dispose"
    /\ UNCHANGED <<options, clock, handles, banner, socketVars>>

(* ... or with an OperationCanceledException.                              *)
ConnectCanceled ==
    /\ pc = "connecting" /\ left = 0
    /\ Verdict("filtered")
    /\ pc' = "dispose"
    /\ UNCHANGED <<options, clock, error, handles, banner, socketVars>>

(* SendAsync has no timer of its own: the request fits the send buffer.    *)
SendAsync == pc = "send" /\ Goto({"receive", "dispose"})

(* A second CancellationTokenSource, for the wait for the banner.          *)
ReceiveAsync ==
    /\ pc = "receive"
    /\ pc' = "receiving"
    /\ left' = BannerWait
    /\ UNCHANGED <<options, elapsed, signals, error, handles, result, socketVars>>

Received ==
    /\ pc = "receiving" /\ Readable
    /\ banner' = (inbox = "bytes")
    /\ pc' = "dispose"
    /\ UNCHANGED <<options, clock, error, handles, state, ms, socketVars>>

(* Slip: no timer is passed to ReceiveAsync.                               *)
ReceiveNeverCanceled == FALSE /\ UNCHANGED vars

ReceiveCanceled == pc = "receiving" /\ left = 0 /\ Goto({"dispose"})

(* using: the socket is disposed of however the method ends.               *)
Dispose ==
    /\ pc = "dispose"
    /\ fd' = "closed" /\ owners' = {} /\ closes' = closes + 1
    /\ pc' = "returned"
    /\ UNCHANGED <<options, clock, error, result, wire>>

-----------------------------------------------------------------------------

Tick == TickWhile(pc \in {"connecting", "receiving"})

ReadBannerAsync == SendAsync \/ ReceiveAsync \/ Received \/ ReceiveCanceled

ScanPortAsync ==
    NewSocket \/ ConnectAsync \/ Connected \/ ConnectCanceled \/ ReadBannerAsync \/ Dispose

Next == ScanPortAsync \/ Tick \/ Environment \/ Terminated

-----------------------------------------------------------------------------
(* Where the probe uses its connection, and what it owes its descriptor.   *)

Reading == pc \in {"send", "receive", "receiving"}

OwnsDescriptor ==
    /\ closes = IF fd = "closed" THEN 1 ELSE 0
    /\ pc \notin {"new", "threw", "returned"} => fd = "open"
    /\ pc \in {"threw", "returned"} => fd # "open"
=============================================================================
