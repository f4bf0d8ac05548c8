----------------------------- MODULE RustProbe -----------------------------
(***************************************************************************)
(* The probe of one port in the Rust program: blocking_scan and            *)
(* read_banner_blocking (scanner.rs).  socket2's connect_timeout does what *)
(* the C and C++ programs do by hand, against a deadline that no signal    *)
(* moves; the banner is read from a clone of the socket, a second          *)
(* descriptor of the same connection, with a receive timeout.              *)
(***************************************************************************)
EXTENDS ProbeState, FiniteSets

Init == ProbeInit("new")

-----------------------------------------------------------------------------

is_filtered_os_error(code) ==
    code \in {"ETIMEDOUT", "EHOSTUNREACH", "ENETUNREACH", "EHOSTDOWN", "EACCES"}
             \cup (IF windows THEN {} ELSE {"EPERM"})

(* TimedOut is connect_timeout's own error: it has no code of the system.  *)
classify_error(e) ==
    CASE e = "ECONNREFUSED" -> "closed"
      [] e \in {"TimedOut", "ETIMEDOUT", "EHOSTUNREACH", "ENETUNREACH"} -> "filtered"
      [] is_filtered_os_error(e) -> "filtered"
      [] OTHER -> "error"

(* The destructor of a Socket or TcpStream; the connection ends with the   *)
(* last descriptor of it.                                                  *)
Drop(name) ==
    /\ owners' = owners \ {name}
    /\ closes' = closes + 1
    /\ fd' = IF owners' = {} THEN "closed" ELSE fd

-----------------------------------------------------------------------------
(* The closure that makes and connects the socket: with an error it drops  *)
(* the socket before the time is taken.                                    *)

SocketNew ==
    /\ pc = "new"
    /\ \/ fd' = "open" /\ owners' = {"socket"} /\ pc' = "connect" /\ error' = error
       \/ error' = "EMFILE" /\ pc' = "outcome" /\ UNCHANGED <<fd, owners>>
    /\ UNCHANGED <<options, clock, closes, result, wire>>

(* Slip: the error leaves the closure without the socket's destructor.     *)
FailsWithoutDrop(e) == error' = e /\ pc' = "outcome" /\ UNCHANGED <<fd, handles>>

Fails(e) == error' = e /\ Drop("socket") /\ pc' = "outcome"

(* connect_timeout: connected at once, in progress, or failed.             *)
ConnectBegins ==
    /\ pc = "connect"
    /\ syn' = TRUE
    /\ \/ answer' = "accepted" /\ pc' = "outcome" /\ UNCHANGED <<left, error, handles, fd>>
       \/ pc' = "connecting" /\ left' = TimeoutTicks /\ UNCHANGED <<answer, error, handles, fd>>
       \/ answer' \in PossibleError /\ Fails(answer') /\ left' = left
    /\ UNCHANGED <<options, elapsed, signals, result, inbox>>

ConnectEnds ==
    /\ pc = "connecting"
    /\ \/ Writable /\ PendingError = "0" /\ pc' = "outcome" /\ UNCHANGED <<error, handles, fd>>
       \/ Writable /\ PendingError # "0" /\ Fails(PendingError)
       \/ ~Writable /\ left = 0 /\ Fails("TimedOut")
    /\ UNCHANGED <<options, clock, result, wire>>

ConnectBreaks ==
    /\ pc = "connecting" /\ Fails("-1")
    /\ UNCHANGED <<options, clock, result, wire>>

(* An EINTR leaves connect_timeout the rest of its time.                   *)
ConnectInterrupted ==
    /\ ~windows /\ pc = "connecting" /\ ~Writable
    /\ signals < MaxInterrupts
    /\ signals' = signals + 1
    /\ UNCHANGED <<pc, options, left, elapsed, error, handles, result, socketVars>>

(* match outcome: the state the result will carry, and its time.           *)
Outcome ==
    /\ pc = "outcome"
    /\ ms' = elapsed
    /\ IF error = "0" THEN state' = "open" /\ pc' = IF wanted THEN "clone" ELSE "drop"
                      ELSE state' = classify_error(error) /\ pc' = "returned"
    /\ UNCHANGED <<options, clock, error, handles, banner, socketVars>>

-----------------------------------------------------------------------------
(* read_banner_blocking, and the end of blocking_scan.                     *)

try_clone ==
    /\ pc = "clone"
    /\ \/ owners' = owners \cup {"stream"} /\ pc' = "set_read_timeout"
       \/ owners' = owners /\ pc' = "drop"
    /\ UNCHANGED <<options, clock, error, closes, result, socketVars>>

set_read_timeout ==
    /\ pc = "set_read_timeout"
    /\ Goto({IF http THEN "write" ELSE "begin_read", "drop_stream"})

write_all == pc = "write" /\ Goto({"begin_read", "drop_stream"})

BeginRead ==
    /\ pc = "begin_read"
    /\ pc' = "read"
    /\ left' = BannerWait
    /\ UNCHANGED <<options, elapsed, signals, error, handles, result, socketVars>>

(* read: bytes, the end of the stream, an error or a timeout.              *)
read ==
    /\ pc = "read"
    /\ Readable \/ left = 0
    /\ pc' = "drop_stream"
    /\ banner' = (inbox = "bytes")
    /\ UNCHANGED <<options, clock, error, handles, state, ms, socketVars>>

(* A signal ends the read, and with it the wait for the banner.            *)
ReadInterrupted ==
    /\ ~windows /\ pc = "read" /\ ~Readable
    /\ signals < MaxInterrupts
    /\ signals' = signals + 1
    /\ pc' = "drop_stream"
    /\ UNCHANGED <<options, left, elapsed, error, handles, result, socketVars>>

drop_stream ==
    /\ pc = "drop_stream"
    /\ Drop("stream")
    /\ pc' = "drop"
    /\ UNCHANGED <<options, clock, error, result, wire>>

drop ==
    /\ pc = "drop"
    /\ Drop("socket")
    /\ pc' = "returned"
    /\ UNCHANGED <<options, clock, error, result, wire>>

-----------------------------------------------------------------------------

Tick == TickWhile((pc = "connecting" /\ ~Writable) \/ (pc = "read" /\ ~Readable))

read_banner_blocking ==
    try_clone \/ set_read_timeout \/ write_all \/ BeginRead \/ read \/ drop_stream

blocking_scan ==
    SocketNew \/ ConnectBegins \/ ConnectEnds \/ Outcome \/ read_banner_blocking \/ drop

Interrupted == ConnectInterrupted \/ ReadInterrupted

Next == blocking_scan \/ ConnectBreaks \/ Tick \/ Interrupted \/ Environment \/ Terminated

-----------------------------------------------------------------------------
(* Where the probe uses its connection, and what it owes its descriptors.  *)

Reading == pc \in {"clone", "set_read_timeout", "write", "begin_read", "read"}

(* The descriptors made so far: each was closed, or has an owner.          *)
Descriptors == closes + Cardinality(owners)

OwnsDescriptor ==
    /\ owners # {} <=> fd = "open"
    /\ fd = "none" <=> Descriptors = 0
    /\ Descriptors <= IF wanted /\ state = "open" THEN 2 ELSE 1
    /\ pc \in {"connect", "connecting", "clone"} => owners = {"socket"}
    /\ pc \in {"write", "read"} => owners = {"socket", "stream"}
    /\ pc = "returned" => owners = {}
=============================================================================
