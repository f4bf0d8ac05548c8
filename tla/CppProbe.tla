------------------------------ MODULE CppProbe ------------------------------
(***************************************************************************)
(* The probe of one port in the C++ program: scanPort, connectPort and     *)
(* readBanner (Scanner.cpp) over LinuxSocket.cpp or WinSocket.cpp.  The    *)
(* control is that of the C probe, but a descriptor belongs to a           *)
(* UniqueSocket, moved from connectPort to scanPort when the port is open, *)
(* and is closed by the destructor of whoever owns it last.                *)
(***************************************************************************)
EXTENDS ProbeState, FiniteSets

Init == ProbeInit("openSocket")

-----------------------------------------------------------------------------
(* The two systems.                                                        *)

classifyPosix(e) ==
    CASE e = "ECONNREFUSED" -> "Closed"
      [] e \in {"ETIMEDOUT", "EHOSTUNREACH", "ENETUNREACH", "EHOSTDOWN", "EACCES", "EPERM"} -> "Filtered"
      [] OTHER -> "Unknown"

classifyWinsock(e) ==
    CASE e = "ECONNREFUSED" -> "Closed"
      [] e \in {"ETIMEDOUT", "EHOSTUNREACH", "ENETUNREACH", "EHOSTDOWN", "EACCES"} -> "Filtered"
      [] OTHER -> "Unknown"

classifyError(e) == IF windows THEN classifyWinsock(e) ELSE classifyPosix(e)

stateFor(outcome) ==
    CASE outcome = "Closed" -> "closed"
      [] outcome = "Filtered" -> "filtered"
      [] OTHER -> "error"

(* waitSocket: whether its poll, or its select, returns 1.                 *)
pollReady(forWrite) == IF forWrite THEN Writable ELSE Readable
selectReady(forWrite) == (IF forWrite THEN answer = "accepted" ELSE Readable) \/ Exceptional
waitSocket(forWrite) == IF windows THEN selectReady(forWrite) ELSE pollReady(forWrite)

-----------------------------------------------------------------------------
(* Ownership.                                                              *)

(* The destructor of a UniqueSocket: reset() closes a valid handle.        *)
Destroy(u) ==
    /\ owners' = owners \ {u}
    /\ IF u \in owners THEN fd' = "closed" /\ closes' = closes + 1
                       ELSE UNCHANGED <<fd, closes>>

(* out = std::move(socket): the handle has a new owner and only that one.  *)
MoveOut == owners' = (owners \ {"socket"}) \cup {"out"}

(* connectPort has its return value; its locals are destroyed next.        *)
Return(s) ==
    /\ state' = s
    /\ pc' = "leave"
    /\ IF s = "open" THEN MoveOut ELSE owners' = owners

-----------------------------------------------------------------------------
(* connectPort.                                                            *)

openSocket ==
    /\ pc = "openSocket"
    /\ \/ fd' = "open" /\ owners' = {"raw"} /\ pc' = "unblock" /\ UNCHANGED <<error, state>>
       \/ UNCHANGED <<fd, owners>> /\ error' = "EMFILE" /\ pc' = "leave" /\ state' = "error"
    /\ UNCHANGED <<options, clock, closes, ms, banner, wire>>

(* The raw descriptor is closed by hand if it cannot be made non-blocking, *)
(* and belongs to a UniqueSocket from here on otherwise.                   *)
Unblock ==
    /\ pc = "unblock"
    /\ \/ pc' = "connect" /\ owners' = {"socket"} /\ UNCHANGED <<fd, closes, error, state>>
       \/ Destroy("raw") /\ error' = "ENOBUFS" /\ pc' = "leave" /\ state' = "error"
    /\ UNCHANGED <<options, clock, ms, banner, wire>>

SetNonBlocking == ~windows /\ Unblock

(* The result of the WSAIoctl that limits the retransmissions is ignored.  *)
ioctlsocket == windows /\ Unblock

(* connect: Done, Pending (in progress, or interrupted on POSIX), Failed.  *)
connectSocket ==
    /\ pc = "connect"
    /\ syn' = TRUE
    /\ \/ answer' = "accepted" /\ Return("open") /\ UNCHANGED <<left, error>>
       \/ pc' = "wait_write" /\ left' = TimeoutTicks /\ UNCHANGED <<answer, error, owners, state>>
       \/ /\ answer' \in PossibleError /\ error' = answer'
          /\ Return(stateFor(classifyError(error')))
          /\ left' = left
    /\ UNCHANGED <<options, elapsed, signals, closes, ms, banner, fd, inbox>>

WriteReady == pc = "wait_write" /\ waitSocket(TRUE) /\ Goto({"so_error"})

WriteTimeout ==
    /\ pc = "wait_write" /\ ~waitSocket(TRUE) /\ left = 0
    /\ Return("filtered")
    /\ UNCHANGED <<options, clock, error, closes, ms, banner, socketVars>>

WriteFailed ==
    /\ pc = "wait_write"
    /\ error' = "-1"
    /\ Return(stateFor(classifyError("-1")))
    /\ UNCHANGED <<options, clock, closes, ms, banner, socketVars>>

socketError ==
    /\ pc = "so_error"
    /\ error' \in {PendingError, "ENOBUFS"}
    /\ Return(IF error' = "0" THEN "open" ELSE stateFor(classifyError(error')))
    /\ UNCHANGED <<options, clock, closes, ms, banner, socketVars>>

(* Slip: scanPort looks at the option before it looks at the socket.       *)
LeaveConnectPortUnchecked ==
    /\ pc = "leave"
    /\ Destroy("socket")
    /\ ms' = elapsed
    /\ pc' = IF wanted THEN IF http THEN "send" ELSE "begin_read"
             ELSE IF "out" \notin owners THEN "returned" ELSE "destroy"
    /\ UNCHANGED <<options, clock, error, state, banner, wire>>

(* connectPort returns: its own UniqueSocket is destroyed, and scanPort    *)
(* goes on only with a valid socket.                                       *)
LeaveConnectPort ==
    /\ pc = "leave"
    /\ Destroy("socket")
    /\ ms' = elapsed
    /\ pc' = IF "out" \notin owners THEN "returned"
             ELSE IF ~wanted THEN "destroy"
             ELSE IF http THEN "send" ELSE "begin_read"
    /\ UNCHANGED <<options, clock, error, state, banner, wire>>

-----------------------------------------------------------------------------
(* readBanner, and the end of scanPort.                                    *)

sendAll == pc = "send" /\ Goto({"begin_read", "destroy"})

BeginRead ==
    /\ pc = "begin_read"
    /\ pc' = "wait_read"
    /\ left' = BannerWait
    /\ UNCHANGED <<options, elapsed, signals, error, handles, result, socketVars>>

ReadReady == pc = "wait_read" /\ waitSocket(FALSE) /\ Goto({"recv"})

ReadTimeout == pc = "wait_read" /\ ~waitSocket(FALSE) /\ left = 0 /\ Goto({"destroy"})

ReadFailed == pc = "wait_read" /\ Goto({"destroy"})

receiveSome ==
    /\ pc = "recv"
    /\ pc' = "destroy"
    /\ banner' = (inbox = "bytes")
    /\ UNCHANGED <<options, clock, error, handles, state, ms, socketVars>>

(* scanPort returns its result; its UniqueSocket is destroyed.             *)
LeaveScanPort ==
    /\ pc = "destroy"
    /\ Destroy("out")
    /\ pc' = "returned"
    /\ UNCHANGED <<options, clock, error, result, wire>>

-----------------------------------------------------------------------------
(* Waiting in waitSocket.                                                  *)

Waiting == (pc = "wait_write" /\ ~waitSocket(TRUE)) \/ (pc = "wait_read" /\ ~waitSocket(FALSE))

Tick == TickWhile(Waiting)

(* EINTR: poll is called again with the whole timeout.  Windows' select is *)
(* called once.                                                            *)
Interrupted ==
    /\ ~windows /\ Waiting
    /\ signals < MaxInterrupts
    /\ signals' = signals + 1
    /\ left' = IF pc = "wait_write" THEN TimeoutTicks ELSE BannerWait
    /\ UNCHANGED <<pc, options, elapsed, error, handles, result, socketVars>>

connectPort ==
    \/ openSocket \/ SetNonBlocking \/ ioctlsocket \/ connectSocket
    \/ WriteReady \/ WriteTimeout \/ socketError

readBanner == sendAll \/ BeginRead \/ ReadReady \/ ReadTimeout \/ receiveSome

scanPort == connectPort \/ LeaveConnectPort \/ readBanner \/ LeaveScanPort

WaitFails == WriteFailed \/ ReadFailed

Next == scanPort \/ WaitFails \/ Tick \/ Interrupted \/ Environment \/ Terminated

-----------------------------------------------------------------------------
(* Where the probe uses its connection, and what it owes its descriptor.   *)

Reading == pc \in {"send", "begin_read", "wait_read", "recv"}

OwnsDescriptor ==
    /\ closes = IF fd = "closed" THEN 1 ELSE 0
    /\ Cardinality(owners) = IF fd = "open" THEN 1 ELSE 0
    /\ pc = "returned" => owners = {}
=============================================================================
