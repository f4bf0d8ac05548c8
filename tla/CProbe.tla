------------------------------- MODULE CProbe -------------------------------
(***************************************************************************)
(* The probe of one port in the C program: scan_port, connect_port and     *)
(* read_banner (scan.c) over the wrappers of net_sock.c, one action per    *)
(* system call, with the network moving between any two of them.           *)
(***************************************************************************)
EXTENDS ProbeState

Init == ProbeInit("open")

-----------------------------------------------------------------------------
(* Classification.                                                         *)

net_classify(e) ==
    IF e = "ECONNREFUSED" THEN "OUTCOME_CLOSED"
    ELSE IF e \in {"ETIMEDOUT", "EHOSTUNREACH", "ENETUNREACH", "EHOSTDOWN", "EACCES"}
                  \cup (IF windows THEN {} ELSE {"EPERM"})
         THEN "OUTCOME_FILTERED"
    ELSE "OUTCOME_ERROR"

(* Slip: the outcome is passed on as if it were a state.                   *)
state_for_cast(outcome) == outcome

state_for(outcome) ==
    CASE outcome = "OUTCOME_CLOSED" -> "closed"
      [] outcome = "OUTCOME_FILTERED" -> "filtered"
      [] OTHER -> "error"

(* connect_port returns s with the handle open, or (other states) without: *)
(* scan_port records the state and the time, and goes on to the banner, to *)
(* closing the handle, or straight back to the pool.                       *)
Verdict(s) ==
    /\ state' = s
    /\ ms' = elapsed
    /\ pc' = IF s # "open" THEN "returned"
             ELSE IF ~wanted THEN "close"
             ELSE IF http THEN "send" ELSE "begin_read"

Close == fd' = "closed" /\ closes' = closes + 1

-----------------------------------------------------------------------------
(* net_wait: whether a call returns 1, on POSIX and on Windows.            *)

poll_ready(for_write) == IF for_write THEN Writable ELSE Readable

(* Slip: the set of exceptions is left out of the call.                    *)
select_without_failed(for_write) == IF for_write THEN answer = "accepted" ELSE Readable

select_ready(for_write) == (IF for_write THEN answer = "accepted" ELSE Readable) \/ Exceptional

net_wait(for_write) == IF windows THEN select_ready(for_write) ELSE poll_ready(for_write)

-----------------------------------------------------------------------------
(* connect_port.                                                           *)

net_open ==
    /\ pc = "open"
    /\ \/ fd' = "open" /\ pc' = "unblock" /\ UNCHANGED <<error, state, ms>>
       \/ fd' = fd /\ error' = "EMFILE" /\ Verdict("error")
    /\ UNCHANGED <<options, clock, handles, banner, wire>>

(* The failure of disable_syn_retransmission, on Windows, goes unnoticed.  *)
make_nonblocking ==
    /\ pc = "unblock"
    /\ \/ pc' = "connect" /\ error' = error
       \/ pc' = "discard" /\ error' = "ENOBUFS"
    /\ UNCHANGED <<options, clock, handles, result, socketVars>>

(* A socket that cannot be made non-blocking is closed again.              *)
DiscardSocket ==
    /\ pc = "discard"
    /\ Close
    /\ Verdict("error")
    /\ UNCHANGED <<options, clock, error, owners, banner, wire>>

(* connect: at once, in progress (an interrupted attempt goes on in the    *)
(* background), or failed.                                                 *)
net_connect ==
    /\ pc = "connect"
    /\ syn' = TRUE
    /\ \/ answer' = "accepted" /\ Verdict("open") /\ UNCHANGED <<left, error>>
       \/ pc' = "wait_write" /\ left' = TimeoutTicks /\ UNCHANGED <<answer, error, state, ms>>
       \/ /\ answer' \in PossibleError /\ error' = answer' /\ pc' = "fail"
          /\ UNCHANGED <<left, state, ms>>
    /\ UNCHANGED <<options, elapsed, signals, handles, banner, fd, inbox>>

WriteReady == pc = "wait_write" /\ net_wait(TRUE) /\ Goto({"so_error"})

(* An answer that comes after the wait has ended changes nothing, though   *)
(* the socket is still open.                                               *)
WriteTimeout ==
    /\ pc = "wait_write" /\ ~net_wait(TRUE) /\ left = 0
    /\ pc' = "timed_out"
    /\ state' = "filtered"
    /\ UNCHANGED <<options, clock, error, handles, ms, banner, socketVars>>

CloseTimedOut ==
    /\ pc = "timed_out"
    /\ Close
    /\ Verdict("filtered")
    /\ UNCHANGED <<options, clock, error, owners, banner, wire>>

WriteFailed ==
    /\ pc = "wait_write"
    /\ error' = "-1" /\ pc' = "fail"
    /\ UNCHANGED <<options, clock, handles, result, socketVars>>

(* getsockopt(SO_ERROR), or its own error when it fails.                   *)
net_socket_error ==
    /\ pc = "so_error"
    /\ error' \in {PendingError, "ENOBUFS"}
    /\ IF error' = "0" THEN Verdict("open") ELSE pc' = "fail" /\ UNCHANGED <<state, ms>>
    /\ UNCHANGED <<options, clock, handles, banner, socketVars>>

CloseAndClassify ==
    /\ pc = "fail"
    /\ Close
    /\ Verdict(state_for(net_classify(error)))
    /\ UNCHANGED <<options, clock, error, owners, banner, wire>>

-----------------------------------------------------------------------------
(* read_banner, and the end of scan_port.                                  *)

net_send == pc = "send" /\ Goto({"begin_read", "close"})

BeginRead ==
    /\ pc = "begin_read"
    /\ pc' = "wait_read"
    /\ left' = BannerWait
    /\ UNCHANGED <<options, elapsed, signals, error, handles, result, socketVars>>

(* Only a ready socket is read.                                            *)
ReadReady == pc = "wait_read" /\ net_wait(FALSE) /\ Goto({"recv"})

ReadTimeout == pc = "wait_read" /\ ~net_wait(FALSE) /\ left = 0 /\ Goto({"close"})

ReadFailed == pc = "wait_read" /\ Goto({"close"})

(* recv returns the bytes, 0 at the end of the stream, or an error.        *)
net_recv ==
    /\ pc = "recv"
    /\ pc' = "close"
    /\ banner' = (inbox = "bytes")
    /\ UNCHANGED <<options, clock, error, handles, state, ms, socketVars>>

net_close ==
    /\ pc = "close"
    /\ Close
    /\ pc' = "returned"
    /\ UNCHANGED <<options, clock, error, owners, result, wire>>

-----------------------------------------------------------------------------
(* Waiting in net_wait.                                                    *)

Waiting == (pc = "wait_write" /\ ~net_wait(TRUE)) \/ (pc = "wait_read" /\ ~net_wait(FALSE))

Tick == TickWhile(Waiting)

(* Slip: the timeout is added to what is left instead of starting over.    *)
InterruptedAddsUp ==
    /\ ~windows /\ Waiting
    /\ signals < MaxInterrupts
    /\ signals' = signals + 1
    /\ left' = left + TimeoutTicks + 1
    /\ UNCHANGED <<pc, options, elapsed, error, handles, result, socketVars>>

(* EINTR: poll is called again with the whole timeout.  Windows' select is *)
(* called once.                                                            *)
Interrupted ==
    /\ ~windows /\ Waiting
    /\ signals < MaxInterrupts
    /\ signals' = signals + 1
    /\ left' = IF pc = "wait_write" THEN TimeoutTicks ELSE BannerWait
    /\ UNCHANGED <<pc, options, elapsed, error, handles, result, socketVars>>

connect_port ==
    \/ net_open \/ make_nonblocking \/ DiscardSocket \/ net_connect \/ WriteReady
    \/ WriteTimeout \/ CloseTimedOut \/ net_socket_error \/ CloseAndClassify

read_banner == net_send \/ BeginRead \/ ReadReady \/ ReadTimeout \/ net_recv

scan_port == connect_port \/ read_banner \/ net_close

WaitFails == WriteFailed \/ ReadFailed

Next == scan_port \/ WaitFails \/ Tick \/ Interrupted \/ Environment \/ Terminated

-----------------------------------------------------------------------------
(* Where the probe uses its connection, and what it owes its descriptor.   *)

Reading == pc \in {"send", "begin_read", "wait_read", "recv"}

OwnsDescriptor ==
    /\ closes = IF fd = "closed" THEN 1 ELSE 0
    /\ pc \notin {"open", "returned"} => fd = "open"
    /\ pc = "returned" => fd # "open"
=============================================================================
