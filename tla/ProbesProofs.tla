---------------------------- MODULE ProbesProofs ----------------------------
(***************************************************************************)
(* Proofs about Probes for every timeout, every wait for a banner and      *)
(* every number of signals.  Each program has an inductive invariant of    *)
(* its own, over its own places; IInv joins the four.                      *)
(***************************************************************************)
EXTENDS Probes, FiniteSetTheorems, TLAPS

(* What holds of the wire under every program.                             *)
WireAgrees ==
    /\ answer # "none" => syn
    /\ windows => answer # "EPERM" /\ signals = 0

(* What a probe knows at its places.  Before fresh ends, nothing was sent; *)
(* while it is clean, nothing went wrong; while it is undecided it has no  *)
(* verdict and no banner; and the verdict "open" rests on a connection.    *)
VerdictAgrees(fresh, clean, undecided, talking) ==
    /\ pc \in fresh => ~syn /\ answer = "none"
    /\ pc \in clean => error = "0"
    /\ pc \in undecided <=> state = "undecided"
    /\ state = "open" => answer = "accepted" /\ error = "0"
    /\ pc \in talking => state = "open" /\ wanted
    /\ banner => state = "open" /\ pc \notin talking

(* An error that was not the network's answer is the system's, or a reset. *)
Broken == error \in SystemError \cup {"ECONNRESET"}

ErrorExplained == Broken \/ (error = answer /\ answer \in ConnectError)

(* The time before the wait for a banner is at most bound; the wait for    *)
(* the connection does not end before the timeout does.                    *)
TimeAgrees(fresh, early, connecting, reading, bound) ==
    /\ ms <= bound
    /\ elapsed <= bound + BannerTicks
    /\ pc \in fresh => elapsed = 0
    /\ pc \in early => elapsed <= bound
    /\ pc \in connecting => TimeoutTicks <= elapsed + left /\ elapsed + left <= bound
    /\ pc \in reading => elapsed + left <= bound + BannerTicks

(* Each signal starts a wait over: in C and C++, not on Windows.           *)
Restarted == TimeoutTicks * (1 + signals)

-----------------------------------------------------------------------------
(* The invariants of the four probes.                                      *)

CPlaces ==
    {"open", "unblock", "discard", "connect", "wait_write", "timed_out", "so_error", "fail", "send", "begin_read",
     "wait_read", "recv", "close", "returned"}

CVerdict ==
    /\ VerdictAgrees({"open", "unblock", "connect"}, {"open", "unblock", "connect", "wait_write", "so_error"},
                     {"open", "unblock", "discard", "connect", "wait_write", "so_error", "fail"},
                     {"send", "begin_read", "wait_read", "recv"})
    /\ pc = "close" => state = "open"
    /\ pc = "timed_out" => state = "filtered"
    /\ pc = "discard" => Broken
    /\ pc = "so_error" => answer # "none"
    /\ pc = "fail" => ErrorExplained

CTime ==
    TimeAgrees({"open", "unblock", "connect"}, CPlaces \ {"wait_read", "recv", "close", "returned"},
               {"wait_write"}, {"wait_read"}, Restarted)

CInv ==
    /\ program = "c" /\ pc \in CPlaces
    /\ ProbeTypeOK
    /\ WireAgrees
    /\ CVerdict
    /\ C!OwnsDescriptor /\ (pc = "open" => fd = "none")
    /\ CTime

CppPlaces ==
    {"openSocket", "unblock", "connect", "wait_write", "so_error", "leave", "send", "begin_read", "wait_read", "recv",
     "destroy", "returned"}

CppVerdict ==
    /\ VerdictAgrees({"openSocket", "unblock", "connect"},
                     {"openSocket", "unblock", "connect", "wait_write", "so_error"},
                     {"openSocket", "unblock", "connect", "wait_write", "so_error"},
                     {"send", "begin_read", "wait_read", "recv"})
    /\ pc = "so_error" => answer # "none"
    /\ pc = "leave" => ~banner

(* Who owns the descriptor, at each place.                                 *)
CppOwners ==
    /\ closes = IF fd = "closed" THEN 1 ELSE 0
    /\ fd = "open" <=> owners # {}
    /\ pc \in {"openSocket", "returned"} => owners = {}
    /\ pc = "openSocket" => fd = "none"
    /\ pc = "unblock" => owners = {"raw"}
    /\ pc \in {"connect", "wait_write", "so_error"} => owners = {"socket"}
    /\ pc = "leave" => IF state = "open" THEN owners = {"out"} ELSE owners = {} \/ owners = {"socket"}
    /\ pc \in {"send", "begin_read", "wait_read", "recv", "destroy"} => owners = {"out"}

CppTime ==
    TimeAgrees({"openSocket", "unblock", "connect"}, CppPlaces \ {"wait_read", "recv", "destroy", "returned"},
               {"wait_write"}, {"wait_read"}, Restarted)

CppInv ==
    /\ program = "cpp" /\ pc \in CppPlaces
    /\ ProbeTypeOK
    /\ WireAgrees
    /\ CppVerdict
    /\ CppOwners
    /\ CppTime

RustPlaces ==
    {"new", "connect", "connecting", "outcome", "clone", "set_read_timeout", "write", "begin_read", "read",
     "drop_stream", "drop", "returned"}

RustVerdict ==
    /\ VerdictAgrees({"new", "connect"}, {"new", "connect", "connecting"}, {"new", "connect", "connecting",
                     "outcome"},
                     {"clone", "set_read_timeout", "write", "begin_read", "read"})
    /\ pc \in {"drop_stream", "drop"} => state = "open"
    /\ pc = "outcome" =>
        \/ error = "0" /\ answer = "accepted"
        \/ error = "TimedOut" /\ answer = "none" /\ TimeoutTicks <= elapsed
        \/ ErrorExplained

(* Who owns a descriptor of the connection, at each place.                 *)
RustOwners ==
    /\ fd = "open" <=> owners # {}
    /\ pc \in {"new", "returned"} => owners = {}
    /\ pc = "new" => fd = "none"
    /\ pc \in {"connect", "connecting", "clone", "drop"} => owners = {"socket"}
    /\ pc = "outcome" => owners = IF error = "0" THEN {"socket"} ELSE {}
    /\ pc \in {"set_read_timeout", "write", "begin_read", "read", "drop_stream"} => owners = {"socket", "stream"}
    /\ pc = "drop_stream" => wanted
    /\ pc \notin {"outcome", "drop", "returned"} => closes = 0
    /\ pc = "outcome" => closes = IF fd = "closed" THEN 1 ELSE 0
    /\ pc = "drop" => closes = 0 \/ (closes = 1 /\ wanted)
    /\ pc = "returned" =>
        \/ closes = IF fd = "closed" THEN 1 ELSE 0
        \/ closes = 2 /\ fd = "closed" /\ wanted /\ state = "open"

RustTime ==
    TimeAgrees({"new", "connect"}, RustPlaces \ {"read", "drop_stream", "drop", "returned"}, {"connecting"},
               {"read"}, TimeoutTicks)

RustInv ==
    /\ program = "rust" /\ pc \in RustPlaces
    /\ ProbeTypeOK
    /\ WireAgrees
    /\ RustVerdict
    /\ RustOwners
    /\ RustTime

CsPlaces == {"new", "connect", "connecting", "send", "receive", "receiving", "dispose", "returned", "threw"}

CsVerdict ==
    /\ VerdictAgrees({"new", "connect"}, {"new", "connect", "connecting"}, {"new", "connect", "connecting", "threw"},
                     {"send", "receive", "receiving"})
    /\ pc = "threw" => Broken

CsTime ==
    TimeAgrees({"new", "connect"}, CsPlaces \ {"receiving", "dispose", "returned", "threw"}, {"connecting"},
               {"receiving"}, TimeoutTicks)

CsInv ==
    /\ program = "cs" /\ pc \in CsPlaces
    /\ ProbeTypeOK
    /\ WireAgrees
    /\ CsVerdict
    /\ Cs!OwnsDescriptor /\ (pc = "new" => fd = "none")
    /\ CsTime

(* The inductive invariant.                                                *)
IInv == CInv \/ CppInv \/ RustInv \/ CsInv

-----------------------------------------------------------------------------
(* What every probe starts from.                                           *)
LEMMA FreshProbe ==
    ASSUME NEW entry, ProbeInit(entry)
    PROVE  /\ ProbeTypeOK /\ WireAgrees
           /\ pc = entry /\ fd = "none" /\ owners = {} /\ closes = 0 /\ error = "0" /\ answer = "none" /\ ~syn
           /\ state = "undecided" /\ banner = FALSE /\ elapsed = 0 /\ ms = 0 /\ signals = 0
<1> USE ProbeAssumption DEF ProbeInit, SocketInit
<1>1. SocketTypeOK
  BY DEF SocketTypeOK
<1>2. http \in BOOLEAN /\ wanted \in BOOLEAN /\ banner \in BOOLEAN
  OBVIOUS
<1>3. left \in Nat /\ elapsed \in Nat /\ signals \in 0 .. MaxInterrupts /\ closes \in Nat /\ ms \in Nat
  OBVIOUS
<1> QED
  BY <1>1, <1>2, <1>3 DEF ProbeTypeOK, WireAgrees

(* The time that interrupted waits may take is at least one timeout.       *)
LEMMA RestartedIsNat == ProbeTypeOK => Restarted \in Nat /\ TimeoutTicks <= Restarted
<1> SUFFICES ASSUME ProbeTypeOK PROVE Restarted \in Nat /\ TimeoutTicks <= Restarted
  OBVIOUS
<1>1. TimeoutTicks \in Nat /\ signals \in Nat
  BY ProbeAssumption DEF ProbeTypeOK
<1>2. TimeoutTicks * signals \in Nat
  BY <1>1
<1>3. Restarted = TimeoutTicks + TimeoutTicks * signals
  BY <1>1 DEF Restarted
<1> QED
  BY <1>1, <1>2, <1>3

(* A signal adds one timeout to it, and nothing else changes it.           *)
LEMMA RestartedGrows ==
    ASSUME ProbeTypeOK
    PROVE  /\ signals' = signals => Restarted' = Restarted
           /\ signals' = signals + 1 => Restarted' = Restarted + TimeoutTicks
<1>1. TimeoutTicks \in Nat /\ signals \in Nat
  BY ProbeAssumption DEF ProbeTypeOK
<1>2. TimeoutTicks * (1 + (signals + 1)) = TimeoutTicks * (1 + signals) + TimeoutTicks
  BY <1>1
<1> QED
  BY <1>2 DEF Restarted

(* Each program starts in its own invariant.                               *)
LEMMA InitInv == Init => IInv
<1> USE ProbeAssumption DEF VerdictAgrees, TimeAgrees
<1>1. ASSUME program = "c", C!Init PROVE CInv
  <2>1. ProbeInit("open")
    BY <1>1 DEF C!Init, C!ProbeInit, C!SocketInit, ProbeInit, SocketInit
  <2>2. /\ ProbeTypeOK /\ WireAgrees
        /\ pc = "open" /\ fd = "none" /\ owners = {} /\ closes = 0 /\ error = "0" /\ answer = "none" /\ ~syn
        /\ state = "undecided" /\ banner = FALSE /\ elapsed = 0 /\ ms = 0 /\ signals = 0
    BY <2>1, FreshProbe
  <2>3. CVerdict
    BY <2>2 DEF CVerdict
  <2>4. CTime
    BY <2>2, RestartedIsNat DEF CTime
  <2> QED
    BY <1>1, <2>2, <2>3, <2>4 DEF CInv, CPlaces, C!OwnsDescriptor
<1>2. ASSUME program = "cpp", Cpp!Init PROVE CppInv
  <2>1. ProbeInit("openSocket")
    BY <1>2 DEF Cpp!Init, Cpp!ProbeInit, Cpp!SocketInit, ProbeInit, SocketInit
  <2>2. /\ ProbeTypeOK /\ WireAgrees
        /\ pc = "openSocket" /\ fd = "none" /\ owners = {} /\ closes = 0 /\ error = "0" /\ answer = "none" /\ ~syn
        /\ state = "undecided" /\ banner = FALSE /\ elapsed = 0 /\ ms = 0 /\ signals = 0
    BY <2>1, FreshProbe
  <2>3. CppVerdict
    BY <2>2 DEF CppVerdict
  <2>4. CppTime
    BY <2>2, RestartedIsNat DEF CppTime
  <2> QED
    BY <1>2, <2>2, <2>3, <2>4 DEF CppInv, CppPlaces, CppOwners
<1>3. ASSUME program = "rust", Rust!Init PROVE RustInv
  <2>1. ProbeInit("new")
    BY <1>3 DEF Rust!Init, Rust!ProbeInit, Rust!SocketInit, ProbeInit, SocketInit
  <2>2. /\ ProbeTypeOK /\ WireAgrees
        /\ pc = "new" /\ fd = "none" /\ owners = {} /\ closes = 0 /\ error = "0" /\ answer = "none" /\ ~syn
        /\ state = "undecided" /\ banner = FALSE /\ elapsed = 0 /\ ms = 0 /\ signals = 0
    BY <2>1, FreshProbe
  <2>3. RustVerdict
    BY <2>2 DEF RustVerdict
  <2>4. RustTime
    BY <2>2 DEF RustTime
  <2> QED
    BY <1>3, <2>2, <2>3, <2>4 DEF RustInv, RustPlaces, RustOwners
<1>4. ASSUME program = "cs", Cs!Init PROVE CsInv
  <2>1. ProbeInit("new")
    BY <1>4 DEF Cs!Init, Cs!ProbeInit, Cs!SocketInit, ProbeInit, SocketInit
  <2>2. /\ ProbeTypeOK /\ WireAgrees
        /\ pc = "new" /\ fd = "none" /\ owners = {} /\ closes = 0 /\ error = "0" /\ answer = "none" /\ ~syn
        /\ state = "undecided" /\ banner = FALSE /\ elapsed = 0 /\ ms = 0 /\ signals = 0
    BY <2>1, FreshProbe
  <2>3. CsVerdict
    BY <2>2 DEF CsVerdict
  <2>4. CsTime
    BY <2>2 DEF CsTime
  <2> QED
    BY <1>4, <2>2, <2>3, <2>4 DEF CsInv, CsPlaces, Cs!OwnsDescriptor
<1> QED
  BY <1>1, <1>2, <1>3, <1>4 DEF Init, IInv

(* The steps of the C probe keep its invariant.                            *)
LEMMA CKeepsInv == CInv /\ CNext => CInv'
<1> SUFFICES ASSUME CInv, C!Next, program' = program PROVE CInv'
  BY DEF CNext
<1>0. /\ Restarted \in Nat /\ TimeoutTicks <= Restarted
      /\ signals' = signals => Restarted' = Restarted
      /\ signals' = signals + 1 => Restarted' = Restarted + TimeoutTicks
  BY RestartedIsNat, RestartedGrows DEF CInv
<1> USE <1>0, ProbeAssumption DEF CInv, CPlaces, CVerdict, CTime, ProbeTypeOK, SocketTypeOK, WireAgrees,
    VerdictAgrees, TimeAgrees, ErrorExplained,
    Broken, SystemError, ConnectError, Refusal, Unreachable, OtherError, PossibleError, C!OwnsDescriptor, C!options,
    C!clock, C!handles, C!result, C!local, C!wire, C!socketVars, C!SystemError, C!ConnectError, C!Refusal,
    C!Unreachable, C!OtherError, C!PossibleError, C!Writable, C!Readable, C!Exceptional, C!PendingError, C!Goto,
    C!Verdict, C!Close
<1>1. CASE C!net_open
  BY <1>1 DEF C!net_open
<1>2. CASE C!make_nonblocking
  BY <1>2 DEF C!make_nonblocking
<1>3. CASE C!net_connect
  <2> USE <1>3 DEF C!net_connect
  <2>1. ProbeTypeOK'
    OBVIOUS
  <2>2. WireAgrees'
    OBVIOUS
  <2>3. CVerdict'
    OBVIOUS
  <2>4. (C!OwnsDescriptor /\ (pc = "open" => fd = "none"))'
    OBVIOUS
  <2>5. CTime'
    OBVIOUS
  <2> QED
    BY <2>1, <2>2, <2>3, <2>4, <2>5
<1>4. CASE C!WriteReady
  BY <1>4 DEF C!WriteReady, C!net_wait, C!poll_ready, C!select_ready
<1>5. CASE C!WriteTimeout
  BY <1>5 DEF C!WriteTimeout, C!net_wait, C!poll_ready, C!select_ready
<1>20. CASE C!CloseTimedOut
  BY <1>20 DEF C!CloseTimedOut
<1>21. CASE C!DiscardSocket
  BY <1>21 DEF C!DiscardSocket
<1>6. CASE C!WriteFailed
  BY <1>6 DEF C!WriteFailed
<1>7. CASE C!net_socket_error
  BY <1>7 DEF C!net_socket_error
<1>8. CASE C!CloseAndClassify
  BY <1>8 DEF C!CloseAndClassify, C!state_for, C!net_classify
<1>9. CASE C!net_send
  BY <1>9 DEF C!net_send
<1>10. CASE C!BeginRead
  BY <1>10 DEF C!BeginRead, C!BannerWait
<1>11. CASE C!ReadReady
  BY <1>11 DEF C!ReadReady
<1>12. CASE C!ReadTimeout
  <2> USE <1>12 DEF C!ReadTimeout
  <2>1. ProbeTypeOK'
    OBVIOUS
  <2>2. WireAgrees'
    OBVIOUS
  <2>3. CVerdict'
    OBVIOUS
  <2>4. (C!OwnsDescriptor /\ (pc = "open" => fd = "none"))'
    OBVIOUS
  <2>5. CTime'
    OBVIOUS
  <2> QED
    BY <2>1, <2>2, <2>3, <2>4, <2>5
<1>13. CASE C!ReadFailed
  BY <1>13 DEF C!ReadFailed
<1>14. CASE C!net_recv
  BY <1>14 DEF C!net_recv
<1>15. CASE C!net_close
  BY <1>15 DEF C!net_close
<1>16. CASE C!Tick
  <2> USE <1>16 DEF C!Tick, C!TickWhile, C!Waiting
  <2>1. ProbeTypeOK'
    OBVIOUS
  <2>2. WireAgrees'
    OBVIOUS
  <2>3. CVerdict'
    OBVIOUS
  <2>4. (C!OwnsDescriptor /\ (pc = "open" => fd = "none"))'
    OBVIOUS
  <2>5. CTime'
    <3>1. /\ pc' = pc /\ pc \in {"wait_write", "wait_read"}
          /\ left > 0 /\ left' = left - 1 /\ elapsed' = elapsed + 1 /\ ms' = ms /\ Restarted' = Restarted
      OBVIOUS
    <3>2. left \in Nat /\ elapsed \in Nat
      OBVIOUS
    <3> QED
      BY ONLY <3>1, <3>2, <1>0, ProbeAssumption, CInv DEF CInv, CTime, CPlaces, TimeAgrees
  <2> QED
    BY <2>1, <2>2, <2>3, <2>4, <2>5
<1>17. CASE C!Interrupted
  BY <1>17 DEF C!Interrupted, C!Waiting, C!BannerWait
<1>18. CASE C!Environment
  <2> USE <1>18 DEF C!Environment, C!Network, C!NetworkAnswers, C!PeerTalks
  <2>1. ProbeTypeOK'
    OBVIOUS
  <2>2. WireAgrees'
    OBVIOUS
  <2>3. CVerdict'
    OBVIOUS
  <2>4. (C!OwnsDescriptor /\ (pc = "open" => fd = "none"))'
    OBVIOUS
  <2>5. CTime'
    OBVIOUS
  <2> QED
    BY <2>1, <2>2, <2>3, <2>4, <2>5
<1>19. CASE C!Terminated
  BY <1>19 DEF C!Terminated, C!vars
<1> QED
  BY <1>1, <1>2, <1>3, <1>4, <1>5, <1>6, <1>7, <1>8, <1>9, <1>10, <1>11, <1>12, <1>13, <1>14, <1>15, <1>16, <1>17,
     <1>18, <1>19, <1>20, <1>21
  DEF C!Next, C!scan_port, C!connect_port, C!read_banner, C!WaitFails

(* The steps of the C++ probe keep its invariant.                          *)
LEMMA CppKeepsInv == CppInv /\ CppNext => CppInv'
<1> SUFFICES ASSUME CppInv, Cpp!Next, program' = program PROVE CppInv'
  BY DEF CppNext
<1>0. /\ Restarted \in Nat /\ TimeoutTicks <= Restarted
      /\ signals' = signals => Restarted' = Restarted
      /\ signals' = signals + 1 => Restarted' = Restarted + TimeoutTicks
  BY RestartedIsNat, RestartedGrows DEF CppInv
<1> USE <1>0, ProbeAssumption DEF CppInv, CppPlaces, CppVerdict, CppTime, ProbeTypeOK, SocketTypeOK, WireAgrees,
    VerdictAgrees, TimeAgrees,
    ErrorExplained, Broken, SystemError, ConnectError, Refusal, Unreachable, OtherError, PossibleError, CppOwners,
    Cpp!options, Cpp!clock, Cpp!handles, Cpp!result, Cpp!local, Cpp!wire, Cpp!socketVars, Cpp!SystemError,
    Cpp!ConnectError, Cpp!Refusal, Cpp!Unreachable, Cpp!OtherError, Cpp!PossibleError, Cpp!Writable, Cpp!Readable,
    Cpp!Exceptional, Cpp!PendingError, Cpp!Goto, Cpp!Return, Cpp!MoveOut, Cpp!Destroy
<1>1. CASE Cpp!openSocket
  <2> USE <1>1 DEF Cpp!openSocket
  <2>1. ProbeTypeOK'
    OBVIOUS
  <2>2. WireAgrees'
    OBVIOUS
  <2>3. CppVerdict'
    OBVIOUS
  <2>4. CppOwners'
    OBVIOUS
  <2>5. CppTime'
    OBVIOUS
  <2> QED
    BY <2>1, <2>2, <2>3, <2>4, <2>5
<1>2. CASE Cpp!Unblock
  BY <1>2 DEF Cpp!Unblock
<1>3. CASE Cpp!connectSocket
  <2> USE <1>3 DEF Cpp!connectSocket, Cpp!stateFor, Cpp!classifyError, Cpp!classifyPosix, Cpp!classifyWinsock
  <2>1. ProbeTypeOK'
    OBVIOUS
  <2>2. WireAgrees'
    OBVIOUS
  <2>3. CppVerdict'
    OBVIOUS
  <2>4. CppOwners'
    OBVIOUS
  <2>5. CppTime'
    OBVIOUS
  <2> QED
    BY <2>1, <2>2, <2>3, <2>4, <2>5
<1>4. CASE Cpp!WriteReady
  BY <1>4 DEF Cpp!WriteReady, Cpp!waitSocket, Cpp!pollReady, Cpp!selectReady
<1>5. CASE Cpp!WriteTimeout
  BY <1>5 DEF Cpp!WriteTimeout, Cpp!waitSocket, Cpp!pollReady, Cpp!selectReady
<1>6. CASE Cpp!WriteFailed
  BY <1>6 DEF Cpp!WriteFailed, Cpp!stateFor, Cpp!classifyError, Cpp!classifyPosix, Cpp!classifyWinsock
<1>7. CASE Cpp!socketError
  <2> USE <1>7 DEF Cpp!socketError, Cpp!stateFor, Cpp!classifyError, Cpp!classifyPosix, Cpp!classifyWinsock
  <2>1. ProbeTypeOK'
    OBVIOUS
  <2>2. WireAgrees'
    OBVIOUS
  <2>3. CppVerdict'
    OBVIOUS
  <2>4. CppOwners'
    OBVIOUS
  <2>5. CppTime'
    OBVIOUS
  <2> QED
    BY <2>1, <2>2, <2>3, <2>4, <2>5
<1>8. CASE Cpp!LeaveConnectPort
  <2> USE <1>8 DEF Cpp!LeaveConnectPort
  <2>1. ProbeTypeOK'
    OBVIOUS
  <2>2. WireAgrees'
    OBVIOUS
  <2>3. CppVerdict'
    <3>1. "out" \in owners => state = "open"
      OBVIOUS
    <3> QED
      BY <3>1
  <2>4. CppOwners'
    OBVIOUS
  <2>5. CppTime'
    OBVIOUS
  <2> QED
    BY <2>1, <2>2, <2>3, <2>4, <2>5
<1>9. CASE Cpp!sendAll
  BY <1>9 DEF Cpp!sendAll
<1>10. CASE Cpp!BeginRead
  BY <1>10 DEF Cpp!BeginRead, Cpp!BannerWait
<1>11. CASE Cpp!ReadReady
  BY <1>11 DEF Cpp!ReadReady
<1>12. CASE Cpp!ReadTimeout
  <2> USE <1>12 DEF Cpp!ReadTimeout
  <2>1. ProbeTypeOK'
    OBVIOUS
  <2>2. WireAgrees'
    OBVIOUS
  <2>3. CppVerdict'
    OBVIOUS
  <2>4. CppOwners'
    OBVIOUS
  <2>5. CppTime'
    OBVIOUS
  <2> QED
    BY <2>1, <2>2, <2>3, <2>4, <2>5
<1>13. CASE Cpp!ReadFailed
  BY <1>13 DEF Cpp!ReadFailed
<1>14. CASE Cpp!receiveSome
  BY <1>14 DEF Cpp!receiveSome
<1>15. CASE Cpp!LeaveScanPort
  BY <1>15 DEF Cpp!LeaveScanPort
<1>16. CASE Cpp!Tick
  <2> USE <1>16 DEF Cpp!Tick, Cpp!TickWhile, Cpp!Waiting
  <2>1. ProbeTypeOK'
    OBVIOUS
  <2>2. WireAgrees'
    OBVIOUS
  <2>3. CppVerdict'
    OBVIOUS
  <2>4. CppOwners'
    OBVIOUS
  <2>5. CppTime'
    <3>1. /\ pc' = pc /\ pc \in {"wait_write", "wait_read"}
          /\ left > 0 /\ left' = left - 1 /\ elapsed' = elapsed + 1 /\ ms' = ms /\ Restarted' = Restarted
      OBVIOUS
    <3>2. left \in Nat /\ elapsed \in Nat
      OBVIOUS
    <3> QED
      BY ONLY <3>1, <3>2, <1>0, ProbeAssumption, CppInv DEF CppInv, CppTime, CppPlaces, TimeAgrees
  <2> QED
    BY <2>1, <2>2, <2>3, <2>4, <2>5
<1>17. CASE Cpp!Interrupted
  BY <1>17 DEF Cpp!Interrupted, Cpp!Waiting, Cpp!BannerWait
<1>18. CASE Cpp!Environment
  <2> USE <1>18 DEF Cpp!Environment, Cpp!Network, Cpp!NetworkAnswers, Cpp!PeerTalks
  <2>1. ProbeTypeOK'
    OBVIOUS
  <2>2. WireAgrees'
    OBVIOUS
  <2>3. CppVerdict'
    OBVIOUS
  <2>4. CppOwners'
    OBVIOUS
  <2>5. CppTime'
    OBVIOUS
  <2> QED
    BY <2>1, <2>2, <2>3, <2>4, <2>5
<1>19. CASE Cpp!Terminated
  BY <1>19 DEF Cpp!Terminated, Cpp!vars
<1> QED
  BY <1>1, <1>2, <1>3, <1>4, <1>5, <1>6, <1>7, <1>8, <1>9, <1>10, <1>11, <1>12, <1>13, <1>14, <1>15, <1>16, <1>17,
     <1>18, <1>19
  DEF Cpp!Next, Cpp!scanPort, Cpp!connectPort, Cpp!readBanner, Cpp!WaitFails, Cpp!SetNonBlocking, Cpp!ioctlsocket

(* The steps of the Rust probe keep its invariant.                         *)
LEMMA RustKeepsInv == RustInv /\ RustNext => RustInv'
<1> SUFFICES ASSUME RustInv, Rust!Next, program' = program PROVE RustInv'
  BY DEF RustNext
<1> USE ProbeAssumption DEF RustInv, RustPlaces, RustVerdict, RustTime, ProbeTypeOK, SocketTypeOK, WireAgrees,
    VerdictAgrees, TimeAgrees,
    ErrorExplained, Broken, SystemError, ConnectError, Refusal, Unreachable, OtherError, PossibleError, RustOwners,
    Rust!options, Rust!clock, Rust!handles, Rust!result, Rust!local, Rust!wire, Rust!socketVars, Rust!SystemError,
    Rust!ConnectError, Rust!Refusal, Rust!Unreachable, Rust!OtherError, Rust!PossibleError, Rust!Writable,
    Rust!Readable, Rust!Exceptional, Rust!PendingError, Rust!Goto, Rust!Drop, Rust!Fails
<1>1. CASE Rust!SocketNew
  BY <1>1 DEF Rust!SocketNew
<1>2. CASE Rust!ConnectBegins
  <2> USE <1>2 DEF Rust!ConnectBegins
  <2>1. ProbeTypeOK'
    OBVIOUS
  <2>2. WireAgrees'
    OBVIOUS
  <2>3. RustVerdict'
    OBVIOUS
  <2>4. RustOwners'
    OBVIOUS
  <2>5. RustTime'
    OBVIOUS
  <2> QED
    BY <2>1, <2>2, <2>3, <2>4, <2>5
<1>3. CASE Rust!ConnectEnds
  <2> USE <1>3 DEF Rust!ConnectEnds
  <2>1. ProbeTypeOK'
    OBVIOUS
  <2>2. WireAgrees'
    OBVIOUS
  <2>3. RustVerdict'
    OBVIOUS
  <2>4. RustOwners'
    OBVIOUS
  <2>5. RustTime'
    OBVIOUS
  <2> QED
    BY <2>1, <2>2, <2>3, <2>4, <2>5
<1>4. CASE Rust!ConnectBreaks
  <2> USE <1>4 DEF Rust!ConnectBreaks
  <2>1. ProbeTypeOK'
    OBVIOUS
  <2>2. WireAgrees'
    OBVIOUS
  <2>3. RustVerdict'
    OBVIOUS
  <2>4. RustOwners'
    OBVIOUS
  <2>5. RustTime'
    OBVIOUS
  <2> QED
    BY <2>1, <2>2, <2>3, <2>4, <2>5
<1>5. CASE Rust!ConnectInterrupted
  BY <1>5 DEF Rust!ConnectInterrupted
<1>6. CASE Rust!Outcome
  <2> USE <1>6 DEF Rust!Outcome, Rust!classify_error, Rust!is_filtered_os_error
  <2>1. ProbeTypeOK'
    OBVIOUS
  <2>2. WireAgrees'
    OBVIOUS
  <2>3. RustVerdict'
    OBVIOUS
  <2>4. RustOwners'
    <3>1. CASE error = "0"
      BY <3>1
    <3>2. CASE error # "0"
      BY <3>2
    <3> QED
      BY <3>1, <3>2
  <2>5. RustTime'
    OBVIOUS
  <2> QED
    BY <2>1, <2>2, <2>3, <2>4, <2>5
<1>7. CASE Rust!try_clone
  BY <1>7 DEF Rust!try_clone
<1>8. CASE Rust!set_read_timeout
  BY <1>8 DEF Rust!set_read_timeout
<1>9. CASE Rust!write_all
  BY <1>9 DEF Rust!write_all
<1>10. CASE Rust!BeginRead
  BY <1>10 DEF Rust!BeginRead, Rust!BannerWait
<1>11. CASE Rust!read
  BY <1>11 DEF Rust!read
<1>12. CASE Rust!ReadInterrupted
  BY <1>12 DEF Rust!ReadInterrupted
<1>13. CASE Rust!drop_stream
  BY <1>13 DEF Rust!drop_stream
<1>14. CASE Rust!drop
  BY <1>14 DEF Rust!drop
<1>15. CASE Rust!Tick
  <2> USE <1>15 DEF Rust!Tick, Rust!TickWhile
  <2>1. ProbeTypeOK'
    OBVIOUS
  <2>2. WireAgrees'
    OBVIOUS
  <2>3. RustVerdict'
    OBVIOUS
  <2>4. RustOwners'
    OBVIOUS
  <2>5. RustTime'
    OBVIOUS
  <2> QED
    BY <2>1, <2>2, <2>3, <2>4, <2>5
<1>16. CASE Rust!Environment
  <2> USE <1>16 DEF Rust!Environment, Rust!Network, Rust!NetworkAnswers, Rust!PeerTalks
  <2>1. ProbeTypeOK'
    OBVIOUS
  <2>2. WireAgrees'
    OBVIOUS
  <2>3. RustVerdict'
    OBVIOUS
  <2>4. RustOwners'
    OBVIOUS
  <2>5. RustTime'
    OBVIOUS
  <2> QED
    BY <2>1, <2>2, <2>3, <2>4, <2>5
<1>17. CASE Rust!Terminated
  BY <1>17 DEF Rust!Terminated, Rust!vars
<1> QED
  BY <1>1, <1>2, <1>3, <1>4, <1>5, <1>6, <1>7, <1>8, <1>9, <1>10, <1>11, <1>12, <1>13, <1>14, <1>15, <1>16, <1>17
  DEF Rust!Next, Rust!blocking_scan, Rust!read_banner_blocking, Rust!Interrupted

(* The steps of the C# probe keep its invariant.                           *)
LEMMA CsKeepsInv == CsInv /\ CsNext => CsInv'
<1> SUFFICES ASSUME CsInv, Cs!Next, program' = program PROVE CsInv'
  BY DEF CsNext
<1> USE ProbeAssumption DEF CsInv, CsPlaces, CsVerdict, CsTime, ProbeTypeOK, SocketTypeOK, WireAgrees,
    VerdictAgrees, TimeAgrees,
    ErrorExplained, Broken, SystemError, ConnectError, Refusal, Unreachable, OtherError, PossibleError,
    Cs!OwnsDescriptor, Cs!options, Cs!clock, Cs!handles, Cs!result, Cs!local, Cs!wire, Cs!socketVars, Cs!SystemError,
    Cs!ConnectError, Cs!Refusal, Cs!Unreachable, Cs!OtherError, Cs!PossibleError, Cs!Writable, Cs!Readable,
    Cs!Exceptional, Cs!PendingError, Cs!Goto, Cs!Verdict
<1>1. CASE Cs!NewSocket
  BY <1>1 DEF Cs!NewSocket
<1>2. CASE Cs!ConnectAsync
  <2> USE <1>2 DEF Cs!ConnectAsync
  <2>1. ProbeTypeOK'
    OBVIOUS
  <2>2. WireAgrees'
    OBVIOUS
  <2>3. CsVerdict'
    OBVIOUS
  <2>4. (Cs!OwnsDescriptor /\ (pc = "new" => fd = "none"))'
    OBVIOUS
  <2>5. CsTime'
    OBVIOUS
  <2> QED
    BY <2>1, <2>2, <2>3, <2>4, <2>5
<1>3. CASE Cs!Connected
  <2> USE <1>3 DEF Cs!Connected, Cs!ClassifyError
  <2>1. ProbeTypeOK'
    OBVIOUS
  <2>2. WireAgrees'
    OBVIOUS
  <2>3. CsVerdict'
    OBVIOUS
  <2>4. (Cs!OwnsDescriptor /\ (pc = "new" => fd = "none"))'
    OBVIOUS
  <2>5. CsTime'
    OBVIOUS
  <2> QED
    BY <2>1, <2>2, <2>3, <2>4, <2>5
<1>4. CASE Cs!ConnectCanceled
  BY <1>4 DEF Cs!ConnectCanceled
<1>5. CASE Cs!SendAsync
  BY <1>5 DEF Cs!SendAsync
<1>6. CASE Cs!ReceiveAsync
  BY <1>6 DEF Cs!ReceiveAsync, Cs!BannerWait
<1>7. CASE Cs!Received
  BY <1>7 DEF Cs!Received
<1>8. CASE Cs!ReceiveCanceled
  BY <1>8 DEF Cs!ReceiveCanceled
<1>9. CASE Cs!Dispose
  BY <1>9 DEF Cs!Dispose
<1>10. CASE Cs!Tick
  <2> USE <1>10 DEF Cs!Tick, Cs!TickWhile
  <2>1. ProbeTypeOK'
    OBVIOUS
  <2>2. WireAgrees'
    OBVIOUS
  <2>3. CsVerdict'
    OBVIOUS
  <2>4. (Cs!OwnsDescriptor /\ (pc = "new" => fd = "none"))'
    OBVIOUS
  <2>5. CsTime'
    OBVIOUS
  <2> QED
    BY <2>1, <2>2, <2>3, <2>4, <2>5
<1>11. CASE Cs!Environment
  <2> USE <1>11 DEF Cs!Environment, Cs!Network, Cs!NetworkAnswers, Cs!PeerTalks
  <2>1. ProbeTypeOK'
    OBVIOUS
  <2>2. WireAgrees'
    OBVIOUS
  <2>3. CsVerdict'
    OBVIOUS
  <2>4. (Cs!OwnsDescriptor /\ (pc = "new" => fd = "none"))'
    OBVIOUS
  <2>5. CsTime'
    OBVIOUS
  <2> QED
    BY <2>1, <2>2, <2>3, <2>4, <2>5
<1>12. CASE Cs!Terminated
  BY <1>12 DEF Cs!Terminated, Cs!vars
<1> QED
  BY <1>1, <1>2, <1>3, <1>4, <1>5, <1>6, <1>7, <1>8, <1>9, <1>10, <1>11, <1>12
  DEF Cs!Next, Cs!ScanPortAsync, Cs!ReadBannerAsync

(* IInv speaks of the variables of the probes only.                        *)
LEMMA StutterKeepsInv == IInv /\ UNCHANGED probesVars => IInv'
<1> SUFFICES ASSUME IInv, UNCHANGED probesVars PROVE IInv'
  OBVIOUS
<1>1. /\ UNCHANGED <<program, pc, windows, http, wanted, left, elapsed, signals, error>>
      /\ UNCHANGED <<owners, closes, state, ms, banner, fd, syn, answer, inbox>>
  BY DEF probesVars, vars, options, local, clock, handles, result, socketVars, wire
<1>2. ProbeTypeOK' = ProbeTypeOK /\ WireAgrees' = WireAgrees
  BY <1>1 DEF ProbeTypeOK, SocketTypeOK, WireAgrees
<1>3. CInv => CInv'
  BY <1>1, <1>2 DEF CInv, CVerdict, CTime, VerdictAgrees, TimeAgrees, ErrorExplained, Broken, Restarted,
     C!OwnsDescriptor
<1>4. CppInv => CppInv'
  BY <1>1, <1>2 DEF CppInv, CppVerdict, CppOwners, CppTime, VerdictAgrees, TimeAgrees, Restarted
<1>5. RustInv => RustInv'
  BY <1>1, <1>2 DEF RustInv, RustVerdict, RustOwners, RustTime, VerdictAgrees, TimeAgrees, ErrorExplained, Broken
<1>6. CsInv => CsInv'
  BY <1>1, <1>2 DEF CsInv, CsVerdict, CsTime, VerdictAgrees, TimeAgrees, Broken, Cs!OwnsDescriptor
<1> QED
  BY <1>3, <1>4, <1>5, <1>6 DEF IInv

(* A program stays what it is, so that each invariant meets its own steps. *)
LEMMA NextInv == IInv /\ [Next]_probesVars => IInv'
<1>1. CInv => program = "c"
  BY DEF CInv
<1>2. CppInv => program = "cpp"
  BY DEF CppInv
<1>3. RustInv => program = "rust"
  BY DEF RustInv
<1>4. CsInv => program = "cs"
  BY DEF CsInv
<1> QED
  BY <1>1, <1>2, <1>3, <1>4, CKeepsInv, CppKeepsInv, RustKeepsInv, CsKeepsInv, StutterKeepsInv
  DEF Next, CNext, CppNext, RustNext, CsNext, IInv

(* IInv holds in every reachable state.                                    *)
THEOREM InvHolds == FairSpec => []IInv
BY InitInv, NextInv, PTL DEF FairSpec

-----------------------------------------------------------------------------

(* Every variable keeps its type, whatever the calls of a probe return.    *)
THEOREM TypeCorrect == FairSpec => []TypeOK
<1>1. IInv => TypeOK
  BY DEF IInv, CInv, CppInv, RustInv, CsInv, TypeOK
<1> QED
  BY <1>1, InvHolds, PTL

(* No path through a probe leaks a descriptor, closes one twice, or uses   *)
(* it after closing it, in any of the four programs, on either system.     *)
THEOREM DescriptorsAreOwned == FairSpec => []DescriptorIsOwned
<1>1. CInv => DescriptorIsOwned
  BY DEF CInv, DescriptorIsOwned
<1>2. CppInv => DescriptorIsOwned
  <2> SUFFICES ASSUME CppInv PROVE Cpp!OwnsDescriptor
    BY DEF CppInv, DescriptorIsOwned
  <2>1. \/ owners = {} /\ fd # "open"
        \/ fd = "open" /\ (owners = {"raw"} \/ owners = {"socket"} \/ owners = {"out"})
    BY DEF CppInv, CppOwners, CppPlaces
  <2>2. Cardinality(owners) = IF fd = "open" THEN 1 ELSE 0
    BY <2>1, FS_EmptySet, FS_Singleton
  <2> QED
    BY <2>2 DEF CppInv, CppOwners, Cpp!OwnsDescriptor, Cardinality, Cpp!Cardinality
<1>3. RustInv => DescriptorIsOwned
  <2> SUFFICES ASSUME RustInv PROVE Rust!OwnsDescriptor
    BY DEF RustInv, DescriptorIsOwned
  <2>1. /\ closes \in Nat /\ fd \in {"none", "open", "closed"}
        /\ \/ owners = {} /\ fd = "none" /\ closes = 0
           \/ owners = {} /\ fd = "closed" /\ closes = 1
           \/ owners = {} /\ fd = "closed" /\ closes = 2 /\ wanted /\ state = "open"
           \/ owners = {"socket"} /\ fd = "open" /\ closes = 0
           \/ owners = {"socket"} /\ fd = "open" /\ closes = 1 /\ wanted /\ state = "open"
           \/ owners = {"socket", "stream"} /\ fd = "open" /\ closes = 0 /\ wanted /\ state = "open"
    BY DEF RustInv, RustOwners, RustPlaces, RustVerdict, VerdictAgrees, ProbeTypeOK, SocketTypeOK
  <2>2. Cardinality({"socket", "stream"}) = 2
    <3>1. IsFiniteSet({"socket"}) /\ Cardinality({"socket"}) = 1 /\ "stream" \notin {"socket"}
      BY FS_Singleton
    <3>2. Cardinality({"socket"} \cup {"stream"}) = 2
      BY <3>1, FS_AddElement
    <3>3. {"socket", "stream"} = {"socket"} \cup {"stream"}
      OBVIOUS
    <3> QED
      BY <3>2, <3>3, Zenon
  <2>3. /\ fd = "none" <=> closes + Cardinality(owners) = 0
        /\ closes + Cardinality(owners) <= IF wanted /\ state = "open" THEN 2 ELSE 1
    <3>1. Cardinality({}) = 0 /\ Cardinality({"socket"}) = 1
      BY FS_EmptySet, FS_Singleton
    <3>2. CASE owners = {}
      <4>1. Cardinality(owners) = 0 /\ {} # {"socket"} /\ {} # {"socket", "stream"}
        BY <3>1, <3>2
      <4> QED
        BY <2>1, <3>2, <4>1
    <3>3. CASE owners = {"socket"}
      <4>1. Cardinality(owners) = 1 /\ fd = "open" /\ (closes = 0 \/ (closes = 1 /\ wanted /\ state = "open"))
        BY <2>1, <3>1, <3>3
      <4> QED
        BY <4>1
    <3>4. CASE owners = {"socket", "stream"}
      <4>1. Cardinality(owners) = 2 /\ fd = "open" /\ closes = 0 /\ wanted /\ state = "open"
        BY <2>1, <2>2, <3>4
      <4> QED
        BY <4>1
    <3> QED
      BY <2>1, <3>2, <3>3, <3>4
  <2> QED
    BY <2>3 DEF RustInv, RustOwners, Rust!OwnsDescriptor, Rust!Descriptors, Cardinality, Rust!Cardinality
<1>4. CsInv => DescriptorIsOwned
  BY DEF CsInv, DescriptorIsOwned
<1> QED
  BY <1>1, <1>2, <1>3, <1>4, InvHolds, PTL DEF IInv

(* A request is sent to, and a banner read from, an established connection *)
(* whose descriptor is open, after the verdict and only when asked for.    *)
THEOREM OnlyOpenPortsRead == FairSpec => []OnlyOpenPortsAreRead
<1>1. CInv => OnlyOpenPortsAreRead
  BY DEF CInv, CVerdict, VerdictAgrees, OnlyOpenPortsAreRead, Reading, C!Reading, C!OwnsDescriptor
<1>2. CppInv => OnlyOpenPortsAreRead
  BY DEF CppInv, CppVerdict, CppOwners, VerdictAgrees, OnlyOpenPortsAreRead, Reading, Cpp!Reading
<1>3. RustInv => OnlyOpenPortsAreRead
  BY DEF RustInv, RustVerdict, RustOwners, VerdictAgrees, OnlyOpenPortsAreRead, Reading, Rust!Reading
<1>4. CsInv => OnlyOpenPortsAreRead
  BY DEF CsInv, CsVerdict, VerdictAgrees, OnlyOpenPortsAreRead, Reading, Cs!Reading, Cs!OwnsDescriptor
<1> QED
  BY <1>1, <1>2, <1>3, <1>4, InvHolds, PTL DEF IInv

(* A probe takes at most its two waits, each once more for every signal in *)
(* C and C++ on POSIX, and reports at most the first.                      *)
THEOREM TimeBounded == FairSpec => []TimeIsBounded
<1> USE ProbeAssumption
<1>1. CInv => TimeIsBounded
  BY DEF CInv, CTime, TimeAgrees, WireAgrees, Restarted, TimeIsBounded
<1>2. CppInv => TimeIsBounded
  BY DEF CppInv, CppTime, TimeAgrees, WireAgrees, Restarted, TimeIsBounded
<1>3. RustInv => TimeIsBounded
  BY DEF RustInv, RustTime, TimeAgrees, TimeIsBounded
<1>4. CsInv => TimeIsBounded
  BY DEF CsInv, CsTime, TimeAgrees, TimeIsBounded
<1> QED
  BY <1>1, <1>2, <1>3, <1>4, InvHolds, PTL DEF IInv
-----------------------------------------------------------------------------
(* The refinement of ProbeContract.                                        *)

(* A probe starts in an initial state of the contract.                     *)
LEMMA InitRefines == Init => Contract!Init
<1> SUFFICES ASSUME Init PROVE Contract!Init
  OBVIOUS
<1>1. /\ fd = "none" /\ answer = "none" /\ elapsed = 0 /\ error = "0" /\ state = "undecided" /\ banner = FALSE
      /\ pc \in {"open", "openSocket", "new"}
  BY DEF Init, C!Init, C!ProbeInit, C!SocketInit, Cpp!Init, Cpp!ProbeInit, Cpp!SocketInit,
         Rust!Init, Rust!ProbeInit, Rust!SocketInit, Cs!Init, Cs!ProbeInit, Cs!SocketInit
<1>2. ~(elapsed >= TimeoutTicks)
  BY <1>1, ProbeAssumption
<1> QED
  BY <1>1, <1>2 DEF Contract!Init, SystemError

(* Each step of the C probe is one of the contract, or none.               *)
LEMMA CRefines == CInv /\ CNext => [Contract!Next]_Contract!vars
<1> SUFFICES ASSUME CInv, C!Next, program' = program PROVE [Contract!Next]_Contract!vars
  BY DEF CNext
<1> USE ProbeAssumption DEF CInv, CPlaces, CVerdict, CTime, ProbeTypeOK, SocketTypeOK, WireAgrees, VerdictAgrees,
    TimeAgrees, ErrorExplained,
    Broken, C!OwnsDescriptor, SystemError, ConnectError, Refusal, Unreachable, OtherError, PossibleError, C!options,
    C!clock, C!handles, C!result, C!local, C!wire, C!socketVars, C!SystemError, C!ConnectError, C!Refusal,
    C!Unreachable, C!OtherError, C!PossibleError, C!Writable, C!Readable, C!Exceptional, C!PendingError, C!Goto,
    C!Verdict, C!Close, Contract!vars, Contract!Answers, Contract!Justified, Contract!MayReturn, Contract!MayClose,
    Contract!NetworkMayAnswer
<1>1. ASSUME C!net_open PROVE Contract!Open \/ Contract!Decide
  <2> USE <1>1 DEF C!net_open
  <2>1. CASE pc' = "unblock"
    BY <2>1 DEF Contract!Open
  <2>2. CASE pc' # "unblock"
    <3>1. error' = "EMFILE" /\ state' = "error" /\ pc' = "returned" /\ fd' = "none"
      BY <2>2
    <3> QED
      BY <2>2, <3>1 DEF Contract!Decide
  <2> QED
    BY <2>1, <2>2
<1>2. ASSUME C!make_nonblocking PROVE Contract!Break \/ UNCHANGED Contract!vars
  <2> USE <1>2 DEF C!make_nonblocking
  <2>1. CASE pc' = "connect"
    BY <2>1
  <2>2. CASE pc' # "connect"
    <3>1. error' = "ENOBUFS" /\ state' = state /\ pc' = "discard" /\ fd' = fd
      BY <2>2
    <3> QED
      BY <2>2, <3>1 DEF Contract!Break
  <2> QED
    BY <2>1, <2>2
<1>3. ASSUME C!net_connect PROVE Contract!Decide \/ Contract!Answer \/ UNCHANGED Contract!vars
  <2> USE <1>3 DEF C!net_connect
  <2>1. CASE pc' = "wait_write"
    <3>1. answer' = answer
      BY <2>1
    <3> QED
      BY <2>1, <3>1
  <2>2. CASE pc' = "fail"
    <3>1. answer' \in ConnectError /\ error' = answer'
      BY <2>2
    <3> QED
      BY <2>2, <3>1 DEF Contract!Answer
  <2>3. CASE pc' \notin {"wait_write", "fail"}
    <3>1. state' = "open" /\ answer' = "accepted" /\ error' = error
      BY <2>3
    <3> QED
      BY <2>3, <3>1 DEF Contract!Decide
  <2> QED
    BY <2>1, <2>2, <2>3
<1>4. ASSUME C!WriteReady PROVE UNCHANGED Contract!vars
  BY <1>4 DEF C!WriteReady
<1>5. ASSUME C!WriteTimeout PROVE Contract!Decide
  BY <1>5 DEF C!WriteTimeout, C!net_wait, C!poll_ready, C!select_ready, Contract!Decide
<1>20. ASSUME C!CloseTimedOut PROVE Contract!Close
  BY <1>20 DEF C!CloseTimedOut, Contract!Close
<1>21. ASSUME C!DiscardSocket PROVE Contract!Decide
  BY <1>21 DEF C!DiscardSocket, Contract!Decide
<1>6. ASSUME C!WriteFailed PROVE Contract!Break
  BY <1>6 DEF C!WriteFailed, Contract!Break
<1>7. ASSUME C!net_socket_error PROVE Contract!Decide \/ Contract!Break \/ UNCHANGED Contract!vars
  <2> USE <1>7 DEF C!net_socket_error
  <2>1. CASE error' = "0"
    <3>1. answer = "accepted" /\ state' = "open"
      BY <2>1
    <3> QED
      BY <2>1, <3>1 DEF Contract!Decide
  <2>2. CASE error' \in {"ENOBUFS", "ECONNRESET"}
    <3>1. pc' = "fail" /\ state' = state
      BY <2>2
    <3> QED
      BY <2>2, <3>1 DEF Contract!Break
  <2>3. CASE error' \notin {"0", "ENOBUFS", "ECONNRESET"}
    <3>1. error' = answer /\ answer \in ConnectError /\ pc' = "fail" /\ state' = state
      BY <2>3
    <3> QED
      BY <2>3, <3>1
  <2> QED
    BY <2>1, <2>2, <2>3
<1>8. ASSUME C!CloseAndClassify PROVE Contract!Decide
  BY <1>8 DEF C!CloseAndClassify, C!state_for, C!net_classify, Contract!Decide
<1>9. ASSUME C!net_send PROVE UNCHANGED Contract!vars
  BY <1>9 DEF C!net_send
<1>10. ASSUME C!BeginRead PROVE UNCHANGED Contract!vars
  BY <1>10 DEF C!BeginRead
<1>11. ASSUME C!ReadReady PROVE UNCHANGED Contract!vars
  BY <1>11 DEF C!ReadReady
<1>12. ASSUME C!ReadTimeout PROVE UNCHANGED Contract!vars
  BY <1>12 DEF C!ReadTimeout
<1>13. ASSUME C!ReadFailed PROVE UNCHANGED Contract!vars
  BY <1>13 DEF C!ReadFailed
<1>14. ASSUME C!net_recv PROVE Contract!ReadBanner \/ UNCHANGED Contract!vars
  <2> USE <1>14 DEF C!net_recv
  <2>1. CASE inbox = "bytes"
    <3>1. banner' = TRUE
      BY <2>1
    <3> QED
      BY <2>1, <3>1 DEF Contract!ReadBanner
  <2>2. CASE inbox # "bytes"
    <3>1. banner' = FALSE /\ banner = FALSE
      BY <2>2
    <3> QED
      BY <2>2, <3>1
  <2> QED
    BY <2>1, <2>2
<1>15. ASSUME C!net_close PROVE Contract!Close
  BY <1>15 DEF C!net_close, Contract!Close
<1>16. ASSUME C!Tick PROVE Contract!Expire \/ UNCHANGED Contract!vars
  <2> USE <1>16 DEF C!Tick, C!TickWhile, C!Waiting
  <2>1. CASE elapsed' >= TimeoutTicks
    BY <2>1 DEF Contract!Expire
  <2>2. CASE ~(elapsed' >= TimeoutTicks)
    <3>1. ~(elapsed >= TimeoutTicks)
      BY <2>2
    <3> QED
      BY <2>2, <3>1
  <2> QED
    BY <2>1, <2>2
<1>17. ASSUME C!Interrupted PROVE UNCHANGED Contract!vars
  BY <1>17 DEF C!Interrupted
<1>18. ASSUME C!Environment PROVE Contract!Answer \/ UNCHANGED Contract!vars
  BY <1>18 DEF C!Environment, C!Network, C!NetworkAnswers, C!PeerTalks, Contract!Answer
<1>19. ASSUME C!Terminated PROVE UNCHANGED Contract!vars
  BY <1>19 DEF C!Terminated, C!vars
<1> QED
  BY <1>1, <1>2, <1>3, <1>4, <1>5, <1>6, <1>7, <1>8, <1>9, <1>10, <1>11, <1>12, <1>13, <1>14, <1>15, <1>16, <1>17,
     <1>18, <1>19, <1>20, <1>21
  DEF C!Next, C!scan_port, C!connect_port, C!read_banner, C!WaitFails, Contract!Next

(* Each step of the C++ probe is one of the contract, or none.             *)
LEMMA CppRefines == CppInv /\ CppNext => [Contract!Next]_Contract!vars
<1> SUFFICES ASSUME CppInv, Cpp!Next, program' = program PROVE [Contract!Next]_Contract!vars
  BY DEF CppNext
<1> USE ProbeAssumption DEF CppInv, CppPlaces, CppVerdict, CppTime, ProbeTypeOK, SocketTypeOK, WireAgrees,
    VerdictAgrees, TimeAgrees,
    ErrorExplained, Broken, CppOwners, SystemError, ConnectError, Refusal, Unreachable, OtherError, PossibleError,
    Cpp!options, Cpp!clock, Cpp!handles, Cpp!result, Cpp!local, Cpp!wire, Cpp!socketVars, Cpp!SystemError,
    Cpp!ConnectError, Cpp!Refusal, Cpp!Unreachable, Cpp!OtherError, Cpp!PossibleError, Cpp!Writable, Cpp!Readable,
    Cpp!Exceptional, Cpp!PendingError, Cpp!Goto, Cpp!Return, Cpp!MoveOut, Cpp!Destroy, Contract!vars,
    Contract!Answers, Contract!Justified, Contract!MayReturn, Contract!MayClose, Contract!NetworkMayAnswer
<1>1. ASSUME Cpp!openSocket PROVE Contract!Open \/ Contract!Decide
  <2> USE <1>1 DEF Cpp!openSocket
  <2>1. CASE pc' = "unblock"
    BY <2>1 DEF Contract!Open
  <2>2. CASE pc' # "unblock"
    <3>1. error' = "EMFILE" /\ state' = "error" /\ pc' = "leave" /\ fd' = "none"
      BY <2>2
    <3>2. (error' \in SystemError \cup {"ECONNRESET"}) = TRUE
      BY <2>2, <3>1
    <3>3. state' \in Contract!Justified
      BY <3>1, <3>2
    <3>4. Contract!MayReturn /\ Contract!MayClose /\ Contract!NetworkMayAnswer
      BY <2>2, <3>1
    <3> QED
      BY <2>2, <3>1, <3>2, <3>3, <3>4 DEF Contract!Decide
  <2> QED
    BY <2>1, <2>2
<1>2. ASSUME Cpp!Unblock PROVE Contract!Decide \/ UNCHANGED Contract!vars
  <2> USE <1>2 DEF Cpp!Unblock
  <2>1. CASE pc' = "connect"
    BY <2>1
  <2>2. CASE pc' # "connect"
    <3>1. error' = "ENOBUFS" /\ state' = "error" /\ pc' = "leave" /\ fd' = "closed"
      BY <2>2
    <3>2. (error' \in SystemError \cup {"ECONNRESET"}) = TRUE
      BY <2>2, <3>1
    <3>3. state' \in Contract!Justified
      BY <3>1, <3>2
    <3>4. Contract!MayReturn /\ Contract!MayClose /\ Contract!NetworkMayAnswer
      BY <2>2, <3>1
    <3> QED
      BY <2>2, <3>1, <3>2, <3>3, <3>4 DEF Contract!Decide
  <2> QED
    BY <2>1, <2>2
<1>3. ASSUME Cpp!connectSocket PROVE Contract!Decide \/ UNCHANGED Contract!vars
  <2> USE <1>3 DEF Cpp!connectSocket, Cpp!stateFor, Cpp!classifyError, Cpp!classifyPosix, Cpp!classifyWinsock
  <2>1. CASE pc' = "wait_write"
    <3>1. answer' = answer
      BY <2>1
    <3> QED
      BY <2>1, <3>1
  <2>2. CASE pc' # "wait_write" /\ state' = "open"
    <3>1. answer' = "accepted" /\ error' = error /\ pc' = "leave"
      BY <2>2
    <3> QED
      BY <2>2, <3>1 DEF Contract!Decide
  <2>3. CASE pc' # "wait_write" /\ state' # "open"
    <3>1. /\ answer' \in ConnectError /\ error' = answer' /\ pc' = "leave"
          /\ state' = Cpp!stateFor(Cpp!classifyError(answer'))
      BY <2>3
    <3>2. (error' \in SystemError \cup {"ECONNRESET"}) = (error \in SystemError \cup {"ECONNRESET"})
      BY <2>3, <3>1
    <3>3. state' \in Contract!Justified
      BY <3>1, <3>2
    <3>4. Contract!MayReturn /\ Contract!MayClose /\ Contract!NetworkMayAnswer
      BY <2>3, <3>1
    <3> QED
      BY <2>3, <3>1, <3>2, <3>3, <3>4 DEF Contract!Decide
  <2> QED
    BY <2>1, <2>2, <2>3
<1>4. ASSUME Cpp!WriteReady PROVE UNCHANGED Contract!vars
  BY <1>4 DEF Cpp!WriteReady
<1>5. ASSUME Cpp!WriteTimeout PROVE Contract!Decide
  BY <1>5 DEF Cpp!WriteTimeout, Cpp!waitSocket, Cpp!pollReady, Cpp!selectReady, Contract!Decide
<1>6. ASSUME Cpp!WriteFailed PROVE Contract!Decide
  <2> USE <1>6 DEF Cpp!WriteFailed, Cpp!stateFor, Cpp!classifyError, Cpp!classifyPosix, Cpp!classifyWinsock
  <2>1. error' = "-1" /\ state' = "error" /\ pc' = "leave"
    OBVIOUS
  <2>2. (error' \in SystemError \cup {"ECONNRESET"}) = TRUE
    BY <2>1
  <2>3. state' \in Contract!Justified
    BY <2>1, <2>2
  <2>4. Contract!MayReturn /\ Contract!MayClose /\ Contract!NetworkMayAnswer
    BY <2>1
  <2> QED
    BY <2>1, <2>2, <2>3, <2>4 DEF Contract!Decide
<1>7. ASSUME Cpp!socketError PROVE Contract!Decide
  <2> USE <1>7 DEF Cpp!socketError, Cpp!stateFor, Cpp!classifyError, Cpp!classifyPosix, Cpp!classifyWinsock
  <2>1. CASE error' = "0"
    <3>1. answer = "accepted" /\ state' = "open" /\ pc' = "leave"
      BY <2>1
    <3> QED
      BY <2>1, <3>1 DEF Contract!Decide
  <2>2. CASE error' \in {"ENOBUFS", "ECONNRESET"}
    <3>1. state' = "error" /\ pc' = "leave"
      BY <2>2
    <3>2. (error' \in SystemError \cup {"ECONNRESET"}) = TRUE
      BY <2>2, <3>1
    <3>3. state' \in Contract!Justified
      BY <3>1, <3>2
    <3>4. Contract!MayReturn /\ Contract!MayClose /\ Contract!NetworkMayAnswer
      BY <2>2, <3>1
    <3> QED
      BY <2>2, <3>1, <3>2, <3>3, <3>4 DEF Contract!Decide
  <2>3. CASE error' \notin {"0", "ENOBUFS", "ECONNRESET"}
    <3>1. /\ error' = answer /\ answer \in ConnectError /\ pc' = "leave"
          /\ state' = Cpp!stateFor(Cpp!classifyError(answer))
      BY <2>3
    <3>2. (error' \in SystemError \cup {"ECONNRESET"}) = (error \in SystemError \cup {"ECONNRESET"})
      BY <2>3, <3>1
    <3>3. state' \in Contract!Justified
      BY <3>1, <3>2
    <3>4. Contract!MayReturn /\ Contract!MayClose /\ Contract!NetworkMayAnswer
      BY <2>3, <3>1
    <3> QED
      BY <2>3, <3>1, <3>2, <3>3, <3>4 DEF Contract!Decide
  <2> QED
    BY <2>1, <2>2, <2>3
<1>8. ASSUME Cpp!LeaveConnectPort PROVE Contract!Close \/ Contract!Return \/ UNCHANGED Contract!vars
  <2> USE <1>8 DEF Cpp!LeaveConnectPort
  <2>1. CASE owners = {"out"}
    <3>1. fd' = fd /\ pc' # "returned"
      BY <2>1
    <3> QED
      BY <2>1, <3>1
  <2>2. CASE owners = {"socket"}
    <3>1. fd = "open" /\ fd' = "closed" /\ pc' = "returned" /\ state # "undecided"
      BY <2>2
    <3> QED
      BY <2>2, <3>1 DEF Contract!Close
  <2>3. CASE owners = {}
    <3>1. fd' = fd /\ fd # "open" /\ pc' = "returned" /\ state # "undecided"
      BY <2>3
    <3> QED
      BY <2>3, <3>1 DEF Contract!Return
  <2> QED
    BY <2>1, <2>2, <2>3
<1>9. ASSUME Cpp!sendAll PROVE UNCHANGED Contract!vars
  BY <1>9 DEF Cpp!sendAll
<1>10. ASSUME Cpp!BeginRead PROVE UNCHANGED Contract!vars
  BY <1>10 DEF Cpp!BeginRead
<1>11. ASSUME Cpp!ReadReady PROVE UNCHANGED Contract!vars
  BY <1>11 DEF Cpp!ReadReady
<1>12. ASSUME Cpp!ReadTimeout PROVE UNCHANGED Contract!vars
  BY <1>12 DEF Cpp!ReadTimeout
<1>13. ASSUME Cpp!ReadFailed PROVE UNCHANGED Contract!vars
  BY <1>13 DEF Cpp!ReadFailed
<1>14. ASSUME Cpp!receiveSome PROVE Contract!ReadBanner \/ UNCHANGED Contract!vars
  <2> USE <1>14 DEF Cpp!receiveSome
  <2>1. CASE inbox = "bytes"
    <3>1. banner' = TRUE
      BY <2>1
    <3> QED
      BY <2>1, <3>1 DEF Contract!ReadBanner
  <2>2. CASE inbox # "bytes"
    <3>1. banner' = FALSE /\ banner = FALSE
      BY <2>2
    <3> QED
      BY <2>2, <3>1
  <2> QED
    BY <2>1, <2>2
<1>15. ASSUME Cpp!LeaveScanPort PROVE Contract!Close
  BY <1>15 DEF Cpp!LeaveScanPort, Contract!Close
<1>16. ASSUME Cpp!Tick PROVE Contract!Expire \/ UNCHANGED Contract!vars
  <2> USE <1>16 DEF Cpp!Tick, Cpp!TickWhile, Cpp!Waiting
  <2>1. CASE elapsed' >= TimeoutTicks
    BY <2>1 DEF Contract!Expire
  <2>2. CASE ~(elapsed' >= TimeoutTicks)
    <3>1. ~(elapsed >= TimeoutTicks)
      BY <2>2
    <3> QED
      BY <2>2, <3>1
  <2> QED
    BY <2>1, <2>2
<1>17. ASSUME Cpp!Interrupted PROVE UNCHANGED Contract!vars
  BY <1>17 DEF Cpp!Interrupted
<1>18. ASSUME Cpp!Environment PROVE Contract!Answer \/ UNCHANGED Contract!vars
  BY <1>18 DEF Cpp!Environment, Cpp!Network, Cpp!NetworkAnswers, Cpp!PeerTalks, Contract!Answer
<1>19. ASSUME Cpp!Terminated PROVE UNCHANGED Contract!vars
  BY <1>19 DEF Cpp!Terminated, Cpp!vars
<1> QED
  BY <1>1, <1>2, <1>3, <1>4, <1>5, <1>6, <1>7, <1>8, <1>9, <1>10, <1>11, <1>12, <1>13, <1>14, <1>15, <1>16, <1>17,
     <1>18, <1>19
  DEF Cpp!Next, Cpp!scanPort, Cpp!connectPort, Cpp!readBanner, Cpp!WaitFails, Cpp!SetNonBlocking, Cpp!ioctlsocket,
      Contract!Next

(* Each step of the Rust probe is one of the contract, or none.            *)
LEMMA RustRefines == RustInv /\ RustNext => [Contract!Next]_Contract!vars
<1> SUFFICES ASSUME RustInv, Rust!Next, program' = program PROVE [Contract!Next]_Contract!vars
  BY DEF RustNext
<1> USE ProbeAssumption DEF RustInv, RustPlaces, RustVerdict, RustTime, ProbeTypeOK, SocketTypeOK, WireAgrees,
    VerdictAgrees, TimeAgrees,
    ErrorExplained, Broken, RustOwners, SystemError, ConnectError, Refusal, Unreachable, OtherError, PossibleError,
    Rust!options, Rust!clock, Rust!handles, Rust!result, Rust!local, Rust!wire, Rust!socketVars, Rust!SystemError,
    Rust!ConnectError, Rust!Refusal, Rust!Unreachable, Rust!OtherError, Rust!PossibleError, Rust!Writable,
    Rust!Readable, Rust!Exceptional, Rust!PendingError, Rust!Goto, Rust!Drop, Rust!Fails, Contract!vars,
    Contract!Answers, Contract!Justified, Contract!MayReturn, Contract!MayClose, Contract!NetworkMayAnswer
<1>1. ASSUME Rust!SocketNew PROVE Contract!Open \/ Contract!Break
  BY <1>1 DEF Rust!SocketNew, Contract!Open, Contract!Break
<1>2. ASSUME Rust!ConnectBegins PROVE Contract!Answer \/ Contract!Close \/ UNCHANGED Contract!vars
  BY <1>2 DEF Rust!ConnectBegins, Contract!Answer, Contract!Close
<1>3. ASSUME Rust!ConnectEnds PROVE Contract!Break \/ Contract!Close \/ UNCHANGED Contract!vars
  BY <1>3 DEF Rust!ConnectEnds, Contract!Break, Contract!Close
<1>4. ASSUME Rust!ConnectBreaks PROVE Contract!Break
  BY <1>4 DEF Rust!ConnectBreaks, Contract!Break
<1>5. ASSUME Rust!ConnectInterrupted PROVE UNCHANGED Contract!vars
  BY <1>5 DEF Rust!ConnectInterrupted
<1>6. ASSUME Rust!Outcome PROVE Contract!Decide
  BY <1>6 DEF Rust!Outcome, Rust!classify_error, Rust!is_filtered_os_error, Contract!Decide
<1>7. ASSUME Rust!try_clone PROVE UNCHANGED Contract!vars
  BY <1>7 DEF Rust!try_clone
<1>8. ASSUME Rust!set_read_timeout PROVE UNCHANGED Contract!vars
  BY <1>8 DEF Rust!set_read_timeout
<1>9. ASSUME Rust!write_all PROVE UNCHANGED Contract!vars
  BY <1>9 DEF Rust!write_all
<1>10. ASSUME Rust!BeginRead PROVE UNCHANGED Contract!vars
  BY <1>10 DEF Rust!BeginRead
<1>11. ASSUME Rust!read PROVE Contract!ReadBanner \/ UNCHANGED Contract!vars
  <2> USE <1>11 DEF Rust!read
  <2>1. CASE inbox = "bytes"
    <3>1. banner' = TRUE
      BY <2>1
    <3> QED
      BY <2>1, <3>1 DEF Contract!ReadBanner
  <2>2. CASE inbox # "bytes"
    <3>1. banner' = FALSE /\ banner = FALSE
      BY <2>2
    <3> QED
      BY <2>2, <3>1
  <2> QED
    BY <2>1, <2>2
<1>12. ASSUME Rust!ReadInterrupted PROVE UNCHANGED Contract!vars
  BY <1>12 DEF Rust!ReadInterrupted
<1>13. ASSUME Rust!drop_stream PROVE UNCHANGED Contract!vars
  BY <1>13 DEF Rust!drop_stream
<1>14. ASSUME Rust!drop PROVE Contract!Close
  BY <1>14 DEF Rust!drop, Contract!Close
<1>15. ASSUME Rust!Tick PROVE Contract!Expire \/ UNCHANGED Contract!vars
  BY <1>15 DEF Rust!Tick, Rust!TickWhile, Contract!Expire
<1>16. ASSUME Rust!Environment PROVE Contract!Answer \/ UNCHANGED Contract!vars
  BY <1>16 DEF Rust!Environment, Rust!Network, Rust!NetworkAnswers, Rust!PeerTalks, Contract!Answer
<1>17. ASSUME Rust!Terminated PROVE UNCHANGED Contract!vars
  BY <1>17 DEF Rust!Terminated, Rust!vars
<1> QED
  BY <1>1, <1>2, <1>3, <1>4, <1>5, <1>6, <1>7, <1>8, <1>9, <1>10, <1>11, <1>12, <1>13, <1>14, <1>15, <1>16, <1>17
  DEF Rust!Next, Rust!blocking_scan, Rust!read_banner_blocking, Rust!Interrupted, Contract!Next

(* Each step of the C# probe is one of the contract, or none.              *)
LEMMA CsRefines == CsInv /\ CsNext => [Contract!Next]_Contract!vars
<1> SUFFICES ASSUME CsInv, Cs!Next, program' = program PROVE [Contract!Next]_Contract!vars
  BY DEF CsNext
<1> USE ProbeAssumption DEF CsInv, CsPlaces, CsVerdict, CsTime, ProbeTypeOK, SocketTypeOK, WireAgrees,
    VerdictAgrees, TimeAgrees,
    ErrorExplained, Broken, Cs!OwnsDescriptor, SystemError, ConnectError, Refusal, Unreachable, OtherError,
    PossibleError, Cs!options, Cs!clock, Cs!handles, Cs!result, Cs!local, Cs!wire, Cs!socketVars, Cs!SystemError,
    Cs!ConnectError, Cs!Refusal, Cs!Unreachable, Cs!OtherError, Cs!PossibleError, Cs!Writable, Cs!Readable,
    Cs!Exceptional, Cs!PendingError, Cs!Goto, Cs!Verdict, Contract!vars, Contract!Answers, Contract!Justified,
    Contract!MayReturn, Contract!MayClose, Contract!NetworkMayAnswer
<1>1. ASSUME Cs!NewSocket PROVE Contract!Open \/ Contract!Break
  BY <1>1 DEF Cs!NewSocket, Contract!Open, Contract!Break
<1>2. ASSUME Cs!ConnectAsync PROVE Contract!Answer \/ UNCHANGED Contract!vars
  BY <1>2 DEF Cs!ConnectAsync, Contract!Answer
<1>3. ASSUME Cs!Connected PROVE Contract!Decide
  <2> USE <1>3 DEF Cs!Connected, Cs!ClassifyError
  <2>1. CASE error' = "0"
    <3>1. answer = "accepted" /\ state' = "open" /\ pc' # "returned"
      BY <2>1
    <3> QED
      BY <2>1, <3>1 DEF Contract!Decide
  <2>2. CASE error' \in {"ENOBUFS", "ECONNRESET"}
    <3>1. state' = "error" /\ pc' = "dispose"
      BY <2>2
    <3>2. (error' \in SystemError \cup {"ECONNRESET"}) = TRUE
      BY <2>2, <3>1
    <3>3. state' \in Contract!Justified
      BY <3>1, <3>2
    <3>4. Contract!MayReturn /\ Contract!MayClose /\ Contract!NetworkMayAnswer
      BY <2>2, <3>1
    <3> QED
      BY <2>2, <3>1, <3>2, <3>3, <3>4 DEF Contract!Decide
  <2>3. CASE error' \notin {"0", "ENOBUFS", "ECONNRESET"}
    <3>1. /\ error' = answer /\ answer \in ConnectError /\ pc' = "dispose"
          /\ state' = Cs!ClassifyError(answer)
      BY <2>3
    <3>2. (error' \in SystemError \cup {"ECONNRESET"}) = (error \in SystemError \cup {"ECONNRESET"})
      BY <2>3, <3>1
    <3>3. state' \in Contract!Justified
      BY <3>1, <3>2
    <3>4. Contract!MayReturn /\ Contract!MayClose /\ Contract!NetworkMayAnswer
      BY <2>3, <3>1
    <3> QED
      BY <2>3, <3>1, <3>2, <3>3, <3>4 DEF Contract!Decide
  <2> QED
    BY <2>1, <2>2, <2>3
<1>4. ASSUME Cs!ConnectCanceled PROVE Contract!Decide
  BY <1>4 DEF Cs!ConnectCanceled, Contract!Decide
<1>5. ASSUME Cs!SendAsync PROVE UNCHANGED Contract!vars
  BY <1>5 DEF Cs!SendAsync
<1>6. ASSUME Cs!ReceiveAsync PROVE UNCHANGED Contract!vars
  BY <1>6 DEF Cs!ReceiveAsync
<1>7. ASSUME Cs!Received PROVE Contract!ReadBanner \/ UNCHANGED Contract!vars
  <2> USE <1>7 DEF Cs!Received
  <2>1. CASE inbox = "bytes"
    <3>1. banner' = TRUE
      BY <2>1
    <3> QED
      BY <2>1, <3>1 DEF Contract!ReadBanner
  <2>2. CASE inbox # "bytes"
    <3>1. banner' = FALSE /\ banner = FALSE
      BY <2>2
    <3> QED
      BY <2>2, <3>1
  <2> QED
    BY <2>1, <2>2
<1>8. ASSUME Cs!ReceiveCanceled PROVE UNCHANGED Contract!vars
  BY <1>8 DEF Cs!ReceiveCanceled
<1>9. ASSUME Cs!Dispose PROVE Contract!Close
  BY <1>9 DEF Cs!Dispose, Contract!Close
<1>10. ASSUME Cs!Tick PROVE Contract!Expire \/ UNCHANGED Contract!vars
  BY <1>10 DEF Cs!Tick, Cs!TickWhile, Contract!Expire
<1>11. ASSUME Cs!Environment PROVE Contract!Answer \/ UNCHANGED Contract!vars
  BY <1>11 DEF Cs!Environment, Cs!Network, Cs!NetworkAnswers, Cs!PeerTalks, Contract!Answer
<1>12. ASSUME Cs!Terminated PROVE UNCHANGED Contract!vars
  BY <1>12 DEF Cs!Terminated, Cs!vars
<1> QED
  BY <1>1, <1>2, <1>3, <1>4, <1>5, <1>6, <1>7, <1>8, <1>9, <1>10, <1>11, <1>12
  DEF Cs!Next, Cs!ScanPortAsync, Cs!ReadBannerAsync, Contract!Next

(* Each probe implements the contract, whatever the network, the signals   *)
(* and the failures of calls do.                                           *)
THEOREM ImplementsProbeContract == FairSpec => ImplementsContract
<1>1. UNCHANGED probesVars => UNCHANGED Contract!vars
  BY DEF probesVars, vars, options, local, clock, handles, result, socketVars, wire, Contract!vars
<1>2. CInv => program = "c"
  BY DEF CInv
<1>3. CppInv => program = "cpp"
  BY DEF CppInv
<1>4. RustInv => program = "rust"
  BY DEF RustInv
<1>5. CsInv => program = "cs"
  BY DEF CsInv
<1>6. IInv /\ [Next]_probesVars => [Contract!Next]_Contract!vars
  BY <1>1, <1>2, <1>3, <1>4, <1>5, CRefines, CppRefines, RustRefines, CsRefines
  DEF Next, CNext, CppNext, RustNext, CsNext, IInv
<1> QED
  BY <1>6, InitRefines, InvHolds, PTL DEF FairSpec, Contract!Spec, ImplementsContract
=============================================================================
