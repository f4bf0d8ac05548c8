------------------------------- MODULE Probes ------------------------------
(***************************************************************************)
(* The probe of one port, by any of the four programs, on either system,   *)
(* before the same network.  The program is chosen at the start.           *)
(***************************************************************************)
EXTENDS ProbeState

VARIABLE program  \* which program probes

probesVars == <<program, vars>>

C == INSTANCE CProbe
Cpp == INSTANCE CppProbe
Rust == INSTANCE RustProbe
Cs == INSTANCE CsProbe

Init ==
    \/ program = "c" /\ C!Init
    \/ program = "cpp" /\ Cpp!Init
    \/ program = "rust" /\ Rust!Init
    \/ program = "cs" /\ Cs!Init

CNext == program = "c" /\ C!Next /\ UNCHANGED program
CppNext == program = "cpp" /\ Cpp!Next /\ UNCHANGED program
RustNext == program = "rust" /\ Rust!Next /\ UNCHANGED program
CsNext == program = "cs" /\ Cs!Next /\ UNCHANGED program

Next == CNext \/ CppNext \/ RustNext \/ CsNext

Runs ==
    /\ \/ program = "c" /\ C!scan_port
       \/ program = "cpp" /\ Cpp!scanPort
       \/ program = "rust" /\ Rust!blocking_scan
       \/ program = "cs" /\ Cs!ScanPortAsync
    /\ UNCHANGED program

TimePasses ==
    /\ \/ program = "c" /\ C!Tick
       \/ program = "cpp" /\ Cpp!Tick
       \/ program = "rust" /\ Rust!Tick
       \/ program = "cs" /\ Cs!Tick
    /\ UNCHANGED program

(* The thread is scheduled and time passes.  Nothing is asked of the       *)
(* network, poll need not ever fail, and signals stop arriving.            *)
FairSpec == Init /\ [][Next]_probesVars /\ WF_probesVars(Runs) /\ WF_probesVars(TimePasses)

-----------------------------------------------------------------------------
(* Properties.                                                             *)

(* Every variable keeps its type.                                          *)
TypeOK == program \in {"c", "cpp", "rust", "cs"} /\ ProbeTypeOK

(* No path through a probe leaks a descriptor, closes one twice, or uses   *)
(* it after its number may belong to the probe of another thread: by hand  *)
(* in C, by a UniqueSocket that is moved in C++, by two owners of the same *)
(* connection in Rust, by using in C#.                                     *)
DescriptorIsOwned ==
    CASE program = "c" -> C!OwnsDescriptor
      [] program = "cpp" -> Cpp!OwnsDescriptor
      [] program = "rust" -> Rust!OwnsDescriptor
      [] program = "cs" -> Cs!OwnsDescriptor

Reading ==
    CASE program = "c" -> C!Reading
      [] program = "cpp" -> Cpp!Reading
      [] program = "rust" -> Rust!Reading
      [] program = "cs" -> Cs!Reading

(* A request is sent to, and a banner read from, an established connection *)
(* whose descriptor is open, after the verdict and only when asked for.    *)
OnlyOpenPortsAreRead ==
    Reading => wanted /\ state = "open" /\ answer = "accepted" /\ fd = "open" /\ error = "0"

(* The time reported for a port is that of its connect alone.  No probe    *)
(* exceeds its two waits, except that in C and C++, and not on Windows,    *)
(* each signal that interrupts a wait starts it over.                      *)
TimeIsBounded ==
    LET late == IF program \in {"c", "cpp"} /\ ~windows THEN signals ELSE 0
    IN  /\ ms <= TimeoutTicks * (1 + late)
        /\ elapsed <= TimeoutTicks * (1 + late) + BannerTicks

Contract == INSTANCE ProbeContract WITH
    managed <- program = "cs",
    socket <- fd,
    expired <- elapsed >= TimeoutTicks,
    broken <- error \in SystemError \cup {"ECONNRESET"},
    done <- pc \in {"returned", "threw"}

(* Each probe implements the contract: its verdict is the one the          *)
(* network's answer justifies, however the answer races the timeout.       *)
ImplementsContract == Contract!Spec

(* A probe always returns, even from a target that never answers and a     *)
(* peer that never sends.                                                  *)
AlwaysReturns == Contract!Returns
=============================================================================
