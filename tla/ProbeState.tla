----------------------------- MODULE ProbeState ----------------------------
(***************************************************************************)
(* The state of the probe of one port, which means the same in the four    *)
(* programs, and the steps that are no program's: time and the network.    *)
(* Time is counted in ticks, and passes while the probe waits.             *)
(***************************************************************************)
EXTENDS Naturals, TcpSocket

CONSTANTS
    TimeoutTicks, \* --timeout: the wait for the connection
    BannerTicks,  \* BANNER_WAIT_MS: the longest wait for a banner
    MaxInterrupts \* bound: the signals that arrive during the probe

ASSUME ProbeAssumption ==
    /\ TimeoutTicks \in Nat \ {0}
    /\ BannerTicks \in Nat \ {0}
    /\ MaxInterrupts \in Nat

VARIABLES
    pc,       \* where the probe is
    http,     \* whether the port is one that is sent a request
    wanted,   \* --banner
    left,     \* the ticks left in the current wait
    elapsed,  \* the ticks spent since the probe began
    signals,  \* the signals that have interrupted it
    error,    \* the error the probe has met, "0" if none
    owners,   \* the variables of the program that own a descriptor
    closes,   \* how many descriptors it has closed
    state,    \* the verdict, "undecided" at first
    ms,       \* the time it reports, in ticks
    banner    \* whether the banner has text

options == <<windows, http, wanted>>
clock == <<left, elapsed, signals>>
handles == <<owners, closes>>
result == <<state, ms, banner>>
local == <<clock, error, handles, result>>
vars == <<pc, options, local, socketVars>>

(* A failure of the system, not of the connection.                         *)
SystemError == {"EMFILE", "ENOBUFS", "-1"}

ProbeInit(entry) ==
    /\ SocketInit
    /\ pc = entry
    /\ http \in BOOLEAN
    /\ wanted \in BOOLEAN
    /\ left = 0 /\ elapsed = 0 /\ signals = 0
    /\ error = "0"
    /\ owners = {} /\ closes = 0
    /\ state = "undecided" /\ ms = 0 /\ banner = FALSE

ProbeTypeOK ==
    /\ SocketTypeOK
    /\ http \in BOOLEAN /\ wanted \in BOOLEAN
    /\ left \in Nat /\ elapsed \in Nat /\ signals \in 0..MaxInterrupts /\ closes \in Nat /\ ms \in Nat
    /\ error \in {"0", "ECONNRESET", "TimedOut"} \cup SystemError \cup ConnectError
    /\ owners \subseteq {"raw", "socket", "out", "stream"}
    /\ state \in {"undecided", "open", "closed", "filtered", "error"}
    /\ banner \in BOOLEAN

-----------------------------------------------------------------------------

(* min(--timeout, BANNER_WAIT_MS).                                         *)
BannerWait == IF TimeoutTicks < BannerTicks THEN TimeoutTicks ELSE BannerTicks

(* A step that only moves on.                                              *)
Goto(places) == pc' \in places /\ UNCHANGED <<options, local, socketVars>>

TickWhile(waiting) ==
    /\ waiting /\ left > 0
    /\ left' = left - 1
    /\ elapsed' = elapsed + 1
    /\ UNCHANGED <<pc, options, signals, error, handles, result, socketVars>>

Environment == Network /\ UNCHANGED <<pc, options, local>>

Terminated == pc \in {"returned", "threw"} /\ UNCHANGED vars
=============================================================================
