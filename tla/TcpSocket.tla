----------------------------- MODULE TcpSocket -----------------------------
(***************************************************************************)
(* The socket of one probe and the network behind it, as the programs see  *)
(* them through connect, poll or select, getsockopt, send, recv and close. *)
(* They are the system's: nothing here is code of this repository.         *)
(*                                                                         *)
(* A connection attempt that was started is answered at any moment, or     *)
(* never; a peer that accepted may send something, end the connection,     *)
(* reset it, or stay silent.                                               *)
(***************************************************************************)

VARIABLES
    windows, \* whether the system is Windows
    fd,      \* the descriptor: "none", "open" or "closed"
    syn,     \* whether a connection attempt is under way or over
    answer,  \* what it met: "none" yet, "accepted", or an error
    inbox    \* what recv would find: "empty", "bytes", "end" or "reset"

wire == <<syn, answer, inbox>>
socketVars == <<fd, wire>>

(* The errors a connect can meet: a reset; a target that a router, a       *)
(* firewall or silence keeps out of reach; a want of local resources.      *)
Refusal == {"ECONNREFUSED"}
Unreachable == {"ETIMEDOUT", "EHOSTUNREACH", "ENETUNREACH", "EHOSTDOWN", "EACCES", "EPERM"}
OtherError == {"EADDRNOTAVAIL"}
ConnectError == Refusal \cup Unreachable \cup OtherError

(* Windows has no EPERM.                                                   *)
PossibleError == IF windows THEN ConnectError \ {"EPERM"} ELSE ConnectError

SocketInit ==
    /\ windows \in BOOLEAN
    /\ fd = "none"
    /\ syn = FALSE
    /\ answer = "none"
    /\ inbox = "empty"

SocketTypeOK ==
    /\ windows \in BOOLEAN
    /\ fd \in {"none", "open", "closed"}
    /\ syn \in BOOLEAN
    /\ answer \in {"none", "accepted"} \cup ConnectError
    /\ inbox \in {"empty", "bytes", "end", "reset"}

NetworkAnswers ==
    /\ fd = "open" /\ syn /\ answer = "none"
    /\ answer' \in {"accepted"} \cup PossibleError
    /\ UNCHANGED <<fd, syn, inbox>>

PeerTalks ==
    /\ fd = "open" /\ answer = "accepted" /\ inbox = "empty"
    /\ inbox' \in {"bytes", "end", "reset"}
    /\ UNCHANGED <<fd, syn, answer>>

Network == NetworkAnswers \/ PeerTalks

(* poll reports a socket writable once its attempt is over, either way.    *)
(* select reports only an attempt that succeeded as writable; one that     *)
(* failed is in the set of exceptions.                                     *)
Writable == answer # "none"
Readable == inbox # "empty"
Exceptional == answer \in ConnectError

(* SO_ERROR: 0 for an attempt that succeeded and was not reset since.      *)
PendingError ==
    CASE answer = "accepted" /\ inbox = "reset" -> "ECONNRESET"
      [] answer = "accepted" -> "0"
      [] OTHER -> answer
=============================================================================
