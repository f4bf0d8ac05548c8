------------------------------ MODULE CppMain ------------------------------
(***************************************************************************)
(* The C++ program from its arguments to its exit code: Args.cpp,          *)
(* Ports.cpp, LinuxSocket.cpp and main.cpp.  The scan itself is one step   *)
(* here; CppPool is its detail.                                            *)
(***************************************************************************)
EXTENDS CppReport

VARIABLES
    argv,   \* the arguments after the program's name
    dns,    \* the addresses the resolver gives for the target
    scarce, \* whether threads may run out, or Winsock not start
    found,  \* what the probes find; see Finding
    proc    \* the process: its phase and what it has worked out so far

-----------------------------------------------------------------------------
(* Args.cpp.                                                               *)

kPortMax == 65535
kMaxTimeoutMs == 60000
kMaxConcurrency == 10000

DefaultOptions ==
    [target |-> "", ports_spec |-> "1-1024", timeout_ms |-> 800, concurrency |-> 500,
     banner |-> FALSE, format |-> "table", confirmed |-> FALSE]

Unexpected(p) == [p EXCEPT !.status = "error"]

(* from_chars takes digits only, all of them.                              *)
toNumber(text) == Number(text).form = "digits"

(* The value of a flag: the argument after it, whatever it is.             *)
TakeValue(p, value) ==
    LET n == Number(value).value
        q == [p EXCEPT !.flag = ""]
    IN  CASE p.flag = "--ports" -> [q EXCEPT !.options.ports_spec = value]
          [] p.flag = "--format" /\ value \in {"table", "json"} -> [q EXCEPT !.options.format = value]
          [] p.flag = "--timeout" /\ toNumber(value) /\ n \in 50 .. kMaxTimeoutMs -> [q EXCEPT !.options.timeout_ms = n]
          [] p.flag = "--concurrency" /\ toNumber(value) /\ n \in 1 .. kMaxConcurrency -> [q EXCEPT !.options.concurrency = n]
          [] OTHER -> Unexpected(p)

TakeArgument(p, arg) ==
    CASE p.status # "go" -> p
      [] p.status = "go" /\ p.flag # "" -> TakeValue(p, arg)
      [] p.status = "go" /\ p.flag = "" ->
            IF arg \in {"--help", "-h"} THEN [p EXCEPT !.status = "help"]
            ELSE IF arg = "--banner" THEN [p EXCEPT !.options.banner = TRUE]
            ELSE IF arg = "--yes-i-own-this" THEN [p EXCEPT !.options.confirmed = TRUE]
            ELSE IF IsFlag(arg) THEN [p EXCEPT !.flag = arg]
            ELSE IF StartsWithDashes(arg) \/ p.options.target # "" THEN Unexpected(p)
            ELSE [p EXCEPT !.options.target = arg]

parseArgs(args) ==
    LET p == FoldLeft(TakeArgument, [status |-> "go", flag |-> "", options |-> DefaultOptions], args)
    IN  IF p.status = "go" /\ (p.flag # "" \/ p.options.target = "") THEN Unexpected(p) ELSE p

-----------------------------------------------------------------------------
(* Ports.cpp.                                                              *)

parseNumber(text) == Number(text).form = "digits" /\ Number(text).value \in 1 .. kPortMax

markToken(token) ==
    /\ \A k \in DOMAIN token : parseNumber(token[k])
    /\ Number(Head(token)).value <= Number(Last(token)).value

parsePorts(spec) == spec # "" /\ \A k \in DOMAIN Tokens(spec) : markToken(Tokens(spec)[k])

(* The set, which becomes the vector in increasing order.                  *)
marked(spec) ==
    UNION {Number(Head(token)).value .. Number(Last(token)).value : token \in Range(Tokens(spec))}

-----------------------------------------------------------------------------
(* LinuxSocket.cpp.                                                        *)

isLocalV4(b) ==
    \/ b[0] \in {127, 10, 0}
    \/ b[0] = 172 /\ b[1] \in 16 .. 31
    \/ b[0] = 192 /\ b[1] = 168
    \/ b[0] = 169 /\ b[1] = 254

isAllZero(b, length) == \A i \in 0 .. length - 1 : b[i] = 0

(* b[1] & 0xc0 is 0x80 when b[1] \div 64 = 2, b[0] & 0xfe is 0xfc when     *)
(* b[0] \div 2 = 126.                                                      *)
isLocalV6(b) ==
    \/ isAllZero(b, 15) /\ b[15] \in {0, 1}
    \/ b[0] = 254 /\ b[1] \div 64 = 2
    \/ b[0] \div 2 = 126
    \/ isAllZero(b, 10) /\ b[10] = 255 /\ b[11] = 255 /\ isLocalV4([i \in 0 .. 3 |-> b[i + 12]])

isLocalAddress(a) == IF a.family = 4 THEN isLocalV4(a.bytes) ELSE isLocalV6(a.bytes)

(* The first IPv4 address of the list, or else the first address.          *)
chosen(list) ==
    LET v4 == {i \in DOMAIN list : list[i].family = 4} IN IF v4 # {} THEN list[Min(v4)] ELSE Head(list)

-----------------------------------------------------------------------------
(* main.cpp.                                                               *)

Started == [phase |-> "main", options |-> DefaultOptions, ports |-> {}, address |-> V4(0, 0), scanned |-> FALSE,
            output |-> <<>>, code |-> 0]

Exit(n) == [proc EXCEPT !.phase = "exit", !.code = n]

results ==
    [port \in proc.ports |->
        LET f == Finding(found, port)
        IN  [state |-> f.state, banner |-> IF f.state = "open" /\ proc.options.banner THEN sanitizeBanner(f.bytes) ELSE <<>>]]

report ==
    IF proc.options.format = "json" THEN writeJson(proc.options.target, results) ELSE writeTable(proc.options.target, results)

(* On Windows networkInit fails if Winsock does not start: the exit code   *)
(* is that of an unresolved target, before the target is looked at.        *)
main ==
    /\ proc.phase = "main"
    /\ LET p == parseArgs(argv)
       IN  \/ p.status = "help" /\ proc' = Exit(0)
           \/ p.status = "error" /\ proc' = Exit(1)
           \/ p.status = "go" /\ proc' = [proc EXCEPT !.phase = "ports", !.options = p.options]
           \/ p.status = "go" /\ scarce /\ proc' = Exit(2)

ParsePorts ==
    /\ proc.phase = "ports"
    /\ proc' = IF parsePorts(proc.options.ports_spec)
               THEN [proc EXCEPT !.phase = "resolve", !.ports = marked(proc.options.ports_spec)]
               ELSE Exit(1)

resolve ==
    /\ proc.phase = "resolve"
    /\ proc' = IF dns = <<>> THEN Exit(2)
               ELSE [proc EXCEPT !.phase = "guard", !.address = chosen(dns)]

scanAllowed ==
    /\ proc.phase = "guard"
    /\ proc' = IF isLocalAddress(proc.address) \/ proc.options.confirmed
               THEN [proc EXCEPT !.phase = "scan"] ELSE Exit(1)

(* A thread that cannot be created ends the process while others probe.    *)
runScan ==
    /\ proc.phase = "scan"
    /\ \/ proc' = [Exit(0) EXCEPT !.scanned = TRUE, !.output = report]
       \/ scarce /\ proc' = [proc EXCEPT !.phase = "terminated", !.scanned = TRUE]

Step ==
    /\ main \/ ParsePorts \/ resolve \/ scanAllowed \/ runScan
    /\ UNCHANGED <<argv, dns, scarce, found>>
=============================================================================
