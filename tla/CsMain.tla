------------------------------- MODULE CsMain -------------------------------
(***************************************************************************)
(* The C# program from its arguments to its exit code: Args.cs,            *)
(* PortRange.cs, LocalAddress.cs and Program.cs.  The scan itself is one   *)
(* step here; CsScan is its detail.                                        *)
(***************************************************************************)
EXTENDS CsReport

VARIABLES
    argv,   \* the arguments after the program's name
    dns,    \* the addresses the resolver gives for the target
    scarce, \* whether sockets may run out
    found,  \* what the probes find; see Finding
    proc    \* the process: its phase and what it has worked out so far

-----------------------------------------------------------------------------
(* Args.cs.                                                                *)

PortMax == 65535
MaxTimeoutMs == 60000
MaxConcurrency == 10000

NewOptions ==
    [target |-> "", ports_spec |-> "1-1024", timeout_ms |-> 800, concurrency |-> 500,
     banner |-> FALSE, format |-> "table", confirmed |-> FALSE]

Throw(p) == [p EXCEPT !.status = "error"]

(* NumberStyles.None: digits only, no sign.                                *)
ParseBoundedNumber(text, minimum, maximum) ==
    Number(text).form = "digits" /\ Number(text).value \in minimum .. maximum

(* Slip: --concurrency is stored where --timeout belongs.                  *)
ApplyValueMixedUp(p, value) ==
    LET n == Number(value).value
        q == [p EXCEPT !.flag = ""]
    IN  CASE p.flag = "--ports" -> [q EXCEPT !.options.ports_spec = value]
          [] p.flag = "--format" /\ value \in {"table", "json"} -> [q EXCEPT !.options.format = value]
          [] p.flag = "--timeout" /\ ParseBoundedNumber(value, 50, MaxTimeoutMs) -> [q EXCEPT !.options.timeout_ms = n]
          [] p.flag = "--concurrency" /\ ParseBoundedNumber(value, 1, MaxConcurrency) -> [q EXCEPT !.options.timeout_ms = n]
          [] OTHER -> Throw(p)

ApplyValue(p, value) ==
    LET n == Number(value).value
        q == [p EXCEPT !.flag = ""]
    IN  CASE p.flag = "--ports" -> [q EXCEPT !.options.ports_spec = value]
          [] p.flag = "--format" /\ value \in {"table", "json"} -> [q EXCEPT !.options.format = value]
          [] p.flag = "--timeout" /\ ParseBoundedNumber(value, 50, MaxTimeoutMs) -> [q EXCEPT !.options.timeout_ms = n]
          [] p.flag = "--concurrency" /\ ParseBoundedNumber(value, 1, MaxConcurrency) -> [q EXCEPT !.options.concurrency = n]
          [] OTHER -> Throw(p)

TakeArgument(p, arg) ==
    CASE p.status # "go" -> p
      [] p.status = "go" /\ p.flag # "" -> ApplyValue(p, arg)
      [] p.status = "go" /\ p.flag = "" ->
            IF arg \in {"--help", "-h"} THEN [p EXCEPT !.status = "help"]
            ELSE IF arg = "--banner" THEN [p EXCEPT !.options.banner = TRUE]
            ELSE IF arg = "--yes-i-own-this" THEN [p EXCEPT !.options.confirmed = TRUE]
            ELSE IF IsFlag(arg) THEN [p EXCEPT !.flag = arg]
            ELSE IF StartsWithDashes(arg) \/ p.options.target # "" THEN Throw(p)
            ELSE [p EXCEPT !.options.target = arg]

Parse(args) ==
    LET p == FoldLeft(TakeArgument, [status |-> "go", flag |-> "", options |-> NewOptions], args)
    IN  IF p.status = "go" /\ (p.flag # "" \/ p.options.target = "") THEN Throw(p) ELSE p

-----------------------------------------------------------------------------
(* PortRange.cs.                                                           *)

ParseNumber(text) == Number(text).form = "digits" /\ Number(text).value \in 1 .. PortMax

MarkToken(token) ==
    /\ \A k \in DOMAIN token : ParseNumber(token[k])
    /\ Number(Head(token)).value <= Number(Last(token)).value

ParseRange(spec) == spec # "" /\ \A k \in DOMAIN Tokens(spec) : MarkToken(Tokens(spec)[k])

marked(spec) ==
    UNION {Number(Head(token)).value .. Number(Last(token)).value : token \in Range(Tokens(spec))}

-----------------------------------------------------------------------------
(* LocalAddress.cs, and ResolveAsync of Program.cs.                        *)

IsLocalV4(b) ==
    \/ b[0] \in {127, 10, 0}
    \/ b[0] = 172 /\ b[1] \in 16 .. 31
    \/ b[0] = 192 /\ b[1] = 168
    \/ b[0] = 169 /\ b[1] = 254

IsLocalV6(b) ==
    \/ (\A i \in 0 .. 14 : b[i] = 0) /\ b[15] \in {0, 1}
    \/ b[0] = 254 /\ b[1] \div 64 = 2
    \/ b[0] \div 2 = 126

IsIPv4MappedToIPv6(a) ==
    a.family = 6 /\ (\A i \in 0 .. 9 : a.bytes[i] = 0) /\ a.bytes[10] = 255 /\ a.bytes[11] = 255

IsLocal(a) ==
    IF IsIPv4MappedToIPv6(a) THEN IsLocalV4([i \in 0 .. 3 |-> a.bytes[i + 12]])
    ELSE IF a.family = 4 THEN IsLocalV4(a.bytes)
    ELSE IsLocalV6(a.bytes)

(* The first IPv4 address of the list, or else the first address.          *)
chosen(list) ==
    LET v4 == {i \in DOMAIN list : list[i].family = 4} IN IF v4 # {} THEN list[Min(v4)] ELSE Head(list)

-----------------------------------------------------------------------------
(* Program.cs.                                                             *)

Started == [phase |-> "main", options |-> NewOptions, ports |-> {}, address |-> V4(0, 0), scanned |-> FALSE,
            output |-> <<>>, code |-> 0]

Exit(n) == [proc EXCEPT !.phase = "exit", !.code = n]

results ==
    [port \in proc.ports |->
        LET f == Finding(found, port)
        IN  [state |-> f.state, banner |-> IF f.state = "open" /\ proc.options.banner THEN SanitizeBanner(f.bytes) ELSE <<>>]]

report ==
    IF proc.options.format = "json" THEN WriteJson(proc.options.target, results) ELSE WriteTable(proc.options.target, results)

Main ==
    /\ proc.phase = "main"
    /\ LET p == Parse(argv)
       IN  proc' = CASE p.status = "help" -> Exit(0)
                     [] p.status = "error" -> Exit(1)
                     [] p.status = "go" -> [proc EXCEPT !.phase = "ports", !.options = p.options]

ParsePorts ==
    /\ proc.phase = "ports"
    /\ proc' = IF ParseRange(proc.options.ports_spec)
               THEN [proc EXCEPT !.phase = "resolve", !.ports = marked(proc.options.ports_spec)]
               ELSE Exit(1)

ResolveAsync ==
    /\ proc.phase = "resolve"
    /\ proc' = IF dns = <<>> THEN Exit(2)
               ELSE [proc EXCEPT !.phase = "guard", !.address = chosen(dns)]

CheckPermission ==
    /\ proc.phase = "guard"
    /\ proc' = IF IsLocal(proc.address) \/ proc.options.confirmed
               THEN [proc EXCEPT !.phase = "scan"] ELSE Exit(1)

(* A socket that cannot be opened ends the process by an exception.        *)
ScanAndReport ==
    /\ proc.phase = "scan"
    /\ \/ proc' = [Exit(0) EXCEPT !.scanned = TRUE, !.output = report]
       \/ scarce /\ proc' = [proc EXCEPT !.phase = "crashed", !.scanned = TRUE]

Step ==
    /\ Main \/ ParsePorts \/ ResolveAsync \/ CheckPermission \/ ScanAndReport
    /\ UNCHANGED <<argv, dns, scarce, found>>
=============================================================================
