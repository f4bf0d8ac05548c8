----------------------------- MODULE RustMain ------------------------------
(***************************************************************************)
(* The Rust program from its arguments to its exit code: cli.rs, ports.rs, *)
(* local.rs and main.rs.  The scan itself is one step here; RustScan is    *)
(* its detail.                                                             *)
(***************************************************************************)
EXTENDS RustReport

VARIABLES
    argv,   \* the arguments after the program's name
    dns,    \* the addresses the resolver gives for the target
    scarce, \* whether threads may run out
    found,  \* what the probes find; see Finding
    proc    \* the process: its phase and what it has worked out so far

-----------------------------------------------------------------------------
(* cli.rs.                                                                 *)

PORT_MAX == 65535
MAX_TIMEOUT_MS == 60000
MAX_CONCURRENCY == 10000

Default ==
    [target |-> "", ports_spec |-> "1-1024", timeout_ms |-> 800, concurrency |-> 500,
     banner |-> FALSE, format |-> "table", confirmed |-> FALSE]

Err(p) == [p EXCEPT !.status = "error"]

(* str::parse of an unsigned type: digits, with or without a plus sign.    *)
parse_unsigned(text) == Number(text).form \in {"digits", "plus"}

TakeValue(p, value) ==
    LET n == Number(value).value
        q == [p EXCEPT !.flag = ""]
    IN  CASE p.flag = "--ports" -> [q EXCEPT !.options.ports_spec = value]
          [] p.flag = "--format" /\ value \in {"table", "json"} -> [q EXCEPT !.options.format = value]
          [] p.flag = "--timeout" /\ parse_unsigned(value) /\ n \in 50 .. MAX_TIMEOUT_MS -> [q EXCEPT !.options.timeout_ms = n]
          [] p.flag = "--concurrency" /\ parse_unsigned(value) /\ n \in 1 .. MAX_CONCURRENCY -> [q EXCEPT !.options.concurrency = n]
          [] OTHER -> Err(p)

TakeArgument(p, arg) ==
    CASE p.status # "go" -> p
      [] p.status = "go" /\ p.flag # "" -> TakeValue(p, arg)
      [] p.status = "go" /\ p.flag = "" ->
            IF arg \in {"--help", "-h"} THEN [p EXCEPT !.status = "help"]
            ELSE IF arg = "--banner" THEN [p EXCEPT !.options.banner = TRUE]
            ELSE IF arg = "--yes-i-own-this" THEN [p EXCEPT !.options.confirmed = TRUE]
            ELSE IF IsFlag(arg) THEN [p EXCEPT !.flag = arg]
            ELSE IF StartsWithDashes(arg) \/ p.options.target # "" THEN Err(p)
            ELSE [p EXCEPT !.options.target = arg]

parse_args(args) ==
    LET p == FoldLeft(TakeArgument, [status |-> "go", flag |-> "", options |-> Default], args)
    IN  IF p.status = "go" /\ (p.flag # "" \/ p.options.target = "") THEN Err(p) ELSE p

-----------------------------------------------------------------------------
(* ports.rs.                                                               *)

parse_number(text) == parse_unsigned(text) /\ Number(text).value \in 1 .. PORT_MAX

mark_token(token) ==
    /\ \A k \in DOMAIN token : parse_number(token[k])
    /\ Number(Head(token)).value <= Number(Last(token)).value

parse_ports(spec) == spec # "" /\ \A k \in DOMAIN Tokens(spec) : mark_token(Tokens(spec)[k])

marked(spec) ==
    UNION {Number(Head(token)).value .. Number(Last(token)).value : token \in Range(Tokens(spec))}

-----------------------------------------------------------------------------
(* local.rs, and resolve of main.rs.                                       *)

is_local_v4(b) ==
    \/ b[0] \in {127, 10, 0}
    \/ b[0] = 172 /\ b[1] \in 16 .. 31
    \/ b[0] = 192 /\ b[1] = 168
    \/ b[0] = 169 /\ b[1] = 254

(* Slip: the mask 0xff instead of 0xfe, which leaves fd00::/8 out.         *)
is_local_v6WrongMask(b) ==
    \/ (\A i \in 0 .. 14 : b[i] = 0) /\ b[15] \in {0, 1}
    \/ b[0] = 254 /\ b[1] \div 64 = 2
    \/ b[0] = 252

is_local_v6(b) ==
    \/ (\A i \in 0 .. 14 : b[i] = 0) /\ b[15] \in {0, 1}
    \/ b[0] = 254 /\ b[1] \div 64 = 2
    \/ b[0] \div 2 = 126

to_ipv4_mapped(b) == (\A i \in 0 .. 9 : b[i] = 0) /\ b[10] = 255 /\ b[11] = 255

is_local(a) ==
    IF a.family = 4 THEN is_local_v4(a.bytes)
    ELSE IF to_ipv4_mapped(a.bytes) THEN is_local_v4([i \in 0 .. 3 |-> a.bytes[i + 12]])
    ELSE is_local_v6(a.bytes)

-----------------------------------------------------------------------------
(* main.rs.                                                                *)

Started == [phase |-> "main", options |-> Default, ports |-> {}, address |-> V4(0, 0), scanned |-> FALSE,
            output |-> <<>>, code |-> 0]

Exit(n) == [proc EXCEPT !.phase = "exit", !.code = n]

results ==
    [port \in proc.ports |->
        LET f == Finding(found, port)
        IN  [state |-> f.state, banner |-> IF f.state = "open" /\ proc.options.banner THEN sanitize_banner(f.bytes) ELSE <<>>]]

report ==
    IF proc.options.format = "json" THEN write_json(proc.options.target, results) ELSE write_table(proc.options.target, results)

main ==
    /\ proc.phase = "main"
    /\ LET p == parse_args(argv)
       IN  proc' = CASE p.status = "help" -> Exit(0)
                     [] p.status = "error" -> Exit(1)
                     [] p.status = "go" -> [proc EXCEPT !.phase = "runtime", !.options = p.options]

(* The runtime is built before the port list is looked at; a failure is a  *)
(* panic, with exit code 101.                                              *)
BuildRuntime ==
    /\ proc.phase = "runtime"
    /\ \/ proc' = [proc EXCEPT !.phase = "ports"]
       \/ scarce /\ proc' = Exit(101)

ParsePorts ==
    /\ proc.phase = "ports"
    /\ proc' = IF parse_ports(proc.options.ports_spec)
               THEN [proc EXCEPT !.phase = "resolve", !.ports = marked(proc.options.ports_spec)]
               ELSE Exit(1)

(* A literal address resolves to itself; of a list the first is taken.     *)
resolve ==
    /\ proc.phase = "resolve"
    /\ proc' = IF dns = <<>> THEN Exit(2)
               ELSE [proc EXCEPT !.phase = "guard", !.address = Head(dns)]

CheckPermission ==
    /\ proc.phase = "guard"
    /\ proc' = IF is_local(proc.address) \/ proc.options.confirmed
               THEN [proc EXCEPT !.phase = "scan"] ELSE Exit(1)

(* A task that gets no blocking thread panics, and main with it, while     *)
(* other ports are probed.                                                 *)
ScanAndReport ==
    /\ proc.phase = "scan"
    /\ \/ proc' = [Exit(0) EXCEPT !.scanned = TRUE, !.output = report]
       \/ scarce /\ proc' = [Exit(101) EXCEPT !.scanned = TRUE]

Step ==
    /\ main \/ BuildRuntime \/ ParsePorts \/ resolve \/ CheckPermission \/ ScanAndReport
    /\ UNCHANGED <<argv, dns, scarce, found>>
=============================================================================
