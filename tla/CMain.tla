------------------------------- MODULE CMain -------------------------------
(***************************************************************************)
(* The C program from its arguments to its exit code: args.c, ports.c,     *)
(* net_addr.c and main.c.  The scan itself is one step here; CPool is its  *)
(* detail.                                                                 *)
(***************************************************************************)
EXTENDS CReport

VARIABLES
    argv,   \* the arguments after the program's name
    dns,    \* the addresses the resolver gives for the target
    scarce, \* whether memory may run out, or Winsock not start
    found,  \* what the probes find; see Finding
    proc    \* the process: its phase and what it has worked out so far

-----------------------------------------------------------------------------
(* args.c.                                                                 *)

PORT_MAX == 65535
MAX_TIMEOUT_MS == 60000
MAX_CONCURRENCY == 10000

args_defaults ==
    [target |-> "", ports_spec |-> "1-1024", timeout_ms |-> 800, concurrency |-> 500,
     banner |-> FALSE, format |-> "table", confirmed |-> FALSE]

Fail(p) == [p EXCEPT !.status = "error"]

parse_ulong(text) == Number(text).form = "digits"

apply_number(p, value) ==
    LET n == Number(value).value
        q == [p EXCEPT !.flag = ""]
    IN  CASE p.flag = "--timeout" /\ parse_ulong(value) /\ n \in 50 .. MAX_TIMEOUT_MS -> [q EXCEPT !.options.timeout_ms = n]
          [] p.flag = "--concurrency" /\ parse_ulong(value) /\ n \in 1 .. MAX_CONCURRENCY -> [q EXCEPT !.options.concurrency = n]
          [] OTHER -> Fail(p)

apply_value(p, value) ==
    CASE p.flag = "--ports" ->
            IF IsLong(value) THEN Fail(p) ELSE [p EXCEPT !.options.ports_spec = value, !.flag = ""]
      [] p.flag = "--format" ->
            IF value \in {"table", "json"} THEN [p EXCEPT !.options.format = value, !.flag = ""] ELSE Fail(p)
      [] OTHER -> apply_number(p, value)

take_positional(p, arg) ==
    IF p.options.target # "" \/ IsLong(arg) THEN Fail(p) ELSE [p EXCEPT !.options.target = arg]

(* One turn of the loop.  A flag that takes a value takes the next         *)
(* argument whatever it is; that turn has flag set.                        *)
TakeArgument(p, arg) ==
    CASE p.status # "go" -> p
      [] p.status = "go" /\ p.flag # "" -> apply_value(p, arg)
      [] p.status = "go" /\ p.flag = "" ->
            IF arg \in {"--help", "-h"} THEN [p EXCEPT !.status = "help"]
            ELSE IF arg = "--banner" THEN [p EXCEPT !.options.banner = TRUE]
            ELSE IF arg = "--yes-i-own-this" THEN [p EXCEPT !.options.confirmed = TRUE]
            ELSE IF IsFlag(arg) THEN [p EXCEPT !.flag = arg]
            ELSE IF StartsWithDashes(arg) THEN Fail(p)
            ELSE take_positional(p, arg)

(* A flag whose value is missing, or no target at all, is an error too.    *)
args_parse(args) ==
    LET p == FoldLeft(TakeArgument, [status |-> "go", flag |-> "", options |-> args_defaults], args)
    IN  IF p.status = "go" /\ (p.flag # "" \/ p.options.target = "") THEN Fail(p) ELSE p

-----------------------------------------------------------------------------
(* ports.c.                                                                *)

(* The digits are copied into a buffer of 16 characters first.             *)
parse_port_number(text) ==
    LET n == Number(text) IN n.form = "digits" /\ n.width < 16 /\ n.value \in 1 .. PORT_MAX

(* Slip: a range that ends before it starts is accepted.                   *)
mark_tokenAnyOrder(token) == \A k \in DOMAIN token : parse_port_number(token[k])

mark_token(token) ==
    /\ \A k \in DOMAIN token : parse_port_number(token[k])
    /\ Number(Head(token)).value <= Number(Last(token)).value

ports_parse(spec) == spec # "" /\ \A k \in DOMAIN Tokens(spec) : mark_token(Tokens(spec)[k])

(* The flags that are set, which become the items in increasing order.     *)
flags(spec) ==
    UNION {Number(Head(token)).value .. Number(Last(token)).value : token \in Range(Tokens(spec))}

-----------------------------------------------------------------------------
(* net_addr.c.                                                             *)

is_local_v4(b) ==
    \/ b[0] \in {127, 10, 0}
    \/ b[0] = 172 /\ b[1] \in 16 .. 31
    \/ b[0] = 192 /\ b[1] = 168
    \/ b[0] = 169 /\ b[1] = 254

is_all_zero(b, length) == \A i \in 0 .. length - 1 : b[i] = 0

(* Slip: every IPv4-mapped address is local.                               *)
is_local_v6AllMapped(b) ==
    \/ is_all_zero(b, 15) /\ b[15] \in {0, 1}
    \/ b[0] = 254 /\ b[1] \div 64 = 2
    \/ b[0] \div 2 = 126
    \/ is_all_zero(b, 10) /\ b[10] = 255 /\ b[11] = 255

(* b[1] & 0xc0 is 0x80 when b[1] \div 64 = 2, b[0] & 0xfe is 0xfc when     *)
(* b[0] \div 2 = 126.                                                      *)
is_local_v6(b) ==
    \/ is_all_zero(b, 15) /\ b[15] \in {0, 1}
    \/ b[0] = 254 /\ b[1] \div 64 = 2
    \/ b[0] \div 2 = 126
    \/ is_all_zero(b, 10) /\ b[10] = 255 /\ b[11] = 255 /\ is_local_v4([i \in 0 .. 3 |-> b[i + 12]])

net_is_local(a) == IF a.family = 4 THEN is_local_v4(a.bytes) ELSE is_local_v6(a.bytes)

prefer_ipv4(list) ==
    LET v4 == {i \in DOMAIN list : list[i].family = 4} IN IF v4 # {} THEN list[Min(v4)] ELSE Head(list)

-----------------------------------------------------------------------------
(* main.c.                                                                 *)

Started == [phase |-> "main", options |-> args_defaults, ports |-> {}, address |-> V4(0, 0), scanned |-> FALSE,
            output |-> <<>>, code |-> 0]

Exit(n) == [proc EXCEPT !.phase = "exit", !.code = n]

results ==
    [port \in proc.ports |->
        LET f == Finding(found, port)
        IN  [state |-> f.state, banner |-> IF f.state = "open" /\ proc.options.banner THEN scan_sanitize_banner(f.bytes) ELSE <<>>]]

report ==
    IF proc.options.format = "json" THEN report_json(proc.options.target, results) ELSE report_table(proc.options.target, results)

(* On Windows net_init fails if Winsock does not start: the exit code is  *)
(* that of an unresolved target, before the target is looked at.           *)
main ==
    /\ proc.phase = "main"
    /\ LET p == args_parse(argv)
       IN  \/ p.status = "help" /\ proc' = Exit(0)
           \/ p.status = "error" /\ proc' = Exit(1)
           \/ p.status = "go" /\ proc' = [proc EXCEPT !.phase = "ports", !.options = p.options]
           \/ p.status = "go" /\ scarce /\ proc' = Exit(2)

ParsePorts ==
    /\ proc.phase = "ports"
    /\ \/ /\ ports_parse(proc.options.ports_spec)
          /\ proc' = [proc EXCEPT !.phase = "resolve", !.ports = flags(proc.options.ports_spec)]
       \/ ~ports_parse(proc.options.ports_spec) /\ proc' = Exit(1)
       \/ scarce /\ proc' = Exit(1)

net_resolve ==
    /\ proc.phase = "resolve"
    /\ proc' = IF dns = <<>> THEN Exit(2)
               ELSE [proc EXCEPT !.phase = "guard", !.address = prefer_ipv4(dns)]

is_scan_allowed ==
    /\ proc.phase = "guard"
    /\ proc' = IF net_is_local(proc.address) \/ proc.options.confirmed
               THEN [proc EXCEPT !.phase = "scan"] ELSE Exit(1)

(* Slip: no memory for the slots, and the exit code is still 0.            *)
run_scanHidesFailure ==
    /\ proc.phase = "scan"
    /\ \/ proc' = [Exit(0) EXCEPT !.scanned = TRUE, !.output = report]
       \/ scarce /\ proc' = Exit(0)

(* The slots may not be allocated: then no port is probed.                 *)
run_scan ==
    /\ proc.phase = "scan"
    /\ \/ proc' = [Exit(0) EXCEPT !.scanned = TRUE, !.output = report]
       \/ scarce /\ proc' = Exit(1)

Step ==
    /\ main \/ ParsePorts \/ net_resolve \/ is_scan_allowed \/ run_scan
    /\ UNCHANGED <<argv, dns, scarce, found>>
=============================================================================
