--------------------------- MODULE FourPrograms ----------------------------
(***************************************************************************)
(* The four programs on the same command line and the same resolver, one   *)
(* after another: they share nothing, so that the order does not matter.   *)
(***************************************************************************)
EXTENDS CliContract, ReportContract

CONSTANT
    Inputs        \* the command lines, resolver's answers, scarcities and findings to try

(* Arguments are texts, a resolver gives addresses of four or sixteen      *)
(* bytes, and a probe finds one of four states and some bytes.             *)
ASSUME InputsAssumption ==
    \A input \in Inputs :
        /\ input.argv \in Seq(STRING)
        /\ input.dns \in Seq(Address4 \union Address6)
        /\ \A port \in DOMAIN input.found :
                input.found[port] \in [state : {"open", "closed", "filtered", "error"}, bytes : Seq(STRING)]

(* Neither an argument nor a number is called like a piece that a reader   *)
(* looks for.                                                              *)
ASSUME NamesAssumption ==
    /\ \A input \in Inputs : \A i \in DOMAIN input.argv : input.argv[i] \notin Reserved
    /\ \A n \in 0 .. HighestPort : ToString(n) \notin Reserved

VARIABLES
    argv,         \* the arguments
    dns,          \* the addresses of the target, in the resolver's order
    scarce,       \* whether memory, threads, sockets or Winsock may be missing
    found,        \* what the probes find; see Finding
    c, cpp, rust, cs

vars == <<argv, dns, scarce, found, c, cpp, rust, cs>>

C == INSTANCE CMain WITH proc <- c
Cpp == INSTANCE CppMain WITH proc <- cpp
Rust == INSTANCE RustMain WITH proc <- rust
Cs == INSTANCE CsMain WITH proc <- cs

Init ==
    /\ \E input \in Inputs :
        argv = input.argv /\ dns = input.dns /\ scarce = input.scarce /\ found = input.found
    /\ c = C!Started
    /\ cpp = Cpp!Started
    /\ rust = Rust!Started
    /\ cs = Cs!Started

Ended(p) == p.phase \in {"exit", "terminated", "crashed"}

Programs == {c, cpp, rust, cs}

Terminated == (\A p \in Programs : Ended(p)) /\ UNCHANGED vars

Next ==
    \/ C!Step /\ UNCHANGED <<cpp, rust, cs>>
    \/ Ended(c) /\ Cpp!Step /\ UNCHANGED <<c, rust, cs>>
    \/ Ended(c) /\ Ended(cpp) /\ Rust!Step /\ UNCHANGED <<c, cpp, cs>>
    \/ Ended(c) /\ Ended(cpp) /\ Ended(rust) /\ Cs!Step /\ UNCHANGED <<c, cpp, rust>>
    \/ Terminated

Spec == Init /\ [][Next]_vars

-----------------------------------------------------------------------------

(* JSON with a target that is not ASCII: the Rust program encodes each of  *)
(* its bytes anew, and the C# program looks at half of a character.        *)
WideJson(p) == p.options.target = "wide" /\ p.options.format = "json"

(* While nothing runs out, the four programs end alike: with the same exit *)
(* code, and if they scan, with the same address, ports and options, and   *)
(* after the same answers with the same report.  README.md:219 promises it *)
(* of four parsers, four ways to choose among the resolver's addresses,    *)
(* four guards, four ways to clean a banner and eight writers, all written *)
(* apart.                                                                  *)
Interchangeable ==
    ~scarce => \A p, q \in Programs :
        Ended(p) /\ Ended(q) =>
            /\ p.code = q.code
            /\ p.scanned = q.scanned
            /\ p.scanned => <<p.address, p.ports, p.options>> = <<q.address, q.ports, q.options>>
            /\ p.output = q.output \/ WideJson(p)

(* No program probes a port of an address outside the local ranges unless  *)
(* --yes-i-own-this is given as an option: the same text as the value of a *)
(* flag before it confirms nothing.                                        *)
NoScanWithoutPermission ==
    \A p \in Programs :
        p.phase = "scan" \/ p.scanned => InLocalRange(p.address) \/ Confirms(argv)

(* The guard as README.md:22 and README.md:158 describe it, with fd00::/8  *)
(* for the private addresses of IPv6.                                      *)
DocumentedGuard ==
    \A p \in Programs : p.scanned => InDocumentedRange(p.address) \/ Confirms(argv)

(* When a scan starts, its port list, concurrency and timeout are what the *)
(* scan modules assume of them; the pools divide work and set timers by    *)
(* them without looking again.                                             *)
ScanPreconditions ==
    \A p \in Programs :
        p.phase = "scan" =>
            /\ p.ports # {} /\ p.ports \subseteq 1 .. HighestPort
            /\ p.options.concurrency \in 1 .. MostProbes
            /\ p.options.timeout_ms \in 50 .. LongestTimeout
            /\ p.options.target # ""

(* While nothing runs out, a program ends with the exit code README.md:30  *)
(* gives for its arguments, its target and its permission, and it has      *)
(* scanned exactly when all three allow it.                                *)
OutcomeAsDocumented ==
    ~scarce => \A p \in Programs :
        Ended(p) =>
            /\ DocumentedCode(argv, p.code, dns # <<>>, Confirms(argv) \/ InLocalRange(p.address))
            /\ p.scanned <=> p.code = 0 /\ ~AsksForHelp(argv)

(* Whatever runs out, an exit code of 0 means that the ports were scanned, *)
(* or that help was asked for; and 2 that no port was probed, because the  *)
(* target has no address or, in C and C++, the network did not start.      *)
ExitCodesAreHonest ==
    /\ \A p \in Programs :
        p.phase = "exit" =>
            /\ p.code = 0 => p.scanned \/ AsksForHelp(argv)
            /\ p.code = 2 => ~p.scanned /\ (dns = <<>> \/ scarce)
    /\ \A p \in {rust, cs} : p.phase = "exit" /\ p.code = 2 => dns = <<>>

(* What the report of a program is to tell: what the probes found, with a  *)
(* banner only if --banner was given.                                      *)
ToTell(p) ==
    Told(p.options.target,
         [port \in p.ports |->
            IF p.options.banner THEN Finding(found, port) ELSE [Finding(found, port) EXCEPT !.bytes = <<>>]])

(* A printed table reads back as what the probes found: a line for each    *)
(* open port in order, its banner on that line alone whatever bytes were   *)
(* received, and counts that add up to the ports that were scanned, errors *)
(* included although they are only mentioned when there are some.          *)
TableReadsBack ==
    \A p \in Programs :
        p.output # <<>> /\ p.options.format = "table" => ReadTable(p.output) = ToTell(p)

(* Printed JSON is well formed and reads back as what the probes found,    *)
(* with the target and the banners as they are, whatever quotes,           *)
(* backslashes and unprintable bytes they hold.  Of the C and C++ programs *)
(* it holds for every target.                                              *)
JsonReadsBack ==
    \A p \in Programs :
        p.output # <<>> /\ p.options.format = "json" /\ (WideJson(p) => p \in {c, cpp}) =>
            ReadJson(p.output) = ToTell(p)
=============================================================================
