------------------------ MODULE FourProgramsProofs -------------------------
(***************************************************************************)
(* Proofs about the four programs from their arguments to their exit code, *)
(* for every argument list and every answer of the resolver.  What is      *)
(* known of a process grows from phase to phase; the four programs make    *)
(* the same steps, and differ in how they work out what a step needs.      *)
(***************************************************************************)
EXTENDS ArgumentProofs

(* What a program is given, the texts it is lenient with, those it reads   *)
(* in a way of its own, and whether it starts the network itself.          *)
Given(lenient, odd, starts) ==
    [argv |-> argv, dns |-> dns, scarce |-> scarce, lenient |-> lenient, odd |-> odd, starts |-> starts]

ForC == Given({}, TooLong, TRUE)
ForCpp == Given({}, {}, TRUE)
ForRust == Given(Signed, Signed, FALSE)
ForCs == Given({}, {}, FALSE)

-----------------------------------------------------------------------------
(* What is known of a process p in each phase, given in.                   *)

Phases == {"main", "runtime", "ports", "resolve", "guard", "scan", "exit", "terminated", "crashed"}

Trusted(in) == NoneOf(in.lenient, in.argv)
Ordinary(in) == NoneOf(in.odd, in.argv)

IsProcess(p) ==
    p \in [phase : Phases, options : Options, ports : {p.ports}, address : Address, scanned : BOOLEAN,
           output : {p.output}, code : Nat]

KnowsOptions(in, p) ==
    /\ p.options.target # ""
    /\ p.options.ports_spec = PortsText(in.argv)
    /\ Trusted(in) => p.options.ports_spec \notin in.lenient
    /\ Ordinary(in) => p.options.ports_spec \notin in.odd
    /\ p.options.confirmed <=> Confirms(in.argv)
    /\ Trusted(in) => WellFormed(in.argv) /\ ~AsksForHelp(in.argv)

KnowsPorts(in, p) ==
    /\ KnowsOptions(in, p)
    /\ ArePorts(p.ports)
    /\ Trusted(in) => ValidPorts(PortsText(in.argv))

Permitted(in, p) == InLocalRange(p.address) \/ Confirms(in.argv)

(* Why a process may have ended with its exit code: help; a scan; a wrong  *)
(* argument or port list; no permission; no address; or something ran out. *)
Conclusion(in, p) ==
    \/ p.code = 0 /\ ~p.scanned /\ (Trusted(in) => AsksForHelp(in.argv))
    \/ p.code = 0 /\ p.scanned /\ KnowsPorts(in, p) /\ in.dns # << >> /\ Permitted(in, p)
    \/ /\ p.code = 1 /\ ~p.scanned
       /\ Ordinary(in) =>
            ~AsksForHelp(in.argv) /\ (~WellFormed(in.argv) \/ ~ValidPorts(PortsText(in.argv)))
    \/ p.code = 1 /\ ~p.scanned /\ KnowsPorts(in, p) /\ in.dns # << >> /\ ~Permitted(in, p)
    \/ p.code = 2 /\ ~p.scanned /\ KnowsPorts(in, p) /\ in.dns = << >>
    \/ p.code \in {1, 101} /\ ~p.scanned /\ in.scarce
    \/ p.code = 101 /\ p.scanned /\ in.scarce /\ Permitted(in, p)
    \/ p.code = 2 /\ ~p.scanned /\ in.scarce /\ in.starts

Facts(in, p) ==
    /\ IsProcess(p)
    /\ p.phase \in {"runtime", "ports"} => KnowsOptions(in, p)
    /\ p.phase \in {"resolve", "guard", "scan"} => KnowsPorts(in, p)
    /\ p.phase \in {"guard", "scan"} => in.dns # << >>
    /\ p.phase = "scan" => Permitted(in, p)
    /\ p.phase \in {"main", "runtime", "ports", "resolve", "guard", "scan"} => ~p.scanned
    /\ p.phase = "exit" => Conclusion(in, p)
    /\ p.phase \in {"terminated", "crashed"} => in.scarce /\ Permitted(in, p)

(* What a parser's result r says of the arguments.                         *)
Understood(in, r) ==
    /\ r \in Parser
    /\ r.status = "go" =>
          /\ r.options.target # ""
          /\ r.options.ports_spec = PortsText(in.argv)
          /\ Trusted(in) => r.options.ports_spec \notin in.lenient
          /\ Ordinary(in) => r.options.ports_spec \notin in.odd
          /\ r.options.confirmed <=> Confirms(in.argv)
          /\ Trusted(in) => WellFormed(in.argv) /\ ~AsksForHelp(in.argv)
    /\ r.status = "help" /\ Trusted(in) => AsksForHelp(in.argv)
    /\ r.status = "error" /\ Ordinary(in) => ~WellFormed(in.argv) /\ ~AsksForHelp(in.argv)

(* It is so of the four parsers.                                           *)
LEMMA ParsersUnderstand ==
    ASSUME argv \in Seq(Text)
    PROVE  /\ Understood(ForC, C!args_parse(argv)) /\ Understood(ForCpp, Cpp!parseArgs(argv))
           /\ Understood(ForRust, Rust!parse_args(argv)) /\ Understood(ForCs, Cs!Parse(argv))
<1>1. ASSUME NEW A, NEW r, Parsed(A, argv, r), NEW in, in.argv = argv,
             NoneOf(in.lenient, argv) => Strict(A, argv), NoneOf(in.odd, argv) => Exact(A, argv),
             "1-1024" \notin in.lenient, "1-1024" \notin in.odd
      PROVE  Understood(in, r)
  <2>1. \A texts : "1-1024" \notin texts /\ NoneOf(texts, argv) /\ r.status = "go" =>
            r.options.ports_spec \notin texts
    BY <1>1 DEF Parsed, NoneOf
  <2> QED
    BY <1>1, <2>1 DEF Parsed, Understood, Trusted, Ordinary
<1>2. /\ Strict(CAccepts, argv) /\ Exact(CppAccepts, argv) /\ Exact(CsAccepts, argv)
      /\ NoneOf(TooLong, argv) => Exact(CAccepts, argv)
      /\ NoneOf(Signed, argv) => Exact(RustAccepts, argv) /\ Strict(RustAccepts, argv)
      /\ Strict(CppAccepts, argv) /\ Strict(CsAccepts, argv)
  BY ArgumentsAccepted DEF Exact
<1>3. "1-1024" \notin Signed /\ "1-1024" \notin TooLong /\ "1-1024" \notin {}
  BY DEF Signed, TooLong
<1>4. Understood(ForC, C!args_parse(argv))
  <2>1. PICK f : Run(CAccepts, argv, f) /\ C!args_parse(argv) = Finish(f[Len(argv)])
    BY CReads
  <2>2. CAccepts \in SUBSET Accepted({"digits"})
    BY DEF CAccepts
  <2>3. Parsed(CAccepts, argv, C!args_parse(argv))
    BY <2>1, <2>2, RunParsed
  <2>4. ForC.argv = argv /\ ForC.lenient = {} /\ ForC.odd = TooLong
    BY DEF ForC, Given
  <2> QED
    BY <1>1, <1>2, <1>3, <2>3, <2>4
<1>5. Understood(ForCpp, Cpp!parseArgs(argv))
  <2>1. PICK f : Run(CppAccepts, argv, f) /\ Cpp!parseArgs(argv) = Finish(f[Len(argv)])
    BY CppReads
  <2>2. CppAccepts \in SUBSET Accepted({"digits"})
    BY DEF CppAccepts
  <2>3. Parsed(CppAccepts, argv, Cpp!parseArgs(argv))
    BY <2>1, <2>2, RunParsed
  <2>4. ForCpp.argv = argv /\ ForCpp.lenient = {} /\ ForCpp.odd = {}
    BY DEF ForCpp, Given
  <2> QED
    BY <1>1, <1>2, <1>3, <2>3, <2>4
<1>6. Understood(ForRust, Rust!parse_args(argv))
  <2>1. PICK f : Run(RustAccepts, argv, f) /\ Rust!parse_args(argv) = Finish(f[Len(argv)])
    BY RustReads
  <2>2. RustAccepts \in SUBSET Accepted({"digits", "plus"})
    BY DEF RustAccepts
  <2>3. Parsed(RustAccepts, argv, Rust!parse_args(argv))
    BY <2>1, <2>2, RunParsed
  <2>4. ForRust.argv = argv /\ ForRust.lenient = Signed /\ ForRust.odd = Signed
    BY DEF ForRust, Given
  <2> QED
    BY <1>1, <1>2, <1>3, <2>3, <2>4
<1>7. Understood(ForCs, Cs!Parse(argv))
  <2>1. PICK f : Run(CsAccepts, argv, f) /\ Cs!Parse(argv) = Finish(f[Len(argv)])
    BY CsReads
  <2>2. CsAccepts \in SUBSET Accepted({"digits"})
    BY DEF CsAccepts
  <2>3. Parsed(CsAccepts, argv, Cs!Parse(argv))
    BY <2>1, <2>2, RunParsed
  <2>4. ForCs.argv = argv /\ ForCs.lenient = {} /\ ForCs.odd = {}
    BY DEF ForCs, Given
  <2> QED
    BY <1>1, <1>2, <1>3, <2>3, <2>4
<1> QED
  BY <1>4, <1>5, <1>6, <1>7

-----------------------------------------------------------------------------
(* The steps, each as what it makes of the process p.                      *)

Left(p, n) == [p EXCEPT !.phase = "exit", !.code = n]

(* A process that leaves keeps all but its phase and code.                 *)
LEMMA LeftIsProcess ==
    ASSUME NEW p, IsProcess(p), NEW n \in Nat
    PROVE  /\ IsProcess(Left(p, n)) /\ Left(p, n).phase = "exit" /\ Left(p, n).code = n
           /\ Left(p, n).scanned = p.scanned /\ Left(p, n).options = p.options
           /\ Left(p, n).ports = p.ports /\ Left(p, n).address = p.address
BY DEF IsProcess, Left, Phases

(* It may leave as soon as there is a reason for its code.                 *)
LEMMA Leaves ==
    ASSUME NEW in, NEW p, IsProcess(p), NEW n \in Nat, Conclusion(in, Left(p, n))
    PROVE  Facts(in, Left(p, n))
BY LeftIsProcess DEF Facts

(* It goes on to another phase with what that phase knows.                 *)
LEMMA ReadsArguments ==
    ASSUME NEW in, NEW p, Facts(in, p), p.phase = "main", NEW next \in {"runtime", "ports"}, NEW r, Understood(in, r)
    PROVE  Facts(in, CASE r.status = "help" -> Left(p, 0)
                       [] r.status = "error" -> Left(p, 1)
                       [] r.status = "go" -> [p EXCEPT !.phase = next, !.options = r.options])
<1>1. IsProcess(p) /\ ~p.scanned
  BY DEF Facts
<1>2. CASE r.status = "help"
  <2>1. Conclusion(in, Left(p, 0))
    BY <1>1, <1>2, LeftIsProcess DEF Conclusion, Understood
  <2> QED
    BY <1>1, <1>2, <2>1, Leaves
<1>3. CASE r.status = "error"
  <2>1. Conclusion(in, Left(p, 1))
    BY <1>1, <1>3, LeftIsProcess DEF Conclusion, Understood
  <2> QED
    BY <1>1, <1>3, <2>1, Leaves
<1>4. CASE r.status = "go"
  <2> DEFINE q == [p EXCEPT !.phase = next, !.options = r.options]
  <2>1. r.options \in Options
    BY DEF Understood, Parser
  <2>2. /\ IsProcess(q) /\ q.phase \in {"runtime", "ports"} /\ ~q.scanned /\ q.options = r.options
    BY <1>1, <2>1 DEF IsProcess, Phases
  <2> HIDE DEF q
  <2>3. KnowsOptions(in, q)
    BY <1>4, <2>2 DEF Understood, KnowsOptions
  <2>4. Facts(in, q)
    BY <2>2, <2>3 DEF Facts
  <2> QED
    BY <1>4, <2>4 DEF q
<1> QED
  BY <1>2, <1>3, <1>4 DEF Understood, Parser

(* The runtime of the Rust program.                                        *)
LEMMA BuildsRuntime ==
    ASSUME NEW in, NEW p, Facts(in, p), p.phase = "runtime"
    PROVE  Facts(in, [p EXCEPT !.phase = "ports"])
<1> DEFINE q == [p EXCEPT !.phase = "ports"]
<1>1. IsProcess(p) /\ ~p.scanned /\ KnowsOptions(in, p)
  BY DEF Facts
<1>2. IsProcess(q) /\ q.phase = "ports" /\ ~q.scanned /\ q.options = p.options
  BY <1>1 DEF IsProcess, Phases
<1> HIDE DEF q
<1>3. KnowsOptions(in, q)
  BY <1>1, <1>2 DEF KnowsOptions
<1>4. Facts(in, q)
  BY <1>2, <1>3 DEF Facts
<1> QED
  BY <1>4 DEF q

(* Something runs out.                                                     *)
LEMMA GivesUp ==
    ASSUME NEW in, in.scarce, NEW p, Facts(in, p), p.phase \in {"runtime", "ports", "scan"}, NEW n \in {1, 101}
    PROVE  Facts(in, Left(p, n))
<1>1. IsProcess(p) /\ ~p.scanned /\ n \in Nat
  BY DEF Facts
<1>2. Conclusion(in, Left(p, n))
  BY <1>1, LeftIsProcess DEF Conclusion
<1> QED
  BY <1>1, <1>2, Leaves

(* The network does not start.                                             *)
LEMMA NetworkFails ==
    ASSUME NEW in, in.scarce, in.starts, NEW p, Facts(in, p), p.phase = "main"
    PROVE  Facts(in, Left(p, 2))
<1>1. IsProcess(p) /\ ~p.scanned /\ 2 \in Nat
  BY DEF Facts
<1>2. Conclusion(in, Left(p, 2))
  BY <1>1, LeftIsProcess DEF Conclusion
<1> QED
  BY <1>1, <1>2, Leaves

(* The port list is accepted, and its ports are marked.                    *)
LEMMA AcceptsPorts ==
    ASSUME NEW in, NEW p, Facts(in, p), p.phase = "ports", NEW ports, ArePorts(ports),
           p.options.ports_spec \notin in.lenient => ValidPorts(p.options.ports_spec)
    PROVE  Facts(in, [p EXCEPT !.phase = "resolve", !.ports = ports])
<1> DEFINE q == [p EXCEPT !.phase = "resolve", !.ports = ports]
<1>1. IsProcess(p) /\ ~p.scanned /\ KnowsOptions(in, p)
  BY DEF Facts
<1>2. IsProcess(q) /\ q.phase = "resolve" /\ ~q.scanned /\ q.options = p.options /\ q.ports = ports
  BY <1>1 DEF IsProcess, Phases
<1> HIDE DEF q
<1>3. /\ KnowsOptions(in, q) /\ p.options.ports_spec = PortsText(in.argv)
      /\ Trusted(in) => p.options.ports_spec \notin in.lenient
  BY <1>1, <1>2 DEF KnowsOptions
<1>4. KnowsPorts(in, q)
  BY <1>2, <1>3 DEF KnowsPorts
<1>5. Facts(in, q)
  BY <1>2, <1>4 DEF Facts
<1> QED
  BY <1>5 DEF q

(* The port list is refused.                                               *)
LEMMA RefusesPorts ==
    ASSUME NEW in, in.lenient \subseteq in.odd, NEW p, Facts(in, p), p.phase = "ports",
           p.options.ports_spec \notin in.odd => ~ValidPorts(p.options.ports_spec)
    PROVE  Facts(in, Left(p, 1))
<1>1. IsProcess(p) /\ ~p.scanned /\ KnowsOptions(in, p)
  BY DEF Facts
<1>2. /\ p.options.ports_spec = PortsText(in.argv)
      /\ Trusted(in) => ~AsksForHelp(in.argv)
      /\ Ordinary(in) => p.options.ports_spec \notin in.odd
  BY <1>1 DEF KnowsOptions
<1>3. Ordinary(in) => Trusted(in)
  BY DEF Ordinary, Trusted, NoneOf
<1>4. Conclusion(in, Left(p, 1))
  BY <1>1, <1>2, <1>3, LeftIsProcess DEF Conclusion
<1> QED
  BY <1>1, <1>4, Leaves

(* An address is taken, or there is none.                                  *)
LEMMA Resolves ==
    ASSUME NEW in, NEW p, Facts(in, p), p.phase = "resolve", NEW a, in.dns # << >> => a \in Address
    PROVE  Facts(in, IF in.dns = << >> THEN Left(p, 2) ELSE [p EXCEPT !.phase = "guard", !.address = a])
<1>1. IsProcess(p) /\ ~p.scanned /\ KnowsPorts(in, p)
  BY DEF Facts
<1>2. CASE in.dns = << >>
  <2>1. KnowsPorts(in, Left(p, 2))
    BY <1>1, LeftIsProcess DEF KnowsPorts, KnowsOptions
  <2>2. Conclusion(in, Left(p, 2))
    BY <1>1, <1>2, <2>1, LeftIsProcess DEF Conclusion
  <2> QED
    BY <1>1, <1>2, <2>2, Leaves
<1>3. CASE in.dns # << >>
  <2> DEFINE q == [p EXCEPT !.phase = "guard", !.address = a]
  <2>1. IsProcess(q) /\ q.phase = "guard" /\ ~q.scanned /\ q.options = p.options /\ q.ports = p.ports
    BY <1>1, <1>3 DEF IsProcess, Phases
  <2> HIDE DEF q
  <2>2. KnowsPorts(in, q)
    BY <1>1, <2>1 DEF KnowsPorts, KnowsOptions
  <2>3. Facts(in, q)
    BY <1>3, <2>1, <2>2 DEF Facts
  <2> QED
    BY <1>3, <2>3 DEF q
<1> QED
  BY <1>2, <1>3

(* The scan is allowed if the address is local, or by the option.          *)
LEMMA ChecksPermission ==
    ASSUME NEW in, NEW p, Facts(in, p), p.phase = "guard", NEW local, local <=> InLocalRange(p.address)
    PROVE  Facts(in, IF local \/ p.options.confirmed THEN [p EXCEPT !.phase = "scan"] ELSE Left(p, 1))
<1>1. IsProcess(p) /\ ~p.scanned /\ KnowsPorts(in, p) /\ in.dns # << >>
  BY DEF Facts
<1>2. local \/ p.options.confirmed <=> Permitted(in, p)
  BY <1>1 DEF KnowsPorts, KnowsOptions, Permitted
<1>3. CASE Permitted(in, p)
  <2> DEFINE q == [p EXCEPT !.phase = "scan"]
  <2>1. /\ IsProcess(q) /\ q.phase = "scan" /\ ~q.scanned /\ q.options = p.options
        /\ q.ports = p.ports /\ q.address = p.address
    BY <1>1 DEF IsProcess, Phases
  <2> HIDE DEF q
  <2>2. KnowsPorts(in, q) /\ Permitted(in, q)
    BY <1>1, <1>3, <2>1 DEF KnowsPorts, KnowsOptions, Permitted
  <2>3. Facts(in, q)
    BY <1>1, <2>1, <2>2 DEF Facts
  <2> QED
    BY <1>2, <1>3, <2>3 DEF q
<1>4. CASE ~Permitted(in, p)
  <2>1. KnowsPorts(in, Left(p, 1)) /\ ~Permitted(in, Left(p, 1))
    <3>1. Left(p, 1).options = p.options /\ Left(p, 1).ports = p.ports /\ Left(p, 1).address = p.address
      BY <1>1, LeftIsProcess
    <3> QED
      BY <1>1, <1>4, <3>1 DEF KnowsPorts, KnowsOptions, Permitted
  <2>2. Conclusion(in, Left(p, 1))
    BY <1>1, <2>1, LeftIsProcess DEF Conclusion
  <2> QED
    BY <1>1, <1>2, <1>4, <2>2, Leaves
<1> QED
  BY <1>3, <1>4

(* The ports are scanned, and a report is printed.                         *)
LEMMA Scans ==
    ASSUME NEW in, NEW p, Facts(in, p), p.phase = "scan", NEW output
    PROVE  Facts(in, [Left(p, 0) EXCEPT !.scanned = TRUE, !.output = output])
<1> DEFINE q == [Left(p, 0) EXCEPT !.scanned = TRUE, !.output = output]
<1>1. IsProcess(p) /\ KnowsPorts(in, p) /\ in.dns # << >> /\ Permitted(in, p)
  BY DEF Facts
<1>2. /\ IsProcess(q) /\ q.phase = "exit" /\ q.code = 0 /\ q.scanned /\ q.options = p.options
      /\ q.ports = p.ports /\ q.address = p.address
  BY <1>1 DEF IsProcess, Phases, Left
<1> HIDE DEF q
<1>3. KnowsPorts(in, q) /\ Permitted(in, q)
  BY <1>1, <1>2 DEF KnowsPorts, KnowsOptions, Permitted
<1>4. Conclusion(in, q)
  BY <1>1, <1>2, <1>3 DEF Conclusion
<1>5. Facts(in, q)
  BY <1>2, <1>4 DEF Facts
<1> QED
  BY <1>5 DEF q

(* The process ends in the middle of the scan.                             *)
LEMMA ScanBreaksOff ==
    ASSUME NEW in, in.scarce, NEW p, Facts(in, p), p.phase = "scan", NEW end \in {"terminated", "crashed"}
    PROVE  Facts(in, [p EXCEPT !.phase = end, !.scanned = TRUE])
<1> DEFINE q == [p EXCEPT !.phase = end, !.scanned = TRUE]
<1>1. IsProcess(p) /\ Permitted(in, p)
  BY DEF Facts
<1>2. IsProcess(q) /\ q.phase = end /\ q.address = p.address
  BY <1>1 DEF IsProcess, Phases
<1> HIDE DEF q
<1>3. Permitted(in, q)
  BY <1>1, <1>2 DEF Permitted
<1>4. Facts(in, q)
  BY <1>2, <1>3 DEF Facts
<1> QED
  BY <1>4 DEF q

(* The process exits in the middle of the scan.                            *)
LEMMA ScanPanics ==
    ASSUME NEW in, in.scarce, NEW p, Facts(in, p), p.phase = "scan"
    PROVE  Facts(in, [Left(p, 101) EXCEPT !.scanned = TRUE])
<1> DEFINE q == [Left(p, 101) EXCEPT !.scanned = TRUE]
<1>1. IsProcess(p) /\ Permitted(in, p)
  BY DEF Facts
<1>2. IsProcess(q) /\ q.phase = "exit" /\ q.code = 101 /\ q.scanned /\ q.address = p.address
  BY <1>1 DEF IsProcess, Phases, Left
<1> HIDE DEF q
<1>3. Permitted(in, q)
  BY <1>1, <1>2 DEF Permitted
<1>4. Conclusion(in, q)
  BY <1>2, <1>3 DEF Conclusion
<1>5. Facts(in, q)
  BY <1>2, <1>4 DEF Facts
<1> QED
  BY <1>5 DEF q

(* Each step of the C program is one of these.                             *)
LEMMA CSteps ==
    ASSUME argv \in Seq(Text), dns \in Seq(Address), Facts(ForC, c), C!Step
    PROVE  Facts(ForC, c') /\ UNCHANGED <<argv, dns, scarce, found>>
<1>1. /\ ForC.argv = argv /\ ForC.dns = dns /\ (ForC.scarce <=> scarce)
      /\ ForC.lenient = {} /\ ForC.odd = TooLong /\ ForC.starts
  BY DEF ForC, Given
<1>2. \A n : C!Exit(n) = Left(c, n)
  BY DEF C!Exit, Left
<1> SUFFICES Facts(ForC, c')
  BY DEF C!Step
<1>3. CASE C!main
  <2>1. Understood(ForC, C!args_parse(argv))
    BY ParsersUnderstand
  <2>2. c.phase = "main"
    BY <1>3 DEF C!main
  <2> DEFINE r == C!args_parse(argv)
  <2>3. CASE scarce /\ c' = Left(c, 2)
    BY <1>1, <2>2, <2>3, NetworkFails
  <2>4. CASE c' = CASE r.status = "help" -> Left(c, 0)
                     [] r.status = "error" -> Left(c, 1)
                     [] r.status = "go" -> [c EXCEPT !.phase = "ports", !.options = r.options]
    BY <2>1, <2>2, <2>4, ReadsArguments
  <2> QED
    BY <1>2, <1>3, <2>3, <2>4 DEF C!main
<1>4. CASE C!ParsePorts
  <2>1. c.phase = "ports"
    BY <1>4 DEF C!ParsePorts
  <2> DEFINE spec == c.options.ports_spec
  <2>2. PortsParsed(spec, C!ports_parse(spec), C!flags(spec), {}, TooLong)
    BY PortLists
  <2>3. CASE C!ports_parse(spec) /\ c' = [c EXCEPT !.phase = "resolve", !.ports = C!flags(spec)]
    <3>1. ArePorts(C!flags(spec)) /\ (spec \notin ForC.lenient => ValidPorts(spec))
      BY <1>1, <2>2, <2>3 DEF PortsParsed
    <3> QED
      BY <1>1, <2>1, <2>3, <3>1, AcceptsPorts
  <2>4. CASE ~C!ports_parse(spec) /\ c' = Left(c, 1)
    <3>1. spec \notin ForC.odd => ~ValidPorts(spec)
      BY <1>1, <2>2, <2>4 DEF PortsParsed
    <3> QED
      BY <1>1, <2>1, <2>4, <3>1, RefusesPorts
  <2>5. CASE scarce /\ c' = Left(c, 1)
    BY <1>1, <2>1, <2>5, GivesUp
  <2> QED
    BY <1>2, <1>4, <2>3, <2>4, <2>5 DEF C!ParsePorts
<1>5. CASE C!net_resolve
  <2>1. /\ c.phase = "resolve"
        /\ c' = IF dns = << >> THEN Left(c, 2) ELSE [c EXCEPT !.phase = "guard", !.address = C!prefer_ipv4(dns)]
    BY <1>2, <1>5 DEF C!net_resolve
  <2>2. dns # << >> => C!prefer_ipv4(dns) \in Address
    BY AddressTaken
  <2> QED
    BY <1>1, <2>1, <2>2, Resolves
<1>6. CASE C!is_scan_allowed
  <2>1. /\ c.phase = "guard"
        /\ c' = IF C!net_is_local(c.address) \/ c.options.confirmed
                THEN [c EXCEPT !.phase = "scan"] ELSE Left(c, 1)
    BY <1>2, <1>6 DEF C!is_scan_allowed
  <2>2. c.address \in Address
    BY DEF Facts, IsProcess
  <2>3. C!net_is_local(c.address) <=> InLocalRange(c.address)
    BY <2>2, CGuard DEF Address
  <2> QED
    BY <2>1, <2>3, ChecksPermission
<1>7. CASE C!run_scan
  <2>1. c.phase = "scan"
    BY <1>7 DEF C!run_scan
  <2>2. CASE c' = [Left(c, 0) EXCEPT !.scanned = TRUE, !.output = C!report]
    BY <2>1, <2>2, Scans
  <2>3. CASE scarce /\ c' = Left(c, 1)
    BY <1>1, <2>1, <2>3, GivesUp
  <2> QED
    BY <1>2, <1>7, <2>2, <2>3 DEF C!run_scan
<1> QED
  BY <1>3, <1>4, <1>5, <1>6, <1>7 DEF C!Step

(* The same of the C++ program.                                            *)
LEMMA CppSteps ==
    ASSUME argv \in Seq(Text), dns \in Seq(Address), Facts(ForCpp, cpp), Cpp!Step
    PROVE  Facts(ForCpp, cpp') /\ UNCHANGED <<argv, dns, scarce, found>>
<1>1. /\ ForCpp.argv = argv /\ ForCpp.dns = dns /\ (ForCpp.scarce <=> scarce)
      /\ ForCpp.lenient = {} /\ ForCpp.odd = {} /\ ForCpp.starts
  BY DEF ForCpp, Given
<1>2. \A n : Cpp!Exit(n) = Left(cpp, n)
  BY DEF Cpp!Exit, Left
<1> SUFFICES Facts(ForCpp, cpp')
  BY DEF Cpp!Step
<1>3. CASE Cpp!main
  <2>1. Understood(ForCpp, Cpp!parseArgs(argv))
    BY ParsersUnderstand
  <2>2. cpp.phase = "main"
    BY <1>3 DEF Cpp!main
  <2> DEFINE r == Cpp!parseArgs(argv)
  <2>3. CASE scarce /\ cpp' = Left(cpp, 2)
    BY <1>1, <2>2, <2>3, NetworkFails
  <2>4. CASE cpp' = CASE r.status = "help" -> Left(cpp, 0)
                     [] r.status = "error" -> Left(cpp, 1)
                     [] r.status = "go" -> [cpp EXCEPT !.phase = "ports", !.options = r.options]
    BY <2>1, <2>2, <2>4, ReadsArguments
  <2> QED
    BY <1>2, <1>3, <2>3, <2>4 DEF Cpp!main
<1>4. CASE Cpp!ParsePorts
  <2>1. cpp.phase = "ports"
    BY <1>4 DEF Cpp!ParsePorts
  <2> DEFINE spec == cpp.options.ports_spec
  <2>2. PortsParsed(spec, Cpp!parsePorts(spec), Cpp!marked(spec), {}, {})
    BY PortLists
  <2>3. CASE Cpp!parsePorts(spec) /\ cpp' = [cpp EXCEPT !.phase = "resolve", !.ports = Cpp!marked(spec)]
    <3>1. ArePorts(Cpp!marked(spec)) /\ (spec \notin ForCpp.lenient => ValidPorts(spec))
      BY <1>1, <2>2, <2>3 DEF PortsParsed
    <3> QED
      BY <1>1, <2>1, <2>3, <3>1, AcceptsPorts
  <2>4. CASE ~Cpp!parsePorts(spec) /\ cpp' = Left(cpp, 1)
    <3>1. spec \notin ForCpp.odd => ~ValidPorts(spec)
      BY <1>1, <2>2, <2>4 DEF PortsParsed
    <3> QED
      BY <1>1, <2>1, <2>4, <3>1, RefusesPorts
  <2> QED
    BY <1>2, <1>4, <2>3, <2>4 DEF Cpp!ParsePorts
<1>5. CASE Cpp!resolve
  <2>1. /\ cpp.phase = "resolve"
        /\ cpp' = IF dns = << >> THEN Left(cpp, 2) ELSE [cpp EXCEPT !.phase = "guard", !.address = Cpp!chosen(dns)]
    BY <1>2, <1>5 DEF Cpp!resolve
  <2>2. dns # << >> => Cpp!chosen(dns) \in Address
    BY AddressTaken
  <2> QED
    BY <1>1, <2>1, <2>2, Resolves
<1>6. CASE Cpp!scanAllowed
  <2>1. /\ cpp.phase = "guard"
        /\ cpp' = IF Cpp!isLocalAddress(cpp.address) \/ cpp.options.confirmed
                  THEN [cpp EXCEPT !.phase = "scan"] ELSE Left(cpp, 1)
    BY <1>2, <1>6 DEF Cpp!scanAllowed
  <2>2. cpp.address \in Address
    BY DEF Facts, IsProcess
  <2>3. Cpp!isLocalAddress(cpp.address) <=> InLocalRange(cpp.address)
    BY <2>2, CppGuard DEF Address
  <2> QED
    BY <2>1, <2>3, ChecksPermission
<1>7. CASE Cpp!runScan
  <2>1. cpp.phase = "scan"
    BY <1>7 DEF Cpp!runScan
  <2>2. CASE cpp' = [Left(cpp, 0) EXCEPT !.scanned = TRUE, !.output = Cpp!report]
    BY <2>1, <2>2, Scans
  <2>3. CASE scarce /\ cpp' = [cpp EXCEPT !.phase = "terminated", !.scanned = TRUE]
    BY <1>1, <2>1, <2>3, ScanBreaksOff
  <2> QED
    BY <1>2, <1>7, <2>2, <2>3 DEF Cpp!runScan
<1> QED
  BY <1>3, <1>4, <1>5, <1>6, <1>7 DEF Cpp!Step

(* The same of the Rust program.                                           *)
LEMMA RustSteps ==
    ASSUME argv \in Seq(Text), dns \in Seq(Address), Facts(ForRust, rust), Rust!Step
    PROVE  Facts(ForRust, rust') /\ UNCHANGED <<argv, dns, scarce, found>>
<1>1. /\ ForRust.argv = argv /\ ForRust.dns = dns /\ (ForRust.scarce <=> scarce)
      /\ ForRust.lenient = Signed /\ ForRust.odd = Signed
  BY DEF ForRust, Given
<1>2. \A n : Rust!Exit(n) = Left(rust, n)
  BY DEF Rust!Exit, Left
<1> SUFFICES Facts(ForRust, rust')
  BY DEF Rust!Step
<1>3. CASE Rust!main
  <2>1. Understood(ForRust, Rust!parse_args(argv))
    BY ParsersUnderstand
  <2>2. rust.phase = "main"
    BY <1>3 DEF Rust!main
  <2>3. rust' = LET r == Rust!parse_args(argv)
             IN  CASE r.status = "help" -> Left(rust, 0)
                   [] r.status = "error" -> Left(rust, 1)
                   [] r.status = "go" -> [rust EXCEPT !.phase = "runtime", !.options = r.options]
    BY <1>2, <1>3 DEF Rust!main
  <2> QED
    BY <2>1, <2>2, <2>3, ReadsArguments
<1>4. CASE Rust!ParsePorts
  <2>1. rust.phase = "ports"
    BY <1>4 DEF Rust!ParsePorts
  <2> DEFINE spec == rust.options.ports_spec
  <2>2. PortsParsed(spec, Rust!parse_ports(spec), Rust!marked(spec), Signed, Signed)
    BY PortLists
  <2>3. CASE Rust!parse_ports(spec) /\ rust' = [rust EXCEPT !.phase = "resolve", !.ports = Rust!marked(spec)]
    <3>1. ArePorts(Rust!marked(spec)) /\ (spec \notin ForRust.lenient => ValidPorts(spec))
      BY <1>1, <2>2, <2>3 DEF PortsParsed
    <3> QED
      BY <1>1, <2>1, <2>3, <3>1, AcceptsPorts
  <2>4. CASE ~Rust!parse_ports(spec) /\ rust' = Left(rust, 1)
    <3>1. spec \notin ForRust.odd => ~ValidPorts(spec)
      BY <1>1, <2>2, <2>4 DEF PortsParsed
    <3> QED
      BY <1>1, <2>1, <2>4, <3>1, RefusesPorts
  <2> QED
    BY <1>2, <1>4, <2>3, <2>4 DEF Rust!ParsePorts
<1>5. CASE Rust!resolve
  <2>1. /\ rust.phase = "resolve"
        /\ rust' = IF dns = << >> THEN Left(rust, 2) ELSE [rust EXCEPT !.phase = "guard", !.address = Head(dns)]
    BY <1>2, <1>5 DEF Rust!resolve
  <2>2. dns # << >> => Head(dns) \in Address
    BY AddressTaken
  <2> QED
    BY <1>1, <2>1, <2>2, Resolves
<1>6. CASE Rust!CheckPermission
  <2>1. /\ rust.phase = "guard"
        /\ rust' = IF Rust!is_local(rust.address) \/ rust.options.confirmed
                   THEN [rust EXCEPT !.phase = "scan"] ELSE Left(rust, 1)
    BY <1>2, <1>6 DEF Rust!CheckPermission
  <2>2. rust.address \in Address
    BY DEF Facts, IsProcess
  <2>3. Rust!is_local(rust.address) <=> InLocalRange(rust.address)
    BY <2>2, RustGuard DEF Address
  <2> QED
    BY <2>1, <2>3, ChecksPermission
<1>7. CASE Rust!ScanAndReport
  <2>1. rust.phase = "scan"
    BY <1>7 DEF Rust!ScanAndReport
  <2>2. CASE rust' = [Left(rust, 0) EXCEPT !.scanned = TRUE, !.output = Rust!report]
    BY <2>1, <2>2, Scans
  <2>3. CASE scarce /\ rust' = [Left(rust, 101) EXCEPT !.scanned = TRUE]
    BY <1>1, <2>1, <2>3, ScanPanics
  <2> QED
    BY <1>2, <1>7, <2>2, <2>3 DEF Rust!ScanAndReport
<1>8. CASE Rust!BuildRuntime
  <2>1. rust.phase = "runtime"
    BY <1>8 DEF Rust!BuildRuntime
  <2>2. CASE rust' = [rust EXCEPT !.phase = "ports"]
    BY <2>1, <2>2, BuildsRuntime
  <2>3. CASE scarce /\ rust' = Left(rust, 101)
    BY <1>1, <2>1, <2>3, GivesUp
  <2> QED
    BY <1>2, <1>8, <2>2, <2>3 DEF Rust!BuildRuntime
<1> QED
  BY <1>3, <1>4, <1>5, <1>6, <1>7, <1>8 DEF Rust!Step

(* The same of the C# program.                                             *)
LEMMA CsSteps ==
    ASSUME argv \in Seq(Text), dns \in Seq(Address), Facts(ForCs, cs), Cs!Step
    PROVE  Facts(ForCs, cs') /\ UNCHANGED <<argv, dns, scarce, found>>
<1>1. /\ ForCs.argv = argv /\ ForCs.dns = dns /\ (ForCs.scarce <=> scarce)
      /\ ForCs.lenient = {} /\ ForCs.odd = {}
  BY DEF ForCs, Given
<1>2. \A n : Cs!Exit(n) = Left(cs, n)
  BY DEF Cs!Exit, Left
<1> SUFFICES Facts(ForCs, cs')
  BY DEF Cs!Step
<1>3. CASE Cs!Main
  <2>1. Understood(ForCs, Cs!Parse(argv))
    BY ParsersUnderstand
  <2>2. cs.phase = "main"
    BY <1>3 DEF Cs!Main
  <2>3. cs' = LET r == Cs!Parse(argv)
             IN  CASE r.status = "help" -> Left(cs, 0)
                   [] r.status = "error" -> Left(cs, 1)
                   [] r.status = "go" -> [cs EXCEPT !.phase = "ports", !.options = r.options]
    BY <1>2, <1>3 DEF Cs!Main
  <2> QED
    BY <2>1, <2>2, <2>3, ReadsArguments
<1>4. CASE Cs!ParsePorts
  <2>1. cs.phase = "ports"
    BY <1>4 DEF Cs!ParsePorts
  <2> DEFINE spec == cs.options.ports_spec
  <2>2. PortsParsed(spec, Cs!ParseRange(spec), Cs!marked(spec), {}, {})
    BY PortLists
  <2>3. CASE Cs!ParseRange(spec) /\ cs' = [cs EXCEPT !.phase = "resolve", !.ports = Cs!marked(spec)]
    <3>1. ArePorts(Cs!marked(spec)) /\ (spec \notin ForCs.lenient => ValidPorts(spec))
      BY <1>1, <2>2, <2>3 DEF PortsParsed
    <3> QED
      BY <1>1, <2>1, <2>3, <3>1, AcceptsPorts
  <2>4. CASE ~Cs!ParseRange(spec) /\ cs' = Left(cs, 1)
    <3>1. spec \notin ForCs.odd => ~ValidPorts(spec)
      BY <1>1, <2>2, <2>4 DEF PortsParsed
    <3> QED
      BY <1>1, <2>1, <2>4, <3>1, RefusesPorts
  <2> QED
    BY <1>2, <1>4, <2>3, <2>4 DEF Cs!ParsePorts
<1>5. CASE Cs!ResolveAsync
  <2>1. /\ cs.phase = "resolve"
        /\ cs' = IF dns = << >> THEN Left(cs, 2) ELSE [cs EXCEPT !.phase = "guard", !.address = Cs!chosen(dns)]
    BY <1>2, <1>5 DEF Cs!ResolveAsync
  <2>2. dns # << >> => Cs!chosen(dns) \in Address
    BY AddressTaken
  <2> QED
    BY <1>1, <2>1, <2>2, Resolves
<1>6. CASE Cs!CheckPermission
  <2>1. /\ cs.phase = "guard"
        /\ cs' = IF Cs!IsLocal(cs.address) \/ cs.options.confirmed
                 THEN [cs EXCEPT !.phase = "scan"] ELSE Left(cs, 1)
    BY <1>2, <1>6 DEF Cs!CheckPermission
  <2>2. cs.address \in Address
    BY DEF Facts, IsProcess
  <2>3. Cs!IsLocal(cs.address) <=> InLocalRange(cs.address)
    BY <2>2, CsGuard DEF Address
  <2> QED
    BY <2>1, <2>3, ChecksPermission
<1>7. CASE Cs!ScanAndReport
  <2>1. cs.phase = "scan"
    BY <1>7 DEF Cs!ScanAndReport
  <2>2. CASE cs' = [Left(cs, 0) EXCEPT !.scanned = TRUE, !.output = Cs!report]
    BY <2>1, <2>2, Scans
  <2>3. CASE scarce /\ cs' = [cs EXCEPT !.phase = "crashed", !.scanned = TRUE]
    BY <1>1, <2>1, <2>3, ScanBreaksOff
  <2> QED
    BY <1>2, <1>7, <2>2, <2>3 DEF Cs!ScanAndReport
<1> QED
  BY <1>3, <1>4, <1>5, <1>6, <1>7 DEF Cs!Step
-----------------------------------------------------------------------------
(* The invariant.                                                          *)

Inv ==
    /\ argv \in Seq(Text) /\ dns \in Seq(Address)
    /\ Facts(ForC, c) /\ Facts(ForCpp, cpp) /\ Facts(ForRust, rust) /\ Facts(ForCs, cs)

(* The four programs start alike.                                          *)
First ==
    [phase |-> "main", options |-> Defaults, ports |-> {}, address |-> V4(0, 0), scanned |-> FALSE,
     output |-> << >>, code |-> 0]

LEMMA StartsFirst ==
    ASSUME Init
    PROVE  c = First /\ cpp = First /\ rust = First /\ cs = First
<1>1. C!V4(0, 0) = V4(0, 0) /\ Cpp!V4(0, 0) = V4(0, 0) /\ Rust!V4(0, 0) = V4(0, 0) /\ Cs!V4(0, 0) = V4(0, 0)
  BY DEF C!V4, Cpp!V4, Rust!V4, Cs!V4, V4
<1>2. c = First
  BY <1>1 DEF Init, C!Started, C!args_defaults, Defaults, First
<1>3. cpp = First
  BY <1>1 DEF Init, Cpp!Started, Cpp!DefaultOptions, Defaults, First
<1>4. rust = First
  BY <1>1 DEF Init, Rust!Started, Rust!Default, Defaults, First
<1>5. cs = First
  BY <1>1 DEF Init, Cs!Started, Cs!NewOptions, Defaults, First
<1> QED
  BY <1>2, <1>3, <1>4, <1>5

(* Nothing is known of a process when it starts.                           *)
LEMMA InitInv == Init => Inv
<1> SUFFICES ASSUME Init PROVE Inv
  OBVIOUS
<1>1. argv \in Seq(Text) /\ dns \in Seq(Address)
  <2>1. PICK input \in Inputs : argv = input.argv /\ dns = input.dns
    BY DEF Init
  <2>2. argv \in Seq(STRING) /\ dns \in Seq(Address4 \cup Address6)
    BY <2>1, InputsAssumption
  <2>3. Len(argv) \in Nat /\ argv \in [1 .. Len(argv) -> STRING]
    BY <2>2
  <2>4. argv \in [1 .. Len(argv) -> Text]
    BY <2>3 DEF Text
  <2>5. argv \in Seq(Text)
    BY <2>3, <2>4
  <2> QED
    BY <2>2, <2>5 DEF Address
<1>2. c = First /\ cpp = First /\ rust = First /\ cs = First
  BY StartsFirst
<1>3. IsProcess(First)
  <2>1. Defaults \in Options
    BY StartIsParser DEF Start, Parser
  <2>2. V4(0, 0) \in Address
    BY DEF V4, Address, Address4, Byte
  <2>3. "main" \in Phases /\ 0 \in Nat
    BY DEF Phases
  <2> QED
    BY <2>1, <2>2, <2>3 DEF IsProcess, First
<1>4. First.phase = "main" /\ ~First.scanned
  BY DEF First
<1>5. \A in : Facts(in, First)
  BY <1>3, <1>4 DEF Facts
<1> QED
  BY <1>1, <1>2, <1>5 DEF Inv

(* What is known of the other programs stays: they share nothing.          *)
LEMMA NextInv == Inv /\ [Next]_vars => Inv'
<1> SUFFICES ASSUME Inv, [Next]_vars PROVE Inv'
  OBVIOUS
<1>1. /\ argv \in Seq(Text) /\ dns \in Seq(Address)
      /\ Facts(ForC, c) /\ Facts(ForCpp, cpp) /\ Facts(ForRust, rust) /\ Facts(ForCs, cs)
  BY DEF Inv
<1>2. ASSUME UNCHANGED <<argv, dns, scarce, found>>
      PROVE  ForC' = ForC /\ ForCpp' = ForCpp /\ ForRust' = ForRust /\ ForCs' = ForCs
  BY <1>2 DEF ForC, ForCpp, ForRust, ForCs, Given, TooLong, Signed
<1>3. CASE C!Step /\ UNCHANGED <<cpp, rust, cs>>
  BY <1>1, <1>2, <1>3, CSteps DEF Inv
<1>4. CASE Cpp!Step /\ UNCHANGED <<c, rust, cs>>
  BY <1>1, <1>2, <1>4, CppSteps DEF Inv
<1>5. CASE Rust!Step /\ UNCHANGED <<c, cpp, cs>>
  BY <1>1, <1>2, <1>5, RustSteps DEF Inv
<1>6. CASE Cs!Step /\ UNCHANGED <<c, cpp, rust>>
  BY <1>1, <1>2, <1>6, CsSteps DEF Inv
<1>7. CASE UNCHANGED vars
  BY <1>1, <1>2, <1>7 DEF Inv, vars
<1> QED
  BY <1>3, <1>4, <1>5, <1>6, <1>7 DEF Next, Terminated

(* The invariant holds of every argument list and every list of addresses. *)
THEOREM InvHolds == Spec => []Inv
BY InitInv, NextInv, PTL DEF Spec

-----------------------------------------------------------------------------
(* What the invariant says of any of the four.                             *)
LEMMA FactsOfPrograms ==
    ASSUME Inv, NEW p \in Programs
    PROVE  \E in :
             /\ Facts(in, p) /\ in.argv = argv /\ in.dns = dns /\ (in.scarce <=> scarce)
             /\ NoneOf(Signed, argv) => Trusted(in)
             /\ NoneOf(Signed, argv) /\ NoneOf(TooLong, argv) => Ordinary(in)
<1>1. \A texts : NoneOf({}, texts)
  BY DEF NoneOf
<1>2. /\ Trusted(ForC) /\ Trusted(ForCpp) /\ Trusted(ForCs) /\ (Trusted(ForRust) <=> NoneOf(Signed, argv))
      /\ Ordinary(ForCpp) /\ Ordinary(ForCs) /\ (Ordinary(ForRust) <=> NoneOf(Signed, argv))
      /\ Ordinary(ForC) <=> NoneOf(TooLong, argv)
  BY <1>1 DEF Trusted, Ordinary, ForC, ForCpp, ForRust, ForCs, Given
<1>3. /\ ForC.argv = argv /\ ForC.dns = dns /\ (ForC.scarce <=> scarce)
      /\ ForCpp.argv = argv /\ ForCpp.dns = dns /\ (ForCpp.scarce <=> scarce)
      /\ ForRust.argv = argv /\ ForRust.dns = dns /\ (ForRust.scarce <=> scarce)
      /\ ForCs.argv = argv /\ ForCs.dns = dns /\ (ForCs.scarce <=> scarce)
  BY DEF ForC, ForCpp, ForRust, ForCs, Given
<1>4. Facts(ForC, c) /\ Facts(ForCpp, cpp) /\ Facts(ForRust, rust) /\ Facts(ForCs, cs)
  BY DEF Inv
<1>5. CASE p = c
  BY <1>2, <1>3, <1>4, <1>5
<1>6. CASE p = cpp
  BY <1>2, <1>3, <1>4, <1>6
<1>7. CASE p = rust
  BY <1>2, <1>3, <1>4, <1>7
<1>8. CASE p = cs
  BY <1>2, <1>3, <1>4, <1>8
<1> QED
  BY <1>5, <1>6, <1>7, <1>8 DEF Programs

(* Whatever the arguments and the resolver's answer, no program scans an   *)
(* address outside the local ranges without --yes-i-own-this.              *)
THEOREM PermissionKept == Spec => []NoScanWithoutPermission
<1>1. Inv => NoScanWithoutPermission
  <2> SUFFICES ASSUME Inv, NEW p \in Programs, p.phase = "scan" \/ p.scanned
               PROVE  InLocalRange(p.address) \/ Confirms(argv)
    BY DEF NoScanWithoutPermission
  <2>1. PICK in : Facts(in, p) /\ in.argv = argv
    BY FactsOfPrograms
  <2>2. p.phase \in Phases
    BY <2>1 DEF Facts, IsProcess
  <2>3. Permitted(in, p)
    BY <2>1, <2>2 DEF Facts, Conclusion, Phases
  <2> QED
    BY <2>1, <2>3 DEF Permitted
<1> QED
  BY <1>1, InvHolds, PTL

(* Every scan starts with ports, a concurrency and a timeout in bounds:    *)
(* what the scan modules assume.                                           *)
THEOREM PreconditionsKept == Spec => []ScanPreconditions
<1>1. Inv => ScanPreconditions
  <2> SUFFICES ASSUME Inv PROVE ScanPreconditions
    OBVIOUS
  <2>1. ASSUME NEW p \in Programs, p.phase = "scan"
        PROVE  /\ ArePorts(p.ports) /\ p.options.target # ""
               /\ p.options.concurrency \in Concurrencies /\ p.options.timeout_ms \in Timeouts
    <3>1. PICK in : Facts(in, p)
      BY FactsOfPrograms
    <3>2. KnowsPorts(in, p) /\ p.options \in Options
      BY <2>1, <3>1 DEF Facts, IsProcess
    <3> QED
      BY <3>2 DEF KnowsPorts, KnowsOptions, Options
  <2> QED
    BY <2>1 DEF ScanPreconditions, ArePorts, Concurrencies, Timeouts
<1> QED
  BY <1>1, InvHolds, PTL

(* An exit code of 0 means a scan or a request for help, and 2 means that  *)
(* no port was probed: the target has no address or, in C and C++, the     *)
(* network did not start.  One exception: an argument that is a number     *)
(* with a plus sign, which the Rust program alone accepts.                 *)
THEOREM ExitCodesHonest == Spec => [](NoneOf(Signed, argv) => ExitCodesAreHonest)
<1>1. Inv => (NoneOf(Signed, argv) => ExitCodesAreHonest)
  <2> SUFFICES ASSUME Inv, NoneOf(Signed, argv) PROVE ExitCodesAreHonest
    OBVIOUS
  <2>1. ASSUME NEW p \in Programs, p.phase = "exit"
        PROVE  /\ p.code = 0 => p.scanned \/ AsksForHelp(argv)
               /\ p.code = 2 => ~p.scanned /\ (dns = << >> \/ scarce)
    <3>1. PICK in : Facts(in, p) /\ in.argv = argv /\ in.dns = dns /\ (in.scarce <=> scarce) /\ Trusted(in)
      BY FactsOfPrograms
    <3>2. Conclusion(in, p)
      BY <2>1, <3>1 DEF Facts
    <3> QED
      BY <3>1, <3>2 DEF Conclusion
  <2>2. ASSUME NEW p \in {rust, cs}, p.phase = "exit", p.code = 2
        PROVE  dns = << >>
    <3>1. PICK in \in {ForRust, ForCs} : Facts(in, p)
      BY DEF Inv
    <3>2. in.dns = dns /\ ~in.starts
      BY DEF ForRust, ForCs, Given
    <3>3. Conclusion(in, p)
      BY <2>2, <3>1 DEF Facts
    <3> QED
      BY <2>2, <3>2, <3>3 DEF Conclusion
  <2> QED
    BY <2>1, <2>2 DEF ExitCodesAreHonest
<1> QED
  BY <1>1, InvHolds, PTL

(* The outcome that README.md:30 gives for the arguments, the target and   *)
(* the permission, for a process p that has ended.                         *)
Documented(p) ==
    /\ DocumentedCode(argv, p.code, dns # <<>>, Confirms(argv) \/ InLocalRange(p.address))
    /\ p.scanned <=> p.code = 0 /\ ~AsksForHelp(argv)

(* A process that ended in its own way ended as documented.                *)
LEMMA ConclusionIsDocumented ==
    ASSUME NEW in, in.argv = argv, in.dns = dns, (in.scarce <=> scarce), ~scarce, Trusted(in), Ordinary(in),
           NEW p, Facts(in, p), Ended(p)
    PROVE  Documented(p)
<1>1. p.phase = "exit"
  BY DEF Facts, Ended
<1>2. Conclusion(in, p)
  BY <1>1 DEF Facts
<1> DEFINE Local == Confirms(argv) \/ InLocalRange(p.address)
<1>3. Permitted(in, p) <=> Local
  BY DEF Permitted
<1>4. KnowsPorts(in, p) => WellFormed(argv) /\ ~AsksForHelp(argv) /\ ValidPorts(PortsText(argv))
  BY DEF KnowsPorts, KnowsOptions
<1> HIDE DEF Local
<1>5. CASE p.code = 0 /\ ~p.scanned /\ AsksForHelp(argv)
  BY <1>5 DEF Documented, DocumentedCode
<1>6. CASE p.code = 0 /\ p.scanned /\ KnowsPorts(in, p) /\ dns # << >> /\ Local
  BY <1>4, <1>6 DEF Documented, DocumentedCode, Local
<1>7. CASE p.code = 1 /\ ~p.scanned /\ ~AsksForHelp(argv) /\ (~WellFormed(argv) \/ ~ValidPorts(PortsText(argv)))
  BY <1>7 DEF Documented, DocumentedCode
<1>8. CASE p.code = 1 /\ ~p.scanned /\ KnowsPorts(in, p) /\ dns # << >> /\ ~Local
  BY <1>4, <1>8 DEF Documented, DocumentedCode, Local
<1>9. CASE p.code = 2 /\ ~p.scanned /\ KnowsPorts(in, p) /\ dns = << >>
  BY <1>4, <1>9 DEF Documented, DocumentedCode
<1> QED
  BY <1>2, <1>3, <1>5, <1>6, <1>7, <1>8, <1>9 DEF Conclusion

(* While nothing runs out all four end as documented, unless an argument   *)
(* is one of the three texts that the Rust or the C program reads in a way *)
(* of its own.                                                             *)
THEOREM OutcomesDocumented ==
    Spec => [](NoneOf(Signed, argv) /\ NoneOf(TooLong, argv) => OutcomeAsDocumented)
<1>1. Inv => (NoneOf(Signed, argv) /\ NoneOf(TooLong, argv) => OutcomeAsDocumented)
  <2> SUFFICES ASSUME Inv, NoneOf(Signed, argv), NoneOf(TooLong, argv), ~scarce, NEW p \in Programs, Ended(p)
               PROVE  Documented(p)
    BY DEF OutcomeAsDocumented, Documented
  <2>1. PICK in : /\ Facts(in, p) /\ in.argv = argv /\ in.dns = dns /\ (in.scarce <=> scarce)
                  /\ Trusted(in) /\ Ordinary(in)
    BY FactsOfPrograms
  <2> QED
    BY <2>1, ConclusionIsDocumented
<1> QED
  BY <1>1, InvHolds, PTL

(* The C++ and C# programs do so without exception.                        *)
THEOREM CppAndCsDocumented == Spec => [](~scarce => \A p \in {cpp, cs} : Ended(p) => Documented(p))
<1>1. Inv => (~scarce => \A p \in {cpp, cs} : Ended(p) => Documented(p))
  <2> SUFFICES ASSUME Inv, ~scarce PROVE (Ended(cpp) => Documented(cpp)) /\ (Ended(cs) => Documented(cs))
    OBVIOUS
  <2>1. Facts(ForCpp, cpp) /\ Facts(ForCs, cs)
    BY DEF Inv
  <2>2. /\ ForCpp.argv = argv /\ ForCpp.dns = dns /\ (ForCpp.scarce <=> scarce)
        /\ ForCs.argv = argv /\ ForCs.dns = dns /\ (ForCs.scarce <=> scarce)
    BY DEF ForCpp, ForCs, Given
  <2>3. Trusted(ForCpp) /\ Ordinary(ForCpp) /\ Trusted(ForCs) /\ Ordinary(ForCs)
    BY DEF Trusted, Ordinary, ForCpp, ForCs, Given, NoneOf
  <2> QED
    BY <2>1, <2>2, <2>3, ConclusionIsDocumented
<1> QED
  BY <1>1, InvHolds, PTL

-----------------------------------------------------------------------------
(* Up to here a process is known by what its exit code means.  What it     *)
(* prints, and that the four print the same, needs all of it: a course has *)
(* what a program makes of the arguments, the port list, the resolver's    *)
(* answer and the findings, and nothing else decides how the program runs. *)

Course(result, valid, ports, address, local, output) ==
    [result |-> result, valid |-> valid, ports |-> ports, address |-> address, local |-> local, output |-> output,
     dns |-> dns, scarce |-> scarce]

CourseOfC ==
    LET r == C!args_parse(argv)
        spec == r.options.ports_spec
    IN  Course(r, C!ports_parse(spec), C!flags(spec), C!prefer_ipv4(dns), C!net_is_local(C!prefer_ipv4(dns)),
               CPrints(r.options, C!flags(spec), found))

CourseOfCpp ==
    LET r == Cpp!parseArgs(argv)
        spec == r.options.ports_spec
    IN  Course(r, Cpp!parsePorts(spec), Cpp!marked(spec), Cpp!chosen(dns), Cpp!isLocalAddress(Cpp!chosen(dns)),
               CppPrints(r.options, Cpp!marked(spec), found))

CourseOfRust ==
    LET r == Rust!parse_args(argv)
        spec == r.options.ports_spec
    IN  Course(r, Rust!parse_ports(spec), Rust!marked(spec), Head(dns), Rust!is_local(Head(dns)),
               RustPrints(r.options, Rust!marked(spec), found))

CourseOfCs ==
    LET r == Cs!Parse(argv)
        spec == r.options.ports_spec
    IN  Course(r, Cs!ParseRange(spec), Cs!marked(spec), Cs!chosen(dns), Cs!IsLocal(Cs!chosen(dns)),
               CsPrints(r.options, Cs!marked(spec), found))

(* The processes on a course, and how it ends.                             *)
Asked(w, phase) == [First EXCEPT !.phase = phase, !.options = w.result.options]
Looking(w) == [Asked(w, "ports") EXCEPT !.phase = "resolve", !.ports = w.ports]
Aimed(w) == [Looking(w) EXCEPT !.phase = "guard", !.address = w.address]
Scanning(w) == [Aimed(w) EXCEPT !.phase = "scan"]
Scanned(w) == [Left(Scanning(w), 0) EXCEPT !.scanned = TRUE, !.output = w.output]

Going(w) == w.result.status = "go"
Valid(w) == Going(w) /\ w.valid
Located(w) == Valid(w) /\ w.dns # << >>
Allowed(w) == Located(w) /\ (w.local \/ w.result.options.confirmed)

Final(w) ==
    IF w.result.status = "help" THEN Left(First, 0)
    ELSE IF w.result.status = "error" THEN Left(First, 1)
    ELSE IF ~w.valid THEN Left(Asked(w, "ports"), 1)
    ELSE IF w.dns = << >> THEN Left(Looking(w), 2)
    ELSE IF ~(w.local \/ w.result.options.confirmed) THEN Left(Aimed(w), 1)
    ELSE Scanned(w)

(* A process is on its course, has ended as it does, or fell short of it.  *)
Reached(w, p) ==
    \/ p = First
    \/ Going(w) /\ (p = Asked(w, "runtime") \/ p = Asked(w, "ports"))
    \/ Valid(w) /\ p = Looking(w)
    \/ Located(w) /\ p = Aimed(w)
    \/ Allowed(w) /\ p = Scanning(w)
    \/ p = Final(w)
    \/ w.scarce /\ Ended(p) /\ p.output = << >>

(* What the processes on a course hold.                                    *)
LEMMA OnCourse ==
    ASSUME NEW w
    PROVE  /\ First.phase = "main" /\ ~First.scanned /\ First.output = << >>
           /\ \A phase : /\ Asked(w, phase).phase = phase /\ Asked(w, phase).options = w.result.options
                        /\ ~Asked(w, phase).scanned /\ Asked(w, phase).output = << >>
           /\ LET p == Looking(w)
              IN  p.phase = "resolve" /\ p.options = w.result.options /\ ~p.scanned /\ p.output = << >>
           /\ LET p == Aimed(w)
              IN  /\ p.phase = "guard" /\ p.options = w.result.options /\ p.address = w.address
                  /\ ~p.scanned /\ p.output = << >>
           /\ LET p == Scanning(w)
              IN  /\ p.phase = "scan" /\ p.options = w.result.options /\ p.ports = w.ports
                  /\ p.address = w.address /\ ~p.scanned /\ p.output = << >>
           /\ LET p == Scanned(w)
              IN  /\ p.phase = "exit" /\ p.options = w.result.options /\ p.ports = w.ports
                  /\ p.address = w.address /\ p.scanned /\ p.output = w.output /\ p.code = 0
<1>1. First.phase = "main" /\ ~First.scanned /\ First.output = << >>
  BY DEF First
<1>2. ASSUME NEW phase
      PROVE  /\ Asked(w, phase).phase = phase /\ Asked(w, phase).options = w.result.options
             /\ ~Asked(w, phase).scanned /\ Asked(w, phase).output = << >>
  BY Zenon DEF Asked, First
<1>3. LET p == Looking(w)
      IN  p.phase = "resolve" /\ p.options = w.result.options /\ ~p.scanned /\ p.output = << >>
  BY Zenon DEF Looking, Asked, First
<1>4. LET p == Aimed(w)
      IN  /\ p.phase = "guard" /\ p.options = w.result.options /\ p.address = w.address
          /\ ~p.scanned /\ p.output = << >>
  BY Zenon DEF Aimed, Looking, Asked, First
<1>5. LET p == Scanning(w)
      IN  /\ p.phase = "scan" /\ p.options = w.result.options /\ p.ports = w.ports
          /\ p.address = w.address /\ ~p.scanned /\ p.output = << >>
  BY Zenon DEF Scanning, Aimed, Looking, Asked, First
<1>6. LET p == Scanned(w)
      IN  /\ p.phase = "exit" /\ p.options = w.result.options /\ p.ports = w.ports
          /\ p.address = w.address /\ p.scanned /\ p.output = w.output /\ p.code = 0
  BY Zenon DEF Scanned, Left, Scanning, Aimed, Looking, Asked, First
<1> QED
  BY <1>1, <1>2, <1>3, <1>4, <1>5, <1>6

(* A process on its course that leaves.                                    *)
Early(w, p) ==
    \/ p = First \/ p = Asked(w, "runtime") \/ p = Asked(w, "ports") \/ p = Looking(w) \/ p = Aimed(w)
    \/ p = Scanning(w)

LEMMA LeavesCourse ==
    ASSUME NEW w, NEW p, Early(w, p), NEW n
    PROVE  Left(p, n).phase = "exit" /\ ~Left(p, n).scanned /\ Left(p, n).output = << >> /\ Left(p, n).code = n
<1> DEFINE Gone(q) == Left(q, n).phase = "exit" /\ ~Left(q, n).scanned /\ Left(q, n).output = << >> /\ Left(q, n).code = n
<1>1. Gone(First)
  BY Zenon DEF Left, First
<1>2. \A phase : Gone(Asked(w, phase))
  BY Zenon DEF Left, Asked, First
<1>3. Gone(Looking(w))
  BY Zenon DEF Left, Looking, Asked, First
<1>4. Gone(Aimed(w))
  BY Zenon DEF Left, Aimed, Looking, Asked, First
<1>5. Gone(Scanning(w))
  BY Zenon DEF Left, Scanning, Aimed, Looking, Asked, First
<1> HIDE DEF Gone
<1>6. Gone(p)
  BY <1>1, <1>2, <1>3, <1>4, <1>5 DEF Early
<1> QED
  BY <1>6 DEF Gone

(* How a course ends, by how far it goes.                                  *)
LEMMA FinalIs ==
    ASSUME NEW w, w.result \in Parser
    PROVE  /\ Final(w).phase = "exit" /\ (Final(w).scanned <=> Allowed(w))
           /\ Allowed(w) => Final(w) = Scanned(w)
           /\ ~Allowed(w) => Final(w).output = << >>
<1>1. w.result.status \in {"go", "help", "error"}
  BY DEF Parser
<1>2. CASE Allowed(w)
  <2>1. Final(w) = Scanned(w)
    BY <1>2 DEF Final, Allowed, Located, Valid, Going
  <2>2. Scanned(w).phase = "exit" /\ Scanned(w).scanned
    BY OnCourse
  <2> QED
    BY <1>2, <2>1, <2>2
<1>3. CASE ~Allowed(w)
  <2>1. PICK p, n : Early(w, p) /\ Final(w) = Left(p, n)
    BY <1>1, <1>3 DEF Final, Allowed, Located, Valid, Going, Early
  <2>2. Left(p, n).phase = "exit" /\ ~Left(p, n).scanned /\ Left(p, n).output = << >>
    BY <2>1, LeavesCourse
  <2> QED
    BY <1>3, <2>1, <2>2
<1> QED
  BY <1>2, <1>3

(* Where a process is on its course, by its phase.                         *)
LEMMA PhaseOnCourse ==
    ASSUME NEW w, w.result \in Parser, NEW p, Reached(w, p)
    PROVE  /\ p.phase = "main" => p = First
           /\ p.phase = "runtime" => Going(w) /\ p = Asked(w, "runtime")
           /\ p.phase = "ports" => Going(w) /\ p = Asked(w, "ports")
           /\ p.phase = "resolve" => Valid(w) /\ p = Looking(w)
           /\ p.phase = "guard" => Located(w) /\ p = Aimed(w)
           /\ p.phase = "scan" => Allowed(w) /\ p = Scanning(w)
           /\ Ended(p) => p = Final(w) \/ w.scarce
           /\ p.output # << >> => p = Final(w) /\ Allowed(w)
<1>1. Final(w).phase = "exit" /\ (~Allowed(w) => Final(w).output = << >>)
  BY FinalIs
<1>2. First.phase = "main" /\ First.output = << >>
  BY DEF First
<1>3. \A phase : Asked(w, phase).phase = phase /\ Asked(w, phase).output = << >>
  BY Zenon DEF Asked, First
<1>4. Looking(w).phase = "resolve" /\ Looking(w).output = << >>
  BY OnCourse
<1>5. Aimed(w).phase = "guard" /\ Aimed(w).output = << >>
  BY OnCourse
<1>6. Scanning(w).phase = "scan" /\ Scanning(w).output = << >>
  BY OnCourse
<1> QED
  BY <1>1, <1>2, <1>3, <1>4, <1>5, <1>6 DEF Reached, Ended

(* A process that leaves for lack of something falls short of its course.  *)
LEMMA FallsShort ==
    ASSUME NEW w, w.result \in Parser, w.scarce, NEW p, Reached(w, p), ~Ended(p), NEW n
    PROVE  Reached(w, Left(p, n))
<1>1. Early(w, p)
  BY FinalIs DEF Reached, Ended, Early
<1>2. Left(p, n).phase = "exit" /\ Left(p, n).output = << >>
  BY <1>1, LeavesCourse
<1> QED
  BY <1>2 DEF Reached, Ended

(* The steps keep to the course.                                           *)
LEMMA ReadsOnCourse ==
    ASSUME NEW w, w.result \in Parser, NEW p, Reached(w, p), p.phase = "main", NEW next \in {"runtime", "ports"}
    PROVE  Reached(w, CASE w.result.status = "help" -> Left(p, 0)
                        [] w.result.status = "error" -> Left(p, 1)
                        [] w.result.status = "go" -> [p EXCEPT !.phase = next, !.options = w.result.options])
<1>1. p = First /\ w.result.status \in {"go", "help", "error"}
  BY PhaseOnCourse DEF Parser
<1>2. [First EXCEPT !.phase = next, !.options = w.result.options] = Asked(w, next)
  BY DEF Asked
<1>3. CASE w.result.status = "help"
  BY <1>1, <1>3 DEF Reached, Final
<1>4. CASE w.result.status = "error"
  BY <1>1, <1>4 DEF Reached, Final
<1>5. CASE w.result.status = "go"
  BY <1>1, <1>2, <1>5 DEF Reached, Going
<1> QED
  BY <1>1, <1>3, <1>4, <1>5

LEMMA BuildsOnCourse ==
    ASSUME NEW w, w.result \in Parser, NEW p, Reached(w, p), p.phase = "runtime"
    PROVE  Reached(w, [p EXCEPT !.phase = "ports"])
<1>1. Going(w) /\ p = Asked(w, "runtime")
  BY PhaseOnCourse
<1>2. First = [x \in DOMAIN First |-> First[x]]
  BY Zenon DEF First
<1>3. [Asked(w, "runtime") EXCEPT !.phase = "ports"] = Asked(w, "ports")
  BY <1>2, Zenon DEF Asked
<1> QED
  BY <1>1, <1>3 DEF Reached

LEMMA ParsesOnCourse ==
    ASSUME NEW w, w.result \in Parser, NEW p, Reached(w, p), p.phase = "ports"
    PROVE  /\ p.options = w.result.options
           /\ w.valid => Reached(w, [p EXCEPT !.phase = "resolve", !.ports = w.ports])
           /\ ~w.valid => Reached(w, Left(p, 1))
<1>1. Going(w) /\ p = Asked(w, "ports")
  BY PhaseOnCourse
<1>2. [p EXCEPT !.phase = "resolve", !.ports = w.ports] = Looking(w)
  BY <1>1 DEF Looking
<1>4. p.options = w.result.options
  <2>1. Asked(w, "ports").options = w.result.options
    BY OnCourse
  <2> QED
    BY <1>1, <2>1
<1>3. ~w.valid => Left(p, 1) = Final(w)
  BY <1>1 DEF Final, Going
<1> QED
  BY <1>1, <1>2, <1>3, <1>4 DEF Reached, Valid

LEMMA ResolvesOnCourse ==
    ASSUME NEW w, w.result \in Parser, NEW p, Reached(w, p), p.phase = "resolve"
    PROVE  Reached(w, IF w.dns = << >> THEN Left(p, 2) ELSE [p EXCEPT !.phase = "guard", !.address = w.address])
<1>1. Valid(w) /\ p = Looking(w)
  BY PhaseOnCourse
<1>2. [p EXCEPT !.phase = "guard", !.address = w.address] = Aimed(w)
  BY <1>1 DEF Aimed
<1>3. w.dns = << >> => Left(p, 2) = Final(w)
  BY <1>1 DEF Final, Valid, Going
<1> QED
  BY <1>1, <1>2, <1>3 DEF Reached, Located

LEMMA ChecksOnCourse ==
    ASSUME NEW w, w.result \in Parser, NEW p, Reached(w, p), p.phase = "guard"
    PROVE  /\ p.address = w.address
           /\ Reached(w, IF w.local \/ p.options.confirmed THEN [p EXCEPT !.phase = "scan"] ELSE Left(p, 1))
<1>1. Located(w) /\ p = Aimed(w)
  BY PhaseOnCourse
<1>2. [p EXCEPT !.phase = "scan"] = Scanning(w)
  BY <1>1 DEF Scanning
<1>4. p.address = w.address /\ p.options = w.result.options
  BY <1>1, OnCourse
<1>3. ~(w.local \/ w.result.options.confirmed) => Left(p, 1) = Final(w)
  BY <1>1 DEF Final, Located, Valid, Going
<1> QED
  BY <1>1, <1>2, <1>3, <1>4 DEF Reached, Allowed

LEMMA ScansOnCourse ==
    ASSUME NEW w, w.result \in Parser, NEW p, Reached(w, p), p.phase = "scan"
    PROVE  /\ p.options = w.result.options /\ p.ports = w.ports
           /\ Reached(w, [Left(p, 0) EXCEPT !.scanned = TRUE, !.output = w.output])
           /\ \A end \in {"terminated", "crashed"} : w.scarce => Reached(w, [p EXCEPT !.phase = end, !.scanned = TRUE])
<1>1. Allowed(w) /\ p = Scanning(w)
  BY PhaseOnCourse
<1>2. p.options = w.result.options /\ p.ports = w.ports
  BY <1>1, OnCourse
<1>3. [Left(p, 0) EXCEPT !.scanned = TRUE, !.output = w.output] = Final(w)
  BY <1>1, FinalIs DEF Scanned
<1>4. ASSUME NEW end \in {"terminated", "crashed"}
      PROVE  /\ [p EXCEPT !.phase = end, !.scanned = TRUE].phase = end
             /\ [p EXCEPT !.phase = end, !.scanned = TRUE].output = << >>
  BY <1>1, Zenon DEF Scanning, Aimed, Looking, Asked, First
<1> QED
  BY <1>2, <1>3, <1>4 DEF Reached, Ended

LEMMA PanicsOnCourse ==
    ASSUME NEW w, w.result \in Parser, w.scarce, NEW p, Reached(w, p), p.phase = "scan"
    PROVE  Reached(w, [Left(p, 101) EXCEPT !.scanned = TRUE])
<1>1. p = Scanning(w)
  BY PhaseOnCourse
<1>2. /\ [Left(p, 101) EXCEPT !.scanned = TRUE].phase = "exit"
      /\ [Left(p, 101) EXCEPT !.scanned = TRUE].output = << >>
  BY <1>1, Zenon DEF Left, Scanning, Aimed, Looking, Asked, First
<1> QED
  BY <1>2 DEF Reached, Ended

(* Each step of the C program keeps to its course.                         *)
LEMMA CKeepsCourse ==
    ASSUME argv \in Seq(Text), AreFindings(found), Reached(CourseOfC, c), C!Step
    PROVE  Reached(CourseOfC, c')
<1> DEFINE w == CourseOfC
           r == C!args_parse(argv)
<1>1. /\ w.result = r /\ (w.valid <=> C!ports_parse(r.options.ports_spec)) /\ w.ports = C!flags(r.options.ports_spec)
      /\ w.address = C!prefer_ipv4(dns) /\ (w.local <=> C!net_is_local(C!prefer_ipv4(dns)))
      /\ w.output = CPrints(r.options, w.ports, found) /\ w.dns = dns /\ (w.scarce <=> scarce)
  BY DEF CourseOfC, Course
<1>2. w.result \in Parser
  BY <1>1, ParsersUnderstand DEF Understood
<1>3. \A n : C!Exit(n) = Left(c, n)
  BY DEF C!Exit, Left
<1>4. Reached(w, c)
  OBVIOUS
<1> HIDE DEF w
<1> SUFFICES Reached(w, c')
  BY DEF w
<1>5. CASE C!main
  <2>1. c.phase = "main"
    BY <1>5 DEF C!main
  <2>2. CASE scarce /\ c' = Left(c, 2)
    BY <1>1, <1>2, <1>4, <2>1, <2>2, FallsShort DEF Ended
  <2>3. CASE c' = CASE w.result.status = "help" -> Left(c, 0)
                     [] w.result.status = "error" -> Left(c, 1)
                     [] w.result.status = "go" -> [c EXCEPT !.phase = "ports", !.options = w.result.options]
    BY <1>2, <1>4, <2>1, <2>3, ReadsOnCourse
  <2> QED
    BY <1>1, <1>3, <1>5, <2>2, <2>3 DEF C!main
<1>6. CASE C!ParsePorts
  <2>1. c.phase = "ports"
    BY <1>6 DEF C!ParsePorts
  <2>2. /\ c.options = w.result.options
        /\ w.valid => Reached(w, [c EXCEPT !.phase = "resolve", !.ports = w.ports])
        /\ ~w.valid => Reached(w, Left(c, 1))
    BY <1>2, <1>4, <2>1, ParsesOnCourse
  <2>3. \/ w.valid /\ c' = [c EXCEPT !.phase = "resolve", !.ports = w.ports]
        \/ ~w.valid /\ c' = Left(c, 1)
        \/ scarce /\ c' = Left(c, 1)
    BY <1>1, <1>3, <1>6, <2>2 DEF C!ParsePorts
  <2>4. scarce => Reached(w, Left(c, 1))
    BY <1>1, <1>2, <1>4, <2>1, FallsShort DEF Ended
  <2> QED
    BY <2>2, <2>3, <2>4
<1>7. CASE C!net_resolve
  <2>1. /\ c.phase = "resolve"
        /\ c' = IF w.dns = << >> THEN Left(c, 2) ELSE [c EXCEPT !.phase = "guard", !.address = w.address]
    BY <1>1, <1>3, <1>7 DEF C!net_resolve
  <2> QED
    BY <1>2, <1>4, <2>1, ResolvesOnCourse
<1>8. CASE C!is_scan_allowed
  <2>1. c.phase = "guard"
    BY <1>8 DEF C!is_scan_allowed
  <2>2. /\ c.address = w.address
        /\ Reached(w, IF w.local \/ c.options.confirmed THEN [c EXCEPT !.phase = "scan"] ELSE Left(c, 1))
    BY <1>2, <1>4, <2>1, ChecksOnCourse
  <2>3. c' = IF w.local \/ c.options.confirmed THEN [c EXCEPT !.phase = "scan"] ELSE Left(c, 1)
    BY <1>1, <1>3, <1>8, <2>2 DEF C!is_scan_allowed
  <2> QED
    BY <2>2, <2>3
<1>9. CASE C!run_scan
  <2>1. c.phase = "scan"
    BY <1>9 DEF C!run_scan
  <2>2. /\ c.options = w.result.options /\ c.ports = w.ports
        /\ Reached(w, [Left(c, 0) EXCEPT !.scanned = TRUE, !.output = w.output])
        /\ \A end \in {"terminated", "crashed"} : w.scarce => Reached(w, [c EXCEPT !.phase = end, !.scanned = TRUE])
    BY <1>2, <1>4, <2>1, ScansOnCourse
  <2>3. C!report = w.output
    BY <1>1, <2>2, ReportsOfPrograms
  <2>4. \/ c' = [Left(c, 0) EXCEPT !.scanned = TRUE, !.output = w.output]
        \/ scarce /\ c' = Left(c, 1)
    BY <1>3, <1>9, <2>3 DEF C!run_scan
  <2>5. scarce => Reached(w, Left(c, 1))
    BY <1>1, <1>2, <1>4, <2>1, FallsShort DEF Ended
  <2> QED
    BY <2>2, <2>4, <2>5
<1> QED
  BY <1>5, <1>6, <1>7, <1>8, <1>9 DEF C!Step

(* Each step of the C++ program keeps to its course.                     *)
LEMMA CppKeepsCourse ==
    ASSUME argv \in Seq(Text), AreFindings(found), Reached(CourseOfCpp, cpp), Cpp!Step
    PROVE  Reached(CourseOfCpp, cpp')
<1> DEFINE w == CourseOfCpp
           r == Cpp!parseArgs(argv)
<1>1. /\ w.result = r /\ (w.valid <=> Cpp!parsePorts(r.options.ports_spec)) /\ w.ports = Cpp!marked(r.options.ports_spec)
      /\ w.address = Cpp!chosen(dns) /\ (w.local <=> Cpp!isLocalAddress(Cpp!chosen(dns)))
      /\ w.output = CppPrints(r.options, w.ports, found) /\ w.dns = dns /\ (w.scarce <=> scarce)
  BY DEF CourseOfCpp, Course
<1>2. w.result \in Parser
  BY <1>1, ParsersUnderstand DEF Understood
<1>3. \A n : Cpp!Exit(n) = Left(cpp, n)
  BY DEF Cpp!Exit, Left
<1>4. Reached(w, cpp)
  OBVIOUS
<1> HIDE DEF w
<1> SUFFICES Reached(w, cpp')
  BY DEF w
<1>5. CASE Cpp!main
  <2>1. cpp.phase = "main"
    BY <1>5 DEF Cpp!main
  <2>2. CASE scarce /\ cpp' = Left(cpp, 2)
    BY <1>1, <1>2, <1>4, <2>1, <2>2, FallsShort DEF Ended
  <2>3. CASE cpp' = CASE w.result.status = "help" -> Left(cpp, 0)
                     [] w.result.status = "error" -> Left(cpp, 1)
                     [] w.result.status = "go" -> [cpp EXCEPT !.phase = "ports", !.options = w.result.options]
    BY <1>2, <1>4, <2>1, <2>3, ReadsOnCourse
  <2> QED
    BY <1>1, <1>3, <1>5, <2>2, <2>3 DEF Cpp!main
<1>6. CASE Cpp!ParsePorts
  <2>1. cpp.phase = "ports"
    BY <1>6 DEF Cpp!ParsePorts
  <2>2. /\ cpp.options = w.result.options
        /\ w.valid => Reached(w, [cpp EXCEPT !.phase = "resolve", !.ports = w.ports])
        /\ ~w.valid => Reached(w, Left(cpp, 1))
    BY <1>2, <1>4, <2>1, ParsesOnCourse
  <2>3. \/ w.valid /\ cpp' = [cpp EXCEPT !.phase = "resolve", !.ports = w.ports]
        \/ ~w.valid /\ cpp' = Left(cpp, 1)
    BY <1>1, <1>3, <1>6, <2>2 DEF Cpp!ParsePorts
  <2> QED
    BY <2>2, <2>3
<1>7. CASE Cpp!resolve
  <2>1. /\ cpp.phase = "resolve"
        /\ cpp' = IF w.dns = << >> THEN Left(cpp, 2) ELSE [cpp EXCEPT !.phase = "guard", !.address = w.address]
    BY <1>1, <1>3, <1>7 DEF Cpp!resolve
  <2> QED
    BY <1>2, <1>4, <2>1, ResolvesOnCourse
<1>8. CASE Cpp!scanAllowed
  <2>1. cpp.phase = "guard"
    BY <1>8 DEF Cpp!scanAllowed
  <2>2. /\ cpp.address = w.address
        /\ Reached(w, IF w.local \/ cpp.options.confirmed THEN [cpp EXCEPT !.phase = "scan"] ELSE Left(cpp, 1))
    BY <1>2, <1>4, <2>1, ChecksOnCourse
  <2>3. cpp' = IF w.local \/ cpp.options.confirmed THEN [cpp EXCEPT !.phase = "scan"] ELSE Left(cpp, 1)
    BY <1>1, <1>3, <1>8, <2>2 DEF Cpp!scanAllowed
  <2> QED
    BY <2>2, <2>3
<1>9. CASE Cpp!runScan
  <2>1. cpp.phase = "scan"
    BY <1>9 DEF Cpp!runScan
  <2>2. /\ cpp.options = w.result.options /\ cpp.ports = w.ports
        /\ Reached(w, [Left(cpp, 0) EXCEPT !.scanned = TRUE, !.output = w.output])
        /\ \A end \in {"terminated", "crashed"} : w.scarce => Reached(w, [cpp EXCEPT !.phase = end, !.scanned = TRUE])
    BY <1>2, <1>4, <2>1, ScansOnCourse
  <2>3. Cpp!report = w.output
    BY <1>1, <2>2, ReportsOfPrograms
  <2>4. \/ cpp' = [Left(cpp, 0) EXCEPT !.scanned = TRUE, !.output = w.output]
        \/ scarce /\ cpp' = [cpp EXCEPT !.phase = "terminated", !.scanned = TRUE]
    BY <1>3, <1>9, <2>3 DEF Cpp!runScan
  <2> QED
    BY <1>1, <2>2, <2>4
<1> QED
  BY <1>5, <1>6, <1>7, <1>8, <1>9 DEF Cpp!Step

(* Each step of the Rust program keeps to its course.                    *)
LEMMA RustKeepsCourse ==
    ASSUME argv \in Seq(Text), AreFindings(found), Reached(CourseOfRust, rust), Rust!Step
    PROVE  Reached(CourseOfRust, rust')
<1> DEFINE w == CourseOfRust
           r == Rust!parse_args(argv)
<1>1. /\ w.result = r /\ (w.valid <=> Rust!parse_ports(r.options.ports_spec)) /\ w.ports = Rust!marked(r.options.ports_spec)
      /\ w.address = Head(dns) /\ (w.local <=> Rust!is_local(Head(dns)))
      /\ w.output = RustPrints(r.options, w.ports, found) /\ w.dns = dns /\ (w.scarce <=> scarce)
  BY DEF CourseOfRust, Course
<1>2. w.result \in Parser
  BY <1>1, ParsersUnderstand DEF Understood
<1>3. \A n : Rust!Exit(n) = Left(rust, n)
  BY DEF Rust!Exit, Left
<1>4. Reached(w, rust)
  OBVIOUS
<1> HIDE DEF w
<1> SUFFICES Reached(w, rust')
  BY DEF w
<1>5. CASE Rust!main
  <2>1. rust.phase = "main"
    BY <1>5 DEF Rust!main
  <2>2. rust' = CASE w.result.status = "help" -> Left(rust, 0)
               [] w.result.status = "error" -> Left(rust, 1)
               [] w.result.status = "go" -> [rust EXCEPT !.phase = "runtime", !.options = w.result.options]
    BY <1>1, <1>3, <1>5 DEF Rust!main
  <2> QED
    BY <1>2, <1>4, <2>1, <2>2, ReadsOnCourse
<1>6. CASE Rust!ParsePorts
  <2>1. rust.phase = "ports"
    BY <1>6 DEF Rust!ParsePorts
  <2>2. /\ rust.options = w.result.options
        /\ w.valid => Reached(w, [rust EXCEPT !.phase = "resolve", !.ports = w.ports])
        /\ ~w.valid => Reached(w, Left(rust, 1))
    BY <1>2, <1>4, <2>1, ParsesOnCourse
  <2>3. \/ w.valid /\ rust' = [rust EXCEPT !.phase = "resolve", !.ports = w.ports]
        \/ ~w.valid /\ rust' = Left(rust, 1)
    BY <1>1, <1>3, <1>6, <2>2 DEF Rust!ParsePorts
  <2> QED
    BY <2>2, <2>3
<1>7. CASE Rust!resolve
  <2>1. /\ rust.phase = "resolve"
        /\ rust' = IF w.dns = << >> THEN Left(rust, 2) ELSE [rust EXCEPT !.phase = "guard", !.address = w.address]
    BY <1>1, <1>3, <1>7 DEF Rust!resolve
  <2> QED
    BY <1>2, <1>4, <2>1, ResolvesOnCourse
<1>8. CASE Rust!CheckPermission
  <2>1. rust.phase = "guard"
    BY <1>8 DEF Rust!CheckPermission
  <2>2. /\ rust.address = w.address
        /\ Reached(w, IF w.local \/ rust.options.confirmed THEN [rust EXCEPT !.phase = "scan"] ELSE Left(rust, 1))
    BY <1>2, <1>4, <2>1, ChecksOnCourse
  <2>3. rust' = IF w.local \/ rust.options.confirmed THEN [rust EXCEPT !.phase = "scan"] ELSE Left(rust, 1)
    BY <1>1, <1>3, <1>8, <2>2 DEF Rust!CheckPermission
  <2> QED
    BY <2>2, <2>3
<1>9. CASE Rust!ScanAndReport
  <2>1. rust.phase = "scan"
    BY <1>9 DEF Rust!ScanAndReport
  <2>2. /\ rust.options = w.result.options /\ rust.ports = w.ports
        /\ Reached(w, [Left(rust, 0) EXCEPT !.scanned = TRUE, !.output = w.output])
        /\ \A end \in {"terminated", "crashed"} : w.scarce => Reached(w, [rust EXCEPT !.phase = end, !.scanned = TRUE])
    BY <1>2, <1>4, <2>1, ScansOnCourse
  <2>3. Rust!report = w.output
    BY <1>1, <2>2, ReportsOfPrograms
  <2>4. CASE scarce /\ rust' = [Left(rust, 101) EXCEPT !.scanned = TRUE]
    BY <1>1, <1>2, <1>4, <2>1, <2>4, PanicsOnCourse
  <2>5. CASE rust' = [Left(rust, 0) EXCEPT !.scanned = TRUE, !.output = w.output]
    BY <2>2, <2>5
  <2> QED
    BY <1>3, <1>9, <2>3, <2>4, <2>5 DEF Rust!ScanAndReport
<1>10. CASE Rust!BuildRuntime
  <2>1. /\ rust.phase = "runtime"
        /\ rust' = [rust EXCEPT !.phase = "ports"] \/ (scarce /\ rust' = Left(rust, 101))
    BY <1>3, <1>10 DEF Rust!BuildRuntime
  <2>2. Reached(w, [rust EXCEPT !.phase = "ports"])
    BY <1>2, <1>4, <2>1, BuildsOnCourse
  <2>3. scarce => Reached(w, Left(rust, 101))
    BY <1>1, <1>2, <1>4, <2>1, FallsShort DEF Ended
  <2> QED
    BY <2>1, <2>2, <2>3
<1> QED
  BY <1>5, <1>6, <1>7, <1>8, <1>9, <1>10 DEF Rust!Step

(* Each step of the C# program keeps to its course.                      *)
LEMMA CsKeepsCourse ==
    ASSUME argv \in Seq(Text), AreFindings(found), Reached(CourseOfCs, cs), Cs!Step
    PROVE  Reached(CourseOfCs, cs')
<1> DEFINE w == CourseOfCs
           r == Cs!Parse(argv)
<1>1. /\ w.result = r /\ (w.valid <=> Cs!ParseRange(r.options.ports_spec)) /\ w.ports = Cs!marked(r.options.ports_spec)
      /\ w.address = Cs!chosen(dns) /\ (w.local <=> Cs!IsLocal(Cs!chosen(dns)))
      /\ w.output = CsPrints(r.options, w.ports, found) /\ w.dns = dns /\ (w.scarce <=> scarce)
  BY DEF CourseOfCs, Course
<1>2. w.result \in Parser
  BY <1>1, ParsersUnderstand DEF Understood
<1>3. \A n : Cs!Exit(n) = Left(cs, n)
  BY DEF Cs!Exit, Left
<1>4. Reached(w, cs)
  OBVIOUS
<1> HIDE DEF w
<1> SUFFICES Reached(w, cs')
  BY DEF w
<1>5. CASE Cs!Main
  <2>1. cs.phase = "main"
    BY <1>5 DEF Cs!Main
  <2>2. cs' = CASE w.result.status = "help" -> Left(cs, 0)
               [] w.result.status = "error" -> Left(cs, 1)
               [] w.result.status = "go" -> [cs EXCEPT !.phase = "ports", !.options = w.result.options]
    BY <1>1, <1>3, <1>5 DEF Cs!Main
  <2> QED
    BY <1>2, <1>4, <2>1, <2>2, ReadsOnCourse
<1>6. CASE Cs!ParsePorts
  <2>1. cs.phase = "ports"
    BY <1>6 DEF Cs!ParsePorts
  <2>2. /\ cs.options = w.result.options
        /\ w.valid => Reached(w, [cs EXCEPT !.phase = "resolve", !.ports = w.ports])
        /\ ~w.valid => Reached(w, Left(cs, 1))
    BY <1>2, <1>4, <2>1, ParsesOnCourse
  <2>3. \/ w.valid /\ cs' = [cs EXCEPT !.phase = "resolve", !.ports = w.ports]
        \/ ~w.valid /\ cs' = Left(cs, 1)
    BY <1>1, <1>3, <1>6, <2>2 DEF Cs!ParsePorts
  <2> QED
    BY <2>2, <2>3
<1>7. CASE Cs!ResolveAsync
  <2>1. /\ cs.phase = "resolve"
        /\ cs' = IF w.dns = << >> THEN Left(cs, 2) ELSE [cs EXCEPT !.phase = "guard", !.address = w.address]
    BY <1>1, <1>3, <1>7 DEF Cs!ResolveAsync
  <2> QED
    BY <1>2, <1>4, <2>1, ResolvesOnCourse
<1>8. CASE Cs!CheckPermission
  <2>1. cs.phase = "guard"
    BY <1>8 DEF Cs!CheckPermission
  <2>2. /\ cs.address = w.address
        /\ Reached(w, IF w.local \/ cs.options.confirmed THEN [cs EXCEPT !.phase = "scan"] ELSE Left(cs, 1))
    BY <1>2, <1>4, <2>1, ChecksOnCourse
  <2>3. cs' = IF w.local \/ cs.options.confirmed THEN [cs EXCEPT !.phase = "scan"] ELSE Left(cs, 1)
    BY <1>1, <1>3, <1>8, <2>2 DEF Cs!CheckPermission
  <2> QED
    BY <2>2, <2>3
<1>9. CASE Cs!ScanAndReport
  <2>1. cs.phase = "scan"
    BY <1>9 DEF Cs!ScanAndReport
  <2>2. /\ cs.options = w.result.options /\ cs.ports = w.ports
        /\ Reached(w, [Left(cs, 0) EXCEPT !.scanned = TRUE, !.output = w.output])
        /\ \A end \in {"terminated", "crashed"} : w.scarce => Reached(w, [cs EXCEPT !.phase = end, !.scanned = TRUE])
    BY <1>2, <1>4, <2>1, ScansOnCourse
  <2>3. Cs!report = w.output
    BY <1>1, <2>2, ReportsOfPrograms
  <2>4. \/ cs' = [Left(cs, 0) EXCEPT !.scanned = TRUE, !.output = w.output]
        \/ scarce /\ cs' = [cs EXCEPT !.phase = "crashed", !.scanned = TRUE]
    BY <1>3, <1>9, <2>3 DEF Cs!ScanAndReport
  <2> QED
    BY <1>1, <2>2, <2>4
<1> QED
  BY <1>5, <1>6, <1>7, <1>8, <1>9 DEF Cs!Step

(* The invariant: what is given is in order, and every program is on its   *)
(* course.                                                                 *)
Traced ==
    /\ argv \in Seq(Text) /\ dns \in Seq(Address) /\ AreFindings(found)
    /\ \A k \in DOMAIN argv : argv[k] \notin Reserved
    /\ Reached(CourseOfC, c) /\ Reached(CourseOfCpp, cpp)
    /\ Reached(CourseOfRust, rust) /\ Reached(CourseOfCs, cs)

LEMMA InitTraced == Init => Traced
<1> SUFFICES ASSUME Init PROVE Traced
  OBVIOUS
<1>1. argv \in Seq(Text) /\ dns \in Seq(Address)
  BY InitInv DEF Inv
<1>2. PICK input \in Inputs : argv = input.argv /\ found = input.found
  BY DEF Init
<1>3. AreFindings(found)
  <2>1. Seq(STRING) \subseteq Chain
    <3>1. STRING \subseteq Piece
      BY DEF Piece, Text
    <3>2. \A S, T : S \subseteq T => Seq(S) \subseteq Seq(T)
      OBVIOUS
    <3> QED
      BY <3>1, <3>2 DEF Chain
  <2>2. ASSUME NEW port \in DOMAIN found PROVE found[port] \in [state : States, bytes : Chain]
    <3>1. found[port] \in [state : {"open", "closed", "filtered", "error"}, bytes : Seq(STRING)]
      BY <1>2, <2>2, InputsAssumption
    <3> QED
      BY <2>1, <3>1 DEF States
  <2> QED
    BY <2>2 DEF AreFindings
<1>4. \A k \in DOMAIN argv : argv[k] \notin Reserved
  BY <1>2, NamesAssumption
<1>5. \A w : Reached(w, First)
  BY DEF Reached
<1> QED
  BY <1>1, <1>3, <1>4, <1>5, StartsFirst DEF Traced

(* What is given stays, and so do the courses.                             *)
LEMMA NextTraced == Traced /\ [Next]_vars => Traced'
<1> SUFFICES ASSUME Traced, [Next]_vars PROVE Traced'
  OBVIOUS
<1>1. /\ argv \in Seq(Text) /\ dns \in Seq(Address) /\ AreFindings(found)
      /\ \A k \in DOMAIN argv : argv[k] \notin Reserved
      /\ Reached(CourseOfC, c) /\ Reached(CourseOfCpp, cpp)
      /\ Reached(CourseOfRust, rust) /\ Reached(CourseOfCs, cs)
  BY DEF Traced
<1>2. UNCHANGED <<argv, dns, scarce, found>>
  BY DEF Next, vars, Terminated, C!Step, Cpp!Step, Rust!Step, Cs!Step
<1>3. CourseOfC' = CourseOfC
  BY <1>2 DEF CourseOfC, Course
<1>4. CourseOfCpp' = CourseOfCpp
  BY <1>2 DEF CourseOfCpp, Course
<1>5. CourseOfRust' = CourseOfRust
  BY <1>2 DEF CourseOfRust, Course
<1>6. CourseOfCs' = CourseOfCs
  BY <1>2 DEF CourseOfCs, Course
<1> SUFFICES /\ Reached(CourseOfC, c') /\ Reached(CourseOfCpp, cpp')
             /\ Reached(CourseOfRust, rust') /\ Reached(CourseOfCs, cs')
  <2>1. /\ Reached(CourseOfC, c)' = Reached(CourseOfC', c') /\ Reached(CourseOfCpp, cpp)' = Reached(CourseOfCpp', cpp')
        /\ Reached(CourseOfRust, rust)' = Reached(CourseOfRust', rust')
        /\ Reached(CourseOfCs, cs)' = Reached(CourseOfCs', cs')
    OBVIOUS
  <2>2. argv' \in Seq(Text) /\ dns' \in Seq(Address) /\ AreFindings(found)'
        /\ \A k \in DOMAIN argv' : argv'[k] \notin Reserved
    BY <1>1, <1>2 DEF AreFindings
  <2> QED
    BY <1>3, <1>4, <1>5, <1>6, <2>1, <2>2 DEF Traced
<1>7. CASE C!Step /\ UNCHANGED <<cpp, rust, cs>>
  BY <1>1, <1>7, CKeepsCourse
<1>8. CASE Cpp!Step /\ UNCHANGED <<c, rust, cs>>
  BY <1>1, <1>8, CppKeepsCourse
<1>9. CASE Rust!Step /\ UNCHANGED <<c, cpp, cs>>
  BY <1>1, <1>9, RustKeepsCourse
<1>10. CASE Cs!Step /\ UNCHANGED <<c, cpp, rust>>
  BY <1>1, <1>10, CsKeepsCourse
<1>11. CASE UNCHANGED vars
  BY <1>1, <1>11 DEF vars
<1> QED
  BY <1>7, <1>8, <1>9, <1>10, <1>11 DEF Next, Terminated

(* Every program keeps to the course that its arguments, the resolver and  *)
(* the findings set for it, until it ends or something runs out.           *)
THEOREM OnTheirCourses == Spec => []Traced
BY InitTraced, NextTraced, PTL DEF Spec

-----------------------------------------------------------------------------
(* What a scan starts with, and what it prints, for every target or only   *)
(* for one that JSON can hold as it is.                                    *)
Faithful(w, everyTarget) ==
    Allowed(w) =>
        /\ w.result.options.target \in Text /\ w.result.options.target \notin Reserved
        /\ w.ports \in SUBSET (1 .. HighestPort)
        /\ everyTarget \/ Ascii(w.result.options) => w.output = Report(w.result.options, w.ports, found)

LEMMA CoursesAreFaithful ==
    ASSUME Traced
    PROVE  /\ Faithful(CourseOfC, TRUE) /\ Faithful(CourseOfCpp, TRUE)
           /\ Faithful(CourseOfRust, FALSE) /\ Faithful(CourseOfCs, FALSE)
<1>1. argv \in Seq(Text) /\ AreFindings(found) /\ \A k \in DOMAIN argv : argv[k] \notin Reserved
  BY DEF Traced
<1>2. ASSUME NEW in, NEW r, Understood(in, r), r.status = "go", FromArguments(r.options.target, argv)
      PROVE  r.options.target \in Text /\ r.options.target \notin Reserved
  <2>1. r.options \in Options /\ r.options.target # ""
    BY <1>2 DEF Understood, Parser
  <2> QED
    BY <1>1, <1>2, <2>1 DEF FromArguments, Options
<1>3. Faithful(CourseOfC, TRUE)
  <2> DEFINE w == CourseOfC
             r == C!args_parse(argv)
  <2> SUFFICES ASSUME Allowed(w)
               PROVE  /\ w.result.options.target \in Text /\ w.result.options.target \notin Reserved
                      /\ w.ports \in SUBSET (1 .. HighestPort)
                      /\ w.output = Report(w.result.options, w.ports, found)
    BY DEF Faithful
  <2>1. /\ w.result = r /\ (w.valid <=> C!ports_parse(r.options.ports_spec)) /\ w.ports = C!flags(r.options.ports_spec)
        /\ w.output = CPrints(r.options, w.ports, found)
    BY DEF CourseOfC, Course
  <2> HIDE DEF w
  <2>2. r.status = "go" /\ w.valid
    BY <2>1 DEF Allowed, Located, Valid, Going
  <2>3. Understood(ForC, r) /\ FromArguments(r.options.target, argv)
    BY <1>1, ParsersUnderstand, TargetsFound
  <2>4. r.options.target \in Text /\ r.options.target \notin Reserved
    BY <1>2, <2>2, <2>3
  <2>5. ArePorts(w.ports)
    BY <2>1, <2>2, PortLists DEF PortsParsed
  <2>6. w.ports \in SUBSET (1 .. HighestPort)
    BY <2>5 DEF ArePorts
  <2> HIDE DEF r
  <2>7. CPrints(r.options, w.ports, found) = Report(r.options, w.ports, found)
    BY <1>1, <2>4, <2>6, SameReports
  <2> QED
    BY <2>1, <2>4, <2>6, <2>7
<1>4. Faithful(CourseOfCpp, TRUE)
  <2> DEFINE w == CourseOfCpp
             r == Cpp!parseArgs(argv)
  <2> SUFFICES ASSUME Allowed(w)
               PROVE  /\ w.result.options.target \in Text /\ w.result.options.target \notin Reserved
                      /\ w.ports \in SUBSET (1 .. HighestPort)
                      /\ w.output = Report(w.result.options, w.ports, found)
    BY DEF Faithful
  <2>1. /\ w.result = r /\ (w.valid <=> Cpp!parsePorts(r.options.ports_spec)) /\ w.ports = Cpp!marked(r.options.ports_spec)
        /\ w.output = CppPrints(r.options, w.ports, found)
    BY DEF CourseOfCpp, Course
  <2> HIDE DEF w
  <2>2. r.status = "go" /\ w.valid
    BY <2>1 DEF Allowed, Located, Valid, Going
  <2>3. Understood(ForCpp, r) /\ FromArguments(r.options.target, argv)
    BY <1>1, ParsersUnderstand, TargetsFound
  <2>4. r.options.target \in Text /\ r.options.target \notin Reserved
    BY <1>2, <2>2, <2>3
  <2>5. ArePorts(w.ports)
    BY <2>1, <2>2, PortLists DEF PortsParsed
  <2>6. w.ports \in SUBSET (1 .. HighestPort)
    BY <2>5 DEF ArePorts
  <2> HIDE DEF r
  <2>7. CppPrints(r.options, w.ports, found) = Report(r.options, w.ports, found)
    BY <1>1, <2>4, <2>6, SameReports
  <2> QED
    BY <2>1, <2>4, <2>6, <2>7
<1>5. Faithful(CourseOfRust, FALSE)
  <2> DEFINE w == CourseOfRust
             r == Rust!parse_args(argv)
  <2> SUFFICES ASSUME Allowed(w)
               PROVE  /\ w.result.options.target \in Text /\ w.result.options.target \notin Reserved
                      /\ w.ports \in SUBSET (1 .. HighestPort)
                      /\ Ascii(w.result.options) => w.output = Report(w.result.options, w.ports, found)
    BY DEF Faithful
  <2>1. /\ w.result = r /\ (w.valid <=> Rust!parse_ports(r.options.ports_spec)) /\ w.ports = Rust!marked(r.options.ports_spec)
        /\ w.output = RustPrints(r.options, w.ports, found)
    BY DEF CourseOfRust, Course
  <2> HIDE DEF w
  <2>2. r.status = "go" /\ w.valid
    BY <2>1 DEF Allowed, Located, Valid, Going
  <2>3. Understood(ForRust, r) /\ FromArguments(r.options.target, argv)
    BY <1>1, ParsersUnderstand, TargetsFound
  <2>4. r.options.target \in Text /\ r.options.target \notin Reserved
    BY <1>2, <2>2, <2>3
  <2>5. ArePorts(w.ports)
    BY <2>1, <2>2, PortLists DEF PortsParsed
  <2>6. w.ports \in SUBSET (1 .. HighestPort)
    BY <2>5 DEF ArePorts
  <2> HIDE DEF r
  <2>7. Ascii(r.options) => RustPrints(r.options, w.ports, found) = Report(r.options, w.ports, found)
    BY <1>1, <2>4, <2>6, SameReports
  <2> QED
    BY <2>1, <2>4, <2>6, <2>7
<1>6. Faithful(CourseOfCs, FALSE)
  <2> DEFINE w == CourseOfCs
             r == Cs!Parse(argv)
  <2> SUFFICES ASSUME Allowed(w)
               PROVE  /\ w.result.options.target \in Text /\ w.result.options.target \notin Reserved
                      /\ w.ports \in SUBSET (1 .. HighestPort)
                      /\ Ascii(w.result.options) => w.output = Report(w.result.options, w.ports, found)
    BY DEF Faithful
  <2>1. /\ w.result = r /\ (w.valid <=> Cs!ParseRange(r.options.ports_spec)) /\ w.ports = Cs!marked(r.options.ports_spec)
        /\ w.output = CsPrints(r.options, w.ports, found)
    BY DEF CourseOfCs, Course
  <2> HIDE DEF w
  <2>2. r.status = "go" /\ w.valid
    BY <2>1 DEF Allowed, Located, Valid, Going
  <2>3. Understood(ForCs, r) /\ FromArguments(r.options.target, argv)
    BY <1>1, ParsersUnderstand, TargetsFound
  <2>4. r.options.target \in Text /\ r.options.target \notin Reserved
    BY <1>2, <2>2, <2>3
  <2>5. ArePorts(w.ports)
    BY <2>1, <2>2, PortLists DEF PortsParsed
  <2>6. w.ports \in SUBSET (1 .. HighestPort)
    BY <2>5 DEF ArePorts
  <2> HIDE DEF r
  <2>7. Ascii(r.options) => CsPrints(r.options, w.ports, found) = Report(r.options, w.ports, found)
    BY <1>1, <2>4, <2>6, SameReports
  <2> QED
    BY <2>1, <2>4, <2>6, <2>7
<1> QED
  BY <1>3, <1>4, <1>5, <1>6

(* Unless an argument is one of the three texts that a program reads in a  *)
(* way of its own, or the resolver gives an IPv6 address before one of     *)
(* IPv4, all are on the course of the C++ program.                         *)
Usual == NoneOf(Signed, argv) /\ NoneOf(TooLong, argv) /\ IPv4First(dns)

Alike(w, v) ==
    /\ w.result = v.result /\ w.ports = v.ports /\ w.dns = v.dns
    /\ Going(w) => (w.valid <=> v.valid)
    /\ w.dns # << >> => w.address = v.address /\ (w.local <=> v.local)

LEMMA CoursesAreAlike ==
    ASSUME Traced, Usual
    PROVE  /\ Alike(CourseOfC, CourseOfCpp) /\ Alike(CourseOfCpp, CourseOfCpp)
           /\ Alike(CourseOfRust, CourseOfCpp) /\ Alike(CourseOfCs, CourseOfCpp)
<1> DEFINE v == CourseOfCpp
           r == Cpp!parseArgs(argv)
           spec == r.options.ports_spec
           address == Cpp!chosen(dns)
<1>1. /\ argv \in Seq(Text) /\ dns \in Seq(Address)
      /\ NoneOf(Signed, argv) /\ NoneOf(TooLong, argv) /\ IPv4First(dns)
  BY DEF Traced, Usual
<1>2. C!args_parse(argv) = r /\ Rust!parse_args(argv) = r /\ Cs!Parse(argv) = r
  BY <1>1, SameParsers
<1>3. r.status = "go" => spec \notin Signed /\ spec \notin TooLong
  <2>1. Understood(ForC, r) /\ Understood(ForRust, r)
    BY <1>1, <1>2, ParsersUnderstand
  <2>2. Ordinary(ForC) /\ ForC.odd = TooLong /\ Ordinary(ForRust) /\ ForRust.odd = Signed
    BY <1>1 DEF Ordinary, ForC, ForRust, Given
  <2> QED
    BY <2>1, <2>2 DEF Understood
<1>4. /\ v.result = r /\ (v.valid <=> Cpp!parsePorts(spec)) /\ v.ports = PortsOf(spec) /\ v.dns = dns
      /\ v.address = address /\ (v.local <=> Cpp!isLocalAddress(address))
  BY PortsMarked DEF CourseOfCpp, Course
<1>5. Cpp!parsePorts(spec) <=> ValidPorts(spec)
  BY PortLists DEF PortsParsed
<1>6. dns # << >> => /\ address \in Address /\ C!prefer_ipv4(dns) = address /\ Head(dns) = address
                     /\ Cs!chosen(dns) = address
  BY <1>1, AddressTaken, SameAddress
<1>7. dns # << >> => (Cpp!isLocalAddress(address) <=> InLocalRange(address))
  BY <1>6, CppGuard DEF Address
<1> HIDE DEF v, address
<1>8. Alike(v, v)
  BY DEF Alike
<1>9. Alike(CourseOfC, v)
  <2> DEFINE w == CourseOfC
  <2>1. /\ w.result = r /\ (w.valid <=> C!ports_parse(spec)) /\ w.ports = PortsOf(spec) /\ w.dns = dns
        /\ w.address = C!prefer_ipv4(dns) /\ (w.local <=> C!net_is_local(C!prefer_ipv4(dns)))
    BY <1>2, PortsMarked DEF CourseOfC, Course
  <2> HIDE DEF w
  <2> SUFFICES Alike(w, v)
    BY DEF w
  <2>2. r.status = "go" => (C!ports_parse(spec) <=> ValidPorts(spec))
    BY <1>3, PortLists DEF PortsParsed
  <2>3. dns # << >> => (C!net_is_local(address) <=> InLocalRange(address))
    BY <1>6, CGuard DEF Address
  <2> HIDE DEF r
  <2>4. Going(w) => (w.valid <=> v.valid)
    BY <1>4, <1>5, <2>1, <2>2 DEF Going
  <2>5. w.dns # << >> => w.address = v.address
    BY <1>4, <1>6, <2>1
  <2>6. w.dns # << >> => (w.local <=> v.local)
    <3> SUFFICES ASSUME dns # << >> PROVE w.local <=> v.local
      BY <2>1
    <3>1. C!prefer_ipv4(dns) = address
      BY <1>6
    <3>2. w.local <=> C!net_is_local(address)
      BY <2>1, <3>1
    <3> QED
      BY <1>4, <1>7, <2>3, <3>2
  <2>7. w.result = v.result /\ w.ports = v.ports /\ w.dns = v.dns
    BY <1>4, <2>1
  <2> QED
    BY <2>4, <2>5, <2>6, <2>7 DEF Alike
<1>10. Alike(CourseOfRust, v)
  <2> DEFINE w == CourseOfRust
  <2>1. /\ w.result = r /\ (w.valid <=> Rust!parse_ports(spec)) /\ w.ports = PortsOf(spec) /\ w.dns = dns
        /\ w.address = Head(dns) /\ (w.local <=> Rust!is_local(Head(dns)))
    BY <1>2, PortsMarked DEF CourseOfRust, Course
  <2> HIDE DEF w
  <2> SUFFICES Alike(w, v)
    BY DEF w
  <2>2. r.status = "go" => (Rust!parse_ports(spec) <=> ValidPorts(spec))
    BY <1>3, PortLists DEF PortsParsed
  <2>3. dns # << >> => (Rust!is_local(address) <=> InLocalRange(address))
    BY <1>6, RustGuard DEF Address
  <2> HIDE DEF r
  <2>4. Going(w) => (w.valid <=> v.valid)
    BY <1>4, <1>5, <2>1, <2>2 DEF Going
  <2>5. w.dns # << >> => w.address = v.address
    BY <1>4, <1>6, <2>1
  <2>6. w.dns # << >> => (w.local <=> v.local)
    <3> SUFFICES ASSUME dns # << >> PROVE w.local <=> v.local
      BY <2>1
    <3>1. Head(dns) = address
      BY <1>6
    <3>2. w.local <=> Rust!is_local(address)
      BY <2>1, <3>1
    <3> QED
      BY <1>4, <1>7, <2>3, <3>2
  <2>7. w.result = v.result /\ w.ports = v.ports /\ w.dns = v.dns
    BY <1>4, <2>1
  <2> QED
    BY <2>4, <2>5, <2>6, <2>7 DEF Alike
<1>11. Alike(CourseOfCs, v)
  <2> DEFINE w == CourseOfCs
  <2>1. /\ w.result = r /\ (w.valid <=> Cs!ParseRange(spec)) /\ w.ports = PortsOf(spec) /\ w.dns = dns
        /\ w.address = Cs!chosen(dns) /\ (w.local <=> Cs!IsLocal(Cs!chosen(dns)))
    BY <1>2, PortsMarked DEF CourseOfCs, Course
  <2> HIDE DEF w
  <2> SUFFICES Alike(w, v)
    BY DEF w
  <2>2. r.status = "go" => (Cs!ParseRange(spec) <=> ValidPorts(spec))
    BY <1>3, PortLists DEF PortsParsed
  <2>3. dns # << >> => (Cs!IsLocal(address) <=> InLocalRange(address))
    BY <1>6, CsGuard DEF Address
  <2> HIDE DEF r
  <2>4. Going(w) => (w.valid <=> v.valid)
    BY <1>4, <1>5, <2>1, <2>2 DEF Going
  <2>5. w.dns # << >> => w.address = v.address
    BY <1>4, <1>6, <2>1
  <2>6. w.dns # << >> => (w.local <=> v.local)
    <3> SUFFICES ASSUME dns # << >> PROVE w.local <=> v.local
      BY <2>1
    <3>1. Cs!chosen(dns) = address
      BY <1>6
    <3>2. w.local <=> Cs!IsLocal(address)
      BY <2>1, <3>1
    <3> QED
      BY <1>4, <1>7, <2>3, <3>2
  <2>7. w.result = v.result /\ w.ports = v.ports /\ w.dns = v.dns
    BY <1>4, <2>1
  <2> QED
    BY <2>4, <2>5, <2>6, <2>7 DEF Alike
<1> QED
  BY <1>8, <1>9, <1>10, <1>11 DEF v

(* Courses that are alike end alike, but for what they print.              *)
LEMMA AlikeEndAlike ==
    ASSUME NEW w, NEW v, w.result \in Parser, Alike(w, v)
    PROVE  /\ Allowed(w) <=> Allowed(v)
           /\ ~Allowed(w) => Final(w) = Final(v)
<1>1. w.result.status \in {"go", "help", "error"}
  BY DEF Parser
<1>2. \A phase : Asked(w, phase) = Asked(v, phase)
  BY DEF Asked, Alike
<1>3. Looking(w) = Looking(v)
  BY <1>2 DEF Looking, Alike
<1>4. w.dns # << >> => Aimed(w) = Aimed(v)
  BY <1>3 DEF Aimed, Alike
<1>5. Allowed(w) <=> Allowed(v)
  BY DEF Alike, Allowed, Located, Valid, Going
<1>6. CASE w.result.status # "go"
  BY <1>1, <1>5, <1>6 DEF Final, Alike
<1>7. CASE Going(w) /\ ~w.valid
  BY <1>2, <1>5, <1>7 DEF Final, Alike, Going
<1>8. CASE Valid(w) /\ w.dns = << >>
  BY <1>3, <1>5, <1>8 DEF Final, Alike, Going, Valid
<1>9. CASE Located(w)
  <2>1. ~Allowed(w) => Final(w) = Left(Aimed(w), 1)
    BY <1>9 DEF Final, Allowed, Located, Going, Valid
  <2>2. ~Allowed(w) => Final(v) = Left(Aimed(v), 1)
    BY <1>9 DEF Final, Allowed, Located, Going, Valid, Alike
  <2> QED
    BY <1>4, <1>5, <1>9, <2>1, <2>2 DEF Located
<1> QED
  BY <1>6, <1>7, <1>8, <1>9 DEF Going, Valid, Located

(* What the invariant says of any of the four.                             *)
LEMMA CoursesOfPrograms ==
    ASSUME Traced, NEW p \in Programs
    PROVE  \E w : /\ w.result \in Parser /\ Reached(w, p) /\ (w.scarce <=> scarce)
                 /\ (Usual => Alike(w, CourseOfCpp)) /\ Faithful(w, p \in {c, cpp})
<1>1. CourseOfC.result \in Parser /\ CourseOfCpp.result \in Parser /\ CourseOfRust.result \in Parser /\ CourseOfCs.result \in Parser
  <2>1. argv \in Seq(Text)
    BY DEF Traced
  <2> QED
    BY <2>1, ParsersUnderstand DEF Understood, CourseOfC, CourseOfCpp, CourseOfRust, CourseOfCs, Course
<1>2. /\ (CourseOfC.scarce <=> scarce) /\ (CourseOfCpp.scarce <=> scarce)
      /\ (CourseOfRust.scarce <=> scarce) /\ (CourseOfCs.scarce <=> scarce)
  BY DEF CourseOfC, CourseOfCpp, CourseOfRust, CourseOfCs, Course
<1>3. /\ Faithful(CourseOfC, TRUE) /\ Faithful(CourseOfCpp, TRUE)
      /\ Faithful(CourseOfRust, FALSE) /\ Faithful(CourseOfCs, FALSE)
  BY CoursesAreFaithful
<1>4. /\ Reached(CourseOfC, c) /\ Reached(CourseOfCpp, cpp)
      /\ Reached(CourseOfRust, rust) /\ Reached(CourseOfCs, cs)
  BY DEF Traced
<1>5. Usual => /\ Alike(CourseOfC, CourseOfCpp) /\ Alike(CourseOfCpp, CourseOfCpp)
               /\ Alike(CourseOfRust, CourseOfCpp) /\ Alike(CourseOfCs, CourseOfCpp)
  BY CoursesAreAlike
<1>6. CASE p \in {c, cpp}
  <2>1. \A w : Faithful(w, TRUE) => Faithful(w, p \in {c, cpp})
    BY <1>6 DEF Faithful
  <2> QED
    BY <1>1, <1>2, <1>3, <1>4, <1>5, <1>6, <2>1
<1>7. CASE p \notin {c, cpp}
  <2>1. p = rust \/ p = cs
    BY <1>7 DEF Programs
  <2>2. \A w : Faithful(w, FALSE) => Faithful(w, p \in {c, cpp})
    BY <1>7 DEF Faithful
  <2> QED
    BY <1>1, <1>2, <1>3, <1>4, <1>5, <2>1, <2>2
<1> QED
  BY <1>6, <1>7

(* While nothing runs out the four programs end alike, with the same       *)
(* report, unless an argument is one of the three texts that the Rust or   *)
(* the C program reads in a way of its own, or the resolver gives an IPv6  *)
(* address before one of IPv4, where the Rust program takes the first.     *)
THEOREM ProgramsInterchangeable ==
    Spec => [](NoneOf(Signed, argv) /\ NoneOf(TooLong, argv) /\ IPv4First(dns) => Interchangeable)
<1>1. Traced => (NoneOf(Signed, argv) /\ NoneOf(TooLong, argv) /\ IPv4First(dns) => Interchangeable)
  <2> SUFFICES ASSUME Traced, Usual, ~scarce, NEW p \in Programs, NEW q \in Programs, Ended(p), Ended(q)
               PROVE  /\ p.code = q.code
                      /\ p.scanned = q.scanned
                      /\ p.scanned => <<p.address, p.ports, p.options>> = <<q.address, q.ports, q.options>>
                      /\ p.output = q.output \/ WideJson(p)
    BY DEF Interchangeable, Usual
  <2>1. PICK w : /\ w.result \in Parser /\ Reached(w, p) /\ ~w.scarce
                 /\ Alike(w, CourseOfCpp) /\ Faithful(w, p \in {c, cpp})
    BY CoursesOfPrograms
  <2>2. PICK v : /\ v.result \in Parser /\ Reached(v, q) /\ ~v.scarce
                 /\ Alike(v, CourseOfCpp) /\ Faithful(v, q \in {c, cpp})
    BY CoursesOfPrograms
  <2>3. p = Final(w) /\ q = Final(v)
    BY <2>1, <2>2, PhaseOnCourse
  <2>4. Alike(w, v)
    BY <2>1, <2>2 DEF Alike, Going
  <2>5. (Allowed(w) <=> Allowed(v)) /\ (~Allowed(w) => p = q)
    BY <2>1, <2>3, <2>4, AlikeEndAlike
  <2>6. CASE Allowed(w)
    <3>1. p = Scanned(w) /\ q = Scanned(v)
      BY <2>1, <2>2, <2>3, <2>5, <2>6, FinalIs
    <3>2. /\ p.scanned /\ p.options = w.result.options /\ p.ports = w.ports /\ p.address = w.address
          /\ p.output = w.output /\ p.code = 0
      BY <3>1, OnCourse
    <3>3. /\ q.scanned /\ q.options = v.result.options /\ q.ports = v.ports /\ q.address = v.address
          /\ q.output = v.output /\ q.code = 0
      BY <3>1, OnCourse
    <3>4. w.result = v.result /\ w.ports = v.ports /\ w.address = v.address
      BY <2>4, <2>6 DEF Alike, Allowed, Located
    <3>5. Ascii(w.result.options) => w.output = v.output
      BY <2>1, <2>2, <2>5, <2>6, <3>4 DEF Faithful
    <3>6. Ascii(w.result.options) \/ WideJson(p)
      BY <3>2 DEF Ascii, WideJson
    <3>7. p.scanned = q.scanned
      <4>1. p.scanned = TRUE /\ q.scanned = TRUE
        BY <3>1 DEF Scanned, Left, Scanning, Aimed, Looking, Asked, First
      <4> QED
        BY <4>1
    <3> QED
      BY <3>2, <3>3, <3>4, <3>5, <3>6, <3>7
  <2> QED
    BY <2>5, <2>6
<1> QED
  BY <1>1, OnTheirCourses, PTL

(* What a program prints.                                                  *)
LEMMA PrintedIsReport ==
    ASSUME Traced, NEW p \in Programs, p.output # << >>, WideJson(p) => p \in {c, cpp}
    PROVE  /\ p.options.target \in Text /\ p.options.target \notin Reserved
           /\ p.ports \in SUBSET (1 .. HighestPort)
           /\ p.output = Report(p.options, p.ports, found)
<1>1. PICK w : w.result \in Parser /\ Reached(w, p) /\ Faithful(w, p \in {c, cpp})
  BY CoursesOfPrograms
<1>2. p = Final(w) /\ Allowed(w)
  BY <1>1, PhaseOnCourse
<1>3. p = Scanned(w)
  BY <1>1, <1>2, FinalIs
<1>4. p.options = w.result.options /\ p.ports = w.ports /\ p.output = w.output
  BY <1>3, OnCourse
<1>5. p \in {c, cpp} \/ Ascii(w.result.options)
  BY <1>4 DEF Ascii, WideJson
<1> QED
  BY <1>1, <1>2, <1>4, <1>5 DEF Faithful

(* Every table reads back as what the probes found, whatever bytes they    *)
(* received.                                                               *)
THEOREM TablesReadBack == Spec => []TableReadsBack
<1>1. Traced => TableReadsBack
  <2> SUFFICES ASSUME Traced, NEW p \in Programs, p.output # << >>, p.options.format = "table"
               PROVE  ReadTable(p.output) = ToTell(p)
    BY DEF TableReadsBack
  <2>1. ~WideJson(p) /\ p.options.format # "json"
    BY DEF WideJson
  <2>2. /\ p.options.target \in Text /\ p.options.target \notin Reserved
        /\ p.ports \in SUBSET (1 .. HighestPort)
        /\ p.output = Report(p.options, p.ports, found)
    BY <2>1, PrintedIsReport
  <2>3. AreFindings(found)
    BY DEF Traced
  <2>4. ToTell(p) = ToBeTold(p.options, p.ports, found)
    BY Zenon DEF ToTell, ToBeTold
  <2> QED
    BY <2>1, <2>2, <2>3, <2>4, ReportsReadBack
<1> QED
  BY <1>1, OnTheirCourses, PTL

(* So does all JSON, of the Rust and C# programs unless the target is      *)
(* wide.                                                                   *)
THEOREM AllJsonReadsBack == Spec => []JsonReadsBack
<1>1. Traced => JsonReadsBack
  <2> SUFFICES ASSUME Traced, NEW p \in Programs, p.output # << >>, p.options.format = "json",
                      WideJson(p) => p \in {c, cpp}
               PROVE  ReadJson(p.output) = ToTell(p)
    BY DEF JsonReadsBack
  <2>1. /\ p.options.target \in Text /\ p.options.target \notin Reserved
        /\ p.ports \in SUBSET (1 .. HighestPort)
        /\ p.output = Report(p.options, p.ports, found)
    BY PrintedIsReport
  <2>2. AreFindings(found)
    BY DEF Traced
  <2>3. ToTell(p) = ToBeTold(p.options, p.ports, found)
    BY Zenon DEF ToTell, ToBeTold
  <2> QED
    BY <2>1, <2>2, <2>3, ReportsReadBack
<1> QED
  BY <1>1, OnTheirCourses, PTL

=============================================================================
