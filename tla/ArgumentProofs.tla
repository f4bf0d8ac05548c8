--------------------------- MODULE ArgumentProofs --------------------------
(***************************************************************************)
(* Proofs about the command lines of the four programs, for argument lists *)
(* of every length, and about their permission guards, for every address.  *)
(* Each parser folds the arguments from left to right and keeps a state;   *)
(* CliContract looks at the list as a whole.  Each guard tests bytes, with *)
(* masks; CliContract lists prefixes.                                      *)
(***************************************************************************)
EXTENDS ReportProofs

-----------------------------------------------------------------------------
(* The four parsers as one, which differ only in the values they accept.   *)

Flags == {"--ports", "--timeout", "--concurrency", "--format"}

Timeouts == 50 .. LongestTimeout
Concurrencies == 1 .. MostProbes
Formats == {"table", "json"}

Options ==
    [target : Text, ports_spec : Text, timeout_ms : Timeouts, concurrency : Concurrencies,
     banner : BOOLEAN, format : Formats, confirmed : BOOLEAN]

Parser == [status : {"go", "help", "error"}, flag : Flags \cup {""}, options : Options]

Defaults ==
    [target |-> "", ports_spec |-> "1-1024", timeout_ms |-> 800, concurrency |-> 500,
     banner |-> FALSE, format |-> "table", confirmed |-> FALSE]

Start == [status |-> "go", flag |-> "", options |-> Defaults]

Failed(p) == [p EXCEPT !.status = "error"]

(* The value of a flag, with numbers in any of the forms; and a target,    *)
(* which belongs to the flag "".                                           *)
InForms(value, forms, range) == Number(value).form \in forms /\ Number(value).value \in range

Acceptable(flag, value, forms) ==
    /\ flag = "--format" => value \in Formats
    /\ flag = "--timeout" => InForms(value, forms, Timeouts)
    /\ flag = "--concurrency" => InForms(value, forms, Concurrencies)

Accepted(forms) == {pair \in (Flags \cup {""}) \X Text : Acceptable(pair[1], pair[2], forms)}

CAccepts == {pair \in Accepted({"digits"}) : ~(IsLong(pair[2]) /\ (pair[1] = "" \/ pair[1] = "--ports"))}
CppAccepts == Accepted({"digits"})
RustAccepts == Accepted({"digits", "plus"})
CsAccepts == Accepted({"digits"})

Put(options, flag, value) ==
    CASE flag = "--ports" -> [options EXCEPT !.ports_spec = value]
      [] flag = "--format" -> [options EXCEPT !.format = value]
      [] flag = "--timeout" -> [options EXCEPT !.timeout_ms = Number(value).value]
      [] flag = "--concurrency" -> [options EXCEPT !.concurrency = Number(value).value]

Store(p, value) == [p EXCEPT !.flag = "", !.options = Put(p.options, p.flag, value)]

Take(A, p, arg) ==
    IF p.status # "go" THEN p
    ELSE IF p.flag # "" THEN IF <<p.flag, arg>> \in A THEN Store(p, arg) ELSE Failed(p)
    ELSE IF arg \in {"--help", "-h"} THEN [p EXCEPT !.status = "help"]
    ELSE IF arg = "--banner" THEN [p EXCEPT !.options.banner = TRUE]
    ELSE IF arg = "--yes-i-own-this" THEN [p EXCEPT !.options.confirmed = TRUE]
    ELSE IF IsFlag(arg) THEN [p EXCEPT !.flag = arg]
    ELSE IF StartsWithDashes(arg) \/ p.options.target # "" \/ <<"", arg>> \notin A THEN Failed(p)
    ELSE [p EXCEPT !.options.target = arg]

Finish(p) == IF p.status = "go" /\ (p.flag # "" \/ p.options.target = "") THEN Failed(p) ELSE p

(* The four programs read a text by the same tables.                       *)
LEMMA SameTables ==
    ASSUME NEW text
    PROVE  /\ C!Number(text) = Number(text) /\ C!Tokens(text) = Tokens(text) /\ C!IsLong(text) = IsLong(text)
           /\ C!IsFlag(text) = IsFlag(text) /\ C!StartsWithDashes(text) = StartsWithDashes(text)
           /\ Cpp!Number(text) = Number(text) /\ Cpp!Tokens(text) = Tokens(text) /\ Cpp!IsLong(text) = IsLong(text)
           /\ Cpp!IsFlag(text) = IsFlag(text) /\ Cpp!StartsWithDashes(text) = StartsWithDashes(text)
           /\ Rust!Number(text) = Number(text) /\ Rust!Tokens(text) = Tokens(text) /\ Rust!IsLong(text) = IsLong(text)
           /\ Rust!IsFlag(text) = IsFlag(text) /\ Rust!StartsWithDashes(text) = StartsWithDashes(text)
           /\ Cs!Number(text) = Number(text) /\ Cs!Tokens(text) = Tokens(text) /\ Cs!IsLong(text) = IsLong(text)
           /\ Cs!IsFlag(text) = IsFlag(text) /\ Cs!StartsWithDashes(text) = StartsWithDashes(text)
<1>1. /\ C!Huge = Huge /\ Cpp!Huge = Huge
      /\ Rust!Huge = Huge /\ Cs!Huge = Huge
  BY DEF C!Huge, Cpp!Huge, Rust!Huge, Cs!Huge, Huge
<1>2. /\ C!Number(text) = Number(text) /\ Cpp!Number(text) = Number(text)
      /\ Rust!Number(text) = Number(text) /\ Cs!Number(text) = Number(text)
  <2>1. C!Number(text) = Number(text)
    BY <1>1 DEF C!Number, Number
  <2>2. Cpp!Number(text) = Number(text)
    BY <1>1 DEF Cpp!Number, Number
  <2>3. Rust!Number(text) = Number(text)
    BY <1>1 DEF Rust!Number, Number
  <2>4. Cs!Number(text) = Number(text)
    BY <1>1 DEF Cs!Number, Number
  <2> QED
    BY <2>1, <2>2, <2>3, <2>4
<1>3. /\ C!Tokens(text) = Tokens(text) /\ Cpp!Tokens(text) = Tokens(text)
      /\ Rust!Tokens(text) = Tokens(text) /\ Cs!Tokens(text) = Tokens(text)
  <2>1. C!Tokens(text) = Tokens(text)
    BY <1>1 DEF C!Tokens, Tokens
  <2>2. Cpp!Tokens(text) = Tokens(text)
    BY <1>1 DEF Cpp!Tokens, Tokens
  <2>3. Rust!Tokens(text) = Tokens(text)
    BY <1>1 DEF Rust!Tokens, Tokens
  <2>4. Cs!Tokens(text) = Tokens(text)
    BY <1>1 DEF Cs!Tokens, Tokens
  <2> QED
    BY <2>1, <2>2, <2>3, <2>4
<1>4. /\ C!IsLong(text) = IsLong(text) /\ Cpp!IsLong(text) = IsLong(text)
      /\ Rust!IsLong(text) = IsLong(text) /\ Cs!IsLong(text) = IsLong(text)
  <2>1. C!IsLong(text) = IsLong(text)
    BY <1>1 DEF C!IsLong, IsLong
  <2>2. Cpp!IsLong(text) = IsLong(text)
    BY <1>1 DEF Cpp!IsLong, IsLong
  <2>3. Rust!IsLong(text) = IsLong(text)
    BY <1>1 DEF Rust!IsLong, IsLong
  <2>4. Cs!IsLong(text) = IsLong(text)
    BY <1>1 DEF Cs!IsLong, IsLong
  <2> QED
    BY <2>1, <2>2, <2>3, <2>4
<1>5. /\ C!IsFlag(text) = IsFlag(text) /\ Cpp!IsFlag(text) = IsFlag(text)
      /\ Rust!IsFlag(text) = IsFlag(text) /\ Cs!IsFlag(text) = IsFlag(text)
  <2>1. C!IsFlag(text) = IsFlag(text)
    BY <1>1 DEF C!IsFlag, IsFlag
  <2>2. Cpp!IsFlag(text) = IsFlag(text)
    BY <1>1 DEF Cpp!IsFlag, IsFlag
  <2>3. Rust!IsFlag(text) = IsFlag(text)
    BY <1>1 DEF Rust!IsFlag, IsFlag
  <2>4. Cs!IsFlag(text) = IsFlag(text)
    BY <1>1 DEF Cs!IsFlag, IsFlag
  <2> QED
    BY <2>1, <2>2, <2>3, <2>4
<1>6. /\ C!StartsWithDashes(text) = StartsWithDashes(text) /\ Cpp!StartsWithDashes(text) = StartsWithDashes(text)
      /\ Rust!StartsWithDashes(text) = StartsWithDashes(text) /\ Cs!StartsWithDashes(text) = StartsWithDashes(text)
  <2>1. C!StartsWithDashes(text) = StartsWithDashes(text)
    BY <1>1 DEF C!StartsWithDashes, StartsWithDashes, C!IsFlag, IsFlag
  <2>2. Cpp!StartsWithDashes(text) = StartsWithDashes(text)
    BY <1>1 DEF Cpp!StartsWithDashes, StartsWithDashes, Cpp!IsFlag, IsFlag
  <2>3. Rust!StartsWithDashes(text) = StartsWithDashes(text)
    BY <1>1 DEF Rust!StartsWithDashes, StartsWithDashes, Rust!IsFlag, IsFlag
  <2>4. Cs!StartsWithDashes(text) = StartsWithDashes(text)
    BY <1>1 DEF Cs!StartsWithDashes, StartsWithDashes, Cs!IsFlag, IsFlag
  <2> QED
    BY <2>1, <2>2, <2>3, <2>4
<1> QED
  BY <1>2, <1>3, <1>4, <1>5, <1>6

(* They have the same limits, which are the documented ones.               *)
LEMMA SameLimits ==
    /\ C!PORT_MAX = HighestPort /\ C!MAX_TIMEOUT_MS = LongestTimeout /\ C!MAX_CONCURRENCY = MostProbes
    /\ Cpp!kPortMax = HighestPort /\ Cpp!kMaxTimeoutMs = LongestTimeout /\ Cpp!kMaxConcurrency = MostProbes
    /\ Rust!PORT_MAX = HighestPort /\ Rust!MAX_TIMEOUT_MS = LongestTimeout /\ Rust!MAX_CONCURRENCY = MostProbes
    /\ Cs!PortMax = HighestPort /\ Cs!MaxTimeoutMs = LongestTimeout /\ Cs!MaxConcurrency = MostProbes
    /\ HighestPort \in Nat
BY DEF HighestPort, LongestTimeout, MostProbes, C!PORT_MAX, C!MAX_TIMEOUT_MS, C!MAX_CONCURRENCY, Cpp!kPortMax,
   Cpp!kMaxTimeoutMs, Cpp!kMaxConcurrency, Rust!PORT_MAX, Rust!MAX_TIMEOUT_MS, Rust!MAX_CONCURRENCY, Cs!PortMax,
   Cs!MaxTimeoutMs, Cs!MaxConcurrency

(* A parser is in a state of Parser when it starts,                        *)
LEMMA StartIsParser == Start \in Parser
BY DEF Start, Parser, Defaults, Options, Flags, Text, Timeouts, Concurrencies, Formats, LongestTimeout, MostProbes

(* An option set to a value of its own range leaves the options in theirs. *)
LEMMA OptionsKept ==
    ASSUME NEW o \in Options, NEW text \in Text
    PROVE  /\ [o EXCEPT !.target = text] \in Options
           /\ [o EXCEPT !.ports_spec = text] \in Options
           /\ [o EXCEPT !.banner = TRUE] \in Options
           /\ [o EXCEPT !.confirmed = TRUE] \in Options
           /\ \A format \in Formats : [o EXCEPT !.format = format] \in Options
           /\ \A n \in Timeouts : [o EXCEPT !.timeout_ms = n] \in Options
           /\ \A n \in Concurrencies : [o EXCEPT !.concurrency = n] \in Options
<1>1. [o EXCEPT !.target = text] \in Options
  BY DEF Options
<1>2. [o EXCEPT !.ports_spec = text] \in Options
  BY DEF Options
<1>3. [o EXCEPT !.banner = TRUE] \in Options
  BY DEF Options
<1>4. [o EXCEPT !.confirmed = TRUE] \in Options
  BY DEF Options
<1>5. \A format \in Formats : [o EXCEPT !.format = format] \in Options
  BY DEF Options
<1>6. \A n \in Timeouts : [o EXCEPT !.timeout_ms = n] \in Options
  BY DEF Options
<1>7. \A n \in Concurrencies : [o EXCEPT !.concurrency = n] \in Options
  BY DEF Options
<1> QED
  BY <1>1, <1>2, <1>3, <1>4, <1>5, <1>6, <1>7

(* A parser that stores the value of a flag stays in Parser,               *)
LEMMA StoreIsParser ==
    ASSUME NEW forms, NEW p \in Parser, p.flag # "", NEW value \in Text, Acceptable(p.flag, value, forms)
    PROVE  Store(p, value) \in Parser
<1>1. p.options \in Options /\ p.flag \in Flags
  BY DEF Parser
<1>2. Put(p.options, p.flag, value) \in Options
  <2>1. CASE p.flag = "--ports"
    BY <1>1, <2>1, OptionsKept DEF Put
  <2>2. CASE p.flag = "--format"
    BY <1>1, <2>2, OptionsKept DEF Put, Acceptable
  <2>3. CASE p.flag = "--timeout"
    BY <1>1, <2>3, OptionsKept DEF Put, Acceptable, InForms
  <2>4. CASE p.flag = "--concurrency"
    BY <1>1, <2>4, OptionsKept DEF Put, Acceptable, InForms
  <2> QED
    BY <1>1, <2>1, <2>2, <2>3, <2>4 DEF Flags
<1> QED
  BY <1>2 DEF Store, Parser

(* and so it does with every argument it takes.                            *)
LEMMA TakeIsParser ==
    ASSUME NEW forms, NEW A \in SUBSET Accepted(forms), NEW p \in Parser, NEW arg \in Text
    PROVE  Take(A, p, arg) \in Parser
<1>1. CASE p.status = "go" /\ p.flag # "" /\ <<p.flag, arg>> \in A
  <2>1. Acceptable(p.flag, arg, forms)
    BY <1>1 DEF Accepted
  <2> QED
    BY <1>1, <2>1, StoreIsParser DEF Take
<1>2. CASE p.status = "go" /\ p.flag = "" /\ IsFlag(arg)
  BY <1>2 DEF Take, Parser, IsFlag, Flags
<1>3. Failed(p) \in Parser /\ [p EXCEPT !.status = "help"] \in Parser
  BY DEF Failed, Parser
<1>4. \A o \in Options : [p EXCEPT !.options = o] \in Parser
  BY DEF Parser
<1>5. p.options \in Options
  BY DEF Parser
<1>6. /\ [p EXCEPT !.options.banner = TRUE] \in Parser
      /\ [p EXCEPT !.options.confirmed = TRUE] \in Parser
      /\ [p EXCEPT !.options.target = arg] \in Parser
  BY <1>4, <1>5, OptionsKept
<1> QED
  BY <1>1, <1>2, <1>3, <1>6 DEF Take

(* Each parser takes an argument as Take does.                             *)
LEMMA CTakes ==
    ASSUME NEW p \in Parser, NEW arg \in Text
    PROVE  C!TakeArgument(p, arg) = Take(CAccepts, p, arg)
<1>1. C!Number(arg) = Number(arg)
  BY SameTables
<1>2. /\ C!IsLong(arg) = IsLong(arg) /\ C!IsFlag(arg) = IsFlag(arg)
      /\ C!StartsWithDashes(arg) = StartsWithDashes(arg)
  BY SameTables
<1>3. CASE p.status = "go" /\ p.flag # ""
  <2>1. <<p.flag, arg>> \in CAccepts <=> Acceptable(p.flag, arg, {"digits"}) /\ ~(IsLong(arg) /\ p.flag = "--ports")
    BY <1>3 DEF CAccepts, Accepted, Parser
  <2>2. C!TakeArgument(p, arg) = C!apply_value(p, arg)
    BY <1>3 DEF C!TakeArgument
  <2>3. C!apply_value(p, arg) = IF Acceptable(p.flag, arg, {"digits"}) /\ ~(IsLong(arg) /\ p.flag = "--ports")
                               THEN Store(p, arg) ELSE Failed(p)
    <3>1. CASE p.flag = "--ports"
      BY <1>2, <3>1 DEF C!apply_value, C!Fail, Acceptable, Store, Put, Failed
    <3>2. CASE p.flag = "--format"
      BY <3>2 DEF C!apply_value, C!Fail, Acceptable, Store, Put, Failed, Formats
    <3>3. CASE p.flag = "--timeout"
      BY <1>1, <3>3, SameLimits DEF C!apply_value, C!Fail, Acceptable, Store, Put, Failed, InForms, C!apply_number,
         C!parse_ulong, Timeouts
    <3>4. CASE p.flag = "--concurrency"
      BY <1>1, <3>4, SameLimits DEF C!apply_value, C!Fail, Acceptable, Store, Put, Failed, InForms, C!apply_number,
         C!parse_ulong, Concurrencies
    <3>5. p.flag \in {"--ports", "--format", "--timeout", "--concurrency"}
      BY <1>3 DEF Parser, Flags
    <3> QED
      BY <3>1, <3>2, <3>3, <3>4, <3>5
  <2> QED
    BY <1>3, <2>1, <2>2, <2>3 DEF Take
<1>4. CASE ~(p.status = "go" /\ p.flag # "")
  <2>1. <<"", arg>> \in CAccepts <=> ~IsLong(arg)
    BY DEF CAccepts, Accepted, Acceptable
  <2> QED
    BY <1>2, <1>4, <2>1 DEF C!TakeArgument, Take, C!Fail, Failed, C!take_positional
<1> QED
  BY <1>3, <1>4

(* The same of the C++ program.                                            *)
LEMMA CppTakes ==
    ASSUME NEW p \in Parser, NEW arg \in Text
    PROVE  Cpp!TakeArgument(p, arg) = Take(CppAccepts, p, arg)
<1>1. Cpp!Number(arg) = Number(arg)
  BY SameTables
<1>2. /\ Cpp!IsLong(arg) = IsLong(arg) /\ Cpp!IsFlag(arg) = IsFlag(arg)
      /\ Cpp!StartsWithDashes(arg) = StartsWithDashes(arg)
  BY SameTables
<1>3. CASE p.status = "go" /\ p.flag # ""
  <2>1. <<p.flag, arg>> \in CppAccepts <=> Acceptable(p.flag, arg, {"digits"})
    BY <1>3 DEF CppAccepts, Accepted, Parser
  <2>2. Cpp!TakeArgument(p, arg) = Cpp!TakeValue(p, arg)
    BY <1>3 DEF Cpp!TakeArgument
  <2>3. Cpp!TakeValue(p, arg) = IF Acceptable(p.flag, arg, {"digits"}) THEN Store(p, arg) ELSE Failed(p)
    <3>1. CASE p.flag = "--ports"
      BY <3>1 DEF Cpp!TakeValue, Cpp!Unexpected, Acceptable, Store, Put, Failed
    <3>2. CASE p.flag = "--format"
      BY <3>2 DEF Cpp!TakeValue, Cpp!Unexpected, Acceptable, Store, Put, Failed, Formats
    <3>3. CASE p.flag = "--timeout"
      BY <1>1, <3>3, SameLimits DEF Cpp!TakeValue, Cpp!Unexpected, Acceptable, Store, Put, Failed, InForms, Cpp!toNumber,
         Timeouts
    <3>4. CASE p.flag = "--concurrency"
      BY <1>1, <3>4, SameLimits DEF Cpp!TakeValue, Cpp!Unexpected, Acceptable, Store, Put, Failed, InForms, Cpp!toNumber,
         Concurrencies
    <3>5. p.flag \in {"--ports", "--format", "--timeout", "--concurrency"}
      BY <1>3 DEF Parser, Flags
    <3> QED
      BY <3>1, <3>2, <3>3, <3>4, <3>5
  <2> QED
    BY <1>3, <2>1, <2>2, <2>3 DEF Take
<1>4. CASE ~(p.status = "go" /\ p.flag # "")
  <2>1. <<"", arg>> \in CppAccepts
    BY DEF CppAccepts, Accepted, Acceptable
  <2> QED
    BY <1>2, <1>4, <2>1 DEF Cpp!TakeArgument, Take, Cpp!Unexpected, Failed
<1> QED
  BY <1>3, <1>4

(* The same of the Rust program.                                           *)
LEMMA RustTakes ==
    ASSUME NEW p \in Parser, NEW arg \in Text
    PROVE  Rust!TakeArgument(p, arg) = Take(RustAccepts, p, arg)
<1>1. Rust!Number(arg) = Number(arg)
  BY SameTables
<1>2. /\ Rust!IsLong(arg) = IsLong(arg) /\ Rust!IsFlag(arg) = IsFlag(arg)
      /\ Rust!StartsWithDashes(arg) = StartsWithDashes(arg)
  BY SameTables
<1>3. CASE p.status = "go" /\ p.flag # ""
  <2>1. <<p.flag, arg>> \in RustAccepts <=> Acceptable(p.flag, arg, {"digits", "plus"})
    BY <1>3 DEF RustAccepts, Accepted, Parser
  <2>2. Rust!TakeArgument(p, arg) = Rust!TakeValue(p, arg)
    BY <1>3 DEF Rust!TakeArgument
  <2>3. Rust!TakeValue(p, arg) = IF Acceptable(p.flag, arg, {"digits", "plus"}) THEN Store(p, arg) ELSE Failed(p)
    <3>1. CASE p.flag = "--ports"
      BY <3>1 DEF Rust!TakeValue, Rust!Err, Acceptable, Store, Put, Failed
    <3>2. CASE p.flag = "--format"
      BY <3>2 DEF Rust!TakeValue, Rust!Err, Acceptable, Store, Put, Failed, Formats
    <3>3. CASE p.flag = "--timeout"
      BY <1>1, <3>3, SameLimits DEF Rust!TakeValue, Rust!Err, Acceptable, Store, Put, Failed, InForms, Rust!parse_unsigned,
         Timeouts
    <3>4. CASE p.flag = "--concurrency"
      BY <1>1, <3>4, SameLimits DEF Rust!TakeValue, Rust!Err, Acceptable, Store, Put, Failed, InForms, Rust!parse_unsigned,
         Concurrencies
    <3>5. p.flag \in {"--ports", "--format", "--timeout", "--concurrency"}
      BY <1>3 DEF Parser, Flags
    <3> QED
      BY <3>1, <3>2, <3>3, <3>4, <3>5
  <2> QED
    BY <1>3, <2>1, <2>2, <2>3 DEF Take
<1>4. CASE ~(p.status = "go" /\ p.flag # "")
  <2>1. <<"", arg>> \in RustAccepts
    BY DEF RustAccepts, Accepted, Acceptable
  <2> QED
    BY <1>2, <1>4, <2>1 DEF Rust!TakeArgument, Take, Rust!Err, Failed
<1> QED
  BY <1>3, <1>4

(* The same of the C# program.                                             *)
LEMMA CsTakes ==
    ASSUME NEW p \in Parser, NEW arg \in Text
    PROVE  Cs!TakeArgument(p, arg) = Take(CsAccepts, p, arg)
<1>1. Cs!Number(arg) = Number(arg)
  BY SameTables
<1>2. /\ Cs!IsLong(arg) = IsLong(arg) /\ Cs!IsFlag(arg) = IsFlag(arg)
      /\ Cs!StartsWithDashes(arg) = StartsWithDashes(arg)
  BY SameTables
<1>3. CASE p.status = "go" /\ p.flag # ""
  <2>1. <<p.flag, arg>> \in CsAccepts <=> Acceptable(p.flag, arg, {"digits"})
    BY <1>3 DEF CsAccepts, Accepted, Parser
  <2>2. Cs!TakeArgument(p, arg) = Cs!ApplyValue(p, arg)
    BY <1>3 DEF Cs!TakeArgument
  <2>3. Cs!ApplyValue(p, arg) = IF Acceptable(p.flag, arg, {"digits"}) THEN Store(p, arg) ELSE Failed(p)
    <3>1. CASE p.flag = "--ports"
      BY <3>1 DEF Cs!ApplyValue, Cs!Throw, Acceptable, Store, Put, Failed
    <3>2. CASE p.flag = "--format"
      BY <3>2 DEF Cs!ApplyValue, Cs!Throw, Acceptable, Store, Put, Failed, Formats
    <3>3. CASE p.flag = "--timeout"
      BY <1>1, <3>3, SameLimits DEF Cs!ApplyValue, Cs!Throw, Acceptable, Store, Put, Failed, InForms, Cs!ParseBoundedNumber,
         Timeouts
    <3>4. CASE p.flag = "--concurrency"
      BY <1>1, <3>4, SameLimits DEF Cs!ApplyValue, Cs!Throw, Acceptable, Store, Put, Failed, InForms, Cs!ParseBoundedNumber,
         Concurrencies
    <3>5. p.flag \in {"--ports", "--format", "--timeout", "--concurrency"}
      BY <1>3 DEF Parser, Flags
    <3> QED
      BY <3>1, <3>2, <3>3, <3>4, <3>5
  <2> QED
    BY <1>3, <2>1, <2>2, <2>3 DEF Take
<1>4. CASE ~(p.status = "go" /\ p.flag # "")
  <2>1. <<"", arg>> \in CsAccepts
    BY DEF CsAccepts, Accepted, Acceptable
  <2> QED
    BY <1>2, <1>4, <2>1 DEF Cs!TakeArgument, Take, Cs!Throw, Failed
<1> QED
  BY <1>3, <1>4

-----------------------------------------------------------------------------
(* The parsers, argument by argument.                                      *)

Run(A, args, f) ==
    /\ f \in [0 .. Len(args) -> Parser]
    /\ f[0] = Start
    /\ \A k \in 1 .. Len(args) : f[k] = Take(A, f[k - 1], args[k])

(* What a parser's fold recurs on.                                         *)
Reads(A, args, g) ==
    /\ g \in [SUBSET (1 .. Len(args)) -> Parser]
    /\ \A s \in SUBSET (1 .. Len(args)) :
          g[s] = IF s = {} THEN Start ELSE Take(A, g[s \ {Max(s)}], args[Max(s)])

(* There is such a function.                                               *)
LEMMA ReadsExist ==
    ASSUME NEW forms, NEW A \in SUBSET Accepted(forms), NEW args \in Seq(Text)
    PROVE  \E g : Reads(A, args, g)
<1> DEFINE step == [pair \in Parser \X Text |-> Take(A, pair[1], pair[2])]
<1>1. IsStep(Parser, Text, step)
  BY TakeIsParser DEF IsStep
<1>2. \A p \in Parser, arg \in Text : step[<<p, arg>>] = Take(A, p, arg)
  OBVIOUS
<1> HIDE DEF step
<1>3. PICK g : Recurs(Parser, Text, step, Start, args, g)
  BY <1>1, StartIsParser, IterExists
<1>4. Reads(A, args, g)
  BY <1>2, <1>3 DEF Reads, Recurs
<1> QED
  BY <1>4

(* What it comes to, argument by argument.                                 *)
LEMMA RunExists ==
    ASSUME NEW forms, NEW A \in SUBSET Accepted(forms), NEW args \in Seq(Text), NEW iter, iter[{}] = Start,
           \A k \in 1 .. Len(args) :
              iter[1 .. k - 1] \in Parser => iter[1 .. k] = Take(A, iter[1 .. k - 1], args[k])
    PROVE  \E f : Run(A, args, f) /\ f[Len(args)] = iter[1 .. Len(args)]
<1> DEFINE S == {m \in Nat : m <= Len(args) => iter[1 .. m] \in Parser}
<1>1. 0 \in S
  <2>1. 1 .. 0 = {}
    OBVIOUS
  <2> QED
    BY <2>1, StartIsParser
<1>2. ASSUME NEW m \in Nat, m \in S PROVE m + 1 \in S
  <2> SUFFICES ASSUME m + 1 <= Len(args) PROVE iter[1 .. m + 1] \in Parser
    OBVIOUS
  <2>1. m + 1 \in 1 .. Len(args) /\ (m + 1) - 1 = m /\ args[m + 1] \in Text
    OBVIOUS
  <2>2. iter[1 .. m] \in Parser
    BY <1>2
  <2>3. iter[1 .. m + 1] = Take(A, iter[1 .. m], args[m + 1])
    BY <2>1, <2>2
  <2>4. \A q \in Parser : Take(A, q, args[m + 1]) \in Parser
    BY <2>1, TakeIsParser
  <2> QED
    BY <2>2, <2>3, <2>4
<1> HIDE DEF S
<1>3. \A m \in 0 .. Len(args) : iter[1 .. m] \in Parser
  <2>1. Nat \subseteq S
    BY <1>1, <1>2, Induction
  <2>2. \A m \in 0 .. Len(args) : m \in Nat /\ m <= Len(args)
    OBVIOUS
  <2> QED
    BY <2>1, <2>2 DEF S
<1> DEFINE f == [k \in 0 .. Len(args) |-> iter[1 .. k]]
<1>4. f \in [0 .. Len(args) -> Parser]
  BY <1>3
<1>5. f[0] = Start
  <2>1. 1 .. 0 = {} /\ 0 \in 0 .. Len(args)
    OBVIOUS
  <2> QED
    BY <2>1
<1>6. f[Len(args)] = iter[1 .. Len(args)]
  OBVIOUS
<1>7. ASSUME NEW k \in 1 .. Len(args) PROVE f[k] = Take(A, f[k - 1], args[k])
  <2>1. k - 1 \in 0 .. Len(args) /\ k \in 0 .. Len(args)
    OBVIOUS
  <2> QED
    BY <1>3, <2>1
<1> HIDE DEF f
<1> QED
  BY <1>4, <1>5, <1>6, <1>7 DEF Run

(* What each parser returns, argument by argument.                         *)
LEMMA CReads ==
    ASSUME NEW args \in Seq(Text)
    PROVE  \E f : Run(CAccepts, args, f) /\ C!args_parse(args) = Finish(f[Len(args)])
<1> DEFINE Body(it) == [s \in SUBSET DOMAIN args |->
                          IF s = {} THEN Start ELSE C!TakeArgument(it[s \ {Max(s)}], args[Max(s)])]
           iter == CHOOSE it : it = Body(it)
<1>1. C!args_parse(args) = Finish(iter[DOMAIN args])
  BY DEF C!args_parse, C!FoldLeft, C!MapThenFoldSet, C!Max, Max,
         C!args_defaults, C!Fail, Finish, Failed, Start, Defaults
<1>2. CAccepts \in SUBSET Accepted({"digits"}) /\ DOMAIN args = 1 .. Len(args) /\ Len(args) \in Nat
  <2>1. CAccepts \subseteq Accepted({"digits"})
    BY DEF CAccepts
  <2> QED
    BY <2>1
<1>3. \E it : it = Body(it)
  <2>1. PICK g \in [SUBSET (1 .. Len(args)) -> Parser] :
          \A s \in SUBSET (1 .. Len(args)) :
              g[s] = IF s = {} THEN Start ELSE Take(CAccepts, g[s \ {Max(s)}], args[Max(s)])
    <3>1. PICK g : Reads(CAccepts, args, g)
      BY <1>2, ReadsExist
    <3> QED
      BY <3>1 DEF Reads
  <2>2. ASSUME NEW s \in SUBSET (1 .. Len(args)), s # {}
        PROVE  g[s] = C!TakeArgument(g[s \ {Max(s)}], args[Max(s)])
    <3>1. Max(s) \in 1 .. Len(args)
      BY <1>2, <2>2, LastPosition
    <3>2. s \ {Max(s)} \in SUBSET (1 .. Len(args))
      OBVIOUS
    <3>3. g[s \ {Max(s)}] \in Parser /\ args[Max(s)] \in Text
      BY <2>1, <3>1, <3>2
    <3> QED
      BY <2>1, <2>2, <3>3, CTakes
  <2>3. g[{}] = Start
    BY <2>1
  <2>4. g = Body(g)
    BY <1>2, <2>1, <2>2, <2>3
  <2> QED
    BY <2>4
<1>4. iter = Body(iter)
  <2> HIDE DEF Body
  <2> QED
    BY <1>3
<1> HIDE DEF iter
<1>5. iter[{}] = Start
  BY <1>4
<1>6. ASSUME NEW k \in 1 .. Len(args), iter[1 .. k - 1] \in Parser
      PROVE  iter[1 .. k] = Take(CAccepts, iter[1 .. k - 1], args[k])
  <2>1. 1 .. k \in SUBSET DOMAIN args /\ 1 .. k # {} /\ Max(1 .. k) = k /\ (1 .. k) \ {k} = 1 .. k - 1
    BY <1>2, LastOfFirst
  <2>2. iter[1 .. k] = C!TakeArgument(iter[1 .. k - 1], args[k])
    BY <1>4, <2>1
  <2>3. args[k] \in Text
    OBVIOUS
  <2> QED
    BY <1>6, <2>2, <2>3, CTakes
<1> HIDE DEF Body
<1>7. PICK f : Run(CAccepts, args, f) /\ f[Len(args)] = iter[1 .. Len(args)]
  BY <1>2, <1>5, <1>6, RunExists
<1> QED
  BY <1>1, <1>2, <1>7

(* The same of the C++ program.                                            *)
LEMMA CppReads ==
    ASSUME NEW args \in Seq(Text)
    PROVE  \E f : Run(CppAccepts, args, f) /\ Cpp!parseArgs(args) = Finish(f[Len(args)])
<1> DEFINE Body(it) == [s \in SUBSET DOMAIN args |->
                          IF s = {} THEN Start ELSE Cpp!TakeArgument(it[s \ {Max(s)}], args[Max(s)])]
           iter == CHOOSE it : it = Body(it)
<1>1. Cpp!parseArgs(args) = Finish(iter[DOMAIN args])
  BY DEF Cpp!parseArgs, Cpp!FoldLeft, Cpp!MapThenFoldSet, Cpp!Max, Max,
         Cpp!DefaultOptions, Cpp!Unexpected, Finish, Failed, Start, Defaults
<1>2. CppAccepts \in SUBSET Accepted({"digits"}) /\ DOMAIN args = 1 .. Len(args) /\ Len(args) \in Nat
  BY DEF CppAccepts
<1>3. \E it : it = Body(it)
  <2>1. PICK g \in [SUBSET (1 .. Len(args)) -> Parser] :
          \A s \in SUBSET (1 .. Len(args)) :
              g[s] = IF s = {} THEN Start ELSE Take(CppAccepts, g[s \ {Max(s)}], args[Max(s)])
    <3>1. PICK g : Reads(CppAccepts, args, g)
      BY <1>2, ReadsExist
    <3> QED
      BY <3>1 DEF Reads
  <2>2. ASSUME NEW s \in SUBSET (1 .. Len(args)), s # {}
        PROVE  g[s] = Cpp!TakeArgument(g[s \ {Max(s)}], args[Max(s)])
    <3>1. Max(s) \in 1 .. Len(args)
      BY <1>2, <2>2, LastPosition
    <3>2. s \ {Max(s)} \in SUBSET (1 .. Len(args))
      OBVIOUS
    <3>3. g[s \ {Max(s)}] \in Parser /\ args[Max(s)] \in Text
      BY <2>1, <3>1, <3>2
    <3> QED
      BY <2>1, <2>2, <3>3, CppTakes
  <2>3. g[{}] = Start
    BY <2>1
  <2>4. g = Body(g)
    BY <1>2, <2>1, <2>2, <2>3
  <2> QED
    BY <2>4
<1>4. iter = Body(iter)
  <2> HIDE DEF Body
  <2> QED
    BY <1>3
<1> HIDE DEF iter
<1>5. iter[{}] = Start
  BY <1>4
<1>6. ASSUME NEW k \in 1 .. Len(args), iter[1 .. k - 1] \in Parser
      PROVE  iter[1 .. k] = Take(CppAccepts, iter[1 .. k - 1], args[k])
  <2>1. 1 .. k \in SUBSET DOMAIN args /\ 1 .. k # {} /\ Max(1 .. k) = k /\ (1 .. k) \ {k} = 1 .. k - 1
    BY <1>2, LastOfFirst
  <2>2. iter[1 .. k] = Cpp!TakeArgument(iter[1 .. k - 1], args[k])
    BY <1>4, <2>1
  <2>3. args[k] \in Text
    OBVIOUS
  <2> QED
    BY <1>6, <2>2, <2>3, CppTakes
<1> HIDE DEF Body
<1>7. PICK f : Run(CppAccepts, args, f) /\ f[Len(args)] = iter[1 .. Len(args)]
  BY <1>2, <1>5, <1>6, RunExists
<1> QED
  BY <1>1, <1>2, <1>7

(* The same of the Rust program.                                           *)
LEMMA RustReads ==
    ASSUME NEW args \in Seq(Text)
    PROVE  \E f : Run(RustAccepts, args, f) /\ Rust!parse_args(args) = Finish(f[Len(args)])
<1> DEFINE Body(it) == [s \in SUBSET DOMAIN args |->
                          IF s = {} THEN Start ELSE Rust!TakeArgument(it[s \ {Max(s)}], args[Max(s)])]
           iter == CHOOSE it : it = Body(it)
<1>1. Rust!parse_args(args) = Finish(iter[DOMAIN args])
  BY DEF Rust!parse_args, Rust!FoldLeft, Rust!MapThenFoldSet, Rust!Max, Max,
         Rust!Default, Rust!Err, Finish, Failed, Start, Defaults
<1>2. RustAccepts \in SUBSET Accepted({"digits", "plus"}) /\ DOMAIN args = 1 .. Len(args) /\ Len(args) \in Nat
  BY DEF RustAccepts
<1>3. \E it : it = Body(it)
  <2>1. PICK g \in [SUBSET (1 .. Len(args)) -> Parser] :
          \A s \in SUBSET (1 .. Len(args)) :
              g[s] = IF s = {} THEN Start ELSE Take(RustAccepts, g[s \ {Max(s)}], args[Max(s)])
    <3>1. PICK g : Reads(RustAccepts, args, g)
      BY <1>2, ReadsExist
    <3> QED
      BY <3>1 DEF Reads
  <2>2. ASSUME NEW s \in SUBSET (1 .. Len(args)), s # {}
        PROVE  g[s] = Rust!TakeArgument(g[s \ {Max(s)}], args[Max(s)])
    <3>1. Max(s) \in 1 .. Len(args)
      BY <1>2, <2>2, LastPosition
    <3>2. s \ {Max(s)} \in SUBSET (1 .. Len(args))
      OBVIOUS
    <3>3. g[s \ {Max(s)}] \in Parser /\ args[Max(s)] \in Text
      BY <2>1, <3>1, <3>2
    <3> QED
      BY <2>1, <2>2, <3>3, RustTakes
  <2>3. g[{}] = Start
    BY <2>1
  <2>4. g = Body(g)
    BY <1>2, <2>1, <2>2, <2>3
  <2> QED
    BY <2>4
<1>4. iter = Body(iter)
  <2> HIDE DEF Body
  <2> QED
    BY <1>3
<1> HIDE DEF iter
<1>5. iter[{}] = Start
  BY <1>4
<1>6. ASSUME NEW k \in 1 .. Len(args), iter[1 .. k - 1] \in Parser
      PROVE  iter[1 .. k] = Take(RustAccepts, iter[1 .. k - 1], args[k])
  <2>1. 1 .. k \in SUBSET DOMAIN args /\ 1 .. k # {} /\ Max(1 .. k) = k /\ (1 .. k) \ {k} = 1 .. k - 1
    BY <1>2, LastOfFirst
  <2>2. iter[1 .. k] = Rust!TakeArgument(iter[1 .. k - 1], args[k])
    BY <1>4, <2>1
  <2>3. args[k] \in Text
    OBVIOUS
  <2> QED
    BY <1>6, <2>2, <2>3, RustTakes
<1> HIDE DEF Body
<1>7. PICK f : Run(RustAccepts, args, f) /\ f[Len(args)] = iter[1 .. Len(args)]
  BY <1>2, <1>5, <1>6, RunExists
<1> QED
  BY <1>1, <1>2, <1>7

(* The same of the C# program.                                             *)
LEMMA CsReads ==
    ASSUME NEW args \in Seq(Text)
    PROVE  \E f : Run(CsAccepts, args, f) /\ Cs!Parse(args) = Finish(f[Len(args)])
<1> DEFINE Body(it) == [s \in SUBSET DOMAIN args |->
                          IF s = {} THEN Start ELSE Cs!TakeArgument(it[s \ {Max(s)}], args[Max(s)])]
           iter == CHOOSE it : it = Body(it)
<1>1. Cs!Parse(args) = Finish(iter[DOMAIN args])
  BY DEF Cs!Parse, Cs!FoldLeft, Cs!MapThenFoldSet, Cs!Max, Max,
         Cs!NewOptions, Cs!Throw, Finish, Failed, Start, Defaults
<1>2. CsAccepts \in SUBSET Accepted({"digits"}) /\ DOMAIN args = 1 .. Len(args) /\ Len(args) \in Nat
  BY DEF CsAccepts
<1>3. \E it : it = Body(it)
  <2>1. PICK g \in [SUBSET (1 .. Len(args)) -> Parser] :
          \A s \in SUBSET (1 .. Len(args)) :
              g[s] = IF s = {} THEN Start ELSE Take(CsAccepts, g[s \ {Max(s)}], args[Max(s)])
    <3>1. PICK g : Reads(CsAccepts, args, g)
      BY <1>2, ReadsExist
    <3> QED
      BY <3>1 DEF Reads
  <2>2. ASSUME NEW s \in SUBSET (1 .. Len(args)), s # {}
        PROVE  g[s] = Cs!TakeArgument(g[s \ {Max(s)}], args[Max(s)])
    <3>1. Max(s) \in 1 .. Len(args)
      BY <1>2, <2>2, LastPosition
    <3>2. s \ {Max(s)} \in SUBSET (1 .. Len(args))
      OBVIOUS
    <3>3. g[s \ {Max(s)}] \in Parser /\ args[Max(s)] \in Text
      BY <2>1, <3>1, <3>2
    <3> QED
      BY <2>1, <2>2, <3>3, CsTakes
  <2>3. g[{}] = Start
    BY <2>1
  <2>4. g = Body(g)
    BY <1>2, <2>1, <2>2, <2>3
  <2> QED
    BY <2>4
<1>4. iter = Body(iter)
  <2> HIDE DEF Body
  <2> QED
    BY <1>3
<1> HIDE DEF iter
<1>5. iter[{}] = Start
  BY <1>4
<1>6. ASSUME NEW k \in 1 .. Len(args), iter[1 .. k - 1] \in Parser
      PROVE  iter[1 .. k] = Take(CsAccepts, iter[1 .. k - 1], args[k])
  <2>1. 1 .. k \in SUBSET DOMAIN args /\ 1 .. k # {} /\ Max(1 .. k) = k /\ (1 .. k) \ {k} = 1 .. k - 1
    BY <1>2, LastOfFirst
  <2>2. iter[1 .. k] = Cs!TakeArgument(iter[1 .. k - 1], args[k])
    BY <1>4, <2>1
  <2>3. args[k] \in Text
    OBVIOUS
  <2> QED
    BY <1>6, <2>2, <2>3, CsTakes
<1> HIDE DEF Body
<1>7. PICK f : Run(CsAccepts, args, f) /\ f[Len(args)] = iter[1 .. Len(args)]
  BY <1>2, <1>5, <1>6, RunExists
<1> QED
  BY <1>1, <1>2, <1>7

-----------------------------------------------------------------------------
(* The contract's reading of the same list.                                *)

(* The values of the flags are well defined: the positions after a flag    *)
(* that is not itself a value.                                             *)
LEMMA ValuesOfUnfolds ==
    ASSUME NEW args \in Seq(Text)
    PROVE  /\ ValuesOf(args) \subseteq DOMAIN args
           /\ \A i \in DOMAIN args : i \in ValuesOf(args) <=> i > 1 /\ i - 1 \notin ValuesOf(args) /\ IsFlag(args[i - 1])
<1> DEFINE Right(s, m) == \A i \in 1 .. m : i \in s <=> i > 1 /\ i - 1 \notin s /\ IsFlag(args[i - 1])
           S == {m \in Nat : m <= Len(args) => \E s \in SUBSET (1 .. m) : Right(s, m)}
<1>1. 0 \in S
  <2>1. 1 .. 0 = {} /\ Right({}, 0)
    OBVIOUS
  <2> QED
    BY <2>1
<1>2. ASSUME NEW m \in Nat, m \in S PROVE m + 1 \in S
  <2>1. SUFFICES ASSUME m + 1 <= Len(args) PROVE \E s \in SUBSET (1 .. m + 1) : Right(s, m + 1)
    <3> HIDE DEF Right
    <3> QED
      OBVIOUS
  <2>2. PICK s \in SUBSET (1 .. m) : Right(s, m)
    BY <1>2, <2>1
  <2>3. \A i \in 1 .. m + 1 : i \in 1 .. m \/ i = m + 1
    OBVIOUS
  <2>4. CASE m + 1 > 1 /\ m \notin s /\ IsFlag(args[m])
    <3>1. s \cup {m + 1} \in SUBSET (1 .. m + 1)
      OBVIOUS
    <3>2. Right(s \cup {m + 1}, m + 1)
      BY <2>2, <2>3, <2>4
    <3> QED
      BY <3>1, <3>2
  <2>5. CASE ~(m + 1 > 1 /\ m \notin s /\ IsFlag(args[m]))
    <3>1. s \in SUBSET (1 .. m + 1) /\ m + 1 \notin s
      OBVIOUS
    <3>2. Right(s, m + 1)
      BY <2>2, <2>3, <2>5, <3>1
    <3> QED
      BY <3>1, <3>2
  <2> QED
    BY <2>4, <2>5
<1> HIDE DEF S
<1>3. Len(args) \in Nat /\ Len(args) <= Len(args)
  OBVIOUS
<1>4. Len(args) \in S
  BY <1>1, <1>2, <1>3, Induction
<1>5. PICK s \in SUBSET (1 .. Len(args)) : Right(s, Len(args))
  <2>1. \E s \in SUBSET (1 .. Len(args)) : Right(s, Len(args))
    <3> HIDE DEF Right
    <3> QED
      BY <1>3, <1>4 DEF S
  <2> QED
    BY <2>1
<1>6. DOMAIN args = 1 .. Len(args)
  OBVIOUS
<1>7. \E t \in SUBSET DOMAIN args :
          \A i \in DOMAIN args : i \in t <=> i > 1 /\ i - 1 \notin t /\ IsFlag(args[i - 1])
  BY <1>5, <1>6
<1> QED
  BY <1>7, Zenon DEF ValuesOf

(* The words of the command line: a flag begins with dashes and is none of *)
(* the other words.                                                        *)
LEMMA Words ==
    ASSUME NEW text
    PROVE  /\ IsFlag(text) <=> text \in Flags
           /\ StartsWithDashes(text) <=> IsFlag(text) \/ text \in {"--help", "--banner", "--yes-i-own-this", "--unknown"}
           /\ IsFlag(text) => text \notin {"", "--help", "-h", "--banner", "--yes-i-own-this", "--unknown"}
BY DEF IsFlag, StartsWithDashes, Flags

Confirmed(args, n) == \E j \in 1 .. n : IsOption(args, j) /\ args[j] = "--yes-i-own-this"
HasTarget(args, n) == \E j \in 1 .. n : IsTarget(args, j) /\ args[j] # ""
NoHelp(args, n) == \A j \in 1 .. n : ~IsHelp(args, j)
NoWrong(args, n) == \A j \in 1 .. n : ~IsWrong(args, j)

GivesPorts(args, j) == IsOption(args, j) /\ args[j] = "--ports"

PortsRead(args, n, spec) ==
    /\ (\A j \in 1 .. n : ~GivesPorts(args, j)) => spec = "1-1024"
    /\ \A j \in 1 .. n : GivesPorts(args, j) /\ (\A k \in 1 .. n : GivesPorts(args, k) => k <= j) => spec = args[j + 1]

(* Only valid values are accepted; or these, and every target.             *)
Strict(A, args) == \A k \in DOMAIN args : \A flag \in Flags : <<flag, args[k]>> \in A => ValidValue(flag, args[k])

Exact(A, args) ==
    /\ Strict(A, args)
    /\ \A k \in DOMAIN args :
          /\ <<"", args[k]>> \in A
          /\ \A flag \in Flags : ValidValue(flag, args[k]) => <<flag, args[k]>> \in A

(* What the state p after n arguments says of them.                        *)
WhileReading(A, args, n, p) ==
    /\ p.flag = IF n > 0 /\ IsOption(args, n) /\ IsFlag(args[n]) THEN args[n] ELSE ""
    /\ p.options.confirmed <=> Confirmed(args, n)
    /\ p.options.target # "" <=> HasTarget(args, n)
    /\ PortsRead(args, n - 1, p.options.ports_spec)
    /\ NoHelp(args, n)
    /\ Strict(A, args) => NoWrong(args, IF p.flag = "" THEN n ELSE n - 1)

Agrees(A, args, n, p) ==
    /\ p.status = "go" => WhileReading(A, args, n, p)
    /\ p.status = "help" /\ Strict(A, args) => AsksForHelp(args)
    /\ p.status = "error" /\ Exact(A, args) => \E j \in 1 .. n : IsWrong(args, j) /\ NoHelp(args, j)

(* One argument more.                                                      *)
LEMMA NextPosition ==
    ASSUME NEW args \in Seq(Text), NEW n \in Nat, n + 1 \in DOMAIN args
    PROVE  /\ Confirmed(args, n + 1) <=> Confirmed(args, n) \/ (IsOption(args, n + 1) /\ args[n + 1] = "--yes-i-own-this")
           /\ HasTarget(args, n + 1) <=> HasTarget(args, n) \/ (IsTarget(args, n + 1) /\ args[n + 1] # "")
           /\ NoHelp(args, n + 1) <=> NoHelp(args, n) /\ ~IsHelp(args, n + 1)
           /\ NoWrong(args, n + 1) <=> NoWrong(args, n) /\ ~IsWrong(args, n + 1)
           /\ IsOption(args, n + 1) <=> ~(n > 0 /\ IsOption(args, n) /\ IsFlag(args[n]))
           /\ \A spec : ~(n > 0 /\ GivesPorts(args, n)) /\ PortsRead(args, n - 1, spec) => PortsRead(args, n, spec)
           /\ n > 0 /\ GivesPorts(args, n) => PortsRead(args, n, args[n + 1])
<1>1. \A j \in 1 .. n + 1 : j \in 1 .. n \/ j = n + 1
  OBVIOUS
<1>2. \A j \in 1 .. n : j \in 1 .. n + 1
  OBVIOUS
<1>3. n + 1 \in 1 .. n + 1
  OBVIOUS
<1>4. Confirmed(args, n + 1) <=> Confirmed(args, n) \/ (IsOption(args, n + 1) /\ args[n + 1] = "--yes-i-own-this")
  BY <1>1, <1>2, <1>3 DEF Confirmed
<1>5. HasTarget(args, n + 1) <=> HasTarget(args, n) \/ (IsTarget(args, n + 1) /\ args[n + 1] # "")
  BY <1>1, <1>2, <1>3 DEF HasTarget
<1>6. NoHelp(args, n + 1) <=> NoHelp(args, n) /\ ~IsHelp(args, n + 1)
  BY <1>1, <1>2, <1>3 DEF NoHelp
<1>7. NoWrong(args, n + 1) <=> NoWrong(args, n) /\ ~IsWrong(args, n + 1)
  BY <1>1, <1>2, <1>3 DEF NoWrong
<1>8. IsOption(args, n + 1) <=> ~(n > 0 /\ IsOption(args, n) /\ IsFlag(args[n]))
  <2>1. n + 1 \in ValuesOf(args) <=> n + 1 > 1 /\ n \notin ValuesOf(args) /\ IsFlag(args[n])
    <3>1. (n + 1) - 1 = n
      OBVIOUS
    <3> QED
      BY <3>1, ValuesOfUnfolds
  <2>2. n > 0 => n \in DOMAIN args
    OBVIOUS
  <2> QED
    BY <2>1, <2>2 DEF IsOption
<1>9. \A j \in 1 .. n : j \in 1 .. n - 1 \/ j = n
  OBVIOUS
<1>10. \A j \in 1 .. n - 1 : j \in 1 .. n /\ j <= n /\ j # n
  OBVIOUS
<1>11. ASSUME NEW spec, ~(n > 0 /\ GivesPorts(args, n)), PortsRead(args, n - 1, spec) PROVE PortsRead(args, n, spec)
  <2>1. \A j \in 1 .. n : GivesPorts(args, j) => j \in 1 .. n - 1
    BY <1>9, <1>11
  <2> QED
    BY <1>10, <1>11, <2>1 DEF PortsRead
<1>12. ASSUME n > 0, GivesPorts(args, n) PROVE PortsRead(args, n, args[n + 1])
  <2>1. n \in 1 .. n
    BY <1>12
  <2>2. \A j \in 1 .. n : n <= j => j = n
    OBVIOUS
  <2> QED
    BY <1>12, <2>1, <2>2 DEF PortsRead
<1> QED
  BY <1>4, <1>5, <1>6, <1>7, <1>8, <1>11, <1>12

(* The positions up to the next one.                                       *)
LEMMA Positions ==
    ASSUME NEW args \in Seq(Text), NEW n \in Nat, n + 1 \in DOMAIN args
    PROVE  /\ (n + 1) - 1 = n /\ n + 1 > 0 /\ n # Len(args) /\ args[n + 1] \in Text
           /\ n > 0 => n \in DOMAIN args /\ n \in 1 .. n + 1
           /\ n + 1 \in 1 .. n + 1
           /\ \A j \in 1 .. n : j \in 1 .. n + 1
           /\ \A j \in 1 .. n + 1 : j \in 1 .. n - 1 \/ j = n \/ j = n + 1
OBVIOUS

(* What an argument is, for the contract, by its place and its text.       *)
LEMMA KindOfArgument ==
    ASSUME NEW args \in Seq(Text), NEW i \in DOMAIN args
    PROVE  /\ IsHelp(args, i) <=> IsOption(args, i) /\ args[i] \in {"--help", "-h"}
           /\ IsTarget(args, i) <=> IsOption(args, i) /\ ~StartsWithDashes(args[i]) /\ args[i] # "-h"
           /\ IsWrong(args, i) <=>
                 /\ IsOption(args, i)
                 /\ \/ IsFlag(args[i]) /\ (i = Len(args) \/ ~ValidValue(args[i], args[i + 1]))
                    \/ args[i] = "--unknown"
                    \/ IsTarget(args, i) /\ HasTarget(args, i - 1)
BY DEF IsHelp, IsTarget, IsWrong, HasTarget

(* Agreement survives the value of a flag.                                 *)
LEMMA ValueAgrees ==
    ASSUME NEW forms, NEW A \in SUBSET Accepted(forms), NEW args \in Seq(Text), NEW n \in Nat, n + 1 \in DOMAIN args,
           NEW p \in Parser, p.status = "go", p.flag # "", WhileReading(A, args, n, p)
    PROVE  Agrees(A, args, n + 1, Take(A, p, args[n + 1]))
<1> DEFINE arg == args[n + 1]
           q == Take(A, p, arg)
<1>1. /\ n > 0 /\ n \in DOMAIN args /\ IsOption(args, n) /\ IsFlag(args[n]) /\ p.flag = args[n]
      /\ arg \in Text /\ n # Len(args) /\ (n + 1) - 1 = n
  BY Positions DEF WhileReading
<1>2. ~IsOption(args, n + 1)
  BY <1>1, NextPosition
<1>3. ~IsHelp(args, n + 1) /\ ~IsTarget(args, n + 1) /\ ~IsWrong(args, n + 1)
  BY <1>2, KindOfArgument
<1>4. CASE <<p.flag, arg>> \in A
  <2>1. q = Store(p, arg) /\ q.status = "go" /\ q.flag = "" /\ q.options = Put(p.options, p.flag, arg)
    BY <1>4 DEF Take, Store, Parser
  <2>2. /\ q.options.confirmed = p.options.confirmed /\ q.options.target = p.options.target
        /\ q.options.ports_spec = IF p.flag = "--ports" THEN arg ELSE p.options.ports_spec
    <3>1. p.options \in Options /\ p.flag \in Flags
      BY DEF Parser
    <3>2. CASE p.flag = "--ports"
      BY <2>1, <3>1, <3>2 DEF Put, Options
    <3>3. CASE p.flag = "--format"
      BY <2>1, <3>1, <3>3 DEF Put, Options
    <3>4. CASE p.flag = "--timeout"
      BY <2>1, <3>1, <3>4 DEF Put, Options
    <3>5. CASE p.flag = "--concurrency"
      BY <2>1, <3>1, <3>5 DEF Put, Options
    <3> QED
      BY <3>1, <3>2, <3>3, <3>4, <3>5 DEF Flags
  <2> HIDE DEF q
  <2>3. Confirmed(args, n + 1) <=> Confirmed(args, n)
    BY <1>2, NextPosition
  <2>4. HasTarget(args, n + 1) <=> HasTarget(args, n)
    BY <1>3, NextPosition
  <2>5. NoHelp(args, n + 1) <=> NoHelp(args, n)
    BY <1>3, NextPosition
  <2>6. PortsRead(args, n, q.options.ports_spec)
    <3>1. GivesPorts(args, n) <=> p.flag = "--ports"
      BY <1>1 DEF GivesPorts
    <3>2. PortsRead(args, n - 1, p.options.ports_spec)
      BY DEF WhileReading
    <3> QED
      BY <1>1, <2>2, <3>1, <3>2, NextPosition
  <2>7. ASSUME Strict(A, args) PROVE NoWrong(args, n + 1)
    <3>1. NoWrong(args, n - 1)
      BY <1>1, <2>7 DEF WhileReading
    <3>2. ValidValue(args[n], arg)
      BY <1>1, <1>4, <2>7, Words DEF Strict
    <3>3. args[n] # "--unknown" /\ ~IsTarget(args, n)
      BY <1>1, KindOfArgument, Words
    <3>4. ~IsWrong(args, n)
      BY <1>1, <3>2, <3>3, KindOfArgument
    <3>5. \A j \in 1 .. n + 1 : j \in 1 .. n - 1 \/ j = n \/ j = n + 1
      BY Positions
    <3> QED
      BY <1>3, <3>1, <3>4, <3>5 DEF NoWrong
  <2>8. WhileReading(A, args, n + 1, q)
    BY <1>1, <1>2, <2>1, <2>2, <2>3, <2>4, <2>5, <2>6, <2>7 DEF WhileReading
  <2> QED
    BY <2>1, <2>8 DEF Agrees, q
<1>5. CASE <<p.flag, arg>> \notin A
  <2>1. q = Failed(p) /\ q.status = "error"
    BY <1>5 DEF Take, Failed, Parser
  <2> HIDE DEF q
  <2>2. ASSUME Exact(A, args) PROVE IsWrong(args, n) /\ NoHelp(args, n)
    <3>1. ~ValidValue(args[n], arg)
      BY <1>1, <1>5, <2>2, Words DEF Exact
    <3> QED
      BY <1>1, <3>1, KindOfArgument DEF WhileReading
  <2>3. n \in 1 .. n + 1
    BY <1>1, Positions
  <2> QED
    BY <2>1, <2>2, <2>3 DEF Agrees, q
<1> QED
  BY <1>4, <1>5

(* It survives an option or a target.                                      *)
LEMMA OptionAgrees ==
    ASSUME NEW forms, NEW A \in SUBSET Accepted(forms), NEW args \in Seq(Text), NEW n \in Nat, n + 1 \in DOMAIN args,
           NEW p \in Parser, p.status = "go", p.flag = "", WhileReading(A, args, n, p)
    PROVE  Agrees(A, args, n + 1, Take(A, p, args[n + 1]))
<1> DEFINE arg == args[n + 1]
           q == Take(A, p, arg)
<1>1. IsOption(args, n + 1) /\ (n + 1) - 1 = n /\ n + 1 > 0 /\ n + 1 \in 1 .. n + 1 /\ arg \in Text
  <2>1. ~(n > 0 /\ IsOption(args, n) /\ IsFlag(args[n]))
    <3>1. args[n] # "" \/ ~IsFlag(args[n])
      BY Words
    <3> QED
      BY <3>1 DEF WhileReading
  <2>2. IsOption(args, n + 1)
    BY <2>1, NextPosition
  <2> QED
    BY <2>2, Positions
<1>2. /\ p.options.confirmed <=> Confirmed(args, n)
      /\ p.options.target # "" <=> HasTarget(args, n)
      /\ PortsRead(args, n - 1, p.options.ports_spec)
      /\ NoHelp(args, n)
      /\ Strict(A, args) => NoWrong(args, n)
  BY DEF WhileReading
<1>3. PortsRead(args, n, p.options.ports_spec)
  <2>1. ~(n > 0 /\ GivesPorts(args, n))
    <3>1. GivesPorts(args, n) => IsFlag(args[n]) /\ args[n] # ""
      BY Words DEF GivesPorts, Flags
    <3> QED
      BY <3>1 DEF WhileReading, GivesPorts
  <2> QED
    BY <1>2, <2>1, NextPosition
<1>4. CASE arg \in {"--help", "-h"}
  <2>1. q.status = "help"
    BY <1>4 DEF Take, Parser
  <2>2. ASSUME Strict(A, args) PROVE AsksForHelp(args)
    <3>1. IsHelp(args, n + 1)
      BY <1>1, <1>4, KindOfArgument
    <3>2. \A j \in 1 .. (n + 1) - 1 : ~IsWrong(args, j)
      BY <1>1, <1>2, <2>2 DEF NoWrong
    <3> QED
      BY <3>1, <3>2 DEF AsksForHelp
  <2> QED
    BY <2>1, <2>2 DEF Agrees
<1>5. ASSUME arg \notin {"--help", "-h"} PROVE ~IsHelp(args, n + 1) /\ NoHelp(args, n + 1)
  <2>1. ~IsHelp(args, n + 1)
    BY <1>5, KindOfArgument
  <2> QED
    BY <1>2, <2>1, NextPosition
<1>6. CASE arg \in {"--banner", "--yes-i-own-this"}
  <2>1. /\ q.status = "go" /\ q.flag = "" /\ q.options.target = p.options.target
        /\ q.options.ports_spec = p.options.ports_spec
        /\ q.options.confirmed <=> p.options.confirmed \/ arg = "--yes-i-own-this"
    <3>1. p.options \in Options
      BY DEF Parser
    <3>2. CASE arg = "--banner"
      BY <3>1, <3>2 DEF Take, Parser, Options
    <3>3. CASE arg = "--yes-i-own-this"
      BY <3>1, <3>3 DEF Take, Parser, Options
    <3> QED
      BY <1>6, <3>2, <3>3
  <2> HIDE DEF q
  <2>2. ~IsFlag(arg) /\ StartsWithDashes(arg) /\ arg # "--unknown"
    BY <1>6, Words
  <2>3. ~IsTarget(args, n + 1) /\ ~IsWrong(args, n + 1)
    BY <2>2, KindOfArgument
  <2>4. Confirmed(args, n + 1) <=> Confirmed(args, n) \/ arg = "--yes-i-own-this"
    BY <1>1, NextPosition
  <2>5. /\ HasTarget(args, n + 1) <=> HasTarget(args, n)
        /\ NoWrong(args, n + 1) <=> NoWrong(args, n)
    BY <2>3, NextPosition
  <2>6. WhileReading(A, args, n + 1, q)
    BY <1>1, <1>2, <1>3, <1>5, <1>6, <2>1, <2>2, <2>4, <2>5 DEF WhileReading
  <2> QED
    BY <2>1, <2>6 DEF Agrees, q
<1>7. CASE IsFlag(arg)
  <2>1. arg \notin {"", "--help", "-h", "--banner", "--yes-i-own-this"} /\ StartsWithDashes(arg)
    BY <1>7, Words
  <2>2. q.status = "go" /\ q.flag = arg /\ q.options = p.options
    BY <1>7, <2>1 DEF Take, Parser
  <2> HIDE DEF q
  <2>3. ~IsTarget(args, n + 1)
    BY <2>1, KindOfArgument
  <2>4. Confirmed(args, n + 1) <=> Confirmed(args, n)
    BY <2>1, NextPosition
  <2>5. HasTarget(args, n + 1) <=> HasTarget(args, n)
    BY <2>3, NextPosition
  <2>6. WhileReading(A, args, n + 1, q)
    BY <1>1, <1>2, <1>3, <1>5, <1>7, <2>1, <2>2, <2>4, <2>5 DEF WhileReading
  <2> QED
    BY <2>2, <2>6 DEF Agrees, q
<1>8. CASE /\ arg \notin {"--help", "-h", "--banner", "--yes-i-own-this"} /\ ~IsFlag(arg)
           /\ StartsWithDashes(arg) \/ p.options.target # "" \/ <<"", arg>> \notin A
  <2>1. q.status = "error"
    BY <1>8 DEF Take, Failed, Parser
  <2> HIDE DEF q
  <2>2. ASSUME Exact(A, args) PROVE IsWrong(args, n + 1)
    <3>1. StartsWithDashes(arg) \/ p.options.target # ""
      BY <1>8, <2>2 DEF Exact
    <3>2. StartsWithDashes(arg) => arg = "--unknown"
      BY <1>8, Words
    <3>3. ~StartsWithDashes(arg) => IsTarget(args, n + 1)
      BY <1>1, <1>8, KindOfArgument
    <3> QED
      BY <1>1, <1>2, <3>1, <3>2, <3>3, KindOfArgument
  <2> QED
    BY <1>1, <1>5, <1>8, <2>1, <2>2 DEF Agrees, q
<1>9. CASE /\ arg \notin {"--help", "-h", "--banner", "--yes-i-own-this"} /\ ~IsFlag(arg)
           /\ ~(StartsWithDashes(arg) \/ p.options.target # "" \/ <<"", arg>> \notin A)
  <2>1. /\ q.status = "go" /\ q.flag = "" /\ q.options.target = arg
        /\ q.options.confirmed = p.options.confirmed /\ q.options.ports_spec = p.options.ports_spec
    <3>1. p.options \in Options
      BY DEF Parser
    <3> QED
      BY <1>9, <3>1 DEF Take, Parser, Options
  <2> HIDE DEF q
  <2>2. ~HasTarget(args, n) /\ arg # "--unknown"
    BY <1>2, <1>9, Words
  <2>3. IsTarget(args, n + 1) /\ ~IsWrong(args, n + 1)
    BY <1>1, <1>9, <2>2, KindOfArgument
  <2>4. Confirmed(args, n + 1) <=> Confirmed(args, n)
    BY <1>9, NextPosition
  <2>5. HasTarget(args, n + 1) <=> arg # ""
    BY <2>2, <2>3, NextPosition
  <2>6. NoWrong(args, n + 1) <=> NoWrong(args, n)
    BY <2>3, NextPosition
  <2>7. WhileReading(A, args, n + 1, q)
    BY <1>1, <1>2, <1>3, <1>5, <1>9, <2>1, <2>4, <2>5, <2>6 DEF WhileReading
  <2> QED
    BY <2>1, <2>7 DEF Agrees, q
<1> QED
  BY <1>4, <1>6, <1>7, <1>8, <1>9

(* It survives every argument, also once the parser has stopped.           *)
LEMMA TakeAgrees ==
    ASSUME NEW forms, NEW A \in SUBSET Accepted(forms), NEW args \in Seq(Text), NEW n \in Nat, n + 1 \in DOMAIN args,
           NEW p \in Parser, Agrees(A, args, n, p)
    PROVE  Agrees(A, args, n + 1, Take(A, p, args[n + 1]))
<1>1. CASE p.status = "go" /\ p.flag # ""
  BY <1>1, ValueAgrees DEF Agrees
<1>2. CASE p.status = "go" /\ p.flag = ""
  BY <1>2, OptionAgrees DEF Agrees
<1>3. CASE p.status # "go"
  <2>1. Take(A, p, args[n + 1]) = p
    BY <1>3 DEF Take
  <2>2. \A j \in 1 .. n : j \in 1 .. n + 1
    OBVIOUS
  <2> QED
    BY <1>3, <2>1, <2>2 DEF Agrees
<1> QED
  BY <1>1, <1>2, <1>3

(* It holds before the first argument, and so to the end.                  *)
LEMMA RunAgrees ==
    ASSUME NEW forms, NEW A \in SUBSET Accepted(forms), NEW args \in Seq(Text), NEW f, Run(A, args, f)
    PROVE  f[Len(args)] \in Parser /\ Agrees(A, args, Len(args), f[Len(args)])
<1> DEFINE S == {n \in Nat : n <= Len(args) => Agrees(A, args, n, f[n])}
<1>1. 0 \in S
  <2>1. f[0] = Start
    BY DEF Run
  <2>2. Start.status = "go" /\ Start.flag = "" /\ Start.options = Defaults
    BY DEF Start
  <2>3. Defaults.target = "" /\ Defaults.ports_spec = "1-1024" /\ Defaults.confirmed = FALSE
    BY DEF Defaults
  <2>4. 1 .. 0 = {} /\ 1 .. 0 - 1 = {} /\ ~(0 > 0)
    OBVIOUS
  <2>5. ~Confirmed(args, 0) /\ ~HasTarget(args, 0) /\ NoHelp(args, 0) /\ NoWrong(args, 0)
    BY <2>4 DEF Confirmed, HasTarget, NoHelp, NoWrong
  <2>6. PortsRead(args, 0 - 1, "1-1024")
    BY <2>4 DEF PortsRead
  <2>7. WhileReading(A, args, 0, Start)
    BY <2>2, <2>3, <2>4, <2>5, <2>6 DEF WhileReading
  <2> QED
    BY <2>1, <2>2, <2>7 DEF Agrees
<1>2. ASSUME NEW n \in Nat, n \in S PROVE n + 1 \in S
  <2> SUFFICES ASSUME n + 1 <= Len(args) PROVE Agrees(A, args, n + 1, f[n + 1])
    OBVIOUS
  <2>1. n + 1 \in DOMAIN args /\ n + 1 \in 1 .. Len(args) /\ (n + 1) - 1 = n /\ n \in 0 .. Len(args)
    OBVIOUS
  <2>2. f[n + 1] = Take(A, f[n], args[n + 1]) /\ f[n] \in Parser
    BY <2>1 DEF Run
  <2>3. Agrees(A, args, n, f[n])
    BY <1>2, <2>1
  <2> QED
    BY <2>1, <2>2, <2>3, TakeAgrees
<1> HIDE DEF S
<1>3. Len(args) \in Nat /\ Len(args) <= Len(args) /\ Len(args) \in 0 .. Len(args)
  OBVIOUS
<1>4. Len(args) \in S
  BY <1>1, <1>2, <1>3, Induction
<1> QED
  BY <1>3, <1>4 DEF S, Run

-----------------------------------------------------------------------------
(* What the four parsers return, in the terms of the contract.             *)

Parsed(A, args, r) ==
    /\ r \in Parser
    /\ r.status = "go" =>
          /\ r.options.target # ""
          /\ r.options.ports_spec = PortsText(args)
          /\ r.options.ports_spec = "1-1024" \/ \E k \in DOMAIN args : r.options.ports_spec = args[k]
          /\ r.options.confirmed <=> Confirms(args)
          /\ Strict(A, args) => WellFormed(args) /\ ~AsksForHelp(args)
    /\ r.status = "help" /\ Strict(A, args) => AsksForHelp(args)
    /\ r.status = "error" /\ Exact(A, args) => ~WellFormed(args) /\ ~AsksForHelp(args)

(* An argument that is wrong, and no request for help up to it.            *)
LEMMA WrongBeforeHelp ==
    ASSUME NEW args \in Seq(Text), NEW j \in DOMAIN args, IsWrong(args, j), NoHelp(args, j)
    PROVE  ~WellFormed(args) /\ ~AsksForHelp(args)
<1>1. ~WellFormed(args)
  BY DEF WellFormed
<1>2. ASSUME NEW i \in DOMAIN args, IsHelp(args, i) PROVE j \in 1 .. i - 1
  <2>1. i \notin 1 .. j
    BY <1>2 DEF NoHelp
  <2>2. i \in 1 .. Len(args) /\ j \in 1 .. Len(args) /\ Len(args) \in Nat
    OBVIOUS
  <2> QED
    BY <2>1, <2>2
<1> QED
  BY <1>1, <1>2 DEF AsksForHelp

(* The last --ports, whose value is an argument too.                       *)
LEMMA LastPorts ==
    ASSUME NEW args \in Seq(Text), NEW spec, PortsRead(args, Len(args) - 1, spec),
           Len(args) > 0 => ~GivesPorts(args, Len(args))
    PROVE  spec = PortsText(args) /\ (spec = "1-1024" \/ \E k \in DOMAIN args : spec = args[k])
<1> DEFINE n == Len(args)
           given == {i \in DOMAIN args : IsOption(args, i) /\ args[i] = "--ports"}
           last == CHOOSE i \in given : \A j \in given : j <= i
<1>1. n \in Nat /\ DOMAIN args = 1 .. n
  OBVIOUS
<1>2. \A j \in 1 .. n : j \in 1 .. n - 1 \/ j = n
  <2> HIDE DEF n
  <2> QED
    BY <1>1
<1>3. \A j \in 1 .. n - 1 : j \in 1 .. n /\ j + 1 \in DOMAIN args
  BY <1>1
<1>4. \A j : j \in given <=> j \in 1 .. n - 1 /\ GivesPorts(args, j)
  <2>1. \A j : j \in given <=> j \in 1 .. n /\ GivesPorts(args, j)
    BY <1>1 DEF GivesPorts
  <2> HIDE DEF given
  <2> QED
    BY <1>2, <1>3, <2>1
<1>5. PortsText(args) = IF given = {} THEN "1-1024" ELSE args[last + 1]
  BY DEF PortsText
<1>6. CASE given = {}
  BY <1>4, <1>5, <1>6 DEF PortsRead
<1>7. CASE given # {}
  <2>1. given \in SUBSET (1 .. n)
    BY <1>1
  <2> HIDE DEF given
  <2>2. last \in given /\ \A j \in given : j <= last
    BY <1>1, <1>7, <2>1, LastPosition
  <2> HIDE DEF last
  <2>3. spec = args[last + 1]
    BY <1>4, <2>2 DEF PortsRead
  <2> QED
    BY <1>3, <1>4, <1>5, <1>7, <2>2, <2>3
<1> QED
  BY <1>6, <1>7

(* What a parser makes of an argument list of any length is what the list, *)
(* looked at as a whole, asks for.  At its end a flag without its value    *)
(* and a missing target are errors.                                        *)
THEOREM RunParsed ==
    ASSUME NEW forms, NEW A \in SUBSET Accepted(forms), NEW args \in Seq(Text), NEW f, Run(A, args, f)
    PROVE  Parsed(A, args, Finish(f[Len(args)]))
<1> DEFINE n == Len(args)
           p == f[n]
<1>1. p \in Parser /\ Agrees(A, args, n, p)
  BY RunAgrees
<1> HIDE DEF p
<1>2. n \in Nat /\ DOMAIN args = 1 .. n /\ (n > 0 => n \in DOMAIN args)
  OBVIOUS
<1>3. CASE p.status = "go" /\ p.flag = "" /\ p.options.target # ""
  <2>1. Finish(p) = p
    BY <1>3 DEF Finish
  <2>2. WhileReading(A, args, n, p)
    BY <1>1, <1>3 DEF Agrees
  <2>3. p.options.confirmed <=> Confirms(args)
    BY <1>2, <2>2 DEF WhileReading, Confirmed, Confirms
  <2>4. n > 0 => ~GivesPorts(args, n)
    BY <1>3, <2>2, Words DEF WhileReading, GivesPorts, Flags
  <2>5. /\ p.options.ports_spec = PortsText(args)
        /\ p.options.ports_spec = "1-1024" \/ \E k \in DOMAIN args : p.options.ports_spec = args[k]
    <3>1. PortsRead(args, n - 1, p.options.ports_spec)
      BY <2>2 DEF WhileReading
    <3> QED
      BY <2>4, <3>1, LastPorts
  <2>6. ASSUME Strict(A, args) PROVE WellFormed(args) /\ ~AsksForHelp(args)
    <3>1. NoWrong(args, n) /\ NoHelp(args, n) /\ HasTarget(args, n)
      BY <1>3, <2>2, <2>6 DEF WhileReading
    <3> QED
      BY <1>2, <3>1 DEF NoWrong, NoHelp, HasTarget, WellFormed, AsksForHelp
  <2> QED
    BY <1>1, <1>3, <2>1, <2>3, <2>5, <2>6 DEF Parsed, p
<1>4. CASE p.status = "go" /\ (p.flag # "" \/ p.options.target = "")
  <2>1. Finish(p) = Failed(p) /\ Failed(p) \in Parser /\ Failed(p).status = "error"
    BY <1>1, <1>4 DEF Finish, Failed, Parser
  <2>2. WhileReading(A, args, n, p)
    BY <1>1, <1>4 DEF Agrees
  <2>3. CASE p.flag # ""
    <3>1. n \in DOMAIN args /\ IsOption(args, n) /\ IsFlag(args[n]) /\ NoHelp(args, n)
      BY <1>2, <2>2, <2>3 DEF WhileReading
    <3>2. IsWrong(args, n)
      BY <3>1 DEF IsWrong
    <3>3. ~WellFormed(args) /\ ~AsksForHelp(args)
      BY <3>1, <3>2, WrongBeforeHelp
    <3> QED
      BY <2>1, <3>3 DEF Parsed, p
  <2>4. CASE p.options.target = ""
    <3>1. ~HasTarget(args, n) /\ NoHelp(args, n)
      BY <2>2, <2>4 DEF WhileReading
    <3>2. ~WellFormed(args) /\ ~AsksForHelp(args)
      BY <1>2, <3>1 DEF HasTarget, NoHelp, WellFormed, AsksForHelp
    <3> QED
      BY <2>1, <3>2 DEF Parsed, p
  <2> QED
    BY <1>4, <2>3, <2>4
<1>5. CASE p.status # "go"
  <2>1. Finish(p) = p
    BY <1>5 DEF Finish
  <2>2. ASSUME p.status = "error", Exact(A, args) PROVE ~WellFormed(args) /\ ~AsksForHelp(args)
    <3>1. PICK j \in 1 .. n : IsWrong(args, j) /\ NoHelp(args, j)
      BY <1>1, <2>2 DEF Agrees
    <3> QED
      BY <1>2, <3>1, WrongBeforeHelp
  <2>3. p.status = "help" /\ Strict(A, args) => AsksForHelp(args)
    BY <1>1 DEF Agrees
  <2> QED
    BY <1>1, <1>5, <2>1, <2>2, <2>3 DEF Parsed, p
<1> QED
  BY <1>3, <1>4, <1>5

(* The texts a program may read in a way of its own: a number with a plus  *)
(* sign, which the Rust program takes; and a number and a text that are    *)
(* too long for the buffers of the C program.                              *)
Signed == {"+800"}
TooLong == {"0000000000000022", "a list of 256 characters"}

NoneOf(texts, args) == \A k \in DOMAIN args : args[k] \notin texts

(* Otherwise all four accept the valid values, and only these.             *)
LEMMA ValuesAccepted ==
    ASSUME NEW text \in Text, NEW flag \in Flags
    PROVE  /\ <<flag, text>> \in CppAccepts <=> ValidValue(flag, text)
           /\ <<flag, text>> \in CsAccepts <=> ValidValue(flag, text)
           /\ <<flag, text>> \in CAccepts => ValidValue(flag, text)
           /\ ~IsLong(text) /\ ValidValue(flag, text) => <<flag, text>> \in CAccepts
           /\ text # "+800" => (<<flag, text>> \in RustAccepts <=> ValidValue(flag, text))
<1>1. Acceptable(flag, text, {"digits"}) <=> ValidValue(flag, text)
  <2>1. CASE flag = "--ports"
    BY <2>1 DEF Acceptable, ValidValue
  <2>2. CASE flag = "--format"
    BY <2>2 DEF Acceptable, ValidValue, Formats
  <2>3. CASE flag = "--timeout"
    BY <2>3 DEF Acceptable, ValidValue, InForms, InBounds, Timeouts
  <2>4. CASE flag = "--concurrency"
    BY <2>4 DEF Acceptable, ValidValue, InForms, InBounds, Concurrencies
  <2> QED
    BY <2>1, <2>2, <2>3, <2>4 DEF Flags
<1>2. \A forms : <<flag, text>> \in Accepted(forms) <=> Acceptable(flag, text, forms)
  BY DEF Accepted
<1>3. ASSUME text # "+800" PROVE Acceptable(flag, text, {"digits", "plus"}) <=> Acceptable(flag, text, {"digits"})
  <2>1. Number(text).form # "plus"
    BY <1>3 DEF Number
  <2> QED
    BY <2>1 DEF Acceptable, InForms
<1>4. <<flag, text>> \in CAccepts <=> Acceptable(flag, text, {"digits"}) /\ ~(IsLong(text) /\ flag = "--ports")
  <2>1. flag # ""
    BY DEF Flags
  <2> QED
    BY <1>2, <2>1 DEF CAccepts
<1> QED
  BY <1>1, <1>2, <1>3, <1>4 DEF CppAccepts, CsAccepts, RustAccepts

(* The same of the arguments as a whole.                                   *)
LEMMA ArgumentsAccepted ==
    ASSUME NEW args \in Seq(Text)
    PROVE  /\ Strict(CAccepts, args) /\ Exact(CppAccepts, args) /\ Exact(CsAccepts, args)
           /\ NoneOf(TooLong, args) => Exact(CAccepts, args)
           /\ NoneOf(Signed, args) => Exact(RustAccepts, args)
<1>1. \A k \in DOMAIN args : args[k] \in Text
  OBVIOUS
<1>2. \A text \in Text : /\ <<"", text>> \in CppAccepts /\ <<"", text>> \in CsAccepts
                         /\ <<"", text>> \in RustAccepts /\ (~IsLong(text) => <<"", text>> \in CAccepts)
  BY DEF CAccepts, CppAccepts, CsAccepts, RustAccepts, Accepted, Acceptable
<1>3. Exact(CppAccepts, args) /\ Exact(CsAccepts, args)
  BY <1>1, <1>2, ValuesAccepted DEF Exact, Strict
<1>4. Strict(CAccepts, args)
  BY <1>1, ValuesAccepted DEF Strict
<1>5. NoneOf(Signed, args) => Exact(RustAccepts, args)
  BY <1>1, <1>2, ValuesAccepted DEF Exact, Strict, NoneOf, Signed
<1>6. NoneOf(TooLong, args) => \A k \in DOMAIN args : ~IsLong(args[k])
  BY DEF NoneOf, TooLong, IsLong
<1>7. NoneOf(TooLong, args) => Exact(CAccepts, args)
  BY <1>1, <1>2, <1>4, <1>6, ValuesAccepted DEF Exact
<1> QED
  BY <1>3, <1>4, <1>5, <1>7

(* An argument changes the target only to itself.                          *)
LEMMA TargetKept ==
    ASSUME NEW A, NEW p \in Parser, NEW arg
    PROVE  Take(A, p, arg).options.target \in {p.options.target, arg}
<1>1. p.options \in Options /\ p.flag \in Flags \cup {""}
  BY DEF Parser
<1>2. Failed(p).options = p.options /\ \A text : [p EXCEPT !.status = text].options = p.options
  BY DEF Parser, Failed
<1>3. /\ [p EXCEPT !.options.banner = TRUE].options.target = p.options.target
      /\ [p EXCEPT !.options.confirmed = TRUE].options.target = p.options.target
      /\ [p EXCEPT !.flag = arg].options.target = p.options.target
      /\ [p EXCEPT !.options.target = arg].options.target = arg
  BY <1>1 DEF Parser, Options
<1>4. p.flag \in Flags => Store(p, arg).options.target = p.options.target
  <2>1. p.flag \in Flags => Put(p.options, p.flag, arg).target = p.options.target
    BY <1>1 DEF Put, Flags, Options
  <2> QED
    BY <2>1 DEF Store, Parser
<1> QED
  BY <1>1, <1>2, <1>3, <1>4 DEF Take

(* The target that a parser finds is one of the arguments.                 *)
FromArguments(text, args) == text = "" \/ \E k \in DOMAIN args : text = args[k]

LEMMA TargetFound ==
    ASSUME NEW forms, NEW A \in SUBSET Accepted(forms), NEW args \in Seq(Text), NEW f, Run(A, args, f)
    PROVE  FromArguments(Finish(f[Len(args)]).options.target, args)
<1> DEFINE S == {n \in Nat : n <= Len(args) => FromArguments(f[n].options.target, args)}
<1>1. 0 \in S
  <2>1. f[0] = Start
    BY DEF Run
  <2>2. FromArguments(Start.options.target, args)
    BY Zenon DEF Start, Defaults, FromArguments
  <2> QED
    BY <2>1, <2>2
<1>2. ASSUME NEW n \in Nat, n \in S PROVE n + 1 \in S
  <2> SUFFICES ASSUME n + 1 <= Len(args) PROVE FromArguments(f[n + 1].options.target, args)
    OBVIOUS
  <2>1. n + 1 \in 1 .. Len(args) /\ (n + 1) - 1 = n /\ n \in 0 .. Len(args) /\ n + 1 \in DOMAIN args
    OBVIOUS
  <2>2. f[n] \in Parser /\ f[n + 1] = Take(A, f[n], args[n + 1]) /\ FromArguments(f[n].options.target, args)
    BY <1>2, <2>1 DEF Run
  <2>3. f[n + 1].options.target \in {f[n].options.target, args[n + 1]}
    BY <2>2, TargetKept
  <2> QED
    BY <2>1, <2>2, <2>3 DEF FromArguments
<1> HIDE DEF S
<1>3. Len(args) \in Nat
  OBVIOUS
<1>4. Len(args) \in S
  BY <1>1, <1>2, <1>3, Induction
<1>5. FromArguments(f[Len(args)].options.target, args)
  BY <1>3, <1>4 DEF S
<1>6. f[Len(args)] \in Parser
  BY <1>3 DEF Run
<1> QED
  BY <1>5, <1>6 DEF Finish, Failed, Parser

(* It is so of the four parsers.                                           *)
LEMMA TargetsFound ==
    ASSUME NEW args \in Seq(Text)
    PROVE  /\ FromArguments(C!args_parse(args).options.target, args)
           /\ FromArguments(Cpp!parseArgs(args).options.target, args)
           /\ FromArguments(Rust!parse_args(args).options.target, args)
           /\ FromArguments(Cs!Parse(args).options.target, args)
<1>1. /\ CAccepts \in SUBSET Accepted({"digits"}) /\ CppAccepts \in SUBSET Accepted({"digits"})
      /\ RustAccepts \in SUBSET Accepted({"digits", "plus"}) /\ CsAccepts \in SUBSET Accepted({"digits"})
  BY DEF CAccepts, CppAccepts, RustAccepts, CsAccepts
<1> QED
  BY <1>1, CReads, CppReads, RustReads, CsReads, TargetFound

(* Two parsers that accept the same values of the same arguments read the  *)
(* same from them.                                                         *)
LEMMA SameRuns ==
    ASSUME NEW forms, NEW A \in SUBSET Accepted(forms), NEW B, NEW args \in Seq(Text), Exact(A, args), Exact(B, args),
           NEW f, Run(A, args, f), NEW g, Run(B, args, g)
    PROVE  f[Len(args)] = g[Len(args)]
<1> DEFINE S == {n \in Nat : n <= Len(args) => f[n] = g[n]}
<1>1. 0 \in S
  BY DEF Run
<1>2. ASSUME NEW n \in Nat, n \in S PROVE n + 1 \in S
  <2> SUFFICES ASSUME n + 1 <= Len(args) PROVE f[n + 1] = g[n + 1]
    OBVIOUS
  <2>1. n + 1 \in 1 .. Len(args) /\ (n + 1) - 1 = n /\ n \in 0 .. Len(args) /\ n + 1 \in DOMAIN args
    OBVIOUS
  <2>2. /\ f[n] \in Parser /\ g[n] = f[n]
        /\ f[n + 1] = Take(A, f[n], args[n + 1]) /\ g[n + 1] = Take(B, g[n], args[n + 1])
    BY <1>2, <2>1 DEF Run
  <2>3. f[n].flag \in Flags \cup {""}
    BY <2>2 DEF Parser
  <2>4. /\ \A flag \in Flags : <<flag, args[n + 1]>> \in A <=> <<flag, args[n + 1]>> \in B
        /\ <<"", args[n + 1]>> \in A /\ <<"", args[n + 1]>> \in B
    BY <2>1 DEF Exact, Strict
  <2>5. <<f[n].flag, args[n + 1]>> \in A <=> <<f[n].flag, args[n + 1]>> \in B
    BY <2>3, <2>4
  <2> QED
    BY <2>2, <2>4, <2>5 DEF Take
<1> HIDE DEF S
<1>3. Len(args) \in Nat
  OBVIOUS
<1>4. Len(args) \in S
  BY <1>1, <1>2, <1>3, Induction
<1> QED
  BY <1>3, <1>4 DEF S

(* The four parsers read the same from the same arguments, but for the     *)
(* texts that the Rust or the C program reads in a way of its own.         *)
THEOREM SameParsers ==
    ASSUME NEW args \in Seq(Text), NoneOf(Signed, args), NoneOf(TooLong, args)
    PROVE  /\ C!args_parse(args) = Cpp!parseArgs(args) /\ Rust!parse_args(args) = Cpp!parseArgs(args)
           /\ Cs!Parse(args) = Cpp!parseArgs(args)
<1>1. /\ CAccepts \in SUBSET Accepted({"digits"}) /\ CppAccepts \in SUBSET Accepted({"digits"})
      /\ RustAccepts \in SUBSET Accepted({"digits", "plus"}) /\ CsAccepts \in SUBSET Accepted({"digits"})
  BY DEF CAccepts, CppAccepts, RustAccepts, CsAccepts
<1>2. Exact(CAccepts, args) /\ Exact(CppAccepts, args) /\ Exact(RustAccepts, args) /\ Exact(CsAccepts, args)
  BY ArgumentsAccepted
<1>3. PICK g : Run(CppAccepts, args, g) /\ Cpp!parseArgs(args) = Finish(g[Len(args)])
  BY CppReads
<1>4. C!args_parse(args) = Cpp!parseArgs(args)
  <2>1. PICK f : Run(CAccepts, args, f) /\ C!args_parse(args) = Finish(f[Len(args)])
    BY CReads
  <2>2. f[Len(args)] = g[Len(args)]
    BY <1>1, <1>2, <1>3, <2>1, SameRuns
  <2> QED
    BY <1>3, <2>1, <2>2
<1>5. Rust!parse_args(args) = Cpp!parseArgs(args)
  <2>1. PICK f : Run(RustAccepts, args, f) /\ Rust!parse_args(args) = Finish(f[Len(args)])
    BY RustReads
  <2>2. f[Len(args)] = g[Len(args)]
    BY <1>1, <1>2, <1>3, <2>1, SameRuns
  <2> QED
    BY <1>3, <2>1, <2>2
<1>6. Cs!Parse(args) = Cpp!parseArgs(args)
  <2>1. PICK f : Run(CsAccepts, args, f) /\ Cs!Parse(args) = Finish(f[Len(args)])
    BY CsReads
  <2>2. f[Len(args)] = g[Len(args)]
    BY <1>1, <1>2, <1>3, <2>1, SameRuns
  <2> QED
    BY <1>3, <2>1, <2>2
<1> QED
  BY <1>4, <1>5, <1>6

-----------------------------------------------------------------------------
(* The port lists.                                                         *)

(* A text that is not empty has a token, and a token has one or two parts. *)
(* No text holds one of the numbers the programs read apart, except that   *)
(* number itself.                                                          *)
LEMMA ShapeOfTokens ==
    ASSUME NEW text
    PROVE  /\ text # "" => 1 \in DOMAIN Tokens(text)
           /\ \A k \in DOMAIN Tokens(text) :
                /\ \E n \in {1, 2} :
                      /\ DOMAIN Tokens(text)[k] = 1 .. n /\ Len(Tokens(text)[k]) = n
                      /\ Head(Tokens(text)[k]) = Tokens(text)[k][1]
                      /\ Last(Tokens(text)[k]) = Tokens(text)[k][n]
                /\ \A j \in DOMAIN Tokens(text)[k] :
                      Tokens(text)[k][j] \in {"+800", "0000000000000022"} => text = Tokens(text)[k][j]
<1> DEFINE Shape(token, n) ==
             /\ DOMAIN token = 1 .. n /\ Len(token) = n
             /\ Head(token) = token[1] /\ Last(token) = token[n]
           Plain(token) == \A j \in DOMAIN token : token[j] \notin {"+800", "0000000000000022"}
<1>1. \A x : Shape(<<x>>, 1)
  BY DEF Last
<1>2. \A x, y : Shape(<<x, y>>, 2)
  BY DEF Last
<1>3. \A x : x \notin {"+800", "0000000000000022"} => Plain(<<x>>)
  OBVIOUS
<1>4. \A x, y : x \notin {"+800", "0000000000000022"} /\ y \notin {"+800", "0000000000000022"} => Plain(<<x, y>>)
  OBVIOUS
<1> DEFINE Token(token) == (\E n \in {1, 2} : Shape(token, n)) /\ Plain(token)
           Fine(tokens) == 1 \in DOMAIN tokens /\ \A k \in DOMAIN tokens : Token(tokens[k])
<1> HIDE DEF Shape, Plain
<1>5. \A t, u, v :
          Token(t) /\ Token(u) /\ Token(v) => Fine(<<t>>) /\ Fine(<<t, u>>) /\ Fine(<<t, u, v>>)
  OBVIOUS
<1>6. /\ Token(<<"22">>) /\ Token(<<"">>) /\ Token(<<"80">>)
      /\ Token(<<"22", "23">>) /\ Token(<<"22", "100">>) /\ Token(<<"100", "1">>) /\ Token(<<"1", "2-3">>)
      /\ Token(<<"1", "1024">>) /\ Token(<<"", "h">>)
  BY <1>1, <1>2, <1>3, <1>4
<1> HIDE DEF Token, Fine
<1>7. /\ Fine(<< <<"22">>, <<"">> >>) /\ Fine(<< <<"80">>, <<"22", "23">> >>)
      /\ Fine(<< <<"22", "100">>, <<"80">> >>) /\ Fine(<< <<"22">>, <<"80">>, <<"22">> >>)
      /\ Fine(<< <<"100", "1">> >>) /\ Fine(<< <<"1", "2-3">> >>) /\ Fine(<< <<"1", "1024">> >>)
      /\ Fine(<< <<"", "h">> >>)
  BY <1>5, <1>6
<1>8. CASE text \in {"22,", "80,22-23", "22-100,80", "100-1", "1-2-3", "1-1024", "-h", "a list of 256 characters"}
  <2>1. Fine(Tokens(text))
    BY <1>7, <1>8 DEF Tokens
  <2> QED
    BY <2>1 DEF Fine, Token, Shape, Plain
<1>9. CASE text = ""
  <2>1. Tokens(text) = << >>
    BY <1>9 DEF Tokens
  <2>2. \A k : k \notin DOMAIN << >>
    OBVIOUS
  <2> QED
    BY <1>9, <2>1, <2>2
<1>10. CASE text \notin {"", "22,", "80,22-23", "22-100,80", "100-1", "1-2-3", "1-1024", "-h", "a list of 256 characters"}
  <2>1. Tokens(text) = << <<text>> >>
    BY <1>10 DEF Tokens
  <2>2. DOMAIN << <<text>> >> = {1} /\ << <<text>> >>[1] = <<text>> /\ DOMAIN <<text>> = {1} /\ <<text>>[1] = text
    OBVIOUS
  <2> QED
    BY <1>1, <2>1, <2>2 DEF Shape
<1> QED
  BY <1>8, <1>9, <1>10

(* A port list as the programs parse it: what they take for a number has   *)
(* one of the forms and one of the widths.                                 *)
IsPort(text, forms, widths) ==
    Number(text).form \in forms /\ Number(text).width \in widths /\ Number(text).value \in 1 .. HighestPort

IsList(spec, forms, widths) ==
    /\ spec # ""
    /\ \A k \in DOMAIN Tokens(spec) :
          /\ \A j \in DOMAIN Tokens(spec)[k] : IsPort(Tokens(spec)[k][j], forms, widths)
          /\ Number(Head(Tokens(spec)[k])).value <= Number(Last(Tokens(spec)[k])).value

PortsOf(spec) ==
    UNION {Number(Head(token)).value .. Number(Last(token)).value : token \in Range(Tokens(spec))}

(* From one port to another there are only ports.                          *)
LEMMA PortsBetween ==
    ASSUME NEW n \in Nat, NEW x \in 1 .. n, NEW y \in 1 .. n, x <= y
    PROVE  x \in x .. y /\ x .. y \subseteq 1 .. n
OBVIOUS

(* The set they make of it is not empty, and has only ports.               *)
LEMMA PortsOfList ==
    ASSUME NEW forms, NEW widths, NEW spec, IsList(spec, forms, widths)
    PROVE  PortsOf(spec) # {} /\ PortsOf(spec) \subseteq 1 .. HighestPort
<1> DEFINE First(k) == Number(Head(Tokens(spec)[k])).value
           End(k) == Number(Last(Tokens(spec)[k])).value
           Between(k) == First(k) .. End(k)
<1>1. \A text : IsPort(text, forms, widths) => Number(text).value \in 1 .. HighestPort
  BY DEF IsPort
<1>2. ASSUME NEW k \in DOMAIN Tokens(spec) PROVE First(k) \in Between(k) /\ Between(k) \subseteq 1 .. HighestPort
  <2>1. PICK n \in {1, 2} : /\ DOMAIN Tokens(spec)[k] = 1 .. n
                            /\ Head(Tokens(spec)[k]) = Tokens(spec)[k][1] /\ Last(Tokens(spec)[k]) = Tokens(spec)[k][n]
    BY ShapeOfTokens
  <2>2. 1 \in 1 .. n /\ n \in 1 .. n
    OBVIOUS
  <2>3. IsPort(Head(Tokens(spec)[k]), forms, widths) /\ IsPort(Last(Tokens(spec)[k]), forms, widths)
    BY <2>1, <2>2 DEF IsList
  <2>4. First(k) <= End(k)
    BY DEF IsList
  <2>5. First(k) \in 1 .. HighestPort /\ End(k) \in 1 .. HighestPort
    BY <1>1, <2>3
  <2> HIDE DEF First, End
  <2> QED
    BY <2>4, <2>5, PortsBetween, SameLimits
<1>3. PortsOf(spec) = UNION {Between(k) : k \in DOMAIN Tokens(spec)}
  BY DEF PortsOf, Range
<1>4. 1 \in DOMAIN Tokens(spec)
  BY ShapeOfTokens DEF IsList
<1> HIDE DEF First, Between
<1> QED
  BY <1>2, <1>3, <1>4

(* The contract's valid lists are those of digits only, of any width.      *)
LEMMA ValidIsList ==
    ASSUME NEW spec
    PROVE  ValidPorts(spec) <=> IsList(spec, {"digits"}, Nat)
<1>1. ASSUME NEW text PROVE InBounds(text, 1, HighestPort) <=> IsPort(text, {"digits"}, Nat)
  <2>1. Number(text).width \in Nat
    BY DEF Number
  <2> QED
    BY <2>1 DEF InBounds, IsPort
<1>2. ASSUME NEW k \in DOMAIN Tokens(spec)
      PROVE  Denotes(Tokens(spec)[k]) # {} <=>
                /\ \A j \in DOMAIN Tokens(spec)[k] : IsPort(Tokens(spec)[k][j], {"digits"}, Nat)
                /\ Number(Head(Tokens(spec)[k])).value <= Number(Last(Tokens(spec)[k])).value
  <2> DEFINE token == Tokens(spec)[k]
  <2>1. PICK n \in {1, 2} : DOMAIN token = 1 .. n /\ Head(token) = token[1] /\ Last(token) = token[n] /\ Len(token) = n
    BY ShapeOfTokens
  <2> HIDE DEF token
  <2>2. CASE \A j \in DOMAIN token : IsPort(token[j], {"digits"}, Nat)
    <3>1. Denotes(token) = Number(token[1]).value .. Number(token[n]).value
      BY <1>1, <2>1, <2>2 DEF Denotes
    <3>2. Number(token[1]).value \in 1 .. HighestPort /\ Number(token[n]).value \in 1 .. HighestPort
      BY <2>1, <2>2 DEF IsPort
    <3>3. ASSUME NEW x \in Nat, NEW y \in Nat PROVE x .. y # {} <=> x <= y
      <4>1. x <= y => x \in x .. y
        OBVIOUS
      <4> QED
        BY <4>1
    <3> QED
      BY <2>1, <2>2, <3>1, <3>2, <3>3 DEF token
  <2>3. CASE ~\A j \in DOMAIN token : IsPort(token[j], {"digits"}, Nat)
    BY <1>1, <2>3 DEF Denotes, token
  <2> QED
    BY <2>2, <2>3
<1> QED
  BY <1>2 DEF ValidPorts, IsList

(* So are those of the C program, except for a number of 16 digits, and    *)
(* those of the Rust program, except for a plus sign.                      *)
LEMMA ListsOfCAndRust ==
    ASSUME NEW spec
    PROVE  /\ IsList(spec, {"digits"}, 0 .. 15) => ValidPorts(spec)
           /\ ValidPorts(spec) /\ spec # "0000000000000022" => IsList(spec, {"digits"}, 0 .. 15)
           /\ ValidPorts(spec) => IsList(spec, {"digits", "plus"}, Nat)
           /\ IsList(spec, {"digits", "plus"}, Nat) /\ spec # "+800" => ValidPorts(spec)
<1>1. ASSUME NEW text, text # "0000000000000022", IsPort(text, {"digits"}, Nat) PROVE IsPort(text, {"digits"}, 0 .. 15)
  <2>1. Number(text).form = "digits" => Number(text).width \in 0 .. 15 \/ Number(text).value = Huge
    BY <1>1 DEF Number
  <2>2. ~(Huge <= HighestPort)
    BY DEF Huge, HighestPort
  <2> QED
    BY <1>1, <2>1, <2>2, SameLimits DEF IsPort
<1>2. ASSUME NEW text, text # "+800", IsPort(text, {"digits", "plus"}, Nat) PROVE IsPort(text, {"digits"}, Nat)
  <2>1. Number(text).form # "plus"
    BY <1>2 DEF Number
  <2> QED
    BY <1>2, <2>1 DEF IsPort
<1>3. ASSUME NEW text PROVE IsPort(text, {"digits"}, 0 .. 15) => IsPort(text, {"digits"}, Nat)
  BY DEF IsPort
<1>4. ASSUME NEW text PROVE IsPort(text, {"digits"}, Nat) => IsPort(text, {"digits", "plus"}, Nat)
  BY DEF IsPort
<1>5. \A k \in DOMAIN Tokens(spec) : \A j \in DOMAIN Tokens(spec)[k] :
          Tokens(spec)[k][j] \in {"+800", "0000000000000022"} => spec = Tokens(spec)[k][j]
  BY ShapeOfTokens
<1>6. IsList(spec, {"digits"}, 0 .. 15) => IsList(spec, {"digits"}, Nat)
  BY <1>3 DEF IsList
<1>7. IsList(spec, {"digits"}, Nat) /\ spec # "0000000000000022" => IsList(spec, {"digits"}, 0 .. 15)
  BY <1>1, <1>5 DEF IsList
<1>8. IsList(spec, {"digits"}, Nat) => IsList(spec, {"digits", "plus"}, Nat)
  BY <1>4 DEF IsList
<1>9. IsList(spec, {"digits", "plus"}, Nat) /\ spec # "+800" => IsList(spec, {"digits"}, Nat)
  BY <1>2, <1>5 DEF IsList
<1> QED
  BY <1>6, <1>7, <1>8, <1>9, ValidIsList

ArePorts(ports) == ports # {} /\ ports \subseteq 1 .. HighestPort

(* What a program makes of a port list that it has accepted or refused,    *)
(* except that it is lenient with some texts and reads odd ones its own    *)
(* way.                                                                    *)
PortsParsed(spec, accepted, ports, lenient, odd) ==
    /\ accepted => ArePorts(ports) /\ (spec \notin lenient => ValidPorts(spec))
    /\ ~accepted /\ spec \notin odd => ~ValidPorts(spec)

(* The four programs mark the same ports of a list.                        *)
LEMMA PortsMarked ==
    ASSUME NEW spec
    PROVE  /\ C!flags(spec) = PortsOf(spec) /\ Cpp!marked(spec) = PortsOf(spec)
           /\ Rust!marked(spec) = PortsOf(spec) /\ Cs!marked(spec) = PortsOf(spec)
<1>1. C!flags(spec) = PortsOf(spec)
  BY SameTables DEF C!flags, PortsOf, C!Range, Range, C!Last, Last
<1>2. Cpp!marked(spec) = PortsOf(spec)
  BY SameTables DEF Cpp!marked, PortsOf, Cpp!Range, Range, Cpp!Last, Last
<1>3. Rust!marked(spec) = PortsOf(spec)
  BY SameTables DEF Rust!marked, PortsOf, Rust!Range, Range, Rust!Last, Last
<1>4. Cs!marked(spec) = PortsOf(spec)
  BY SameTables DEF Cs!marked, PortsOf, Cs!Range, Range, Cs!Last, Last
<1> QED
  BY <1>1, <1>2, <1>3, <1>4

(* Each program accepts the lists it calls valid, and marks their ports.   *)
THEOREM PortLists ==
    ASSUME NEW spec
    PROVE  /\ PortsParsed(spec, C!ports_parse(spec), C!flags(spec), {}, TooLong)
           /\ PortsParsed(spec, Cpp!parsePorts(spec), Cpp!marked(spec), {}, {})
           /\ PortsParsed(spec, Rust!parse_ports(spec), Rust!marked(spec), Signed, Signed)
           /\ PortsParsed(spec, Cs!ParseRange(spec), Cs!marked(spec), {}, {})
<1>1. (spec \notin Signed => spec # "+800") /\ (spec \notin TooLong => spec # "0000000000000022")
  BY DEF Signed, TooLong
<1>2. \A text : Number(text).width \in Nat /\ (Number(text).width < 16 <=> Number(text).width \in 0 .. 15)
  BY DEF Number
<1>3. C!ports_parse(spec) <=> IsList(spec, {"digits"}, 0 .. 15)
  <2>1. \A text : C!parse_port_number(text) <=> IsPort(text, {"digits"}, 0 .. 15)
    BY <1>2, SameTables, SameLimits DEF C!parse_port_number, IsPort
  <2> QED
    BY <2>1, SameTables DEF C!ports_parse, C!mark_token, IsList, C!Last, Last
<1>4. Cpp!parsePorts(spec) <=> IsList(spec, {"digits"}, Nat)
  <2>1. \A text : Cpp!parseNumber(text) <=> IsPort(text, {"digits"}, Nat)
    BY <1>2, SameTables, SameLimits DEF Cpp!parseNumber, IsPort
  <2> QED
    BY <2>1, SameTables DEF Cpp!parsePorts, Cpp!markToken, IsList, Cpp!Last, Last
<1>5. Rust!parse_ports(spec) <=> IsList(spec, {"digits", "plus"}, Nat)
  <2>1. \A text : Rust!parse_number(text) <=> IsPort(text, {"digits", "plus"}, Nat)
    BY <1>2, SameTables, SameLimits DEF Rust!parse_number, Rust!parse_unsigned, IsPort
  <2> QED
    BY <2>1, SameTables DEF Rust!parse_ports, Rust!mark_token, IsList, Rust!Last, Last
<1>6. Cs!ParseRange(spec) <=> IsList(spec, {"digits"}, Nat)
  <2>1. \A text : Cs!ParseNumber(text) <=> IsPort(text, {"digits"}, Nat)
    BY <1>2, SameTables, SameLimits DEF Cs!ParseNumber, IsPort
  <2> QED
    BY <2>1, SameTables DEF Cs!ParseRange, Cs!MarkToken, IsList, Cs!Last, Last
<1>7. /\ C!flags(spec) = PortsOf(spec) /\ Cpp!marked(spec) = PortsOf(spec)
      /\ Rust!marked(spec) = PortsOf(spec) /\ Cs!marked(spec) = PortsOf(spec)
  BY PortsMarked
<1>11. PortsParsed(spec, C!ports_parse(spec), C!flags(spec), {}, TooLong)
  BY <1>1, <1>3, <1>7, PortsOfList, ListsOfCAndRust DEF PortsParsed, ArePorts
<1>12. PortsParsed(spec, Cpp!parsePorts(spec), Cpp!marked(spec), {}, {})
  BY <1>4, <1>7, PortsOfList, ValidIsList DEF PortsParsed, ArePorts
<1>13. PortsParsed(spec, Rust!parse_ports(spec), Rust!marked(spec), Signed, Signed)
  BY <1>1, <1>5, <1>7, PortsOfList, ListsOfCAndRust DEF PortsParsed, ArePorts
<1>14. PortsParsed(spec, Cs!ParseRange(spec), Cs!marked(spec), {}, {})
  BY <1>6, <1>7, PortsOfList, ValidIsList DEF PortsParsed, ArePorts
<1> QED
  BY <1>11, <1>12, <1>13, <1>14

-----------------------------------------------------------------------------
(* The addresses.                                                          *)

Address == Address4 \cup Address6

(* Each program takes one of the resolver's addresses.                     *)
LEMMA AddressTaken ==
    ASSUME NEW list \in Seq(Address), list # << >>
    PROVE  /\ C!prefer_ipv4(list) \in Address /\ Cpp!chosen(list) \in Address
           /\ Head(list) \in Address /\ Cs!chosen(list) \in Address
<1> DEFINE v4 == {i \in DOMAIN list : list[i].family = 4}
<1>1. Head(list) \in Address
  OBVIOUS
<1>2. ASSUME v4 # {} PROVE C!Min(v4) \in v4 /\ Cpp!Min(v4) \in v4 /\ Cs!Min(v4) \in v4
  <2>1. \E x \in v4 : \A y \in v4 : x <= y
    <3>1. v4 \subseteq Nat
      OBVIOUS
    <3> HIDE DEF v4
    <3> QED
      BY <1>2, <3>1, FirstPosition
  <2> HIDE DEF v4
  <2> QED
    BY <2>1 DEF C!Min, Cpp!Min, Cs!Min
<1>3. \A i \in v4 : list[i] \in Address
  OBVIOUS
<1>4. C!prefer_ipv4(list) \in Address
  BY <1>1, <1>2, <1>3 DEF C!prefer_ipv4
<1>5. Cpp!chosen(list) \in Address
  BY <1>1, <1>2, <1>3 DEF Cpp!chosen
<1>6. Cs!chosen(list) \in Address
  BY <1>1, <1>2, <1>3 DEF Cs!chosen
<1> QED
  BY <1>1, <1>4, <1>5, <1>6

(* The C, C++ and C# programs take the same address.  The Rust program     *)
(* takes it too if no IPv4 address comes after one of IPv6.                *)
IPv4First(list) == (\E i \in DOMAIN list : list[i].family = 4) => list[1].family = 4

LEMMA SameAddress ==
    ASSUME NEW list \in Seq(Address), list # << >>
    PROVE  /\ C!prefer_ipv4(list) = Cpp!chosen(list) /\ Cs!chosen(list) = Cpp!chosen(list)
           /\ IPv4First(list) => Head(list) = Cpp!chosen(list)
<1> DEFINE v4 == {i \in DOMAIN list : list[i].family = 4}
<1>1. C!Min(v4) = Cpp!Min(v4) /\ Cs!Min(v4) = Cpp!Min(v4)
  BY DEF C!Min, Cpp!Min, Cs!Min
<1>2. C!prefer_ipv4(list) = Cpp!chosen(list) /\ Cs!chosen(list) = Cpp!chosen(list)
  BY <1>1 DEF C!prefer_ipv4, Cpp!chosen, Cs!chosen
<1>3. ASSUME IPv4First(list), v4 # {} PROVE list[Cpp!Min(v4)] = Head(list)
  <2>1. v4 \subseteq Nat /\ 1 \in v4 /\ \A i \in v4 : 1 <= i
    BY <1>3 DEF IPv4First
  <2> HIDE DEF v4
  <2>2. Cpp!Min(v4) \in v4 /\ \A i \in v4 : Cpp!Min(v4) <= i
    BY <2>1 DEF Cpp!Min
  <2> DEFINE first == Cpp!Min(v4)
  <2>3. first \in v4 /\ first <= 1
    BY <2>1, <2>2
  <2> HIDE DEF first
  <2>4. first \in Nat /\ 1 <= first
    BY <2>1, <2>3
  <2>5. first = 1
    BY <2>3, <2>4
  <2>6. list[first] = Head(list)
    BY <2>5
  <2> QED
    BY <2>6 DEF first
<1> QED
  BY <1>2, <1>3 DEF Cpp!chosen

-----------------------------------------------------------------------------
(* The six IPv4 ranges, byte by byte.                                      *)
LEMMA LocalBytes ==
    ASSUME NEW x \in Byte, NEW y \in Byte
    PROVE  256 * x + y \in LocalPrefixes <=>
              \/ x \in {127, 10, 0}
              \/ x = 172 /\ y \in 16 .. 31
              \/ x = 192 /\ y = 168
              \/ x = 169 /\ y = 254
<1>1. /\ Block(0, 8) = 0 .. 255 
      /\ Block(256 * 127, 8) = 32512 .. 32767
      /\ Block(256 * 10, 8) = 2560 .. 2815
      /\ Block(256 * 172 + 16, 12) = 44048 .. 44063
      /\ Block(256 * 192 + 168, 16) = 49320 .. 49320
      /\ Block(256 * 169 + 254, 16) = 43518 .. 43518
  BY DEF Block
<1>2. LocalPrefixes = UNION {0 .. 255, 32512 .. 32767, 2560 .. 2815, 44048 .. 44063, 49320 .. 49320, 43518 .. 43518}
  BY <1>1 DEF LocalPrefixes
<1>3. 256 * x + y \in LocalPrefixes <=>
        \/ 256 * x + y \in 0 .. 255
        \/ 256 * x + y \in 32512 .. 32767
        \/ 256 * x + y \in 2560 .. 2815
        \/ 256 * x + y \in 44048 .. 44063
        \/ 256 * x + y \in 49320 .. 49320
        \/ 256 * x + y \in 43518 .. 43518
  BY <1>2
<1> QED
  BY <1>3 DEF Byte

(* The two IPv6 ranges, by the masks 0xffc0 and 0xfe.                      *)
LEMMA LocalBytes6 ==
    ASSUME NEW x \in Byte, NEW y \in Byte
    PROVE  256 * x + y \in LocalPrefixes6 <=> (x = 254 /\ y \div 64 = 2) \/ x \div 2 = 126
<1>1. Block(256 * 254 + 128, 10) = 65152 .. 65215 /\ Block(256 * 252, 7) = 64512 .. 65023
  BY DEF Block
<1>2. 256 * x + y \in LocalPrefixes6 <=> 256 * x + y \in 65152 .. 65215 \/ 256 * x + y \in 64512 .. 65023
  BY <1>1 DEF LocalPrefixes6
<1>3. y \div 64 = 2 <=> y \in 128 .. 191
  BY DEF Byte
<1>4. x \div 2 = 126 <=> x \in 252 .. 253
  BY DEF Byte
<1> QED
  BY <1>2, <1>3, <1>4 DEF Byte

(* A group of an IPv6 address against its two bytes.                       *)
LEMMA GroupOfBytes ==
    ASSUME NEW x \in Byte, NEW y \in Byte
    PROVE  /\ 256 * x + y = 0 <=> x = 0 /\ y = 0
           /\ 256 * x + y = 1 <=> x = 0 /\ y = 1
           /\ 256 * x + y = 65535 <=> x = 255 /\ y = 255
BY DEF Byte

(* The eight groups of an IPv6 address, from its sixteen bytes.            *)
LEMMA GroupsOfBytes ==
    ASSUME NEW b \in [0 .. 15 -> Byte], NEW k \in 0 .. 7
    PROVE  /\ b[2 * k] \in Byte /\ b[2 * k + 1] \in Byte
           /\ Groups(b)[k] = 256 * b[2 * k] + b[2 * k + 1]
           /\ Groups(b)[k] = 0 <=> b[2 * k] = 0 /\ b[2 * k + 1] = 0
<1>1. 2 * k \in 0 .. 15 /\ 2 * k + 1 \in 0 .. 15
  OBVIOUS
<1>2. b[2 * k] \in Byte /\ b[2 * k + 1] \in Byte
  BY <1>1
<1>3. Groups(b)[k] = 256 * b[2 * k] + b[2 * k + 1]
  BY DEF Groups, Prefix
<1>4. 256 * b[2 * k] + b[2 * k + 1] = 0 <=> b[2 * k] = 0 /\ b[2 * k + 1] = 0
  BY <1>2, GroupOfBytes
<1> QED
  BY <1>2, <1>3, <1>4

(* All groups before an even byte are zero when all those bytes are.       *)
LEMMA ZeroGroups ==
    ASSUME NEW b \in [0 .. 15 -> Byte], NEW n \in 0 .. 7
    PROVE  (\A k \in 0 .. n : Groups(b)[k] = 0) <=> (\A i \in 0 .. 2 * n + 1 : b[i] = 0)
<1>1. ASSUME \A k \in 0 .. n : Groups(b)[k] = 0, NEW i \in 0 .. 2 * n + 1 PROVE b[i] = 0
  <2>1. PICK k \in 0 .. n : i = 2 * k \/ i = 2 * k + 1
    <3>1. i \div 2 \in 0 .. n /\ (i = 2 * (i \div 2) \/ i = 2 * (i \div 2) + 1)
      OBVIOUS
    <3> QED
      BY <3>1
  <2>2. Groups(b)[k] = 0 /\ k \in 0 .. 7
    BY <1>1
  <2>3. b[2 * k] = 0 /\ b[2 * k + 1] = 0
    BY <2>2, GroupsOfBytes
  <2> QED
    BY <2>1, <2>3
<1>2. ASSUME \A i \in 0 .. 2 * n + 1 : b[i] = 0, NEW k \in 0 .. n PROVE Groups(b)[k] = 0
  <2>1. b[2 * k] = 0 /\ b[2 * k + 1] = 0 /\ k \in 0 .. 7
    BY <1>2
  <2> QED
    BY <2>1, GroupsOfBytes
<1> QED
  BY <1>1, <1>2

-----------------------------------------------------------------------------
(* What the guards test, in bytes.                                         *)

LocalV4(x, y) ==
    \/ x \in {127, 10, 0}
    \/ x = 172 /\ y \in 16 .. 31
    \/ x = 192 /\ y = 168
    \/ x = 169 /\ y = 254

LocalV6(b) ==
    \/ (\A i \in 0 .. 14 : b[i] = 0) /\ b[15] \in {0, 1}
    \/ b[0] = 254 /\ b[1] \div 64 = 2
    \/ b[0] \div 2 = 126
    \/ (\A i \in 0 .. 9 : b[i] = 0) /\ b[10] = 255 /\ b[11] = 255 /\ LocalV4(b[12], b[13])

(* The documented ranges of the contract, by the bytes of an address.      *)
LEMMA ContractV4 == ASSUME NEW a \in Address4 PROVE InLocalRange(a) <=> LocalV4(a.bytes[0], a.bytes[1])
<1>1. PICK x \in Byte, y \in Byte : x = a.bytes[0] /\ y = a.bytes[1]
  BY DEF Address4
<1>2. InLocalRange(a) <=> 256 * x + y \in LocalPrefixes
  <2>1. a.family = 4 /\ Prefix(a.bytes, 0) = 256 * x + y
    BY <1>1 DEF Address4, Prefix
  <2> QED
    BY <2>1 DEF InLocalRange
<1>3. 256 * x + y \in LocalPrefixes <=> LocalV4(x, y)
  BY LocalBytes DEF LocalV4
<1> QED
  BY <1>1, <1>2, <1>3

LEMMA ContractV6 == ASSUME NEW a \in Address6 PROVE InLocalRange(a) <=> LocalV6(a.bytes)
<1>1. PICK b \in [0 .. 15 -> Byte] : b = a.bytes
  BY DEF Address6
<1>2. PICK g : g = Groups(b)
  OBVIOUS
<1> DEFINE InPrefix == g[0] \in LocalPrefixes6
           First == (\A k \in 0 .. 6 : g[k] = 0) /\ g[7] \in {0, 1}
           MappedTo == (\A k \in 0 .. 4 : g[k] = 0) /\ g[5] = 65535 /\ g[6] \in LocalPrefixes
<1>3. InLocalRange(a) <=> InPrefix \/ First \/ MappedTo
  <2>1. a.family # 4
    BY DEF Address6
  <2> QED
    BY <1>1, <1>2, <2>1 DEF InLocalRange
<1>4. /\ g[0] = 256 * b[0] + b[1] /\ g[5] = 256 * b[10] + b[11]
      /\ g[6] = 256 * b[12] + b[13] /\ g[7] = 256 * b[14] + b[15]
  BY <1>2 DEF Groups, Prefix
<1>5. \A i \in 0 .. 15 : b[i] \in Byte
  OBVIOUS
<1>6. g[0] \in LocalPrefixes6 <=> (b[0] = 254 /\ b[1] \div 64 = 2) \/ b[0] \div 2 = 126
  <2>1. PICK x \in Byte, y \in Byte : x = b[0] /\ y = b[1]
    BY <1>5
  <2>2. g[0] = 256 * x + y
    BY <1>4, <2>1
  <2> QED
    BY <2>1, <2>2, LocalBytes6
<1>7. g[6] \in LocalPrefixes <=> LocalV4(b[12], b[13])
  <2>1. PICK x \in Byte, y \in Byte : x = b[12] /\ y = b[13]
    BY <1>5
  <2>2. g[6] = 256 * x + y
    BY <1>4, <2>1
  <2>3. 256 * x + y \in LocalPrefixes <=> LocalV4(x, y)
    BY LocalBytes DEF LocalV4
  <2> QED
    BY <2>1, <2>2, <2>3
<1>8. (\A k \in 0 .. 4 : g[k] = 0) <=> (\A i \in 0 .. 9 : b[i] = 0)
  <2>1. 2 * 4 + 1 = 9 /\ 4 \in 0 .. 7
    OBVIOUS
  <2> QED
    BY <1>2, <2>1, ZeroGroups
<1>9. (\A k \in 0 .. 6 : g[k] = 0) <=> (\A i \in 0 .. 13 : b[i] = 0)
  <2>1. 2 * 6 + 1 = 13 /\ 6 \in 0 .. 7
    OBVIOUS
  <2> QED
    BY <1>2, <2>1, ZeroGroups
<1>10. g[5] = 65535 <=> b[10] = 255 /\ b[11] = 255
  <2>1. PICK x \in Byte, y \in Byte : x = b[10] /\ y = b[11]
    BY <1>5
  <2> QED
    BY <1>4, <2>1, GroupOfBytes
<1>11. g[7] \in {0, 1} <=> b[14] = 0 /\ b[15] \in {0, 1}
  <2>1. PICK x \in Byte, y \in Byte : x = b[14] /\ y = b[15]
    BY <1>5
  <2> QED
    BY <1>4, <2>1, GroupOfBytes
<1>12. (\A i \in 0 .. 14 : b[i] = 0) <=> (\A i \in 0 .. 13 : b[i] = 0) /\ b[14] = 0
  <2>1. \A i \in 0 .. 14 : i \in 0 .. 13 \/ i = 14
    OBVIOUS
  <2>2. \A i \in 0 .. 13 : i \in 0 .. 14
    OBVIOUS
  <2> QED
    BY <2>1, <2>2
<1>13. First <=> (\A i \in 0 .. 14 : b[i] = 0) /\ b[15] \in {0, 1}
  BY <1>9, <1>11, <1>12
<1>14. MappedTo <=> (\A i \in 0 .. 9 : b[i] = 0) /\ b[10] = 255 /\ b[11] = 255 /\ LocalV4(b[12], b[13])
  BY <1>7, <1>8, <1>10
<1> HIDE DEF InPrefix, First, MappedTo
<1>15. InLocalRange(a) <=> LocalV6(b)
  BY <1>3, <1>6, <1>13, <1>14 DEF LocalV6, InPrefix
<1> QED
  BY <1>1, <1>15

-----------------------------------------------------------------------------

(* net_is_local of the C program lets through the local ranges, and        *)
(* nothing else.                                                           *)
LEMMA CGuard == \A a \in Address4 \cup Address6 : C!net_is_local(a) <=> InLocalRange(a)
<1>1. ASSUME NEW a \in Address4 PROVE C!net_is_local(a) <=> InLocalRange(a)
  <2>1. a.family = 4
    BY DEF Address4
  <2> QED
    BY <2>1, ContractV4 DEF C!net_is_local, C!is_local_v4, LocalV4
<1>2. ASSUME NEW a \in Address6 PROVE C!net_is_local(a) <=> InLocalRange(a)
  <2>1. a.family = 6
    BY DEF Address6
  <2>2. C!is_local_v4([i \in 0 .. 3 |-> a.bytes[i + 12]]) <=> LocalV4(a.bytes[12], a.bytes[13])
    BY DEF C!is_local_v4, LocalV4
  <2>3. C!is_local_v6(a.bytes) <=> LocalV6(a.bytes)
    BY <2>2 DEF C!is_local_v6, C!is_all_zero, LocalV6
  <2> QED
    BY <2>1, <2>3, ContractV6 DEF C!net_is_local
<1> QED
  BY <1>1, <1>2

(* isLocalAddress of the C++ program likewise.                             *)
LEMMA CppGuard == \A a \in Address4 \cup Address6 : Cpp!isLocalAddress(a) <=> InLocalRange(a)
<1>1. ASSUME NEW a \in Address4 PROVE Cpp!isLocalAddress(a) <=> InLocalRange(a)
  <2>1. a.family = 4
    BY DEF Address4
  <2> QED
    BY <2>1, ContractV4 DEF Cpp!isLocalAddress, Cpp!isLocalV4, LocalV4
<1>2. ASSUME NEW a \in Address6 PROVE Cpp!isLocalAddress(a) <=> InLocalRange(a)
  <2>1. a.family = 6
    BY DEF Address6
  <2>2. Cpp!isLocalV4([i \in 0 .. 3 |-> a.bytes[i + 12]]) <=> LocalV4(a.bytes[12], a.bytes[13])
    BY DEF Cpp!isLocalV4, LocalV4
  <2>3. Cpp!isLocalV6(a.bytes) <=> LocalV6(a.bytes)
    BY <2>2 DEF Cpp!isLocalV6, Cpp!isAllZero, LocalV6
  <2> QED
    BY <2>1, <2>3, ContractV6 DEF Cpp!isLocalAddress
<1> QED
  BY <1>1, <1>2

(* A mapped address is no other kind of local address, so that it does not *)
(* matter that the Rust and C# programs look for it first.                 *)
LEMMA MappedFirst ==
    ASSUME NEW b \in [0 .. 15 -> Byte], (\A i \in 0 .. 9 : b[i] = 0) /\ b[10] = 255 /\ b[11] = 255
    PROVE  LocalV6(b) <=> LocalV4(b[12], b[13])
<1>1. b[0] = 0 /\ b[10] # 0
  OBVIOUS
<1>2. b[0] # 254 /\ b[0] \div 2 # 126
  BY <1>1
<1> QED
  BY <1>1, <1>2 DEF LocalV6

(* is_local of the Rust program likewise.                                  *)
LEMMA RustGuard == \A a \in Address4 \cup Address6 : Rust!is_local(a) <=> InLocalRange(a)
<1>1. ASSUME NEW a \in Address4 PROVE Rust!is_local(a) <=> InLocalRange(a)
  <2>1. a.family = 4
    BY DEF Address4
  <2> QED
    BY <2>1, ContractV4 DEF Rust!is_local, Rust!is_local_v4, LocalV4
<1>2. ASSUME NEW a \in Address6 PROVE Rust!is_local(a) <=> InLocalRange(a)
  <2>1. a.family = 6 /\ a.bytes \in [0 .. 15 -> Byte]
    BY DEF Address6
  <2>2. CASE Rust!to_ipv4_mapped(a.bytes)
    <3>1. Rust!is_local_v4([i \in 0 .. 3 |-> a.bytes[i + 12]]) <=> LocalV4(a.bytes[12], a.bytes[13])
      BY DEF Rust!is_local_v4, LocalV4
    <3>2. LocalV6(a.bytes) <=> LocalV4(a.bytes[12], a.bytes[13])
      BY <2>1, <2>2, MappedFirst DEF Rust!to_ipv4_mapped
    <3> QED
      BY <2>1, <2>2, <3>1, <3>2, ContractV6 DEF Rust!is_local
  <2>3. CASE ~Rust!to_ipv4_mapped(a.bytes)
    <3>1. Rust!is_local_v6(a.bytes) <=> LocalV6(a.bytes)
      BY <2>3 DEF Rust!is_local_v6, Rust!to_ipv4_mapped, LocalV6
    <3> QED
      BY <2>1, <2>3, <3>1, ContractV6 DEF Rust!is_local
  <2> QED
    BY <2>2, <2>3
<1> QED
  BY <1>1, <1>2

(* IsLocal of the C# program likewise.                                     *)
LEMMA CsGuard == \A a \in Address4 \cup Address6 : Cs!IsLocal(a) <=> InLocalRange(a)
<1>1. ASSUME NEW a \in Address4 PROVE Cs!IsLocal(a) <=> InLocalRange(a)
  <2>1. a.family = 4
    BY DEF Address4
  <2> QED
    BY <2>1, ContractV4 DEF Cs!IsLocal, Cs!IsIPv4MappedToIPv6, Cs!IsLocalV4, LocalV4
<1>2. ASSUME NEW a \in Address6 PROVE Cs!IsLocal(a) <=> InLocalRange(a)
  <2>1. a.family = 6 /\ a.bytes \in [0 .. 15 -> Byte]
    BY DEF Address6
  <2>2. CASE Cs!IsIPv4MappedToIPv6(a)
    <3>1. Cs!IsLocalV4([i \in 0 .. 3 |-> a.bytes[i + 12]]) <=> LocalV4(a.bytes[12], a.bytes[13])
      BY DEF Cs!IsLocalV4, LocalV4
    <3>2. LocalV6(a.bytes) <=> LocalV4(a.bytes[12], a.bytes[13])
      BY <2>1, <2>2, MappedFirst DEF Cs!IsIPv4MappedToIPv6
    <3> QED
      BY <2>1, <2>2, <3>1, <3>2, ContractV6 DEF Cs!IsLocal
  <2>3. CASE ~Cs!IsIPv4MappedToIPv6(a)
    <3>1. Cs!IsLocalV6(a.bytes) <=> LocalV6(a.bytes)
      BY <2>1, <2>3 DEF Cs!IsLocalV6, Cs!IsIPv4MappedToIPv6, LocalV6
    <3> QED
      BY <2>1, <2>3, <3>1, ContractV6 DEF Cs!IsLocal
  <2> QED
    BY <2>2, <2>3
<1> QED
  BY <1>1, <1>2

(* The four guards let through the local ranges and nothing else, whatever *)
(* the address; so no two of them can differ.                              *)
THEOREM GuardsAreTheLocalRanges ==
    \A a \in Address4 \cup Address6 :
        /\ C!net_is_local(a) <=> InLocalRange(a)
        /\ Cpp!isLocalAddress(a) <=> InLocalRange(a)
        /\ Rust!is_local(a) <=> InLocalRange(a)
        /\ Cs!IsLocal(a) <=> InLocalRange(a)
BY CGuard, CppGuard, RustGuard, CsGuard
=============================================================================
