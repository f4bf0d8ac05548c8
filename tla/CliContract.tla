---------------------------- MODULE CliContract ----------------------------
(***************************************************************************)
(* What the command line promises, in one place for the four programs: the *)
(* reading of the arguments, the local ranges and the exit codes           *)
(* (README.md, "Command line interface" and "Safety and legal boundary").  *)
(* It looks at an argument list as a whole; the programs read it from left *)
(* to right and keep a state.                                              *)
(***************************************************************************)
EXTENDS Texts

(* The positions that are the value of the flag before them.               *)
ValuesOf(args) ==
    CHOOSE s \in SUBSET DOMAIN args :
        \A i \in DOMAIN args : i \in s <=> i > 1 /\ i - 1 \notin s /\ IsFlag(args[i - 1])

IsOption(args, i) == i \in DOMAIN args \ ValuesOf(args)

IsTarget(args, i) == IsOption(args, i) /\ ~StartsWithDashes(args[i]) /\ args[i] # "-h"

(* The largest port, timeout and concurrency (README.md).                 *)
HighestPort == 65535
LongestTimeout == 60000
MostProbes == 10000

InBounds(text, low, high) == Number(text).form = "digits" /\ Number(text).value \in low .. high

ValidValue(flag, value) ==
    CASE flag = "--ports" -> TRUE
      [] flag = "--format" -> value \in {"table", "json"}
      [] flag = "--timeout" -> InBounds(value, 50, LongestTimeout)
      [] flag = "--concurrency" -> InBounds(value, 1, MostProbes)

IsHelp(args, i) == IsOption(args, i) /\ args[i] \in {"--help", "-h"}

IsWrong(args, i) ==
    /\ IsOption(args, i)
    /\ \/ IsFlag(args[i]) /\ (i = Len(args) \/ ~ValidValue(args[i], args[i + 1]))
       \/ args[i] = "--unknown"
       \/ IsTarget(args, i) /\ \E j \in 1 .. i - 1 : IsTarget(args, j) /\ args[j] # ""

(* Help wins when nothing before it is wrong.                              *)
AsksForHelp(args) ==
    \E i \in DOMAIN args : IsHelp(args, i) /\ \A j \in 1 .. i - 1 : ~IsWrong(args, j)

WellFormed(args) ==
    /\ \A i \in DOMAIN args : ~IsWrong(args, i)
    /\ \E i \in DOMAIN args : IsTarget(args, i) /\ args[i] # ""

Confirms(args) == \E i \in DOMAIN args : IsOption(args, i) /\ args[i] = "--yes-i-own-this"

(* The last --ports counts.                                                *)
PortsText(args) ==
    LET given == {i \in DOMAIN args : IsOption(args, i) /\ args[i] = "--ports"}
    IN  IF given = {} THEN "1-1024"
        ELSE args[(CHOOSE i \in given : \A j \in given : j <= i) + 1]

(* The ports a token stands for, none if it is not well formed.            *)
Denotes(token) ==
    IF \A k \in DOMAIN token : InBounds(token[k], 1, HighestPort)
    THEN Number(token[1]).value .. Number(token[Len(token)]).value ELSE {}

ValidPorts(text) == text # "" /\ \A k \in DOMAIN Tokens(text) : Denotes(Tokens(text)[k]) # {}

-----------------------------------------------------------------------------
(* The ranges the guard lets through, by prefix and number of bits: this   *)
(* host (0/8, which the tests call local), loopback, RFC 1918, link-local; *)
(* and for IPv6 the first two addresses, fe80::/10, fc00::/7 and the       *)
(* IPv4-mapped forms.  Two bytes decide for IPv4.                          *)

Prefix(b, k) == 256 * b[k] + b[k + 1]

(* The eight groups an IPv6 address is written in.                         *)
Groups(b) == [k \in 0 .. 7 |-> Prefix(b, 2 * k)]

Block(first, bits) == first .. first + 2 ^ (16 - bits) - 1

LocalPrefixes ==
    UNION {Block(0, 8), Block(256 * 127, 8), Block(256 * 10, 8), Block(256 * 172 + 16, 12),
           Block(256 * 192 + 168, 16), Block(256 * 169 + 254, 16)}

LocalPrefixes6 == Block(256 * 254 + 128, 10) \union Block(256 * 252, 7)

InLocalRange(a) ==
    IF a.family = 4 THEN Prefix(a.bytes, 0) \in LocalPrefixes
    ELSE LET g == Groups(a.bytes)
             ZeroUpTo(n) == \A k \in 0 .. n : g[k] = 0
         IN  \/ g[0] \in LocalPrefixes6
             \/ ZeroUpTo(6) /\ g[7] \in {0, 1}
             \/ ZeroUpTo(4) /\ g[5] = 65535 /\ g[6] \in LocalPrefixes

(* The ranges README.md names at "Safety and legal boundary" and "Things   *)
(* to watch out for": its IPv6 private range is fd00::/8.                  *)
InDocumentedRange(a) ==
    InLocalRange(a) /\ ~(a.family = 6 /\ Prefix(a.bytes, 0) \in Block(256 * 252, 8))

-----------------------------------------------------------------------------
(* The exit code: 0 scan finished (or help), 1 invalid argument or refused *)
(* permission, 2 target could not be resolved.                             *)
DocumentedCode(args, code, resolved, permitted) ==
    code = IF AsksForHelp(args) THEN 0
           ELSE IF ~WellFormed(args) \/ ~ValidPorts(PortsText(args)) THEN 1
           ELSE IF ~resolved THEN 2
           ELSE IF permitted THEN 0 ELSE 1
=============================================================================
