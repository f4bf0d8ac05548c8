------------------------------- MODULE Texts -------------------------------
(***************************************************************************)
(* The texts a command line is made of, and how they read: as a number, as *)
(* a port list, as an option.  A text is a name here, and its readings are *)
(* tables; what each program makes of a reading is in its own module.      *)
(***************************************************************************)
EXTENDS Naturals, SequencesExt

CONSTANT BannerMax  \* BANNER_MAX_CHARS, 120 in the sources

ASSUME BannerMaxAssumption == BannerMax \in Nat

(* Stands for a number that is too large for every bound, and for every    *)
(* integer type: all parsers reject it.                                    *)
Huge == 2147483647

(* How a text reads as a number: a run of digits, the same after a plus    *)
(* sign, or not at all; how many characters it has; and its value.         *)
Number(text) ==
    CASE text \in {"0", "1", "22", "23", "80", "100", "800", "1024", "20000", "65535", "65536"} ->
            [form |-> "digits", width |-> 5,
             value |-> CASE text = "0" -> 0 [] text = "1" -> 1 [] text = "22" -> 22 [] text = "23" -> 23
                         [] text = "80" -> 80 [] text = "100" -> 100 [] text = "800" -> 800
                         [] text = "1024" -> 1024 [] text = "20000" -> 20000
                         [] text = "65535" -> 65535 [] text = "65536" -> 65536]
      [] text = "0000000000000022" -> [form |-> "digits", width |-> 16, value |-> 22]
      [] text = "99999999999999999999" -> [form |-> "digits", width |-> 20, value |-> Huge]
      [] text = "+800" -> [form |-> "plus", width |-> 4, value |-> 800]
      [] OTHER -> [form |-> "none", width |-> 0, value |-> 0]

(* How a text reads as a port list: split at the commas, and each token    *)
(* split at its first dash.                                                *)
Tokens(text) ==
    CASE text = "" -> <<>>
      [] text = "22," -> << <<"22">>, <<"">> >>
      [] text = "80,22-23" -> << <<"80">>, <<"22", "23">> >>
      [] text = "22-100,80" -> << <<"22", "100">>, <<"80">> >>
      [] text = "100-1" -> << <<"100", "1">> >>
      [] text = "1-2-3" -> << <<"1", "2-3">> >>
      [] text = "1-1024" -> << <<"1", "1024">> >>
      [] text = "-h" -> << <<"", "h">> >>
      [] text = "a list of 256 characters" -> << <<"22">>, <<"80">>, <<"22">> >>
      [] OTHER -> << <<text>> >>

(* 256 characters or more.                                                 *)
IsLong(text) == text = "a list of 256 characters"

IsFlag(text) == text \in {"--ports", "--timeout", "--concurrency", "--format"}

StartsWithDashes(text) ==
    IsFlag(text) \/ text \in {"--help", "--banner", "--yes-i-own-this", "--unknown"}

-----------------------------------------------------------------------------
(* Characters: each stands for those that are treated alike.  "ctl" is a   *)
(* control character other than a line end, "high" a byte above 0x7e, and  *)
(* "wide" a character such as U+0107: two high bytes in UTF-8, and in      *)
(* UTF-16 one unit whose low byte is a control character.                  *)

Control == {"\n", "\r", "ctl"}
Printable == {" ", "a", "\"", "\\", "."}

(* The characters of a target; one for each that has no special ones.      *)
Chars(text) ==
    CASE text = "quoted" -> <<"a", "\"", "\\", "ctl">>
      [] text = "wide" -> <<"a", "wide">>
      [] OTHER -> <<text>>

(* What the probe of a port comes to: its state, and the bytes that were   *)
(* read.  found says it of some ports; the others refuse.                  *)
Finding(found, port) ==
    IF port \in DOMAIN found THEN found[port] ELSE [state |-> "closed", bytes |-> <<>>]

(* The elements of a finite set of numbers, in increasing order.           *)
Ascending(S) == CHOOSE s \in [1 .. Cardinality(S) -> S] : \A i, j \in DOMAIN s : i < j => s[i] < s[j]

(* What a report is made from: results maps each port to what was found.   *)
(* In the sources it is a list in increasing order of the ports.           *)
OpenPorts(results) == Ascending({p \in DOMAIN results : results[p].state = "open"})

Count(results, state) == ToString(Cardinality({p \in DOMAIN results : results[p].state = state}))

Total(results) == ToString(Cardinality(DOMAIN results))

-----------------------------------------------------------------------------
(* Addresses: a family and the bytes, from 0 as in the sources.            *)

Byte == 0 .. 255

Address4 == [family : {4}, bytes : [0 .. 3 -> Byte]]
Address6 == [family : {6}, bytes : [0 .. 15 -> Byte]]

V4(b0, b1) == [family |-> 4, bytes |-> [i \in 0 .. 3 |-> CASE i = 0 -> b0 [] i = 1 -> b1 [] OTHER -> 1]]

(* An IPv6 address from its first two bytes and its last one.              *)
V6(b0, b1, b15) ==
    [family |-> 6,
     bytes |-> [i \in 0 .. 15 |-> CASE i = 0 -> b0 [] i = 1 -> b1 [] i = 15 -> b15 [] OTHER -> 0]]

(* The IPv4-mapped address ::ffff:b0.b1.1.1.                               *)
Mapped(b0, b1) ==
    [family |-> 6,
     bytes |-> [i \in 0 .. 15 |->
        IF i < 10 THEN 0 ELSE IF i < 12 THEN 255 ELSE V4(b0, b1).bytes[i - 12]]]
=============================================================================
