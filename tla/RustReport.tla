----------------------------- MODULE RustReport ----------------------------
(***************************************************************************)
(* The banner text (scanner.rs) and the reports (report.rs) of the Rust    *)
(* program; see CReport.                                                   *)
(***************************************************************************)
EXTENDS Texts

(* Pops the spaces off the end, one at a time.                             *)
Trimmed(out) == SubSeq(out, 1, SelectLastInSeq(out, LAMBDA ch : ch # " "))

sanitize_banner(data) ==
    LET trimmed_start == SelectInSeq(data, LAMBDA b : b \notin {"\r", "\n", " "})
        rest == IF trimmed_start = 0 THEN <<>> ELSE SubSeq(data, trimmed_start, Len(data))
        stop == SelectInSeq(rest, LAMBDA b : b \in {"\r", "\n"})
        kept == {k \in DOMAIN rest : (stop = 0 \/ k < stop) /\ k <= BannerMax}
    IN  Trimmed([k \in 1 .. Cardinality(kept) |-> IF rest[k] \in Printable THEN rest[k] ELSE "."])

count_results(results) ==
    [open |-> Count(results, "open"), closed |-> Count(results, "closed"),
     filtered |-> Count(results, "filtered"), errors |-> Count(results, "error")]

(* The text is taken byte by byte, and each byte above 0x7f becomes a      *)
(* character of its own: a wide character comes out as two others.         *)
write_json_string(text) ==
    LET Push(out, ch) ==
            out \o CASE ch \in {"\"", "\\"} -> <<"\\", ch>>
                     [] ch \in Control -> <<"\\u", ch>>
                     [] ch = "wide" -> <<"high", "high">>
                     [] OTHER -> <<ch>>
    IN  FoldLeft(Push, <<"\"">>, text) \o <<"\"">>

write_table(target, results) ==
    LET counts == count_results(results)
        Line(out, p) == out \o <<ToString(p), "open">> \o results[p].banner \o <<"\n">>
    IN  FoldLeft(Line, <<"PORT STATE MS BANNER", "\n", "-", "\n">>, OpenPorts(results))
        \o <<"\n", "scanned", Total(results), "ports on">> \o Chars(target)
        \o <<"(address)", counts.open, "open", counts.closed, "closed", counts.filtered, "filtered">>
        \o (IF counts.errors # "0" THEN <<counts.errors, "errors">> ELSE <<>>)
        \o <<"\n">>

write_json(target, results) ==
    LET counts == count_results(results)
        open == OpenPorts(results)
        Entry(k) ==
            (IF k > 1 THEN <<",">> ELSE <<>>)
            \o <<"{port:", ToString(open[k]), "state:open", "banner:">>
            \o write_json_string(results[open[k]].banner) \o <<"}">>
    IN  <<"{target:">> \o write_json_string(Chars(target)) \o <<"scanned:", Total(results), "open:[">>
        \o FlattenSeq([k \in DOMAIN open |-> Entry(k)])
        \o <<"]", "closed:", counts.closed, "filtered:", counts.filtered, "errors:", counts.errors, "}", "\n">>
=============================================================================
