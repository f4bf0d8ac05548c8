------------------------------ MODULE CReport ------------------------------
(***************************************************************************)
(* The banner text (scan.c) and the reports (report.c) of the C program.   *)
(* An output is a sequence of pieces: the characters of the target and of  *)
(* the banners, and the fixed text and the numbers between them.           *)
(***************************************************************************)
EXTENDS Texts

(* Slip: the trailing spaces go before the text is cut to its length.      *)
scan_sanitize_bannerTrimFirst(data) ==
    LET i == SelectInSeq(data, LAMBDA value : value \notin {"\r", "\n", " "})
        rest == IF i = 0 THEN <<>> ELSE SubSeq(data, i, Len(data))
        eol == SelectInSeq(rest, LAMBDA value : value \in {"\r", "\n"})
        line == SubSeq(rest, 1, IF eol = 0 THEN Len(rest) ELSE eol - 1)
        end == SelectLastInSeq(line, LAMBDA value : value # " ")
    IN  [k \in 1 .. (IF end < BannerMax THEN end ELSE BannerMax) |-> IF line[k] \in Printable THEN line[k] ELSE "."]

(* out has room for BANNER_MAX_CHARS and the terminator.                   *)
scan_sanitize_banner(data) ==
    LET i == SelectInSeq(data, LAMBDA value : value \notin {"\r", "\n", " "})
        rest == IF i = 0 THEN <<>> ELSE SubSeq(data, i, Len(data))
        eol == SelectInSeq(rest, LAMBDA value : value \in {"\r", "\n"})
        end == IF eol = 0 THEN Len(rest) ELSE eol - 1
        out == [k \in 1 .. (IF end < BannerMax THEN end ELSE BannerMax) |-> IF rest[k] \in Printable THEN rest[k] ELSE "."]
    IN  SubSeq(out, 1, SelectLastInSeq(out, LAMBDA value : value # " "))

report_counts(results) ==
    [open |-> Count(results, "open"), closed |-> Count(results, "closed"),
     filtered |-> Count(results, "filtered"), errors |-> Count(results, "error")]

report_table(target, results) ==
    LET counts == report_counts(results)
        open == OpenPorts(results)
        Row(p) == <<ToString(p), "open">> \o results[p].banner \o <<"\n">>
    IN  <<"PORT STATE MS BANNER", "\n", "-", "\n">>
        \o FlattenSeq([k \in DOMAIN open |-> Row(open[k])])
        \o <<"\n", "scanned", Total(results), "ports on">> \o Chars(target)
        \o <<"(address)", counts.open, "open", counts.closed, "closed", counts.filtered, "filtered">>
        \o (IF counts.errors # "0" THEN <<counts.errors, "errors">> ELSE <<>>)
        \o <<"\n">>

(* Slip: only the quote is escaped.                                        *)
report_json_stringQuoteOnly(text) ==
    LET Escape(value) == IF value = "\"" THEN <<"\\", value>> ELSE <<value>>
    IN  <<"\"">> \o FlattenSeq([k \in DOMAIN text |-> Escape(text[k])]) \o <<"\"">>

(* Every byte of a wide character is above 0x1f.                           *)
report_json_string(text) ==
    LET Escape(value) == CASE value \in {"\"", "\\"} -> <<"\\", value>>
                           [] value \in Control -> <<"\\u", value>>
                           [] OTHER -> <<value>>
    IN  <<"\"">> \o FlattenSeq([k \in DOMAIN text |-> Escape(text[k])]) \o <<"\"">>

write_open_entry(p, item) ==
    <<"{port:", ToString(p), "state:open", "banner:">> \o report_json_string(item.banner) \o <<"}">>

report_json(target, results) ==
    LET counts == report_counts(results)
        open == OpenPorts(results)
        Entry(k) == (IF k = 1 THEN <<>> ELSE <<",">>) \o write_open_entry(open[k], results[open[k]])
    IN  <<"{target:">> \o report_json_string(Chars(target)) \o <<"scanned:", Total(results), "open:[">>
        \o FlattenSeq([k \in DOMAIN open |-> Entry(k)])
        \o <<"]", "closed:", counts.closed, "filtered:", counts.filtered, "errors:", counts.errors, "}", "\n">>
=============================================================================
