------------------------------ MODULE CsReport -----------------------------
(***************************************************************************)
(* The banner text (Scanner.cs) and the reports (Report.cs) of the C#      *)
(* program; see CReport.                                                   *)
(***************************************************************************)
EXTENDS Texts

SanitizeBanner(data) ==
    LET start == SelectInSeq(data, LAMBDA value : value \notin {"\r", "\n", " "})
        Add(builder, value) ==
            IF builder.done THEN builder
            ELSE IF value \in {"\r", "\n"} \/ Len(builder.text) >= BannerMax THEN [builder EXCEPT !.done = TRUE]
            ELSE [builder EXCEPT !.text = Append(@, IF value \in Printable THEN value ELSE ".")]
        text == FoldLeft(Add, [text |-> <<>>, done |-> start = 0],
                         SubSeq(data, IF start = 0 THEN 1 ELSE start, Len(data))).text
    IN  SubSeq(text, 1, SelectLastInSeq(text, LAMBDA value : value # " "))

CountResults(results) ==
    [Open |-> Count(results, "open"), Closed |-> Count(results, "closed"),
     Filtered |-> Count(results, "filtered"), Errors |-> Count(results, "error")]

WriteTable(target, results) ==
    LET counts == CountResults(results)
        AppendRow(builder, p) == builder \o <<ToString(p), "open">> \o results[p].banner \o <<"\n">>
    IN  FoldLeft(AppendRow, <<"PORT STATE MS BANNER", "\n", "-", "\n">>, OpenPorts(results))
        \o <<"\n", "scanned", Total(results), "ports on">> \o Chars(target)
        \o <<"(address)", counts.Open, "open", counts.Closed, "closed", counts.Filtered, "filtered">>
        \o (IF counts.Errors # "0" THEN <<counts.Errors, "errors">> ELSE <<>>)
        \o <<"\n">>

(* (byte)ch keeps the low byte of a UTF-16 unit: a wide character whose    *)
(* low byte is below 0x20 is written as that control character.            *)
WriteJsonString(text) ==
    LET AppendChar(builder, ch) ==
            builder \o CASE ch \in {"\"", "\\"} -> <<"\\", ch>>
                         [] ch \in Control -> <<"\\u", ch>>
                         [] ch = "wide" -> <<"\\u", "ctl">>
                         [] OTHER -> <<ch>>
    IN  Append(FoldLeft(AppendChar, <<"\"">>, text), "\"")

WriteJson(target, results) ==
    LET counts == CountResults(results)
        open == OpenPorts(results)
        Entry(k) ==
            (IF k = 1 THEN <<>> ELSE <<",">>)
            \o <<"{port:", ToString(open[k]), "state:open", "banner:">>
            \o WriteJsonString(results[open[k]].banner) \o <<"}">>
    IN  <<"{target:">> \o WriteJsonString(Chars(target)) \o <<"scanned:", Total(results), "open:[">>
        \o FlattenSeq([k \in DOMAIN open |-> Entry(k)])
        \o <<"]", "closed:", counts.Closed, "filtered:", counts.Filtered, "errors:", counts.Errors, "}", "\n">>
=============================================================================
