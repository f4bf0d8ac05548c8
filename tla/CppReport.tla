----------------------------- MODULE CppReport -----------------------------
(***************************************************************************)
(* The banner text (Scanner.cpp) and the reports (Report.cpp) of the C++   *)
(* program; see CReport.                                                   *)
(***************************************************************************)
EXTENDS Texts

(* The second loop ends at a line end, or when out is full.                *)
sanitizeBanner(data) ==
    LET i == SelectInSeq(data, LAMBDA value : value \notin {"\r", "\n", " "})
        Push(acc, value) ==
            IF acc.ended \/ Len(acc.out) = BannerMax THEN acc
            ELSE IF value \in {"\r", "\n"} THEN [acc EXCEPT !.ended = TRUE]
            ELSE [acc EXCEPT !.out = Append(@, IF value \in Printable THEN value ELSE ".")]
        out == IF i = 0 THEN <<>>
               ELSE FoldLeft(Push, [out |-> <<>>, ended |-> FALSE], SubSeq(data, i, Len(data))).out
    IN  SubSeq(out, 1, SelectLastInSeq(out, LAMBDA value : value # " "))

countResults(results) == [state \in {"open", "closed", "filtered", "error"} |-> Count(results, state)]

(* Slip: the ports that ended in an error are never mentioned.             *)
writeTableWithoutErrors(target, results) ==
    LET counts == countResults(results)
        Row(rows, p) == rows \o <<ToString(p), "open">> \o results[p].banner \o <<"\n">>
    IN  FoldLeft(Row, <<"PORT STATE MS BANNER", "\n", "-", "\n">>, OpenPorts(results))
        \o <<"\n", "scanned", Total(results), "ports on">> \o Chars(target)
        \o <<"(address)", counts["open"], "open", counts["closed"], "closed", counts["filtered"], "filtered", "\n">>

writeTable(target, results) ==
    LET counts == countResults(results)
        Row(rows, p) == rows \o <<ToString(p), "open">> \o results[p].banner \o <<"\n">>
    IN  FoldLeft(Row, <<"PORT STATE MS BANNER", "\n", "-", "\n">>, OpenPorts(results))
        \o <<"\n", "scanned", Total(results), "ports on">> \o Chars(target)
        \o <<"(address)", counts["open"], "open", counts["closed"], "closed", counts["filtered"], "filtered">>
        \o (IF counts["error"] # "0" THEN <<counts["error"], "errors">> ELSE <<>>)
        \o <<"\n">>

writeJsonString(text) ==
    LET Put(out, value) == out \o CASE value \in {"\"", "\\"} -> <<"\\", value>>
                                    [] value \in Control -> <<"\\u", value>>
                                    [] OTHER -> <<value>>
    IN  Append(FoldLeft(Put, <<"\"">>, text), "\"")

writeJson(target, results) ==
    LET counts == countResults(results)
        Add(out, p) ==
            out \o (IF Last(out) = "open:[" THEN <<>> ELSE <<",">>)
                \o <<"{port:", ToString(p), "state:open", "banner:">> \o writeJsonString(results[p].banner) \o <<"}">>
        head == <<"{target:">> \o writeJsonString(Chars(target)) \o <<"scanned:", Total(results), "open:[">>
    IN  FoldLeft(Add, head, OpenPorts(results))
        \o <<"]", "closed:", counts["closed"], "filtered:", counts["filtered"], "errors:", counts["error"], "}", "\n">>
=============================================================================
