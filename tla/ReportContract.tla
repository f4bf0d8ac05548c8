--------------------------- MODULE ReportContract --------------------------
(***************************************************************************)
(* What a report tells: how a reader of the table, and a reader of JSON,   *)
(* takes the printed text apart again, and what they should find.          *)
(***************************************************************************)
EXTENDS Texts

(* The text of a banner: the first line, without the spaces around it, cut *)
(* to BannerMax characters (and to no space at the end), with a dot for    *)
(* what is not printable.  It is the longest stretch that qualifies.       *)
CleanBanner(bytes) ==
    LET Blank(k) == bytes[k] \in {"\r", "\n", " "}
        Qualifies(i, j) ==
            /\ ~Blank(i) /\ \A k \in 1 .. i - 1 : Blank(k)
            /\ \A k \in i .. j : bytes[k] \notin {"\r", "\n"}
            /\ bytes[j] # " " /\ j - i < BannerMax
        ends == {j \in DOMAIN bytes : \E i \in 1 .. j : Qualifies(i, j)}
    IN  IF ends = {} THEN <<>>
        ELSE LET j == CHOOSE j \in ends : \A k \in ends : k <= j
                 i == CHOOSE i \in 1 .. j : Qualifies(i, j)
             IN  [k \in 1 .. j - i + 1 |-> IF bytes[i + k - 1] \in Printable THEN bytes[i + k - 1] ELSE "."]

(* What is to be told of a scan.                                           *)
Told(target, results) ==
    LET open == OpenPorts(results)
    IN  [target |-> Chars(target), scanned |-> Total(results),
         open |-> [k \in DOMAIN open |-> [port |-> ToString(open[k]), banner |-> CleanBanner(results[open[k]].bytes)]],
         closed |-> Count(results, "closed"), filtered |-> Count(results, "filtered"),
         errors |-> Count(results, "error")]

(* The pieces that a reader looks for.  A text is one piece here, so that  *)
(* a target that is called like one of them would be taken for it.         *)
Reserved ==
    {"\n", "\"", "\\u", "ports on", "(address)", "closed", "filtered", "errors",
     "{target:", "scanned:", "{port:", "closed:", "filtered:", "errors:"}

-----------------------------------------------------------------------------
(* The table: two lines of heading, a line for each open port, an empty    *)
(* line and the summary, where each number stands before its name.         *)

Lines(text) ==
    FoldLeft(LAMBDA lines, piece :
                 IF piece = "\n" THEN Append(lines, <<>>) ELSE Front(lines) \o <<Append(Last(lines), piece)>>,
             << <<>> >>, text)

NumberBefore(line, name) == IF Contains(line, name) THEN line[SelectInSeq(line, LAMBDA piece : piece = name) - 1] ELSE "0"

ReadTable(text) ==
    LET lines == Lines(text)
        rows == SubSeq(lines, 3, Len(lines) - 3)
        summary == lines[Len(lines) - 1]
        Find(name) == SelectInSeq(summary, LAMBDA piece : piece = name)
    IN  [target |-> SubSeq(summary, Find("ports on") + 1, Find("(address)") - 1),
         scanned |-> NumberBefore(summary, "ports on"),
         open |-> [k \in DOMAIN rows |-> [port |-> rows[k][1], banner |-> SubSeq(rows[k], 3, Len(rows[k]))]],
         closed |-> NumberBefore(summary, "closed"), filtered |-> NumberBefore(summary, "filtered"),
         errors |-> NumberBefore(summary, "errors")]

-----------------------------------------------------------------------------
(* JSON: the pieces become values, and the characters between two quotes   *)
(* one value, a string, marked by its quote.  A control character must not *)
(* stand in a string as it is.                                             *)

Lex(state, piece) ==
    CASE state.mode = "outside" /\ piece = "\"" -> [state EXCEPT !.mode = "string", !.values = Append(@, <<"\"">>)]
      [] state.mode = "outside" /\ piece # "\"" -> [state EXCEPT !.values = Append(@, <<piece>>)]
      [] state.mode = "string" /\ piece = "\"" -> [state EXCEPT !.mode = "outside"]
      [] state.mode = "string" /\ piece \in {"\\", "\\u"} -> [state EXCEPT !.mode = "escape"]
      [] state.mode = "string" /\ piece \in Control -> [state EXCEPT !.mode = "malformed"]
      [] state.mode = "malformed" -> state
      [] OTHER -> [state EXCEPT !.mode = "string", !.values = Front(@) \o <<Append(Last(@), piece)>>]

ReadJson(text) ==
    LET lexed == FoldLeft(Lex, [mode |-> "outside", values |-> <<>>], text)
        values == lexed.values
        After(name) == values[SelectInSeq(values, LAMBDA value : value = <<name>>) + 1]
        entries == Ascending({k \in DOMAIN values : values[k] = <<"{port:">>})
    IN  IF lexed.mode # "outside" \/ Last(values) # <<"\n">> THEN [malformed |-> TRUE]
        ELSE [target |-> Tail(After("{target:")), scanned |-> After("scanned:")[1],
              open |-> [k \in DOMAIN entries |->
                           [port |-> values[entries[k] + 1][1], banner |-> Tail(values[entries[k] + 4])]],
              closed |-> After("closed:")[1], filtered |-> After("filtered:")[1], errors |-> After("errors:")[1]]
=============================================================================
