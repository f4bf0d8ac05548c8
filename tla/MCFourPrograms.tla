--------------------------- MODULE MCFourPrograms --------------------------
(* The command lines and the resolver's answers that the runs try.         *)
EXTENDS FourPrograms

Words ==
    {"host", "", "--help", "--banner", "--yes-i-own-this", "--unknown", "--ports", "--timeout",
     "--concurrency", "--format", "json", "80,22-23", "100-1", "0", "800"}

(* Every list of up to three words, and four behind a target.              *)
EveryArgList ==
    UNION {[1 .. n -> Words] : n \in 0 .. 3}
        \union {<<"host", "--ports", x, y>> : x, y \in Words}
        \union {<<"--ports", x, "host", y>> : x, y \in Words}
        \union {<<"host", "--ports", x>> : x \in {"22,", "22-100,80", "1-2-3", "-h", "65535", "65536", "99999999999999999999"}}
        \union {<<"host", "--ports", "80", "--ports", x>> : x \in Words}
        \union {<<"host", "--concurrency", x>> : x \in {"1", "20000", "99999999999999999999"}}
        \union {<<"host", "--timeout", x>> : x \in {"22", "65535", "1024"}}

OneTarget == {<<V4(127, 0)>>}

FewArgLists == {<<"host", "--ports", "80">>, <<"host", "--ports", "80", "--yes-i-own-this">>}

(* Every boundary of every range, on both sides.                           *)
FirstBytes == {0, 1, 9, 10, 11, 126, 127, 128, 168, 169, 170, 171, 172, 173, 191, 192, 193, 251, 252, 253, 254, 255}
SecondBytes == {0, 15, 16, 31, 32, 127, 128, 167, 168, 169, 191, 192, 253, 254, 255}

ManyTargets ==
    {<<V4(x, y)>> : x \in FirstBytes, y \in SecondBytes}
        \union {<<Mapped(x, y)>> : x \in FirstBytes, y \in SecondBytes}
        \union {<<V6(x, y, z)>> : x \in FirstBytes, y \in SecondBytes, z \in {0, 1, 2}}
        \union {<<V4(x, 0), V6(y, 0, 1)>> : x, y \in {8, 10, 254}}
        \union {<<V4(x, 0), V4(y, 0)>> : x, y \in {8, 10}}
        \union {<<>>}

ScarceArgLists ==
    FewArgLists \union {<<"--help">>, <<"host">>, <<"host", "--ports", "0">>, <<"host", "--unknown">>,
                        <<"host", "--format", "--yes-i-own-this">>, <<"host", "--ports", "--yes-i-own-this">>}
FewTargets == {<<V4(127, 0)>>, <<V4(8, 8)>>, <<V4(8, 8), V6(254, 128, 1)>>, <<>>}

Case(args, list, short) == [argv |-> args, dns |-> list, scarce |-> short, found |-> <<>>]

(* Every state of three ports, two of which answer with a banner.          *)
Answer(bytes) == {[state |-> s, bytes |-> IF s = "open" THEN bytes ELSE <<>>] : s \in {"open", "closed", "filtered", "error"}}
EveryState == {(22 :> x) @@ (23 :> y) @@ (80 :> z) : x \in Answer(<<"a", "\"">>), y \in Answer(<<>>), z \in Answer(<<" ", "\\", "\r">>)}

(* One open port, and every short sequence of bytes it may send: more than *)
(* BannerMax of them, with every place for a line end, a space or a quote. *)
Sequences(symbols, n) == UNION {[1 .. k -> symbols] : k \in 0 .. n}
EveryBanner ==
    {80 :> [state |-> "open", bytes |-> bytes] :
        bytes \in Sequences({"\r", "\n", " ", "a", "\"", "\\", "ctl", "high"}, 3) \union Sequences({"\n", " ", "a", "\"", "high"}, 4)}

ReportCase(args, findings) == [argv |-> args, dns |-> <<V4(127, 0)>>, scarce |-> FALSE, found |-> findings]

Reports ==
    {ReportCase(<<target, "--ports", "80,22-23", "--format", format>> \o banner, findings) :
        target \in {"host", "quoted", "wide"}, format \in {"table", "json"}, banner \in {<<>>, <<"--banner">>}, findings \in EveryState}
        \union {ReportCase(<<"host", "--ports", "80", "--banner", "--format", format>>, findings) :
            format \in {"table", "json"}, findings \in EveryBanner}

(* The arguments, the guard, what happens when something runs out, and the *)
(* reports.                                                                *)
EveryInput ==
    {Case(args, list, FALSE) : args \in EveryArgList, list \in OneTarget}
        \union {Case(args, list, FALSE) : args \in FewArgLists, list \in ManyTargets}
        \union {Case(args, list, TRUE) : args \in ScarceArgLists, list \in FewTargets}
        \union Reports

PlusSign == {Case(<<"host", "--timeout", "+800">>, <<V4(127, 0)>>, FALSE)}
IPv6First == {Case(<<"host", "--ports", "80">>, <<V6(0, 0, 1), V4(127, 0)>>, FALSE)}
UniqueLocal == {Case(<<"host", "--ports", "80">>, <<V6(252, 0, 1)>>, FALSE)}
=============================================================================
