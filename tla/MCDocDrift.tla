----------------------------- MODULE MCDocDrift -----------------------------
EXTENDS DocDrift

A == <<"p", "a.go">>
B == <<"p", "b.go">>
C == <<"p", "c.py">>
QA == <<"p", "q", "a.go">>
Root == <<"README.md">>
Readme == <<"p", "README.md">>
QReadme == <<"p", "q", "README.md">>
Changelog == <<"p", "CHANGELOG.md">>

MCFiles == {A, B, C, QA}
MCDocs == {Root, Readme, QReadme, Changelog}
MCChecked == {Root, Readme, QReadme}
MCChangelogs == {Changelog}
MCExt == [f \in MCFiles |-> IF f = C THEN ".py" ELSE ".go"]
MCBare == [s \in {"F", "T.M", "M"} |-> IF s = "T.M" THEN "M" ELSE s]
Both == [syms |-> {"F", "T.M"}, ok |-> TRUE]
MCContents == {Both, [syms |-> {"F"}, ok |-> FALSE]}
NamesM == [refs |-> {"M"}, pkgs |-> {}]
NamesQ == [refs |-> {}, pkgs |-> {<<"p", "q">>}]
MCTexts == {NamesM, NamesQ}
MCAiClaims == {[kind |-> "path", value |-> <<"q", "a.go">>, dir |-> <<>>],
               [kind |-> "path", value |-> <<"p", "b.go">>, dir |-> <<>>],
               [kind |-> "path", value |-> <<"q", "a.go">>, dir |-> <<"p">>],
               [kind |-> "package", value |-> <<"p", "q">>, dir |-> <<>>]}
MCStart == [code |-> [f \in MCFiles |-> IF f \in {A, QA} THEN Both ELSE Gone],
            docs |-> [d \in MCDocs |-> IF d = Root THEN NamesQ ELSE NamesM]]
=============================================================================
