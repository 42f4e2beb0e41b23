------------------------------- MODULE MCClaims -------------------------------
(* Instances of ClaimReports for TLC. *)
EXTENDS ClaimReports

CONSTANTS client, clientTest, script

Languages == [f \in Files |-> IF f = script THEN "python" ELSE "go"]
Paths     == [f \in Files |-> IF f = script THEN "" ELSE "p"]

Decl(owner, name, kind, public, doc, line) ==
  [owner |-> owner, name |-> name, kind |-> kind, public |-> public,
   doc |-> doc, line |-> line, sig |-> "()", methods |-> {}]
Import(paths, joined) == {[paths |-> paths, joined |-> joined]}
Unit(decls, comments, imported, lines) ==
  [decls |-> decls, comments |-> comments, imports |-> imported,
   exports |-> {}, generated |-> FALSE, lines |-> lines]

Closer == [Decl("", "Closer", "interface", TRUE, "", 3)
             EXCEPT !.methods = {"Close"}]
Client == Decl("", "Client", "type", TRUE, "plain", 1)
Close  == Decl("Client", "Close", "method", TRUE, "", 2)
Open   == Decl("", "Open", "func", TRUE, "secret", 1)
Test   == Decl("", "TestOpen", "func", TRUE, "", 1)

\* The type, its method and the interface; then a function in their place.
ClientContents ==
  {Unit({Client, Close, Closer}, {}, Import({"io", "fmt"}, "fmt, io"), 3),
   Unit({Open}, {}, Import({"io"}, "io"), 1)}
TestContents   == {Unit({Test}, {}, Import({"testing"}, "testing"), 1)}
ScriptContents ==
  {Unit({Decl("", "run", "func", TRUE, "", 2)}, {"secret"}, Import({"os"}, "os"), 2),
   Unit({Decl("", "Client", "class", TRUE, "", 1)}, {"plain"}, {}, 2)}

ContentsOf ==
  [f \in Files |-> CASE f = client -> ClientContents
                     [] f = clientTest -> TestContents
                     [] OTHER -> ScriptContents]

Item(name, pred, text) == [name |-> name, pred |-> pred, text |-> text]
TwoAnswers ==
  {{Item("Client", "purpose", "holds"), Item("run", "purpose", "secret"),
    Item("Client", "complexity", "simple")},
   {Item("Client", "purpose", "wraps"), Item("Ghost", "purpose", "nothing")}}

OneExternal == 
  {[symbol |-> FormatGoSymbol("x", "", "Y", "type"), doc |-> "plain"]}
=============================================================================
