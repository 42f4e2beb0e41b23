------------------------ MODULE MCEvergreenRefresh --------------------------
(***************************************************************************)
(* Instances of EvergreenRefresh for TLC.                                  *)
(***************************************************************************)
EXTENDS EvergreenRefresh, TLC

CONSTANTS c1, c2, s1, p1, p2, r1

\* Both calls come from one session.
OneSession == [c \in Clients |-> s1]

Read(sources, markdown, prose) ==
  [link |-> TRUE, read |-> TRUE, sources |-> sources, markdown |-> markdown,
   prose |-> prose]

\* Two citations and a repeated one, one with a link that does not parse, prose
\* only in the answer, a read that fails and an answer without a link.
SomeReplies ==
  {Read(<<p1, p2, p1>>, {}, {}), Read(<<"malformed", p2>>, {r1}, {}),
   Read(<<"malformed">>, {}, {r1}),
   [Read(<<p1>>, {r1}, {r1}) EXCEPT !.read = FALSE],
   [Read(<<>>, {}, {r1}) EXCEPT !.link = FALSE]}

\* Two calls and two documents under the limiter; one document whose cited
\* symbols move, answered with hashes; every reply, answered without.
Limited ==
  [docs |-> 2, calls |-> 2, runs |-> 4, refills |-> 2, edits |-> 0,
   reader |-> "none", hashes |-> FALSE,
   replies |-> {[Read(<<>>, {}, {r1}) EXCEPT !.link = FALSE]}]
Drifting ==
  [docs |-> 1, calls |-> 1, runs |-> 2, refills |-> 0, edits |-> 2,
   reader |-> "up", hashes |-> TRUE, replies |-> {Read(<<p1, p2, p1>>, {}, {})}]
Replying ==
  [docs |-> 1, calls |-> 0, runs |-> 1, refills |-> 0, edits |-> 1,
   reader |-> "up", hashes |-> FALSE, replies |-> SomeReplies]
SomeSites == {Limited, Drifting, Replying}

\* Calls and documents are interchangeable.
Symmetry == Permutations(Clients) \cup Permutations(Docs)
=============================================================================
