------------------------------ MODULE RunnerMC ------------------------------
(***************************************************************************)
(* The graph and the commands Runner is checked on.  n1 --> n2 is a fixed  *)
(* edge, n2 has a route (When n1, no Otherwise), n3 is a finish node; bad  *)
(* is a name no node has.  n4 has two fixed edges and n5 has no edge: both  *)
(* pass Validate.                                                          *)
(***************************************************************************)
EXTENDS Runner, TLC

CONSTANTS n1, n2, n3, n4, n5, bad, v1, v2

MCNodeIDs == {n1, n2, n3, n4, n5, bad}
MCRegistered == {n1, n2, n3, n4, n5}
MCFixed == [n \in MCNodeIDs |-> CASE n = n1 -> <<n2>> [] n = n4 -> <<n1, n2>> [] OTHER -> <<>>]
MCRouted == {n2}
MCWhens == [n \in MCNodeIDs |-> IF n = n2 THEN <<n1>> ELSE <<>>]
MCOtherwise == [n \in MCNodeIDs |-> None]

Noop == [update |-> None, goto |-> None, interrupt |-> FALSE, resume |-> None, end |-> FALSE]
AllCommands ==
  {Noop,
   [Noop EXCEPT !.update = v2],
   [Noop EXCEPT !.goto = n3],
   [Noop EXCEPT !.update = v2, !.goto = n4],
   [Noop EXCEPT !.goto = bad],
   [Noop EXCEPT !.goto = n1, !.end = TRUE],
   [Noop EXCEPT !.interrupt = TRUE],
   [Noop EXCEPT !.update = v2, !.interrupt = TRUE, !.goto = n2, !.end = TRUE],
   [Noop EXCEPT !.interrupt = TRUE, !.resume = bad],
   [Noop EXCEPT !.interrupt = TRUE, !.resume = n2]}

(* For the runs with several calls: what the races can tell apart.         *)
RaceCommands ==
  {Noop,
   [Noop EXCEPT !.update = v2, !.interrupt = TRUE, !.resume = n2]}
ReplayCommands ==
  {[Noop EXCEPT !.update = v2, !.end = TRUE],
   [Noop EXCEPT !.interrupt = TRUE]}

(* Answers are interchangeable in a run without liveness.                  *)
Symmetry == Permutations(Answers)
=============================================================================
