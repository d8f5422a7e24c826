----------------------------- MODULE EventHubMC -----------------------------
(***************************************************************************)
(* Two calls of two runs publish to two connections with room for one      *)
(* event each, one that wants everything and one that wants one run.       *)
(* Goroutines of a call do not publish at the same time (emitMu), so none  *)
(* are needed here.                                                        *)
(***************************************************************************)
EXTENDS EventHub, TLC

CONSTANTS c1, c2, r1, r2, n1, n2, s1, s2

MCCallOf == [g \in {} |-> c1]
MCRunOf == (c1 :> r1) @@ (c2 :> r2)
Of(r, n) == ("run" :> r) @@ ("node" :> n)
MCLabel == (c1 :> Of(r1, n1)) @@ (c2 :> Of(r2, n2))
MCFilters == (s1 :> {Of(None, None)}) @@ (s2 :> {Of(None, None), Of(r1, n1)})
=============================================================================
