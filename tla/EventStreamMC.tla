--------------------------- MODULE EventStreamMC ----------------------------
(***************************************************************************)
(* Two calls of one run on one stream, one with two goroutines, and a      *)
(* buffer that fills.                                                      *)
(***************************************************************************)
EXTENDS EventStream, TLC

CONSTANTS c1, c2, g1, g2, r1

MCCallOf == (g1 :> c1) @@ (g2 :> c1)
MCRunOf == (c1 :> r1) @@ (c2 :> r1)
=============================================================================
