----------------------------- MODULE ToolNodeMC -----------------------------
(***************************************************************************)
(* ToolNode on three calls and a pool of two, the least with which a call  *)
(* waits for a place while two others run and fail.  Two calls of one plan *)
(* need approval, one after a call that does not.                          *)
(***************************************************************************)
EXTENDS ToolNode

MCPlans ==
  {<<"plain", "approval", "approval">>, <<"permission", "plain", "disallowed">>}
MCSpecs ==
  {[width |-> 1, continueOnError |-> FALSE, handler |-> FALSE],
   [width |-> 1, continueOnError |-> TRUE, handler |-> FALSE],
   [width |-> 1, continueOnError |-> TRUE, handler |-> TRUE],
   [width |-> 2, continueOnError |-> TRUE, handler |-> FALSE],
   [width |-> 2, continueOnError |-> FALSE, handler |-> TRUE]}
=============================================================================
