------------------------------- MODULE HttpMC -------------------------------
(***************************************************************************)
(* Three requests, the least with which a run is started, resumed, and its *)
(* interrupt answered a second time, while its client names the run.       *)
(***************************************************************************)
EXTENDS Http

MCBodies == {{}, {"state"}, {"state", "run_id"}, {"state", "run_id", "other"}, {"run_id"}}
=============================================================================
