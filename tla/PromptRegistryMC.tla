-------------------------- MODULE PromptRegistryMC --------------------------
(***************************************************************************)
(* Two prompts, one with a name in its header and one without, whose paths *)
(* have one default identifier (a.md and a.txt), and drafts that leave     *)
(* fields open, clear metadata, or hold what a file cannot keep.           *)
(***************************************************************************)
EXTENDS PromptRegistry, TLC

CONSTANTS p1, p2

Text(text) == [text |-> text, crlf |-> FALSE]
MCIdentifier ==
  (p1 :> [named |-> "b", default |-> "a"]) @@ (p2 :> [named |-> "a", default |-> "a"])
MCInitialFile ==
  (p1 :> [state |-> "whole", promptID |-> "named", order |-> 1,
          segment |-> [id |-> "named", role |-> "system", priority |-> 2,
                       content |-> Text("a"), metadata |-> "plain"]])
  @@ (p2 :> [state |-> "whole", promptID |-> "default", order |-> 0,
             segment |-> [id |-> "default", role |-> "user", priority |-> 0,
                          content |-> Text("b"), metadata |-> None]])

DraftText == [id |-> "", role |-> "", priority |-> 0, content |-> Text("b"), metadata |-> None]
MCDrafts ==
  {DraftText,
   [DraftText EXCEPT !.id = "named", !.content = [text |-> "a", crlf |-> TRUE], !.metadata = "empty"],
   [DraftText EXCEPT !.id = "default", !.role = "assistant", !.priority = 1, !.metadata = "other"],
   [DraftText EXCEPT !.role = "other"],
   [DraftText EXCEPT !.metadata = "fenced"]}
=============================================================================
