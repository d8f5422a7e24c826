----------------------------- MODULE LLMNodeMC ------------------------------
(***************************************************************************)
(* LLMNode with each provider: enough items for the pieces of two tool     *)
(* calls to interleave.                                                    *)
(***************************************************************************)
EXTENDS LLMNode

Spec1(p, stream) ==
  [provider |-> p, stream |-> stream, adjusts |-> TRUE, estimates |-> TRUE, writes |-> TRUE, outputs |-> TRUE]
MCSpecs ==
  {Spec1(p, TRUE) : p \in Streaming \cup {"chat"}} \cup {Spec1("chat", FALSE),
   [Spec1("openai", FALSE) EXCEPT !.adjusts = FALSE, !.estimates = FALSE, !.writes = FALSE, !.outputs = FALSE]}

Whole == {"id", "name", "arguments"}
MCItems(p) ==
  CASE p = "openai" ->
         {Plain("text"), Plain("usage"), Plain("no usage")}
           \cup {CallItem(i, g) : i \in {0, 2}, g \in {{"id", "name"}, {"arguments"}, Whole}}
    [] p = "responses" ->
         {Plain("text"), Plain("thinking"), Plain("broken")}
           \cup {FinalItem(c, g) : c \in 0 .. 2, g \in {{}, {"text", "usage"}}}
    [] p = "anthropic" ->
         {Plain("text"), Plain("thinking"), Plain("usage"),
          CallItem(0, {"id", "name"}), CallItem(0, {"arguments"})}
    [] p = "gemini" ->
         {Plain("text"), Plain("thinking"), Plain("usage"), Plain("no usage"), CallItem(0, Whole)}
    [] OTHER -> {}
=============================================================================
