----------------------------- MODULE LLMStream ------------------------------
(***************************************************************************)
(* How the ChatStream of the four providers (src/llm/openai,               *)
(* src/llm/openai/responses, src/llm/anthropic, src/llm/gemini) turns what *)
(* arrives on the wire into stream chunks for the handler and into one     *)
(* response at the end.                                                    *)
(*                                                                         *)
(* A piece of text, of thinking or of arguments, an identifier or a name   *)
(* is the position on the wire of the item that brought it, 0 when none    *)
(* did; a text is the sequence of its pieces.                              *)
(***************************************************************************)
EXTENDS Integers, Sequences, SequencesExt

Streaming == {"openai", "responses", "anthropic", "gemini"}

(* An item of the wire.  A "call" brings some fields of a tool call, at an *)
(* index with OpenAI; "no usage" is a report of usage whose counts are all *)
(* zero, "usage" any other; "final" is response.completed, with its number *)
(* of tool calls and whether it has text; "broken" is response.failed,     *)
(* response.incomplete or error.                                           *)
Plain(kind) == [kind |-> kind, index |-> 0, gives |-> {}, calls |-> 0]
CallItem(index, gives) == [Plain("call") EXCEPT !.index = index, !.gives = gives]
FinalItem(calls, gives) == [Plain("final") EXCEPT !.calls = calls, !.gives = gives]

Blank == [id |-> 0, name |-> 0, arguments |-> <<>>]
NewDraft ==
  [seen |-> 0, text |-> <<>>, usage |-> 0, order |-> <<>>, part |-> <<>>, aside |-> FALSE, final |-> 0,
   calls |-> 0]

(* The Anthropic accumulator opens a block when a name, or a text or       *)
(* thinking after a call, comes, and extends the last one: arguments that  *)
(* come when the last block is no call are put where no call looks, and    *)
(* fail when there is no block.                                            *)
Aside(draft, item) == item.kind \in {"text", "thinking"} \/ (draft.aside /\ "name" \notin item.gives)
Stray(p, draft, item) ==
  p = "anthropic" /\ item.kind = "call" /\ "name" \notin item.gives /\ draft.aside

(* Where the fields of a call item go.  OpenAI names the call by its index *)
(* and interleaves calls freely; Gemini sends whole calls.                 *)
SlotOfLast(p, d, item) ==  \* mutant of Slot: the index is not looked at, pieces go to the last call
  IF p # "gemini" /\ "name" \notin item.gives /\ d.order # <<>> THEN Last(d.order) ELSE Len(d.order) + 1
Slot(p, d, item) ==
  CASE p = "openai" -> item.index
    [] p = "anthropic" /\ "name" \notin item.gives -> Last(d.order)
    [] OTHER -> Len(d.order) + 1

Fill(partial, item, n) ==
  [id |-> IF "id" \in item.gives THEN n ELSE partial.id,
   name |-> IF "name" \in item.gives THEN n ELSE partial.name,
   arguments |-> IF "arguments" \in item.gives THEN Append(partial.arguments, n) ELSE partial.arguments]

AbsorbCall(p, d, item, n) ==
  LET slot == Slot(p, d, item)
      known == slot \in DOMAIN d.part
      partial == IF known THEN d.part[slot] ELSE Blank
  IN [d EXCEPT !.order = IF known THEN @ ELSE Append(@, slot),
               !.part = [s \in DOMAIN @ \cup {slot} |->
                           IF s = slot THEN Fill(partial, item, n) ELSE @[s]]]

(* One item of the wire, as the loop over the stream takes it.  Gemini's   *)
(* takes every report of usage, OpenAI's none that is all zero.            *)
Absorb(p, draft, item) ==
  LET n == draft.seen + 1
      d == [draft EXCEPT !.seen = n, !.aside = Aside(draft, item)]
  IN CASE item.kind = "text" -> [d EXCEPT !.text = Append(@, n)]
       [] item.kind = "usage" -> [d EXCEPT !.usage = n]
       [] item.kind = "no usage" /\ p = "gemini" -> [d EXCEPT !.usage = 0]
       [] item.kind = "call" /\ ~Stray(p, draft, item) -> AbsorbCall(p, d, item, n)
       [] item.kind = "final" ->
            [d EXCEPT !.final = n, !.calls = item.calls,
                      !.usage = IF "usage" \in item.gives THEN n ELSE 0,
                      !.text = IF @ = <<>> /\ "text" \in item.gives THEN <<n>> ELSE @]
       [] OTHER -> d

(* Items that make ChatStream fail: an error event, and with Anthropic     *)
(* arguments for a block that was never opened.                            *)
Breaks(p, d, item) ==
  \/ item.kind = "broken"
  \/ /\ p = "anthropic" /\ item.kind = "call" /\ "name" \notin item.gives
     /\ d.order = <<>> /\ ~d.aside

(* The stream ended.  Only the Responses API must have sent its response.  *)
EndsEarly(p, d) == p = "responses" /\ d.final = 0

(* completeStreamToolCalls, convertResponseContent, convertOutputToolCalls: *)
(* OpenAI's calls are those that got a name, by their index.               *)
Nth(S, k) == CHOOSE s \in S : Cardinality({t \in S : t <= s}) = k
Ascending(S) == [k \in 1 .. Cardinality(S) |-> Nth(S, k)]
NamedCalls(d) == {s \in DOMAIN d.part : d.part[s].name # 0}
CallOrder(p, d) == IF p = "openai" THEN Ascending(NamedCalls(d)) ELSE d.order

ToolCalls(p, d) ==
  IF p = "responses"
  THEN [k \in 1 .. d.calls |-> [id |-> d.final, name |-> d.final, arguments |-> <<k>>]]
  ELSE [k \in DOMAIN CallOrder(p, d) |-> d.part[CallOrder(p, d)[k]]]

(* The stream chunks: what the handler is given for an item, and after the *)
(* last item.  OpenAI's chat completions have no thinking; two providers   *)
(* report usage as it comes, two at the end, and none hands on zeros.      *)
Delta(what, n) == [what |-> what, at |-> n, call |-> Blank]
CallDelta(call) == [what |-> "call", at |-> 0, call |-> call]
Usage(d) == IF d.usage = 0 THEN <<>> ELSE <<Delta("usage", d.usage)>>

Deltas(p, d, item) ==
  IF \/ item.kind = "text"
     \/ item.kind = "thinking" /\ p # "openai"
     \/ item.kind = "usage" /\ p \in {"openai", "gemini"}
  THEN <<Delta(item.kind, d.seen + 1)>>
  ELSE <<>>

ClosingWithoutCalls(p, d) ==  \* mutant of Closing: the tool calls are not streamed
  IF p \in Streaming THEN Append(Usage(d), Delta("done", 0)) ELSE <<>>
Closing(p, d) ==
  (IF p \in {"responses", "anthropic"} THEN Usage(d) ELSE <<>>)
    \o [k \in DOMAIN ToolCalls(p, d) |-> CallDelta(ToolCalls(p, d)[k])]
    \o <<Delta("done", 0)>>

NoResponse == [text |-> <<>>, calls |-> <<>>, usage |-> 0]
Assembled(p, d) == [text |-> d.text, calls |-> ToolCalls(p, d), usage |-> d.usage]
=============================================================================
