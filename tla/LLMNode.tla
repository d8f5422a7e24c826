------------------------------ MODULE LLMNode -------------------------------
(***************************************************************************)
(* The LLM node (src/llm/node.go): messages are read or rendered, tools    *)
(* resolved, the adjuster asked, the prompt estimated, the provider called *)
(* with or without a stream, the reply written to the state and turned     *)
(* into a command.  Every event can fail to be recorded or handled, every  *)
(* callback and the provider can fail.                                     *)
(***************************************************************************)
EXTENDS LLMStream

CONSTANTS
  Specs,      \* the NodeSpecs of the node
  Items(_),   \* what a provider may send
  MaxItems,   \* bound: items of one stream
  MaxFaults,  \* bound: events that cannot be recorded or handled
  MaxResumes, \* bound: how often the node is run again after an interrupt
  None

(* "chat" is a provider that has no ChatStream; writes, outputs: the spec  *)
(* has Messages.Write, Output; estimates, adjusts: an estimator, an        *)
(* adjuster is in the spec or the context.                                 *)
NodeSpec ==
  [provider : Streaming \cup {"chat"}, stream : BOOLEAN, adjusts : BOOLEAN,
   estimates : BOOLEAN, writes : BOOLEAN, outputs : BOOLEAN]

ASSUME LLMAssumption ==
  /\ MaxItems \in Nat /\ MaxFaults \in Nat /\ MaxResumes \in Nat
  /\ Specs \subseteq NodeSpec
  /\ \A p \in Streaming : \A item \in Items(p) :
       /\ item.index \in Int /\ item.calls \in Nat
       /\ item.kind = "final" => p = "responses"
       /\ item.kind = "call" /\ p = "gemini" => "name" \in item.gives

VARIABLES
  spec,      \* the node's spec
  pc,        \* where the node function is
  wire,      \* what the provider sent so far
  draft,     \* what ChatStream holds of it
  queue,     \* stream chunks it still has to hand to the handler
  response,  \* what the provider returned
  emitted,   \* the events of this call of the node
  outcome,   \* what the node returned
  bounds     \* faults and resumes so far

vars == <<spec, pc, wire, draft, queue, response, emitted, outcome, bounds>>
provider == spec.provider

Init ==
  /\ spec \in Specs
  /\ pc = "resolve"
  /\ wire = <<>> /\ draft = NewDraft /\ queue = <<>> /\ response = NoResponse
  /\ emitted = <<>>
  /\ outcome = None
  /\ bounds = [faults |-> 0, resumes |-> 0]

Event(type) == [type |-> type, delta |-> Delta("none", 0)]
DeltaEvent(delta) == [type |-> "llm.delta", delta |-> delta]

(* trace.Emit: the event is recorded and handled, or it fails before or    *)
(* after it was recorded.                                                  *)
Emit(event, next, failure) ==
  \/ emitted' = Append(emitted, event) /\ pc' = next /\ UNCHANGED bounds
  \/ /\ bounds.faults < MaxFaults
     /\ bounds' = [bounds EXCEPT !.faults = @ + 1]
     /\ emitted' \in {emitted, Append(emitted, event)}
     /\ pc' = failure

Stage(from, event, next) ==
  /\ pc = from
  /\ Emit(Event(event), next, "error")
  /\ UNCHANGED <<spec, wire, draft, queue, response, outcome>>

Go(next) == pc' = next /\ UNCHANGED <<spec, wire, draft, queue, response, emitted, outcome, bounds>>

-----------------------------------------------------------------------------
(* The provider is looked up, messages are read or rendered and tools      *)
(* resolved, before any event.                                             *)
Resolve == pc = "resolve" /\ \E next \in {"read", "error"} : Go(next)

MessageRead == Stage("read", "message.read", "adjust")

(* applyBeforeLLMAdjuster.                                                 *)
Adjust ==
  /\ pc = "adjust"
  /\ \E next \in IF spec.adjusts THEN {"render", "error"} ELSE {"render"} : Go(next)

PromptRendered == Stage("render", "prompt.rendered", "estimate")

(* estimatePromptTokens.                                                   *)
Estimate ==
  /\ pc = "estimate"
  /\ \E next \in IF spec.estimates THEN {"estimated", "error"} ELSE {"start"} : Go(next)
PromptEstimated == Stage("estimated", "prompt.estimated", "start")

LLMStarted == Stage("start", "llm.started", "call")

(* The provider is called; one without ChatStream cannot stream, which is  *)
(* found only now and is not reported as llm.failed.                       *)
CannotStream == spec.stream /\ provider = "chat"
Call ==
  /\ pc = "call"
  /\ Go(IF CannotStream THEN "error" ELSE IF spec.stream THEN "stream" ELSE "chat")

Chat == pc = "chat" /\ \E next \in {"completed", "failed"} : Go(next)

-----------------------------------------------------------------------------
(* ChatStream: the next item of the wire, when the handler has got all     *)
(* that the items before it gave.                                          *)
Item(item) ==
  /\ pc = "stream"
  /\ queue = <<>>
  /\ Len(wire) < MaxItems
  /\ draft.final = 0  \* nothing follows response.completed
  /\ wire' = Append(wire, item)
  /\ IF Breaks(provider, draft, item)
     THEN pc' = "failed" /\ UNCHANGED <<draft, queue>>
     ELSE /\ draft' = Absorb(provider, draft, item)
          /\ queue' = Deltas(provider, draft, item)
          /\ UNCHANGED pc
  /\ UNCHANGED <<spec, response, emitted, outcome, bounds>>

(* The handler emits llm.delta; its error ends ChatStream.                 *)
Closed == IF pc = "close" /\ Len(queue) = 1 THEN "assemble" ELSE pc
Handing == {"stream", "close"}
Hand ==
  /\ pc \in Handing
  /\ queue # <<>>
  /\ Emit(DeltaEvent(Head(queue)), Closed, "failed")
  /\ queue' = Tail(queue)
  /\ UNCHANGED <<spec, wire, draft, response, outcome>>

(* The stream ends, by itself or with an error.                            *)
StreamEnd ==
  /\ pc = "stream"
  /\ queue = <<>>
  /\ IF EndsEarly(provider, draft)
     THEN pc' = "failed" /\ UNCHANGED queue
     ELSE \/ pc' = "close" /\ queue' = Closing(provider, draft)
          \/ pc' = "failed" /\ UNCHANGED queue
  /\ UNCHANGED <<spec, wire, draft, response, emitted, outcome, bounds>>

Assemble ==
  /\ pc = "assemble"
  /\ response' = Assembled(provider, draft)
  /\ pc' = "completed"
  /\ UNCHANGED <<spec, wire, draft, queue, emitted, outcome, bounds>>

-----------------------------------------------------------------------------
(* The provider failed: whether llm.failed can be recorded is not looked   *)
(* at.                                                                     *)
Ignored == {"completed"}  \* mutant of AfterFailure: the error is forgotten
AfterFailure == {"error"}
LLMFailed ==
  /\ pc = "failed"
  /\ \E next \in AfterFailure : Emit(Event("llm.failed"), next, next)
  /\ UNCHANGED <<spec, wire, draft, queue, response, outcome>>

LLMCompleted == Stage("completed", "llm.completed", IF spec.writes THEN "write" ELSE "output")

(* Messages.Write, then message.written.                                   *)
Write == pc = "write" /\ \E next \in {"written", "error"} : Go(next)
MessageWritten == Stage("written", "message.written", "output")

(* The command: the state with the reply as its update unless Output made  *)
(* one of its own, or no command at all.                                   *)
Return(o) ==
  /\ outcome' = o
  /\ pc' = "returned"
  /\ UNCHANGED <<spec, wire, draft, queue, response, emitted, bounds>>

Output ==
  /\ pc = "output"
  /\ \E o \in IF spec.outputs THEN {"command", "interrupt", "error"} ELSE {"command"} : Return(o)

Error == pc = "error" /\ Return("error")

(* The run is resumed: the node runs from its beginning and calls the      *)
(* model again.                                                            *)
Again ==
  /\ pc = "returned" /\ outcome = "interrupt"
  /\ bounds.resumes < MaxResumes
  /\ bounds' = [bounds EXCEPT !.resumes = @ + 1]
  /\ pc' = "resolve"
  /\ wire' = <<>> /\ draft' = NewDraft /\ queue' = <<>> /\ response' = NoResponse
  /\ emitted' = <<>> /\ outcome' = None
  /\ UNCHANGED spec

Stop == pc = "returned" /\ (outcome = "interrupt" => bounds.resumes = MaxResumes) /\ UNCHANGED vars

Next ==
  \/ Resolve \/ MessageRead \/ Adjust \/ PromptRendered \/ Estimate \/ PromptEstimated
  \/ LLMStarted \/ Call \/ Chat
  \/ (\E item \in Items(provider) : Item(item)) \/ Hand \/ StreamEnd \/ Assemble
  \/ LLMFailed \/ LLMCompleted \/ Write \/ MessageWritten \/ Output \/ Error
  \/ Again \/ Stop

Spec == Init /\ [][Next]_vars

-----------------------------------------------------------------------------
(* Properties                                                              *)

Rank(type) ==
  CASE type = "message.read" -> 1 [] type = "prompt.rendered" -> 2
    [] type = "prompt.estimated" -> 3 [] type = "llm.started" -> 4
    [] type = "llm.delta" -> 5 [] type \in {"llm.completed", "llm.failed"} -> 6
    [] type = "message.written" -> 7
Has(type) == \E i \in DOMAIN emitted : emitted[i].type = type

(* The events of a call come in the order a reader of the trace relies on, *)
(* at most one of llm.completed and llm.failed, nothing but the reply      *)
(* after it.  A node that returns a command has completed its LLM call and *)
(* reported its reply; one whose LLM call failed returns an error; and a   *)
(* started LLM call is left open only when an event was lost or the        *)
(* provider cannot stream.                                                 *)
EventProtocol ==
  /\ \A i \in 1 .. Len(emitted) - 1 :
       \/ Rank(emitted[i].type) < Rank(emitted[i + 1].type)
       \/ emitted[i].type = "llm.delta" /\ emitted[i + 1].type = "llm.delta"
  /\ Has("message.written") => Has("llm.completed")
  /\ pc = "returned" =>
       /\ outcome # "error" => Has("llm.completed") /\ (spec.writes <=> Has("message.written"))
       /\ Has("llm.failed") => outcome = "error"
       /\ Has("llm.started") /\ ~Has("llm.completed") /\ ~Has("llm.failed") =>
            CannotStream \/ bounds.faults > 0

(* The tool calls of a response are those the wire brought: every piece of *)
(* a call's arguments is in it once and in order, however the pieces of    *)
(* several calls were interleaved, with the last identifier and name that  *)
(* came for it, and the calls stand in the order of their indices.  Of     *)
(* Anthropic's pieces, one that comes after a text or thinking (n with no  *)
(* name since) belongs to no call.                                         *)
Naming(n) == "name" \in wire[n].gives
AfterText(n) ==
  \E m \in 1 .. n - 1 :
    /\ wire[m].kind \in {"text", "thinking"}
    /\ \A k \in m + 1 .. n - 1 : ~Naming(k)
CallItems ==
  {n \in DOMAIN wire :
     wire[n].kind = "call" /\ ~(provider = "anthropic" /\ ~Naming(n) /\ AfterText(n))}
Owner(n) ==
  CASE provider = "openai" -> wire[n].index
    [] provider = "anthropic" -> Max({m \in CallItems : m <= n /\ Naming(m)})
    [] OTHER -> n
Bringing(owner, field) == {n \in CallItems : Owner(n) = owner /\ field \in wire[n].gives}
Latest(n, S) == IF S = {} THEN n = 0 ELSE n \in S /\ \A m \in S : m <= n
Lists(list, S) == Range(list) = S /\ \A i, j \in DOMAIN list : i < j => list[i] < list[j]
CallsOfWire(calls) ==
  /\ \A k \in DOMAIN calls :
       LET owner == Owner(calls[k].name)
       IN /\ calls[k].name \in CallItems
          /\ Latest(calls[k].id, Bringing(owner, "id"))
          /\ Latest(calls[k].name, Bringing(owner, "name"))
          /\ Lists(calls[k].arguments, Bringing(owner, "arguments"))
  /\ Lists([k \in DOMAIN calls |-> Owner(calls[k].name)], {Owner(n) : n \in {m \in CallItems : Naming(m)}})

(* The response has each tool call as above, and what the handler was      *)
(* given adds up to the response: the text (unless Responses sent it only  *)
(* in its last event), each tool call once and in order, the usage last    *)
(* reported, one "done" at the end.  The handler's last usage is not the   *)
(* response's only when Gemini took it back by a later report of zeros,    *)
(* which the response has and the handler is not told of.                  *)
ZeroReports == {n \in DOMAIN wire : provider = "gemini" /\ wire[n].kind = "no usage"}
TakenBack(at) == \E n \in ZeroReports : n > at
Handed(what) ==
  FlattenSeq([i \in DOMAIN emitted |->
    IF emitted[i].delta.what = what THEN <<emitted[i].delta>> ELSE <<>>])
StreamFaithful ==
  spec.stream /\ pc = "completed" =>
    /\ provider # "responses" => CallsOfWire(response.calls)
    /\ LET texts == [i \in DOMAIN Handed("text") |-> Handed("text")[i].at]
       IN texts = response.text \/ (provider = "responses" /\ texts = <<>>)
    /\ [i \in DOMAIN Handed("call") |-> Handed("call")[i].call] = response.calls
    /\ response.usage # 0 => Handed("usage") # <<>> /\ Last(Handed("usage")).at = response.usage
    /\ response.usage = 0 /\ Handed("usage") # <<>> => TakenBack(Last(Handed("usage")).at)
    /\ Len(Handed("done")) = 1 /\ Last(emitted).delta.what = "done"
=============================================================================
