# LangQuail in TLA+

Models, model checks and proofs for LangQuail, a Go library that runs graphs of
node functions over a state (`runtime`, `graph`), with LLM and tool nodes
(`llm`, `tool`), prompts on disk (`prompt`), human approvals (`hitl`), a trace of
events (`trace`) and a local HTTP server (`api`). Every definition is translated
from the Go source; `PROJECT.json` gives the file and the lines of each.

## 1. The system

### Components, their state and how they interact

| component | state | operations | models |
|---|---|---|---|
| state graph, `graph/` | nodes, edges, routes, build errors | the building calls, `Validate`, `Snapshot`; then `FixedTargets`, `SelectRoute` | `GraphBuild`; `StateGraph` for the run loop (what `Validate` guarantees is its assumption) |
| application, `app.go` | what the builder was given; the `App`s it built | the builder's calls, `Build`, `Serve` | `AppBuild`, `Startup` |
| skills, `tool/skill/` | a registry of packages read from directories | `LoadDir`, `LoadRoots`, `Register` | `Skills` |
| run loop, `runtime/runner.go` | per call: current node, state, step count, pending response; shared: recorder, checkpoints, interrupts | `Invoke`, the loop, `complete`/`fail`/`cancel`/`interrupt` | `Runner` |
| interrupts and resume, `runtime/interrupt.go` | records with checkpoint, resume node, response | `Save`, `Resolve`, `Resume`, `ResumeFrom` | `Runner` |
| checkpoint store, `checkpoint/` | list of checkpoints, latest per run | `Save`, `Load` | `Runner` |
| trace recorder, `trace/` | events and next sequence per run | `Record`, `List` | `Runner`, `Recording` |
| event stream and async calls, `runtime/event_stream.go`, `async.go` | a bounded channel, closed flag, dropped count, a result channel | `Handle`, `Close`, `InvokeAsync`, `Cancel` | `EventStream` over `Recording`, refines `Feed` |
| event hub and web sockets, `api/hub.go`, `server.go` | subscriptions with bounded channels and filters | `Subscribe`, `Publish`, `Close`, the socket loop | `EventHub` over `Recording`, refines `Feed` |
| HTTP invoke and resume, `api/server.go`, `executable.go` | none of its own: a `Runner` per request | `InvokeJSON`, `ResumeJSON` | `Http` |
| tool node, `tool/` | per attempt: prepared calls, worker goroutines, semaphore, outcome channel, progress tickers | look-up, permission, approval, execution in sequence or by a pool | `ToolNode`, refines `NodeContract` |
| LLM node, `llm/node.go` | per call: request, response | resolve, read, adjust, render, estimate, call, write, output | `LLMNode` over `LLMStream` |
| LLM providers, `llm/*/provider.go` | a draft of the response while streaming | `ChatStream`, `convertMessages`, `convertTools` | `LLMStream`, `Encode`, `ToolSchema` |
| token estimators, `token/` | none: conversion and one call to count | `CountPromptTokens` | `Estimate`, `ToolSchema` |
| compaction, `prompt/compact.go`, `llm/compact.go` | none: a plan applied to a list | `Compact`, `CompactMessages` | `Compact`, `Messages` |
| prompt registry, `prompt/prompt.go` | records, drafts, the files on disk | `LoadDir`, `Get`, `SaveDraft`, `CommitDraft` | `PromptRegistry` |
| server token, `api/auth.go` | one file shared by processes | `loadOrCreateToken` | `TokenFile` |

A `Runner` calls a node function with a context that carries an emitter and
perhaps a human response. Everything a node or the loop emits is recorded, which
gives it a sequence within its run, and then handed to the event handler: the
stream of an asynchronous call or the hub of the server. A node may return an
interrupt; the loop saves a checkpoint, registers the interrupt and returns, and
a later `Resume` continues the run from that checkpoint in a new call, perhaps
from another goroutine or HTTP request. Tool and LLM nodes are node functions. The emitter
a node was given works for ever: the loop does not mind an event of a node that has
returned, but the order in which events are delivered then is another, and what it
needs of a node that runs goroutines of its own is `NodeContract`. Before
all that, one caller builds a graph and an application from providers, prompts,
skills, tools and workflows, and may serve it; it keeps the graph, the builder and the
skill registry it gave, and nothing stops it from using them again.

### What is hard

*Concurrency.* Several calls share one `Runner`; several `Resume`s may race for
one interrupt and replays of a checkpoint run beside it; a node may emit from
goroutines; tools run in a pool with tickers, first-error cancellation and a
semaphore; a handler sends to channels that others close.
*Failure.* Recorder, handler, serializer and stores may fail at every step; LLM
streams break in the middle of a tool call; a prompt commit is torn by an error
or a crash; a server dies between creating and writing its token.
*Order.* Events per call and per run, results of parallel tools, pieces of tool
calls, operations of a compaction plan.
*Bounds.* Step limit, pool width, channel capacity, index arithmetic.
*Legal calls.* Building calls return no error and come in any order, things given
may share names, and what was given may still be changed; and the conversion of a
conversation and of a tool's schema exists several times, for sending and for counting.
`PROJECT.json` lists 40 such hazards with their lines and the properties that
cover them, and says of each that is not covered why.

### What makes each component correct

* Graph and application: an accepted graph can be run, and its edges and routes are
  shown as they are read; nothing added to the builder's lists is dropped or replaced;
  every built application stays what it is.
* Run loop: what a call returns agrees with its trace and its last checkpoint; the
  trace replays the path through the graph; the step limit and cancellation hold;
  every call ends; one winner per interrupt; an interrupt leads back to the state it
  was raised with; a checkpoint carries the sequence of its own `node.completed`.
* Delivery: each subscriber sees what it was offered in order or counts it as lost,
  nothing is sent on a closed channel, and no run waits for a consumer.
* Tool node: results complete and in call order, no echo of a failed sibling reported
  as the error, nothing that needs approval executed before a human was asked and did
  not reject, width kept, no event after return, no deadlock.
* LLM node: the event protocol, tool calls assembled right from interleaved pieces,
  deltas that add up to the response.
* Messages: a plan does what it says; what is left is sent once and in order, with
  schemas that mean what the tools' mean; what is counted is what is sent.
* Prompts and token: a prompt without a draft is what a restart would bring back, up
  to what the file format drops; all servers agree.

## 2. Modules

| module | role | state and actions against the code |
|---|---|---|
| `GraphBuild` | the graph's builder | one action per building call; a wrong call adds to `buildErrs`, `builders` are the `RouteBuilder`s the caller kept. `Valid` is `Validate`, `Snapshot` what an application shows |
| `Skills` | loading of skill packages | pure operators over what a disk holds: packages, resources, links |
| `AppBuild` | the application's builder | `builder` takes everything, `Build` refuses or adds one to `apps`; `registries` are the caller's skill registry and those that builds made, to which builder and applications refer by place |
| `Startup` | from builder to server | `AppBuild`, then `NewServer`'s choice of a token source, then `TokenFile` |
| `ServerProofs` | theorems about the token file, building, serving and HTTP requests | section 5 |
| `StateGraph` | constants and routing | the graph is a constant; a predicate's truth is user code, so `RouteTargets` is the set of what may be chosen |
| `Runner` | run loop, interrupts, checkpoints | `frame[c]` holds the locals of one call of `run()`; `events`, `checkpoints`, `interrupts` are the shared stores. An action is the code between two accesses to a shared store; `End`, `Abandon` and `SnapshotFails` are the exits and early returns. A call whose node was ever given an emitter may `Emit` at any time after |
| `RunnerProofs` | theorems about the stores and the trace of `Runner` | section 5 |
| `NodeContract` | abstract node | emits only while running, returns once, runs again only to answer its interrupt |
| `ToolNode` | tool node | `work[k]` is the execution of call k, in the node's goroutine or the pool's; `outcomes` the channel; `ticker[k]` the progress goroutine |
| `ToolNodeProofs` | theorems about `ToolNode` | section 5 |
| `LLMStream`, `LLMNode` | stream assembly, LLM node | `wire` is what the vendor sent, `draft` what the adapter put together, `queue` the deltas not yet handed over |
| `LLMNodeProofs` | theorems about the events of `LLMNode` and what its deltas carry | section 5 |
| `Recording` | events of calls and node goroutines | `emitMu` per call, then `Record`; what the handler does is left to the modules that extend it |
| `Feed` | abstract subscriber | offered, queued, taken or lost, closed |
| `EventStream`, `EventHub` | handlers | the read-write lock as `readers` and `closer`; the hub's mutex as `mu`, the loop over subscriptions as `visiting` |
| `DeliveryProofs` | lemmas about `Recording`, theorems about the two handlers | section 5 |
| `Http` | requests | a recorder per request or one given in the options |
| `Compact`, `Encode`, `Estimate`, `Messages` | conversation to messages | the loops of `Compact` as actions, one per operation; `Encode` is pure operators per provider, `Estimate` the estimators' conversions as they run, message by message; `Messages` composes them |
| `ToolSchema`, `Requests` | messages and the schema of a tool | `ToolSchema` converts schemas, which nest, by recursive operators; `Requests` is `Messages` with the tools after the messages, as `convertRequest` does it |
| `MessagesProofs` | theorems about compaction, requests and estimates | section 5 |
| `PromptRegistry` | prompts | a commit is begin, open (which truncates), write (in pieces, as the system call may stop), and failure or end; `LoadDir` refuses two prompts of one identifier |
| `PromptProofs` | theorems about `PromptRegistry` | section 5 |
| `ListProofs` | lemmas about lists and loops that append to them | section 5 |
| `TokenFile` | token | `Stat`, `Create` (O_EXCL), `Write`, `Read` per process, and `Crash` |
| `*MC` | instances for TLC | values of the constants that are not plain sets |

`Runner` and the delivery modules are checked apart: `Recording` is what a run
looks like to its handlers, so that two calls with goroutines and two consumers
stay within reach. `Recording` assumes of its nodes what `NodeContract` says: that
they emit only between start and return. `Runner` does not assume it, and `ToolNode` is
shown to keep it. `LLMNode` works in one goroutine and has nothing that
could emit later.

## 3. Runs

| run | question | bounds, and why they are enough |
|---|---|---|
| `runner_one` | one call, every command and fault: outcome, trace, checkpoint and path agree; `StopsInTime` (step limit and cancellation), termination | five nodes give each kind of successor (fixed, route, finish, two fixed, none) and a name no node has; ten commands combine update, goto, interrupt, end; three steps contain a cycle; one event of a node's own at any time; two faults allow the failure of a failure's report |
| `runner_race` | two `Resume`s race for the interrupts of one run | two racers with different answers; one fault; symmetric answers |
| `runner_replay` | `Resume` and `ResumeFrom` of the same checkpoint beside the first call | one of each; one step per call keeps three calls feasible and still gives each a checkpoint |
| `tool_node` | sequential and pooled execution of three calls | three calls on a pool of two make one wait; two of them need approval and one, before them, does not; a node of refused calls; one fault, one tick, a cancel |
| `event_stream` | stream with two calls, two goroutines, two closers | four emitters at two places overflow |
| `event_hub` | two runs, two sockets, filters, breakage | one place overflows; two subscriptions show relative order |
| `http_given` | a recorder given in the options: a sequence identifies an event | three requests, two events each: an invoke and two resumes |
| `http_per_request` | the same without it: violated, see section 6 | as above |
| `llm_node` | all providers, four items in any order, one lost event, one resume | two tool calls of two pieces each interleave, also with text between; usage may be reported and reported as zero after |
| `messages` | seven conversations, plans of up to two operations and drops with two additions, four providers, two estimators, seven tool schemas, converted by two transcriptions for Gemini (the provider's and the estimator's copy) | operations interact in pairs (keep/drop, two mutations, identifier reuse, an addition placed against another); each schema has one of the forms that conversion treats apart, and a set of values tells their meanings apart |
| `prompt_registry` | two prompts with one default identifier, five drafts, three commits, two crashes | a commit that fails before or after the truncation, one that repairs it, another after a restart |
| `startup` | graph, application, server: accepted graphs run, applications are complete and stay, tokens agree | two nodes, six building calls (`MaxGraphCalls`) and one mistake give a route with a default that is kept and changed after validation; with the builder five calls (`MaxCalls`) and two applications (`MaxApps`), enough for two things of one name, or for a registry to be given, two builds with a change between, and a skill registered after them; a project or workflow without an identifier counts as one call; four processes on the token file, as one creates, one finds it empty, one finds it whole, one dies. Once the token file is in use the builder no longer matters, which the `VIEW` says |

Each property of a passing run has a mutant in `PROJECT.json`: a plausible bug in
a mapped definition, written beside it, which TLC must find by that property.

Properties stand at the end of their modules, with comments. Those that relate most:
`OutcomeMatchesTrace`, `TraceReplaysPath`, `OutcomeCheckpointed` (Runner);
`CauseReported`, `OutputComplete`, `ApprovalFirst` (ToolNode); `NothingMissed`,
`SameOrder` (delivery); `StreamFaithful` (LLMNode); `PlanHonoured`,
`RequestFaithful`, `StillAccepted`, `EstimateAgrees` (Messages); `SchemaFaithful`
(Requests); `DiskAgrees`;
`AcceptedGraphRuns`, `BuiltAppFrozen`, `BuildComplete` (Startup).
`PlanHonoured` and `StreamFaithful` compare loops with a statement of what they
compute that does not follow the loops, and `SchemaFaithful` compares the schema sent
with the tool's by the values each admits.

Restrictions that a property states: `DiskAgrees` leaves out metadata values with
a line of three dashes (the next load ends the header there) and compares up to
line ends (CRLF is normalised on load) and up to the order, which a file may give a
prompt and a commit does not write: memory keeps it, a restart does not; a file torn by a crash, whose draft died
with the process, may load under the default identifier or stop `LoadDir`, and an
operator has to repair it. `PlanHonoured` leaves out a position after the largest
index, which overflows and clamps to the start. `BuildComplete` lets a skill of the
caller's own registry say of its resources what it likes, as `Register` does. `RequestFaithful`
and the part of `EstimateAgrees` about tiktoken are about messages as the constructors
make them (`Constructed`: the content is the text of the input parts, and only an
assistant calls tools); for another, the content is not sent beside an image.
`SchemaKept` is about schemas that a Gemini schema can express (`Expressible`): a part of several types besides null, of
no type, with an enumeration of numbers, or with alternatives of which a value meets
two comes out narrower or wider. `BuiltAppFrozen` leaves the workflow out: the
application holds the caller's own graph, which can still be changed after `Validate`.
What `App.SkillRegistry` hands out is the application's registry itself, and a caller
who registers a skill there changes it; `BuiltAppFrozen` is about the registry the
caller gave. `BuildComplete` is about the things the builder has lists of; `Prompts`,
`SkillRegistry` and `Adjuster` keep one thing each, and a second one replaces it without
a word. `AcceptedGraphRuns` says nothing of dynamic edges: a goto may lead to any node,
shown or not. `ApprovalFirst` does not say that each call was approved: one answer is in
the context of the whole node, and the other calls that need approval run by it too,
though nobody was asked about them (`src/tool/registry.go:267`). `CauseReported` says
whose error is not reported, not which of two that came by themselves. `StreamFaithful`
sets apart the usage that Gemini takes back: a later chunk that reports zeros
overwrites it in the response, and the handler is not told (`src/llm/gemini/provider.go:110`);
and a piece of arguments that Anthropic sends while no tool call is the last block belongs
to no call, as the accumulator has it. `Result.Events`, which the run's own emitters
append to, is left out of `Runner`; the recorder's log stands for it.
`NodeReturns` and the contract say
nothing of a tool node that runs earlier tools again when a later one of a
sequential node was approved: node functions start over, by design.

### Fairness

Safety is checked without it. `Termination` assumes that every step of a call that
can be taken is taken: goroutines are scheduled and node functions return, as the
loop itself requires; no fairness is assumed of clients, cancellation or faults.
`NodeReturns` assumes the node's goroutine, the pool's and the exit of tickers are
scheduled and tools return; ticks and cancels are not fair. `RunNeverWaits` assumes it of the run's
goroutines and of a closer that waits for the lock, and nothing of consumers or
readers of the result: that is its point. `BrokenUnsubscribed` assumes scheduling of
emitters and socket handlers. All are weak fairness: no action here needs to win a
race again and again.

## 4. Abstract specifications

`ToolNode!KeepsContract`: the tool node implements `NodeContract`, with the events of
the attempt counted per source and the outcome as the code returns it. `GraphBuild`
instantiates `StateGraph` with the graph it has built: `AcceptedGraphRuns` says that
what `Validate` accepts meets the assumption the run loop is checked and proved under. `EventStream!IsStreamFeed` and `EventHub!IsFeed`: a stream, and each
subscription of the hub, implements `Feed` - the mapping takes the channel as the
queue and the drop count as the losses, so an event lost uncounted, out of order or
sent after close is no step of `Feed`.

## 5. Theorems

Each holds for every value of the constants under the assumptions that the modules
state of them, which TLC evaluates in the runs: a graph that passes `Validate`
(`GraphAssumption`); identifiers, filters and tools of the types the code gives them;
that `None` and `Empty` are no such value; finitely many calls and goroutines where
something is counted. Of data that comes from outside they say the least that the
types of the code give: a conversation and the entries of a directory are lists
(`CompactAssumption`, `DiskAssumption`), the former of messages with the fields of
`Message` (`MessagesAssumption`: texts are lists of strings, an absent name is empty), a skill directory that is asked for can be
looked up (`PathsAssumption`), and of what a vendor sends (`LLMAssumption`) that
indices are integers, that only the Responses API repeats a response at its end, and that a call from Gemini,
which comes whole, brings its name.
Bounds are arbitrary. Most of the invariants below are not inductive as the runs
check them; what is added to each is said with it.

### `RunnerProofs`: stores, trace

*Stores*: `TypeCorrect`, `CheckpointsAtCompletion`, `OneWinner`, `InterruptsLeadBack`,
`OutcomesCheckpointed`, `NodesRegistered`, from `Inv`. It adds what a
frame holds at each point of the code (`Shape`): between `node.completed` and the
save, the sequence remembered is that of this node's event (`Completed`); from the save
on, the checkpoint remembered holds the frame's run, node and state (`Saved`); an
announced interrupt points to that checkpoint (`Raised`); a resuming call holds the
answer its interrupt stored (`Answered`); and of the stores, that every interrupt leads
to a checkpoint of its run and node (`Linked`) and that no two calls hold one interrupt
(`SoleWinner`). The stores only grow, so what a frame remembers stays true while
others move: `QuietStep`, `MoveKeepsInv` and `RecordKeepsInv` say so once, and each
action's lemma is about its own frame.

*Trace*: `OutcomesMatchTrace`, `TracesReplay`, `CallsStopInTime`,
`ResponsesToFirstNode`, from `TraceInv`; with
`OneWinner` it gives `AnswersUsedOnce`. All speak of the events the loop records
itself, as those of a node may come at any time, also after the terminal event. The
events of a call lie among those of the other calls of its run, so `Traced` says of
positions in the log which events of its own a call has recorded by where its frame
stands: a call about to enter a node has as its last event the start or the edge that
leads there (`Arrives`), one about to take an edge the checkpoint (`Departs`); it has
no terminal event before it returns (`Ended`); `steps` counts the nodes it started
(`Counted`), none while the response is still there (`Given`). `OtherTraced` says once
that what others append changes nothing of this; the rest is one lemma per way a call
goes on, with (`Writes`) or without (`Silent`) an event.

### `ToolNodeProofs`: any number of calls, any pool

`TypeCorrect`, `EventsInOrder`, `ApprovedFirst`, `OutputsComplete`, `CausesReported`,
`PoolWithinWidth`, and `ContractKept`: the tool node implements `NodeContract`. The
invariant `IInv` ties three things together that do not hold one without the other:
what a call has emitted, by where its execution and its ticker are (`Logged`); why it
failed, by where it is and whether the first error is known (`Causes`, `Reported`; an
error that comes once the pool is stopped is marked `late`, and none such is first);
and where all calls can be at each stage of the node function (`Stages`): which
positions have their result while preparing, executing in sequence, waiting for the
pool and after the last answer (`Answered`, `Kept`). That nothing emits after the
return is the part of `Stages` that says no call is then anywhere but at its start or
end. `Ran` and `Interrupted` carry the one answer and what it was asked about over the attempts, `Pool` counts those
that hold a place.

### `DeliveryProofs`: delivery

`RInv` is what both handlers need of the runs: of one call's emitters one at a time is
between `Record` and the handler's return (`Mutex`, the emitter's mutex), what it
carries stands in the trace where its sequence says (`Carried`), and each emitter
recorded as often as it emitted (`Tallied`), so that the bound on sequences is never
met. Its parameter names where else the emitters of the module at hand may be.

For the stream, `NoneMissed` (by counting: recorded is received, queued, dropped or
still in the handler), `InCallOrder` and `StreamIsFeed` (refinement of `Feed`), with
`Locked` (a closed stream has no sender: the read-write lock), `Patience` (a closer
that waits for the results is late enough) and `Given` (what the consumer has of a
call was recorded before what the call hands on now). `StreamTypes` has that the
buffer never exceeds its capacity.

For the hub, `OneOrder`, `MatchesOffered` and `SubscriptionsAreFeeds` for every
subscription, with `MuHeld` (one publisher, and those it still has to visit are
subscribed), `Seats` (what is subscribed and closed by where the socket's handler is)
and `Once` (no event reaches a subscription twice, and the one being published is its
last). `HubTypesHold` likewise.

### `ListProofs`: lists

Loops that append to a list are written with `FlattenSeq` of the community modules, a
recursive function: `FlattenMore` and `FlattenJoined` say what one more element and
two lists one after the other contribute, `FlattenListed` what the concatenation has,
`FlattenOrigins` from where each element of it comes, `FlattenThinned` that empty
pieces may be left out, `EachFlattened` that a loop over what was gathered is a loop of
loops, and `ListedOnce` when counting tells that nothing is listed twice. They rest on
`NatSetInduction`: a set of numbers with 0 and the successor of each of its members has them
all, as the least number it lacked would be the successor of a member. That is a
fact about sets, not about an operator, and so can be cited. `InsertAtIs` and
`MovedIs` are about inserting into a list.

### `LLMNodeProofs`

`ProtocolKept`: each event type has a rank, `Reach` bounds the ranks emitted by a point
of the code, and `Owes` says what must have been emitted there: the reply before a
command, and for a started LLM call that was left open a lost event or a provider that
cannot stream. What deltas carry is left open, so that the theorem holds for any wire.

`StreamsFaithful`: for any number of items of any number of calls, interleaved as the
vendor likes. `StreamInv` has three parts. `Read` ties the draft to the wire: every call on the wire has
its place in the draft and the other way round (`Begun`), a call in the draft has the
last identifier and name and all the arguments that its owner brought, in order
(`Summed`). `Streamed` ties what has been handed over to the
draft while the stream is open: the text as it was read, the usage last reported (and
not taken back) by
the providers that report it as they go, no call yet. After that, what was handed
over or is still to come (`Coming`) is such a body and the closing deltas of
this draft, so that nothing is said twice or left out. Owners are numbers
the vendor chose; the adapters sort them, and that `Ascending` lists each of a finite
set once and in order is proved too.

### `PromptProofs`: prompts

`DiskAlwaysAgrees`, `CommitsKeepViews`, `RegistryTypes`. The strengthening is about the
commit that holds the mutex (`Writing`): its draft is still there, and the file it has
opened holds, however far it got, the segment that draft makes of the record; that
drafts die with the process (`Undrafted`); and that no two prompts in memory have one
identifier (`Distinct`), so that their files, which keep it, can be loaded together.
`LoadedType` says that loading what was loaded changes nothing.

### `MessagesProofs`: compaction, requests, estimates

`PlansHonoured`: for any list of messages and any plan. `PlanHonoured` speaks of the end of
both loops; `CompactionInv` of every step of them. `Sorted` says of the operations examined so far what was
put aside of them: at most one mutation for a message, the additions in the
order of the plan. `Built` says the same of the segments as `PlanHonoured` does, up
to the additions made so far. One more addition then has to be placed where it
asked (`NewPlaced`) and must not move an earlier one from where that asked
(`OldPlaced`): a place is counted among the segments that were there before
it, so later additions do not count, and one between it and its neighbour is allowed
only for a later one.

The other three are about `Messages`, whose steps are those of `Requests` on the same
variables, and rest on `MessagesInv`: what compaction returned are the segments'
messages, and a request is what the provider makes of them. That is all the state
there is; the rest is about what lists are made of, and holds for lists of any length
although each message is converted by what came before it.

`AcceptedStill`: `Origin` gives for each message that is left where it stood, and 0
for a new one. Origins rise (`OriginsRise`), and under a plan that spares tools every
message that calls or answers has one (`ToolsSpared`). So the calls before a message that is
left are the same as before (`CallsSpared`, by `FlattenThinned`), it has the same tool
name, and it is refused only if it would have been (`RefusalKept`).

`RequestsFaithful`: `EncodedSays` has for each provider and role that the parts a
message is encoded as say what the message means, `FlatFlattened` and `AllPartsFlattened`
that this carries over to the whole (`ConversationSaid`). That a message is sent whole when all that is
left of its input is empty, so that its content stands in, needs that the content is the
text of the input (`InputSaid`). `NameIs` finds the call, or the given name, that a
result of Gemini has its name from.

`EstimatesAgree`: the estimators read message by message, with what they have so far; a
provider's request is stated message by message, each by the calls before it. `ReadSoFar` relates the two
after any number of messages: refused when one of these is, else what these are converted to, and
for Gemini the names of all calls so far. One more message keeps it
(`AnthropicReadsNext`, `GeminiReadsNext`), which gives `CountedIsSent`. For tiktoken,
`TimesGathered` says that what stands no more often in any pieces stands no more often in
the whole, and `MessageTimes` compares what one message means with the texts
counted of it. The attempt to prove `GeminiReadsNext` showed that the arms of a CASE in `Estimate` overlapped
(a system message that is refused was in two of them), where TLC takes the first and the
meaning of the expression is open; the refusals now come first, as the early returns
of the code do.

### `ServerProofs`: servers, building, requests

`TokensAgree` and `TokenKept`, for any number of servers: whoever is about to write the
token created the file, is alone and finds it empty (`SoleWriter`). For any
identifiers and any number of building calls and applications, `AppFrozen` (applications
and registries are only added, and the skills of each are in a registry other than the
caller's, `AppOwns`);
`AcceptedMeetsAssumption` (with the types of the graph under construction,
`GraphTyped`: every graph that `Validate` accepts is one that `RunnerProofs` is
about) and, with it, `AcceptedRuns`: what a snapshot shows of an accepted graph are the
nodes, fixed edges and routes the run loop reads, in its order. The builder keeps fixed
edges twice and a snapshot gathers the edges of a node from three lists, and
`GraphListed` says that these agree at every call. `CompleteBuilds`: a build that
succeeds has everything that was given, whatever the disk holds. It needs only the types of what the
builder took (`BuilderTyped`), as one `Build` does it all; its proof follows the loading of
a directory to the resources of the skill. `StartsServers` (`StartupSpec` implements the
`Spec` of `TokenFile`) gives `ServersAgree` from `TokensAgree`. All assume that `Empty` is no
name and that edges are asked for between names or `Empty`.

`SequencesIdentify` assumes that the recorder is given in the options, and holds for
any number of requests and runs: what is published or waits for the hub has been
counted by the recorder (`Handing`), and no two of these of one run are equal
(`HandedOnce`). Without the assumption it fails, see section 6.

### Only model-checked

* Liveness, which the proof system does not reach (nor `ENABLED`): `Termination`,
  `NodeReturns`, `RunNeverWaits`, `BrokenUnsubscribed`.
* `SchemaFaithful`. Schemas nest, so `ToolSchema` is recursive, and no theorem can be
  stated in a module that uses it. That is why `Requests` composes it with `Messages`
  rather than `Messages` itself.

## 6. Finding

`http_per_request`: the comment at `src/trace/memory.go:52` says events of a run are
identified by run ID and sequence. `ResumeJSON` (`src/api/executable.go:94`) makes a new
`Runner`, which without `WithRecorder` has a recorder of its own, so a resumed run is
published with sequences that start at 1 again.

## 7. Not modelled

The read-only HTTP handlers and accessors (no state); model lists, default models and
credentials (maps filled once); the vendors' clients, tokenizer and token arithmetic
(external computation); front matter and UI metadata of skills beyond whether they
parse; payload and JSON encoding beyond what changes control; `cmd/lqcover` (a
development tool). Wording, logging and timestamps are left out everywhere. `ids.New`
is taken not to collide.

Modelled, but promised by nothing that a property could quote: a skill directory that
is reached through a symbolic link refuses its own regular files, because
`loadResources` (`src/tool/skill/resource.go:54`) compares their unresolved paths with
the resolved root, and so does a link to a place below a directory named with two
leading dots.

## 8. Plan

Built, in this order: `StateGraph` and `Runner` with proofs; `ToolNode` against
`NodeContract`; `Recording`, `Feed`, `EventStream`, `EventHub`; `Http`; `LLMStream`,
`LLMNode`; `PromptRegistry`; `TokenFile` with proofs; `Compact`, `Encode`, `Messages`;
`GraphBuild`, `Skills`, `AppBuild`, `Startup`; `ToolSchema`, `Estimate`; `Requests`.

Proved since: the trace of `Runner`, `ToolNode` with its contract, both
handlers with their refinement of `Feed`, the events and streams of `LLMNode`,
`PromptRegistry`, `Http`, building and `Startup`, `Compact`, `Messages`.

Left: of the safety properties only `SchemaFaithful` is without a theorem (section 5). The
refusals of `Skills` that nothing promises otherwise (section 7) would need a statement
of what a skill directory should be.
