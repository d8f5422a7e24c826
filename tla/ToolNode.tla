------------------------------ MODULE ToolNode ------------------------------
(***************************************************************************)
(* The tool node (src/tool/registry.go, progress.go): the calls of a model *)
(* are checked against the registry and the permissions, then executed one *)
(* after the other or by a pool of goroutines, each with a ticker that     *)
(* emits progress events until the tool has returned.                      *)
(*                                                                         *)
(* A call is its position in the list the node reads from the state.  The  *)
(* pool's semaphore is the set of goroutines that hold it, the context of  *)
(* the pool is cancelled when its caller's is or when a call failed.       *)
(***************************************************************************)
EXTENDS Integers, Sequences, FiniteSets, SequencesExt

CONSTANTS
  NCalls,       \* the calls the node reads: 1 .. NCalls
  Plans,        \* what prepareCall finds of them: functions from calls to Kind
  Specs,        \* the NodeSpecs of the node
  MaxTicks,     \* bound: progress events
  MaxFaults,    \* bound: events that cannot be recorded, adjusters that fail
  Cancellable,  \* bound: whether the caller may cancel
  None

Calls == 1 .. NCalls

(* What the node finds of a call: a plain tool, one that needs approval, a *)
(* permission check that fails, an unknown tool, one the node may not use. *)
Kind == {"plain", "approval", "permission", "unknown", "disallowed"}

(* Why a call failed, and what it leaves: its result or its error.         *)
Error == {"disallowed", "unknown", "permission", "denied", "event", "tool", "adjuster", "cancelled"}
ResultType == [call : Calls, why : Error \cup {None}]

(* A hitl response (one that provides a value lets run what an approval    *)
(* does).  The code's carries no call: about, the call whose interrupt it  *)
(* answers, is an auxiliary field that no action reads.                    *)
Decision == {"approved", "rejected"}
Response == [decision : Decision, about : Calls]

(* MaxConcurrency > 1 selects the pool; handler: spec.Error is set.        *)
NodeSpec == [width : Nat, continueOnError : BOOLEAN, handler : BOOLEAN]

ASSUME ToolAssumption ==
  /\ NCalls \in Nat /\ MaxTicks \in Nat /\ MaxFaults \in Nat
  /\ Cancellable \in BOOLEAN
  /\ Specs \subseteq NodeSpec
  /\ Plans \subseteq [Calls -> Kind]
  /\ None \notin Error
  /\ None \notin ResultType
  /\ None \notin Response

VARIABLES
  spec,      \* the node's spec
  kind,      \* the plan of its calls
  response,  \* the hitl response in the context, None when there is none
  node,      \* the node function: pc, next call, first error, outcome
  work,      \* work[k]: where the execution of call k is, its error, and
             \*   whether that came after another one had stopped the pool
  ticker,    \* ticker[k]: the goroutine that reports its progress
  emitted,   \* emitted[k]: the events of call k
  outcomes,  \* the channel the pool's goroutines answer on
  results,   \* results[k]: the result at position k, None when not filled
  ran,       \* ran[k]: how often tool k was executed, over all attempts
  context,   \* cancelled by the caller, stopped by a failed call
  bounds     \* ticks and faults so far

vars == <<spec, kind, response, node, work, ticker, emitted, outcomes, results, ran, context, bounds>>

Parallel == spec.width > 1
Idle == [at |-> "new", why |-> None, late |-> FALSE]

Each(x) == [k \in Calls |-> x]
NewNode == [pc |-> "prepare", next |-> 1, first |-> None, outcome |-> None]
NewContext == [cancelled |-> FALSE, stopped |-> FALSE]

Init ==
  /\ spec \in Specs
  /\ kind \in Plans
  /\ response = None
  /\ node = NewNode
  /\ work = Each(Idle)
  /\ ticker = Each("off")
  /\ emitted = Each(<<>>)
  /\ outcomes = <<>>
  /\ results = Each(None)
  /\ ran = Each(0)
  /\ context = NewContext
  /\ bounds = [ticks |-> 0, faults |-> 0]

Fault == bounds.faults < MaxFaults /\ bounds' = [bounds EXCEPT !.faults = @ + 1]

Return(outcome) == node' = [node EXCEPT !.pc = "returned", !.outcome = outcome]
Ended(what) == [kind |-> what, call |-> None, why |-> None, results |-> <<>>]
Failed(what, k, why) == [kind |-> what, call |-> k, why |-> why, results |-> <<>>]

ResultOf(k, why) == [call |-> k, why |-> why]

-----------------------------------------------------------------------------
(* requireAllowedTool and prepareCall: the call is refused, needs an       *)
(* approval and no response is in the context, or may run.  The response   *)
(* is the context's: one stands for every call that needs approval.        *)
Presence == FALSE  \* mutant of Rejected: that there is a response is enough
Rejected == response # None /\ response.decision = "rejected"

Refusal(k) ==
  CASE kind[k] \in {"disallowed", "unknown", "permission"} -> kind[k]
    [] kind[k] = "approval" /\ Rejected -> "denied"
    [] OTHER -> None

Asks(k) == kind[k] = "approval" /\ response = None
Interrupt(k) == Return([Ended("interrupt") EXCEPT !.call = k])

(* A call that failed before or in its execution: the error handler of the *)
(* spec decides, else ContinueOnError does.                                *)
HandleToolError(k, why) ==
  Return(Failed(IF spec.handler THEN "handler" ELSE "error", k, why))

Skip(k, why) ==
  /\ results' = [results EXCEPT ![k] = ResultOf(k, why)]
  /\ node' = [node EXCEPT !.pc = "prepare", !.next = k + 1]

(* prepareParallelCalls: every call is prepared before any is executed.    *)
Eager == "spawned"  \* mutant of Held: a call is executed once it is prepared
Held == "prepared"

PrepareParallel(k) ==
  \/ /\ Asks(k)
     /\ Interrupt(k)
     /\ UNCHANGED <<work, results>>
  \/ /\ Refusal(k) # None
     /\ IF spec.continueOnError THEN Skip(k, Refusal(k))
                                ELSE HandleToolError(k, Refusal(k)) /\ UNCHANGED results
     /\ UNCHANGED work
  \/ /\ ~Asks(k) /\ Refusal(k) = None
     /\ work' = [work EXCEPT ![k].at = Held]
     /\ node' = [node EXCEPT !.next = k + 1]
     /\ UNCHANGED results

(* The loop of the sequential mode prepares the next call and executes it  *)
(* before it looks at the one after.  A disallowed tool ends the node.     *)
PrepareNext(k) ==
  \/ /\ Asks(k)
     /\ Interrupt(k)
     /\ UNCHANGED <<work, results>>
  \/ /\ Refusal(k) = "disallowed"
     /\ Return(Failed("error", k, "disallowed"))
     /\ UNCHANGED <<work, results>>
  \/ /\ Refusal(k) \notin {None, "disallowed"}
     /\ IF spec.continueOnError /\ ~spec.handler
        THEN Skip(k, Refusal(k))
        ELSE HandleToolError(k, Refusal(k)) /\ UNCHANGED results
     /\ UNCHANGED work
  \/ /\ ~Asks(k) /\ Refusal(k) = None
     /\ work' = [work EXCEPT ![k].at = "start"]
     /\ node' = [node EXCEPT !.pc = "execute"]
     /\ UNCHANGED results

Prepare ==
  /\ node.pc = "prepare"
  /\ node.next <= NCalls
  /\ IF Parallel THEN PrepareParallel(node.next) ELSE PrepareNext(node.next)
  /\ UNCHANGED <<spec, kind, response, ticker, emitted, outcomes, ran, context, bounds>>

(* compactResults, then Output: the j-th result of the output is the j-th  *)
(* that was filled.                                                        *)
Filled == {k \in Calls : results[k] # None}
Rank(k) == Cardinality({i \in Filled : i <= k})
Compact == [j \in 1 .. Cardinality(Filled) |-> results[CHOOSE k \in Filled : Rank(k) = j]]
Deliver == Return([Ended("output") EXCEPT !.results = Compact])

Prepared == {k \in Calls : work[k].at # "new"}

(* After the last call: Output, or a goroutine for each prepared call.     *)
Prepare_Done ==
  /\ node.pc = "prepare"
  /\ node.next > NCalls
  /\ IF Parallel /\ Prepared # {}
     THEN /\ work' = [k \in Calls |-> IF k \in Prepared THEN [work[k] EXCEPT !.at = "spawned"]
                                                        ELSE work[k]]
          /\ node' = [node EXCEPT !.pc = "wait"]
     ELSE Deliver /\ UNCHANGED work
  /\ UNCHANGED <<spec, kind, response, ticker, emitted, outcomes, results, ran, context, bounds>>

-----------------------------------------------------------------------------
(* executePreparedCall.                                                    *)
Done == context.cancelled \/ context.stopped

Goto(k, at) == work' = [work EXCEPT ![k].at = at]
Ends(k, at, why) ==
  work' = [work EXCEPT ![k] = [at |-> at, why |-> why, late |-> why # None /\ context.stopped]]
Result(k, why) == Ends(k, "result", why)
Say(k, type) == emitted' = [emitted EXCEPT ![k] = Append(@, type)]

(* tool.started; a call whose event cannot be recorded is not executed.    *)
Start(k) ==
  /\ work[k].at = "start"
  /\ \/ /\ Say(k, "started")
        /\ Goto(k, "executing")
        /\ ticker' = [ticker EXCEPT ![k] = "running"]
        /\ ran' = [ran EXCEPT ![k] = @ + 1]
        /\ UNCHANGED bounds
     \/ /\ Fault
        /\ Say(k, "started") \/ UNCHANGED emitted
        /\ Result(k, "event")
        /\ UNCHANGED <<ticker, ran>>
  /\ UNCHANGED <<spec, kind, response, node, outcomes, results, context>>

(* The ticker may still win a tick after it was told to stop.              *)
Tick(k) ==
  /\ ticker[k] \in {"running", "stopping"}
  /\ bounds.ticks < MaxTicks
  /\ bounds' = [bounds EXCEPT !.ticks = @ + 1]
  /\ Say(k, "progress")
  /\ UNCHANGED <<spec, kind, response, node, work, ticker, outcomes, results, ran, context>>

TickerExit(k) ==
  /\ ticker[k] = "stopping" \/ (ticker[k] = "running" /\ Done)
  /\ ticker' = [ticker EXCEPT ![k] = "stopped"]
  /\ UNCHANGED <<spec, kind, response, node, work, emitted, outcomes, results, ran, context, bounds>>

(* The tool returns, and stopProgress closes the channel the ticker reads. *)
(* A tool may answer a cancelled context with the context's own error.     *)
Returned == {None, "tool"} \cup (IF Done THEN {"cancelled"} ELSE {})

Execute(k, why) ==
  /\ work[k].at = "executing"
  /\ Ends(k, "stopping", why)
  /\ ticker' = [ticker EXCEPT ![k] = IF @ = "running" THEN "stopping" ELSE @]
  /\ UNCHANGED <<spec, kind, response, node, emitted, outcomes, results, ran, context, bounds>>

Signalled(k) ==  \* mutant of TickerStopped: the ticker is told, not awaited
  ticker[k] \in {"stopping", "stopped"}
TickerStopped(k) == ticker[k] = "stopped"

(* tool.failed, whose recording error is ignored; or the adjuster, then    *)
(* tool.completed.                                                         *)
Settle(k) ==
  /\ work[k].at = "stopping"
  /\ TickerStopped(k)
  /\ \/ /\ work[k].why # None
        /\ Goto(k, "result")
        /\ \/ Say(k, "failed") /\ UNCHANGED bounds
           \/ Fault /\ (Say(k, "failed") \/ UNCHANGED emitted)
     \/ /\ work[k].why = None
        /\ \/ Goto(k, "result") /\ Say(k, "completed") /\ UNCHANGED bounds
           \/ Fault /\ Result(k, "event") /\ (Say(k, "completed") \/ UNCHANGED emitted)
           \/ Fault /\ Result(k, "adjuster") /\ UNCHANGED emitted
  /\ UNCHANGED <<spec, kind, response, node, ticker, outcomes, results, ran, context>>

(* The sequential loop takes the result of the call it executed.           *)
Collect ==
  /\ node.pc = "execute"
  /\ LET k == node.next
     IN /\ work[k].at = "result"
        /\ IF work[k].why = None \/ (spec.continueOnError /\ ~spec.handler)
           THEN Skip(k, work[k].why)
           ELSE HandleToolError(k, work[k].why) /\ UNCHANGED results
        /\ Goto(k, "done")
  /\ UNCHANGED <<spec, kind, response, ticker, emitted, outcomes, ran, context, bounds>>

-----------------------------------------------------------------------------
(* executePreparedCallsParallel.  A goroutine holds a place of the         *)
(* semaphore from the select to its return.                                *)
HoldsWhileRunning == {"acquired", "start", "executing"}  \* mutant of Holding
Holding == {"acquired", "start", "executing", "stopping", "result", "sending"}
Holders == {k \in Calls : work[k].at \in Holding}

Acquire(k) ==
  /\ work[k].at = "spawned"
  /\ Cardinality(Holders) < spec.width
  /\ Goto(k, "acquired")
  /\ UNCHANGED <<spec, kind, response, node, ticker, emitted, outcomes, results, ran, context, bounds>>

(* The other branch of the select: the place is never taken.               *)
GiveUp(k) ==
  /\ work[k].at = "spawned"
  /\ Done
  /\ Ends(k, "gaveup", "cancelled")
  /\ UNCHANGED <<spec, kind, response, node, ticker, emitted, outcomes, results, ran, context, bounds>>

(* A place won after the cancellation is not used.                         *)
Check(k) ==
  /\ work[k].at = "acquired"
  /\ IF Done THEN Result(k, "cancelled") ELSE Goto(k, "start")
  /\ UNCHANGED <<spec, kind, response, node, ticker, emitted, outcomes, results, ran, context, bounds>>

(* setFirstError, under its mutex: the first error is kept, and unless the *)
(* node continues on errors it cancels the others.                         *)
FirstOf(k) == [call |-> k, why |-> work[k].why]
KeepLast(k) == IF work[k].why # None THEN FirstOf(k) ELSE node.first  \* mutant of KeepFirst
KeepFirst(k) == IF node.first = None /\ work[k].why # None THEN FirstOf(k) ELSE node.first

Report(k) ==
  /\ Parallel
  /\ work[k].at \in {"result", "gaveup"}
  /\ node' = [node EXCEPT !.first = KeepFirst(k)]
  /\ context' = [context EXCEPT !.stopped = @ \/ (work[k].why # None /\ ~spec.continueOnError)]
  /\ Goto(k, IF work[k].at = "gaveup" THEN "answering" ELSE "sending")
  /\ UNCHANGED <<spec, kind, response, ticker, emitted, outcomes, results, ran, bounds>>

(* The outcomes are read after all goroutines have ended, so the channel   *)
(* must hold one for each.                                                 *)
RoomPerPlace == spec.width  \* mutant of Room: a channel as wide as the pool
Room == Cardinality(Prepared)

Send(k) ==
  /\ work[k].at \in {"sending", "answering"}
  /\ Len(outcomes) < Room
  /\ outcomes' = Append(outcomes, ResultOf(k, work[k].why))
  /\ Goto(k, "done")
  /\ UNCHANGED <<spec, kind, response, node, ticker, emitted, results, ran, context, bounds>>

(* wg.Wait, then the outcomes are put at the positions of their calls.     *)
JoinedOnError ==  \* mutant of Joined: the first error returns at once
  node.first # None \/ \A k \in Prepared : work[k].at = "done"
Joined == \A k \in Prepared : work[k].at = "done"

ArrivalSlot(j) == j  \* mutant of Slot: results in the order they arrive
Slot(j) == outcomes[j].call

Drain ==
  /\ node.pc = "wait"
  /\ Joined
  /\ LET kept == {j \in DOMAIN outcomes : outcomes[j].why = None \/ spec.continueOnError}
     IN results' = [k \in Calls |->
          IF \E j \in kept : Slot(j) = k
          THEN outcomes[CHOOSE j \in kept : Slot(j) = k]
          ELSE results[k]]
  /\ node' = [node EXCEPT !.pc = "drained"]
  /\ UNCHANGED <<spec, kind, response, work, ticker, emitted, outcomes, ran, context, bounds>>

Finish ==
  /\ node.pc = "drained"
  /\ IF ~spec.continueOnError /\ node.first # None
     THEN HandleToolError(node.first.call, node.first.why)
     ELSE Deliver
  /\ UNCHANGED <<spec, kind, response, work, ticker, emitted, outcomes, results, ran, context, bounds>>

-----------------------------------------------------------------------------
(* The caller's context is cancelled.                                      *)
Cancel ==
  /\ Cancellable
  /\ node.pc # "returned"
  /\ ~context.cancelled
  /\ context' = [context EXCEPT !.cancelled = TRUE]
  /\ UNCHANGED <<spec, kind, response, node, work, ticker, emitted, outcomes, results, ran, bounds>>

(* The run is resumed: the node reads the same calls from the same state,  *)
(* with the response in its context.                                       *)
Resume(decision) ==
  /\ node.pc = "returned"
  /\ node.outcome.kind = "interrupt"
  /\ response' = [decision |-> decision, about |-> node.outcome.call]
  /\ node' = NewNode
  /\ work' = Each(Idle)
  /\ ticker' = Each("off")
  /\ emitted' = Each(<<>>)
  /\ outcomes' = <<>>
  /\ results' = Each(None)
  /\ context' = NewContext
  /\ UNCHANGED <<spec, kind, ran, bounds>>

Stop == node.pc = "returned" /\ node.outcome.kind # "interrupt" /\ UNCHANGED vars

Node == Prepare \/ Prepare_Done \/ Collect \/ Drain \/ Finish
Goroutine(k) ==
  \/ Start(k) \/ (\E why \in Returned : Execute(k, why)) \/ Settle(k)
  \/ Acquire(k) \/ GiveUp(k) \/ Check(k) \/ Report(k) \/ Send(k)

Next ==
  \/ Node
  \/ \E k \in Calls : Goroutine(k) \/ Tick(k) \/ TickerExit(k)
  \/ \E decision \in Decision : Resume(decision)
  \/ Cancel \/ Stop

(* Goroutines are scheduled and tools return.                              *)
Spec ==
  /\ Init /\ [][Next]_vars
  /\ WF_vars(Node)
  /\ \A k \in Calls : WF_vars(Goroutine(k)) /\ WF_vars(TickerExit(k))

-----------------------------------------------------------------------------
(* Properties                                                              *)

OutcomeType ==
  [kind : {"output", "interrupt", "error", "handler"}, call : Calls \cup {None},
   why : Error \cup {None}, results : Seq(ResultType)]

NodeType ==
  [pc : {"prepare", "execute", "wait", "drained", "returned"}, next : 1 .. NCalls + 1,
   first : [call : Calls, why : Error] \cup {None}, outcome : OutcomeType \cup {None}]
WorkType ==
  [at : {"new", "prepared", "spawned", "gaveup", "answering", "done"} \cup Holding,
   why : Error \cup {None}, late : BOOLEAN]
EventType == {"started", "progress", "completed", "failed"}

(* Every variable has its type.                                            *)
TypeOK ==
  /\ spec \in Specs /\ kind \in Plans
  /\ response \in Response \cup {None}
  /\ node \in NodeType
  /\ work \in [Calls -> WorkType]
  /\ ticker \in [Calls -> {"off", "running", "stopping", "stopped"}]
  /\ emitted \in [Calls -> Seq(EventType)]
  /\ outcomes \in Seq(ResultType)
  /\ results \in [Calls -> ResultType \cup {None}]
  /\ ran \in [Calls -> Nat]
  /\ context \in [cancelled : BOOLEAN, stopped : BOOLEAN]
  /\ bounds \in [ticks : 0 .. MaxTicks, faults : 0 .. MaxFaults]

Settled == {"completed", "failed"}

(* The events of a call are tool.started, then progress, then at most one  *)
(* of tool.completed and tool.failed, after which its ticker is silent.    *)
EventOrder ==
  \A k \in Calls : \A i \in DOMAIN emitted[k] :
    /\ emitted[k][i] = "started" <=> i = 1
    /\ emitted[k][i] \in Settled => i = Len(emitted[k])

(* No tool that needs approval runs before a human was asked about the     *)
(* first call of the list that needs one and did not reject it; that one   *)
(* answer is all there is, also for the calls nobody was asked about.  In  *)
(* parallel mode no tool runs in an attempt that ends in the question,     *)
(* whatever stands before it in the list, so that none runs twice over     *)
(* the interrupt and the resume.                                           *)
ApprovalFirst ==
  /\ \A k \in Calls : ran[k] > 0 /\ kind[k] = "approval" =>
       /\ response # None /\ ~Rejected
       /\ kind[response.about] = "approval"
       /\ \A i \in Calls : kind[i] = "approval" => response.about <= i
  /\ Parallel => \A k \in Calls : ran[k] <= 1
  /\ Parallel /\ node.pc = "returned" /\ node.outcome.kind = "interrupt" =>
       \A k \in Calls : ran[k] = 0

(* Output gets one result per call, in the order of the calls whatever the *)
(* order they ended in; unless the node continues on errors every one is a *)
(* success, and a success is a call whose tool.completed was recorded.     *)
OutputComplete ==
  node.pc = "returned" /\ node.outcome.kind = "output" =>
    LET out == node.outcome.results
    IN /\ Len(out) = NCalls
       /\ \A k \in Calls :
            /\ out[k].call = k
            /\ out[k].why # None => spec.continueOnError
            /\ out[k].why = None => emitted[k] # <<>> /\ Last(emitted[k]) = "completed"

(* The error a node returns is the error of its call, and one that came    *)
(* before any had stopped the pool: never what a worker or a tool returned *)
(* because a failed sibling cancelled its context, even when it is         *)
(* reported first in the list or last in time.  A cancellation is reported *)
(* only when the caller cancelled.                                         *)
CauseReported ==
  node.pc = "returned" /\ node.outcome.kind \in {"error", "handler"} =>
    LET o == node.outcome
    IN /\ ~work[o.call].late
       /\ o.why = "cancelled" => context.cancelled
       /\ o.why = (IF work[o.call].why # None THEN work[o.call].why ELSE Refusal(o.call))

(* At most MaxConcurrency tools are between tool.started and their last    *)
(* event, one in sequential mode.                                          *)
WithinWidth ==
  Cardinality({k \in Calls : work[k].at \in {"start", "executing", "stopping"}})
    <= IF Parallel THEN spec.width ELSE 1

(* What the order of delivery relies on: no goroutine of the node, pool or *)
(* ticker, emits an event after the node function has returned.            *)
Contract ==
  INSTANCE NodeContract WITH
    Sources <- Calls,
    Outcomes <- {"output", "interrupt", "error", "handler"},
    running <- node.pc # "returned",
    emitted <- [k \in Calls |-> Len(emitted[k])],
    outcome <- IF node.pc = "returned" THEN node.outcome.kind ELSE "none"
KeepsContract == Contract!Spec

(* The node function returns: no goroutine of the pool waits for ever for  *)
(* a place, for room in the channel or for its ticker.                     *)
NodeReturns == node.pc # "returned" ~> node.pc = "returned"
=============================================================================
