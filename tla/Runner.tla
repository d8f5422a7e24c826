------------------------------- MODULE Runner -------------------------------
(***************************************************************************)
(* runtime.Runner: the run loop, and what its calls share.                 *)
(*                                                                         *)
(* A call is one goroutine inside Invoke, Resume or ResumeFrom of one      *)
(* Runner; frame[c] is its stack frame.  Calls share the trace recorder,   *)
(* the checkpoint store and the interrupt store, each behind a mutex, so   *)
(* every access to a store is one step and calls interleave between those  *)
(* steps.  Identifiers made by ids.New are positions in the stores, and    *)
(* the Sequence of an event is its position in the events of its run.      *)
(***************************************************************************)
EXTENDS StateGraph

CONSTANTS
  Invokers,      \* calls that start a run
  Resumers,      \* calls that answer an interrupt by its ID (Resume)
  Replayers,     \* calls that pass a request of their own (ResumeFrom)
  RunIDs,        \* run identifiers (WithRunID may repeat one)
  Answers,       \* hitl responses
  MaxSteps,      \* the runner's step limit, 0 = none
  EventContext,  \* event context option: states are marshalled for events
  StartAt,       \* bound: the nodes a caller of Invoke names
  Inputs,        \* bound: the initial states a caller of Invoke gives
  NodeErrors,    \* bound: how node errors are, TRUE = wraps a cancellation
  Cancellable,   \* bound: the calls whose caller may cancel
  MaxFaults,     \* bound: failures of recorder, handler, stores, serializer
  MaxEmits       \* bound: events one call's nodes emit

Calls == Invokers \cup Resumers \cup Replayers

ASSUME RunnerAssumption ==
  /\ MaxSteps \in Nat
  /\ MaxFaults \in Nat
  /\ MaxEmits \in Nat
  /\ EventContext \in BOOLEAN
  /\ NodeErrors \subseteq BOOLEAN
  /\ StartAt \subseteq NodeIDs
  /\ Inputs \subseteq Values
  /\ None \notin Answers
  /\ None \notin RunIDs

VARIABLES
  frame,        \* frame[c]: the local variables of call c
  events,       \* trace.MemoryRecorder: events[run]
  checkpoints,  \* checkpoint.MemoryStore: a checkpoint's ID is its position
  interrupts,   \* memoryInterruptStore: an interrupt's ID is its position
  cancelled,    \* the calls whose context is cancelled
  faults        \* failures injected so far

vars == <<frame, events, checkpoints, interrupts, cancelled, faults>>
stores == <<checkpoints, interrupts>>

Terminal == {"completed", "failed", "cancelled", "interrupted"}
Status == {"queued", "running"} \cup Terminal
(* A terminal event is named after the status it announces.                *)
EventType ==
  {"run.started", "run.resumed", "node.started", "node.event", "node.completed",
   "node.failed", "checkpoint.saved", "edge.selected", "interrupt.created"} \cup Terminal

PC == {"idle", "load", "begin", "loop", "enter", "node", "failing", "complete", "save",
       "saved", "register", "announce", "route", "edge", "terminal", "returned", "rejected"}

Idle ==
  [pc |-> "idle", via |-> "none", source |-> 0, run |-> None, node |-> None, state |-> None,
   steps |-> 0, cmd |-> None, response |-> None, given |-> None, completed |-> 0,
   saved |-> 0, raised |-> 0, target |-> None, status |-> "queued", failed |-> FALSE,
   hit |-> FALSE, emitter |-> FALSE, emits |-> 0, late |-> 0]

Init ==
  /\ frame = [c \in Calls |-> Idle]
  /\ events = [r \in RunIDs |-> <<>>]
  /\ checkpoints = <<>>
  /\ interrupts = <<>>
  /\ cancelled = {}
  /\ faults = 0

-----------------------------------------------------------------------------
(* One Runner.record: the recorder appends the event, then the handler     *)
(* sees it.  Either may fail; when the handler fails the event stays       *)
(* recorded.  The caller goes on with ok, or with bad after a failure.     *)
Recorded(c, type, arg) ==
  [events EXCEPT ![frame[c].run] =
     Append(@, [type |-> type, node |-> frame[c].node, arg |-> arg, call |-> c])]

Fault == faults < MaxFaults /\ faults' = faults + 1

Record(c, type, arg, ok, bad) ==
  \/ /\ events' = Recorded(c, type, arg)
     /\ frame' = [frame EXCEPT ![c] = ok]
     /\ UNCHANGED faults
  \/ /\ Fault
     /\ events' \in {events, Recorded(c, type, arg)}
     /\ frame' = [frame EXCEPT ![c] = [bad EXCEPT !.hit = TRUE]]

(* return r.result(run, ...), err: the run is still "running".             *)
Abandon(c) == [frame[c] EXCEPT !.pc = "returned", !.failed = TRUE]

(* Marshalling the state for the event context fails: same return.         *)
SnapshotFails(c) ==
  /\ EventContext
  /\ Fault
  /\ frame' = [frame EXCEPT ![c] = [Abandon(c) EXCEPT !.hit = TRUE]]
  /\ UNCHANGED <<events, stores, cancelled>>

(* Enter complete, fail, cancel or interrupt with the status they set.     *)
End(c, status) ==
  [frame[c] EXCEPT !.pc = "terminal", !.status = status,
                   !.failed = status \in {"failed", "cancelled"}]

Move(c, f) == frame' = [frame EXCEPT ![c] = f]
At(c, pc) == frame[c].pc = pc
Reject(c) == Move(c, [frame[c] EXCEPT !.pc = "rejected", !.failed = TRUE])

-----------------------------------------------------------------------------
(* Runner.Invoke: WithStartAt may name a node that is not registered.      *)
Invoke(c, r, start, v) ==
  /\ At(c, "idle")
  /\ IF HasNode(start)
     THEN Move(c, [Idle EXCEPT !.pc = "begin", !.via = "invoke", !.run = r, !.target = start,
                               !.state = v, !.status = "running"])
     ELSE Reject(c)
  /\ UNCHANGED <<events, stores, cancelled, faults>>

(* memoryInterruptStore.Resolve: only an unanswered interrupt is resolved. *)
Known(i) == i \in DOMAIN interrupts      \* mutant of Open: answered ones too
Open(i) == i \in DOMAIN interrupts /\ interrupts[i].response = None

(* Runner.Resume, first half: Resolve, under the lock of the store.        *)
Resume(c, i, answer) ==
  /\ At(c, "idle")
  /\ IF Open(i)
     THEN /\ interrupts' = [interrupts EXCEPT ![i].response = answer]
          /\ Move(c, [Idle EXCEPT !.pc = "load", !.via = "resume", !.source = i])
     ELSE /\ Reject(c)
          /\ UNCHANGED interrupts
  /\ UNCHANGED <<events, checkpoints, cancelled, faults>>

(* The state a record leads back to.                                       *)
SavedState(record) == checkpoints[record.checkpoint].state

(* What ResumeFrom checks of a request, and the frame run() starts with.   *)
Resumed(c, record, v, answer) ==
  IF HasNode(record.resume)
  THEN Move(c, [frame[c] EXCEPT !.pc = "begin", !.run = record.run, !.target = record.resume,
                                !.state = v, !.status = "running", !.response = answer])
  ELSE Reject(c)

(* Runner.Resume, second half: load and unmarshal the checkpoint, then     *)
(* ResumeFrom.  The interrupt stays resolved whatever happens here.        *)
LoadCheckpoint(c) ==
  /\ At(c, "load")
  /\ LET record == interrupts[frame[c].source]
     IN \/ /\ Resumed(c, record, SavedState(record), record.response)
           /\ UNCHANGED faults
        \/ Fault /\ Reject(c)
  /\ UNCHANGED <<events, stores, cancelled>>

(* Runner.ResumeFrom called directly with a request rebuilt from an        *)
(* interrupt and its checkpoint: the interrupt store is not consulted.     *)
ResumeFrom(c, i, answer) ==
  /\ At(c, "idle")
  /\ i \in DOMAIN interrupts
  /\ LET record == interrupts[i]
     IN IF HasNode(record.resume)
        THEN Move(c, [Idle EXCEPT !.pc = "begin", !.via = "request", !.source = i,
                        !.run = record.run, !.target = record.resume,
                        !.state = SavedState(record), !.status = "running", !.response = answer])
        ELSE Reject(c)
  /\ UNCHANGED <<events, stores, cancelled, faults>>

-----------------------------------------------------------------------------
(* run(): the start event; target is the node to start at.                 *)
Begin(c) ==
  /\ At(c, "begin")
  /\ \/ SnapshotFails(c)
     \/ /\ Record(c, IF frame[c].via = "invoke" THEN "run.started" ELSE "run.resumed",
                  frame[c].target,
                  [frame[c] EXCEPT !.pc = "loop", !.node = frame[c].target], Abandon(c))
        /\ UNCHANGED <<stores, cancelled>>

(* Top of the loop: the context, then the step limit.                      *)
CancelledEarly(c) == c \in cancelled /\ frame[c].steps = 0  \* mutant: first turn only
CancelSeen(c) == c \in cancelled

LimitPassed(c) == MaxSteps > 0 /\ frame[c].steps > MaxSteps  \* mutant: off by one
LimitReached(c) == MaxSteps > 0 /\ frame[c].steps + 1 > MaxSteps

Loop(c) ==
  /\ At(c, "loop")
  /\ \/ CancelSeen(c) /\ Move(c, End(c, "cancelled"))
     \/ ~CancelSeen(c) /\ LimitReached(c) /\ Move(c, End(c, "failed"))
     \/ /\ ~CancelSeen(c) /\ ~LimitReached(c)
        /\ Move(c, [frame[c] EXCEPT !.pc = "enter", !.steps = IF MaxSteps > 0 THEN @ + 1 ELSE @])
  /\ UNCHANGED <<events, stores, cancelled, faults>>

(* The response of a resume goes to the first node only.                   *)
Share(f) == [f EXCEPT !.given = f.response]  \* mutant of Consume: not cleared
Consume(f) == [f EXCEPT !.given = f.response, !.response = None]

(* node.started, then the node function is called.                         *)
NodeStart(c) ==
  /\ At(c, "enter")
  /\ \/ SnapshotFails(c)
     \/ /\ Record(c, "node.started", None,
                  [Consume(frame[c]) EXCEPT !.pc = "node", !.emitter = TRUE,
                                            !.late = IF c \in cancelled THEN @ + 1 ELSE @],
                  Abandon(c))
        /\ UNCHANGED <<stores, cancelled>>

(* An event through the emitter that the context of a node carries.  The   *)
(* closure asks neither whether the node nor whether the call is over, so  *)
(* a goroutine the node left behind may emit at any later time; it reads   *)
(* the loop's variable current, so the event names the node the loop       *)
(* stands at by then.  Who emits may ignore a failure to.                  *)
Emit(c) ==
  /\ frame[c].emitter
  /\ frame[c].emits < MaxEmits
  /\ frame' = [frame EXCEPT ![c].emits = @ + 1]
  /\ \/ events' = Recorded(c, "node.event", None) /\ UNCHANGED faults
     \/ Fault /\ events' \in {events, Recorded(c, "node.event", None)}
  /\ UNCHANGED <<stores, cancelled>>

(* The node function returns a command ...                                 *)
NodeReturn(c, cmd) ==
  /\ At(c, "node")
  /\ Move(c, [frame[c] EXCEPT !.pc = "complete", !.cmd = cmd,
                              !.state = IF cmd.update # None THEN cmd.update ELSE @])
  /\ UNCHANGED <<events, stores, cancelled, faults>>

(* ... or an error: a cancellation when it wraps one or when the context   *)
(* is cancelled (cancellationCause), otherwise a failure of the node.      *)
NodeError(c, wrapsCancel) ==
  /\ At(c, "node")
  /\ IF wrapsCancel \/ c \in cancelled
     THEN Move(c, End(c, "cancelled"))
     ELSE Move(c, [frame[c] EXCEPT !.pc = "failing"])
  /\ UNCHANGED <<events, stores, cancelled, faults>>

(* node.failed, whose recording error is ignored.                          *)
NodeFailed(c) ==
  /\ At(c, "failing")
  /\ Record(c, "node.failed", None, End(c, "failed"), End(c, "failed"))
  /\ UNCHANGED <<stores, cancelled>>

NodeComplete(c) ==
  /\ At(c, "complete")
  /\ \/ SnapshotFails(c)
     \/ /\ Record(c, "node.completed", None,
                  [frame[c] EXCEPT !.pc = "save", !.completed = Len(events[frame[c].run]) + 1],
                  Abandon(c))
        /\ UNCHANGED <<stores, cancelled>>

(* saveCheckpoint: the state after the node, at node.completed's sequence. *)
LatestSequence(f) == Len(events[f.run])  \* mutant of CompletedSequence
CompletedSequence(f) == f.completed

SaveIgnored(c) == [frame[c] EXCEPT !.pc = "route"]  \* mutant: the error is dropped
SaveFailed(c) == End(c, "failed")

SaveCheckpoint(c) ==
  /\ At(c, "save")
  /\ LET f == frame[c]
     IN \/ /\ checkpoints' = Append(checkpoints, [run |-> f.run, node |-> f.node,
                               sequence |-> CompletedSequence(f), state |-> f.state])
           /\ Move(c, [f EXCEPT !.pc = "saved", !.saved = Len(checkpoints) + 1])
           /\ UNCHANGED faults
        \/ /\ Fault
           /\ Move(c, SaveFailed(c))
           /\ UNCHANGED checkpoints
  /\ UNCHANGED <<events, interrupts, cancelled>>

RecordSaved(c) ==
  /\ At(c, "saved")
  /\ Record(c, "checkpoint.saved", frame[c].saved,
            [frame[c] EXCEPT !.pc = IF frame[c].cmd.interrupt THEN "register" ELSE "route"],
            Abandon(c))
  /\ UNCHANGED <<stores, cancelled>>

-----------------------------------------------------------------------------
(* Where a resume goes on, and the checkpoint it goes on from.             *)
AskedNode(f) == f.cmd.resume  \* mutant of ResumeNode: no default
ResumeNode(f) == IF f.cmd.resume = None THEN f.node ELSE f.cmd.resume

NewestCheckpoint(f) == Len(checkpoints)  \* mutant of InterruptCheckpoint
InterruptCheckpoint(f) == f.saved

(* registerInterrupt: memoryInterruptStore.Save refuses a checkpoint       *)
(* without an ID, which a store may return.                                *)
RegisterInterrupt(c) ==
  /\ At(c, "register")
  /\ LET f == frame[c]
         record == [run |-> f.run, node |-> f.node, checkpoint |-> InterruptCheckpoint(f),
                    response |-> None, resume |-> ResumeNode(f)]
     IN \/ /\ interrupts' = Append(interrupts, record)
           /\ Move(c, [f EXCEPT !.pc = "announce", !.raised = Len(interrupts) + 1])
           /\ UNCHANGED faults
        \/ /\ Fault
           /\ Move(c, End(c, "failed"))
           /\ UNCHANGED interrupts
  /\ UNCHANGED <<events, checkpoints, cancelled>>

(* interrupt.created, whose recording error is ignored.                    *)
AnnounceInterrupt(c) ==
  /\ At(c, "announce")
  /\ Record(c, "interrupt.created", frame[c].raised, End(c, "interrupted"), End(c, "interrupted"))
  /\ UNCHANGED <<stores, cancelled>>

(* End > Goto > Finish > conditional route > fixed edge.                   *)
FollowAtOnce(c, to) ==  \* mutant of Follow: the node is left before the edge is recorded
  Move(c, [frame[c] EXCEPT !.pc = "edge", !.node = to, !.target = to])
Follow(c, to) == Move(c, [frame[c] EXCEPT !.pc = "edge", !.target = to])

FollowAnyFixed(c) ==  \* mutant of FollowFixed: neither none nor many is an error
  \E to \in Targets(Fixed[frame[c].node]) : Follow(c, to)
FollowFixed(c) ==
  LET targets == Fixed[frame[c].node]
  IN IF Len(targets) = 1 THEN Follow(c, targets[1]) ELSE Move(c, End(c, "failed"))

FallsThrough(f) == ~f.cmd.end /\ f.cmd.goto = None /\ f.node \notin FinishNodes

Route(c) ==
  /\ At(c, "route")
  /\ LET f == frame[c]
     IN \/ /\ f.cmd.end \/ (f.cmd.goto = None /\ f.node \in FinishNodes)
           /\ Move(c, End(c, "completed"))
        \/ /\ ~f.cmd.end /\ f.cmd.goto # None
           /\ IF HasNode(f.cmd.goto) THEN Follow(c, f.cmd.goto)
                                           ELSE Move(c, End(c, "failed"))
        \/ /\ FallsThrough(f)
           /\ \/ RouteMayFail(f.node) /\ Move(c, End(c, "failed"))
              \/ \E to \in RouteTargets(f.node) : Follow(c, to)
              \/ RouteMaySelectNone(f.node) /\ FollowFixed(c)
  /\ UNCHANGED <<events, stores, cancelled, faults>>

RecordEdge(c) ==
  /\ At(c, "edge")
  /\ Record(c, "edge.selected", frame[c].target,
            [frame[c] EXCEPT !.pc = "loop", !.node = frame[c].target], Abandon(c))
  /\ UNCHANGED <<stores, cancelled>>

(* complete, fail, cancel, interrupt: the terminal event, whose recording  *)
(* error is ignored, then the result.                                      *)
FailedEvent(c) ==  \* mutant of TerminalEvent: cancel() records what fail() does
  IF frame[c].status = "cancelled" THEN "failed" ELSE frame[c].status
TerminalEvent(c) == frame[c].status

Finish(c) ==
  /\ At(c, "terminal")
  /\ LET done == [frame[c] EXCEPT !.pc = "returned"]
         arg  == IF frame[c].status = "interrupted" THEN frame[c].raised ELSE None
     IN Record(c, TerminalEvent(c), arg, done, done)
  /\ UNCHANGED <<stores, cancelled>>

(* The caller cancels the context, or its deadline passes.                 *)
Cancel(c) ==
  /\ frame[c].pc \notin {"idle", "returned", "rejected"}
  /\ c \in Cancellable \ cancelled
  /\ cancelled' = cancelled \cup {c}
  /\ UNCHANGED <<frame, events, stores, faults>>

-----------------------------------------------------------------------------
(* The ID of an interrupt is random: a caller learns it from the events    *)
(* that carry the request.                                                 *)
Visible ==
  {i \in DOMAIN interrupts :
     \E k \in DOMAIN events[interrupts[i].run] :
       LET e == events[interrupts[i].run][k]
       IN e.type \in {"interrupt.created", "interrupted"} /\ e.arg = i}
Unknown == Len(interrupts) + 1

Start(c) ==
  \/ /\ c \in Invokers
     /\ \E r \in RunIDs, start \in StartAt, v \in Inputs : Invoke(c, r, start, v)
  \/ /\ c \in Resumers
     /\ \E i \in Visible \cup {Unknown}, answer \in Answers : Resume(c, i, answer)
  \/ /\ c \in Replayers
     /\ \E i \in Visible, answer \in Answers : ResumeFrom(c, i, answer)

Step(c) ==
  \/ LoadCheckpoint(c) \/ Begin(c) \/ Loop(c) \/ NodeStart(c)
  \/ \E cmd \in Commands : NodeReturn(c, cmd)
  \/ \E wrapsCancel \in NodeErrors : NodeError(c, wrapsCancel)
  \/ NodeFailed(c) \/ NodeComplete(c) \/ SaveCheckpoint(c) \/ RecordSaved(c)
  \/ RegisterInterrupt(c) \/ AnnounceInterrupt(c) \/ Route(c) \/ RecordEdge(c) \/ Finish(c)

Over(c) == frame[c].pc \in {"returned", "rejected"}

(* All calls are over, or the others wait for an interrupt nobody raised.  *)
Stop ==
  /\ \A c \in Calls : Over(c) \/ (c \in Replayers /\ At(c, "idle") /\ Visible = {})
  /\ UNCHANGED vars

Next ==
  \/ \E c \in Calls : Start(c) \/ Step(c) \/ Emit(c) \/ Cancel(c)
  \/ Stop

Spec == Init /\ [][Next]_vars

(* A call that has begun is a running goroutine, and node functions return. *)
FairSpec == Spec /\ \A c \in Calls : WF_vars(Step(c))

-----------------------------------------------------------------------------
(* Properties                                                              *)

Event == [type : EventType, node : NodeIDs \cup {None}, call : Calls,
          arg : NodeIDs \cup Nat \cup {None}]
Checkpoint == [run : RunIDs, node : NodeIDs, sequence : Nat, state : Values]
InterruptRecord == [run : RunIDs, node : NodeIDs, checkpoint : Nat,
                    response : Answers \cup {None}, resume : NodeIDs]
Frame ==
  [pc : PC, via : {"none", "invoke", "resume", "request"}, source : Nat,
   run : RunIDs \cup {None}, node : NodeIDs \cup {None}, state : Values \cup {None},
   steps : Nat, cmd : Commands \cup {None}, response : Answers \cup {None},
   given : Answers \cup {None}, completed : Nat, saved : Nat, raised : Nat,
   target : NodeIDs \cup {None}, status : Status, failed : BOOLEAN,
   hit : BOOLEAN, emitter : BOOLEAN, emits : Nat, late : Nat]

(* Every variable has its type.                                            *)
TypeOK ==
  /\ frame \in [Calls -> Frame]
  /\ events \in [RunIDs -> Seq(Event)]
  /\ checkpoints \in Seq(Checkpoint)
  /\ interrupts \in Seq(InterruptRecord)
  /\ cancelled \subseteq Calls
  /\ faults \in Nat

(* Where in the log of its run the events are that the run loop of call c  *)
(* recorded.  Those its nodes emitted may stand anywhere after the first   *)
(* node.started, also behind the terminal event, and are left out.         *)
Log(c) == IF frame[c].run = None THEN <<>> ELSE events[frame[c].run]
Own(log, c) == {k \in DOMAIN log : log[k].call = c /\ log[k].type # "node.event"}
Started(log, c) == {k \in Own(log, c) : log[k].type = "node.started"}

(* What a returned call reports agrees with the trace: at most one         *)
(* terminal event, the last that the run loop records, of the reported     *)
(* status, however late the nodes' own events come.  It is missing, and    *)
(* the status may be "running", only when a recorder, handler or           *)
(* serializer failed the loop.  The code returns from a dozen places,      *)
(* through four exits and eight early returns.                             *)
Agrees(log, c, f) ==
  LET own  == Own(log, c)
      ends == {k \in own : log[k].type \in Terminal}
  IN /\ \A k \in ends : log[k].type = f.status /\ \A j \in own : j <= k
     /\ ends = {} => f.hit
     /\ f.status = "running" => ends = {} /\ f.failed
OutcomeMatchesTrace ==
  \A c \in Calls : At(c, "returned") => Agrees(Log(c), c, frame[c])

(* The trace replays: every node.started of a call names the node that the *)
(* start event or the edge just before it leads to, and an edge is only    *)
(* taken from a node whose checkpoint was just saved.                      *)
Before(log, c, k) == {j \in Own(log, c) : j < k /\ \A i \in Own(log, c) : i < k => i <= j}
Replays(log, c) ==
  \A k \in Own(log, c) :
    /\ log[k].type = "node.started" =>
         \E j \in Before(log, c, k) :
           log[j].type \in {"run.started", "run.resumed", "edge.selected"} /\ log[j].arg = log[k].node
    /\ log[k].type = "edge.selected" =>
         \E j \in Before(log, c, k) : log[j].type = "checkpoint.saved" /\ log[j].node = log[k].node
TraceReplaysPath == \A c \in Calls : Replays(Log(c), c)

(* A checkpoint's sequence is that of the node.completed event of the node *)
(* it was taken after, also when another call of the same run records      *)
(* events between that event and the save: replay by RunID and Sequence    *)
(* up to a checkpoint stops where its state was true.                      *)
CheckpointAtCompletion ==
  \A k \in DOMAIN checkpoints :
    LET chk == checkpoints[k]
    IN /\ chk.sequence \in DOMAIN events[chk.run]
       /\ events[chk.run][chk.sequence].type = "node.completed"
       /\ events[chk.run][chk.sequence].node = chk.node

(* The interrupt an interrupted call returns leads back to the state the   *)
(* call returned, and every interrupt to a checkpoint of its run and node, *)
(* also when other calls of the run save checkpoints in between.           *)
InterruptLeadsBack ==
  /\ \A i \in DOMAIN interrupts :
       /\ interrupts[i].checkpoint \in DOMAIN checkpoints
       /\ checkpoints[interrupts[i].checkpoint].run = interrupts[i].run
       /\ checkpoints[interrupts[i].checkpoint].node = interrupts[i].node
  /\ \A c \in Calls : frame[c].status = "interrupted" =>
       /\ frame[c].raised \in DOMAIN interrupts
       /\ SavedState(interrupts[frame[c].raised]) = frame[c].state

(* Of the Resume calls that race for an interrupt at most one goes past    *)
(* Resolve, and only the answer it stored ever reaches a node through it.  *)
OneWinnerPerInterrupt ==
  \A c \in Calls : frame[c].via = "resume" =>
    LET record == interrupts[frame[c].source]
    IN /\ record.response # None
       /\ {frame[c].response, frame[c].given} \subseteq {None, record.response}
       /\ \A d \in Calls \ {c} :
            ~(frame[d].via = "resume" /\ frame[d].source = frame[c].source)

(* A run that completed or stopped for an interrupt returns the state its  *)
(* last checkpoint holds: nothing is lost between the two.                 *)
OutcomeCheckpointed ==
  \A c \in Calls : frame[c].status \in {"completed", "interrupted"} =>
    /\ frame[c].saved \in DOMAIN checkpoints
    /\ checkpoints[frame[c].saved].state = frame[c].state
    /\ checkpoints[frame[c].saved].run = frame[c].run
    /\ checkpoints[frame[c].saved].node = frame[c].node

(* A call starts at most MaxSteps nodes, counted by what its trace shows,  *)
(* and after its context is cancelled at most one more.                    *)
StopsInTime ==
  \A c \in Calls :
    /\ MaxSteps > 0 => Cardinality(Started(Log(c), c)) <= MaxSteps
    /\ frame[c].late <= 1

(* The response of a resume is given to the first node it runs and then    *)
(* gone, so that a later approval of the same run asks again.              *)
ResponseToFirstNodeOnly ==
  \A c \in Calls :
    /\ frame[c].response # None /\ ~Over(c) => Started(Log(c), c) = {}
    /\ At(c, "node") /\ frame[c].given # None => Cardinality(Started(Log(c), c)) <= 1

(* Both together: an answer is used once.                                  *)
AnswerUsedOnce == OneWinnerPerInterrupt /\ ResponseToFirstNodeOnly

(* The node a call stands at is registered: the lookup failure in the loop *)
(* cannot happen in a validated graph, whatever nodes ask for.             *)
CurrentNodeRegistered ==
  \A c \in Calls : frame[c].pc \notin {"idle", "load", "begin", "rejected"} =>
    frame[c].node \in Registered \cup {None}

(* Every call that begins returns: the step limit, the answer to a resume  *)
(* or a cancellation ends it.                                              *)
Termination == \A c \in Calls : ~At(c, "idle") ~> Over(c)
=============================================================================
