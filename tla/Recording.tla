----------------------------- MODULE Recording ------------------------------
(***************************************************************************)
(* How an event gets from a run to the event handler.  Runner.record       *)
(* appends the event to the trace, which numbers it, and then calls the    *)
(* handler: two steps.  The goroutines a node starts (parallel tools,      *)
(* their tickers) share an emitter that holds emitMu over both; the run    *)
(* loop records its own events before and after, without emitMu and with   *)
(* the node not on the stack: that no emitter outlives its node is assumed *)
(* here (NodeContract).  What the handler does is left to the module that  *)
(* extends this one: it takes an emitter from "handler" to Handled.        *)
(***************************************************************************)
EXTENDS Integers, Sequences, FiniteSets

CONSTANTS
  None,
  Calls,         \* calls of Invoke, Resume or ResumeFrom
  Goroutines,    \* goroutines that nodes start
  CallOf,        \* the call whose node started a goroutine
  RunIDs,
  RunOf,         \* the run of a call
  MaxEmits       \* bound: events one goroutine emits

Emitters == Calls \cup Goroutines
Team(c) == {g \in Goroutines : CallOf[g] = c}
CallBehind(e) == IF e \in Calls THEN e ELSE CallOf[e]

ASSUME RecordingAssumption ==
  /\ Calls \cap Goroutines = {}
  /\ CallOf \in [Goroutines -> Calls]
  /\ RunOf \in [Calls -> RunIDs]
  /\ MaxEmits \in Nat
  /\ None \notin Emitters
  /\ IsFiniteSet(Calls) /\ IsFiniteSet(Goroutines)

VARIABLES
  run,        \* run[c]: where call c is
  emit,       \* emit[e]: where emitter e is
  event,      \* event[e]: the event e is handing on
  emits,      \* events emitted by each goroutine
  emitMu,     \* emitMu[c]: the goroutine that holds the mutex of c's node
  trace       \* trace[r]: by whom each event of run r was recorded

recording == <<run, emit, event, emits, emitMu, trace>>

RecordingInit ==
  /\ run = [c \in Calls |-> "idle"]
  /\ emit = [e \in Emitters |-> "idle"]
  /\ event = [e \in Emitters |-> None]
  /\ emits = [g \in Goroutines |-> 0]
  /\ emitMu = [c \in Calls |-> None]
  /\ trace = [r \in RunIDs |-> <<>>]

(* MemoryRecorder.Record, under the recorder's mutex; what precedes it is  *)
(* local to the emitter and one step with it.                              *)
Record(e) ==
  LET r == RunOf[CallBehind(e)]
  IN /\ trace' = [trace EXCEPT ![r] = Append(@, e)]
     /\ event' = [event EXCEPT ![e] = [run |-> r, sequence |-> Len(trace[r]) + 1, from |-> e]]
     /\ emit' = [emit EXCEPT ![e] = "handler"]

(* The run starts: run.started is recorded first.                          *)
Begin(c) ==
  /\ run[c] = "idle"
  /\ run' = [run EXCEPT ![c] = "starting"]
  /\ Record(c)
  /\ UNCHANGED <<emits, emitMu>>

(* A goroutine of the node emits: it gets emitMu, then records.            *)
Unlocked(c) == c \in Calls  \* mutant of Free: no mutex
Free(c) == emitMu[c] = None

Emit(g) ==
  /\ run[CallOf[g]] = "node"
  /\ emit[g] = "idle"
  /\ emits[g] < MaxEmits
  /\ Free(CallOf[g])
  /\ emitMu' = [emitMu EXCEPT ![CallOf[g]] = g]
  /\ emits' = [emits EXCEPT ![g] = @ + 1]
  /\ Record(g)
  /\ UNCHANGED run

(* The node returns when its goroutines have ended; the run loop records   *)
(* what follows, the terminal event last.                                  *)
NodeReturn(c) ==
  /\ run[c] = "node"
  /\ \A g \in Team(c) : emit[g] = "idle"
  /\ run' = [run EXCEPT ![c] = "ending"]
  /\ Record(c)
  /\ UNCHANGED <<emits, emitMu>>

NodeStep == (\E g \in Goroutines : Emit(g)) \/ (\E c \in Calls : NodeReturn(c))

(* The handler returns: a goroutine unlocks emitMu, a call goes on.        *)
Handled(e) ==
  /\ emit' = [emit EXCEPT ![e] = "idle"]
  /\ event' = [event EXCEPT ![e] = None]
  /\ IF e \in Goroutines
     THEN emitMu' = [emitMu EXCEPT ![CallOf[e]] = None] /\ UNCHANGED run
     ELSE run' = [run EXCEPT ![e] = IF @ = "starting" THEN "node" ELSE "returned"]
          /\ UNCHANGED emitMu
  /\ UNCHANGED <<emits, trace>>

Most == 2 * Cardinality(Calls) + MaxEmits * Cardinality(Goroutines)
Events == [run : RunIDs, sequence : 1 .. Most, from : Emitters]
Recorded == {p \in RunIDs \X (1 .. Most) : p[2] <= Len(trace[p[1]])}
RecordingTypeOK(stages) ==
  /\ run \in [Calls -> {"idle", "starting", "node", "ending", "returned"}]
  /\ emit \in [Emitters -> {"idle", "handler"} \cup stages]
  /\ event \in [Emitters -> Events \cup {None}]
  /\ emits \in [Goroutines -> 0 .. MaxEmits]
  /\ emitMu \in [Calls -> Goroutines \cup {None}]
  /\ trace \in [RunIDs -> Seq(Emitters)]
=============================================================================
