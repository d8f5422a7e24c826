--------------------------- MODULE LLMNodeProofs ----------------------------
(***************************************************************************)
(* Theorems about the LLM node, for every provider, wire, spec and pattern *)
(* of faults: first which events there are and in which order, whatever    *)
(* the deltas carry, then what a stream's deltas and its response carry.   *)
(***************************************************************************)
EXTENDS LLMNode, ListProofs

EventTypes ==
  {"message.read", "prompt.rendered", "prompt.estimated", "llm.started", "llm.delta",
   "llm.completed", "llm.failed", "message.written"}

(* Where the node function may be, and how far the events go that it may   *)
(* have emitted by then.                                                   *)
PC ==
  {"resolve", "read", "adjust", "render", "estimate", "estimated", "start", "call", "chat",
   "stream", "close", "assemble", "completed", "failed", "write", "written", "output",
   "error", "returned"}
Reach(at) ==
  CASE at \in {"resolve", "read"} -> 0
    [] at \in {"adjust", "render"} -> 1
    [] at \in {"estimate", "estimated"} -> 2
    [] at = "start" -> 3
    [] at \in {"call", "chat"} -> 4
    [] at \in {"stream", "close", "assemble", "completed", "failed"} -> 5
    [] at \in {"write", "written"} -> 6
    [] OTHER -> 7

IsLog(log) == log \in Seq({log[i] : i \in DOMAIN log})
Typed(log) ==
  /\ IsLog(log)
  /\ \A i \in DOMAIN log : log[i].type \in EventTypes

Ordered(log) ==
  \A i \in 1 .. Len(log) - 1 :
    \/ Rank(log[i].type) < Rank(log[i + 1].type)
    \/ log[i].type = "llm.delta" /\ log[i + 1].type = "llm.delta"

Holds(log, type) == \E i \in DOMAIN log : log[i].type = type

(* What must have been emitted by then: a started LLM call that is left    *)
(* open is explained by a lost event or a provider that cannot stream, and *)
(* only a completed one leads to a command.                                *)
Explained(log) ==
  Holds(log, "llm.started") =>
    \/ Holds(log, "llm.completed") \/ Holds(log, "llm.failed")
    \/ CannotStream \/ bounds.faults > 0
Complete(log) ==
  Holds(log, "llm.completed") /\ (spec.writes <=> Holds(log, "message.written"))
Owes(log) ==
  /\ pc \in {"write", "written"} => spec.writes /\ Holds(log, "llm.completed")
  /\ pc = "output" => Complete(log)
  /\ pc = "error" => Explained(log)
  /\ pc = "returned" => IF outcome = "error" THEN Explained(log) ELSE Complete(log)
  /\ Holds(log, "message.written") => Holds(log, "llm.completed")
  /\ Holds(log, "llm.failed") => pc = "error" \/ (pc = "returned" /\ outcome = "error")

NodeTyped == pc \in PC /\ bounds \in [faults : Nat, resumes : Nat] /\ spec.writes \in BOOLEAN

Reached(log, at) == \A i \in DOMAIN log : Rank(log[i].type) <= Reach(at)

Inv == NodeTyped /\ Typed(emitted) /\ Ordered(emitted) /\ Reached(emitted, pc) /\ Owes(emitted)

-----------------------------------------------------------------------------
(* Ranks and logs.                                                         *)
LEMMA Ranks ==
  /\ \A t \in EventTypes : Rank(t) \in 1 .. 7 /\ (Rank(t) = 5 <=> t = "llm.delta")
  /\ \A t \in EventTypes : t \in {"llm.completed", "llm.failed"} => Rank(t) = 6
  /\ Rank("llm.started") = 4 /\ Rank("message.written") = 7
  BY DEF EventTypes, Rank

LEMMA Reaches == \A at \in PC : Reach(at) \in 0 .. 7
  BY DEF PC, Reach

LEMMA AppendFacts ==
  ASSUME NEW log, Typed(log), NEW e
  PROVE  /\ IsLog(Append(log, e))
         /\ Len(log) \in Nat /\ DOMAIN log = 1 .. Len(log)
         /\ Len(Append(log, e)) = Len(log) + 1
         /\ DOMAIN Append(log, e) = 1 .. Len(log) + 1
         /\ Append(log, e)[Len(log) + 1] = e
         /\ \A i \in 1 .. Len(log) : Append(log, e)[i] = log[i]
<1> DEFINE S == {log[i] : i \in DOMAIN log} \cup {e}
<1>1. log \in Seq(S)
  <2>1. PICK T : T = {log[i] : i \in DOMAIN log}
    OBVIOUS
  <2>2. log \in Seq(T) /\ T \subseteq S
    BY <2>1 DEF Typed, IsLog
  <2>3. \A i \in 1 .. Len(log) : log[i] \in S
    BY <2>2
  <2>4. QED
    BY <2>2, <2>3
<1> HIDE DEF S
<1>2. e \in S
  BY DEF S
<1>3. /\ Append(log, e) \in Seq(S)
      /\ Len(log) \in Nat /\ DOMAIN log = 1 .. Len(log)
      /\ Len(Append(log, e)) = Len(log) + 1
      /\ DOMAIN Append(log, e) = 1 .. Len(log) + 1
      /\ Append(log, e)[Len(log) + 1] = e
      /\ \A i \in 1 .. Len(log) : Append(log, e)[i] = log[i]
  BY <1>1, <1>2
<1>4. PICK new \in Seq(S) : new = Append(log, e)
  BY <1>3
<1>5. IsLog(new)
  <2>1. PICK T : T = {new[i] : i \in DOMAIN new}
    OBVIOUS
  <2>2. \A i \in 1 .. Len(new) : new[i] \in T
    BY <2>1
  <2>3. new \in Seq(T)
    BY <2>2
  <2>4. QED
    BY <2>1, <2>3 DEF IsLog
<1>6. QED
  BY <1>3, <1>4, <1>5

(* An event that is beyond what was reached, or a delta among deltas, goes *)
(* at the end of an ordered log.                                           *)
LEMMA Logged ==
  ASSUME NEW log, Typed(log), Ordered(log), NEW at \in PC, Reached(log, at),
         NEW e, e.type \in EventTypes,
         Rank(e.type) > Reach(at) \/ (e.type = "llm.delta" /\ Reach(at) = 5)
  PROVE  /\ Typed(Append(log, e)) /\ Ordered(Append(log, e))
         /\ \A next \in PC : Reach(next) >= Rank(e.type) => Reached(Append(log, e), next)
         /\ \A type : Holds(Append(log, e), type) <=> Holds(log, type) \/ type = e.type
<1> DEFINE n == Len(log)
           new == Append(log, e)
<1>1. /\ IsLog(new)
      /\ n \in Nat /\ DOMAIN log = 1 .. n
      /\ Len(new) = n + 1
      /\ DOMAIN new = 1 .. n + 1
      /\ new[n + 1] = e
      /\ \A i \in 1 .. n : new[i] = log[i]
  BY AppendFacts
<1>2. n = Len(log) /\ new = Append(log, e)
  OBVIOUS
<1> HIDE DEF n, new
<1>3. \A i \in 1 .. n : log[i].type \in EventTypes /\ Rank(log[i].type) \in 1 .. 7
  <2>1. \A i \in DOMAIN log : log[i].type \in EventTypes
    BY DEF Typed
  <2>2. \A t \in EventTypes : Rank(t) \in 1 .. 7
    BY Ranks
  <2>3. QED
    BY <1>1, <2>1, <2>2
<1>4. Typed(new)
  BY <1>1, <1>3 DEF Typed
<1>5. Reach(at) \in 0 .. 7 /\ Rank(e.type) \in 1 .. 7
  BY Reaches, Ranks
<1>6. Ordered(new)
  <2> SUFFICES ASSUME NEW i \in 1 .. n
               PROVE  \/ Rank(new[i].type) < Rank(new[i + 1].type)
                      \/ new[i].type = "llm.delta" /\ new[i + 1].type = "llm.delta"
    BY <1>1 DEF Ordered
  <2>1. CASE i < n
    <3>1. i \in 1 .. n - 1 /\ i + 1 \in 1 .. n
      BY <1>1, <2>1
    <3>2. \/ Rank(log[i].type) < Rank(log[i + 1].type)
          \/ log[i].type = "llm.delta" /\ log[i + 1].type = "llm.delta"
      BY <1>2, <3>1 DEF Ordered
    <3>3. QED
      BY <1>1, <3>1, <3>2
  <2>2. CASE i = n
    <3>1. new[i] = log[i] /\ new[i + 1] = e
      BY <1>1, <2>2
    <3>2. Rank(log[i].type) <= Reach(at)
      BY <1>1 DEF Reached
    <3>3. CASE Rank(e.type) > Reach(at)
      BY <1>3, <1>5, <3>1, <3>2, <3>3
    <3>4. CASE e.type = "llm.delta" /\ Reach(at) = 5
      <4>1. Rank(e.type) = 5 /\ (Rank(log[i].type) = 5 => log[i].type = "llm.delta")
        BY <1>3, <3>4, Ranks
      <4>2. QED
        BY <1>3, <3>1, <3>2, <3>4, <4>1
    <3>5. QED
      BY <3>3, <3>4
  <2>3. QED
    BY <1>1, <2>1, <2>2
<1>7. ASSUME NEW next \in PC, Reach(next) >= Rank(e.type) PROVE Reached(new, next)
  <2>1. Reach(next) \in 0 .. 7
    BY Reaches
  <2>2. Rank(e.type) <= Reach(next)
    BY <1>5, <1>7, <2>1
  <2>3. Reach(at) <= Reach(next)
    <3>1. CASE Rank(e.type) > Reach(at)
      BY <1>5, <2>1, <2>2, <3>1
    <3>2. CASE e.type = "llm.delta" /\ Reach(at) = 5
      <4>1. Rank(e.type) = 5
        BY <3>2, Ranks
      <4>2. QED
        BY <2>1, <2>2, <3>2, <4>1
    <3>3. QED
      BY <3>1, <3>2
  <2>4. ASSUME NEW i \in 1 .. n PROVE Rank(log[i].type) <= Reach(next)
    <3>1. Rank(log[i].type) <= Reach(at) /\ Rank(log[i].type) \in 1 .. 7
      BY <1>1, <1>3 DEF Reached
    <3>2. QED
      BY <1>5, <2>1, <2>3, <3>1
  <2>5. QED
    BY <1>1, <2>2, <2>4 DEF Reached
<1>8. ASSUME NEW type PROVE Holds(new, type) <=> Holds(log, type) \/ type = e.type
  BY <1>1 DEF Holds
<1>9. QED
  BY <1>2, <1>4, <1>6, <1>7, <1>8

LEMMA ReachedLater ==
  ASSUME NEW log, Typed(log), NEW at \in PC, NEW next \in PC, Reached(log, at), Reach(at) <= Reach(next)
  PROVE  Reached(log, next)
<1>1. \A i \in DOMAIN log : Rank(log[i].type) \in 1 .. 7
  BY Ranks DEF Typed
<1>2. Reach(at) \in 0 .. 7 /\ Reach(next) \in 0 .. 7
  BY Reaches
<1>3. QED
  BY <1>1, <1>2 DEF Reached

(* What has not been reached was not emitted.                              *)
LEMMA Unreached ==
  ASSUME NEW log, Typed(log), NEW at \in PC, Reached(log, at)
  PROVE  /\ Reach(at) < 4 => ~Holds(log, "llm.started")
         /\ Reach(at) < 6 => ~Holds(log, "llm.completed") /\ ~Holds(log, "llm.failed")
         /\ Reach(at) < 7 => ~Holds(log, "message.written")
<1>1. Reach(at) \in 0 .. 7
  BY Reaches
<1>2. \A i \in DOMAIN log : Rank(log[i].type) \in 1 .. 7 /\ Rank(log[i].type) <= Reach(at)
  BY Ranks DEF Typed, Reached
<1>3. /\ Rank("llm.started") = 4 /\ Rank("llm.completed") = 6 /\ Rank("llm.failed") = 6
      /\ Rank("message.written") = 7
  BY DEF Rank
<1>4. QED
  BY <1>1, <1>2, <1>3 DEF Holds

-----------------------------------------------------------------------------
(* Steps.                                                                  *)
LEMMA Starts == Init => Inv
<1> SUFFICES ASSUME Init PROVE Inv
  OBVIOUS
<1>1. Typed(emitted) /\ Ordered(emitted) /\ Reached(emitted, pc) /\ \A type : ~Holds(emitted, type)
  BY DEF Init, Typed, IsLog, Ordered, Reached, Holds
<1>2. NodeTyped
  BY LLMAssumption DEF Init, NodeTyped, PC, NodeSpec
<1>3. QED
  BY <1>1, <1>2 DEF Inv, Owes, Init

(* trace.Emit.                                                             *)
LEMMA Emits ==
  ASSUME Inv, NEW e, e.type \in EventTypes, NEW next \in PC, NEW failure \in PC,
         Emit(e, next, failure),
         Rank(e.type) > Reach(pc) \/ (e.type = "llm.delta" /\ Reach(pc) = 5),
         Reach(next) >= Rank(e.type), Reach(failure) >= Rank(e.type)
  PROVE  /\ pc' \in PC /\ bounds' \in [faults : Nat, resumes : Nat]
         /\ Typed(emitted') /\ Ordered(emitted') /\ Reached(emitted', pc')
         /\ \A type : Holds(emitted', type) => Holds(emitted, type) \/ type = e.type
         /\ \A type : Holds(emitted, type) => Holds(emitted', type)
         /\ \/ pc' = next /\ bounds' = bounds /\ Holds(emitted', e.type)
            \/ pc' = failure /\ bounds'.faults > 0
<1>1. /\ pc \in PC /\ Typed(emitted) /\ Ordered(emitted) /\ Reached(emitted, pc)
      /\ bounds \in [faults : Nat, resumes : Nat]
  BY DEF Inv, NodeTyped
<1>2. PICK log : log = emitted
  OBVIOUS
<1>3. PICK at \in PC : at = pc
  BY <1>1
<1>4. /\ Typed(Append(log, e)) /\ Ordered(Append(log, e))
      /\ \A later \in PC : Reach(later) >= Rank(e.type) => Reached(Append(log, e), later)
      /\ \A type : Holds(Append(log, e), type) <=> Holds(log, type) \/ type = e.type
  BY <1>1, <1>2, <1>3, Logged
<1>5. Reached(log, failure)
  <2>1. Reach(at) \in 0 .. 7 /\ Reach(failure) \in 0 .. 7 /\ Rank(e.type) \in 1 .. 7
    BY Reaches, Ranks
  <2>2. e.type = "llm.delta" => Rank(e.type) = 5
    BY Ranks
  <2>3. Reach(at) <= Reach(failure)
    BY <1>3, <2>1, <2>2
  <2>4. QED
    BY <1>1, <1>2, <1>3, <2>3, ReachedLater
<1>6. CASE emitted' = Append(emitted, e) /\ pc' = next /\ UNCHANGED bounds
  BY <1>1, <1>2, <1>4, <1>6
<1>7. CASE /\ bounds' = [bounds EXCEPT !.faults = @ + 1]
           /\ emitted' \in {emitted, Append(emitted, e)}
           /\ pc' = failure
  <2>1. bounds' \in [faults : Nat, resumes : Nat] /\ bounds'.faults > 0
    BY <1>1, <1>7
  <2>2. CASE emitted' = emitted
    BY <1>1, <1>2, <1>5, <1>7, <2>1, <2>2
  <2>3. CASE emitted' = Append(emitted, e)
    BY <1>2, <1>4, <1>7, <2>1, <2>3
  <2>4. QED
    BY <1>7, <2>2, <2>3
<1>8. QED
  BY <1>6, <1>7 DEF Emit

(* Points of the code before the LLM call has ended.                       *)
Before == PC \ {"write", "written", "output", "error", "returned"}

LEMMA BeforeFacts ==
  /\ \A at \in Before : at \in PC /\ Reach(at) < 6
  /\ Inv /\ pc \in Before =>
       /\ ~Holds(emitted, "llm.completed") /\ ~Holds(emitted, "llm.failed")
       /\ ~Holds(emitted, "message.written")
<1>1. \A at \in Before : at \in PC /\ Reach(at) < 6 /\ Reach(at) < 7
  BY DEF Before, PC, Reach
<1>2. QED
  BY <1>1, Unreached DEF Inv

LEMMA StageKeeps ==
  ASSUME Inv, NEW from \in Before, NEW next \in Before,
         NEW type \in EventTypes \ {"llm.completed", "llm.failed", "message.written"},
         Reach(from) < Rank(type), Rank(type) <= Reach(next),
         Stage(from, type, next)
  PROVE  Inv'
<1>1. pc = from /\ Emit(Event(type), next, "error") /\ UNCHANGED <<spec, outcome>>
  BY DEF Stage
<1>2. Event(type).type = type
  BY DEF Event
<1>3. "error" \in PC /\ next \in PC /\ Reach("error") >= Rank(type) /\ Reach(next) >= Rank(type)
      /\ Rank(type) > Reach(from)
  BY Ranks, Reaches DEF PC, Reach, Before
<1>4. /\ pc' \in PC /\ bounds' \in [faults : Nat, resumes : Nat]
      /\ Typed(emitted') /\ Ordered(emitted') /\ Reached(emitted', pc')
      /\ \A t : Holds(emitted', t) => Holds(emitted, t) \/ t = type
      /\ (pc' = next \/ (pc' = "error" /\ bounds'.faults > 0))
  <2>1. PICK e : e = Event(type)
    OBVIOUS
  <2>2. QED
    BY <1>1, <1>2, <1>3, <2>1, Emits
<1>5. ~Holds(emitted', "llm.failed") /\ ~Holds(emitted', "message.written")
  BY <1>1, <1>4, BeforeFacts
<1>6. Owes(emitted)'
  BY <1>4, <1>5 DEF Owes, Explained, Before
<1>7. QED
  BY <1>1, <1>4, <1>6 DEF Inv, NodeTyped

(* A step that emits nothing and leads on or to an error.                  *)
LEMMA QuietKeeps ==
  ASSUME Inv, pc \in Before, pc' \in Before \cup {"error"}, Reach(pc) <= Reach(pc'),
         pc' = "error" => ~Holds(emitted, "llm.started") \/ CannotStream,
         UNCHANGED <<spec, emitted, bounds, outcome>>
  PROVE  Inv'
<1>1. PICK at \in PC : at = pc
  BY DEF Before
<1>2. PICK next \in PC : next = pc'
  BY DEF Before, PC
<1>3. Reached(emitted, pc')
  <2>1. PICK log : log = emitted
    OBVIOUS
  <2>2. Typed(log) /\ Reached(log, at) /\ Reach(at) <= Reach(next)
    BY <1>1, <1>2, <2>1 DEF Inv
  <2>3. Reached(log, next)
    BY <2>2, ReachedLater
  <2>4. QED
    BY <1>2, <2>1, <2>3
<1>4. ~Holds(emitted, "llm.failed") /\ ~Holds(emitted, "message.written")
  BY BeforeFacts
<1>5. Owes(emitted)'
  BY <1>4 DEF Owes, Explained, Before, CannotStream, provider
<1>6. QED
  BY <1>2, <1>3, <1>5 DEF Inv, NodeTyped

LEMMA HandKeeps == ASSUME Inv, Hand PROVE Inv'
<1>1. PICK e : e = DeltaEvent(Head(queue))
  OBVIOUS
<1>2. PICK next : next = Closed
  OBVIOUS
<1>3. pc \in {"stream", "close"} /\ Emit(e, next, "failed") /\ UNCHANGED <<spec, outcome>>
  BY <1>1, <1>2 DEF Hand, Handing
<1>4. next \in {"stream", "close", "assemble"}
  BY <1>2, <1>3 DEF Closed
<1>5. e.type = "llm.delta" /\ e.type \in EventTypes /\ Rank(e.type) = 5
  BY <1>1 DEF DeltaEvent, EventTypes, Rank
<1>6. /\ next \in PC /\ "failed" \in PC /\ pc \in Before /\ next \in Before /\ "failed" \in Before
      /\ Reach(pc) = 5 /\ Reach(next) = 5 /\ Reach("failed") = 5
  BY <1>3, <1>4 DEF PC, Before, Reach
<1>7. /\ pc' \in {next, "failed"} /\ bounds' \in [faults : Nat, resumes : Nat]
      /\ Typed(emitted') /\ Ordered(emitted') /\ Reached(emitted', pc')
      /\ \A t : Holds(emitted', t) => Holds(emitted, t) \/ t = "llm.delta"
  <2>1. Reach(next) >= Rank(e.type) /\ Reach("failed") >= Rank(e.type)
    BY <1>5, <1>6
  <2>2. QED
    BY <1>3, <1>5, <1>6, <2>1, Emits
<1>8. ~Holds(emitted', "llm.failed") /\ ~Holds(emitted', "message.written")
  BY <1>6, <1>7, BeforeFacts
<1>9. Owes(emitted)'
  BY <1>6, <1>7, <1>8 DEF Owes, Before
<1>10. QED
  BY <1>3, <1>6, <1>7, <1>9 DEF Inv, NodeTyped

LEMMA LLMFailedKeeps == ASSUME Inv, LLMFailed PROVE Inv'
<1>1. pc = "failed" /\ Emit(Event("llm.failed"), "error", "error") /\ UNCHANGED <<spec, outcome>>
  BY DEF LLMFailed, AfterFailure
<1>2. PICK e : e = Event("llm.failed")
  OBVIOUS
<1>3. e.type = "llm.failed" /\ e.type \in EventTypes /\ Rank(e.type) = 6
  BY <1>2 DEF Event, EventTypes, Rank
<1>4. "error" \in PC /\ pc \in Before /\ Reach(pc) = 5 /\ Reach("error") = 7
  BY <1>1 DEF PC, Before, Reach
<1>5. /\ pc' = "error" /\ bounds' \in [faults : Nat, resumes : Nat]
      /\ Typed(emitted') /\ Ordered(emitted') /\ Reached(emitted', pc')
      /\ \A t : Holds(emitted', t) => Holds(emitted, t) \/ t = "llm.failed"
      /\ Holds(emitted', "llm.failed") \/ bounds'.faults > 0
  <2>1. Rank(e.type) > Reach(pc) /\ Reach("error") >= Rank(e.type)
    BY <1>3, <1>4
  <2>2. QED
    BY <1>1, <1>2, <1>3, <1>4, <2>1, Emits
<1>6. ~Holds(emitted', "message.written")
  BY <1>4, <1>5, BeforeFacts
<1>7. Owes(emitted)'
  BY <1>5, <1>6 DEF Owes, Explained
<1>8. QED
  BY <1>1, <1>4, <1>5, <1>7 DEF Inv, NodeTyped

LEMMA LLMCompletedKeeps == ASSUME Inv, LLMCompleted PROVE Inv'
<1>1. PICK next : next = IF spec.writes THEN "write" ELSE "output"
  OBVIOUS
<1>2. /\ pc = "completed" /\ Emit(Event("llm.completed"), next, "error")
      /\ UNCHANGED <<spec, outcome>>
  BY <1>1 DEF LLMCompleted, Stage
<1>3. PICK e : e = Event("llm.completed")
  OBVIOUS
<1>4. e.type = "llm.completed" /\ e.type \in EventTypes /\ Rank(e.type) = 6
  BY <1>3 DEF Event, EventTypes, Rank
<1>5. /\ next \in PC /\ "error" \in PC /\ pc \in Before
      /\ Reach(pc) = 5 /\ Reach(next) >= 6 /\ Reach("error") = 7
  BY <1>1, <1>2 DEF PC, Before, Reach
<1>6. /\ bounds' \in [faults : Nat, resumes : Nat]
      /\ Typed(emitted') /\ Ordered(emitted') /\ Reached(emitted', pc')
      /\ \A t : Holds(emitted', t) => Holds(emitted, t) \/ t = "llm.completed"
      /\ (pc' = next /\ Holds(emitted', "llm.completed")) \/ (pc' = "error" /\ bounds'.faults > 0)
  <2>1. Rank(e.type) > Reach(pc) /\ Reach("error") >= Rank(e.type) /\ Reach(next) >= Rank(e.type)
    BY <1>4, <1>5
  <2>2. QED
    BY <1>2, <1>3, <1>4, <1>5, <2>1, Emits
<1>7. ~Holds(emitted', "message.written") /\ ~Holds(emitted', "llm.failed")
  BY <1>5, <1>6, BeforeFacts
<1>8. Owes(emitted)'
  BY <1>1, <1>2, <1>6, <1>7 DEF Owes, Explained, Complete
<1>9. QED
  BY <1>2, <1>5, <1>6, <1>8 DEF Inv, NodeTyped

LEMMA WriteKeeps == ASSUME Inv, Write PROVE Inv'
<1>1. PICK next \in {"written", "error"} : Go(next)
  BY DEF Write
<1>2. /\ pc = "write" /\ pc' = next /\ next \in PC
      /\ UNCHANGED <<spec, emitted, bounds, outcome>>
  BY <1>1 DEF Write, Go, PC
<1>3. Reached(emitted, pc')
  <2>1. PICK log : log = emitted
    OBVIOUS
  <2>2. "write" \in PC /\ Reach("write") = 6 /\ Reach(next) \in {6, 7}
    BY DEF PC, Reach
  <2>3. Typed(log) /\ Reached(log, "write")
    BY <1>2, <2>1 DEF Inv
  <2>4. Reached(log, next)
    BY <1>2, <2>2, <2>3, ReachedLater
  <2>5. QED
    BY <1>2, <2>1, <2>4
<1>4. spec.writes /\ Holds(emitted, "llm.completed") /\ ~Holds(emitted, "llm.failed")
  BY <1>2 DEF Inv, Owes
<1>5. Owes(emitted)'
  BY <1>2, <1>4 DEF Owes, Explained
<1>6. QED
  BY <1>2, <1>3, <1>5 DEF Inv, NodeTyped

LEMMA MessageWrittenKeeps == ASSUME Inv, MessageWritten PROVE Inv'
<1>1. /\ pc = "written" /\ Emit(Event("message.written"), "output", "error")
      /\ UNCHANGED <<spec, outcome>>
  BY DEF MessageWritten, Stage
<1>2. PICK e : e = Event("message.written")
  OBVIOUS
<1>3. e.type = "message.written" /\ e.type \in EventTypes /\ Rank(e.type) = 7
  BY <1>2 DEF Event, EventTypes, Rank
<1>4. /\ "output" \in PC /\ "error" \in PC
      /\ Reach(pc) = 6 /\ Reach("output") = 7 /\ Reach("error") = 7
  BY <1>1 DEF PC, Reach
<1>5. spec.writes /\ Holds(emitted, "llm.completed") /\ ~Holds(emitted, "llm.failed")
  BY <1>1 DEF Inv, Owes
<1>6. /\ pc' \in {"output", "error"} /\ bounds' \in [faults : Nat, resumes : Nat]
      /\ Typed(emitted') /\ Ordered(emitted') /\ Reached(emitted', pc')
      /\ Holds(emitted', "llm.completed") /\ ~Holds(emitted', "llm.failed")
      /\ pc' = "output" => Holds(emitted', "message.written")
  <2>1. Rank(e.type) > Reach(pc) /\ Reach("error") >= Rank(e.type) /\ Reach("output") >= Rank(e.type)
    BY <1>3, <1>4
  <2>2. QED
    BY <1>1, <1>2, <1>3, <1>4, <1>5, <2>1, Emits
<1>7. Owes(emitted)'
  BY <1>1, <1>5, <1>6 DEF Owes, Explained, Complete
<1>8. QED
  BY <1>1, <1>4, <1>6, <1>7 DEF Inv, NodeTyped

LEMMA ReturnKeeps ==
  ASSUME Inv, NEW o, Return(o),
         IF o = "error" THEN Explained(emitted) ELSE Complete(emitted),
         Holds(emitted, "llm.failed") => o = "error"
  PROVE  Inv'
<1>1. pc' = "returned" /\ outcome' = o /\ UNCHANGED <<spec, emitted, bounds>>
  BY DEF Return
<1>2. Reached(emitted, pc')
  <2>1. \A i \in DOMAIN emitted : Rank(emitted[i].type) \in 1 .. 7
    BY Ranks DEF Inv, Typed
  <2>2. Reach("returned") = 7
    BY DEF Reach
  <2>3. QED
    BY <1>1, <2>1, <2>2 DEF Reached
<1>3. Owes(emitted)'
  BY <1>1 DEF Inv, Owes, Explained, Complete, CannotStream, provider
<1>4. QED
  BY <1>1, <1>2, <1>3 DEF Inv, NodeTyped, PC

LEMMA AgainKeeps == ASSUME Inv, Again PROVE Inv'
<1>1. emitted' = <<>> /\ pc' = "resolve" /\ UNCHANGED spec
  BY DEF Again
<1>2. bounds' \in [faults : Nat, resumes : Nat]
  BY DEF Again, Inv, NodeTyped
<1>3. Typed(emitted') /\ Ordered(emitted') /\ Reached(emitted', pc') /\ \A type : ~Holds(emitted', type)
  BY <1>1 DEF Typed, IsLog, Ordered, Reached, Holds
<1>4. QED
  BY <1>1, <1>2, <1>3 DEF Inv, NodeTyped, PC, Owes

LEMMA Steps == Inv /\ [Next]_vars => Inv'
<1> SUFFICES ASSUME Inv, [Next]_vars PROVE Inv'
  OBVIOUS
<1>1. CASE UNCHANGED vars
  BY <1>1 DEF vars, Inv, NodeTyped, Owes, Explained, Complete, CannotStream, provider
<1>2. CASE Resolve \/ Adjust \/ Estimate \/ Call \/ Chat
  <2>1. /\ pc \in Before /\ pc' \in Before \cup {"error"} /\ Reach(pc) <= Reach(pc')
        /\ pc' = "error" => Reach(pc) < 4 \/ CannotStream
        /\ UNCHANGED <<spec, emitted, bounds, outcome>>
    BY <1>2 DEF Resolve, Adjust, Estimate, Call, Chat, Go, Before, PC, Reach
  <2>2. Reach(pc) < 4 => ~Holds(emitted, "llm.started")
    BY <2>1, Unreached DEF Inv, Before
  <2>3. QED
    BY <2>1, <2>2, QuietKeeps
<1>3. ASSUME NEW item \in Items(provider), Item(item) PROVE Inv'
  <2>1. /\ pc = "stream" /\ pc' \in {"stream", "failed"}
        /\ UNCHANGED <<spec, emitted, bounds, outcome>>
    BY <1>3 DEF Item
  <2>2. QED
    BY <2>1, QuietKeeps DEF Before, PC, Reach
<1>4. CASE StreamEnd \/ Assemble
  <2>1. /\ pc \in {"stream", "assemble"} /\ pc' \in {"close", "failed", "completed"}
        /\ UNCHANGED <<spec, emitted, bounds, outcome>>
    BY <1>4 DEF StreamEnd, Assemble
  <2>2. QED
    BY <2>1, QuietKeeps DEF Before, PC, Reach
<1>5. CASE MessageRead \/ PromptRendered \/ PromptEstimated \/ LLMStarted
  <2>1. CASE MessageRead
    BY <2>1, StageKeeps DEF MessageRead, Before, PC, EventTypes, Reach, Rank
  <2>2. CASE PromptRendered
    BY <2>2, StageKeeps DEF PromptRendered, Before, PC, EventTypes, Reach, Rank
  <2>3. CASE PromptEstimated
    BY <2>3, StageKeeps DEF PromptEstimated, Before, PC, EventTypes, Reach, Rank
  <2>4. CASE LLMStarted
    BY <2>4, StageKeeps DEF LLMStarted, Before, PC, EventTypes, Reach, Rank
  <2>5. QED
    BY <1>5, <2>1, <2>2, <2>3, <2>4
<1>6. CASE Output
  <2>1. PICK o : Return(o)
    BY <1>6 DEF Output
  <2>2. Complete(emitted) /\ ~Holds(emitted, "llm.failed")
    BY <1>6 DEF Output, Inv, Owes
  <2>3. QED
    BY <2>1, <2>2, ReturnKeeps DEF Complete, Explained
<1>7. CASE Error
  <2>1. Return("error") /\ Explained(emitted)
    BY <1>7 DEF Error, Inv, Owes
  <2>2. QED
    BY <2>1, ReturnKeeps
<1>8. CASE Stop
  BY <1>1, <1>8 DEF Stop
<1>9. QED
  BY <1>1, <1>2, <1>3, <1>4, <1>5, <1>6, <1>7, <1>8, HandKeeps, LLMFailedKeeps,
     LLMCompletedKeeps, WriteKeeps, MessageWrittenKeeps, AgainKeeps DEF Next

LEMMA ProtocolInductive == Spec => []Inv
  BY Starts, Steps, PTL DEF Spec

(* The events of every attempt of the node are in order, and say how it    *)
(* ended.                                                                  *)
THEOREM ProtocolKept == Spec => []EventProtocol
<1>1. Inv => EventProtocol
  BY DEF Inv, Ordered, Owes, Explained, Complete, EventProtocol, Has, Holds
<1>2. QED
  BY ProtocolInductive, <1>1, PTL

-----------------------------------------------------------------------------
(* What a stream hands over and what it returns.                           *)

(* How many elements of S come no later than s.                            *)
Place(S, s) == Cardinality({t \in S : t <= s})

(* A finite set of numbers has a largest one, and one at every place, by   *)
(* induction over its size.                                                *)
LEMMA PlacesFilled ==
  ASSUME NEW S \in SUBSET Int, IsFiniteSet(S)
  PROVE  \A k \in 1 .. Cardinality(S) : \E s \in S : Place(S, s) = k
<1> DEFINE G(R) == /\ R # {} => \E m \in R : \A r \in R : r <= m
                   /\ \A k \in 1 .. Cardinality(R) : \E s \in R : Place(R, s) = k
           T == {n \in Nat : \A R \in SUBSET Int : IsFiniteSet(R) /\ Cardinality(R) = n => G(R)}
<1>1. 0 \in T
  <2> SUFFICES ASSUME NEW R \in SUBSET Int, IsFiniteSet(R), Cardinality(R) = 0 PROVE G(R)
    OBVIOUS
  <2>1. R = {}
    BY FS_EmptySet
  <2>2. QED
    BY <2>1
<1>2. ASSUME NEW n \in Nat, n \in T PROVE n + 1 \in T
  <2> SUFFICES ASSUME NEW R \in SUBSET Int, IsFiniteSet(R), Cardinality(R) = n + 1 PROVE G(R)
    OBVIOUS
  <2>1. R # {}
    BY FS_EmptySet
  <2>2. \E m \in R : \A r \in R : r <= m
    <3>1. PICK x \in R : TRUE
      BY <2>1
    <3>2. R \ {x} \in SUBSET Int /\ IsFiniteSet(R \ {x}) /\ Cardinality(R \ {x}) = n
      <4>1. x \in R /\ (n + 1) - 1 = n
        OBVIOUS
      <4>2. IsFiniteSet(R \ {x}) /\ Cardinality(R \ {x}) = Cardinality(R) - 1
        BY <4>1, FS_RemoveElement
      <4>3. QED
        BY <4>1, <4>2
    <3>3. G(R \ {x})
      BY <1>2, <3>2
    <3>4. CASE R \ {x} = {}
      <4>1. \A r \in R : r = x
        BY <3>4
      <4>2. QED
        BY <4>1
    <3>5. CASE R \ {x} # {}
      <4>1. PICK m \in R \ {x} : \A r \in R \ {x} : r <= m
        BY <3>3, <3>5
      <4>2. m \in R /\ m \in Int /\ x \in Int /\ \A r \in R : r = x \/ r <= m
        BY <4>1
      <4>3. CASE x <= m
        BY <4>2, <4>3
      <4>4. CASE m <= x
        <5>1. \A r \in R : r \in Int
          OBVIOUS
        <5>2. QED
          BY <4>2, <4>4, <5>1
      <4>5. QED
        BY <4>2, <4>3, <4>4
    <3>6. QED
      BY <3>4, <3>5
  <2>3. PICK m \in R : \A r \in R : r <= m
    BY <2>2
  <2> DEFINE rest == R \ {m}
  <2>4. rest \in SUBSET Int /\ IsFiniteSet(rest) /\ Cardinality(rest) = n
    BY FS_RemoveElement
  <2>5. G(rest)
    BY <1>2, <2>4
  <2>6. ASSUME NEW k \in 1 .. n + 1 PROVE \E s \in R : Place(R, s) = k
    <3>1. CASE k = n + 1
      <4>1. {t \in R : t <= m} = R
        BY <2>3
      <4>2. QED
        BY <3>1, <4>1 DEF Place
    <3>2. CASE k \in 1 .. n
      <4>1. PICK s \in rest : Place(rest, s) = k
        BY <2>4, <2>5, <3>2
      <4>2. s \in R /\ s \in Int /\ m \in Int /\ s <= m /\ s # m
        BY <2>3, <4>1
      <4>3. ~(m <= s)
        BY <4>2
      <4>4. {t \in rest : t <= s} = {t \in R : t <= s}
        BY <4>3
      <4>5. QED
        BY <4>1, <4>2, <4>4 DEF Place
    <3>3. QED
      BY <3>1, <3>2
  <2>7. QED
    BY <2>2, <2>6
<1>3. \A n \in Nat : n \in T
  <2> HIDE DEF T
  <2>1. QED
    BY <1>1, <1>2, NatSetInduction
<1>4. Cardinality(S) \in Nat
  BY FS_CardinalityType
<1>5. QED
  BY <1>3, <1>4

LEMMA PlaceFacts ==
  ASSUME NEW S \in SUBSET Int, IsFiniteSet(S)
  PROVE  /\ \A s \in S : Place(S, s) \in 1 .. Cardinality(S)
         /\ \A s, t \in S : s < t => Place(S, s) < Place(S, t)
<1> DEFINE U(s) == {t \in S : t <= s}
<1>1. ASSUME NEW s \in S PROVE IsFiniteSet(U(s)) /\ Cardinality(U(s)) \in 1 .. Cardinality(S)
  <2>1. IsFiniteSet(U(s)) /\ Cardinality(U(s)) <= Cardinality(S)
    BY FS_Subset
  <2>2. s \in U(s)
    OBVIOUS
  <2>3. Cardinality(U(s)) # 0
    BY <2>1, <2>2, FS_EmptySet
  <2>4. Cardinality(U(s)) \in Nat /\ Cardinality(S) \in Nat
    BY <2>1, FS_CardinalityType
  <2> HIDE DEF U
  <2>5. QED
    BY <2>1, <2>3, <2>4
<1>2. ASSUME NEW s \in S, NEW t \in S, s < t PROVE Cardinality(U(s)) < Cardinality(U(t))
  <2>1. s \in Int /\ t \in Int
    OBVIOUS
  <2>2. \A r \in S : r \in Int /\ (r <= s => r <= t)
    BY <1>2
  <2>3. U(s) \subseteq U(t)
    BY <2>2
  <2>4. t \in U(t) /\ t \notin U(s)
    BY <1>2
  <2>5. IsFiniteSet(U(t)) /\ Cardinality(U(s)) \in Nat /\ Cardinality(U(t)) \in Nat
    <3>1. Cardinality(S) \in Nat
      BY FS_CardinalityType
    <3>2. QED
      BY <1>1, <3>1
  <2> HIDE DEF U
  <2>6. Cardinality(U(s)) <= Cardinality(U(t)) /\ (Cardinality(U(s)) = Cardinality(U(t)) => U(s) = U(t))
    BY <2>3, <2>5, FS_Subset
  <2>7. QED
    BY <2>4, <2>5, <2>6
<1>3. QED
  BY <1>1, <1>2 DEF Place

(* Sorting: the elements in their order, each once.                        *)
LEMMA AscendingIs ==
  ASSUME NEW S \in SUBSET Int, IsFiniteSet(S)
  PROVE  /\ Ascending(S) \in Seq(S)
         /\ DOMAIN Ascending(S) = 1 .. Cardinality(S)
         /\ \A s \in S : \E k \in DOMAIN Ascending(S) : Ascending(S)[k] = s
         /\ \A i, j \in DOMAIN Ascending(S) : i < j => Ascending(S)[i] < Ascending(S)[j]
<1>1. Cardinality(S) \in Nat
  BY FS_CardinalityType
<1>2. ASSUME NEW k \in 1 .. Cardinality(S) PROVE Nth(S, k) \in S /\ Place(S, Nth(S, k)) = k
  <2>1. \E s \in S : Cardinality({t \in S : t <= s}) = k
    BY PlacesFilled DEF Place
  <2>2. QED
    BY <2>1 DEF Nth, Place
<1>3. \A k \in 1 .. Cardinality(S) : Ascending(S)[k] = Nth(S, k)
  BY DEF Ascending
<1>4. DOMAIN Ascending(S) = 1 .. Cardinality(S)
  BY DEF Ascending
<1>5. Ascending(S) \in Seq(S)
  <2>1. Ascending(S) \in [1 .. Cardinality(S) -> S]
    BY <1>2 DEF Ascending
  <2>2. QED
    BY <1>1, <2>1
<1>6. ASSUME NEW s \in S, NEW t \in S, Place(S, s) = Place(S, t) PROVE s = t
  <2>1. s \in Int /\ t \in Int /\ Place(S, s) \in Int /\ Place(S, t) \in Int
    BY PlaceFacts
  <2>2. ~(s < t) /\ ~(t < s)
    BY <1>6, <2>1, PlaceFacts
  <2>3. QED
    BY <2>1, <2>2
<1>7. ASSUME NEW s \in S PROVE \E k \in DOMAIN Ascending(S) : Ascending(S)[k] = s
  <2>1. Place(S, s) \in 1 .. Cardinality(S)
    BY PlaceFacts
  <2>2. Nth(S, Place(S, s)) = s
    BY <1>2, <1>6, <2>1
  <2>3. QED
    BY <1>3, <1>4, <2>1, <2>2
<1>8. ASSUME NEW i \in 1 .. Cardinality(S), NEW j \in 1 .. Cardinality(S), i < j
      PROVE  Nth(S, i) < Nth(S, j)
  <2>1. /\ Nth(S, i) \in S /\ Nth(S, j) \in S
        /\ Place(S, Nth(S, i)) = i /\ Place(S, Nth(S, j)) = j
    BY <1>2
  <2>2. PICK s \in S, t \in S : s = Nth(S, i) /\ t = Nth(S, j)
    BY <2>1
  <2>3. s \in Int /\ t \in Int /\ Place(S, s) < Place(S, t)
    BY <1>8, <2>1, <2>2
  <2>4. ~(t < s) /\ s # t
    BY <2>3, PlaceFacts
  <2>5. s < t
    BY <2>3, <2>4
  <2>6. QED
    BY <2>2, <2>5
<1>9. QED
  BY <1>3, <1>4, <1>5, <1>7, <1>8

-----------------------------------------------------------------------------
(* Calls on the wire.  What has been read of a call is in its part.        *)
CallType == [id : Nat, name : Nat, arguments : Seq(Nat)]
Fields == {"id", "name", "arguments"}
OwnerOf(s) == IF provider = "openai" THEN s ELSE draft.part[s].name

Drafted ==
  /\ draft = [seen |-> draft.seen, text |-> draft.text, usage |-> draft.usage, order |-> draft.order,
              part |-> draft.part, aside |-> draft.aside, final |-> draft.final, calls |-> draft.calls]
  /\ draft.seen = Len(wire)
  /\ draft.text \in Seq(Nat) /\ draft.usage \in Nat /\ draft.final \in Nat /\ draft.calls \in Nat
  /\ draft.usage <= Len(wire)
  /\ draft.aside \in BOOLEAN /\ (draft.aside <=> AfterText(Len(wire) + 1))

(* The calls that were begun, in order.                                    *)
Begun(order, part) ==
  /\ order \in Seq(Int) /\ DOMAIN part \subseteq Int
  /\ \A k \in 1 .. Len(order) : order[k] \in DOMAIN part
  /\ \A s \in DOMAIN part : \E k \in 1 .. Len(order) : order[k] = s
  /\ provider # "openai" => \A k \in 1 .. Len(order) : order[k] = k
  /\ part = [s \in DOMAIN part |-> part[s]]
  /\ \A s \in DOMAIN part : part[s] \in CallType

(* Of an owner, a call has what it brought.                                *)
Holding(call, owner) ==
  /\ Latest(call.id, Bringing(owner, "id"))
  /\ Latest(call.name, Bringing(owner, "name"))
  /\ Lists(call.arguments, Bringing(owner, "arguments"))

Summed ==
  /\ \A n \in CallItems : \E s \in DOMAIN draft.part : Owner(n) = OwnerOf(s)
  /\ \A s \in DOMAIN draft.part : Holding(draft.part[s], OwnerOf(s))
  /\ provider # "openai" =>
       /\ \A s \in DOMAIN draft.part : draft.part[s].name # 0
       /\ \A s, t \in DOMAIN draft.part : s < t => draft.part[s].name < draft.part[t].name

Read == /\ wire \in Seq(Items(provider)) /\ provider \in Streaming
        /\ Drafted /\ Begun(draft.order, draft.part)
        /\ provider # "responses" => Summed

LEMMA MaxIs ==
  ASSUME NEW S \in SUBSET Int, NEW x \in S, \A y \in S : y <= x
  PROVE  Max(S) = x
<1>1. x \in Int /\ \A y \in S : y \in Int /\ x >= y
  OBVIOUS
<1>2. \E m \in S : \A y \in S : m >= y
  BY <1>1
<1>3. Max(S) \in S /\ \A y \in S : Max(S) >= y
  BY <1>2 DEF Max
<1>4. PICK m \in Int : m = Max(S) /\ m >= x /\ x >= m
  BY <1>1, <1>3
<1>5. QED
  BY <1>1, <1>4

(* Items are where the wire has them.                                      *)
LEMMA CallItemsTyped ==
  ASSUME Read
  PROVE  Len(wire) \in Nat /\ CallItems \subseteq 1 .. Len(wire)
  BY DEF Read, CallItems

LEMMA ReadStays ==
  ASSUME Read, UNCHANGED <<spec, wire, draft>>
  PROVE  Read'
<1>1. provider' = provider
  BY DEF provider
<1>2. \A f, o : Bringing(o, f)' = Bringing(o, f)
  BY <1>1 DEF Bringing, CallItems, Owner, Naming, AfterText
<1>3. \A n : Owner(n)' = Owner(n)
  BY <1>1 DEF CallItems, Owner, Naming, AfterText
<1>4. CallItems' = CallItems
  BY <1>1 DEF CallItems, Naming, AfterText
<1>5. \A s : OwnerOf(s)' = OwnerOf(s)
  BY <1>1 DEF OwnerOf
<1>6. Summed => Summed'
  BY <1>1, <1>2, <1>3, <1>4, <1>5 DEF Summed, Holding
<1>7. Drafted'
  BY DEF Drafted, Read, AfterText, Naming
<1>8. Begun(draft.order, draft.part)'
  BY <1>1 DEF Begun, Read
<1>9. QED
  BY <1>1, <1>6, <1>7, <1>8 DEF Read

LEMMA NothingRead ==
  ASSUME wire = <<>>, draft = NewDraft, provider \in Streaming
  PROVE  Read
<1>1. CallItems = {}
  BY DEF CallItems
<1>2. /\ draft.order = <<>> /\ draft.part = <<>> /\ draft.seen = 0 /\ draft.text = <<>>
      /\ draft.usage = 0 /\ draft.aside = FALSE /\ draft.final = 0 /\ draft.calls = 0
  BY DEF NewDraft
<1>3. DOMAIN draft.part = {} /\ Len(draft.order) = 0 /\ Len(wire) = 0
  BY <1>2
<1>4. Drafted
  <2>1. ~AfterText(Len(wire) + 1)
    BY <1>3 DEF AfterText
  <2>2. QED
    BY <1>2, <1>3, <2>1 DEF Drafted, NewDraft
<1>5. Begun(draft.order, draft.part)
  <2>1. draft.order \in Seq(Int) /\ draft.part = [s \in DOMAIN draft.part |-> draft.part[s]]
    BY <1>2
  <2>2. QED
    BY <1>3, <2>1 DEF Begun
<1>6. Summed
  BY <1>1, <1>3 DEF Summed
<1>7. wire \in Seq(Items(provider))
  OBVIOUS
<1>8. QED
  BY <1>4, <1>5, <1>6, <1>7 DEF Read

(* One more item.                                                          *)
Grows(item) ==
  Read /\ item \in Items(provider) /\ wire' = Append(wire, item) /\ UNCHANGED spec

LEMMA Grown ==
  ASSUME NEW item, Grows(item)
  PROVE  /\ Len(wire) \in Nat /\ DOMAIN wire = 1 .. Len(wire)
         /\ wire' \in Seq(Items(provider)) /\ provider' = provider
         /\ Len(wire') = Len(wire) + 1 /\ DOMAIN wire' = 1 .. Len(wire) + 1
         /\ wire'[Len(wire) + 1] = item
         /\ \A m \in 1 .. Len(wire) : wire'[m] = wire[m]
<1>1. wire \in Seq(Items(provider)) /\ item \in Items(provider) /\ wire' = Append(wire, item)
  BY DEF Grows, Read
<1>2. provider' = provider
  BY DEF Grows, provider
<1>3. PICK S, w, new : S = Items(provider) /\ w = wire /\ new = wire'
  OBVIOUS
<1>4. w \in Seq(S) /\ item \in S /\ new = Append(w, item)
  BY <1>1, <1>3
<1>5. /\ Len(w) \in Nat /\ DOMAIN w = 1 .. Len(w)
      /\ new \in Seq(S)
      /\ Len(new) = Len(w) + 1 /\ DOMAIN new = 1 .. Len(w) + 1
      /\ new[Len(w) + 1] = item
      /\ \A m \in 1 .. Len(w) : new[m] = w[m]
  BY <1>4
<1>6. QED
  BY <1>2, <1>3, <1>5

(* Whether a text or thinking came since the last name.                    *)
LEMMA AfterTextGrows ==
  ASSUME NEW item, Grows(item), NEW n, n = Len(wire) + 1
  PROVE  /\ \A m \in 1 .. n : AfterText(m)' <=> AfterText(m)
         /\ AfterText(n + 1)' <=> Aside(draft, item)
<1>1. /\ n \in Nat /\ wire'[n] = item
      /\ \A m \in 1 .. n - 1 : wire'[m] = wire[m] /\ (Naming(m)' <=> Naming(m))
      /\ Naming(n)' <=> "name" \in item.gives
  <2>1. Len(wire) \in Nat /\ wire'[n] = item /\ \A m \in 1 .. Len(wire) : wire'[m] = wire[m]
    BY Grown
  <2>2. QED
    BY <2>1 DEF Naming
<1>2. ASSUME NEW m \in 1 .. n PROVE AfterText(m)' <=> AfterText(m)
  <2>1. \A k \in 1 .. m - 1 : k \in 1 .. n - 1 /\ \A j \in k + 1 .. m - 1 : j \in 1 .. n - 1
    BY <1>1
  <2>2. \A k \in 1 .. m - 1 : wire'[k] = wire[k] /\ \A j \in k + 1 .. m - 1 : Naming(j)' <=> Naming(j)
    BY <1>1, <2>1
  <2>3. QED
    BY <2>2 DEF AfterText
<1>3. AfterText(n + 1)' <=> item.kind \in {"text", "thinking"} \/ (AfterText(n) /\ "name" \notin item.gives)
  <2>1. \A k : k \in 1 .. (n + 1) - 1 <=> k \in 1 .. n - 1 \/ k = n
    BY <1>1
  <2>2. \A j : ~(j \in n + 1 .. (n + 1) - 1)
    BY <1>1
  <2>3. \A k \in 1 .. n - 1 : \A j : j \in k + 1 .. (n + 1) - 1 <=> j \in k + 1 .. n - 1 \/ j = n
    BY <1>1
  <2>4. \A k \in 1 .. n - 1 : \A j \in k + 1 .. n - 1 : Naming(j)' <=> Naming(j)
    <3>1. \A k \in 1 .. n - 1 : \A j \in k + 1 .. n - 1 : j \in 1 .. n - 1
      BY <1>1
    <3>2. QED
      BY <1>1, <3>1
  <2>5. \A k \in 1 .. n - 1 :
          (\A j \in k + 1 .. (n + 1) - 1 : ~Naming(j)') <=>
             (\A j \in k + 1 .. n - 1 : ~Naming(j)) /\ "name" \notin item.gives
    BY <1>1, <2>3, <2>4
  <2>6. AfterText(n + 1)' <=>
          \E k \in 1 .. (n + 1) - 1 :
            /\ wire'[k].kind \in {"text", "thinking"}
            /\ \A j \in k + 1 .. (n + 1) - 1 : ~Naming(j)'
    BY DEF AfterText
  <2>7. AfterText(n) <=>
          \E k \in 1 .. n - 1 :
            /\ wire[k].kind \in {"text", "thinking"}
            /\ \A j \in k + 1 .. n - 1 : ~Naming(j)
    BY DEF AfterText
  <2>8. QED
    BY <1>1, <2>1, <2>2, <2>5, <2>6, <2>7
<1>4. draft.aside <=> AfterText(n)
  BY DEF Grows, Read, Drafted
<1>5. QED
  BY <1>2, <1>3, <1>4 DEF Aside

(* The items that a call is made of.                                       *)
Counted(item) == item.kind = "call" /\ ~Stray(provider, draft, item)

LEMMA CallItemsGrow ==
  ASSUME NEW item, Grows(item), NEW n, n = Len(wire) + 1
  PROVE  /\ CallItems \subseteq 1 .. Len(wire)
         /\ CallItems' = CallItems \cup (IF Counted(item) THEN {n} ELSE {})
         /\ \A m \in CallItems : Naming(m)' <=> Naming(m)
         /\ Naming(n)' <=> "name" \in item.gives
<1>1. CallItems = {m \in 1 .. Len(wire) :
         wire[m].kind = "call" /\ ~(provider = "anthropic" /\ ~Naming(m) /\ AfterText(m))}
  BY Grown DEF CallItems
<1>2. CallItems' = {m \in 1 .. n :
         wire'[m].kind = "call" /\ ~(provider = "anthropic" /\ ~Naming(m)' /\ AfterText(m)')}
  BY Grown DEF CallItems
<1>3. Len(wire) \in Nat /\ wire'[n] = item /\ \A m \in 1 .. Len(wire) : wire'[m] = wire[m]
  BY Grown
<1>4. \A m : m \in 1 .. n <=> m \in 1 .. Len(wire) \/ m = n
  BY <1>3
<1>5. (\A m \in 1 .. Len(wire) : Naming(m)' <=> Naming(m)) /\ (Naming(n)' <=> "name" \in item.gives)
  BY <1>1, <1>3 DEF Naming
<1>6. CallItems' = CallItems \cup (IF Counted(item) THEN {n} ELSE {})
  <2>1. \A m \in 1 .. Len(wire) : AfterText(m)' <=> AfterText(m)
    BY <1>4, AfterTextGrows
  <2>2. AfterText(n)' <=> draft.aside
    <3>1. AfterText(n)' <=> AfterText(n)
      BY <1>4, AfterTextGrows
    <3>2. QED
      BY <3>1 DEF Grows, Read, Drafted
  <2>3. \A m \in 1 .. Len(wire) : m \in CallItems' <=> m \in CallItems
    BY <1>1, <1>2, <1>3, <1>4, <1>5, <2>1
  <2>4. n \in CallItems' <=> Counted(item)
    BY <1>2, <1>3, <1>4, <1>5, <2>2 DEF Counted, Stray
  <2>5. n \notin CallItems
    BY <1>1, <1>3
  <2>6. \A m : m \in CallItems' <=> m \in CallItems \/ (m = n /\ Counted(item))
    BY <1>1, <1>2, <1>4, <2>3, <2>4, <2>5
  <2>7. QED
    BY <2>6
<1>7. CallItems \subseteq 1 .. Len(wire)
  BY <1>1
<1>8. QED
  BY <1>5, <1>6, <1>7

LEMMA OwnerStays ==
  ASSUME NEW item, Grows(item), NEW m \in CallItems
  PROVE  Owner(m)' = Owner(m)
<1>1. /\ Len(wire) \in Nat /\ provider' = provider /\ wire'[m] = wire[m]
      /\ m \in 1 .. Len(wire)
      /\ CallItems \subseteq 1 .. Len(wire)
      /\ \A k : k \in CallItems' => k \in CallItems \/ k = Len(wire) + 1
      /\ CallItems \subseteq CallItems'
      /\ \A k \in CallItems : Naming(k)' <=> Naming(k)
  BY Grown, CallItemsGrow
<1>2. {k \in CallItems' : k <= m /\ Naming(k)'} = {k \in CallItems : k <= m /\ Naming(k)}
  <2>1. ~(Len(wire) + 1 <= m)
    BY <1>1
  <2>2. QED
    BY <1>1, <2>1
<1>3. CASE provider = "anthropic"
  BY <1>1, <1>2, <1>3 DEF Owner
<1>4. CASE provider # "anthropic"
  BY <1>1, <1>4 DEF Owner
<1>5. QED
  BY <1>3, <1>4

LEMMA OtherItem ==
  ASSUME NEW item, Grows(item), ~Counted(item)
  PROVE  /\ CallItems' = CallItems
         /\ \A o, f : Bringing(o, f)' = Bringing(o, f)
<1>1. /\ CallItems' = CallItems /\ CallItems \subseteq 1 .. Len(wire)
      /\ \A m \in 1 .. Len(wire) : wire'[m] = wire[m]
  BY Grown, CallItemsGrow
<1>2. \A m \in CallItems : Owner(m)' = Owner(m)
  BY OwnerStays
<1>3. QED
  BY <1>1, <1>2 DEF Bringing

LEMMA BringingGrows ==
  ASSUME NEW item, Grows(item), Counted(item), NEW n, n = Len(wire) + 1
  PROVE  \A o, f : Bringing(o, f)' = Bringing(o, f) \cup (IF Owner(n)' = o /\ f \in item.gives THEN {n} ELSE {})
<1>1. /\ CallItems' = CallItems \cup {n} /\ CallItems \subseteq 1 .. Len(wire)
      /\ wire'[n] = item
      /\ \A m \in 1 .. Len(wire) : wire'[m] = wire[m]
  BY Grown, CallItemsGrow
<1>2. \A m \in CallItems : Owner(m)' = Owner(m)
  BY OwnerStays
<1>3. ASSUME NEW o, NEW f
      PROVE  \A m : m \in Bringing(o, f)' <=> m \in Bringing(o, f) \/ (m = n /\ Owner(n)' = o /\ f \in item.gives)
  BY <1>1, <1>2 DEF Bringing
<1>4. QED
  BY <1>3

(* Who owns the new item.                                                  *)
LEMMA NewOwner ==
  ASSUME NEW item, Grows(item), Counted(item), NEW n, n = Len(wire) + 1
  PROVE  /\ provider = "openai" => Owner(n)' = item.index
         /\ provider \in {"gemini", "responses"} => Owner(n)' = n
         /\ provider = "anthropic" /\ "name" \in item.gives => Owner(n)' = n
         /\ provider = "anthropic" /\ "name" \notin item.gives =>
              Owner(n)' = Max({m \in CallItems : Naming(m)})
<1>1. /\ CallItems' = CallItems \cup {n} /\ CallItems \subseteq 1 .. Len(wire) /\ provider' = provider
      /\ wire'[n] = item /\ Len(wire) \in Nat
      /\ \A m \in CallItems : Naming(m)' <=> Naming(m)
      /\ Naming(n)' <=> "name" \in item.gives
  BY Grown, CallItemsGrow
<1> DEFINE named == {m \in CallItems' : m <= n /\ Naming(m)'}
<1>2. \A m \in CallItems : m \in Int /\ m <= n
  BY <1>1
<1>3. CASE provider = "anthropic" /\ "name" \in item.gives
  <2>1. named \in SUBSET Int /\ n \in named /\ \A m \in named : m <= n
    <3>1. n \in Int /\ n <= n
      BY <1>1
    <3>2. n \in CallItems' /\ Naming(n)'
      BY <1>1, <1>3
    <3>3. \A m \in CallItems' : m \in Int
      BY <1>1, <1>2, <3>1
    <3>4. QED
      BY <3>1, <3>2, <3>3
  <2> HIDE DEF named
  <2>2. Max(named) = n
    BY <2>1, MaxIs
  <2>3. QED
    BY <1>1, <1>3, <2>2 DEF Owner, named
<1>4. CASE provider = "anthropic" /\ "name" \notin item.gives
  <2>1. named = {m \in CallItems : Naming(m)}
    BY <1>1, <1>2, <1>4
  <2>2. QED
    BY <1>1, <1>4, <2>1 DEF Owner
<1>5. CASE provider # "anthropic"
  BY <1>1, <1>5 DEF Owner
<1>6. QED
  BY <1>3, <1>4, <1>5

(* The part of the call that a new item belongs to.                        *)
LEMMA PartsInOrder ==
  ASSUME Read, provider # "openai"
  PROVE  Len(draft.order) \in Nat /\ DOMAIN draft.part = 1 .. Len(draft.order)
<1>1. Begun(draft.order, draft.part)
  BY DEF Read
<1>2. /\ draft.order \in Seq(Int)
      /\ \A k \in 1 .. Len(draft.order) : draft.order[k] \in DOMAIN draft.part
      /\ \A s \in DOMAIN draft.part : \E k \in 1 .. Len(draft.order) : draft.order[k] = s
      /\ \A k \in 1 .. Len(draft.order) : draft.order[k] = k
  BY <1>1 DEF Begun
<1>3. ASSUME NEW k \in 1 .. Len(draft.order) PROVE k \in DOMAIN draft.part
  <2>1. draft.order[k] \in DOMAIN draft.part
    BY <1>2
  <2>2. draft.order[k] = k
    BY <1>2
  <2>3. QED
    BY <2>1, <2>2
<1>4. ASSUME NEW s \in DOMAIN draft.part PROVE s \in 1 .. Len(draft.order)
  <2>1. PICK k \in 1 .. Len(draft.order) : draft.order[k] = s
    BY <1>2
  <2>2. draft.order[k] = k
    BY <1>2
  <2>3. QED
    BY <2>1, <2>2
<1>5. Len(draft.order) \in Nat
  BY <1>2
<1>6. QED
  BY <1>3, <1>4, <1>5

LEMMA NamesOnWire ==
  ASSUME Read, provider # "responses", provider # "openai", NEW s \in DOMAIN draft.part
  PROVE  draft.part[s].name \in CallItems /\ Naming(draft.part[s].name)
<1>1. Latest(draft.part[s].name, Bringing(OwnerOf(s), "name")) /\ draft.part[s].name # 0
  BY DEF Read, Summed, Holding
<1>2. QED
  BY <1>1 DEF Latest, Bringing, Naming

LEMMA LatestName ==
  ASSUME Read, provider = "anthropic", draft.order # <<>>
  PROVE  Max({m \in CallItems : Naming(m)}) = draft.part[Len(draft.order)].name
<1>1. PICK l : l = Len(draft.order)
  OBVIOUS
<1>2. l \in Nat /\ l # 0 /\ DOMAIN draft.part = 1 .. l
  <2>1. draft.order \in Seq(Int)
    BY DEF Read, Begun
  <2>2. Len(draft.order) = 0 => draft.order = <<>>
    BY <2>1
  <2>3. QED
    BY <1>1, <2>2, PartsInOrder
<1>3. l \in DOMAIN draft.part
  BY <1>2
<1>4. draft.part[l].name \in CallItems /\ Naming(draft.part[l].name)
  BY <1>3, NamesOnWire
<1>5. \A k \in CallItems : k \in Int
  <2>1. Len(wire) \in Nat /\ CallItems \subseteq 1 .. Len(wire)
    BY CallItemsTyped
  <2>2. \A k \in 1 .. Len(wire) : k \in Int
    BY <2>1
  <2>3. QED
    BY <2>1, <2>2
<1>6. ASSUME NEW m \in CallItems, Naming(m) PROVE m <= draft.part[l].name
  <2>1. Owner(m) = m
    <3>1. m \in Int /\ m <= m
      BY <1>5
    <3>2. {k \in CallItems : k <= m /\ Naming(k)} \in SUBSET Int
      BY <1>5
    <3>3. m \in {k \in CallItems : k <= m /\ Naming(k)}
      BY <1>6, <3>1
    <3>4. Max({k \in CallItems : k <= m /\ Naming(k)}) = m
      BY <3>2, <3>3, MaxIs
    <3>5. QED
      BY <3>4 DEF Owner
  <2>2. PICK s \in DOMAIN draft.part : m = OwnerOf(s)
    BY <2>1 DEF Read, Summed
  <2>3. m = draft.part[s].name
    BY <2>2 DEF OwnerOf
  <2>4. s < l => draft.part[s].name < draft.part[l].name
    BY <1>3 DEF Read, Summed
  <2>5. m \in Int /\ draft.part[l].name \in Int
    BY <1>4, <1>5
  <2>6. QED
    BY <1>2, <2>3, <2>4, <2>5
<1>7. {m \in CallItems : Naming(m)} \in SUBSET Int
  BY <1>5
<1>8. draft.part[l].name \in {m \in CallItems : Naming(m)}
  BY <1>4
<1>9. QED
  BY <1>1, <1>6, <1>7, <1>8, MaxIs

(* The new item and what was read so far.                                  *)
Belongs(slot, o) ==
  /\ slot \in Int
  /\ \A t \in DOMAIN draft.part : t # slot => OwnerOf(t) # o
  /\ slot \in DOMAIN draft.part => OwnerOf(slot) = o
  /\ slot \notin DOMAIN draft.part => Bringing(o, "id") = {} /\ Bringing(o, "name") = {} /\ Bringing(o, "arguments") = {}
  /\ provider # "openai" => slot = IF slot \in DOMAIN draft.part THEN Len(draft.order) ELSE Len(draft.order) + 1

LEMMA NewSlot ==
  ASSUME NEW item, Grows(item), Counted(item), NEW n, n = Len(wire) + 1, provider # "responses",
         ~Breaks(provider, draft, item),
         NEW d, d.order = draft.order, NEW slot, slot = Slot(provider, d, item),
         NEW o, o = Owner(n)'
  PROVE  /\ Belongs(slot, o)
         /\ provider # "openai" =>
              o = IF "name" \in item.gives THEN n ELSE draft.part[slot].name
         /\ provider # "openai" /\ "name" \notin item.gives => slot \in DOMAIN draft.part
         /\ provider # "openai" /\ "name" \in item.gives => slot \notin DOMAIN draft.part
         /\ provider = "openai" => o = slot
<1>1. Read /\ item \in Items(provider)
  BY DEF Grows
<1>2. Len(wire) \in Nat /\ CallItems \subseteq 1 .. Len(wire) /\ n \notin 1 .. Len(wire)
  BY <1>1, CallItemsTyped
<1>3. CASE provider = "openai"
  <2>1. slot = item.index /\ o = item.index /\ slot \in Int
    <3>1. item.index \in Int
      BY <1>1, <1>3, LLMAssumption DEF Streaming
    <3>2. QED
      BY <1>3, <3>1, NewOwner DEF Slot
  <2>2. \A t : OwnerOf(t) = t
    BY <1>3 DEF OwnerOf
  <2>3. slot \notin DOMAIN draft.part => \A f : Bringing(o, f) = {}
    <3> SUFFICES ASSUME slot \notin DOMAIN draft.part, NEW f, NEW m \in Bringing(o, f) PROVE FALSE
      OBVIOUS
    <3>1. m \in CallItems /\ Owner(m) = slot
      BY <2>1 DEF Bringing
    <3>2. QED
      BY <1>1, <1>3, <2>2, <3>1 DEF Read, Summed
  <2>4. QED
    BY <1>3, <2>1, <2>2, <2>3 DEF Belongs
<1>4. CASE provider # "openai"
  <2>1. Len(draft.order) \in Nat /\ DOMAIN draft.part = 1 .. Len(draft.order)
    BY <1>1, <1>4, PartsInOrder
  <2>2. \A t \in DOMAIN draft.part : OwnerOf(t) = draft.part[t].name /\ draft.part[t].name \in 1 .. Len(wire)
    BY <1>1, <1>2, <1>4, NamesOnWire DEF OwnerOf
  <2>3. CASE "name" \in item.gives
    <3>1. o = n
      BY <1>1, <1>4, <2>3, NewOwner DEF Read, Streaming
    <3>2. slot = Len(draft.order) + 1
      BY <1>4, <2>3 DEF Slot
    <3>3. slot \notin DOMAIN draft.part /\ slot \in Int
      BY <2>1, <3>2
    <3>4. \A f : Bringing(o, f) = {}
      <4> SUFFICES ASSUME NEW f, NEW m \in Bringing(o, f) PROVE FALSE
        OBVIOUS
      <4>1. m \in CallItems /\ Owner(m) = n
        BY <3>1 DEF Bringing
      <4>2. PICK s \in DOMAIN draft.part : n = OwnerOf(s)
        BY <1>1, <4>1 DEF Read, Summed
      <4>3. QED
        BY <1>2, <2>2, <4>2
    <3>5. \A t \in DOMAIN draft.part : OwnerOf(t) # o
      BY <1>2, <2>2, <3>1
    <3>6. QED
      BY <1>4, <2>3, <3>1, <3>2, <3>3, <3>4, <3>5 DEF Belongs
  <2>4. CASE "name" \notin item.gives
    <3>1. provider = "anthropic"
      BY <1>1, <1>4, <2>4, LLMAssumption DEF Counted, Read, Streaming
    <3>2. draft.order # <<>>
      BY <2>4, <3>1 DEF Breaks, Counted, Stray
    <3>3. o = draft.part[Len(draft.order)].name
      BY <1>1, <2>4, <3>1, <3>2, NewOwner, LatestName
    <3>4. slot = Len(draft.order) /\ slot \in DOMAIN draft.part
      <4>1. Len(draft.order) # 0
        <5>1. draft.order \in Seq(Int)
          BY <1>1 DEF Read, Begun
        <5>2. Len(draft.order) = 0 => draft.order = <<>>
          BY <5>1
        <5>3. QED
          BY <3>2, <5>2
      <4>2. Last(draft.order) = Len(draft.order)
        <5>1. draft.order[Len(draft.order)] = Len(draft.order)
          BY <1>1, <1>4, <2>1, <4>1 DEF Read, Begun
        <5>2. QED
          BY <5>1 DEF Last
      <4>3. slot = Last(draft.order)
        BY <2>4, <3>1 DEF Slot
      <4>4. QED
        BY <2>1, <4>1, <4>2, <4>3
    <3>5. ASSUME NEW t \in DOMAIN draft.part, t # slot PROVE OwnerOf(t) # o
      <4>1. t < slot
        BY <2>1, <3>4, <3>5
      <4>2. draft.part[t].name < draft.part[slot].name
        BY <1>1, <1>4, <3>1, <3>4, <4>1 DEF Read, Summed
      <4>3. draft.part[t].name \in Int /\ draft.part[slot].name \in Int
        BY <2>2, <3>4
      <4>4. QED
        BY <2>2, <3>3, <3>4, <4>2, <4>3
    <3>6. slot \in Int /\ OwnerOf(slot) = o
      BY <2>1, <2>2, <3>3, <3>4
    <3>7. QED
      BY <1>4, <2>4, <3>3, <3>4, <3>5, <3>6 DEF Belongs
  <2>5. QED
    BY <2>3, <2>4
<1>5. QED
  BY <1>3, <1>4

(* A call item begins a call or extends one.                               *)
Extends(item, slot, n) ==
  /\ draft'.order = IF slot \in DOMAIN draft.part THEN draft.order ELSE Append(draft.order, slot)
  /\ draft'.part = [s \in DOMAIN draft.part \cup {slot} |->
       IF s = slot THEN Fill(IF slot \in DOMAIN draft.part THEN draft.part[slot] ELSE Blank, item, n)
       ELSE draft.part[s]]

LEMMA AbsorbedCall ==
  ASSUME NEW item, Grows(item), Counted(item), draft' = Absorb(provider, draft, item),
         NEW n, n = Len(wire) + 1
  PROVE  \E d, slot :
           /\ d.order = draft.order /\ slot = Slot(provider, d, item)
           /\ Extends(item, slot, n) /\ Drafted'
           /\ draft'.text = draft.text /\ draft'.usage = draft.usage
           /\ draft'.final = draft.final /\ draft'.calls = draft.calls
<1> DEFINE aside == Aside(draft, item)
           d == [draft EXCEPT !.seen = n, !.aside = aside]
           slot == Slot(provider, d, item)
<1>1. Drafted /\ Len(wire) \in Nat /\ Len(wire') = n
  BY Grown DEF Grows, Read
<1>2. draft.seen + 1 = n
  BY <1>1 DEF Drafted
<1>3. draft' = AbsorbCall(provider, d, item, n)
  BY <1>2 DEF Absorb, Counted
<1> HIDE DEF aside
<1>4. d = [seen |-> n, text |-> draft.text, usage |-> draft.usage, order |-> draft.order,
           part |-> draft.part, aside |-> aside, final |-> draft.final, calls |-> draft.calls]
  <2>1. draft = [seen |-> draft.seen, text |-> draft.text, usage |-> draft.usage, order |-> draft.order,
                 part |-> draft.part, aside |-> draft.aside, final |-> draft.final, calls |-> draft.calls]
    BY <1>1 DEF Drafted
  <2>2. PICK b : b = aside
    OBVIOUS
  <2>3. [draft EXCEPT !.seen = n, !.aside = b] =
          [seen |-> n, text |-> draft.text, usage |-> draft.usage, order |-> draft.order,
           part |-> draft.part, aside |-> b, final |-> draft.final, calls |-> draft.calls]
    <3>1. PICK e : e = [draft EXCEPT !.seen = n]
      OBVIOUS
    <3>2. e = [seen |-> n, text |-> draft.text, usage |-> draft.usage, order |-> draft.order,
               part |-> draft.part, aside |-> draft.aside, final |-> draft.final, calls |-> draft.calls]
      BY <2>1, <3>1
    <3>3. [draft EXCEPT !.seen = n, !.aside = b] = [e EXCEPT !.aside = b]
      BY <2>1, <3>1
    <3>4. [e EXCEPT !.aside = b] =
            [seen |-> n, text |-> draft.text, usage |-> draft.usage, order |-> draft.order,
             part |-> draft.part, aside |-> b, final |-> draft.final, calls |-> draft.calls]
      BY <3>2
    <3>5. QED
      BY <3>3, <3>4
  <2>4. QED
    BY <2>2, <2>3
<1> HIDE DEF d
<1>5. /\ d.order = draft.order /\ d.part = draft.part /\ d.text = draft.text
      /\ d.usage = draft.usage /\ d.final = draft.final /\ d.calls = draft.calls /\ d.seen = n
  BY <1>4
<1> DEFINE order == IF slot \in DOMAIN draft.part THEN draft.order ELSE Append(draft.order, slot)
           part == [s \in DOMAIN draft.part \cup {slot} |->
                IF s = slot THEN Fill(IF slot \in DOMAIN draft.part THEN draft.part[slot] ELSE Blank, item, n)
                ELSE draft.part[s]]
<1>6. draft' = [d EXCEPT !.order = order, !.part = part]
  BY <1>3, <1>5 DEF AbsorbCall
<1> HIDE DEF slot, order, part
<1>7. draft' = [seen |-> n, text |-> draft.text, usage |-> draft.usage, order |-> order,
                part |-> part, aside |-> aside, final |-> draft.final, calls |-> draft.calls]
  BY <1>4, <1>6
<1>8. /\ draft'.order = order /\ draft'.part = part /\ draft'.seen = n /\ draft'.aside = aside
      /\ draft'.text = draft.text /\ draft'.usage = draft.usage
      /\ draft'.final = draft.final /\ draft'.calls = draft.calls
  BY <1>7
<1>9. Drafted'
  <2>1. aside \in BOOLEAN /\ (aside <=> AfterText(n + 1)')
    <3>1. aside \in BOOLEAN
      BY DEF aside, Aside
    <3>2. QED
      BY <3>1, AfterTextGrows DEF aside
  <2>2. draft' = [seen |-> draft'.seen, text |-> draft'.text, usage |-> draft'.usage, order |-> draft'.order,
                  part |-> draft'.part, aside |-> draft'.aside, final |-> draft'.final, calls |-> draft'.calls]
    BY <1>7, <1>8
  <2>3. /\ draft'.seen = Len(wire') /\ draft'.text \in Seq(Nat) /\ draft'.usage \in Nat
        /\ draft'.final \in Nat /\ draft'.calls \in Nat
    BY <1>1, <1>8 DEF Drafted
  <2>4. draft'.usage <= Len(wire')
    BY <1>1, <1>8 DEF Drafted
  <2>5. QED
    BY <1>1, <1>8, <2>1, <2>2, <2>3, <2>4 DEF Drafted
<1>10. QED
  BY <1>5, <1>8, <1>9 DEF slot, order, part, Extends

(* A field that the item brings is the latest, and a piece the last.       *)
LEMMA LatestOne ==
  ASSUME NEW S \in SUBSET Int, NEW n \in Int, \A m \in S : m < n
  PROVE  Latest(n, S \cup {n})
<1>1. \A m \in S \cup {n} : m <= n
  OBVIOUS
<1>2. S \cup {n} # {}
  OBVIOUS
<1>3. QED
  BY <1>1, <1>2 DEF Latest

LEMMA OneMore ==
  ASSUME NEW S \in SUBSET Int, NEW n \in Nat, \A m \in S : m < n,
         NEW list \in Seq(Nat), Lists(list, S)
  PROVE  Append(list, n) \in Seq(Nat) /\ Lists(Append(list, n), S \cup {n})
<1> DEFINE l == Len(list)
           new == Append(list, n)
<1>1. /\ l \in Nat /\ DOMAIN list = 1 .. l /\ new \in Seq(Nat) /\ DOMAIN new = 1 .. l + 1
      /\ new[l + 1] = n /\ \A i \in 1 .. l : new[i] = list[i]
  OBVIOUS
<1>2. /\ \A x : x \in S <=> \E i \in 1 .. l : list[i] = x
      /\ \A i, j \in 1 .. l : i < j => list[i] < list[j]
  BY <1>1 DEF Lists, Range
<1> HIDE DEF l, new
<1>3. \A x : x \in S \cup {n} <=> \E i \in 1 .. l + 1 : new[i] = x
  <2>1. l + 1 \in 1 .. l + 1 /\ \A i : i \in 1 .. l + 1 <=> i \in 1 .. l \/ i = l + 1
    BY <1>1
  <2>2. QED
    BY <1>1, <1>2, <2>1
<1>4. ASSUME NEW i \in 1 .. l + 1, NEW j \in 1 .. l + 1, i < j PROVE new[i] < new[j]
  <2>1. i \in 1 .. l
    BY <1>1, <1>4
  <2>2. CASE j = l + 1
    <3>1. list[i] \in S
      BY <1>2, <2>1
    <3>2. QED
      BY <1>1, <2>1, <2>2, <3>1
  <2>3. CASE j \in 1 .. l
    BY <1>1, <1>2, <1>4, <2>1, <2>3
  <2>4. QED
    BY <1>1, <2>2, <2>3
<1>5. Range(new) = S \cup {n}
  BY <1>1, <1>3 DEF Range
<1>6. QED
  BY <1>1, <1>4, <1>5 DEF Lists, new

LEMMA Filled ==
  ASSUME NEW item, Grows(item), Counted(item), NEW n, n = Len(wire) + 1,
         NEW o, o = Owner(n)', NEW call \in CallType, Holding(call, o)
  PROVE  /\ Fill(call, item, n) \in CallType
         /\ Holding(Fill(call, item, n), o)'
<1>1. \A f : Bringing(o, f)' = Bringing(o, f) \cup (IF f \in item.gives THEN {n} ELSE {})
  BY BringingGrows
<1>2. n \in Nat /\ \A f : Bringing(o, f) \in SUBSET Int /\ \A m \in Bringing(o, f) : m < n
  <2>1. Len(wire) \in Nat /\ CallItems \subseteq 1 .. Len(wire)
    BY CallItemsTyped DEF Grows
  <2>2. \A m \in 1 .. Len(wire) : m \in Int /\ m < n
    BY <2>1
  <2>3. ASSUME NEW f PROVE Bringing(o, f) \in SUBSET Int /\ \A m \in Bringing(o, f) : m < n
    <3>1. Bringing(o, f) \subseteq 1 .. Len(wire)
      BY <2>1 DEF Bringing
    <3>2. QED
      BY <2>2, <3>1
  <2>4. QED
    BY <2>1, <2>3
<1> DEFINE new == Fill(call, item, n)
<1>3. /\ call.id \in Nat /\ call.name \in Nat /\ call.arguments \in Seq(Nat)
      /\ Latest(call.id, Bringing(o, "id")) /\ Latest(call.name, Bringing(o, "name"))
      /\ Lists(call.arguments, Bringing(o, "arguments"))
  BY DEF CallType, Holding
<1>4. /\ new.id = IF "id" \in item.gives THEN n ELSE call.id
      /\ new.name = IF "name" \in item.gives THEN n ELSE call.name
      /\ new.arguments = IF "arguments" \in item.gives THEN Append(call.arguments, n) ELSE call.arguments
  BY DEF Fill
<1>5. new \in CallType
  <2>1. Append(call.arguments, n) \in Seq(Nat)
    BY <1>2, <1>3
  <2>2. QED
    BY <1>2, <1>3, <2>1 DEF Fill, CallType
<1> HIDE DEF new
<1>6. Latest(new.id, Bringing(o, "id")')
  <2>1. PICK S : S = Bringing(o, "id")
    OBVIOUS
  <2>2. S \in SUBSET Int /\ (\A m \in S : m < n) /\ n \in Int /\ Latest(call.id, S)
    BY <1>2, <1>3, <2>1
  <2>3. Latest(n, S \cup {n})
    BY <2>2, LatestOne
  <2>4. Bringing(o, "id")' = S \cup (IF "id" \in item.gives THEN {n} ELSE {})
    BY <1>1, <2>1
  <2>5. CASE "id" \in item.gives
    BY <1>4, <2>3, <2>4, <2>5
  <2>6. CASE "id" \notin item.gives
    <3>1. Bringing(o, "id")' = S
      BY <2>4, <2>6
    <3>2. QED
      BY <1>4, <2>2, <2>6, <3>1
  <2>7. QED
    BY <2>5, <2>6
<1>7. Latest(new.name, Bringing(o, "name")')
  <2>1. PICK S : S = Bringing(o, "name")
    OBVIOUS
  <2>2. S \in SUBSET Int /\ (\A m \in S : m < n) /\ n \in Int /\ Latest(call.name, S)
    BY <1>2, <1>3, <2>1
  <2>3. Latest(n, S \cup {n})
    BY <2>2, LatestOne
  <2>4. Bringing(o, "name")' = S \cup (IF "name" \in item.gives THEN {n} ELSE {})
    BY <1>1, <2>1
  <2>5. CASE "name" \in item.gives
    BY <1>4, <2>3, <2>4, <2>5
  <2>6. CASE "name" \notin item.gives
    <3>1. Bringing(o, "name")' = S
      BY <2>4, <2>6
    <3>2. QED
      BY <1>4, <2>2, <2>6, <3>1
  <2>7. QED
    BY <2>5, <2>6
<1>8. Lists(new.arguments, Bringing(o, "arguments")')
  <2>1. Lists(Append(call.arguments, n), Bringing(o, "arguments") \cup {n})
    BY <1>2, <1>3, OneMore
  <2>2. CASE "arguments" \in item.gives
    <3>1. Bringing(o, "arguments")' = Bringing(o, "arguments") \cup {n}
      BY <1>1, <2>2
    <3>2. new.arguments = Append(call.arguments, n)
      BY <1>4, <2>2
    <3>3. QED
      BY <2>1, <3>1, <3>2
  <2>3. CASE "arguments" \notin item.gives
    <3>1. Bringing(o, "arguments")' = Bringing(o, "arguments")
      BY <1>1, <2>3
    <3>2. new.arguments = call.arguments
      BY <1>4, <2>3
    <3>3. QED
      BY <1>3, <3>1, <3>2
  <2>4. QED
    BY <2>2, <2>3
<1>9. Holding(new, o)'
  <2>1. PICK c : c = new
    OBVIOUS
  <2>2. Holding(c, o)'
    BY <1>6, <1>7, <1>8, <2>1 DEF Holding, Latest, Lists
  <2>3. new' = new
    BY DEF new, Fill
  <2>4. QED
    BY <2>1, <2>2, <2>3
<1>10. QED
  BY <1>5, <1>9 DEF new

LEMMA FillTyped ==
  ASSUME NEW call \in CallType, NEW item, NEW n \in Nat
  PROVE  Fill(call, item, n) \in CallType
<1>1. call.id \in Nat /\ call.name \in Nat /\ call.arguments \in Seq(Nat)
  BY DEF CallType
<1>2. Append(call.arguments, n) \in Seq(Nat)
  BY <1>1
<1>3. QED
  BY <1>1, <1>2 DEF Fill, CallType

LEMMA BeginsCall ==
  ASSUME Begun(draft.order, draft.part), NEW item, NEW slot \in Int, NEW n \in Nat, UNCHANGED spec,
         Extends(item, slot, n),
         provider # "openai" => slot \in DOMAIN draft.part \/ slot = Len(draft.order) + 1
  PROVE  Begun(draft.order, draft.part)'
<1>1. PICK list, part : list = draft.order /\ part = draft.part
  OBVIOUS
<1>2. PICK new, grown : new = draft'.order /\ grown = draft'.part
  OBVIOUS
<1>3. Blank \in CallType
  BY DEF Blank, CallType
<1>4. /\ list \in Seq(Int) /\ DOMAIN part \subseteq Int
      /\ \A k \in 1 .. Len(list) : list[k] \in DOMAIN part
      /\ \A s \in DOMAIN part : \E k \in 1 .. Len(list) : list[k] = s
      /\ provider # "openai" => \A k \in 1 .. Len(list) : list[k] = k
      /\ \A s \in DOMAIN part : part[s] \in CallType
  BY <1>1 DEF Begun
<1>5. /\ new = IF slot \in DOMAIN part THEN list ELSE Append(list, slot)
      /\ grown = [s \in DOMAIN part \cup {slot} |->
           IF s = slot THEN Fill(IF slot \in DOMAIN part THEN part[slot] ELSE Blank, item, n) ELSE part[s]]
  BY <1>1, <1>2 DEF Extends
<1>6. DOMAIN grown = DOMAIN part \cup {slot} /\ grown = [s \in DOMAIN grown |-> grown[s]]
  BY <1>5
<1>7. ASSUME NEW s \in DOMAIN grown PROVE grown[s] \in CallType
  <2>1. CASE s = slot
    <3>1. PICK call \in CallType : grown[s] = Fill(call, item, n)
      BY <1>3, <1>4, <1>5, <1>6, <2>1
    <3>2. QED
      BY <3>1, FillTyped
  <2>2. CASE s # slot
    BY <1>4, <1>5, <1>6, <2>2
  <2>3. QED
    BY <2>1, <2>2
<1>8. provider' = provider
  BY DEF provider
<1>9. CASE slot \in DOMAIN part
  <2>1. new = list /\ DOMAIN grown = DOMAIN part
    BY <1>5, <1>6, <1>9
  <2>2. /\ draft'.order \in Seq(Int) /\ DOMAIN draft'.part \subseteq Int
        /\ \A k \in 1 .. Len(draft'.order) : draft'.order[k] \in DOMAIN draft'.part
        /\ \A s \in DOMAIN draft'.part : \E k \in 1 .. Len(draft'.order) : draft'.order[k] = s
        /\ provider # "openai" => \A k \in 1 .. Len(draft'.order) : draft'.order[k] = k
    BY <1>2, <1>4, <2>1
  <2>3. \A s \in DOMAIN draft'.part : draft'.part[s] \in CallType
    BY <1>2, <1>7
  <2>4. draft'.part = [s \in DOMAIN draft'.part |-> draft'.part[s]]
    BY <1>2, <1>6
  <2>5. QED
    BY <1>8, <2>2, <2>3, <2>4 DEF Begun
<1>10. CASE slot \notin DOMAIN part
  <2> DEFINE l == Len(list)
  <2>1. /\ new \in Seq(Int) /\ l \in Nat /\ Len(new) = l + 1 /\ new[l + 1] = slot
        /\ \A k \in 1 .. l : new[k] = list[k]
    BY <1>4, <1>5, <1>10
  <2>2. provider # "openai" => slot = l + 1
    BY <1>1, <1>10
  <2>3. l + 1 \in 1 .. l + 1 /\ \A k \in 1 .. l + 1 : k \in 1 .. l \/ k = l + 1
    BY <2>1
  <2>4. \A k \in 1 .. l : k \in 1 .. l + 1
    BY <2>1
  <2>5. \A k \in 1 .. l : list[k] \in DOMAIN part
    BY <1>4
  <2>6. \A s \in DOMAIN part : \E k \in 1 .. l : list[k] = s
    BY <1>4
  <2>7. provider # "openai" => \A k \in 1 .. l : list[k] = k
    BY <1>4
  <2> HIDE DEF l
  <2>8. \A k \in 1 .. l + 1 : new[k] \in DOMAIN grown
    BY <1>6, <2>1, <2>3, <2>5
  <2>9. ASSUME NEW s \in DOMAIN grown PROVE \E k \in 1 .. l + 1 : new[k] = s
    <3>1. CASE s = slot
      BY <2>1, <2>3, <3>1
    <3>2. CASE s \in DOMAIN part
      <4>1. PICK k \in 1 .. l : list[k] = s
        BY <2>6, <3>2
      <4>2. new[k] = s /\ k \in 1 .. l + 1
        BY <2>1, <2>4, <4>1
      <4>3. QED
        BY <4>2
    <3>3. QED
      BY <1>6, <3>1, <3>2
  <2>10. provider # "openai" => \A k \in 1 .. l + 1 : new[k] = k
    BY <2>1, <2>2, <2>3, <2>7
  <2>11. DOMAIN grown \subseteq Int
    BY <1>4, <1>6
  <2>12. /\ draft'.order \in Seq(Int) /\ DOMAIN draft'.part \subseteq Int
         /\ \A k \in 1 .. Len(draft'.order) : draft'.order[k] \in DOMAIN draft'.part
         /\ \A s \in DOMAIN draft'.part : \E k \in 1 .. Len(draft'.order) : draft'.order[k] = s
         /\ provider # "openai" => \A k \in 1 .. Len(draft'.order) : draft'.order[k] = k
    BY <1>2, <2>1, <2>8, <2>9, <2>10, <2>11
  <2>13. \A s \in DOMAIN draft'.part : draft'.part[s] \in CallType
    BY <1>2, <1>7
  <2>14. draft'.part = [s \in DOMAIN draft'.part |-> draft'.part[s]]
    BY <1>2, <1>6
  <2>15. QED
    BY <1>8, <2>12, <2>13, <2>14 DEF Begun
<1>11. QED
  BY <1>9, <1>10

LEMMA SumsCall ==
  ASSUME NEW item, Grows(item), Counted(item), NEW n, n = Len(wire) + 1, provider # "responses",
         ~Breaks(provider, draft, item),
         NEW d, d.order = draft.order, NEW slot, slot = Slot(provider, d, item), Extends(item, slot, n)
  PROVE  Summed'
<1>1. PICK o : o = Owner(n)'
  OBVIOUS
<1>2. /\ Belongs(slot, o)
      /\ provider # "openai" => o = IF "name" \in item.gives THEN n ELSE draft.part[slot].name
      /\ provider # "openai" /\ "name" \notin item.gives => slot \in DOMAIN draft.part
      /\ provider # "openai" /\ "name" \in item.gives => slot \notin DOMAIN draft.part
      /\ provider = "openai" => o = slot
  BY <1>1, NewSlot
<1>3. Read /\ Summed /\ Begun(draft.order, draft.part) /\ provider' = provider
  BY DEF Grows, Read, provider
<1> DEFINE known == slot \in DOMAIN draft.part
           old == IF known THEN draft.part[slot] ELSE Blank
           call == Fill(old, item, n)
<1>4. DOMAIN draft'.part = DOMAIN draft.part \cup {slot} /\ draft'.part[slot] = call
  BY DEF Extends
<1>5. \A t \in DOMAIN draft.part : t # slot => draft'.part[t] = draft.part[t]
  BY DEF Extends
<1>6. old \in CallType /\ Holding(old, o)
  <2>1. CASE known
    BY <1>2, <1>3, <2>1 DEF Belongs, Summed, Begun
  <2>2. CASE ~known
    <3>1. old = Blank /\ Blank \in CallType
      BY <2>2 DEF Blank, CallType
    <3>2. Bringing(o, "id") = {} /\ Bringing(o, "name") = {} /\ Bringing(o, "arguments") = {}
      BY <1>2, <2>2 DEF Belongs
    <3>3. Lists(<<>>, {})
      BY DEF Lists, Range
    <3>4. Latest(0, {})
      BY DEF Latest
    <3>5. old.id = 0 /\ old.name = 0 /\ old.arguments = <<>>
      BY <3>1 DEF Blank
    <3>6. QED
      BY <3>1, <3>2, <3>3, <3>4, <3>5 DEF Holding
  <2>3. QED
    BY <2>1, <2>2
<1> HIDE DEF known, old
<1>7. PICK filled : filled = call
  OBVIOUS
<1>8. Holding(filled, o)'
  <2>1. PICK c \in CallType : c = old /\ Holding(c, o)
    BY <1>6
  <2>2. PICK e : e = Fill(c, item, n)
    OBVIOUS
  <2>3. Holding(Fill(c, item, n), o)'
    BY <1>1, <2>1, Filled
  <2>4. Fill(c, item, n)' = e
    BY <2>2 DEF Fill
  <2>5. Holding(e, o)'
    BY <2>3, <2>4 DEF Holding
  <2>6. call = e
    BY <2>1, <2>2
  <2>7. e = filled
    BY <1>7, <2>6
  <2>8. QED
    BY <2>5, <2>7 DEF Holding
<1>9. call.name = IF "name" \in item.gives THEN n ELSE old.name
  BY DEF Fill
<1> HIDE DEF call
<1>10. Holding(filled, o)' /\ draft'.part[slot] = filled /\ filled.name = IF "name" \in item.gives THEN n ELSE old.name
  BY <1>4, <1>8, <1>9, <1>7
<1>11. provider # "openai" => filled.name = o
  BY <1>2, <1>10 DEF old, known
<1>12. OwnerOf(slot)' = o
  BY <1>2, <1>3, <1>10, <1>11 DEF OwnerOf
<1>13. ASSUME NEW t \in DOMAIN draft.part, t # slot
       PROVE  OwnerOf(t)' = OwnerOf(t) /\ OwnerOf(t) # o /\ Holding(draft.part[t], OwnerOf(t))'
  <2>1. OwnerOf(t)' = OwnerOf(t) /\ OwnerOf(t) # o
    BY <1>2, <1>3, <1>5, <1>13 DEF OwnerOf, Belongs
  <2>2. PICK c, q : c = draft.part[t] /\ q = OwnerOf(t)
    OBVIOUS
  <2>3. Holding(c, q)
    BY <1>3, <1>13, <2>2 DEF Summed
  <2>4. Owner(n)' # q
    BY <1>1, <2>1, <2>2
  <2>5. \A f : Bringing(q, f)' = Bringing(q, f)
    <3>1. \A f : Bringing(q, f)' = Bringing(q, f) \cup (IF Owner(n)' = q /\ f \in item.gives THEN {n} ELSE {})
      BY BringingGrows
    <3>2. \A f : (IF Owner(n)' = q /\ f \in item.gives THEN {n} ELSE {}) = {}
      BY <2>4
    <3>3. QED
      BY <3>1, <3>2
  <2>6. Holding(c, q)'
    BY <2>3, <2>5 DEF Holding
  <2>7. draft'.part[t] = c
    BY <1>5, <1>13, <2>2
  <2>8. QED
    BY <2>1, <2>2, <2>6, <2>7 DEF Holding
<1>14. \A m \in CallItems' : \E s \in DOMAIN draft'.part : Owner(m)' = OwnerOf(s)'
  <2> SUFFICES ASSUME NEW m \in CallItems' PROVE \E s \in DOMAIN draft'.part : Owner(m)' = OwnerOf(s)'
    OBVIOUS
  <2>1. CASE m = n
    BY <1>1, <1>4, <1>12, <2>1
  <2>2. CASE m \in CallItems
    <3>1. Owner(m)' = Owner(m)
      BY <2>2, OwnerStays
    <3>2. PICK s \in DOMAIN draft.part : Owner(m) = OwnerOf(s)
      BY <1>3, <2>2 DEF Summed
    <3>3. OwnerOf(s)' = OwnerOf(s)
      BY <1>2, <1>12, <1>13 DEF Belongs
    <3>4. s \in DOMAIN draft'.part
      BY <1>4
    <3>5. QED
      BY <3>1, <3>2, <3>3, <3>4
  <2>3. QED
    BY <2>1, <2>2, CallItemsGrow
<1>15. \A s \in DOMAIN draft'.part : Holding(draft.part[s], OwnerOf(s))'
  <2> SUFFICES ASSUME NEW s \in DOMAIN draft'.part PROVE Holding(draft.part[s], OwnerOf(s))'
    OBVIOUS
  <2>1. CASE s = slot
    <3>1. Holding(filled, o)'
      BY <1>10
    <3>2. QED
      BY <1>10, <1>12, <2>1, <3>1 DEF Holding
  <2>2. CASE s # slot
    <3>1. s \in DOMAIN draft.part
      BY <1>4, <2>2
    <3>2. PICK c, q : c = draft.part[s] /\ q = OwnerOf(s)
      OBVIOUS
    <3>3. draft'.part[s] = c /\ OwnerOf(s)' = q
      BY <1>5, <1>13, <2>2, <3>1, <3>2
    <3>4. Holding(c, q)'
      BY <1>13, <2>2, <3>1, <3>2, <3>3 DEF Holding
    <3>5. QED
      BY <3>3, <3>4 DEF Holding
  <2>3. QED
    BY <2>1, <2>2
<1>16. provider # "openai" =>
         /\ \A s \in DOMAIN draft'.part : draft'.part[s].name # 0
         /\ \A s, t \in DOMAIN draft'.part : s < t => draft'.part[s].name < draft'.part[t].name
  <2> SUFFICES ASSUME provider # "openai"
               PROVE  /\ \A s \in DOMAIN draft'.part : draft'.part[s].name # 0
                      /\ \A s, t \in DOMAIN draft'.part : s < t => draft'.part[s].name < draft'.part[t].name
    OBVIOUS
  <2>1. Len(draft.order) \in Nat /\ DOMAIN draft.part = 1 .. Len(draft.order)
    BY <1>3, PartsInOrder
  <2>2. \A t \in DOMAIN draft.part : draft.part[t].name \in 1 .. Len(wire) /\ draft.part[t].name # 0
    BY <1>3, NamesOnWire, CallItemsTyped DEF Summed
  <2>3. Len(wire) \in Nat /\ n # 0 /\ n \in Nat
    BY <1>3, CallItemsTyped
  <2>4. filled.name # 0
    BY <1>2, <1>11, <2>2, <2>3
  <2>5. \A s \in DOMAIN draft'.part : draft'.part[s].name # 0
    BY <1>4, <1>5, <1>10, <2>2, <2>4
  <2>6. ASSUME NEW s \in DOMAIN draft'.part, NEW t \in DOMAIN draft'.part, s < t
        PROVE  draft'.part[s].name < draft'.part[t].name
    <3>1. slot = IF slot \in DOMAIN draft.part THEN Len(draft.order) ELSE Len(draft.order) + 1
      BY <1>2 DEF Belongs
    <3>2. s \in DOMAIN draft.part /\ s # slot /\ draft'.part[s] = draft.part[s]
      <4>1. s # slot
        BY <1>4, <2>1, <2>6, <3>1
      <4>2. QED
        BY <1>4, <1>5, <4>1
    <3>3. CASE t = slot
      <4>1. draft'.part[t].name = o
        BY <1>10, <1>11, <3>3
      <4>2. CASE "name" \in item.gives
        BY <1>2, <2>2, <2>3, <3>2, <4>1, <4>2
      <4>3. CASE "name" \notin item.gives
        BY <1>2, <1>3, <2>6, <3>2, <3>3, <4>1, <4>3 DEF Summed
      <4>4. QED
        BY <4>2, <4>3
    <3>4. CASE t # slot
      BY <1>3, <1>4, <1>5, <2>6, <3>2, <3>4 DEF Summed
    <3>5. QED
      BY <3>3, <3>4
  <2>7. QED
    BY <2>5, <2>6
<1>17. QED
  BY <1>3, <1>14, <1>15, <1>16 DEF Summed

(* An item that is not of a call leaves the calls alone.                   *)
Told(item, n, text, usage, final, newText, newUsage, newFinal) ==
  /\ item.kind = "text" => newText = Append(text, n)
  /\ item.kind = "final" => newText = IF text = <<>> /\ "text" \in item.gives THEN <<n>> ELSE text
  /\ item.kind \notin {"text", "final"} => newText = text
  /\ item.kind = "usage" => newUsage = n
  /\ item.kind = "no usage" /\ provider = "gemini" => newUsage = 0
  /\ item.kind \notin {"usage", "final"} /\ ~(item.kind = "no usage" /\ provider = "gemini") => newUsage = usage
  /\ item.kind = "final" => newFinal = n
  /\ item.kind # "final" => newFinal = final

LEMMA AbsorbedOther ==
  ASSUME NEW item, Grows(item), ~Counted(item), draft' = Absorb(provider, draft, item),
         item.calls \in Nat
  PROVE  /\ draft'.order = draft.order /\ draft'.part = draft.part /\ Drafted'
         /\ Told(item, Len(wire) + 1, draft.text, draft.usage, draft.final, draft'.text, draft'.usage, draft'.final)
<1>1. Drafted /\ Len(wire) \in Nat /\ Len(wire') = Len(wire) + 1
  BY Grown DEF Grows, Read
<1> PICK n : n = draft.seen + 1
  OBVIOUS
<1> DEFINE aside == Aside(draft, item)
           d == [draft EXCEPT !.seen = n, !.aside = aside]
<1>2. n = Len(wire) + 1 /\ n \in Nat /\ Len(wire') = n
  BY <1>1 DEF Drafted
<1>3. d = [seen |-> n, text |-> draft.text, usage |-> draft.usage, order |-> draft.order,
           part |-> draft.part, aside |-> aside, final |-> draft.final, calls |-> draft.calls]
  <2>1. draft = [seen |-> draft.seen, text |-> draft.text, usage |-> draft.usage, order |-> draft.order,
                 part |-> draft.part, aside |-> draft.aside, final |-> draft.final, calls |-> draft.calls]
    BY <1>1 DEF Drafted
  <2>2. PICK b : b = aside
    OBVIOUS
  <2>3. [draft EXCEPT !.seen = n, !.aside = b] =
          [seen |-> n, text |-> draft.text, usage |-> draft.usage, order |-> draft.order,
           part |-> draft.part, aside |-> b, final |-> draft.final, calls |-> draft.calls]
    <3>1. PICK e : e = [draft EXCEPT !.seen = n]
      OBVIOUS
    <3>2. e = [seen |-> n, text |-> draft.text, usage |-> draft.usage, order |-> draft.order,
               part |-> draft.part, aside |-> draft.aside, final |-> draft.final, calls |-> draft.calls]
      BY <2>1, <3>1
    <3>3. [draft EXCEPT !.seen = n, !.aside = b] = [e EXCEPT !.aside = b]
      BY <2>1, <3>1
    <3>4. [e EXCEPT !.aside = b] =
            [seen |-> n, text |-> draft.text, usage |-> draft.usage, order |-> draft.order,
             part |-> draft.part, aside |-> b, final |-> draft.final, calls |-> draft.calls]
      BY <3>2
    <3>5. QED
      BY <3>3, <3>4
  <2>4. QED
    BY <2>2, <2>3
<1> HIDE DEF d
<1>4. /\ d.order = draft.order /\ d.part = draft.part /\ d.text = draft.text
      /\ d.usage = draft.usage /\ d.final = draft.final /\ d.calls = draft.calls /\ d.seen = n
  BY <1>3
<1>5. draft.text \in Seq(Nat) /\ draft.usage \in Nat /\ draft.final \in Nat /\ draft.calls \in Nat
  BY <1>1 DEF Drafted
<1>6. PICK text \in Seq(Nat), usage \in {0, n, draft.usage}, final \in Nat, calls \in Nat :
        /\ draft' = [seen |-> n, text |-> text, usage |-> usage, order |-> draft.order,
                     part |-> draft.part, aside |-> aside, final |-> final, calls |-> calls]
        /\ Told(item, n, draft.text, draft.usage, draft.final, text, usage, final)
  <2>1. CASE item.kind = "text"
    <3>1. draft' = [d EXCEPT !.text = Append(@, n)]
      BY <2>1 DEF Absorb, d
    <3>2. Append(draft.text, n) \in Seq(Nat)
      BY <1>2, <1>5
    <3>3. draft' = [seen |-> n, text |-> Append(draft.text, n), usage |-> draft.usage, order |-> draft.order,
                    part |-> draft.part, aside |-> aside, final |-> draft.final, calls |-> draft.calls]
      BY <1>3, <3>1
    <3>4. Told(item, n, draft.text, draft.usage, draft.final, Append(draft.text, n), draft.usage, draft.final)
      BY <2>1 DEF Told
    <3>5. QED
      BY <1>5, <3>2, <3>3, <3>4
  <2>2. CASE item.kind = "usage"
    <3>1. draft' = [d EXCEPT !.usage = n]
      BY <2>2 DEF Absorb, d
    <3>2. draft' = [seen |-> n, text |-> draft.text, usage |-> n, order |-> draft.order,
                    part |-> draft.part, aside |-> aside, final |-> draft.final, calls |-> draft.calls]
      BY <1>3, <3>1
    <3>3. Told(item, n, draft.text, draft.usage, draft.final, draft.text, n, draft.final)
      BY <2>2 DEF Told
    <3>4. QED
      BY <1>2, <1>5, <3>2, <3>3
  <2>3. CASE item.kind = "final"
    <3> DEFINE text == IF draft.text = <<>> /\ "text" \in item.gives THEN <<n>> ELSE draft.text
               usage == IF "usage" \in item.gives THEN n ELSE 0
    <3>1. draft' = [d EXCEPT !.final = n, !.calls = item.calls,
                      !.usage = IF "usage" \in item.gives THEN n ELSE 0,
                      !.text = IF @ = <<>> /\ "text" \in item.gives THEN <<n>> ELSE @]
      BY <2>3 DEF Absorb, d
    <3>2. text \in Seq(Nat) /\ usage \in {0, n, draft.usage}
      BY <1>2, <1>5
    <3>3. draft' = [seen |-> n, text |-> text, usage |-> usage, order |-> draft.order,
                    part |-> draft.part, aside |-> aside, final |-> n, calls |-> item.calls]
      <4>1. draft' = [d EXCEPT !.final = n, !.calls = item.calls, !.usage = usage, !.text = text]
        BY <1>4, <3>1
      <4> HIDE DEF text, usage
      <4>2. QED
        BY <1>3, <4>1
    <3>4. Told(item, n, draft.text, draft.usage, draft.final, text, usage, n)
      BY <2>3 DEF Told
    <3>5. QED
      BY <1>2, <3>2, <3>3, <3>4
  <2>4. CASE item.kind = "no usage" /\ provider = "gemini"
    <3>1. draft' = [d EXCEPT !.usage = 0]
      BY <2>4 DEF Absorb, d
    <3>2. draft' = [seen |-> n, text |-> draft.text, usage |-> 0, order |-> draft.order,
                    part |-> draft.part, aside |-> aside, final |-> draft.final, calls |-> draft.calls]
      BY <1>3, <3>1
    <3>3. Told(item, n, draft.text, draft.usage, draft.final, draft.text, 0, draft.final)
      BY <2>4 DEF Told
    <3>4. QED
      BY <1>5, <3>2, <3>3
  <2>5. CASE item.kind \notin {"text", "usage", "final"} /\ ~(item.kind = "no usage" /\ provider = "gemini")
    <3>1. draft' = d
      BY <2>5 DEF Absorb, Counted, d
    <3>2. Told(item, n, draft.text, draft.usage, draft.final, draft.text, draft.usage, draft.final)
      BY <2>5 DEF Told
    <3>3. QED
      BY <1>3, <1>5, <3>1, <3>2
  <2>6. QED
    BY <2>1, <2>2, <2>3, <2>4, <2>5
<1>7. /\ draft'.seen = n /\ draft'.text = text /\ draft'.usage = usage /\ draft'.order = draft.order
      /\ draft'.part = draft.part /\ draft'.aside = aside /\ draft'.final = final /\ draft'.calls = calls
  BY <1>6
<1>8. draft' = [seen |-> draft'.seen, text |-> draft'.text, usage |-> draft'.usage, order |-> draft'.order,
                part |-> draft'.part, aside |-> draft'.aside, final |-> draft'.final, calls |-> draft'.calls]
  BY <1>6, <1>7
<1>9. /\ draft'.seen = Len(wire') /\ draft'.text \in Seq(Nat) /\ draft'.usage \in Nat
      /\ draft'.final \in Nat /\ draft'.calls \in Nat
  BY <1>2, <1>5, <1>7
<1>10. draft'.usage <= Len(wire')
  <2>1. draft.usage <= Len(wire)
    BY <1>1 DEF Drafted
  <2>2. 0 <= n /\ n <= n /\ draft.usage <= n
    BY <1>1, <1>2, <1>5, <2>1
  <2>3. QED
    BY <1>2, <1>7, <2>2
<1>11. draft'.aside \in BOOLEAN /\ (draft'.aside <=> AfterText(n + 1)')
  <2>1. aside \in BOOLEAN
    BY DEF Aside
  <2>2. aside <=> AfterText(n + 1)'
    BY <1>2, AfterTextGrows
  <2>3. QED
    BY <1>7, <2>1, <2>2
<1>12. QED
  BY <1>2, <1>6, <1>7, <1>8, <1>9, <1>10, <1>11 DEF Drafted

(* What is read stays what the wire brought, item by item.                 *)
LEMMA ItemRead ==
  ASSUME NEW item, Grows(item), ~Breaks(provider, draft, item),
         draft' = Absorb(provider, draft, item)
  PROVE  Read'
<1>1. Read /\ provider \in Streaming /\ provider' = provider /\ item \in Items(provider) /\ UNCHANGED spec
  BY DEF Grows, Read, provider
<1>2. wire' \in Seq(Items(provider')) /\ Len(wire) \in Nat
  BY <1>1, Grown
<1>3. Begun(draft.order, draft.part) /\ (provider # "responses" => Summed)
  BY <1>1 DEF Read
<1>4. CASE Counted(item)
  <2>1. PICK n : n = Len(wire) + 1
    OBVIOUS
  <2>2. PICK d, slot :
           /\ d.order = draft.order /\ slot = Slot(provider, d, item)
           /\ Extends(item, slot, n) /\ Drafted'
    BY <1>4, <2>1, AbsorbedCall
  <2>3. slot \in Int /\ (provider # "openai" => slot \in DOMAIN draft.part \/ slot = Len(draft.order) + 1)
    <3>1. CASE provider = "responses"
      <4>1. slot = Len(draft.order) + 1
        BY <2>2, <3>1 DEF Slot
      <4>2. Len(draft.order) \in Nat
        BY <1>3 DEF Begun
      <4>3. QED
        BY <4>1, <4>2
    <3>2. CASE provider # "responses"
      <4>1. PICK o : o = Owner(n)'
        OBVIOUS
      <4>2. Belongs(slot, o)
        BY <1>4, <2>1, <2>2, <3>2, <4>1, NewSlot
      <4>3. QED
        BY <4>2 DEF Belongs
    <3>3. QED
      BY <3>1, <3>2
  <2>4. n \in Nat
    BY <1>2, <2>1
  <2>5. Begun(draft.order, draft.part)'
    BY <1>1, <1>3, <2>2, <2>3, <2>4, BeginsCall
  <2>6. provider # "responses" => Summed'
    BY <1>4, <2>1, <2>2, SumsCall
  <2>7. QED
    BY <1>1, <1>2, <2>2, <2>5, <2>6 DEF Read
<1>5. CASE ~Counted(item)
  <2>1. item.calls \in Nat
    BY <1>1, LLMAssumption
  <2>2. draft'.order = draft.order /\ draft'.part = draft.part /\ Drafted'
    BY <1>5, <2>1, AbsorbedOther
  <2>3. Begun(draft.order, draft.part)'
    BY <1>1, <1>3, <2>2 DEF Begun
  <2>4. ASSUME Summed PROVE Summed'
    <3>1. \A s : OwnerOf(s)' = OwnerOf(s)
      BY <1>1, <2>2 DEF OwnerOf
    <3>2. CallItems' = CallItems /\ \A o, f : Bringing(o, f)' = Bringing(o, f)
      BY <1>5, OtherItem
    <3>3. \A m \in CallItems : Owner(m)' = Owner(m)
      BY OwnerStays
    <3>4. \A n \in CallItems' : \E s \in DOMAIN draft'.part : Owner(n)' = OwnerOf(s)'
      BY <2>2, <2>4, <3>1, <3>2, <3>3 DEF Summed
    <3>5. \A s \in DOMAIN draft'.part : Holding(draft.part[s], OwnerOf(s))'
      BY <2>2, <2>4, <3>1, <3>2 DEF Summed, Holding
    <3>6. provider' # "openai" =>
            /\ \A s \in DOMAIN draft'.part : draft'.part[s].name # 0
            /\ \A s, t \in DOMAIN draft'.part : s < t => draft'.part[s].name < draft'.part[t].name
      BY <1>1, <2>2, <2>4 DEF Summed
    <3>7. QED
      BY <3>4, <3>5, <3>6 DEF Summed
  <2>5. QED
    BY <1>1, <1>2, <1>3, <2>2, <2>3, <2>4 DEF Read
<1>6. QED
  BY <1>4, <1>5

(* The calls of the response.                                              *)
LEMMA CallsNamed ==
  ASSUME Read, provider # "responses"
  PROVE  /\ \A s \in DOMAIN draft.part : draft.part[s].name # 0 =>
              LET name == draft.part[s].name
              IN name \in CallItems /\ Naming(name) /\ Owner(name) = OwnerOf(s)
         /\ \A n \in CallItems : Naming(n) =>
              \E s \in DOMAIN draft.part : draft.part[s].name # 0 /\ Owner(n) = OwnerOf(s)
<1>1. Summed /\ Len(wire) \in Nat /\ CallItems \subseteq 1 .. Len(wire)
  BY CallItemsTyped DEF Read
<1>2. \A s \in DOMAIN draft.part : Latest(draft.part[s].name, Bringing(OwnerOf(s), "name"))
  BY <1>1 DEF Summed, Holding
<1>3. ASSUME NEW s \in DOMAIN draft.part, draft.part[s].name # 0
      PROVE  /\ draft.part[s].name \in CallItems /\ Naming(draft.part[s].name)
             /\ Owner(draft.part[s].name) = OwnerOf(s)
  <2>1. draft.part[s].name \in Bringing(OwnerOf(s), "name")
    BY <1>2, <1>3 DEF Latest
  <2>2. QED
    BY <2>1 DEF Bringing, Naming
<1>4. ASSUME NEW n \in CallItems, Naming(n)
      PROVE  \E s \in DOMAIN draft.part : draft.part[s].name # 0 /\ Owner(n) = OwnerOf(s)
  <2>1. PICK s \in DOMAIN draft.part : Owner(n) = OwnerOf(s)
    BY <1>1 DEF Summed
  <2>2. n \in Bringing(OwnerOf(s), "name")
    BY <1>4, <2>1 DEF Bringing, Naming
  <2>3. draft.part[s].name \in Bringing(OwnerOf(s), "name")
    BY <1>2, <2>2 DEF Latest
  <2>4. draft.part[s].name \in CallItems
    BY <2>3 DEF Bringing
  <2>5. draft.part[s].name # 0
    <3>1. 0 \notin 1 .. Len(wire)
      BY <1>1
    <3>2. QED
      BY <1>1, <2>4, <3>1
  <2>6. QED
    BY <2>1, <2>5
<1>5. QED
  BY <1>3, <1>4

OrderedCalls(c) ==
  /\ c \in Seq(Int)
  /\ \A k \in 1 .. Len(c) : c[k] \in DOMAIN draft.part /\ draft.part[c[k]].name # 0
  /\ \A s \in DOMAIN draft.part : draft.part[s].name # 0 => \E k \in 1 .. Len(c) : c[k] = s
  /\ \A i, j \in 1 .. Len(c) : i < j => OwnerOf(c[i]) < OwnerOf(c[j])

LEMMA CallsOrdered ==
  ASSUME Read, provider # "responses"
  PROVE  OrderedCalls(CallOrder(provider, draft))
<1>1. Begun(draft.order, draft.part) /\ Summed
  BY DEF Read
<1>2. CASE provider = "openai"
  <2>1. PICK S : S = NamedCalls(draft)
    OBVIOUS
  <2>2. \A s : s \in S <=> s \in DOMAIN draft.part /\ draft.part[s].name # 0
    BY <2>1 DEF NamedCalls
  <2>3. S \in SUBSET Int
    BY <1>1, <2>2 DEF Begun
  <2>4. IsFiniteSet(S)
    <3>1. PICK list, P : list = draft.order /\ P = DOMAIN draft.part
      OBVIOUS
    <3>2. list \in Seq(Int) /\ \A s \in P : \E k \in 1 .. Len(list) : list[k] = s
      BY <1>1, <3>1 DEF Begun
    <3> DEFINE R == {list[k] : k \in 1 .. Len(list)}
    <3>3. list \in Seq(Int)
      BY <3>2
    <3>4. IsFiniteSet(R)
      BY <3>3, ListedOnce
    <3>5. S \subseteq R
      BY <2>2, <3>1, <3>2
    <3>6. QED
      BY <3>4, <3>5, FS_Subset
  <2>5. PICK c : c = Ascending(S)
    OBVIOUS
  <2>6. /\ c \in Seq(S)
        /\ \A s \in S : \E k \in DOMAIN c : c[k] = s
        /\ \A i, j \in DOMAIN c : i < j => c[i] < c[j]
    BY <2>3, <2>4, <2>5, AscendingIs
  <2>7. c \in Seq(Int) /\ DOMAIN c = 1 .. Len(c) /\ \A k \in 1 .. Len(c) : c[k] \in S
    <3>1. \A x : x \in S => x \in Int
      BY <2>3
    <3>2. DOMAIN c = 1 .. Len(c) /\ \A k \in 1 .. Len(c) : c[k] \in S
      BY <2>6
    <3>3. Len(c) \in Nat /\ c = [k \in 1 .. Len(c) |-> c[k]]
      BY <2>6
    <3>4. \A k \in 1 .. Len(c) : c[k] \in Int
      BY <3>1, <3>2
    <3>5. c \in Seq(Int)
      BY <3>3, <3>4
    <3>6. QED
      BY <3>2, <3>5
  <2>8. \A s : OwnerOf(s) = s
    BY <1>2 DEF OwnerOf
  <2>9. /\ \A k \in 1 .. Len(c) : c[k] \in DOMAIN draft.part /\ draft.part[c[k]].name # 0
        /\ \A s \in DOMAIN draft.part : draft.part[s].name # 0 => \E k \in 1 .. Len(c) : c[k] = s
    BY <2>2, <2>6, <2>7
  <2>10. \A i, j \in 1 .. Len(c) : i < j => OwnerOf(c[i]) < OwnerOf(c[j])
    <3>1. \A i, j \in 1 .. Len(c) : i < j => c[i] < c[j]
      BY <2>6, <2>7
    <3>2. QED
      BY <2>8, <3>1
  <2>11. c = CallOrder(provider, draft)
    BY <1>2, <2>1, <2>5 DEF CallOrder
  <2>12. OrderedCalls(c)
    BY <2>7, <2>9, <2>10 DEF OrderedCalls
  <2>13. QED
    BY <2>11, <2>12
<1>3. CASE provider # "openai"
  <2>1. PICK c : c = draft.order
    OBVIOUS
  <2>2. /\ c \in Seq(Int)
        /\ \A k \in 1 .. Len(c) : c[k] \in DOMAIN draft.part
        /\ \A s \in DOMAIN draft.part : \E k \in 1 .. Len(c) : c[k] = s
        /\ \A k \in 1 .. Len(c) : c[k] = k
    BY <1>1, <1>3, <2>1 DEF Begun
  <2>3. /\ \A s \in DOMAIN draft.part : draft.part[s].name # 0
        /\ \A s, t \in DOMAIN draft.part : s < t => draft.part[s].name < draft.part[t].name
        /\ \A s : OwnerOf(s) = draft.part[s].name
    BY <1>1, <1>3 DEF Summed, OwnerOf
  <2>4. ASSUME NEW i \in 1 .. Len(c), NEW j \in 1 .. Len(c), i < j
        PROVE  OwnerOf(c[i]) < OwnerOf(c[j])
    <3>1. c[i] = i /\ c[j] = j /\ i \in DOMAIN draft.part /\ j \in DOMAIN draft.part
      BY <2>2
    <3>2. draft.part[i].name < draft.part[j].name
      BY <2>3, <2>4, <3>1
    <3>3. QED
      BY <2>3, <3>1, <3>2
  <2>5. OrderedCalls(c)
    BY <2>2, <2>3, <2>4 DEF OrderedCalls
  <2>6. QED
    BY <1>3, <2>1, <2>5 DEF CallOrder
<1>4. QED
  BY <1>2, <1>3

LEMMA CallsRead ==
  ASSUME Read
  PROVE  /\ ToolCalls(provider, draft) \in Seq(CallType)
         /\ provider # "responses" => CallsOfWire(ToolCalls(provider, draft))
<1>1. Begun(draft.order, draft.part)
  BY DEF Read
<1>2. CASE provider = "responses"
  <2>1. draft.calls \in Nat /\ draft.final \in Nat
    BY DEF Read, Drafted
  <2>2. \A k \in 1 .. draft.calls : [id |-> draft.final, name |-> draft.final, arguments |-> <<k>>] \in CallType
    <3> SUFFICES ASSUME NEW k \in 1 .. draft.calls
                 PROVE  [id |-> draft.final, name |-> draft.final, arguments |-> <<k>>] \in CallType
      OBVIOUS
    <3>1. <<k>> \in Seq(Nat)
      BY <2>1
    <3>2. QED
      BY <2>1, <3>1 DEF CallType
  <2>3. QED
    BY <1>2, <2>1, <2>2 DEF ToolCalls
<1>3. CASE provider # "responses"
  <2>1. PICK c, part : c = CallOrder(provider, draft) /\ part = draft.part
    OBVIOUS
  <2>2. OrderedCalls(c)
    BY <1>3, <2>1, CallsOrdered
  <2>3. c \in Seq(Int) /\ Len(c) \in Nat /\ DOMAIN c = 1 .. Len(c)
    BY <2>2 DEF OrderedCalls
  <2>4. \A k \in 1 .. Len(c) : c[k] \in DOMAIN part /\ part[c[k]].name # 0
    BY <2>1, <2>2 DEF OrderedCalls
  <2>5. \A s \in DOMAIN part : part[s].name # 0 => \E k \in 1 .. Len(c) : c[k] = s
    BY <2>1, <2>2 DEF OrderedCalls
  <2>6. \A i, j \in 1 .. Len(c) : i < j => OwnerOf(c[i]) < OwnerOf(c[j])
    BY <2>2 DEF OrderedCalls
  <2>7. \A s \in DOMAIN part : part[s] \in CallType
    BY <1>1, <2>1 DEF Begun
  <2>8. PICK calls : calls = [k \in 1 .. Len(c) |-> part[c[k]]]
    OBVIOUS
  <2>9. ToolCalls(provider, draft) = calls
    BY <1>3, <2>1, <2>3, <2>8 DEF ToolCalls
  <2>10. calls \in Seq(CallType)
    BY <2>3, <2>4, <2>7, <2>8
  <2>11. DOMAIN calls = 1 .. Len(c) /\ \A k \in 1 .. Len(c) : calls[k] = part[c[k]]
    BY <2>8
  <2>12. ASSUME NEW k \in 1 .. Len(c)
         PROVE  /\ calls[k].name \in CallItems /\ Naming(calls[k].name)
                /\ Owner(calls[k].name) = OwnerOf(c[k])
                /\ Holding(calls[k], OwnerOf(c[k]))
    <3>1. PICK s \in DOMAIN draft.part : s = c[k] /\ calls[k] = draft.part[s] /\ draft.part[s].name # 0
      BY <2>1, <2>4, <2>11
    <3>2. /\ draft.part[s].name \in CallItems /\ Naming(draft.part[s].name)
          /\ Owner(draft.part[s].name) = OwnerOf(s)
      BY <1>3, <3>1, CallsNamed
    <3>3. Holding(draft.part[s], OwnerOf(s))
      BY <1>3 DEF Read, Summed
    <3>4. QED
      BY <3>1, <3>2, <3>3
  <2> DEFINE owners == [k \in DOMAIN calls |-> Owner(calls[k].name)]
             all == {Owner(n) : n \in {m \in CallItems : Naming(m)}}
  <2>13. DOMAIN owners = 1 .. Len(c) /\ \A k \in 1 .. Len(c) : owners[k] = OwnerOf(c[k])
    BY <2>11, <2>12
  <2>14. ASSUME NEW x PROVE x \in all <=> \E k \in 1 .. Len(c) : owners[k] = x
    <3>1. ASSUME x \in all PROVE \E k \in 1 .. Len(c) : owners[k] = x
      <4>1. PICK n \in CallItems : Naming(n) /\ x = Owner(n)
        BY <3>1
      <4>2. PICK s \in DOMAIN draft.part : draft.part[s].name # 0 /\ Owner(n) = OwnerOf(s)
        BY <1>3, <4>1, CallsNamed
      <4>3. PICK k \in 1 .. Len(c) : c[k] = s
        BY <2>1, <2>5, <4>2
      <4>4. QED
        BY <2>13, <4>1, <4>2, <4>3
    <3>2. ASSUME NEW k \in 1 .. Len(c), owners[k] = x PROVE x \in all
      <4>1. PICK n : n = calls[k].name
        OBVIOUS
      <4>2. n \in CallItems /\ Naming(n) /\ Owner(n) = x
        BY <2>12, <2>13, <3>2, <4>1
      <4>3. QED
        BY <4>2
    <3>3. QED
      BY <3>1, <3>2
  <2> HIDE DEF owners, all
  <2>15. Lists(owners, all)
    <3>1. Range(owners) = all
      BY <2>13, <2>14 DEF Range
    <3>2. \A i, j \in DOMAIN owners : i < j => owners[i] < owners[j]
      BY <2>6, <2>13
    <3>3. QED
      BY <3>1, <3>2 DEF Lists
  <2>16. CallsOfWire(calls)
    <3>1. ASSUME NEW k \in DOMAIN calls
          PROVE  LET owner == Owner(calls[k].name)
                 IN /\ calls[k].name \in CallItems
                    /\ Latest(calls[k].id, Bringing(owner, "id"))
                    /\ Latest(calls[k].name, Bringing(owner, "name"))
                    /\ Lists(calls[k].arguments, Bringing(owner, "arguments"))
      <4>1. k \in 1 .. Len(c)
        BY <2>11
      <4>2. QED
        BY <2>12, <4>1 DEF Holding
    <3>2. QED
      BY <2>15, <3>1 DEF CallsOfWire, owners, all
  <2>17. QED
    BY <2>9, <2>10, <2>16
<1>4. QED
  BY <1>2, <1>3

-----------------------------------------------------------------------------
(* What the handler is given.                                              *)
Whats == {"text", "thinking", "usage", "call", "done"}
DeltaType == [what : Whats, at : Nat, call : CallType]
EventType == [type : EventTypes, delta : DeltaType \cup {Delta("none", 0)}]
At == [x \in DeltaType |-> x.at]
Carried == [x \in DeltaType |-> x.call]

(* Of the chunks in a list, what S takes from those of one kind.           *)
Shown(what, S) == [x \in DeltaType |-> IF x.what = what THEN <<S[x]>> ELSE <<>>]
Gathered(list, what, S) == Each(list, Shown(what, S))

LEMMA ShownTyped ==
  ASSUME NEW T, NEW S \in [DeltaType -> T], NEW what
  PROVE  /\ Shown(what, S) \in [DeltaType -> Seq(T)]
         /\ \A x \in DeltaType : Shown(what, S)[x] = IF x.what = what THEN <<S[x]>> ELSE <<>>
<1>1. \A x \in DeltaType : (IF x.what = what THEN <<S[x]>> ELSE <<>>) \in Seq(T)
  <2> SUFFICES ASSUME NEW x \in DeltaType PROVE (IF x.what = what THEN <<S[x]>> ELSE <<>>) \in Seq(T)
    OBVIOUS
  <2>1. S[x] \in T
    OBVIOUS
  <2>2. <<S[x]>> \in Seq(T) /\ <<>> \in Seq(T)
    BY <2>1
  <2>3. QED
    BY <2>2
<1>2. QED
  BY <1>1 DEF Shown

LEMMA GatheredTyped ==
  ASSUME NEW T, NEW S \in [DeltaType -> T], NEW what, NEW list \in Seq(DeltaType)
  PROVE  Gathered(list, what, S) \in Seq(T)
<1>1. PICK F \in [DeltaType -> Seq(T)] : F = Shown(what, S)
  BY ShownTyped
<1>2. Each(list, F) \in Seq(T)
  BY EachTyped
<1>3. QED
  BY <1>1, <1>2 DEF Gathered

LEMMA GatheredJoined ==
  ASSUME NEW T, NEW S \in [DeltaType -> T], NEW what,
         NEW a \in Seq(DeltaType), NEW b \in Seq(DeltaType)
  PROVE  Gathered(a \o b, what, S) = Gathered(a, what, S) \o Gathered(b, what, S)
<1>1. PICK F \in [DeltaType -> Seq(T)] : F = Shown(what, S)
  BY ShownTyped
<1>2. Each(a \o b, F) = Each(a, F) \o Each(b, F)
  BY EachJoined
<1>3. QED
  BY <1>1, <1>2 DEF Gathered

LEMMA GatheredNone ==
  ASSUME NEW T, NEW S \in [DeltaType -> T], NEW what, NEW list \in Seq(DeltaType),
         \A k \in 1 .. Len(list) : list[k].what # what
  PROVE  Gathered(list, what, S) = <<>>
<1>1. PICK F : F = Shown(what, S)
  OBVIOUS
<1>2. Len(list) \in Nat /\ \A k \in 1 .. Len(list) : list[k] \in DeltaType
  OBVIOUS
<1>3. \A x \in DeltaType : F[x] = IF x.what = what THEN <<S[x]>> ELSE <<>>
  BY <1>1 DEF Shown
<1>4. \A k \in 1 .. Len(list) : F[list[k]] = <<>>
  BY <1>2, <1>3
<1>5. Each(list, F) = <<>>
  BY <1>2, <1>4, EachNothing
<1>6. QED
  BY <1>1, <1>5 DEF Gathered

LEMMA GatheredAll ==
  ASSUME NEW T, NEW S \in [DeltaType -> T], NEW what, NEW list \in Seq(DeltaType),
         NEW single \in Seq(T), Len(single) = Len(list),
         \A k \in 1 .. Len(list) : list[k].what = what /\ S[list[k]] = single[k]
  PROVE  Gathered(list, what, S) = single
<1>1. PICK F : F = Shown(what, S)
  OBVIOUS
<1>2. Len(list) \in Nat /\ \A k \in 1 .. Len(list) : list[k] \in DeltaType
  OBVIOUS
<1>3. \A x \in DeltaType : F[x] = IF x.what = what THEN <<S[x]>> ELSE <<>>
  BY <1>1 DEF Shown
<1>4. \A k \in 1 .. Len(list) : F[list[k]] = <<single[k]>>
  BY <1>2, <1>3
<1>5. Each(list, F) = single
  <2>1. [k \in 1 .. Len(list) |-> F[list[k]]] = [k \in 1 .. Len(single) |-> <<single[k]>>]
    BY <1>4
  <2>2. FlattenSeq([k \in 1 .. Len(single) |-> <<single[k]>>]) = single
    BY FlattenSingles
  <2>3. QED
    BY <2>1, <2>2 DEF Each
<1>6. QED
  BY <1>1, <1>5 DEF Gathered

LEMMA GatheredOne ==
  ASSUME NEW T, NEW S \in [DeltaType -> T], NEW what, NEW x \in DeltaType
  PROVE  Gathered(<<x>>, what, S) = IF x.what = what THEN <<S[x]>> ELSE <<>>
<1>1. PICK list \in Seq(DeltaType) : list = <<x>>
  <2>1. <<x>> \in Seq(DeltaType)
    OBVIOUS
  <2>2. QED
    BY <2>1
<1>2. Len(list) = 1 /\ \A k \in 1 .. Len(list) : list[k] = x
  BY <1>1
<1>3. CASE x.what = what
  <2>1. S[x] \in T
    OBVIOUS
  <2>2. PICK single \in Seq(T) : single = <<S[x]>>
    <3>1. <<S[x]>> \in Seq(T)
      BY <2>1
    <3>2. QED
      BY <3>1
  <2>3. Len(single) = Len(list) /\ \A k \in 1 .. Len(list) : list[k].what = what /\ S[list[k]] = single[k]
    BY <1>2, <1>3, <2>2
  <2>4. Gathered(list, what, S) = single
    BY <2>3, GatheredAll
  <2>5. QED
    BY <1>1, <1>3, <2>2, <2>4
<1>4. CASE x.what # what
  <2>1. Gathered(list, what, S) = <<>>
    BY <1>2, <1>4, GatheredNone
  <2>2. QED
    BY <1>1, <1>4, <2>1
<1>5. QED
  BY <1>3, <1>4

LEMMA GatheredMore ==
  ASSUME NEW T, NEW S \in [DeltaType -> T], NEW what, NEW list \in Seq(DeltaType), NEW x \in DeltaType
  PROVE  Gathered(list \o <<x>>, what, S) =
           IF x.what = what THEN Append(Gathered(list, what, S), S[x]) ELSE Gathered(list, what, S)
<1>1. PICK one, g, h : one = <<x>> /\ g = Gathered(list, what, S) /\ h = Gathered(one, what, S)
  OBVIOUS
<1>2. one \in Seq(DeltaType)
  BY <1>1
<1>3. g \in Seq(T) /\ h = IF x.what = what THEN <<S[x]>> ELSE <<>>
  BY <1>1, GatheredTyped, GatheredOne
<1>4. Gathered(list \o one, what, S) = g \o h
  BY <1>1, <1>2, GatheredJoined
<1>5. g \o <<S[x]>> = Append(g, S[x]) /\ g \o <<>> = g
  BY <1>3
<1>6. QED
  BY <1>1, <1>3, <1>4, <1>5

(* The chunks that were recorded as events.                                *)
Heard == [e \in EventType |-> IF e.delta.what = "none" THEN <<>> ELSE <<e.delta>>]
Recorded == Each(emitted, Heard)

LEMMA HeardTyped ==
  /\ Heard \in [EventType -> Seq(DeltaType)]
  /\ \A e \in EventType : \/ e.delta.what = "none" /\ Heard[e] = <<>>
                          \/ e.delta \in DeltaType /\ e.delta.what \in Whats /\ Heard[e] = <<e.delta>>
<1>1. ASSUME NEW e \in EventType
      PROVE  \/ e.delta.what = "none"
             \/ e.delta \in DeltaType /\ e.delta.what \in Whats /\ e.delta.what # "none"
  <2>1. e.delta \in DeltaType \/ e.delta = Delta("none", 0)
    BY DEF EventType
  <2>2. Delta("none", 0).what = "none"
    BY DEF Delta
  <2>3. \A x \in DeltaType : x.what \in Whats /\ x.what # "none"
    BY DEF DeltaType, Whats
  <2>4. QED
    BY <2>1, <2>2, <2>3
<1>2. \A e \in EventType : (IF e.delta.what = "none" THEN <<>> ELSE <<e.delta>>) \in Seq(DeltaType)
  <2> SUFFICES ASSUME NEW e \in EventType
               PROVE  (IF e.delta.what = "none" THEN <<>> ELSE <<e.delta>>) \in Seq(DeltaType)
    OBVIOUS
  <2>1. CASE e.delta.what = "none"
    BY <2>1
  <2>2. CASE e.delta.what # "none"
    <3>1. PICK x \in DeltaType : x = e.delta
      BY <1>1, <2>2
    <3>2. <<x>> \in Seq(DeltaType)
      OBVIOUS
    <3>3. QED
      BY <2>2, <3>1, <3>2
  <2>3. QED
    BY <2>1, <2>2
<1>3. Heard \in [EventType -> Seq(DeltaType)]
  BY <1>2 DEF Heard
<1>4. \A e \in EventType : Heard[e] = IF e.delta.what = "none" THEN <<>> ELSE <<e.delta>>
  BY DEF Heard
<1>5. QED
  BY <1>1, <1>3, <1>4

(* What is gathered from lists, one list after the other.                  *)
GatheredFrom(D, T, F, lists, each) ==
  /\ F \in [D -> Seq(T)] /\ lists \in Seq(Seq(D)) /\ each \in Seq(Seq(T)) /\ Len(each) = Len(lists)
  /\ \A k \in 1 .. Len(lists) : each[k] = Each(lists[k], F)

LEMMA EachOf ==
  ASSUME NEW D, NEW T, NEW F, NEW lists, NEW each, GatheredFrom(D, T, F, lists, each)
  PROVE  Each(FlattenSeq(lists), F) = FlattenSeq(each)
<1>1. F \in [D -> Seq(T)] /\ lists \in Seq(Seq(D))
  BY DEF GatheredFrom
<1>2. each = [k \in 1 .. Len(lists) |-> Each(lists[k], F)]
  BY DEF GatheredFrom
<1>3. PICK gathered : gathered = [k \in 1 .. Len(lists) |-> Each(lists[k], F)]
  OBVIOUS
<1>4. Each(FlattenSeq(lists), F) = FlattenSeq(gathered)
  BY <1>1, <1>3, EachFlattened
<1>5. QED
  BY <1>2, <1>3, <1>4

LEMMA HandedIs ==
  ASSUME emitted \in Seq(EventType), NEW T, NEW S \in [DeltaType -> T], NEW what \in Whats
  PROVE  /\ Handed(what) \in Seq(DeltaType)
         /\ [i \in DOMAIN Handed(what) |-> S[Handed(what)[i]]] = Gathered(Recorded, what, S)
<1>1. PICK list \in Seq(EventType) : list = emitted
  OBVIOUS
<1>2. Len(list) \in Nat /\ DOMAIN list = 1 .. Len(list) /\ \A i \in 1 .. Len(list) : list[i] \in EventType
  OBVIOUS
<1>3. what # "none"
  BY DEF Whats
<1>4. PICK seqs : seqs = [i \in 1 .. Len(list) |-> IF list[i].delta.what = what THEN <<list[i].delta>> ELSE <<>>]
  OBVIOUS
<1>5. Handed(what) = FlattenSeq(seqs)
  BY <1>1, <1>2, <1>4 DEF Handed
<1>6. PICK heard : heard = [i \in 1 .. Len(list) |-> Heard[list[i]]]
  OBVIOUS
<1>7. Recorded = FlattenSeq(heard)
  BY <1>1, <1>6 DEF Recorded, Each
<1>8. ASSUME NEW i \in 1 .. Len(list)
      PROVE  \/ seqs[i] = <<>> /\ heard[i] = <<>>
             \/ \E x \in DeltaType : x.what # what /\ seqs[i] = <<>> /\ heard[i] = <<x>>
             \/ \E x \in DeltaType : x.what = what /\ seqs[i] = <<x>> /\ heard[i] = <<x>>
  <2>1. PICK e \in EventType : e = list[i]
    BY <1>2
  <2>2. seqs[i] = IF e.delta.what = what THEN <<e.delta>> ELSE <<>>
    BY <1>4, <2>1
  <2>3. heard[i] = Heard[e]
    BY <1>6, <2>1
  <2>4. CASE e.delta.what = "none" /\ Heard[e] = <<>>
    BY <1>3, <2>2, <2>3, <2>4
  <2>5. CASE e.delta \in DeltaType /\ Heard[e] = <<e.delta>>
    BY <2>2, <2>3, <2>5
  <2>6. QED
    BY <2>4, <2>5, HeardTyped
<1>9. seqs \in Seq(Seq(DeltaType)) /\ heard \in Seq(Seq(DeltaType)) /\ Len(seqs) = Len(list) /\ Len(heard) = Len(list)
  <2>1. <<>> \in Seq(DeltaType) /\ \A x \in DeltaType : <<x>> \in Seq(DeltaType)
    OBVIOUS
  <2>2. \A i \in 1 .. Len(list) : seqs[i] \in Seq(DeltaType) /\ heard[i] \in Seq(DeltaType)
    BY <1>8, <2>1
  <2>3. QED
    BY <1>2, <1>4, <1>6, <2>2
<1>10. Handed(what) \in Seq(DeltaType)
  BY <1>5, <1>9, FlattenTyped
<1>11. PICK F \in [DeltaType -> Seq(T)] : F = Shown(what, S)
  BY ShownTyped
<1>12. \A k \in 1 .. Len(list) : Each(seqs[k], F) = Each(heard[k], F)
  <2> SUFFICES ASSUME NEW k \in 1 .. Len(list) PROVE Each(seqs[k], F) = Each(heard[k], F)
    OBVIOUS
  <2>1. ASSUME NEW x \in DeltaType, x.what # what PROVE Each(<<x>>, F) = Each(<<>>, F)
    <3>1. Gathered(<<x>>, what, S) = <<>>
      BY <2>1, GatheredOne
    <3>2. Each(<<>>, F) = <<>>
      BY EachNone
    <3>3. QED
      BY <1>11, <3>1, <3>2 DEF Gathered
  <2>2. QED
    BY <1>8, <2>1
<1>13. Each(FlattenSeq(seqs), F) = Each(FlattenSeq(heard), F)
  <2>1. seqs \in Seq(Seq(DeltaType))
    BY <1>9
  <2>2. heard \in Seq(Seq(DeltaType))
    BY <1>9
  <2>3. PICK each : each = [k \in 1 .. Len(seqs) |-> Each(seqs[k], F)]
    OBVIOUS
  <2>4. /\ each \in Seq(Seq(T)) /\ Len(each) = Len(seqs) /\ Len(each) = Len(heard)
        /\ \A k \in 1 .. Len(seqs) : each[k] = Each(seqs[k], F)
        /\ \A k \in 1 .. Len(heard) : each[k] = Each(heard[k], F)
    <3>1. \A k \in 1 .. Len(list) : seqs[k] \in Seq(DeltaType)
      BY <1>9
    <3>2. \A k \in 1 .. Len(list) : Each(seqs[k], F) \in Seq(T)
      BY <3>1, EachTyped
    <3>3. QED
      BY <1>2, <1>9, <1>12, <2>3, <3>2
  <2>5. Each(FlattenSeq(seqs), F) = FlattenSeq(each)
    <3>1. GatheredFrom(DeltaType, T, F, seqs, each)
      BY <2>1, <2>4 DEF GatheredFrom
    <3>2. QED
      BY <3>1, EachOf
  <2>6. Each(FlattenSeq(heard), F) = FlattenSeq(each)
    <3>1. GatheredFrom(DeltaType, T, F, heard, each)
      BY <2>2, <2>4 DEF GatheredFrom
    <3>2. QED
      BY <3>1, EachOf
  <2>7. QED
    BY <2>5, <2>6
<1>14. PICK P \in Seq(DeltaType) : P = FlattenSeq(seqs)
  BY <1>5, <1>10
<1>15. Each(P, F) = Gathered(Recorded, what, S)
  BY <1>7, <1>14, <1>11, <1>13 DEF Gathered
<1>16. \A k \in 1 .. Len(P) : P[k].what = what
  <2>1. Range(P) = UNION {Range(seqs[i]) : i \in 1 .. Len(seqs)}
    BY <1>9, <1>14, FlattenListed
  <2>2. ASSUME NEW i \in 1 .. Len(list), NEW y \in Range(seqs[i]) PROVE y.what = what
    <3>1. Range(<<>>) = {}
      BY DEF Range
    <3>2. \A x : Range(<<x>>) = {x}
      BY DEF Range
    <3>3. QED
      BY <1>8, <2>2, <3>1, <3>2
  <2>3. \A k \in 1 .. Len(P) : P[k] \in Range(P)
    BY DEF Range
  <2>4. QED
    BY <1>9, <2>1, <2>2, <2>3
<1>17. PICK single : single = [i \in 1 .. Len(P) |-> S[P[i]]]
  OBVIOUS
<1>18. single \in Seq(T) /\ Len(single) = Len(P) /\ \A k \in 1 .. Len(P) : S[P[k]] = single[k]
  <2>1. Len(P) \in Nat /\ \A k \in 1 .. Len(P) : P[k] \in DeltaType
    OBVIOUS
  <2>2. \A k \in 1 .. Len(P) : S[P[k]] \in T
    BY <2>1
  <2>3. QED
    BY <1>17, <2>1, <2>2
<1>19. Gathered(P, what, S) = single
  <2>1. single \in Seq(T)
    BY <1>18
  <2>2. Len(single) = Len(P)
    BY <1>18
  <2>3. \A k \in 1 .. Len(P) : P[k].what = what /\ S[P[k]] = single[k]
    BY <1>16, <1>18
  <2>4. QED
    BY <2>1, <2>2, <2>3, GatheredAll
<1>20. DOMAIN P = 1 .. Len(P)
  OBVIOUS
<1>21. QED
  BY <1>5, <1>10, <1>14, <1>11, <1>15, <1>17, <1>19, <1>20 DEF Gathered

-----------------------------------------------------------------------------
(* While the stream is open: text as it is read, the usage last reported   *)
(* by a provider that reports it as it comes unless taken back by the      *)
(* report at one of zeros, no call yet.                                    *)
Reported(list, usage, zeros) ==
  IF usage = 0 THEN list = <<>> \/ \E n \in zeros : n > Last(list) ELSE list # <<>> /\ Last(list) = usage
StreamedAs(list, p, text, usage, final, zeros) ==
  /\ list \in Seq(DeltaType)
  /\ \A k \in 1 .. Len(list) : list[k].what \in {"text", "thinking", "usage"}
  /\ \/ Gathered(list, "text", At) = text
     \/ p = "responses" /\ final # 0 /\ Gathered(list, "text", At) = <<>>
  /\ p \in {"openai", "gemini"} => Reported(Gathered(list, "usage", At), usage, zeros)
  /\ p \notin {"openai", "gemini"} => \A k \in 1 .. Len(list) : list[k].what # "usage"
Streamed(list) == StreamedAs(list, provider, draft.text, draft.usage, draft.final, ZeroReports)

LEMMA ZerosGrow ==
  ASSUME NEW item, Grows(item), NEW n, n = Len(wire) + 1
  PROVE  /\ ZeroReports \subseteq ZeroReports'
         /\ provider = "gemini" /\ item.kind = "no usage" => n \in ZeroReports'
<1>1. /\ Len(wire) \in Nat /\ DOMAIN wire = 1 .. Len(wire) /\ DOMAIN wire' = 1 .. n
      /\ provider' = provider /\ wire'[n] = item
      /\ \A m \in 1 .. Len(wire) : wire'[m] = wire[m] /\ m \in 1 .. n
  BY Grown
<1>2. n \in 1 .. n
  BY <1>1
<1>3. QED
  BY <1>1, <1>2 DEF ZeroReports

(* More reports of zeros take nothing that was handed away.                *)
LEMMA ZerosMore ==
  ASSUME NEW list, NEW p, NEW text, NEW usage, NEW final, NEW zeros, NEW more, zeros \subseteq more,
         StreamedAs(list, p, text, usage, final, zeros)
  PROVE  StreamedAs(list, p, text, usage, final, more)
<1>1. \A l : Reported(l, usage, zeros) => Reported(l, usage, more)
  BY DEF Reported
<1>2. QED
  BY <1>1 DEF StreamedAs

LEMMA DeltaTyped ==
  ASSUME NEW what \in Whats, NEW n \in Nat
  PROVE  /\ Delta(what, n) \in DeltaType /\ Delta(what, n).what = what
         /\ At[Delta(what, n)] = n
<1>1. Blank \in CallType
  BY DEF Blank, CallType
<1>2. Delta(what, n) \in DeltaType
  BY <1>1 DEF Delta, DeltaType
<1>3. Delta(what, n).what = what /\ Delta(what, n).at = n
  BY DEF Delta
<1>4. QED
  BY <1>2, <1>3 DEF At

LEMMA AtTyped == At \in [DeltaType -> Nat] /\ Carried \in [DeltaType -> CallType]
BY DEF At, Carried, DeltaType

LEMMA DeltaStreamed ==
  ASSUME NEW list, NEW p, NEW text \in Seq(Nat), NEW usage \in Nat,
         NEW zeros, StreamedAs(list, p, text, usage, 0, zeros),
         NEW what \in {"text", "thinking", "usage"}, what = "usage" => p \in {"openai", "gemini"},
         NEW n \in Nat, n # 0, NEW more, more = <<Delta(what, n)>>
  PROVE  StreamedAs(list \o more, p, IF what = "text" THEN Append(text, n) ELSE text,
                    IF what = "usage" THEN n ELSE usage, 0, zeros)
<1>1. PICK x : x = Delta(what, n)
  OBVIOUS
<1>2. x \in DeltaType /\ x.what = what /\ At[x] = n
  BY <1>1, DeltaTyped DEF Whats
<1>3. PICK g, u, G, U, longer :
        /\ g = Gathered(list, "text", At) /\ u = Gathered(list, "usage", At)
        /\ longer = list \o <<x>>
        /\ G = Gathered(longer, "text", At) /\ U = Gathered(longer, "usage", At)
  OBVIOUS
<1>4. list \in Seq(DeltaType) /\ \A k \in 1 .. Len(list) : list[k].what \in {"text", "thinking", "usage"}
  BY DEF StreamedAs
<1>5. g \in Seq(Nat) /\ u \in Seq(Nat)
  BY <1>3, <1>4, AtTyped, GatheredTyped
<1>6. /\ G = IF what = "text" THEN Append(g, n) ELSE g
      /\ U = IF what = "usage" THEN Append(u, n) ELSE u
  BY <1>2, <1>3, <1>4, AtTyped, GatheredMore
<1>7. g = text
  BY <1>3 DEF StreamedAs
<1>8. p \in {"openai", "gemini"} => Reported(u, usage, zeros)
  BY <1>3 DEF StreamedAs
<1>9. p \notin {"openai", "gemini"} => \A k \in 1 .. Len(list) : list[k].what # "usage"
  BY DEF StreamedAs
<1>10. longer \in Seq(DeltaType) /\ \A k \in 1 .. Len(longer) : longer[k] = x \/ \E i \in 1 .. Len(list) : longer[k] = list[i]
  <2>1. list \in Seq(DeltaType) /\ x \in DeltaType
    BY <1>2, <1>4
  <2>2. /\ longer \in Seq(DeltaType) /\ Len(longer) = Len(list) + 1 /\ Len(list) \in Nat
        /\ longer[Len(list) + 1] = x /\ \A i \in 1 .. Len(list) : longer[i] = list[i]
    BY <1>3, <2>1
  <2>3. \A k \in 1 .. Len(longer) : k \in 1 .. Len(list) \/ k = Len(list) + 1
    BY <2>2
  <2>4. QED
    BY <2>2, <2>3
<1>11. \A k \in 1 .. Len(longer) : longer[k].what \in {"text", "thinking", "usage"}
  BY <1>2, <1>4, <1>10
<1>12. p \notin {"openai", "gemini"} => \A k \in 1 .. Len(longer) : longer[k].what # "usage"
  BY <1>2, <1>9, <1>10
<1>13. G = IF what = "text" THEN Append(text, n) ELSE text
  BY <1>6, <1>7
<1>14. p \in {"openai", "gemini"} => Reported(U, IF what = "usage" THEN n ELSE usage, zeros)
  <2>1. CASE what = "usage"
    <3>1. PICK m : m = Append(u, n)
      OBVIOUS
    <3>2. Len(m) = Len(u) + 1 /\ Len(u) \in Nat /\ m[Len(u) + 1] = n
      BY <1>5, <3>1
    <3>3. m # <<>> /\ Last(m) = n
      BY <3>2 DEF Last
    <3>4. QED
      BY <1>6, <2>1, <3>1, <3>3 DEF Reported
  <2>2. CASE what # "usage"
    BY <1>6, <1>8, <2>2
  <2>3. QED
    BY <2>1, <2>2
<1>15. longer = list \o more
  BY <1>1, <1>3
<1>16. StreamedAs(longer, p, IF what = "text" THEN Append(text, n) ELSE text,
                  IF what = "usage" THEN n ELSE usage, 0, zeros)
  BY <1>3, <1>10, <1>11, <1>12, <1>13, <1>14 DEF StreamedAs
<1>17. QED
  BY <1>15, <1>16

LEMMA ItemStreamed ==
  ASSUME NEW item, Grows(item), ~Breaks(provider, draft, item), draft.final = 0,
         draft' = Absorb(provider, draft, item),
         NEW list, Streamed(list), NEW more, more = Deltas(provider, draft, item)
  PROVE  more \in Seq(DeltaType) /\ Streamed(list \o more)'
<1>1. PICK p, text, usage, n : p = provider /\ text = draft.text /\ usage = draft.usage /\ n = Len(wire) + 1
  OBVIOUS
<1>2. Drafted /\ p \in Streaming /\ provider' = p /\ item \in Items(p) /\ Len(wire) \in Nat
  BY <1>1, Grown DEF Grows, Read, provider
<1>3. text \in Seq(Nat) /\ usage \in Nat /\ n \in Nat /\ n # 0 /\ draft.seen + 1 = n
  BY <1>1, <1>2 DEF Drafted
<1>4. StreamedAs(list, p, text, usage, 0, ZeroReports)
  BY <1>1 DEF Streamed
<1>5. list \in Seq(DeltaType)
  BY <1>4 DEF StreamedAs
<1>6. PICK t, u, f : t = draft'.text /\ u = draft'.usage /\ f = draft'.final
  OBVIOUS
<1>7. Counted(item) => item.kind = "call" /\ t = text /\ u = usage /\ f = 0
  <2> SUFFICES ASSUME Counted(item) PROVE item.kind = "call" /\ t = text /\ u = usage /\ f = 0
    OBVIOUS
  <2>1. draft'.text = draft.text /\ draft'.usage = draft.usage /\ draft'.final = draft.final
    BY <1>1, AbsorbedCall
  <2>2. QED
    BY <1>1, <1>6, <2>1 DEF Counted
<1>8. ~Counted(item) => Told(item, n, text, usage, 0, t, u, f)
  <2>1. item.calls \in Nat
    BY <1>2, LLMAssumption
  <2>2. QED
    BY <1>1, <1>6, <2>1, AbsorbedOther
<1>9. more = IF \/ item.kind = "text"
                \/ item.kind = "thinking" /\ p # "openai"
                \/ item.kind = "usage" /\ p \in {"openai", "gemini"}
             THEN <<Delta(item.kind, n)>> ELSE <<>>
  BY <1>1, <1>3 DEF Deltas
<1>10. PICK zeros, later : zeros = ZeroReports /\ later = ZeroReports'
  OBVIOUS
<1>11. zeros \subseteq later /\ (p = "gemini" /\ item.kind = "no usage" => n \in later)
  BY <1>1, <1>10, ZerosGrow
<1>12. more \in Seq(DeltaType) /\ StreamedAs(list \o more, p, t, u, f, later)
  <2>1. CASE more # <<>>
    <3>1. PICK what \in {"text", "thinking", "usage"} :
            /\ item.kind = what /\ more = <<Delta(what, n)>> /\ (what = "usage" => p \in {"openai", "gemini"})
      BY <1>9, <2>1
    <3>2. /\ t = IF what = "text" THEN Append(text, n) ELSE text
          /\ u = IF what = "usage" THEN n ELSE usage
          /\ f = 0
      BY <1>1, <1>8, <3>1 DEF Told, Counted
    <3>3. StreamedAs(list \o more, p, IF what = "text" THEN Append(text, n) ELSE text,
                     IF what = "usage" THEN n ELSE usage, 0, later)
      <4>1. StreamedAs(list \o more, p, IF what = "text" THEN Append(text, n) ELSE text,
                       IF what = "usage" THEN n ELSE usage, 0, zeros)
        BY <1>3, <1>4, <1>10, <3>1, DeltaStreamed
      <4>2. QED
        BY <1>11, <4>1, ZerosMore
    <3>4. more \in Seq(DeltaType)
      <4>1. PICK x : x = Delta(what, n)
        OBVIOUS
      <4>2. x \in DeltaType
        BY <1>3, <3>1, <4>1, DeltaTyped DEF Whats
      <4>3. <<x>> \in Seq(DeltaType)
        BY <4>2
      <4>4. QED
        BY <3>1, <4>1, <4>3
    <3>5. QED
      BY <3>2, <3>3, <3>4
  <2>2. CASE more = <<>>
    <3>1. list \o more = list /\ more \in Seq(DeltaType)
      BY <1>5, <2>2
    <3>2. \/ t = text
          \/ p = "responses" /\ f # 0 /\ text = <<>>
      <4>1. item.kind # "text"
        BY <1>9, <2>2
      <4>2. item.kind = "final" => p = "responses"
        BY <1>2, LLMAssumption
      <4>3. QED
        BY <1>3, <1>7, <1>8, <4>1, <4>2 DEF Told
    <3>3. p \in {"openai", "gemini"} => u = usage \/ (u = 0 /\ n \in later)
      <4>1. p \in {"openai", "gemini"} => item.kind # "usage"
        BY <1>9, <2>2
      <4>2. item.kind = "final" => p = "responses"
        BY <1>2, LLMAssumption
      <4>3. QED
        BY <1>1, <1>7, <1>8, <1>11, <4>1, <4>2 DEF Told
    <3>4. Gathered(list, "text", At) = text
      BY <1>4 DEF StreamedAs
    <3>5. PICK got : got = Gathered(list, "usage", At)
      OBVIOUS
    <3>6. p \in {"openai", "gemini"} => Reported(got, u, later)
      <4> SUFFICES ASSUME p \in {"openai", "gemini"} PROVE Reported(got, u, later)
        OBVIOUS
      <4>1. Reported(got, usage, zeros)
        BY <1>4, <1>10, <3>5 DEF StreamedAs
      <4>2. Reported(got, usage, later)
        BY <1>11, <4>1 DEF Reported
      <4>3. ASSUME u = 0, n \in later, usage # 0 PROVE Reported(got, u, later)
        <5>1. Last(got) = usage
          BY <4>1, <4>3 DEF Reported
        <5>2. usage < n
          BY <1>1, <1>2, <1>3 DEF Drafted
        <5>3. n > Last(got)
          BY <1>3, <5>1, <5>2
        <5>4. QED
          BY <4>3, <5>3 DEF Reported
      <4>4. QED
        BY <3>3, <4>2, <4>3
    <3>7. StreamedAs(list, p, t, u, f, later)
      BY <1>4, <3>2, <3>4, <3>5, <3>6 DEF StreamedAs
    <3>8. QED
      BY <3>1, <3>7
  <2>3. QED
    BY <2>1, <2>2
<1>13. QED
  BY <1>2, <1>6, <1>10, <1>12 DEF Streamed

(* What is handed at the end: the usage of the others, the calls, "done".  *)
LEMMA ClosingIs ==
  ASSUME Read, NEW closing, closing = Closing(provider, draft)
  PROVE  /\ closing \in Seq(DeltaType) /\ Len(closing) # 0 /\ closing[Len(closing)].what = "done"
         /\ Gathered(closing, "text", At) = <<>>
         /\ Gathered(closing, "usage", At) =
              IF provider \in {"responses", "anthropic"} /\ draft.usage # 0 THEN <<draft.usage>> ELSE <<>>
         /\ Gathered(closing, "call", Carried) = ToolCalls(provider, draft)
         /\ Gathered(closing, "done", At) = <<0>>
<1>1. draft.usage \in Nat
  BY DEF Read, Drafted
<1>2. PICK z : z = Delta("done", 0)
  OBVIOUS
<1>3. z \in DeltaType /\ z.what = "done" /\ At[z] = 0
  BY <1>2, DeltaTyped DEF Whats
<1>4. PICK calls \in Seq(CallType) : calls = ToolCalls(provider, draft)
  BY CallsRead
<1>5. PICK a, c, e : /\ a = (IF provider \in {"responses", "anthropic"} THEN Usage(draft) ELSE <<>>)
                     /\ c = [k \in DOMAIN calls |-> CallDelta(calls[k])]
                     /\ e = <<z>>
  OBVIOUS
<1>6. closing = (a \o c) \o e
  BY <1>2, <1>4, <1>5 DEF Closing
<1>7. e \in Seq(DeltaType)
  BY <1>3, <1>5
<1>8. /\ a \in Seq(DeltaType)
      /\ \A k \in 1 .. Len(a) : a[k].what = "usage"
      /\ Gathered(a, "usage", At) =
           IF provider \in {"responses", "anthropic"} /\ draft.usage # 0 THEN <<draft.usage>> ELSE <<>>
  <2>1. CASE provider \in {"responses", "anthropic"} /\ draft.usage # 0
    <3>1. PICK u : u = Delta("usage", draft.usage)
      OBVIOUS
    <3>2. u \in DeltaType /\ u.what = "usage" /\ At[u] = draft.usage
      BY <1>1, <3>1, DeltaTyped DEF Whats
    <3>3. a = <<u>>
      BY <1>5, <2>1, <3>1 DEF Usage
    <3>4. a \in Seq(DeltaType) /\ \A k \in 1 .. Len(a) : a[k].what = "usage"
      BY <3>2, <3>3
    <3>5. Gathered(<<u>>, "usage", At) = <<At[u]>>
      BY <3>2, AtTyped, GatheredOne
    <3>6. QED
      BY <2>1, <3>2, <3>3, <3>4, <3>5
  <2>2. CASE ~(provider \in {"responses", "anthropic"} /\ draft.usage # 0)
    <3>1. a = <<>>
      BY <1>5, <2>2 DEF Usage
    <3>2. a \in Seq(DeltaType) /\ \A k \in 1 .. Len(a) : a[k].what = "usage" /\ a[k].what # "usage"
      BY <3>1
    <3>3. Gathered(a, "usage", At) = <<>>
      BY <3>2, AtTyped, GatheredNone
    <3>4. QED
      BY <2>2, <3>2, <3>3
  <2>3. QED
    BY <2>1, <2>2
<1>9. /\ c \in Seq(DeltaType) /\ Len(c) = Len(calls)
      /\ \A k \in 1 .. Len(c) : c[k].what = "call" /\ Carried[c[k]] = calls[k]
  <2>1. DOMAIN calls = 1 .. Len(calls) /\ Len(calls) \in Nat /\ \A k \in 1 .. Len(calls) : calls[k] \in CallType
    BY <1>4
  <2>2. \A call \in CallType : CallDelta(call) \in DeltaType /\ CallDelta(call).what = "call" /\ CallDelta(call).call = call
    BY DEF CallDelta, DeltaType, Whats
  <2>3. \A call \in CallType : Carried[CallDelta(call)] = call
    BY <2>2 DEF Carried
  <2>4. c = [k \in 1 .. Len(calls) |-> CallDelta(calls[k])]
    BY <1>5, <2>1
  <2>5. \A k \in 1 .. Len(calls) : c[k] = CallDelta(calls[k]) /\ c[k] \in DeltaType
    BY <2>1, <2>2, <2>4
  <2>6. c \in Seq(DeltaType) /\ Len(c) = Len(calls)
    BY <2>1, <2>4, <2>5
  <2>7. QED
    BY <2>1, <2>2, <2>3, <2>5, <2>6
<1>10. \A k \in 1 .. Len(e) : e[k].what = "done"
  BY <1>3, <1>5
<1>11. PICK ac : ac = a \o c
  OBVIOUS
<1>12. ac \in Seq(DeltaType) /\ closing = ac \o e
  BY <1>6, <1>8, <1>9, <1>11
<1>13. closing \in Seq(DeltaType) /\ Len(closing) # 0 /\ closing[Len(closing)].what = "done"
  <2>1. closing = Append(ac, z)
    BY <1>3, <1>5, <1>12
  <2>2. closing \in Seq(DeltaType) /\ Len(closing) = Len(ac) + 1 /\ Len(ac) \in Nat /\ closing[Len(ac) + 1] = z
    BY <1>3, <1>12, <2>1
  <2>3. QED
    BY <1>3, <2>2
<1>14. ASSUME NEW what, NEW T, NEW S \in [DeltaType -> T]
       PROVE  Gathered(closing, what, S) = (Gathered(a, what, S) \o Gathered(c, what, S)) \o Gathered(e, what, S)
  <2>1. Gathered(closing, what, S) = Gathered(ac, what, S) \o Gathered(e, what, S)
    <3>1. ac \in Seq(DeltaType)
      BY <1>12
    <3>2. Gathered(ac \o e, what, S) = Gathered(ac, what, S) \o Gathered(e, what, S)
      BY <1>7, <3>1, GatheredJoined
    <3>3. QED
      BY <1>12, <3>2
  <2>2. Gathered(ac, what, S) = Gathered(a, what, S) \o Gathered(c, what, S)
    BY <1>8, <1>9, <1>11, GatheredJoined
  <2>3. QED
    BY <2>1, <2>2
<1>15. Gathered(closing, "text", At) = <<>>
  <2>1. Gathered(a, "text", At) = <<>>
    BY <1>8, AtTyped, GatheredNone
  <2>2. Gathered(c, "text", At) = <<>>
    BY <1>9, AtTyped, GatheredNone
  <2>3. Gathered(e, "text", At) = <<>>
    BY <1>7, <1>10, AtTyped, GatheredNone
  <2>4. Gathered(closing, "text", At) = (Gathered(a, "text", At) \o Gathered(c, "text", At)) \o Gathered(e, "text", At)
    BY <1>14, AtTyped
  <2>5. (<<>> \o <<>>) \o <<>> = <<>>
    OBVIOUS
  <2>6. QED
    BY <2>1, <2>2, <2>3, <2>4, <2>5
<1>16. Gathered(closing, "usage", At) = Gathered(a, "usage", At)
  <2>1. Gathered(a, "usage", At) \in Seq(Nat)
    BY <1>8, AtTyped, GatheredTyped
  <2>2. Gathered(c, "usage", At) = <<>>
    BY <1>9, AtTyped, GatheredNone
  <2>3. Gathered(e, "usage", At) = <<>>
    BY <1>7, <1>10, AtTyped, GatheredNone
  <2>4. Gathered(closing, "usage", At) = (Gathered(a, "usage", At) \o Gathered(c, "usage", At)) \o Gathered(e, "usage", At)
    BY <1>14, AtTyped
  <2>5. (Gathered(a, "usage", At) \o <<>>) \o <<>> = Gathered(a, "usage", At)
    BY <2>1
  <2>6. QED
    BY <2>1, <2>2, <2>3, <2>4, <2>5
<1>17. Gathered(closing, "call", Carried) = calls
  <2>1. Gathered(a, "call", Carried) = <<>>
    BY <1>8, AtTyped, GatheredNone
  <2>2. Gathered(c, "call", Carried) = calls
    <3>1. c \in Seq(DeltaType) /\ Carried \in [DeltaType -> CallType]
      BY <1>9, AtTyped
    <3>2. Len(calls) = Len(c)
      BY <1>9
    <3>3. \A k \in 1 .. Len(c) : c[k].what = "call" /\ Carried[c[k]] = calls[k]
      BY <1>9
    <3>4. QED
      BY <3>1, <3>2, <3>3, GatheredAll
  <2>3. Gathered(e, "call", Carried) = <<>>
    BY <1>7, <1>10, AtTyped, GatheredNone
  <2>4. Gathered(closing, "call", Carried) = (Gathered(a, "call", Carried) \o Gathered(c, "call", Carried)) \o Gathered(e, "call", Carried)
    BY <1>14, AtTyped
  <2>5. (<<>> \o calls) \o <<>> = calls
    OBVIOUS
  <2>6. QED
    BY <2>1, <2>2, <2>3, <2>4, <2>5
<1>18. Gathered(closing, "done", At) = <<0>>
  <2>1. Gathered(a, "done", At) = <<>>
    BY <1>8, AtTyped, GatheredNone
  <2>2. Gathered(c, "done", At) = <<>>
    BY <1>9, AtTyped, GatheredNone
  <2>3. Gathered(e, "done", At) = <<0>>
    BY <1>3, <1>5, AtTyped, GatheredOne
  <2>4. Gathered(closing, "done", At) = (Gathered(a, "done", At) \o Gathered(c, "done", At)) \o Gathered(e, "done", At)
    BY <1>14, AtTyped
  <2>5. (<<>> \o <<>>) \o <<0>> = <<0>>
    OBVIOUS
  <2>6. QED
    BY <2>1, <2>2, <2>3, <2>4, <2>5
<1>19. QED
  BY <1>4, <1>8, <1>13, <1>15, <1>16, <1>17, <1>18

(* Once everything is handed, it adds up to the response.                  *)
LEMMA AllHanded ==
  ASSUME emitted \in Seq(EventType), Read, NEW body, Streamed(body),
         Recorded = body \o Closing(provider, draft),
         response = Assembled(provider, draft), Last(emitted).delta.what = "done"
  PROVE  StreamFaithful
<1>1. PICK closing, p, text, usage : closing = Closing(provider, draft) /\ p = provider /\ text = draft.text /\ usage = draft.usage
  OBVIOUS
<1>2. /\ closing \in Seq(DeltaType)
      /\ Gathered(closing, "text", At) = <<>>
      /\ Gathered(closing, "usage", At) = IF p \in {"responses", "anthropic"} /\ usage # 0 THEN <<usage>> ELSE <<>>
      /\ Gathered(closing, "call", Carried) = ToolCalls(provider, draft)
      /\ Gathered(closing, "done", At) = <<0>>
  BY <1>1, ClosingIs
<1>3. p \in Streaming /\ text \in Seq(Nat) /\ usage \in Nat
  BY <1>1 DEF Read, Drafted
<1>4. /\ body \in Seq(DeltaType)
      /\ \A k \in 1 .. Len(body) : body[k].what \in {"text", "thinking", "usage"}
  BY DEF Streamed, StreamedAs
<1>5. ASSUME NEW T, NEW S \in [DeltaType -> T], NEW what
      PROVE  Gathered(Recorded, what, S) = Gathered(body, what, S) \o Gathered(closing, what, S)
  BY <1>1, <1>2, <1>4, GatheredJoined
<1>6. PICK texts, usages, calls, dones :
        /\ texts = Gathered(Recorded, "text", At) /\ usages = Gathered(Recorded, "usage", At)
        /\ calls = Gathered(Recorded, "call", Carried) /\ dones = Gathered(Recorded, "done", At)
  OBVIOUS
<1>7. texts = text \/ (p = "responses" /\ texts = <<>>)
  <2>1. PICK g \in Seq(Nat) : g = Gathered(body, "text", At)
    BY <1>4, AtTyped, GatheredTyped
  <2>2. texts = g \o <<>>
    BY <1>2, <1>5, <1>6, <2>1, AtTyped
  <2>3. texts = g
    BY <2>2
  <2>4. g = text \/ (p = "responses" /\ g = <<>>)
    BY <1>1, <2>1 DEF Streamed, StreamedAs
  <2>5. QED
    BY <2>3, <2>4
<1>8. Reported(usages, usage, ZeroReports)
  <2>1. PICK u, v : u = Gathered(body, "usage", At) /\ v = Gathered(closing, "usage", At)
    OBVIOUS
  <2>2. u \in Seq(Nat)
    BY <1>4, <2>1, AtTyped, GatheredTyped
  <2>3. usages = u \o v
    BY <1>5, <1>6, <2>1, AtTyped
  <2>4. CASE p \in {"openai", "gemini"}
    <3>1. v = <<>>
      BY <1>2, <2>1, <2>4
    <3>2. usages = u
      BY <2>3, <2>2, <3>1
    <3>3. Reported(u, usage, ZeroReports)
      BY <1>1, <2>1, <2>4 DEF Streamed, StreamedAs
    <3>4. QED
      BY <3>2, <3>3
  <2>5. CASE p \in {"responses", "anthropic"}
    <3>1. \A k \in 1 .. Len(body) : body[k].what # "usage"
      BY <1>1, <2>5 DEF Streamed, StreamedAs
    <3>2. u = <<>>
      BY <1>4, <2>1, <3>1, AtTyped, GatheredNone
    <3>3. v = IF usage # 0 THEN <<usage>> ELSE <<>>
      BY <1>2, <2>1, <2>5
    <3>4. <<>> \o <<usage>> = <<usage>> /\ <<>> \o <<>> = <<>> /\ <<usage>> # <<>>
      OBVIOUS
    <3>5. Last(<<usage>>) = usage
      BY DEF Last
    <3>6. QED
      BY <2>3, <3>2, <3>3, <3>4, <3>5 DEF Reported
  <2>6. QED
    BY <1>3, <2>4, <2>5 DEF Streaming
<1>9. calls = ToolCalls(provider, draft)
  <2>1. Gathered(body, "call", Carried) = <<>>
    BY <1>4, AtTyped, GatheredNone
  <2>2. PICK t \in Seq(CallType) : t = ToolCalls(provider, draft)
    BY CallsRead
  <2>3. calls = <<>> \o t
    BY <1>2, <1>5, <1>6, <2>1, <2>2, AtTyped
  <2>4. QED
    BY <2>2, <2>3
<1>10. dones = <<0>>
  <2>1. Gathered(body, "done", At) = <<>>
    BY <1>4, AtTyped, GatheredNone
  <2>2. dones = <<>> \o <<0>>
    BY <1>2, <1>5, <1>6, <2>1, AtTyped
  <2>3. QED
    BY <2>2
<1>11. /\ response.text = text /\ response.usage = usage
       /\ response.calls = ToolCalls(provider, draft)
  BY <1>1 DEF Assembled
<1>12. p # "responses" => CallsOfWire(response.calls)
  BY <1>1, <1>11, CallsRead
<1>13. \A what \in {"text", "usage", "done"} :
         /\ Handed(what) \in Seq(DeltaType)
         /\ [i \in DOMAIN Handed(what) |-> At[Handed(what)[i]]] = Gathered(Recorded, what, At)
  <2> SUFFICES ASSUME NEW what \in {"text", "usage", "done"}
               PROVE  /\ Handed(what) \in Seq(DeltaType)
                      /\ [i \in DOMAIN Handed(what) |-> At[Handed(what)[i]]] = Gathered(Recorded, what, At)
    OBVIOUS
  <2>1. what \in Whats
    BY DEF Whats
  <2>2. QED
    BY <2>1, AtTyped, HandedIs
<1>14. \A what \in {"text", "usage", "done"} :
         /\ Handed(what) \in Seq(DeltaType)
         /\ [i \in DOMAIN Handed(what) |-> Handed(what)[i].at] = Gathered(Recorded, what, At)
  <2> SUFFICES ASSUME NEW what \in {"text", "usage", "done"}
               PROVE  /\ Handed(what) \in Seq(DeltaType)
                      /\ [i \in DOMAIN Handed(what) |-> Handed(what)[i].at] = Gathered(Recorded, what, At)
    OBVIOUS
  <2>1. PICK h \in Seq(DeltaType) : h = Handed(what) /\ [i \in DOMAIN h |-> At[h[i]]] = Gathered(Recorded, what, At)
    BY <1>13
  <2>2. \A i \in DOMAIN h : h[i] \in DeltaType
    OBVIOUS
  <2>3. \A i \in DOMAIN h : At[h[i]] = h[i].at
    BY <2>2 DEF At
  <2>4. [i \in DOMAIN h |-> At[h[i]]] = [i \in DOMAIN h |-> h[i].at]
    BY <2>3
  <2>5. QED
    BY <2>1, <2>4
<1>15. [i \in DOMAIN Handed("call") |-> Handed("call")[i].call] = calls
  <2>1. PICK h \in Seq(DeltaType) : h = Handed("call") /\ [i \in DOMAIN h |-> Carried[h[i]]] = calls
    <3>1. "call" \in Whats
      BY DEF Whats
    <3>2. QED
      BY <1>6, <3>1, AtTyped, HandedIs
  <2>2. \A i \in DOMAIN h : h[i] \in DeltaType
    OBVIOUS
  <2>3. \A i \in DOMAIN h : Carried[h[i]] = h[i].call
    BY <2>2 DEF Carried
  <2>4. [i \in DOMAIN h |-> Carried[h[i]]] = [i \in DOMAIN h |-> h[i].call]
    BY <2>3
  <2>5. QED
    BY <2>1, <2>4
<1>16. [i \in DOMAIN Handed("text") |-> Handed("text")[i].at] = texts
  BY <1>6, <1>14
<1>17. /\ usage # 0 => Handed("usage") # <<>> /\ Last(Handed("usage")).at = usage
       /\ usage = 0 /\ Handed("usage") # <<>> => TakenBack(Last(Handed("usage")).at)
  <2>1. PICK h \in Seq(DeltaType) : h = Handed("usage") /\ [i \in DOMAIN h |-> h[i].at] = usages
    BY <1>6, <1>14
  <2>2. CASE usage = 0
    <3> SUFFICES ASSUME h # <<>> PROVE TakenBack(Last(h).at)
      BY <2>1, <2>2
    <3>1. /\ Len(h) \in 1 .. Len(h) /\ DOMAIN h = 1 .. Len(h) /\ DOMAIN usages = DOMAIN h
          /\ Len(usages) = Len(h)
      BY <2>1
    <3>2. usages # <<>>
      BY <3>1
    <3>3. PICK n \in ZeroReports : n > Last(usages)
      BY <1>8, <2>2, <3>2 DEF Reported
    <3>4. Last(usages) = Last(h).at
      BY <2>1, <3>1 DEF Last
    <3>5. QED
      BY <3>3, <3>4 DEF TakenBack
  <2>3. CASE usage # 0
    <3>1. usages # <<>> /\ Last(usages) = usage
      BY <1>8, <2>3 DEF Reported
    <3>2. h # <<>>
      BY <2>1, <3>1
    <3>3. Len(h) \in 1 .. Len(h) /\ DOMAIN h = 1 .. Len(h) /\ Len(usages) = Len(h)
      BY <2>1, <3>2
    <3>4. Last(usages) = h[Len(h)].at
      BY <2>1, <3>3 DEF Last
    <3>5. Last(h).at = usage
      BY <3>1, <3>4 DEF Last
    <3>6. QED
      BY <2>1, <2>3, <3>2, <3>5
  <2>4. QED
    BY <2>2, <2>3
<1>18. Len(Handed("done")) = 1
  <2>1. PICK h \in Seq(DeltaType) : h = Handed("done") /\ [i \in DOMAIN h |-> h[i].at] = dones
    BY <1>6, <1>14
  <2>2. DOMAIN h = DOMAIN dones /\ DOMAIN dones = 1 .. 1
    BY <1>10, <2>1
  <2>3. Len(h) = 1
    BY <2>2
  <2>4. QED
    BY <2>1, <2>3
<1>19. QED
  BY <1>1, <1>7, <1>9, <1>11, <1>12, <1>15, <1>16, <1>17, <1>18 DEF StreamFaithful

-----------------------------------------------------------------------------
(* The inductive invariant.                                                *)
Preparing == {"resolve", "read", "adjust", "render", "estimate", "estimated", "start", "call"}
Finishing == {"failed", "error", "write", "written", "output", "returned"}
Streams == pc \in {"stream", "close", "assemble"} \/ (pc = "completed" /\ spec.stream)
Coming == Recorded \o queue

StreamInv ==
  /\ spec \in NodeSpec
  /\ emitted \in Seq(EventType)
  /\ pc \in Preparing => /\ wire = <<>> /\ draft = NewDraft /\ queue = <<>>
                      /\ \A k \in 1 .. Len(emitted) : emitted[k].delta.what = "none"
  /\ pc = "chat" => ~spec.stream
  /\ Streams => spec.stream /\ Read /\ queue \in Seq(DeltaType)
  /\ pc = "stream" => Streamed(Coming)
  /\ Streams /\ pc # "stream" =>
       \E body : Streamed(body) /\ Coming = body \o Closing(provider, draft)
  /\ Streams /\ pc \in {"assemble", "completed"} => queue = <<>> /\ Last(emitted).delta.what = "done"
  /\ Streams /\ pc = "completed" => response = Assembled(provider, draft)

LEMMA EventTyped ==
  /\ \A type \in {"message.read", "prompt.rendered", "prompt.estimated", "llm.started",
                  "llm.failed", "llm.completed", "message.written"} :
       Event(type) \in EventType /\ Event(type).delta.what = "none"
  /\ \A delta \in DeltaType : DeltaEvent(delta) \in EventType /\ DeltaEvent(delta).delta = delta
BY DEF Event, DeltaEvent, EventType, EventTypes, Delta

LEMMA RecordedTyped ==
  ASSUME emitted \in Seq(EventType)
  PROVE  Recorded \in Seq(DeltaType)
<1>1. PICK F \in [EventType -> Seq(DeltaType)], list \in Seq(EventType) : F = Heard /\ list = emitted
  BY HeardTyped
<1>2. Each(list, F) \in Seq(DeltaType)
  BY EachTyped
<1>3. QED
  BY <1>1, <1>2 DEF Recorded

LEMMA NothingRecorded ==
  ASSUME emitted \in Seq(EventType), \A k \in 1 .. Len(emitted) : emitted[k].delta.what = "none"
  PROVE  Recorded = <<>>
<1>1. PICK F, list : F = Heard /\ list = emitted
  OBVIOUS
<1>2. list \in Seq(EventType)
  BY <1>1
<1>3. Len(list) \in Nat /\ \A k \in 1 .. Len(list) : list[k] \in EventType
  BY <1>2
<1>4. \A e \in EventType : e.delta.what = "none" => F[e] = <<>>
  BY <1>1 DEF Heard
<1>5. \A k \in 1 .. Len(list) : F[list[k]] = <<>>
  BY <1>1, <1>3, <1>4
<1>6. Each(list, F) = <<>>
  BY <1>3, <1>5, EachNothing
<1>7. QED
  BY <1>1, <1>6 DEF Recorded

(* Once the provider has failed or the answer is used nothing is claimed.  *)
LEMMA Afterwards ==
  ASSUME StreamInv, UNCHANGED spec, emitted' \in Seq(EventType), pc' \in Finishing
  PROVE  StreamInv'
<1>1. pc' \notin Preparing /\ pc' \notin {"chat", "stream", "close", "assemble", "completed"}
  BY DEF Preparing, Finishing
<1>2. ~Streams'
  BY <1>1 DEF Streams
<1>3. spec' \in NodeSpec
  BY DEF StreamInv
<1>4. QED
  BY <1>1, <1>2, <1>3 DEF StreamInv

LEMMA Beforehand ==
  ASSUME StreamInv, UNCHANGED spec, pc' \in Preparing, UNCHANGED <<wire, draft, queue>>, pc \in Preparing,
         emitted' \in Seq(EventType), \A k \in 1 .. Len(emitted') : emitted'[k].delta.what = "none"
  PROVE  StreamInv'
<1>1. pc' \notin {"chat", "stream", "close", "assemble", "completed"}
  BY DEF Preparing
<1>2. ~Streams'
  BY <1>1 DEF Streams
<1>3. spec' \in NodeSpec
  BY DEF StreamInv
<1>4. wire' = <<>> /\ draft' = NewDraft /\ queue' = <<>>
  BY DEF StreamInv
<1>5. QED
  BY <1>1, <1>2, <1>3, <1>4 DEF StreamInv

(* An event other than a chunk is recorded, or not.                        *)
LEMMA Emitted ==
  ASSUME emitted \in Seq(EventType), NEW e \in EventType, NEW next, NEW failure, Emit(e, next, failure)
  PROVE  /\ emitted' \in Seq(EventType)
         /\ \/ pc' = next /\ emitted' = Append(emitted, e)
            \/ pc' = failure
         /\ \A k \in 1 .. Len(emitted') :
              (k \in 1 .. Len(emitted) /\ emitted'[k] = emitted[k]) \/ emitted'[k] = e
<1>1. emitted' = emitted \/ emitted' = Append(emitted, e)
  BY DEF Emit
<1>2. PICK list, more : list = emitted /\ more = Append(list, e)
  OBVIOUS
<1>3. list \in Seq(EventType)
  BY <1>2
<1>4. /\ more \in Seq(EventType) /\ Len(more) = Len(list) + 1 /\ Len(list) \in Nat
      /\ more[Len(list) + 1] = e /\ \A k \in 1 .. Len(list) : more[k] = list[k]
  BY <1>2, <1>3
<1>5. \A k \in 1 .. Len(more) : (k \in 1 .. Len(list) /\ more[k] = list[k]) \/ more[k] = e
  BY <1>4
<1>6. QED
  BY <1>1, <1>2, <1>3, <1>4, <1>5 DEF Emit

LEMMA StageStreams ==
  ASSUME StreamInv, NEW from \in Preparing, NEW type, NEW next \in Preparing, Stage(from, type, next),
         type \in {"message.read", "prompt.rendered", "prompt.estimated", "llm.started"}
  PROVE  StreamInv'
<1>1. PICK e : e = Event(type)
  OBVIOUS
<1>2. e \in EventType /\ e.delta.what = "none"
  BY <1>1, EventTyped
<1>3. pc = from /\ Emit(e, next, "error") /\ UNCHANGED <<spec, wire, draft, queue>>
  BY <1>1 DEF Stage
<1>4. emitted \in Seq(EventType) /\ \A k \in 1 .. Len(emitted) : emitted[k].delta.what = "none"
  BY <1>3 DEF StreamInv
<1>5. /\ emitted' \in Seq(EventType) /\ pc' \in {next, "error"}
      /\ \A k \in 1 .. Len(emitted') : (k \in 1 .. Len(emitted) /\ emitted'[k] = emitted[k]) \/ emitted'[k] = e
  BY <1>2, <1>3, <1>4, Emitted
<1>6. \A k \in 1 .. Len(emitted') : emitted'[k].delta.what = "none"
  BY <1>2, <1>4, <1>5
<1>7. CASE pc' = "error"
  BY <1>3, <1>5, <1>7, Afterwards DEF Finishing
<1>8. CASE pc' = next
  BY <1>3, <1>5, <1>6, <1>8, Beforehand
<1>9. QED
  BY <1>5, <1>7, <1>8

LEMMA GoKeeps ==
  ASSUME StreamInv, pc \in Preparing, NEW next \in Preparing \cup Finishing, Go(next)
  PROVE  StreamInv'
<1>1. pc' = next /\ UNCHANGED <<spec, wire, draft, queue, emitted>>
  BY DEF Go
<1>2. emitted' \in Seq(EventType) /\ \A k \in 1 .. Len(emitted') : emitted'[k].delta.what = "none"
  BY <1>1 DEF StreamInv
<1>3. CASE next \in Finishing
  BY <1>1, <1>2, <1>3, Afterwards
<1>4. CASE next \in Preparing
  BY <1>1, <1>2, <1>4, Beforehand
<1>5. QED
  BY <1>3, <1>4

LEMMA InitStream == Init => StreamInv
<1> SUFFICES ASSUME Init PROVE StreamInv
  OBVIOUS
<1>1. spec \in NodeSpec /\ pc = "resolve" /\ wire = <<>> /\ draft = NewDraft /\ queue = <<>> /\ emitted = <<>>
  BY LLMAssumption DEF Init
<1>2. emitted \in Seq(EventType) /\ 1 .. Len(emitted) = {}
  BY <1>1
<1>3. ~Streams
  BY <1>1 DEF Streams
<1>4. QED
  BY <1>1, <1>2, <1>3 DEF StreamInv

LEMMA CallKeeps == ASSUME StreamInv, Call PROVE StreamInv'
<1>1. pc = "call" /\ pc \in Preparing /\ Go(IF CannotStream THEN "error" ELSE IF spec.stream THEN "stream" ELSE "chat")
  BY DEF Call, Preparing
<1>2. /\ pc' = IF CannotStream THEN "error" ELSE IF spec.stream THEN "stream" ELSE "chat"
      /\ UNCHANGED <<spec, wire, draft, queue, emitted>>
  BY <1>1 DEF Go
<1>3. /\ spec \in NodeSpec /\ emitted \in Seq(EventType)
      /\ wire = <<>> /\ draft = NewDraft /\ queue = <<>>
      /\ \A k \in 1 .. Len(emitted) : emitted[k].delta.what = "none"
  BY <1>1 DEF StreamInv
<1>4. CASE CannotStream
  <2>1. pc' \in Finishing
    BY <1>2, <1>4 DEF Finishing
  <2>2. QED
    BY <1>2, <1>3, <2>1, Afterwards
<1>5. CASE ~CannotStream /\ spec.stream
  <2>1. pc' = "stream" /\ spec.stream
    BY <1>2, <1>5
  <2>2. provider \in Streaming
    BY <1>3, <1>5 DEF CannotStream, provider, NodeSpec
  <2>3. Read
    BY <1>3, <2>2, NothingRead
  <2>4. Read'
    BY <1>2, <2>3, ReadStays
  <2>5. Recorded = <<>>
    BY <1>3, NothingRecorded
  <2>6. Coming' = <<>>
    <3>1. Recorded' = <<>> /\ queue' = <<>>
      BY <1>2, <1>3, <2>5 DEF Recorded
    <3>2. <<>> \o <<>> = <<>>
      OBVIOUS
    <3>3. QED
      BY <3>1, <3>2 DEF Coming
  <2>7. Streamed(<<>>)'
    <3>1. draft'.text = <<>> /\ draft'.usage = 0
      BY <1>2, <1>3 DEF NewDraft
    <3>2. PICK none : none = <<>>
      OBVIOUS
    <3>3. none \in Seq(DeltaType) /\ 1 .. Len(none) = {}
      BY <3>2
    <3>4. Gathered(none, "text", At) = <<>> /\ Gathered(none, "usage", At) = <<>>
      BY <3>3, AtTyped, GatheredNone
    <3>5. \A zeros : Reported(<<>>, 0, zeros)
      BY DEF Reported
    <3>6. QED
      BY <3>1, <3>2, <3>3, <3>4, <3>5 DEF Streamed, StreamedAs
  <2>8. Streamed(Coming)'
    BY <2>6, <2>7 DEF Streamed
  <2>9. spec' \in NodeSpec /\ emitted' \in Seq(EventType) /\ queue' \in Seq(DeltaType) /\ spec'.stream
    BY <1>2, <1>3, <2>1
  <2>10. pc' \notin Preparing
    BY <2>1 DEF Preparing
  <2>11. QED
    BY <2>1, <2>4, <2>8, <2>9, <2>10 DEF StreamInv
<1>6. CASE ~CannotStream /\ ~spec.stream
  <2>1. pc' = "chat" /\ ~spec'.stream /\ pc' \notin Preparing
    BY <1>2, <1>6 DEF Preparing
  <2>2. ~Streams'
    BY <2>1 DEF Streams
  <2>3. spec' \in NodeSpec /\ emitted' \in Seq(EventType)
    BY <1>2, <1>3
  <2>4. QED
    BY <2>1, <2>2, <2>3 DEF StreamInv
<1>7. QED
  BY <1>4, <1>5, <1>6

LEMMA ChatKeeps == ASSUME StreamInv, Chat PROVE StreamInv'
<1>1. /\ pc = "chat" /\ pc' \in {"completed", "failed"}
      /\ UNCHANGED <<spec, emitted>>
  BY DEF Chat, Go
<1>2. spec' \in NodeSpec /\ emitted' \in Seq(EventType) /\ ~spec'.stream
  BY <1>1 DEF StreamInv
<1>3. pc' \notin Preparing /\ pc' \notin {"chat", "stream", "close", "assemble"}
  BY <1>1 DEF Preparing
<1>4. ~Streams'
  BY <1>2, <1>3 DEF Streams
<1>5. QED
  BY <1>2, <1>3, <1>4 DEF StreamInv

LEMMA ItemKeeps == ASSUME StreamInv, NEW item \in Items(provider), Item(item) PROVE StreamInv'
<1>1. /\ pc = "stream" /\ queue = <<>> /\ draft.final = 0 /\ wire' = Append(wire, item)
      /\ UNCHANGED <<spec, emitted>>
  BY DEF Item
<1>2. /\ spec \in NodeSpec /\ emitted \in Seq(EventType) /\ spec.stream /\ Read /\ Streamed(Coming)
  BY <1>1 DEF StreamInv, Streams
<1>3. CASE Breaks(provider, draft, item)
  <2>1. pc' \in Finishing
    BY <1>3 DEF Item, Finishing
  <2>2. emitted' \in Seq(EventType)
    BY <1>1, <1>2
  <2>3. QED
    BY <1>1, <2>1, <2>2, Afterwards
<1>4. CASE ~Breaks(provider, draft, item)
  <2>1. draft' = Absorb(provider, draft, item) /\ queue' = Deltas(provider, draft, item) /\ pc' = pc
    BY <1>4 DEF Item
  <2>2. Grows(item)
    BY <1>1, <1>2 DEF Grows
  <2>3. Read'
    BY <1>4, <2>1, <2>2, ItemRead
  <2>4. PICK list, more : list = Recorded /\ more = Deltas(provider, draft, item)
    OBVIOUS
  <2>5. list \in Seq(DeltaType)
    BY <1>2, <2>4, RecordedTyped
  <2>6. Coming = list
    BY <1>1, <2>4, <2>5 DEF Coming
  <2>7. Streamed(list)
    BY <1>2, <2>6
  <2>8. more \in Seq(DeltaType) /\ Streamed(list \o more)'
    BY <1>1, <1>4, <2>1, <2>2, <2>4, <2>7, ItemStreamed
  <2>9. Recorded' = list
    BY <1>1, <2>4 DEF Recorded
  <2>10. Coming' = list \o more
    BY <2>1, <2>4, <2>9 DEF Coming
  <2>11. Streamed(Coming)'
    BY <2>8, <2>10 DEF Streamed
  <2>12. spec' \in NodeSpec /\ emitted' \in Seq(EventType) /\ queue' \in Seq(DeltaType) /\ spec'.stream
    BY <1>1, <1>2, <2>1, <2>4, <2>8
  <2>13. pc' = "stream" /\ pc' \notin Preparing
    BY <1>1, <2>1 DEF Preparing
  <2>14. QED
    BY <2>3, <2>11, <2>12, <2>13 DEF StreamInv
<1>5. QED
  BY <1>3, <1>4

(* A chunk that is handed moves from the queue to the events.              *)
LEMMA RecordedMore ==
  ASSUME emitted \in Seq(EventType), NEW delta \in DeltaType, emitted' = Append(emitted, DeltaEvent(delta))
  PROVE  Recorded' = Recorded \o <<delta>> /\ Last(emitted').delta = delta
<1>1. PICK F \in [EventType -> Seq(DeltaType)], list \in Seq(EventType), e \in EventType :
        F = Heard /\ list = emitted /\ e = DeltaEvent(delta)
  BY HeardTyped, EventTyped
<1>2. e \in EventType /\ e.delta = delta
  BY <1>1, EventTyped
<1>3. F[e] = <<delta>>
  <2>1. delta.what # "none"
    BY DEF DeltaType, Whats
  <2>2. QED
    BY <1>1, <1>2, <2>1 DEF Heard
<1>4. Each(Append(list, e), F) = Each(list, F) \o F[e]
  <2>1. list \in Seq(EventType) /\ e \in EventType /\ F \in [EventType -> Seq(DeltaType)]
    OBVIOUS
  <2>2. QED
    BY <2>1, EachMore, ZenonT(60)
<1>5. Recorded' = Each(Append(list, e), F)
  BY <1>1 DEF Recorded, Heard
<1>6. Recorded = Each(list, F)
  BY <1>1 DEF Recorded
<1>7. Last(Append(list, e)) = e
  BY <1>2 DEF Last
<1>8. QED
  BY <1>1, <1>2, <1>3, <1>4, <1>5, <1>6, <1>7

LEMMA HandStreams == ASSUME StreamInv, Hand PROVE StreamInv'
<1>1. /\ pc \in {"stream", "close"} /\ queue # <<>> /\ queue' = Tail(queue)
      /\ Emit(DeltaEvent(Head(queue)), Closed, "failed")
      /\ UNCHANGED <<spec, wire, draft, response>>
  BY DEF Hand, Handing
<1>2. /\ spec \in NodeSpec /\ emitted \in Seq(EventType) /\ spec.stream /\ Read /\ queue \in Seq(DeltaType)
  BY <1>1 DEF StreamInv, Streams
<1>3. PICK list, rest, delta : list = queue /\ rest = Tail(queue) /\ delta = Head(queue)
  OBVIOUS
<1>4. list \in Seq(DeltaType) /\ list # <<>>
  BY <1>1, <1>2, <1>3
<1>5. /\ rest \in Seq(DeltaType) /\ delta \in DeltaType /\ list = <<delta>> \o rest
      /\ Len(list) \in Nat /\ (Len(list) = 1 => rest = <<>> /\ delta = list[Len(list)])
  BY <1>3, <1>4
<1>6. PICK e : e = DeltaEvent(delta)
  OBVIOUS
<1>7. e \in EventType
  BY <1>5, <1>6, EventTyped
<1>8. /\ emitted' \in Seq(EventType)
      /\ pc' = "failed" \/ (pc' = Closed /\ emitted' = Append(emitted, e))
  BY <1>1, <1>2, <1>3, <1>6, <1>7, Emitted
<1>9. CASE pc' = "failed"
  BY <1>1, <1>8, <1>9, Afterwards DEF Finishing
<1>10. CASE pc' = Closed /\ emitted' = Append(emitted, e)
  <2>1. Recorded' = Recorded \o <<delta>> /\ Last(emitted').delta = delta
    BY <1>2, <1>5, <1>6, <1>10, RecordedMore
  <2>2. PICK got : got = Recorded
    OBVIOUS
  <2>3. got \in Seq(DeltaType)
    BY <1>2, <2>2, RecordedTyped
  <2>4. (got \o <<delta>>) \o rest = got \o (<<delta>> \o rest)
    BY <1>5, <2>3
  <2>5. Coming' = (got \o <<delta>>) \o rest
    BY <1>1, <1>3, <2>1, <2>2 DEF Coming
  <2>6. Coming = got \o list
    BY <1>3, <2>2 DEF Coming
  <2>7. Coming' = Coming
    BY <1>5, <2>4, <2>5, <2>6
  <2>8. Read'
    BY <1>1, <1>2, ReadStays
  <2>9. \A body : Streamed(body) => Streamed(body)'
    BY <1>1 DEF Streamed, provider, ZeroReports
  <2>10. Closing(provider, draft)' = Closing(provider, draft)
    BY <1>1 DEF provider
  <2>11. /\ spec' \in NodeSpec /\ spec'.stream /\ queue' \in Seq(DeltaType)
    BY <1>1, <1>2, <1>3, <1>5
  <2>12. CASE pc = "stream"
    <3>1. pc' = "stream" /\ pc' \notin Preparing
      BY <1>10, <2>12 DEF Closed, Preparing
    <3>2. Streamed(Coming)
      BY <2>12 DEF StreamInv
    <3>3. Streamed(Coming)'
      <4>1. PICK body : body = Coming
        OBVIOUS
      <4>2. Streamed(body)'
        BY <2>9, <3>2, <4>1
      <4>3. QED
        BY <2>7, <4>1, <4>2 DEF Streamed
    <3>4. QED
      BY <1>8, <2>8, <2>11, <3>1, <3>3 DEF StreamInv
  <2>13. CASE pc = "close"
    <3>1. PICK body : Streamed(body) /\ Coming = body \o Closing(provider, draft)
      BY <2>13 DEF StreamInv, Streams
    <3>2. Streamed(body)' /\ Coming' = body \o Closing(provider, draft)'
      BY <2>7, <2>9, <2>10, <3>1
    <3>3. \E b : Streamed(b)' /\ Coming' = b \o Closing(provider, draft)'
      BY <3>2
    <3>4. CASE Len(queue) = 1
      <4>1. pc' = "assemble" /\ pc' \notin Preparing
        BY <1>10, <2>13, <3>4 DEF Closed, Preparing
      <4>2. rest = <<>> /\ list = <<delta>>
        <5>1. rest = <<>>
          BY <1>3, <1>5, <3>4
        <5>2. <<delta>> \o <<>> = <<delta>>
          OBVIOUS
        <5>3. QED
          BY <1>5, <5>1, <5>2
      <4>3. delta.what = "done"
        <5>1. PICK closing : closing = Closing(provider, draft)
          OBVIOUS
        <5>2. closing \in Seq(DeltaType) /\ Len(closing) # 0 /\ closing[Len(closing)].what = "done"
          BY <1>2, <5>1, ClosingIs
        <5>3. body \in Seq(DeltaType)
          BY <3>1 DEF Streamed, StreamedAs
        <5>4. got \o <<delta>> = body \o closing
          BY <2>6, <3>1, <4>2, <5>1
        <5>5. (got \o <<delta>>)[Len(got \o <<delta>>)] = delta
          BY <1>5, <2>3
        <5>6. (body \o closing)[Len(body \o closing)] = closing[Len(closing)]
          <6>1. /\ Len(body) \in Nat /\ Len(closing) \in Nat /\ Len(body \o closing) = Len(body) + Len(closing)
            BY <5>2, <5>3
          <6>2. \A k \in 1 .. Len(closing) : (body \o closing)[Len(body) + k] = closing[k]
            BY <5>2, <5>3
          <6>3. QED
            BY <5>2, <6>1, <6>2
        <5>7. QED
          BY <5>2, <5>4, <5>5, <5>6
      <4>4. queue' = <<>> /\ Last(emitted').delta.what = "done"
        BY <1>1, <1>3, <2>1, <4>2, <4>3
      <4>5. QED
        BY <1>8, <2>8, <2>11, <3>3, <4>1, <4>4 DEF StreamInv
    <3>5. CASE Len(queue) # 1
      <4>1. pc' = "close" /\ pc' \notin Preparing
        BY <1>10, <2>13, <3>5 DEF Closed, Preparing
      <4>2. QED
        BY <1>8, <2>8, <2>11, <3>3, <4>1 DEF StreamInv
    <3>6. QED
      BY <3>4, <3>5
  <2>14. QED
    BY <1>1, <2>12, <2>13
<1>11. QED
  BY <1>8, <1>9, <1>10

LEMMA StreamEndKeeps == ASSUME StreamInv, StreamEnd PROVE StreamInv'
<1>1. /\ pc = "stream" /\ queue = <<>>
      /\ UNCHANGED <<spec, wire, draft, response, emitted>>
      /\ pc' = "failed" \/ (pc' = "close" /\ queue' = Closing(provider, draft))
  BY DEF StreamEnd
<1>2. /\ spec \in NodeSpec /\ emitted \in Seq(EventType) /\ spec.stream /\ Read /\ Streamed(Coming)
  BY <1>1 DEF StreamInv, Streams
<1>3. CASE pc' = "failed"
  BY <1>1, <1>2, <1>3, Afterwards DEF Finishing
<1>4. CASE pc' = "close" /\ queue' = Closing(provider, draft)
  <2>1. PICK body, closing : body = Recorded /\ closing = Closing(provider, draft)
    OBVIOUS
  <2>2. body \in Seq(DeltaType) /\ closing \in Seq(DeltaType)
    BY <1>2, <2>1, RecordedTyped, ClosingIs
  <2>3. Coming = body
    BY <1>1, <2>1, <2>2 DEF Coming
  <2>4. Streamed(body)'
    BY <1>1, <1>2, <2>3 DEF Streamed, provider, ZeroReports
  <2>5. Coming' = body \o closing
    BY <1>1, <1>4, <2>1 DEF Coming, Recorded
  <2>6. Closing(provider, draft)' = closing
    BY <1>1, <2>1 DEF provider
  <2>7. \E b : Streamed(b)' /\ Coming' = b \o Closing(provider, draft)'
    BY <2>4, <2>5, <2>6
  <2>8. Read'
    BY <1>1, <1>2, ReadStays
  <2>9. /\ spec' \in NodeSpec /\ emitted' \in Seq(EventType) /\ queue' \in Seq(DeltaType) /\ spec'.stream
    BY <1>1, <1>2, <1>4, <2>1, <2>2
  <2>10. pc' = "close" /\ pc' \notin Preparing
    BY <1>4 DEF Preparing
  <2>11. QED
    BY <2>7, <2>8, <2>9, <2>10 DEF StreamInv
<1>5. QED
  BY <1>1, <1>3, <1>4

LEMMA AssembleKeeps == ASSUME StreamInv, Assemble PROVE StreamInv'
<1>1. /\ pc = "assemble" /\ pc' = "completed" /\ response' = Assembled(provider, draft)
      /\ UNCHANGED <<spec, wire, draft, queue, emitted>>
  BY DEF Assemble
<1>2. /\ spec \in NodeSpec /\ emitted \in Seq(EventType) /\ spec.stream /\ Read /\ queue \in Seq(DeltaType)
      /\ queue = <<>> /\ Last(emitted).delta.what = "done"
  BY <1>1 DEF StreamInv, Streams
<1>3. PICK body : Streamed(body) /\ Coming = body \o Closing(provider, draft)
  BY <1>1 DEF StreamInv, Streams
<1>4. Streamed(body)' /\ Coming' = body \o Closing(provider, draft)'
  BY <1>1, <1>3 DEF Streamed, Coming, Recorded, provider, ZeroReports
<1>5. \E b : Streamed(b)' /\ Coming' = b \o Closing(provider, draft)'
  BY <1>4
<1>6. Read'
  BY <1>1, <1>2, ReadStays
<1>7. response' = Assembled(provider, draft)'
  BY <1>1 DEF provider
<1>8. /\ spec' \in NodeSpec /\ emitted' \in Seq(EventType) /\ spec'.stream /\ queue' \in Seq(DeltaType)
      /\ queue' = <<>> /\ Last(emitted').delta.what = "done"
  BY <1>1, <1>2
<1>9. pc' = "completed" /\ pc' \notin Preparing
  BY <1>1 DEF Preparing
<1>10. QED
  BY <1>5, <1>6, <1>7, <1>8, <1>9 DEF StreamInv

(* The events after the provider's answer or failure.                      *)
LEMMA ReportKeeps ==
  ASSUME StreamInv, UNCHANGED spec,
         NEW type \in {"llm.failed", "llm.completed", "message.written"}, NEW next \in Finishing, NEW failure \in Finishing,
         Emit(Event(type), next, failure)
  PROVE  StreamInv'
<1>1. PICK e : e = Event(type)
  OBVIOUS
<1>2. e \in EventType
  BY <1>1, EventTyped
<1>3. emitted \in Seq(EventType)
  BY DEF StreamInv
<1>4. emitted' \in Seq(EventType) /\ pc' \in {next, failure}
  BY <1>1, <1>2, <1>3, Emitted
<1>5. QED
  BY <1>4, Afterwards

LEMMA StutterKeeps == ASSUME StreamInv, UNCHANGED vars PROVE StreamInv'
<1>1. UNCHANGED <<spec, pc, wire, draft, queue, response, emitted>>
  BY DEF vars
<1>2. Streams' = Streams /\ Coming' = Coming /\ provider' = provider
  BY <1>1 DEF Streams, Coming, Recorded, provider
<1>3. \A body : Streamed(body)' = Streamed(body)
  BY <1>1 DEF Streamed, provider, ZeroReports
<1>4. Read => Read'
  BY <1>1, ReadStays
<1>5. Streamed(Coming)' = Streamed(Coming)
  BY <1>1, <1>2 DEF Streamed, ZeroReports, provider
<1>6. Closing(provider, draft)' = Closing(provider, draft) /\ Assembled(provider, draft)' = Assembled(provider, draft)
  BY <1>1, <1>2
<1>7. /\ spec' \in NodeSpec /\ emitted' \in Seq(EventType)
      /\ pc' \in Preparing => /\ wire' = <<>> /\ draft' = NewDraft /\ queue' = <<>>
                           /\ \A k \in 1 .. Len(emitted') : emitted'[k].delta.what = "none"
      /\ pc' = "chat" => ~spec'.stream
  BY <1>1 DEF StreamInv
<1>8. /\ Streams' => spec'.stream /\ Read' /\ queue' \in Seq(DeltaType)
      /\ pc' = "stream" => Streamed(Coming)'
  BY <1>1, <1>2, <1>4, <1>5 DEF StreamInv
<1>9. Streams' /\ pc' # "stream" => \E body : Streamed(body)' /\ Coming' = body \o Closing(provider, draft)'
  BY <1>1, <1>2, <1>3, <1>6 DEF StreamInv
<1>10. /\ Streams' /\ pc' \in {"assemble", "completed"} => queue' = <<>> /\ Last(emitted').delta.what = "done"
       /\ Streams' /\ pc' = "completed" => response' = Assembled(provider, draft)'
  BY <1>1, <1>2, <1>6 DEF StreamInv
<1>11. QED
  BY <1>7, <1>8, <1>9, <1>10 DEF StreamInv

LEMMA NextStream == StreamInv /\ [Next]_vars => StreamInv'
<1> SUFFICES ASSUME StreamInv, [Next]_vars PROVE StreamInv'
  OBVIOUS
<1>1. emitted \in Seq(EventType)
  BY DEF StreamInv
<1>2. CASE Resolve
  <2>1. PICK next \in {"read", "error"} : pc = "resolve" /\ Go(next)
    BY <1>2 DEF Resolve
  <2>2. pc \in Preparing /\ next \in Preparing \cup Finishing
    BY <2>1 DEF Preparing, Finishing
  <2>3. QED
    BY <2>1, <2>2, GoKeeps
<1>3. CASE MessageRead
  <2>1. "read" \in Preparing /\ "adjust" \in Preparing
    BY DEF Preparing
  <2>2. QED
    BY <1>3, <2>1, StageStreams DEF MessageRead
<1>4. CASE Adjust
  <2>1. PICK next \in {"render", "error"} : pc = "adjust" /\ Go(next)
    BY <1>4 DEF Adjust
  <2>2. pc \in Preparing /\ next \in Preparing \cup Finishing
    BY <2>1 DEF Preparing, Finishing
  <2>3. QED
    BY <2>1, <2>2, GoKeeps
<1>5. CASE PromptRendered
  <2>1. "render" \in Preparing /\ "estimate" \in Preparing
    BY DEF Preparing
  <2>2. QED
    BY <1>5, <2>1, StageStreams DEF PromptRendered
<1>6. CASE Estimate
  <2>1. PICK next \in {"estimated", "error", "start"} : pc = "estimate" /\ Go(next)
    BY <1>6 DEF Estimate
  <2>2. pc \in Preparing /\ next \in Preparing \cup Finishing
    BY <2>1 DEF Preparing, Finishing
  <2>3. QED
    BY <2>1, <2>2, GoKeeps
<1>7. CASE PromptEstimated
  <2>1. "estimated" \in Preparing /\ "start" \in Preparing
    BY DEF Preparing
  <2>2. QED
    BY <1>7, <2>1, StageStreams DEF PromptEstimated
<1>8. CASE LLMStarted
  <2>1. "start" \in Preparing /\ "call" \in Preparing
    BY DEF Preparing
  <2>2. QED
    BY <1>8, <2>1, StageStreams DEF LLMStarted
<1>9. CASE Call
  BY <1>9, CallKeeps
<1>10. CASE Chat
  BY <1>10, ChatKeeps
<1>11. ASSUME NEW item \in Items(provider), Item(item) PROVE StreamInv'
  BY <1>11, ItemKeeps
<1>12. CASE Hand
  BY <1>12, HandStreams
<1>13. CASE StreamEnd
  BY <1>13, StreamEndKeeps
<1>14. CASE Assemble
  BY <1>14, AssembleKeeps
<1>15. CASE LLMFailed
  <2>1. "error" \in Finishing
    BY DEF Finishing
  <2>2. Emit(Event("llm.failed"), "error", "error") /\ UNCHANGED spec
    BY <1>15 DEF LLMFailed, AfterFailure
  <2>3. QED
    BY <2>1, <2>2, ReportKeeps
<1>16. CASE LLMCompleted
  <2>1. PICK next \in {"write", "output"} : Emit(Event("llm.completed"), next, "error") /\ UNCHANGED spec
    BY <1>16 DEF LLMCompleted, Stage
  <2>2. next \in Finishing /\ "error" \in Finishing
    BY <2>1 DEF Finishing
  <2>3. QED
    BY <2>1, <2>2, ReportKeeps
<1>17. CASE Write
  <2>1. pc' \in Finishing /\ UNCHANGED <<spec, emitted>>
    BY <1>17 DEF Write, Go, Finishing
  <2>2. QED
    BY <1>1, <2>1, Afterwards
<1>18. CASE MessageWritten
  <2>1. Emit(Event("message.written"), "output", "error") /\ UNCHANGED spec
    BY <1>18 DEF MessageWritten, Stage
  <2>2. "output" \in Finishing /\ "error" \in Finishing
    BY DEF Finishing
  <2>3. QED
    BY <2>1, <2>2, ReportKeeps
<1>19. CASE Output
  <2>1. pc' \in Finishing /\ UNCHANGED <<spec, emitted>>
    BY <1>19 DEF Output, Return, Finishing
  <2>2. QED
    BY <1>1, <2>1, Afterwards
<1>20. CASE Error
  <2>1. pc' \in Finishing /\ UNCHANGED <<spec, emitted>>
    BY <1>20 DEF Error, Return, Finishing
  <2>2. QED
    BY <1>1, <2>1, Afterwards
<1>21. CASE Again
  <2>1. /\ pc' = "resolve" /\ wire' = <<>> /\ draft' = NewDraft /\ queue' = <<>> /\ emitted' = <<>>
        /\ UNCHANGED spec
    BY <1>21 DEF Again
  <2>2. emitted' \in Seq(EventType) /\ 1 .. Len(emitted') = {}
    BY <2>1
  <2>3. spec' \in NodeSpec /\ pc' = "resolve" /\ ~Streams'
    BY <2>1 DEF StreamInv, Streams
  <2>4. QED
    BY <2>1, <2>2, <2>3 DEF StreamInv
<1>22. CASE Stop \/ UNCHANGED vars
  BY <1>22, StutterKeeps DEF Stop
<1>23. QED
  BY <1>2, <1>3, <1>4, <1>5, <1>6, <1>7, <1>8, <1>9, <1>10, <1>11, <1>12, <1>13, <1>14, <1>15,
     <1>16, <1>17, <1>18, <1>19, <1>20, <1>21, <1>22 DEF Next

LEMMA StreamSafe == StreamInv => StreamFaithful
<1> SUFFICES ASSUME StreamInv, spec.stream, pc = "completed" PROVE StreamFaithful
  BY DEF StreamFaithful
<1>1. Streams
  BY DEF Streams
<1>2. /\ emitted \in Seq(EventType) /\ Read /\ queue = <<>> /\ Last(emitted).delta.what = "done"
      /\ response = Assembled(provider, draft)
  BY <1>1 DEF StreamInv
<1>3. PICK body : Streamed(body) /\ Coming = body \o Closing(provider, draft)
  BY <1>1 DEF StreamInv
<1>4. Recorded = body \o Closing(provider, draft)
  <2>1. PICK got : got = Recorded
    OBVIOUS
  <2>2. got \in Seq(DeltaType)
    BY <1>2, <2>1, RecordedTyped
  <2>3. Coming = got
    BY <1>2, <2>1, <2>2 DEF Coming
  <2>4. QED
    BY <1>3, <2>1, <2>3
<1>5. QED
  BY <1>2, <1>3, <1>4, AllHanded

(* What the handler of a stream was given adds up to the response, and the *)
(* response has every tool call of the wire, whatever the provider sends,  *)
(* however its items are interleaved and wherever an event fails: but for  *)
(* the usage that Gemini takes back by a later report of zeros.            *)
THEOREM StreamsFaithful == Spec => []StreamFaithful
<1>1. Spec => []StreamInv
  BY InitStream, NextStream, PTL DEF Spec
<1>2. QED
  BY <1>1, StreamSafe, PTL
=============================================================================
