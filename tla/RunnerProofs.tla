---------------------------- MODULE RunnerProofs ----------------------------
(***************************************************************************)
(* Theorems about Runner for every graph that passes Validate, every set   *)
(* of calls and every bound.  The first part is about the stores: its      *)
(* inductive invariant Inv has the types, what the frame of each call      *)
(* holds at each point of the code (Shape), and what the stores say of     *)
(* each other (Linked).  The second is about the trace (TraceInv), on top  *)
(* of the first.                                                           *)
(***************************************************************************)
EXTENDS Runner, TLAPS, FiniteSetTheorems

NotRunning == {"idle", "load", "rejected"}
InRun == PC \ (NotRunning \cup {"begin", "returned"})
HasCommand == {"complete", "save", "saved", "register", "announce", "route", "edge"}
HasSaved == {"saved", "register", "announce", "route", "edge"}

(* What the frame f of a call holds, by the point of the code it is at.    *)
Placed(f) ==
  /\ f.pc \notin NotRunning =>
       f.run \in RunIDs /\ f.state \in Values /\ f.target \in Registered
  /\ f.pc \in InRun => f.node \in Registered
  /\ f.node \in Registered \cup {None}
  /\ f.pc \in HasCommand => f.cmd \in Commands
  /\ f.pc = "terminal" => f.status \in Terminal
  /\ f.status \in Terminal => f.pc \in {"terminal", "returned"}
  /\ f.emitter => f.pc \notin NotRunning \cup {"begin"}

Completed(f) == f.pc = "save" =>
  /\ f.completed \in DOMAIN events[f.run]
  /\ events[f.run][f.completed].type = "node.completed"
  /\ events[f.run][f.completed].node = f.node

Saved(f) == f.pc \in HasSaved \/ f.status \in {"completed", "interrupted"} =>
  /\ f.saved \in DOMAIN checkpoints
  /\ checkpoints[f.saved].run = f.run
  /\ checkpoints[f.saved].node = f.node
  /\ checkpoints[f.saved].state = f.state

Raised(f) == f.pc = "announce" \/ f.status = "interrupted" =>
  /\ f.raised \in DOMAIN interrupts
  /\ interrupts[f.raised].checkpoint = f.saved

Answered(f) ==
  /\ f.pc = "load" => f.via = "resume"
  /\ f.via = "resume" =>
       /\ f.source \in DOMAIN interrupts
       /\ interrupts[f.source].response # None
       /\ {f.response, f.given} \subseteq {None, interrupts[f.source].response}

Shape(f) == Placed(f) /\ Completed(f) /\ Saved(f) /\ Raised(f) /\ Answered(f)

(* An interrupt leads to a checkpoint of its run and node.                 *)
Linked ==
  \A i \in DOMAIN interrupts :
    /\ interrupts[i].checkpoint \in DOMAIN checkpoints
    /\ checkpoints[interrupts[i].checkpoint].run = interrupts[i].run
    /\ checkpoints[interrupts[i].checkpoint].node = interrupts[i].node

(* No two Resume calls hold the same interrupt.                            *)
SoleWinner ==
  \A c, d \in Calls :
    frame[c].via = "resume" /\ frame[d].via = "resume" /\ frame[c].source = frame[d].source
      => c = d

Inv ==
  /\ TypeOK
  /\ \A c \in Calls : Shape(frame[c])
  /\ Linked
  /\ SoleWinner
  /\ CheckpointAtCompletion

(* The stores only grow: what is in one stays where it is, and of an       *)
(* interrupt only a missing response may change.                           *)
StoresGrow ==
  /\ \A r \in RunIDs : \A k \in DOMAIN events[r] :
       k \in DOMAIN events'[r] /\ events'[r][k] = events[r][k]
  /\ \A k \in DOMAIN checkpoints :
       k \in DOMAIN checkpoints' /\ checkpoints'[k] = checkpoints[k]
  /\ \A i \in DOMAIN interrupts :
       /\ i \in DOMAIN interrupts'
       /\ interrupts'[i].run = interrupts[i].run
       /\ interrupts'[i].node = interrupts[i].node
       /\ interrupts'[i].checkpoint = interrupts[i].checkpoint
       /\ interrupts[i].response # None => interrupts'[i].response = interrupts[i].response

-----------------------------------------------------------------------------
(* Frames.  Each lemma types one way a step rewrites a frame.              *)

LEMMA IdleType == Idle \in Frame
  BY DEF Idle, Frame, PC, Status

LEMMA HitType == ASSUME NEW f \in Frame PROVE [f EXCEPT !.hit = TRUE] \in Frame
  BY Zenon DEF Frame

LEMMA PcType ==
  ASSUME NEW f \in Frame, NEW pc \in PC PROVE [f EXCEPT !.pc = pc] \in Frame
  BY Zenon DEF Frame

LEMMA AbandonType ==
  ASSUME TypeOK, NEW c \in Calls PROVE Abandon(c) \in Frame
<1>1. frame[c] \in Frame
  BY DEF TypeOK
<1>2. ASSUME NEW f \in Frame PROVE [f EXCEPT !.pc = "returned", !.failed = TRUE] \in Frame
  BY ZenonT(60) DEF Frame, PC
<1>3. QED
  BY <1>1, <1>2, Zenon DEF Abandon

LEMMA EndType ==
  ASSUME TypeOK, NEW c \in Calls, NEW status \in Terminal PROVE End(c, status) \in Frame
<1>1. frame[c] \in Frame
  BY DEF TypeOK
<1>2. status \in Status /\ (status \in {"failed", "cancelled"}) \in BOOLEAN
  BY DEF Status
<1>3. ASSUME NEW f \in Frame, NEW b \in BOOLEAN
      PROVE  [f EXCEPT !.pc = "terminal", !.status = status, !.failed = b] \in Frame
  BY <1>2, ZenonT(60) DEF Frame, PC
<1>4. QED
  BY <1>1, <1>2, <1>3, Zenon DEF End

-----------------------------------------------------------------------------
(* Steps.  A step of call c rewrites frame[c] and, when it records, appends *)
(* one event to the run of c.                                              *)
OthersSame(c) == \A d \in Calls \ {c} : frame'[d] = frame[d]

LEMMA MoveStep ==
  ASSUME TypeOK, NEW c \in Calls, NEW f \in Frame, Move(c, f)
  PROVE  /\ frame' \in [Calls -> Frame]
         /\ frame'[c] = f
         /\ OthersSame(c)
BY DEF TypeOK, Move, OthersSame

LEMMA RecordStep ==
  ASSUME TypeOK, NEW c \in Calls, frame[c].run \in RunIDs,
         NEW type \in EventType, NEW arg \in NodeIDs \cup Nat \cup {None},
         NEW ok \in Frame, NEW bad \in Frame,
         Record(c, type, arg, ok, bad), UNCHANGED <<stores, cancelled>>
  PROVE  /\ TypeOK' /\ StoresGrow /\ OthersSame(c)
         /\ \/ frame'[c] = ok /\ events' = Recorded(c, type, arg)
            \/ frame'[c] = [bad EXCEPT !.hit = TRUE]
<1> DEFINE log == events[frame[c].run]
           e   == [type |-> type, node |-> frame[c].node, arg |-> arg, call |-> c]
<1>1. frame[c] \in Frame /\ log \in Seq(Event)
  BY DEF TypeOK
<1>2. e \in Event
  BY <1>1 DEF Event, Frame
<1>3. Recorded(c, type, arg) = [events EXCEPT ![frame[c].run] = Append(log, e)]
  BY DEF Recorded
<1> HIDE DEF e
<1>4. /\ Recorded(c, type, arg) \in [RunIDs -> Seq(Event)]
      /\ \A r \in RunIDs : \A k \in DOMAIN events[r] :
           /\ k \in DOMAIN Recorded(c, type, arg)[r]
           /\ Recorded(c, type, arg)[r][k] = events[r][k]
  BY <1>1, <1>2, <1>3 DEF TypeOK
<1>5. [bad EXCEPT !.hit = TRUE] \in Frame
  BY HitType
<1>6. events' \in {events, Recorded(c, type, arg)} /\ faults' \in Nat
  BY DEF Record, Fault, TypeOK
<1>7. /\ frame' \in [Calls -> Frame] /\ OthersSame(c)
      /\ \/ frame'[c] = ok /\ events' = Recorded(c, type, arg)
         \/ frame'[c] = [bad EXCEPT !.hit = TRUE]
  <2>1. CASE events' = Recorded(c, type, arg) /\ frame' = [frame EXCEPT ![c] = ok]
    BY <2>1 DEF TypeOK, OthersSame
  <2>2. CASE frame' = [frame EXCEPT ![c] = [bad EXCEPT !.hit = TRUE]]
    BY <2>2, <1>5 DEF TypeOK, OthersSame
  <2>3. QED
    BY <2>1, <2>2 DEF Record
<1>8. TypeOK'
  BY <1>4, <1>6, <1>7 DEF TypeOK, stores
<1>9. StoresGrow
  BY <1>4, <1>6 DEF StoresGrow, stores
<1>10. QED
  BY <1>7, <1>8, <1>9

(* What a call knows of the stores stays true while they grow.             *)
LEMMA KeepShape ==
  ASSUME TypeOK, StoresGrow, NEW f \in Frame, Shape(f)
  PROVE  Shape(f)'
<1>1. Placed(f)'
  BY DEF Shape, Placed
<1>2. Completed(f)'
  <2> SUFFICES ASSUME f.pc = "save"
               PROVE  /\ f.completed \in DOMAIN events'[f.run]
                      /\ events'[f.run][f.completed].type = "node.completed"
                      /\ events'[f.run][f.completed].node = f.node
    BY DEF Completed
  <2>1. f.run \in RunIDs
    BY DEF Shape, Placed, NotRunning
  <2>2. QED
    BY <2>1 DEF Shape, Completed, StoresGrow
<1>3. Saved(f)'
  BY DEF Shape, Saved, StoresGrow
<1>4. Raised(f)'
  BY DEF Shape, Raised, StoresGrow
<1>5. Answered(f)'
  BY DEF Shape, Answered, StoresGrow
<1>6. QED
  BY <1>1, <1>2, <1>3, <1>4, <1>5 DEF Shape

(* The frame that replaces that of c answers no interrupt c did not.       *)
SameSource(c, f) ==
  f.via = "resume" => frame[c].via = "resume" /\ f.source = frame[c].source

(* A step that raises no interrupt and saves no checkpoint.                *)
LEMMA QuietStep ==
  ASSUME Inv, TypeOK', StoresGrow, NEW c \in Calls, OthersSame(c), Shape(frame[c])',
         SameSource(c, frame'[c]),
         interrupts' = interrupts, checkpoints' = checkpoints
  PROVE  Inv'
<1>1. ASSUME NEW d \in Calls PROVE Shape(frame[d])'
  <2>1. CASE d = c
    BY <2>1
  <2>2. CASE d # c
    <3>1. frame[d] \in Frame /\ Shape(frame[d]) /\ frame'[d] = frame[d]
      BY <2>2 DEF Inv, TypeOK, OthersSame
    <3>2. PICK f \in Frame : f = frame[d]
      BY <3>1
    <3>3. Shape(f)'
      BY <3>1, <3>2, KeepShape DEF Inv
    <3>4. frame'[d] = f
      BY <3>1, <3>2
    <3>5. QED
      BY <3>3, <3>4 DEF Shape, Placed, Completed, Saved, Raised, Answered
  <2>3. QED
    BY <2>1, <2>2
<1>2. Linked'
  BY DEF Inv, Linked, StoresGrow
<1>3. SoleWinner'
  BY DEF Inv, SoleWinner, SameSource, OthersSame
<1>4. CheckpointAtCompletion'
  <2> SUFFICES ASSUME NEW k \in DOMAIN checkpoints
               PROVE  /\ checkpoints[k].sequence \in DOMAIN events'[checkpoints[k].run]
                      /\ events'[checkpoints[k].run][checkpoints[k].sequence].type = "node.completed"
                      /\ events'[checkpoints[k].run][checkpoints[k].sequence].node = checkpoints[k].node
    BY DEF CheckpointAtCompletion
  <2>1. checkpoints \in Seq(Checkpoint)
    BY DEF Inv, TypeOK
  <2>2. checkpoints[k] \in Checkpoint
    BY <2>1
  <2>3. checkpoints[k].run \in RunIDs
    BY <2>2 DEF Checkpoint
  <2>4. QED
    BY <2>3 DEF Inv, CheckpointAtCompletion, StoresGrow
<1>5. QED
  BY <1>1, <1>2, <1>3, <1>4 DEF Inv

(* A step of c that touches no store.                                      *)
LEMMA MoveKeepsInv ==
  ASSUME Inv, NEW c \in Calls, NEW f \in Frame, Move(c, f), Shape(f), SameSource(c, f),
         UNCHANGED <<events, stores, cancelled>>, faults' \in Nat
  PROVE  Inv'
<1>1. frame' \in [Calls -> Frame] /\ frame'[c] = f /\ OthersSame(c)
  BY MoveStep DEF Inv
<1>2. TypeOK'
  BY <1>1 DEF Inv, TypeOK, stores
<1>3. StoresGrow
  BY DEF StoresGrow, stores
<1>4. Shape(frame[c])'
  BY <1>1 DEF Shape, Placed, Completed, Saved, Raised, Answered, stores
<1>5. QED
  BY <1>1, <1>2, <1>3, <1>4, QuietStep DEF SameSource, stores

(* A step of c that records an event.  What its new frame knows of the     *)
(* trace is that event, or was known before.                               *)
LEMMA RecordKeepsInv ==
  ASSUME Inv, NEW c \in Calls, frame[c].run \in RunIDs,
         NEW type \in EventType, NEW arg \in NodeIDs \cup Nat \cup {None},
         NEW ok \in Frame, NEW bad \in Frame,
         Record(c, type, arg, ok, bad), UNCHANGED <<stores, cancelled>>,
         SameSource(c, ok), SameSource(c, bad), Shape(bad),
         Placed(ok), Saved(ok), Raised(ok), Answered(ok),
         \/ Completed(ok)
         \/ /\ type = "node.completed" /\ ok.run = frame[c].run /\ ok.node = frame[c].node
            /\ ok.completed = Len(events[frame[c].run]) + 1
  PROVE  Inv'
<1>1. /\ TypeOK' /\ StoresGrow /\ OthersSame(c)
      /\ \/ frame'[c] = ok /\ events' = Recorded(c, type, arg)
         \/ frame'[c] = [bad EXCEPT !.hit = TRUE]
  BY RecordStep DEF Inv
<1>2. CASE frame'[c] = ok /\ events' = Recorded(c, type, arg)
  <2>1. Completed(ok)'
    <3>1. CASE Completed(ok)
      BY <3>1, <1>1 DEF Completed, StoresGrow, Placed, NotRunning
    <3>2. CASE /\ type = "node.completed" /\ ok.run = frame[c].run /\ ok.node = frame[c].node
               /\ ok.completed = Len(events[frame[c].run]) + 1
      <4>1. events[frame[c].run] \in Seq(Event)
        BY DEF Inv, TypeOK
      <4> DEFINE e == [type |-> type, node |-> frame[c].node, arg |-> arg, call |-> c]
      <4>2. events'[frame[c].run] = Append(events[frame[c].run], e)
        BY <1>2 DEF Recorded, Inv, TypeOK
      <4>3. e.type = type /\ e.node = frame[c].node
        OBVIOUS
      <4> HIDE DEF e
      <4>4. /\ Len(events[frame[c].run]) + 1 \in DOMAIN events'[frame[c].run]
            /\ events'[frame[c].run][Len(events[frame[c].run]) + 1] = e
        BY <4>1, <4>2
      <4>5. QED
        BY <3>2, <4>3, <4>4 DEF Completed
    <3>3. QED
      BY <3>1, <3>2
  <2>2. Shape(frame[c])'
    BY <1>2, <2>1 DEF Shape, Placed, Completed, Saved, Raised, Answered, stores
  <2>3. QED
    BY <1>1, <1>2, <2>2, QuietStep DEF SameSource, stores
<1>3. CASE frame'[c] = [bad EXCEPT !.hit = TRUE]
  <2> DEFINE g == [bad EXCEPT !.hit = TRUE]
  <2>1. g \in Frame
    BY HitType
  <2>2. Shape(g) /\ SameSource(c, g)
    BY SMT DEF Frame, Shape, Placed, Completed, Saved, Raised, Answered, SameSource
  <2> HIDE DEF g
  <2>3. Shape(g)'
    BY <1>1, <2>1, <2>2, KeepShape DEF Inv
  <2>4. frame'[c] = g
    BY <1>3 DEF g
  <2>5. Shape(frame[c])'
    BY <2>3, <2>4 DEF Shape, Placed, Completed, Saved, Raised, Answered
  <2>6. QED
    BY <1>1, <2>2, <2>4, <2>5, QuietStep DEF SameSource, stores
<1>4. QED
  BY <1>1, <1>2, <1>3

-----------------------------------------------------------------------------
(* The ways out of a call.                                                 *)
LEMMA EndShape ==
  ASSUME Inv, NEW c \in Calls, NEW status \in Terminal, frame[c].pc \in InRun,
         status = "completed" => frame[c].pc \in HasSaved,
         status = "interrupted" => frame[c].pc = "announce"
  PROVE  End(c, status) \in Frame /\ Shape(End(c, status)) /\ SameSource(c, End(c, status))
<1>1. frame[c] \in Frame /\ Shape(frame[c])
  BY DEF Inv, TypeOK
<1>2. End(c, status) \in Frame
  BY EndType DEF Inv
<1>3. /\ End(c, status).pc = "terminal" /\ End(c, status).status = status
      /\ End(c, status).run = frame[c].run /\ End(c, status).state = frame[c].state
      /\ End(c, status).target = frame[c].target /\ End(c, status).node = frame[c].node
      /\ End(c, status).saved = frame[c].saved /\ End(c, status).raised = frame[c].raised
      /\ End(c, status).via = frame[c].via /\ End(c, status).source = frame[c].source
      /\ End(c, status).response = frame[c].response /\ End(c, status).given = frame[c].given
  BY <1>1, SMT DEF End, Frame
<1>4. Placed(End(c, status))
  BY <1>1, <1>3 DEF Shape, Placed, NotRunning, InRun, HasCommand
<1>5. Saved(End(c, status)) /\ Raised(End(c, status)) /\ Completed(End(c, status))
  BY <1>1, <1>3 DEF Shape, Saved, Raised, Completed, HasSaved
<1>6. Answered(End(c, status)) /\ SameSource(c, End(c, status))
  BY <1>1, <1>3 DEF Shape, Answered, SameSource
<1>7. QED
  BY <1>2, <1>4, <1>5, <1>6 DEF Shape

LEMMA AbandonShape ==
  ASSUME Inv, NEW c \in Calls, frame[c].pc \notin NotRunning
  PROVE  Abandon(c) \in Frame /\ Shape(Abandon(c)) /\ SameSource(c, Abandon(c))
<1>1. frame[c] \in Frame /\ Shape(frame[c])
  BY DEF Inv, TypeOK
<1>2. Abandon(c) \in Frame
  BY AbandonType DEF Inv
<1>3. Shape(Abandon(c)) /\ SameSource(c, Abandon(c))
  BY <1>1, SMT DEF Abandon, Frame, Shape, Placed, Completed, Saved, Raised, Answered, SameSource,
     NotRunning, InRun, HasCommand, HasSaved
<1>4. QED
  BY <1>2, <1>3

LEMMA RejectStep ==
  ASSUME Inv, NEW c \in Calls, frame[c].pc \in {"idle", "load"}, Reject(c),
         UNCHANGED <<events, stores, cancelled>>, faults' \in Nat
  PROVE  Inv'
<1> DEFINE g == [frame[c] EXCEPT !.pc = "rejected", !.failed = TRUE]
<1>1. frame[c] \in Frame /\ Shape(frame[c])
  BY DEF Inv, TypeOK
<1>2. ASSUME NEW f \in Frame PROVE [f EXCEPT !.pc = "rejected", !.failed = TRUE] \in Frame
  BY ZenonT(60) DEF Frame, PC
<1>3. g \in Frame
  BY <1>1, <1>2, Zenon
<1>4. Shape(g) /\ SameSource(c, g)
  BY <1>1, SMT DEF Frame, Shape, Placed, Completed, Saved, Raised, Answered, SameSource,
     NotRunning, InRun, HasCommand, HasSaved, Terminal
<1>5. Move(c, g)
  BY DEF Reject
<1> HIDE DEF g
<1>6. QED
  BY <1>3, <1>4, <1>5, MoveKeepsInv

LEMMA SnapshotFailsStep ==
  ASSUME Inv, NEW c \in Calls, frame[c].pc \notin NotRunning, SnapshotFails(c)
  PROVE  Inv'
<1> DEFINE g == [Abandon(c) EXCEPT !.hit = TRUE]
<1>1. Abandon(c) \in Frame /\ Shape(Abandon(c)) /\ SameSource(c, Abandon(c))
  BY AbandonShape
<1>2. g \in Frame
  BY <1>1, HitType
<1>3. Shape(g) /\ SameSource(c, g)
  BY <1>1, SMT DEF Frame, Shape, Placed, Completed, Saved, Raised, Answered, SameSource
<1>4. Move(c, g) /\ faults' \in Nat /\ UNCHANGED <<events, stores, cancelled>>
  BY DEF SnapshotFails, Move, Fault, Inv, TypeOK
<1> HIDE DEF g
<1>5. QED
  BY <1>2, <1>3, <1>4, MoveKeepsInv

-----------------------------------------------------------------------------
(* The steps of a call, one lemma for each.                                *)
LEMMA InvokeStep ==
  ASSUME Inv, NEW c \in Calls, NEW r \in RunIDs, NEW start \in StartAt, NEW v \in Inputs,
         Invoke(c, r, start, v)
  PROVE  Inv'
<1> DEFINE g == [Idle EXCEPT !.pc = "begin", !.via = "invoke", !.run = r, !.target = start,
                             !.state = v, !.status = "running"]
<1>1. r \in RunIDs \cup {None} /\ start \in NodeIDs \cup {None} /\ v \in Values \cup {None} /\ v \in Values
  BY RunnerAssumption
<1>2. ASSUME NEW f \in Frame
      PROVE  [f EXCEPT !.pc = "begin", !.via = "invoke", !.run = r, !.target = start,
                       !.state = v, !.status = "running"] \in Frame
  BY <1>1, ZenonT(30) DEF Frame, PC, Status
<1>3. g \in Frame
  BY <1>2, IdleType, Zenon
<1>4. CASE HasNode(start)
  <2>1. Shape(g) /\ SameSource(c, g)
    BY <1>1, <1>4, SMT DEF Idle, HasNode, Frame, Shape, Placed, Completed, Saved, Raised, Answered, SameSource,
     NotRunning, InRun, HasCommand, HasSaved, Terminal
  <2>2. Move(c, g) /\ UNCHANGED <<events, stores, cancelled>> /\ faults' \in Nat
    BY <1>4 DEF Invoke, Inv, TypeOK
  <2> HIDE DEF g
  <2>3. QED
    BY <1>3, <2>1, <2>2, MoveKeepsInv
<1>5. CASE ~HasNode(start)
  BY <1>5, RejectStep DEF Invoke, At, Inv, TypeOK
<1>6. QED
  BY <1>4, <1>5

(* LoadCheckpoint and ResumeFrom start from what an interrupt record says. *)
LEMMA RecordType ==
  ASSUME Inv, NEW i \in DOMAIN interrupts
  PROVE  /\ interrupts[i].run \in RunIDs
         /\ interrupts[i].response \in Answers \cup {None}
         /\ interrupts[i].resume \in NodeIDs
         /\ SavedState(interrupts[i]) \in Values
<1>1. interrupts \in Seq(InterruptRecord) /\ checkpoints \in Seq(Checkpoint)
  BY DEF Inv, TypeOK
<1>2. interrupts[i] \in InterruptRecord
  BY <1>1
<1>3. interrupts[i].checkpoint \in DOMAIN checkpoints
  BY DEF Inv, Linked
<1>4. checkpoints[interrupts[i].checkpoint] \in Checkpoint
  BY <1>1, <1>3
<1>5. QED
  BY <1>2, <1>4 DEF InterruptRecord, Checkpoint, SavedState

LEMMA LoadCheckpointStep ==
  ASSUME Inv, NEW c \in Calls, LoadCheckpoint(c)
  PROVE  Inv'
<1> DEFINE record == interrupts[frame[c].source]
           v == SavedState(record)
           g == [frame[c] EXCEPT !.pc = "begin", !.run = record.run, !.target = record.resume,
                                 !.state = v, !.status = "running", !.response = record.response]
<1>1. frame[c] \in Frame /\ Shape(frame[c]) /\ frame[c].pc = "load"
  BY DEF Inv, TypeOK, LoadCheckpoint, At
<1>2. frame[c].source \in DOMAIN interrupts
  BY <1>1 DEF Shape, Answered
<1>3. record.run \in RunIDs /\ record.response \in Answers \cup {None} /\ record.resume \in NodeIDs /\ v \in Values
  BY <1>2, RecordType
<1>4. ASSUME NEW f \in Frame, NEW run \in RunIDs, NEW n \in NodeIDs, NEW w \in Values,
             NEW answer \in Answers \cup {None}
      PROVE  [f EXCEPT !.pc = "begin", !.run = run, !.target = n, !.state = w,
                       !.status = "running", !.response = answer] \in Frame
  BY ZenonT(60) DEF Frame, PC, Status
<1>5. g \in Frame
  BY <1>1, <1>3, <1>4, Zenon
<1>6. UNCHANGED <<events, stores, cancelled>> /\ faults' \in Nat
  BY DEF LoadCheckpoint, Fault, Inv, TypeOK
<1>7. CASE HasNode(record.resume) /\ Move(c, g)
  <2>1. Shape(g) /\ SameSource(c, g)
    BY <1>1, <1>3, <1>7, SMT DEF HasNode, Frame, Shape, Placed, Completed, Saved, Raised, Answered, SameSource,
     NotRunning, InRun, HasCommand, HasSaved, Terminal
  <2> HIDE DEF g
  <2>2. QED
    BY <1>5, <1>6, <1>7, <2>1, MoveKeepsInv
<1>8. CASE Reject(c)
  BY <1>1, <1>6, <1>8, RejectStep
<1>9. QED
  BY <1>7, <1>8 DEF LoadCheckpoint, Resumed

LEMMA ResumeFromStep ==
  ASSUME Inv, NEW c \in Calls, NEW i \in Nat, NEW answer \in Answers, ResumeFrom(c, i, answer)
  PROVE  Inv'
<1> DEFINE record == interrupts[i]
           v == SavedState(record)
           g == [Idle EXCEPT !.pc = "begin", !.via = "request", !.source = i,
                             !.run = record.run, !.target = record.resume,
                             !.state = v, !.status = "running", !.response = answer]
<1>1. frame[c].pc = "idle" /\ i \in DOMAIN interrupts
  BY DEF ResumeFrom, At
<1>2. record.run \in RunIDs /\ record.resume \in NodeIDs /\ v \in Values
  BY <1>1, RecordType
<1>3. ASSUME NEW f \in Frame, NEW run \in RunIDs, NEW n \in NodeIDs, NEW w \in Values
      PROVE  [f EXCEPT !.pc = "begin", !.via = "request", !.source = i, !.run = run, !.target = n,
                       !.state = w, !.status = "running", !.response = answer] \in Frame
  BY ZenonT(60) DEF Frame, PC, Status
<1>4. g \in Frame
  BY <1>2, <1>3, IdleType, Zenon
<1>5. UNCHANGED <<events, stores, cancelled>> /\ faults' \in Nat
  BY DEF ResumeFrom, Inv, TypeOK
<1>6. CASE HasNode(record.resume)
  <2>1. Shape(g) /\ SameSource(c, g)
    BY <1>2, <1>6, SMT DEF Idle, HasNode, Frame, Shape, Placed, Completed, Saved, Raised, Answered, SameSource,
     NotRunning, InRun, HasCommand, HasSaved, Terminal
  <2>2. Move(c, g)
    BY <1>6 DEF ResumeFrom
  <2> HIDE DEF g
  <2>3. QED
    BY <1>4, <1>5, <2>1, <2>2, MoveKeepsInv
<1>7. CASE ~HasNode(record.resume)
  BY <1>1, <1>5, <1>7, RejectStep DEF ResumeFrom
<1>8. QED
  BY <1>6, <1>7

(* Where the frame of a running call stands.                               *)
LEMMA FrameType ==
  ASSUME Inv, NEW c \in Calls
  PROVE  /\ frame[c] \in Frame
         /\ Shape(frame[c])
         /\ frame[c].pc \notin NotRunning => frame[c].run \in RunIDs /\ frame[c].pc \in PC
BY DEF Inv, TypeOK, Shape, Placed, Frame

LEMMA BeginStep == ASSUME Inv, NEW c \in Calls, Begin(c) PROVE Inv'
<1> DEFINE ok == [frame[c] EXCEPT !.pc = "loop", !.node = frame[c].target]
           type == IF frame[c].via = "invoke" THEN "run.started" ELSE "run.resumed"
<1>1. frame[c] \in Frame /\ Shape(frame[c]) /\ frame[c].pc = "begin" /\ frame[c].run \in RunIDs
  BY FrameType DEF Begin, At, NotRunning
<1>2. frame[c].target \in Registered /\ frame[c].target \in NodeIDs \cup {None}
  BY <1>1, GraphAssumption DEF Shape, Placed, NotRunning
<1>3. ASSUME NEW f \in Frame, NEW n \in NodeIDs \cup {None}
      PROVE  [f EXCEPT !.pc = "loop", !.node = n] \in Frame
  BY ZenonT(60) DEF Frame, PC
<1>4. ok \in Frame
  BY <1>1, <1>2, <1>3, Zenon
<1>5. Shape(ok) /\ SameSource(c, ok)
  BY <1>1, <1>2, SMT DEF Frame, Shape, Placed, Completed, Saved, Raised, Answered, SameSource,
     NotRunning, InRun, HasCommand, HasSaved, Terminal
<1>6. type \in EventType
  BY DEF EventType
<1>7. Abandon(c) \in Frame /\ Shape(Abandon(c)) /\ SameSource(c, Abandon(c))
  BY <1>1, AbandonShape DEF NotRunning
<1>8. CASE SnapshotFails(c)
  BY <1>1, <1>8, SnapshotFailsStep DEF NotRunning
<1>9. CASE Record(c, type, frame[c].target, ok, Abandon(c)) /\ UNCHANGED <<stores, cancelled>>
  <2> HIDE DEF ok, type
  <2>1. QED
    BY <1>1, <1>2, <1>4, <1>5, <1>6, <1>7, <1>9, RecordKeepsInv DEF Shape
<1>10. QED
  BY <1>8, <1>9 DEF Begin

LEMMA LoopStep == ASSUME Inv, NEW c \in Calls, Loop(c) PROVE Inv'
<1> DEFINE steps == IF MaxSteps > 0 THEN frame[c].steps + 1 ELSE frame[c].steps
           g == [frame[c] EXCEPT !.pc = "enter", !.steps = steps]
<1>1. frame[c] \in Frame /\ Shape(frame[c]) /\ frame[c].pc = "loop"
  BY FrameType DEF Loop, At
<1>2. steps \in Nat
  BY <1>1 DEF Frame
<1>3. ASSUME NEW f \in Frame, NEW n \in Nat
      PROVE  [f EXCEPT !.pc = "enter", !.steps = n] \in Frame
  BY ZenonT(60) DEF Frame, PC
<1>4. g \in Frame
  <2> HIDE DEF steps
  <2>1. QED
    BY <1>1, <1>2, <1>3, Zenon
<1>5. Shape(g) /\ SameSource(c, g)
  BY <1>1, SMT DEF Frame, Shape, Placed, Completed, Saved, Raised, Answered, SameSource,
     NotRunning, InRun, HasCommand, HasSaved, Terminal
<1>6. \A status \in {"cancelled", "failed"} :
        /\ End(c, status) \in Frame /\ Shape(End(c, status)) /\ SameSource(c, End(c, status))
  BY <1>1, EndShape DEF InRun, NotRunning, PC, Terminal
<1>7. UNCHANGED <<events, stores, cancelled>> /\ faults' \in Nat
  BY DEF Loop, Inv, TypeOK
<1>8. Move(c, g) \/ Move(c, End(c, "cancelled")) \/ Move(c, End(c, "failed"))
  BY DEF Loop
<1> HIDE DEF g
<1>9. QED
  BY <1>4, <1>5, <1>6, <1>7, <1>8, MoveKeepsInv

LEMMA NodeStartStep == ASSUME Inv, NEW c \in Calls, NodeStart(c) PROVE Inv'
<1> DEFINE late == IF c \in cancelled THEN frame[c].late + 1 ELSE frame[c].late
           ok == [Consume(frame[c]) EXCEPT !.pc = "node", !.emitter = TRUE, !.late = late]
<1>1. frame[c] \in Frame /\ Shape(frame[c]) /\ frame[c].pc = "enter" /\ frame[c].run \in RunIDs
  BY FrameType DEF NodeStart, At, NotRunning
<1>2. late \in Nat /\ frame[c].response \in Answers \cup {None}
  BY <1>1 DEF Frame
<1>3. ASSUME NEW f \in Frame, NEW n \in Nat, NEW answer \in Answers \cup {None}
      PROVE  [[f EXCEPT !.given = answer, !.response = None]
                EXCEPT !.pc = "node", !.emitter = TRUE, !.late = n] \in Frame
  BY ZenonT(60) DEF Frame, PC
<1>4. ok \in Frame
  <2> HIDE DEF late
  <2>1. QED
    BY <1>1, <1>2, <1>3, Zenon DEF Consume
<1>5. Shape(ok) /\ SameSource(c, ok)
  BY <1>1, SMT DEF Consume, Frame, Shape, Placed, Completed, Saved, Raised, Answered, SameSource,
     NotRunning, InRun, HasCommand, HasSaved, Terminal
<1>6. Abandon(c) \in Frame /\ Shape(Abandon(c)) /\ SameSource(c, Abandon(c))
  BY <1>1, AbandonShape DEF NotRunning
<1>7. CASE SnapshotFails(c)
  BY <1>1, <1>7, SnapshotFailsStep DEF NotRunning
<1>8. CASE Record(c, "node.started", None, ok, Abandon(c)) /\ UNCHANGED <<stores, cancelled>>
  <2> HIDE DEF ok
  <2>1. QED
    BY <1>1, <1>4, <1>5, <1>6, <1>8, RecordKeepsInv DEF Shape, EventType
<1>9. CASE Record(c, "node.started", None,
                  [Consume(frame[c]) EXCEPT !.pc = "node", !.emitter = TRUE,
                                            !.late = IF c \in cancelled THEN @ + 1 ELSE @],
                  Abandon(c)) /\ UNCHANGED <<stores, cancelled>>
  <2>1. Consume(frame[c]).late = frame[c].late
    BY <1>1, SMT DEF Consume, Frame
  <2>2. QED
    BY <1>8, <1>9, <2>1
<1>10. QED
  BY <1>7, <1>9 DEF NodeStart

(* An emitter adds to the log of its call, wherever the call stands.       *)
LEMMA Emitted ==
  ASSUME Inv, NEW c \in Calls, Emit(c)
  PROVE  LET g == [frame[c] EXCEPT !.emits = @ + 1]
         IN /\ frame[c] \in Frame /\ Shape(frame[c]) /\ g \in Frame
            /\ frame[c].run \in RunIDs /\ frame[c].pc \notin NotRunning \cup {"begin"}
            /\ frame' \in [Calls -> Frame] /\ frame'[c] = g /\ OthersSame(c)
            /\ faults' \in Nat /\ UNCHANGED <<stores, cancelled>>
            /\ events' \in {events, Recorded(c, "node.event", None)}
<1> DEFINE g == [frame[c] EXCEPT !.emits = @ + 1]
<1>1. frame[c] \in Frame /\ Shape(frame[c]) /\ frame[c].emitter
  BY FrameType DEF Emit
<1>2. frame[c].pc \notin NotRunning \cup {"begin"} /\ frame[c].run \in RunIDs
  BY <1>1 DEF Shape, Placed
<1>3. frame[c].emits + 1 \in Nat
  BY <1>1 DEF Frame
<1>4. ASSUME NEW f \in Frame, NEW n \in Nat PROVE [f EXCEPT !.emits = n] \in Frame
  BY Zenon DEF Frame
<1>5. g \in Frame
  BY <1>1, <1>3, <1>4, Zenon
<1>6. Move(c, g)
  BY DEF Emit, Move, Inv, TypeOK
<1>7. frame' \in [Calls -> Frame] /\ frame'[c] = g /\ OthersSame(c)
  <2> HIDE DEF g
  <2>1. QED
    BY <1>5, <1>6, MoveStep DEF Inv
<1>8. faults' \in Nat /\ UNCHANGED <<stores, cancelled>>
      /\ events' \in {events, Recorded(c, "node.event", None)}
  BY DEF Emit, Fault, Inv, TypeOK
<1>9. QED
  BY <1>1, <1>2, <1>5, <1>7, <1>8

LEMMA EmitStep == ASSUME Inv, NEW c \in Calls, Emit(c) PROVE Inv'
<1> DEFINE g == [frame[c] EXCEPT !.emits = @ + 1]
<1>1. /\ frame[c] \in Frame /\ Shape(frame[c]) /\ g \in Frame /\ frame[c].run \in RunIDs
      /\ frame' \in [Calls -> Frame] /\ frame'[c] = g /\ OthersSame(c)
      /\ faults' \in Nat /\ UNCHANGED <<stores, cancelled>>
      /\ events' \in {events, Recorded(c, "node.event", None)}
  BY Emitted
<1>2. Shape(g) /\ SameSource(c, g)
  BY <1>1, SMT DEF Frame, Shape, Placed, Completed, Saved, Raised, Answered, SameSource
<1> HIDE DEF g
<1>3. /\ events' \in [RunIDs -> Seq(Event)]
      /\ \A r \in RunIDs : \A k \in DOMAIN events[r] : k \in DOMAIN events'[r] /\ events'[r][k] = events[r][k]
  <2>1. CASE events' = events
    BY <2>1 DEF Inv, TypeOK
  <2>2. CASE events' = Recorded(c, "node.event", None)
    <3> DEFINE e == [type |-> "node.event", node |-> frame[c].node, arg |-> None, call |-> c]
    <3>1. e \in Event
      BY <1>1 DEF Event, EventType, Frame
    <3>2. Recorded(c, "node.event", None) =
            [events EXCEPT ![frame[c].run] = Append(events[frame[c].run], e)]
      BY DEF Recorded
    <3> HIDE DEF e
    <3> DEFINE log == events[frame[c].run]
    <3>3. events \in [RunIDs -> Seq(Event)] /\ log \in Seq(Event)
      BY <1>1 DEF Inv, TypeOK
    <3>4. /\ Append(log, e) \in Seq(Event)
          /\ \A k \in DOMAIN log : k \in DOMAIN Append(log, e) /\ Append(log, e)[k] = log[k]
      <4> HIDE DEF log
      <4>1. QED
        BY <3>1, <3>3
    <3>5. QED
      BY <1>1, <2>2, <3>2, <3>3, <3>4
  <2>3. QED
    BY <1>1, <2>1, <2>2
<1>4. TypeOK'
  BY <1>1, <1>3 DEF Inv, TypeOK, stores
<1>5. StoresGrow
  BY <1>1, <1>3 DEF StoresGrow, stores
<1>6. PICK f \in Frame : f = g
  BY <1>1 DEF g
<1>7. Shape(frame[c])'
  <2>1. Shape(f)'
    BY <1>2, <1>5, <1>6, KeepShape DEF Inv
  <2>2. frame'[c] = f
    BY <1>1, <1>6 DEF g
  <2>3. QED
    BY <2>1, <2>2 DEF Shape, Placed, Completed, Saved, Raised, Answered
<1>8. QED
  BY <1>1, <1>2, <1>4, <1>5, <1>7, QuietStep DEF SameSource, stores

LEMMA NodeReturnStep ==
  ASSUME Inv, NEW c \in Calls, NEW cmd \in Commands, NodeReturn(c, cmd) PROVE Inv'
<1> DEFINE v == IF cmd.update # None THEN cmd.update ELSE frame[c].state
           g == [frame[c] EXCEPT !.pc = "complete", !.cmd = cmd, !.state = v]
<1>1. frame[c] \in Frame /\ Shape(frame[c]) /\ frame[c].pc = "node"
  BY FrameType DEF NodeReturn, At
<1>2. v \in Values
  BY <1>1, GraphAssumption DEF Command, Shape, Placed, NotRunning
<1>3. ASSUME NEW f \in Frame, NEW w \in Values
      PROVE  [f EXCEPT !.pc = "complete", !.cmd = cmd, !.state = w] \in Frame
  BY ZenonT(60) DEF Frame, PC
<1>4. g \in Frame
  <2> HIDE DEF v
  <2>1. QED
    BY <1>1, <1>2, <1>3, Zenon
<1>5. Shape(g) /\ SameSource(c, g)
  <2> HIDE DEF v
  <2>1. QED
    BY <1>1, <1>2, SMT DEF Frame, Shape, Placed, Completed, Saved, Raised, Answered, SameSource,
     NotRunning, InRun, HasCommand, HasSaved, Terminal
<1>6. Move(c, g) /\ UNCHANGED <<events, stores, cancelled>> /\ faults' \in Nat
  BY DEF NodeReturn, Inv, TypeOK
<1> HIDE DEF g
<1>7. QED
  BY <1>4, <1>5, <1>6, MoveKeepsInv

LEMMA NodeErrorStep ==
  ASSUME Inv, NEW c \in Calls, NEW wrapsCancel \in NodeErrors, NodeError(c, wrapsCancel) PROVE Inv'
<1> DEFINE g == [frame[c] EXCEPT !.pc = "failing"]
<1>1. frame[c] \in Frame /\ Shape(frame[c]) /\ frame[c].pc = "node"
  BY FrameType DEF NodeError, At
<1>2. g \in Frame
  BY <1>1, PcType DEF PC
<1>3. Shape(g) /\ SameSource(c, g)
  BY <1>1, SMT DEF Frame, Shape, Placed, Completed, Saved, Raised, Answered, SameSource,
     NotRunning, InRun, HasCommand, HasSaved, Terminal
<1>4. /\ End(c, "cancelled") \in Frame /\ Shape(End(c, "cancelled"))
      /\ SameSource(c, End(c, "cancelled"))
  BY <1>1, EndShape DEF InRun, NotRunning, PC, Terminal
<1>5. UNCHANGED <<events, stores, cancelled>> /\ faults' \in Nat
  BY DEF NodeError, Inv, TypeOK
<1>6. Move(c, g) \/ Move(c, End(c, "cancelled"))
  BY DEF NodeError
<1> HIDE DEF g
<1>7. QED
  BY <1>2, <1>3, <1>4, <1>5, <1>6, MoveKeepsInv

LEMMA NodeFailedStep == ASSUME Inv, NEW c \in Calls, NodeFailed(c) PROVE Inv'
<1>1. frame[c].pc = "failing" /\ frame[c].run \in RunIDs
  BY FrameType DEF NodeFailed, At, NotRunning
<1>2. End(c, "failed") \in Frame /\ Shape(End(c, "failed")) /\ SameSource(c, End(c, "failed"))
  BY <1>1, EndShape DEF InRun, NotRunning, PC, Terminal
<1>3. QED
  BY <1>1, <1>2, RecordKeepsInv DEF NodeFailed, Shape, EventType

LEMMA NodeCompleteStep == ASSUME Inv, NEW c \in Calls, NodeComplete(c) PROVE Inv'
<1> DEFINE n == Len(events[frame[c].run]) + 1
           ok == [frame[c] EXCEPT !.pc = "save", !.completed = n]
<1>1. frame[c] \in Frame /\ Shape(frame[c]) /\ frame[c].pc = "complete" /\ frame[c].run \in RunIDs
  BY FrameType DEF NodeComplete, At, NotRunning
<1>2. n \in Nat
  BY <1>1 DEF Inv, TypeOK
<1>3. ASSUME NEW f \in Frame, NEW k \in Nat
      PROVE  [f EXCEPT !.pc = "save", !.completed = k] \in Frame
  BY ZenonT(60) DEF Frame, PC
<1>4. ok \in Frame
  <2> HIDE DEF n
  <2>1. QED
    BY <1>1, <1>2, <1>3, Zenon
<1>5. /\ Placed(ok) /\ Saved(ok) /\ Raised(ok) /\ Answered(ok) /\ SameSource(c, ok)
      /\ ok.run = frame[c].run /\ ok.node = frame[c].node /\ ok.completed = n
  <2> HIDE DEF n
  <2>1. QED
    BY <1>1, SMT DEF Frame, Shape, Placed, Completed, Saved, Raised, Answered, SameSource,
     NotRunning, InRun, HasCommand, HasSaved, Terminal
<1>6. Abandon(c) \in Frame /\ Shape(Abandon(c)) /\ SameSource(c, Abandon(c))
  BY <1>1, AbandonShape DEF NotRunning
<1>7. CASE SnapshotFails(c)
  BY <1>1, <1>7, SnapshotFailsStep DEF NotRunning
<1>8. CASE Record(c, "node.completed", None, ok, Abandon(c)) /\ UNCHANGED <<stores, cancelled>>
  <2> HIDE DEF ok
  <2>1. QED
    BY <1>1, <1>4, <1>5, <1>6, <1>8, RecordKeepsInv DEF EventType
<1>9. QED
  BY <1>7, <1>8 DEF NodeComplete

LEMMA RecordSavedStep == ASSUME Inv, NEW c \in Calls, RecordSaved(c) PROVE Inv'
<1> DEFINE pc == IF frame[c].cmd.interrupt THEN "register" ELSE "route"
           ok == [frame[c] EXCEPT !.pc = pc]
<1>1. frame[c] \in Frame /\ Shape(frame[c]) /\ frame[c].pc = "saved" /\ frame[c].run \in RunIDs
  BY FrameType DEF RecordSaved, At, NotRunning
<1>2. pc \in {"register", "route"}
  OBVIOUS
<1>3. ok \in Frame
  BY <1>1, <1>2, PcType DEF PC
<1>4. Shape(ok) /\ SameSource(c, ok)
  <2> HIDE DEF pc
  <2>1. QED
    BY <1>1, <1>2, SMT DEF Frame, Shape, Placed, Completed, Saved, Raised, Answered, SameSource,
     NotRunning, InRun, HasCommand, HasSaved, Terminal
<1>5. Abandon(c) \in Frame /\ Shape(Abandon(c)) /\ SameSource(c, Abandon(c))
  BY <1>1, AbandonShape DEF NotRunning
<1>6. Record(c, "checkpoint.saved", frame[c].saved, ok, Abandon(c)) /\ UNCHANGED <<stores, cancelled>>
  BY DEF RecordSaved
<1>7. frame[c].saved \in Nat
  BY <1>1 DEF Frame
<1> HIDE DEF ok
<1>8. QED
  BY <1>1, <1>3, <1>4, <1>5, <1>6, <1>7, RecordKeepsInv DEF Shape, EventType

LEMMA AnnounceInterruptStep == ASSUME Inv, NEW c \in Calls, AnnounceInterrupt(c) PROVE Inv'
<1>1. frame[c] \in Frame /\ frame[c].pc = "announce" /\ frame[c].run \in RunIDs
  BY FrameType DEF AnnounceInterrupt, At, NotRunning
<1>2. /\ End(c, "interrupted") \in Frame /\ Shape(End(c, "interrupted"))
      /\ SameSource(c, End(c, "interrupted"))
  BY <1>1, EndShape DEF InRun, NotRunning, PC, Terminal
<1>3. frame[c].raised \in Nat
  BY <1>1 DEF Frame
<1>4. QED
  BY <1>1, <1>2, <1>3, RecordKeepsInv DEF AnnounceInterrupt, Shape, EventType

(* Wherever a node leads, it is to a registered node.                      *)
LEMMA FollowStep ==
  ASSUME Inv, NEW c \in Calls, frame[c].pc = "route", NEW to \in Registered, Follow(c, to),
         UNCHANGED <<events, stores, cancelled, faults>>
  PROVE  Inv'
<1> DEFINE g == [frame[c] EXCEPT !.pc = "edge", !.target = to]
<1>1. frame[c] \in Frame /\ Shape(frame[c])
  BY FrameType
<1>2. to \in NodeIDs \cup {None}
  BY GraphAssumption
<1>3. ASSUME NEW f \in Frame, NEW n \in NodeIDs \cup {None}
      PROVE  [f EXCEPT !.pc = "edge", !.target = n] \in Frame
  BY ZenonT(60) DEF Frame, PC
<1>4. g \in Frame
  BY <1>1, <1>2, <1>3, Zenon
<1>5. Shape(g) /\ SameSource(c, g)
  BY <1>1, SMT DEF Frame, Shape, Placed, Completed, Saved, Raised, Answered, SameSource,
     NotRunning, InRun, HasCommand, HasSaved, Terminal
<1>6. Move(c, g) /\ faults' \in Nat
  BY DEF Follow, Inv, TypeOK
<1> HIDE DEF g
<1>7. QED
  BY <1>4, <1>5, <1>6, MoveKeepsInv

LEMMA TargetsRegistered ==
  ASSUME NEW n \in Registered
  PROVE  /\ \A to \in RouteTargets(n) : to \in Registered
         /\ Len(Fixed[n]) = 1 => Fixed[n][1] \in Registered
<1>1. n \in NodeIDs /\ Fixed[n] \in Seq(NodeIDs)
  BY GraphAssumption
<1>2. \A to \in RouteTargets(n) : to \in Registered
  BY <1>1, GraphAssumption DEF RouteTargets, Validate
<1>3. ASSUME Len(Fixed[n]) = 1 PROVE Fixed[n][1] \in Registered
  <2>1. Fixed[n] # <<>> /\ Fixed[n][1] \in Targets(Fixed[n])
    BY <1>1, <1>3, SMTT(20) DEF Targets
  <2>2. Targets(Fixed[n]) \subseteq Registered
    BY <1>1, <2>1, GraphAssumption DEF Validate
  <2>3. QED
    BY <2>1, <2>2
<1>4. QED
  BY <1>2, <1>3

LEMMA RouteStep == ASSUME Inv, NEW c \in Calls, Route(c) PROVE Inv'
<1> DEFINE f == frame[c]
<1>1. f \in Frame /\ Shape(f) /\ f.pc = "route"
  BY FrameType DEF Route, At
<1>2. f.node \in Registered
  BY <1>1 DEF Shape, Placed, InRun, NotRunning, PC
<1>3. UNCHANGED <<events, stores, cancelled, faults>>
  BY DEF Route
<1>4. ASSUME NEW to \in Registered, Follow(c, to) PROVE Inv'
  BY <1>1, <1>3, <1>4, FollowStep
<1>5. ASSUME NEW status \in {"completed", "failed"}, Move(c, End(c, status)) PROVE Inv'
  <2>1. End(c, status) \in Frame /\ Shape(End(c, status)) /\ SameSource(c, End(c, status))
    BY <1>1, EndShape DEF InRun, NotRunning, PC, Terminal, HasSaved
  <2>2. QED
    BY <1>3, <1>5, <2>1, MoveKeepsInv DEF Inv, TypeOK
<1>6. CASE \E to \in RouteTargets(f.node) : Follow(c, to)
  BY <1>2, <1>4, <1>6, TargetsRegistered
<1>7. CASE FollowFixed(c)
  BY <1>2, <1>4, <1>5, <1>7, TargetsRegistered DEF FollowFixed
<1>8. CASE IF HasNode(f.cmd.goto) THEN Follow(c, f.cmd.goto) ELSE Move(c, End(c, "failed"))
  BY <1>4, <1>5, <1>8 DEF HasNode
<1>9. QED
  BY <1>5, <1>6, <1>7, <1>8 DEF Route

LEMMA RecordEdgeStep == ASSUME Inv, NEW c \in Calls, RecordEdge(c) PROVE Inv'
<1> DEFINE ok == [frame[c] EXCEPT !.pc = "loop", !.node = frame[c].target]
<1>1. frame[c] \in Frame /\ Shape(frame[c]) /\ frame[c].pc = "edge" /\ frame[c].run \in RunIDs
  BY FrameType DEF RecordEdge, At, NotRunning
<1>2. frame[c].target \in Registered /\ frame[c].target \in NodeIDs \cup {None}
  BY <1>1, GraphAssumption DEF Shape, Placed, NotRunning
<1>3. ASSUME NEW f \in Frame, NEW n \in NodeIDs \cup {None}
      PROVE  [f EXCEPT !.pc = "loop", !.node = n] \in Frame
  BY ZenonT(60) DEF Frame, PC
<1>4. ok \in Frame
  BY <1>1, <1>2, <1>3, Zenon
<1>5. Shape(ok) /\ SameSource(c, ok)
  BY <1>1, <1>2, SMT DEF Frame, Shape, Placed, Completed, Saved, Raised, Answered, SameSource,
     NotRunning, InRun, HasCommand, HasSaved, Terminal
<1>6. Abandon(c) \in Frame /\ Shape(Abandon(c)) /\ SameSource(c, Abandon(c))
  BY <1>1, AbandonShape DEF NotRunning
<1>7. Record(c, "edge.selected", frame[c].target, ok, Abandon(c)) /\ UNCHANGED <<stores, cancelled>>
  BY DEF RecordEdge
<1> HIDE DEF ok
<1>8. QED
  BY <1>1, <1>2, <1>4, <1>5, <1>6, <1>7, RecordKeepsInv DEF Shape, EventType

LEMMA FinishStep == ASSUME Inv, NEW c \in Calls, Finish(c) PROVE Inv'
<1> DEFINE done == [frame[c] EXCEPT !.pc = "returned"]
           arg == IF frame[c].status = "interrupted" THEN frame[c].raised ELSE None
<1>1. frame[c] \in Frame /\ Shape(frame[c]) /\ frame[c].pc = "terminal" /\ frame[c].run \in RunIDs
  BY FrameType DEF Finish, At, NotRunning
<1>2. frame[c].status \in EventType
  BY <1>1 DEF Shape, Placed, EventType
<1>3. arg \in NodeIDs \cup Nat \cup {None}
  BY <1>1 DEF Frame
<1>4. done \in Frame
  BY <1>1, PcType DEF PC
<1>5. Shape(done) /\ SameSource(c, done)
  BY <1>1, SMT DEF Frame, Shape, Placed, Completed, Saved, Raised, Answered, SameSource,
     NotRunning, InRun, HasCommand, HasSaved, Terminal
<1>6. Record(c, frame[c].status, arg, done, done) /\ UNCHANGED <<stores, cancelled>>
  BY DEF Finish, TerminalEvent
<1> HIDE DEF done, arg
<1>7. QED
  BY <1>1, <1>2, <1>3, <1>4, <1>5, <1>6, RecordKeepsInv DEF Shape

(* A step of c that changes a store: the calls other than c keep what they *)
(* know of it.                                                             *)
LEMMA StoreStep ==
  ASSUME Inv, StoresGrow, NEW c \in Calls, OthersSame(c), Shape(frame[c])'
  PROVE  (\A d \in Calls : Shape(frame[d]))'
<1>1. ASSUME NEW d \in Calls PROVE Shape(frame[d])'
  <2>1. CASE d = c
    BY <2>1
  <2>2. CASE d # c
    <3>1. frame[d] \in Frame /\ Shape(frame[d]) /\ frame'[d] = frame[d]
      BY <2>2 DEF Inv, TypeOK, OthersSame
    <3>2. PICK f \in Frame : f = frame[d]
      BY <3>1
    <3>3. Shape(f)'
      BY <3>1, <3>2, KeepShape DEF Inv
    <3>4. frame'[d] = f
      BY <3>1, <3>2
    <3>5. QED
      BY <3>3, <3>4 DEF Shape, Placed, Completed, Saved, Raised, Answered
  <2>3. QED
    BY <2>1, <2>2
<1>2. QED
  BY <1>1

LEMMA SaveCheckpointStep == ASSUME Inv, NEW c \in Calls, SaveCheckpoint(c) PROVE Inv'
<1> DEFINE f == frame[c]
           n == Len(checkpoints) + 1
           chk == [run |-> f.run, node |-> f.node, sequence |-> f.completed, state |-> f.state]
           g == [f EXCEPT !.pc = "saved", !.saved = n]
<1>1. f \in Frame /\ Shape(f) /\ f.pc = "save" /\ f.run \in RunIDs
  BY FrameType DEF SaveCheckpoint, At, NotRunning
<1>2. checkpoints \in Seq(Checkpoint) /\ interrupts \in Seq(InterruptRecord)
  BY DEF Inv, TypeOK
<1>3. CASE Move(c, End(c, "failed")) /\ Fault /\ UNCHANGED checkpoints
  <2>1. End(c, "failed") \in Frame /\ Shape(End(c, "failed")) /\ SameSource(c, End(c, "failed"))
    BY <1>1, EndShape DEF InRun, NotRunning, PC, Terminal
  <2>2. UNCHANGED <<events, stores, cancelled>> /\ faults' \in Nat
    BY <1>3 DEF SaveCheckpoint, Fault, stores, Inv, TypeOK
  <2>3. QED
    BY <1>3, <2>1, <2>2, MoveKeepsInv
<1>4. CASE checkpoints' = Append(checkpoints, chk) /\ Move(c, g) /\ UNCHANGED faults
  <2>1. UNCHANGED <<events, interrupts, cancelled, faults>>
    BY <1>4 DEF SaveCheckpoint
  <2>2. f.node \in NodeIDs /\ f.state \in Values /\ f.completed \in Nat /\ n \in Nat
    BY <1>1, <1>2, GraphAssumption DEF Frame, Shape, Placed, InRun, NotRunning, PC
  <2>3. chk \in Checkpoint
    BY <1>1, <2>2 DEF Checkpoint
  <2>4. ASSUME NEW h \in Frame, NEW k \in Nat PROVE [h EXCEPT !.pc = "saved", !.saved = k] \in Frame
    BY ZenonT(60) DEF Frame, PC
  <2>5. g \in Frame
    <3> HIDE DEF n
    <3>1. QED
      BY <1>1, <2>2, <2>4, Zenon
  <2>6. frame' \in [Calls -> Frame] /\ frame'[c] = g /\ OthersSame(c)
    BY <1>4, <2>5, MoveStep DEF Inv
  <2>7. /\ chk.run = f.run /\ chk.node = f.node /\ chk.state = f.state
        /\ chk.sequence = f.completed
    OBVIOUS
  <2>8. /\ g.pc = "saved" /\ g.saved = n /\ g.status = f.status /\ g.raised = f.raised
        /\ g.run = f.run /\ g.node = f.node /\ g.state = f.state /\ g.target = f.target
        /\ g.cmd = f.cmd /\ g.via = f.via /\ g.source = f.source /\ g.response = f.response
        /\ g.given = f.given
    BY <1>1, SMT DEF Frame
  <2> HIDE DEF chk, g
  <2>9. /\ checkpoints' \in Seq(Checkpoint)
        /\ n \in DOMAIN checkpoints' /\ checkpoints'[n] = chk
        /\ \A k \in DOMAIN checkpoints : k \in DOMAIN checkpoints' /\ checkpoints'[k] = checkpoints[k]
        /\ \A k \in DOMAIN checkpoints' : k \in DOMAIN checkpoints \/ k = n
    BY <1>2, <1>4, <2>3
  <2>10. TypeOK'
    BY <2>1, <2>6, <2>9 DEF Inv, TypeOK
  <2>11. StoresGrow
    BY <2>1, <2>9 DEF StoresGrow
  <2>12. Shape(frame[c])'
    <3>1. Placed(frame[c])' /\ Completed(frame[c])'
      BY <1>1, <2>6, <2>8 DEF Shape, Placed, Completed, InRun, NotRunning, HasCommand, PC
    <3>2. Saved(frame[c])'
      BY <2>6, <2>7, <2>8, <2>9 DEF Saved
    <3>3. Raised(frame[c])'
      BY <1>1, <2>1, <2>6, <2>8 DEF Shape, Placed, Raised, Terminal
    <3>4. Answered(frame[c])'
      BY <1>1, <2>1, <2>6, <2>8 DEF Shape, Answered
    <3>5. QED
      BY <3>1, <3>2, <3>3, <3>4 DEF Shape
  <2>13. (\A d \in Calls : Shape(frame[d]))'
    BY <2>6, <2>11, <2>12, StoreStep
  <2>14. Linked'
    BY <2>1, <2>9 DEF Inv, Linked
  <2>15. SoleWinner'
    BY <2>6, <2>8 DEF Inv, SoleWinner, OthersSame
  <2>16. CheckpointAtCompletion'
    <3>1. /\ f.completed \in DOMAIN events[f.run]
          /\ events[f.run][f.completed].type = "node.completed"
          /\ events[f.run][f.completed].node = f.node
      BY <1>1 DEF Shape, Completed
    <3>2. QED
      BY <2>1, <2>7, <2>9, <3>1 DEF Inv, CheckpointAtCompletion
  <2>17. QED
    BY <2>10, <2>13, <2>14, <2>15, <2>16 DEF Inv
<1>5. QED
  BY <1>3, <1>4 DEF SaveCheckpoint, SaveFailed, CompletedSequence

LEMMA RegisterInterruptStep == ASSUME Inv, NEW c \in Calls, RegisterInterrupt(c) PROVE Inv'
<1> DEFINE f == frame[c]
           n == Len(interrupts) + 1
           record == [run |-> f.run, node |-> f.node, checkpoint |-> f.saved,
                      response |-> None, resume |-> ResumeNode(f)]
           g == [f EXCEPT !.pc = "announce", !.raised = n]
<1>1. f \in Frame /\ Shape(f) /\ f.pc = "register" /\ f.run \in RunIDs
  BY FrameType DEF RegisterInterrupt, At, NotRunning
<1>2. checkpoints \in Seq(Checkpoint) /\ interrupts \in Seq(InterruptRecord)
  BY DEF Inv, TypeOK
<1>3. CASE Move(c, End(c, "failed")) /\ Fault /\ UNCHANGED interrupts
  <2>1. End(c, "failed") \in Frame /\ Shape(End(c, "failed")) /\ SameSource(c, End(c, "failed"))
    BY <1>1, EndShape DEF InRun, NotRunning, PC, Terminal
  <2>2. UNCHANGED <<events, stores, cancelled>> /\ faults' \in Nat
    BY <1>3 DEF RegisterInterrupt, Fault, stores, Inv, TypeOK
  <2>3. QED
    BY <1>3, <2>1, <2>2, MoveKeepsInv
<1>4. CASE interrupts' = Append(interrupts, record) /\ Move(c, g) /\ UNCHANGED faults
  <2>1. UNCHANGED <<events, checkpoints, cancelled, faults>>
    BY <1>4 DEF RegisterInterrupt
  <2>2. f.node \in NodeIDs /\ f.saved \in Nat /\ n \in Nat /\ ResumeNode(f) \in NodeIDs
    <3>1. f.node \in NodeIDs /\ f.saved \in Nat /\ f.cmd \in Commands
      BY <1>1, GraphAssumption DEF Frame, Shape, Placed, InRun, NotRunning, HasCommand, PC
    <3>2. f.cmd.resume \in NodeIDs \cup {None}
      BY <3>1, GraphAssumption DEF Command
    <3>3. QED
      BY <1>2, <3>1, <3>2 DEF ResumeNode
  <2>3. record \in InterruptRecord
    BY <1>1, <2>2 DEF InterruptRecord
  <2>4. ASSUME NEW h \in Frame, NEW k \in Nat PROVE [h EXCEPT !.pc = "announce", !.raised = k] \in Frame
    BY ZenonT(60) DEF Frame, PC
  <2>5. g \in Frame
    <3> HIDE DEF n
    <3>1. QED
      BY <1>1, <2>2, <2>4, Zenon
  <2>6. frame' \in [Calls -> Frame] /\ frame'[c] = g /\ OthersSame(c)
    BY <1>4, <2>5, MoveStep DEF Inv
  <2>7. record.run = f.run /\ record.node = f.node /\ record.checkpoint = f.saved
    OBVIOUS
  <2>8. /\ g.pc = "announce" /\ g.raised = n /\ g.status = f.status /\ g.saved = f.saved
        /\ g.run = f.run /\ g.node = f.node /\ g.state = f.state /\ g.target = f.target
        /\ g.cmd = f.cmd /\ g.via = f.via /\ g.source = f.source /\ g.response = f.response
        /\ g.given = f.given
    BY <1>1, SMT DEF Frame
  <2> HIDE DEF record, g
  <2>9. /\ interrupts' \in Seq(InterruptRecord)
        /\ n \in DOMAIN interrupts' /\ interrupts'[n] = record
        /\ \A i \in DOMAIN interrupts : i \in DOMAIN interrupts' /\ interrupts'[i] = interrupts[i]
        /\ \A i \in DOMAIN interrupts' : i \in DOMAIN interrupts \/ i = n
    BY <1>2, <1>4, <2>3
  <2>10. TypeOK'
    BY <2>1, <2>6, <2>9 DEF Inv, TypeOK
  <2>11. StoresGrow
    BY <2>1, <2>9 DEF StoresGrow
  <2>12. Shape(frame[c])'
    <3>1. Placed(frame[c])' /\ Completed(frame[c])'
      BY <1>1, <2>6, <2>8 DEF Shape, Placed, Completed, InRun, NotRunning, HasCommand, PC
    <3>2. Saved(frame[c])'
      BY <1>1, <2>1, <2>6, <2>8 DEF Shape, Saved, HasSaved
    <3>3. Raised(frame[c])'
      BY <2>6, <2>7, <2>8, <2>9 DEF Raised
    <3>4. Answered(frame[c])'
      BY <1>1, <2>6, <2>8, <2>9 DEF Shape, Answered
    <3>5. QED
      BY <3>1, <3>2, <3>3, <3>4 DEF Shape
  <2>13. (\A d \in Calls : Shape(frame[d]))'
    BY <2>6, <2>11, <2>12, StoreStep
  <2>14. Linked'
    <3>1. /\ f.saved \in DOMAIN checkpoints
          /\ checkpoints[f.saved].run = f.run /\ checkpoints[f.saved].node = f.node
      BY <1>1 DEF Shape, Saved, HasSaved
    <3>2. QED
      BY <2>1, <2>7, <2>9, <3>1 DEF Inv, Linked
  <2>15. SoleWinner'
    BY <2>6, <2>8 DEF Inv, SoleWinner, OthersSame
  <2>16. CheckpointAtCompletion'
    BY <2>1 DEF Inv, CheckpointAtCompletion
  <2>17. QED
    BY <2>10, <2>13, <2>14, <2>15, <2>16 DEF Inv
<1>5. QED
  BY <1>3, <1>4 DEF RegisterInterrupt, InterruptCheckpoint

LEMMA ResumeStep ==
  ASSUME Inv, NEW c \in Calls, NEW i \in Nat, NEW answer \in Answers, Resume(c, i, answer)
  PROVE  Inv'
<1> DEFINE g == [Idle EXCEPT !.pc = "load", !.via = "resume", !.source = i]
<1>1. frame[c].pc = "idle" /\ UNCHANGED <<events, checkpoints, cancelled, faults>>
  BY DEF Resume, At
<1>2. CASE ~Open(i)
  BY <1>1, <1>2, RejectStep DEF Resume, stores, Inv, TypeOK
<1>3. CASE Open(i)
  <2>1. /\ interrupts' = [interrupts EXCEPT ![i].response = answer] /\ Move(c, g)
        /\ i \in DOMAIN interrupts /\ interrupts[i].response = None
    BY <1>3 DEF Resume, Open
  <2>2. ASSUME NEW f \in Frame
        PROVE  [f EXCEPT !.pc = "load", !.via = "resume", !.source = i] \in Frame
    BY ZenonT(60) DEF Frame, PC
  <2>3. g \in Frame
    BY <2>2, IdleType, Zenon
  <2>4. frame' \in [Calls -> Frame] /\ frame'[c] = g /\ OthersSame(c)
    BY <2>1, <2>3, MoveStep DEF Inv
  <2>5. /\ g.pc = "load" /\ g.via = "resume" /\ g.source = i /\ g.status = "queued"
        /\ g.response = None /\ g.given = None /\ g.node = None /\ ~g.emitter
    BY DEF Idle
  <2> HIDE DEF g
  <2>6. interrupts \in Seq(InterruptRecord)
    BY DEF Inv, TypeOK
  <2>7. interrupts[i] \in InterruptRecord
    BY <2>1, <2>6
  <2> DEFINE record == [interrupts[i] EXCEPT !.response = answer]
  <2>8. /\ record \in InterruptRecord
        /\ record.run = interrupts[i].run /\ record.node = interrupts[i].node
        /\ record.checkpoint = interrupts[i].checkpoint /\ record.response = answer
    BY <2>7 DEF InterruptRecord
  <2>9. interrupts' = [interrupts EXCEPT ![i] = record]
    BY <2>1
  <2> HIDE DEF record
  <2>10. /\ interrupts' \in Seq(InterruptRecord) /\ DOMAIN interrupts' = DOMAIN interrupts
         /\ interrupts'[i] = record
         /\ \A k \in DOMAIN interrupts : k # i => interrupts'[k] = interrupts[k]
    BY <2>1, <2>6, <2>8, <2>9
  <2>11. TypeOK'
    BY <1>1, <2>4, <2>10 DEF Inv, TypeOK
  <2>12. StoresGrow
    BY <1>1, <2>1, <2>8, <2>10 DEF StoresGrow
  <2>13. Shape(frame[c])'
    <3>1. answer # None
      BY RunnerAssumption
    <3>2. /\ Placed(frame[c])' /\ Completed(frame[c])' /\ Saved(frame[c])'
          /\ Raised(frame[c])' /\ Answered(frame[c])'
      BY <2>1, <2>4, <2>5, <2>8, <2>10, <3>1 DEF Placed, Completed, Saved, Raised, Answered, InRun,
         NotRunning, HasCommand, HasSaved, Terminal
    <3>3. QED
      BY <3>2 DEF Shape
  <2>14. (\A d \in Calls : Shape(frame[d]))'
    BY <2>4, <2>12, <2>13, StoreStep
  <2>15. Linked'
    BY <1>1, <2>1, <2>8, <2>10 DEF Inv, Linked
  <2>16. SoleWinner'
    <3>1. \A d \in Calls : frame[d].via = "resume" => frame[d].source # i
      BY <2>1 DEF Inv, Shape, Answered
    <3>2. QED
      BY <2>4, <2>5, <3>1 DEF Inv, SoleWinner, OthersSame
  <2>17. CheckpointAtCompletion'
    BY <1>1 DEF Inv, CheckpointAtCompletion
  <2>18. QED
    BY <2>11, <2>14, <2>15, <2>16, <2>17 DEF Inv
<1>4. QED
  BY <1>2, <1>3

-----------------------------------------------------------------------------
(* The invariant.                                                          *)
LEMMA InitInv == Init => Inv
<1> SUFFICES ASSUME Init PROVE Inv
  OBVIOUS
<1>1. \A c \in Calls : frame[c] = Idle
  BY DEF Init
<1>2. TypeOK
  <2>1. <<>> \in Seq(Event) /\ <<>> \in Seq(Checkpoint) /\ <<>> \in Seq(InterruptRecord)
    OBVIOUS
  <2>2. frame \in [Calls -> Frame] /\ events \in [RunIDs -> Seq(Event)]
    BY <2>1, IdleType DEF Init
  <2>3. cancelled \subseteq Calls /\ faults \in Nat
    BY DEF Init
  <2>4. checkpoints \in Seq(Checkpoint) /\ interrupts \in Seq(InterruptRecord)
    BY <2>1 DEF Init
  <2>5. QED
    BY <2>2, <2>3, <2>4 DEF TypeOK
<1>3. Shape(Idle)
  BY SMT DEF Idle, Shape, Placed, Completed, Saved, Raised, Answered, NotRunning, InRun, HasCommand,
     HasSaved, Terminal
<1>4. \A c \in Calls : Shape(frame[c])
  BY <1>1, <1>3
<1>5. Linked /\ CheckpointAtCompletion
  <2>1. DOMAIN << >> = {}
    OBVIOUS
  <2>2. DOMAIN interrupts = {} /\ DOMAIN checkpoints = {}
    BY <2>1 DEF Init
  <2>3. QED
    BY <2>2 DEF Linked, CheckpointAtCompletion
<1>6. SoleWinner
  BY <1>1 DEF SoleWinner, Idle
<1>7. QED
  BY <1>2, <1>4, <1>5, <1>6 DEF Inv

LEMMA StutterInv == Inv /\ UNCHANGED vars => Inv'
BY DEF Inv, vars, TypeOK, Shape, Placed, Completed, Saved, Raised, Answered, Linked, SoleWinner,
   CheckpointAtCompletion

LEMMA CancelInv == ASSUME Inv, NEW c \in Calls, Cancel(c) PROVE Inv'
<1>1. UNCHANGED <<frame, events, stores, faults>> /\ cancelled' \subseteq Calls
  BY DEF Cancel, Inv, TypeOK
<1>2. QED
  BY <1>1 DEF Inv, stores, TypeOK, Shape, Placed, Completed, Saved, Raised, Answered, Linked,
     SoleWinner, CheckpointAtCompletion

LEMMA StartInv == ASSUME Inv, NEW c \in Calls, Start(c) PROVE Inv'
<1>1. CASE \E r \in RunIDs, start \in StartAt, v \in Inputs : Invoke(c, r, start, v)
  BY <1>1, InvokeStep
<1>2. Visible \subseteq Nat /\ Unknown \in Nat
  <2>1. interrupts \in Seq(InterruptRecord)
    BY DEF Inv, TypeOK
  <2>2. QED
    BY <2>1 DEF Visible, Unknown
<1>3. CASE \E i \in Visible \cup {Unknown}, answer \in Answers : Resume(c, i, answer)
  BY <1>2, <1>3, ResumeStep
<1>4. CASE \E i \in Visible, answer \in Answers : ResumeFrom(c, i, answer)
  BY <1>2, <1>4, ResumeFromStep
<1>5. QED
  BY <1>1, <1>3, <1>4 DEF Start

LEMMA StepInv == ASSUME Inv, NEW c \in Calls, Step(c) PROVE Inv'
<1>1. CASE LoadCheckpoint(c)
  BY <1>1, LoadCheckpointStep
<1>2. CASE Begin(c)
  BY <1>2, BeginStep
<1>3. CASE Loop(c)
  BY <1>3, LoopStep
<1>4. CASE NodeStart(c)
  BY <1>4, NodeStartStep
<1>5. CASE \E cmd \in Commands : NodeReturn(c, cmd)
  BY <1>5, NodeReturnStep
<1>6. CASE \E wrapsCancel \in NodeErrors : NodeError(c, wrapsCancel)
  BY <1>6, NodeErrorStep
<1>7. CASE NodeFailed(c)
  BY <1>7, NodeFailedStep
<1>8. CASE NodeComplete(c)
  BY <1>8, NodeCompleteStep
<1>9. CASE SaveCheckpoint(c)
  BY <1>9, SaveCheckpointStep
<1>10. CASE RecordSaved(c)
  BY <1>10, RecordSavedStep
<1>11. CASE RegisterInterrupt(c)
  BY <1>11, RegisterInterruptStep
<1>12. CASE AnnounceInterrupt(c)
  BY <1>12, AnnounceInterruptStep
<1>13. CASE Route(c)
  BY <1>13, RouteStep
<1>14. CASE RecordEdge(c)
  BY <1>14, RecordEdgeStep
<1>15. CASE Finish(c)
  BY <1>15, FinishStep
<1>16. QED
  BY <1>1, <1>2, <1>3, <1>4, <1>5, <1>6, <1>7, <1>8, <1>9, <1>10, <1>11, <1>12, <1>13, <1>14,
     <1>15 DEF Step

LEMMA NextInv == Inv /\ [Next]_vars => Inv'
<1> SUFFICES ASSUME Inv, [Next]_vars PROVE Inv'
  OBVIOUS
<1>1. ASSUME NEW c \in Calls, Start(c) PROVE Inv'
  BY <1>1, StartInv
<1>2. ASSUME NEW c \in Calls, Step(c) PROVE Inv'
  BY <1>2, StepInv
<1>3. ASSUME NEW c \in Calls, Cancel(c) PROVE Inv'
  BY <1>3, CancelInv
<1>4. ASSUME NEW c \in Calls, Emit(c) PROVE Inv'
  BY <1>4, EmitStep
<1>5. CASE Stop \/ UNCHANGED vars
  BY <1>5, StutterInv DEF Stop
<1>6. QED
  BY <1>1, <1>2, <1>3, <1>4, <1>5 DEF Next

LEMMA SpecInv == Spec => []Inv
BY InitInv, NextInv, PTL DEF Spec

-----------------------------------------------------------------------------
(* Every variable keeps its type, whatever the graph, the calls and the    *)
(* faults of recorder, handler, stores and serializer.                     *)
THEOREM TypeCorrect == Spec => []TypeOK
<1>1. Inv => TypeOK
  BY DEF Inv
<1>2. QED
  BY <1>1, SpecInv, PTL

(* run() stamps a checkpoint with the sequence of its node's completion    *)
(* event, also when other calls of the run record events before the save.  *)
THEOREM CheckpointsAtCompletion == Spec => []CheckpointAtCompletion
<1>1. Inv => CheckpointAtCompletion
  BY DEF Inv
<1>2. QED
  BY <1>1, SpecInv, PTL

(* Of the Resume calls that race for an interrupt one passes Resolve, and  *)
(* no other answer than the one it stored reaches a node through Resume.   *)
THEOREM OneWinner == Spec => []OneWinnerPerInterrupt
<1>1. Inv => OneWinnerPerInterrupt
  BY DEF Inv, Shape, Answered, SoleWinner, OneWinnerPerInterrupt
<1>2. QED
  BY <1>1, SpecInv, PTL

(* The interrupt a call returns leads, through its checkpoint, back to the *)
(* state the call returned.                                                *)
THEOREM InterruptsLeadBack == Spec => []InterruptLeadsBack
<1>1. ASSUME Inv PROVE InterruptLeadsBack
  <2>1. ASSUME NEW c \in Calls, frame[c].status = "interrupted"
        PROVE  /\ frame[c].raised \in DOMAIN interrupts
               /\ SavedState(interrupts[frame[c].raised]) = frame[c].state
    <3>1. Saved(frame[c]) /\ Raised(frame[c])
      BY <1>1 DEF Inv, Shape
    <3>2. QED
      BY <2>1, <3>1 DEF Saved, Raised, SavedState
  <2>2. QED
    BY <1>1, <2>1 DEF Inv, Linked, InterruptLeadsBack
<1>2. QED
  BY <1>1, SpecInv, PTL

(* A completed or interrupted call returns the state of its last           *)
(* checkpoint.                                                             *)
THEOREM OutcomesCheckpointed == Spec => []OutcomeCheckpointed
<1>1. ASSUME Inv PROVE OutcomeCheckpointed
  BY <1>1 DEF Inv, Shape, Saved, OutcomeCheckpointed
<1>2. QED
  BY <1>1, SpecInv, PTL

(* In a graph that passes Validate the lookup of the current node's        *)
(* function never fails: Goto and resume targets are checked before use.   *)
THEOREM NodesRegistered == Spec => []CurrentNodeRegistered
<1>1. ASSUME Inv PROVE CurrentNodeRegistered
  BY <1>1 DEF Inv, Shape, Placed, CurrentNodeRegistered
<1>2. QED
  BY <1>1, SpecInv, PTL

(***************************************************************************)
(* Theorems about what the trace of a Runner says of its calls: which      *)
(* events a call may have recorded (Traced), given where its frame stands. *)
(* The events of a call lie in the log of its run among those of other     *)
(* calls, so everything is said of positions in that log; an event is      *)
(* only ever appended, which is what the lemmas about Append turn on.      *)
(***************************************************************************)
Leading == {"run.started", "run.resumed", "edge.selected"}

(* The last event of a call in the log.                                    *)
IsLast(log, c, k) == k \in Own(log, c) /\ \A j \in Own(log, c) : j <= k

(* A call about to enter a node has just recorded what leads there; one    *)
(* about to leave a node has just recorded its checkpoint.                 *)
Arrives(log, c, f) == f.pc \in {"loop", "enter"} =>
  \E k \in Own(log, c) : IsLast(log, c, k) /\ log[k].type \in Leading /\ log[k].arg = f.node
Departs(log, c, f) == f.pc \in {"route", "edge"} =>
  \E k \in Own(log, c) :
    IsLast(log, c, k) /\ log[k].type = "checkpoint.saved" /\ log[k].node = f.node

(* Only Finish records a terminal event, and it returns.                   *)
Ended(log, c, f) ==
  /\ f.pc # "returned" => \A k \in Own(log, c) : log[k].type \notin Terminal
  /\ f.pc = "returned" => Agrees(log, c, f)

(* The nodes a call has started are counted by steps, and a node about to  *)
(* start is counted already.                                               *)
Counted(log, c, f) == MaxSteps > 0 =>
  /\ f.steps <= MaxSteps
  /\ Cardinality(Started(log, c)) <= f.steps
  /\ f.pc = "enter" => Cardinality(Started(log, c)) < f.steps

(* Until the first node starts the response is still there.                *)
Given(log, c, f) ==
  /\ f.response # None /\ f.pc # "returned" => Started(log, c) = {}
  /\ f.pc = "node" /\ f.given # None => Cardinality(Started(log, c)) <= 1

Traced(log, c, f) ==
  /\ Arrives(log, c, f) /\ Departs(log, c, f) /\ Ended(log, c, f)
  /\ Replays(log, c) /\ Counted(log, c, f) /\ Given(log, c, f)

(* The events of a run are those of its calls.                             *)
Attributed ==
  \A r \in RunIDs : \A k \in DOMAIN events[r] : frame[events[r][k].call].run = r

(* A call has no run before it begins.                                     *)
Unbegun(f) == f.pc \in NotRunning => f.run = None /\ f.steps = 0 /\ f.late = 0

(* After the cancellation one node may start: the one already let in.      *)
Stopping(c, f) ==
  /\ f.late <= 1
  /\ f.late > 0 => c \in cancelled
  /\ f.pc = "enter" => f.late = 0

Followed(c) == frame[c].run \in RunIDs => Traced(events[frame[c].run], c, frame[c])

TraceInv ==
  /\ Inv
  /\ Attributed
  /\ \A c \in Calls : Unbegun(frame[c]) /\ Followed(c) /\ Stopping(c, frame[c])

-----------------------------------------------------------------------------
(* Logs.  An event that another call or a node appends changes nothing of  *)
(* what is said of c; an event of c's run loop becomes its last one.       *)
Foreign(e, c) == e.call # c \/ e.type = "node.event"
LEMMA OwnPositions ==
  ASSUME NEW log \in Seq(Event), NEW c
  PROVE  /\ Own(log, c) \subseteq 1 .. Len(log)
         /\ IsFiniteSet(Started(log, c)) /\ Cardinality(Started(log, c)) \in Nat
<1>1. Len(log) \in Nat /\ DOMAIN log = 1 .. Len(log)
  OBVIOUS
<1>2. Own(log, c) \subseteq 1 .. Len(log) /\ Started(log, c) \in SUBSET (1 .. Len(log))
  BY <1>1 DEF Own, Started
<1>3. IsFiniteSet(1 .. Len(log))
  BY <1>1, FS_Interval
<1>4. IsFiniteSet(Started(log, c))
  BY <1>2, <1>3, FS_Subset
<1>5. QED
  BY <1>2, <1>4, FS_CardinalityType

LEMMA AppendFacts ==
  ASSUME NEW log \in Seq(Event), NEW e \in Event
  PROVE  /\ Append(log, e) \in Seq(Event)
         /\ DOMAIN Append(log, e) = DOMAIN log \cup {Len(log) + 1}
         /\ Append(log, e)[Len(log) + 1] = e
         /\ \A k \in DOMAIN log : Append(log, e)[k] = log[k] /\ k \in Nat /\ k <= Len(log)
         /\ Len(log) + 1 \notin DOMAIN log
         /\ Len(log) \in Nat
  OBVIOUS

LEMMA OtherEvent ==
  ASSUME NEW log \in Seq(Event), NEW e \in Event, NEW c, Foreign(e, c)
  PROVE  /\ Own(Append(log, e), c) = Own(log, c)
         /\ Started(Append(log, e), c) = Started(log, c)
         /\ \A k \in Own(log, c) : Append(log, e)[k] = log[k]
<1> DEFINE new == Append(log, e)
<1>1. /\ DOMAIN new = DOMAIN log \cup {Len(log) + 1} /\ new[Len(log) + 1] = e
      /\ \A k \in DOMAIN log : new[k] = log[k]
  BY AppendFacts
<1> HIDE DEF new
<1>2. Own(new, c) = Own(log, c) /\ \A k \in Own(log, c) : new[k] = log[k]
  BY <1>1 DEF Own, Foreign
<1>3. Started(new, c) = Started(log, c)
  BY <1>2 DEF Started
<1>4. QED
  BY <1>2, <1>3 DEF new

LEMMA OwnEvent ==
  ASSUME NEW log \in Seq(Event), NEW e \in Event, NEW c, ~Foreign(e, c)
  PROVE  /\ Own(Append(log, e), c) = Own(log, c) \cup {Len(log) + 1}
         /\ \A k \in Own(log, c) : Append(log, e)[k] = log[k] /\ k \in Nat /\ k < Len(log) + 1
         /\ Append(log, e)[Len(log) + 1] = e
         /\ IsLast(Append(log, e), c, Len(log) + 1)
<1> DEFINE new == Append(log, e)
           n == Len(log)
<1>1. /\ DOMAIN new = DOMAIN log \cup {n + 1} /\ new[n + 1] = e /\ n \in Nat
      /\ \A k \in DOMAIN log : new[k] = log[k] /\ k \in Nat /\ k <= n
  BY AppendFacts
<1> HIDE DEF new, n
<1>2. Own(new, c) = Own(log, c) \cup {n + 1}
  BY <1>1 DEF Own, Foreign
<1>3. \A k \in Own(log, c) : new[k] = log[k] /\ k \in Nat /\ k < n + 1
  BY <1>1 DEF Own
<1>4. IsLast(new, c, n + 1)
  BY <1>1, <1>2, <1>3 DEF IsLast
<1>5. QED
  BY <1>1, <1>2, <1>3, <1>4 DEF new, n

LEMMA StartedCount ==
  ASSUME NEW log \in Seq(Event), NEW e \in Event, NEW c, ~Foreign(e, c)
  PROVE  Cardinality(Started(Append(log, e), c)) =
           IF e.type = "node.started" THEN Cardinality(Started(log, c)) + 1
                                      ELSE Cardinality(Started(log, c))
<1> DEFINE new == Append(log, e)
           n == Len(log)
           S == Started(log, c)
<1>1. /\ Own(new, c) = Own(log, c) \cup {n + 1}
      /\ new[n + 1] = e
      /\ \A k \in Own(log, c) : new[k] = log[k] /\ k \in Nat /\ k < n + 1
  <2> HIDE DEF S
  <2>1. QED
    BY OwnEvent, AppendFacts
<1>2. n + 1 \notin S /\ IsFiniteSet(S)
  <2>1. n + 1 \notin DOMAIN log
    BY AppendFacts
  <2>2. QED
    BY <2>1, OwnPositions DEF Started, Own
<1>3. Started(new, c) = IF e.type = "node.started" THEN S \cup {n + 1} ELSE S
  <2> HIDE DEF new, n
  <2>1. QED
    BY <1>1 DEF Started
<1>4. Cardinality(S \cup {n + 1}) = Cardinality(S) + 1
  <2> HIDE DEF n, S
  <2>1. QED
    BY <1>2, FS_AddElement
<1>5. QED
  BY <1>3, <1>4

(* What the other calls and the nodes record does not matter to c.         *)
LEMMA OtherTraced ==
  ASSUME NEW log \in Seq(Event), NEW e \in Event, NEW c, Foreign(e, c), NEW f, Traced(log, c, f)
  PROVE  Traced(Append(log, e), c, f)
<1> DEFINE new == Append(log, e)
<1>1. /\ Own(new, c) = Own(log, c) /\ Started(new, c) = Started(log, c)
      /\ \A k \in Own(log, c) : new[k] = log[k]
  BY OtherEvent
<1> HIDE DEF new
<1>2. \A k \in Own(log, c) : Before(new, c, k) = Before(log, c, k) /\ Before(log, c, k) \subseteq Own(log, c)
  BY <1>1 DEF Before
<1>3. Replays(new, c)
  BY <1>1, <1>2 DEF Traced, Replays
<1>4. Arrives(new, c, f) /\ Departs(new, c, f)
  BY <1>1 DEF Traced, Arrives, Departs, IsLast
<1>5. Ended(new, c, f)
  BY <1>1 DEF Traced, Ended, Agrees
<1>6. Counted(new, c, f) /\ Given(new, c, f)
  BY <1>1 DEF Traced, Counted, Given
<1>7. QED
  BY <1>3, <1>4, <1>5, <1>6 DEF Traced, new

-----------------------------------------------------------------------------
(* How a call may go on from frame f with frame g: after recording an      *)
(* event (type, arg) of its own, and without recording one.                *)
Writes(f, type, arg, g) ==
  /\ f.pc # "returned" /\ g.pc \notin NotRunning \cup {"enter"}
  /\ g.steps = f.steps
  /\ type # "node.event"
  /\ type = "node.started" => f.pc = "enter"
  /\ type = "edge.selected" => f.pc = "edge"
  /\ g.pc = "loop" => type \in Leading /\ arg = g.node
  /\ g.pc \in {"route", "edge"} => type = "checkpoint.saved" /\ f.node = g.node
  /\ type \in Terminal => g.pc = "returned" /\ g.status = type
  /\ g.pc = "returned" /\ type \notin Terminal => g.hit /\ g.failed
  /\ g.response # None /\ g.pc # "returned" => type # "node.started" /\ f.response # None
  /\ g.pc = "node" /\ g.given # None =>
       IF type = "node.started" THEN f.response # None ELSE f.pc = "node" /\ f.given # None

Silent(f, g) ==
  /\ f.pc # "returned"
  /\ g.pc \in {"loop", "enter"} => f.pc = "loop" /\ g.node = f.node
  /\ g.pc \in {"route", "edge"} => f.pc = "route" /\ g.node = f.node
  /\ g.pc = "returned" => g.hit /\ (g.failed \/ g.status # "running")
  /\ IF g.pc = "enter" /\ MaxSteps > 0
     THEN g.steps = f.steps + 1 /\ g.steps <= MaxSteps
     ELSE g.steps = f.steps
  /\ g.response # None => f.response # None
  /\ g.pc = "node" => f.pc = "node" /\ g.given = f.given

LEMMA SilentTraced ==
  ASSUME NEW log \in Seq(Event), NEW c, NEW f \in Frame, NEW g,
         Traced(log, c, f), Silent(f, g)
  PROVE  Traced(log, c, g)
<1>1. Replays(log, c)
  BY DEF Traced
<1>2. Arrives(log, c, g) /\ Departs(log, c, g)
  BY DEF Traced, Arrives, Departs, Silent
<1>3. Ended(log, c, g)
  BY DEF Traced, Ended, Agrees, Silent
<1>4. Counted(log, c, g)
  <2>1. Cardinality(Started(log, c)) \in Nat /\ f.steps \in Nat /\ g.steps \in Nat /\ MaxSteps \in Nat
    BY OwnPositions, RunnerAssumption DEF Frame, Silent
  <2>2. QED
    BY <2>1 DEF Traced, Counted, Silent
<1>5. Given(log, c, g)
  BY DEF Traced, Given, Silent
<1>6. QED
  BY <1>1, <1>2, <1>3, <1>4, <1>5 DEF Traced

LEMMA WrittenTraced ==
  ASSUME NEW log \in Seq(Event), NEW c, NEW f \in Frame, NEW g, NEW e \in Event,
         e.call = c, e.node = f.node,
         Traced(log, c, f), Writes(f, e.type, e.arg, g)
  PROVE  Traced(Append(log, e), c, g)
<1> DEFINE new == Append(log, e)
           n == Len(log) + 1
<1>. ~Foreign(e, c)
  BY DEF Foreign, Writes
<1>1. /\ Own(new, c) = Own(log, c) \cup {n}
      /\ \A k \in Own(log, c) : new[k] = log[k] /\ k \in Nat /\ k < n
      /\ new[n] = e /\ IsLast(new, c, n) /\ n \in Nat
  BY OwnEvent, AppendFacts, ZenonT(30)
<1>2. Cardinality(Started(new, c)) =
           IF e.type = "node.started" THEN Cardinality(Started(log, c)) + 1
                                      ELSE Cardinality(Started(log, c))
  BY StartedCount
<1> HIDE DEF new, n
<1>3. Arrives(new, c, g) /\ Departs(new, c, g)
  BY <1>1 DEF Arrives, Departs, Writes
<1>4. Ended(new, c, g)
  <2>1. \A k \in Own(log, c) : log[k].type \notin Terminal
    BY DEF Traced, Ended, Writes
  <2>2. CASE e.type \in Terminal
    BY <1>1, <2>1, <2>2 DEF Ended, Agrees, Writes, IsLast, Terminal
  <2>3. CASE e.type \notin Terminal
    BY <1>1, <2>1, <2>3 DEF Ended, Agrees, Writes
  <2>4. QED
    BY <2>2, <2>3
<1>5. Replays(new, c)
  <2>1. \A k \in Own(log, c) : Before(new, c, k) = Before(log, c, k) /\ Before(log, c, k) \subseteq Own(log, c)
    BY <1>1 DEF Before
  <2>2. \A k : IsLast(log, c, k) => k \in Before(new, c, n)
    BY <1>1 DEF Before, IsLast
  <2>3. ASSUME e.type = "node.started"
        PROVE  \E j \in Before(new, c, n) : new[j].type \in Leading /\ new[j].arg = e.node
    BY <1>1, <2>2, <2>3 DEF Traced, Arrives, Writes
  <2>4. ASSUME e.type = "edge.selected"
        PROVE  \E j \in Before(new, c, n) : new[j].type = "checkpoint.saved" /\ new[j].node = e.node
    BY <1>1, <2>2, <2>4 DEF Traced, Departs, Writes
  <2>5. QED
    BY <1>1, <2>1, <2>3, <2>4 DEF Traced, Replays, Leading
<1>6. Counted(new, c, g)
  <2>1. Cardinality(Started(log, c)) \in Nat /\ f.steps \in Nat /\ MaxSteps \in Nat
    BY OwnPositions, RunnerAssumption DEF Frame
  <2>2. QED
    BY <1>2, <2>1 DEF Traced, Counted, Writes
<1>7. Given(new, c, g)
  <2>1. e.type # "node.started" => Started(new, c) = Started(log, c)
    BY <1>1 DEF Started
  <2>2. Started(log, c) = {} => Cardinality(Started(log, c)) = 0
    BY FS_EmptySet
  <2>3. QED
    BY <1>2, <2>1, <2>2 DEF Traced, Given, Writes
<1>8. QED
  BY <1>3, <1>4, <1>5, <1>6, <1>7 DEF Traced, new

-----------------------------------------------------------------------------
(* Steps of the system.  Steps(c) is what a step of c must do to keep      *)
(* TraceInv: the rest holds of every step.                                 *)
Records(c) ==
  /\ frame[c].run \in RunIDs
  /\ \E type \in EventType, arg \in NodeIDs \cup Nat \cup {None} :
       events' = Recorded(c, type, arg)

Steps(c) ==
  /\ OthersSame(c)
  /\ events' = events \/ Records(c)
  /\ frame[c].run \in RunIDs => frame'[c].run = frame[c].run
  /\ frame'[c].pc = "begin" => frame[c].pc \in {"idle", "load"}
  /\ cancelled' = cancelled
  /\ (Unbegun(frame[c]) /\ Followed(c) /\ Stopping(c, frame[c]))'

(* What Recorded appends to the run of c.                                  *)
LEMMA RecordedLog ==
  ASSUME Inv, NEW c \in Calls, frame[c].run \in RunIDs,
         NEW type \in EventType, NEW arg \in NodeIDs \cup Nat \cup {None}
  PROVE  \E e \in Event :
           /\ e.call = c /\ e.node = frame[c].node /\ e.type = type /\ e.arg = arg
           /\ Recorded(c, type, arg) =
                [events EXCEPT ![frame[c].run] = Append(events[frame[c].run], e)]
<1> DEFINE e == [type |-> type, node |-> frame[c].node, arg |-> arg, call |-> c]
<1>1. frame[c] \in Frame
  BY DEF Inv, TypeOK
<1>2. e \in Event
  BY <1>1 DEF Event, Frame
<1>3. Recorded(c, type, arg) = [events EXCEPT ![frame[c].run] = Append(events[frame[c].run], e)]
  BY DEF Recorded
<1>4. e.call = c /\ e.node = frame[c].node /\ e.type = type /\ e.arg = arg
  OBVIOUS
<1> HIDE DEF e
<1>5. QED
  BY <1>2, <1>3, <1>4

(* The trace of the other calls stays as it is.                            *)
LEMMA OthersFollow ==
  ASSUME TraceInv, NEW c \in Calls, OthersSame(c), events' = events \/ Records(c),
         NEW d \in Calls \ {c}
  PROVE  Followed(d)'
<1>1. frame'[d] = frame[d]
  BY DEF OthersSame
<1> DEFINE r == frame[d].run
<1>2. SUFFICES ASSUME r \in RunIDs PROVE Traced(events'[r], d, frame[d])
  BY <1>1 DEF Followed
<1>3. Traced(events[r], d, frame[d]) /\ events \in [RunIDs -> Seq(Event)]
  BY <1>2 DEF TraceInv, Followed, Inv, TypeOK
<1>4. CASE events'[r] = events[r]
  BY <1>3, <1>4
<1>5. CASE \E e \in Event : e.call = c /\ events'[r] = Append(events[r], e)
  <2>1. PICK e \in Event : e.call = c /\ events'[r] = Append(events[r], e)
    BY <1>5
  <2>2. Foreign(e, d) /\ events[r] \in Seq(Event)
    BY <1>2, <1>3, <2>1 DEF Foreign
  <2>3. QED
    BY <1>3, <2>1, <2>2, OtherTraced
<1>6. events'[r] = events[r] \/ \E e \in Event : e.call = c /\ events'[r] = Append(events[r], e)
  <2>1. CASE Records(c)
    <3>1. PICK type \in EventType, arg \in NodeIDs \cup Nat \cup {None} :
            events' = Recorded(c, type, arg)
      BY <2>1 DEF Records
    <3>2. PICK e \in Event :
            /\ e.call = c
            /\ events' = [events EXCEPT ![frame[c].run] = Append(events[frame[c].run], e)]
      <4>1. frame[c].run \in RunIDs
        BY <2>1 DEF Records
      <4>2. Inv
        BY DEF TraceInv
      <4>3. PICK e \in Event :
              /\ e.call = c /\ e.node = frame[c].node /\ e.type = type /\ e.arg = arg
              /\ Recorded(c, type, arg) =
                   [events EXCEPT ![frame[c].run] = Append(events[frame[c].run], e)]
        BY <4>1, <4>2, RecordedLog
      <4>4. QED
        BY <3>1, <4>3
    <3>3. QED
      BY <1>2, <1>3, <3>2
  <2>2. QED
    BY <2>1
<1>7. QED
  BY <1>4, <1>5, <1>6

LEMMA StaysAttributed ==
  ASSUME TraceInv, NEW c \in Calls, Steps(c)
  PROVE  Attributed'
<1> SUFFICES ASSUME NEW r \in RunIDs, NEW k \in DOMAIN events'[r]
             PROVE  frame'[events'[r][k].call].run = r
  BY DEF Attributed
<1>1. events \in [RunIDs -> Seq(Event)] /\ r # None
  BY RunnerAssumption DEF TraceInv, Inv, TypeOK
<1>2. ASSUME k \in DOMAIN events[r], events'[r][k] = events[r][k]
      PROVE  frame'[events'[r][k].call].run = r
  <2>1. events[r][k] \in Event
    BY <1>1, <1>2
  <2>2. events[r][k].call \in Calls /\ frame[events[r][k].call].run = r
    BY <1>2, <2>1 DEF TraceInv, Attributed, Event
  <2>3. QED
    BY <1>2, <2>2 DEF Steps, OthersSame
<1>3. CASE events' = events
  BY <1>2, <1>3
<1>4. CASE Records(c)
  <2>1. PICK type \in EventType, arg \in NodeIDs \cup Nat \cup {None} :
          events' = Recorded(c, type, arg)
    BY <1>4 DEF Records
  <2>2. PICK e \in Event :
          /\ e.call = c
          /\ events' = [events EXCEPT ![frame[c].run] = Append(events[frame[c].run], e)]
    BY <1>4, <2>1, RecordedLog DEF TraceInv, Records
  <2>3. CASE r # frame[c].run
    BY <1>1, <1>2, <2>2, <2>3
  <2>4. CASE r = frame[c].run
    <3>1. events'[r] = Append(events[r], e) /\ events[r] \in Seq(Event)
      BY <1>1, <2>2, <2>4
    <3>2. (k \in DOMAIN events[r] /\ events'[r][k] = events[r][k]) \/ events'[r][k] = e
      BY <3>1, AppendFacts
    <3>3. QED
      BY <1>2, <2>2, <2>4, <3>2 DEF Steps
  <2>5. QED
    BY <2>3, <2>4
<1>5. QED
  BY <1>3, <1>4 DEF Steps

LEMMA StepsKeep ==
  ASSUME TraceInv, Inv', NEW c \in Calls, Steps(c)
  PROVE  TraceInv'
<1>1. Attributed'
  BY StaysAttributed
<1>2. ASSUME NEW d \in Calls
      PROVE  (Unbegun(frame[d]) /\ Followed(d) /\ Stopping(d, frame[d]))'
  <2>1. CASE d = c
    BY <2>1 DEF Steps
  <2>2. CASE d # c
    <3>1. frame'[d] = frame[d] /\ cancelled' = cancelled
      BY <2>2 DEF Steps, OthersSame
    <3>2. Followed(d)'
      BY <2>2, OthersFollow DEF Steps
    <3>3. QED
      BY <3>1, <3>2 DEF TraceInv, Unbegun, Stopping
  <2>3. QED
    BY <2>1, <2>2
<1>3. QED
  BY <1>1, <1>2 DEF TraceInv

-----------------------------------------------------------------------------
(* The two ways a running call steps: Move and Record.                     *)
Goes(c, g) ==
  /\ g.run = frame[c].run
  /\ g.pc \notin NotRunning \cup {"begin"}
  /\ Stopping(c, g)

LEMMA Running ==
  ASSUME TraceInv, NEW c \in Calls, frame[c].run \in RunIDs
  PROVE  /\ frame[c] \in Frame /\ frame[c].pc \notin NotRunning
         /\ events[frame[c].run] \in Seq(Event)
         /\ Traced(events[frame[c].run], c, frame[c])
         /\ Stopping(c, frame[c])
BY RunnerAssumption DEF TraceInv, Inv, TypeOK, Unbegun, Followed

LEMMA MoveSteps ==
  ASSUME TraceInv, NEW c \in Calls, frame[c].run \in RunIDs, NEW g, Goes(c, g),
         Silent(frame[c], g), Move(c, g), events' = events, cancelled' = cancelled
  PROVE  Steps(c)
<1>1. frame'[c] = g /\ OthersSame(c)
  BY DEF Move, OthersSame, TraceInv, Inv, TypeOK
<1>2. Traced(events[frame[c].run], c, g)
  BY Running, SilentTraced DEF Goes
<1>3. Followed(c)'
  BY <1>1, <1>2 DEF Goes, Followed
<1>4. QED
  BY <1>1, <1>3 DEF Goes, Steps, Unbegun, Stopping

LEMMA RecordSteps ==
  ASSUME TraceInv, NEW c \in Calls, frame[c].run \in RunIDs,
         NEW type \in EventType, NEW arg \in NodeIDs \cup Nat \cup {None},
         NEW ok, Goes(c, ok), Writes(frame[c], type, arg, ok),
         NEW bad, NEW g, g = [bad EXCEPT !.hit = TRUE], Goes(c, g),
         Writes(frame[c], type, arg, g), Silent(frame[c], g),
         Record(c, type, arg, ok, bad), UNCHANGED <<stores, cancelled>>
  PROVE  Steps(c)
<1> DEFINE r == frame[c].run
<1>1. /\ frame[c] \in Frame /\ frame[c].pc \notin NotRunning
      /\ events[r] \in Seq(Event) /\ Traced(events[r], c, frame[c])
  BY Running
<1>2. PICK e \in Event :
        /\ e.call = c /\ e.node = frame[c].node /\ e.type = type /\ e.arg = arg
        /\ Recorded(c, type, arg) = [events EXCEPT ![r] = Append(events[r], e)]
  BY RecordedLog DEF TraceInv
<1>3. Recorded(c, type, arg)[r] = Append(events[r], e)
  BY <1>2 DEF TraceInv, Inv, TypeOK
<1>4. OthersSame(c)
  BY DEF Record, OthersSame, TraceInv, Inv, TypeOK
<1>5. \/ frame'[c] \in {ok, g} /\ events' = Recorded(c, type, arg)
      \/ frame'[c] = g /\ events' = events
  BY DEF Record, TraceInv, Inv, TypeOK
<1>6. events' = events \/ Records(c)
  BY <1>1, <1>5 DEF Records
<1>7. Traced(Append(events[r], e), c, ok) /\ Traced(Append(events[r], e), c, g)
  BY <1>1, <1>2, WrittenTraced DEF Goes
<1>8. Traced(events[r], c, g)
  BY <1>1, SilentTraced DEF Goes
<1>9. Followed(c)'
  BY <1>3, <1>5, <1>7, <1>8 DEF Goes, Followed
<1>10. cancelled' = cancelled
  OBVIOUS
<1>11. Goes(c, frame'[c])
  BY <1>5
<1>12. frame'[c].run = frame[c].run /\ frame'[c].pc # "begin" /\ (Unbegun(frame[c]) /\ Stopping(c, frame[c]))'
  BY <1>10, <1>11 DEF Goes, Unbegun, Stopping
<1>13. QED
  BY <1>4, <1>6, <1>9, <1>10, <1>12 DEF Steps

(* A call that gives up returns with a fault on its account.               *)
Aborted(c) == [Abandon(c) EXCEPT !.hit = TRUE]

LEMMA AbortedGoes ==
  ASSUME TraceInv, NEW c \in Calls, frame[c].run \in RunIDs, frame[c].pc # "returned"
  PROVE  /\ Goes(c, Aborted(c)) /\ Silent(frame[c], Aborted(c))
         /\ \A type \in EventType \ Terminal : \A arg :
              /\ type # "node.event"
              /\ type = "node.started" => frame[c].pc = "enter"
              /\ type = "edge.selected" => frame[c].pc = "edge"
              => Writes(frame[c], type, arg, Aborted(c))
<1>1. frame[c] \in Frame /\ Stopping(c, frame[c])
  BY Running
<1>2. /\ Aborted(c).pc = "returned" /\ Aborted(c).hit /\ Aborted(c).failed
      /\ Aborted(c).run = frame[c].run /\ Aborted(c).steps = frame[c].steps
      /\ Aborted(c).response = frame[c].response /\ Aborted(c).late = frame[c].late
  BY <1>1, SMT DEF Aborted, Abandon, Frame
<1>3. QED
  BY <1>1, <1>2 DEF Goes, Silent, Writes, Stopping, NotRunning

(* A call that ends goes to its terminal event.                            *)
LEMMA EndGoes ==
  ASSUME TraceInv, NEW c \in Calls, frame[c].run \in RunIDs, frame[c].pc # "returned",
         NEW status \in Terminal
  PROVE  /\ Goes(c, End(c, status)) /\ Silent(frame[c], End(c, status))
         /\ Goes(c, [End(c, status) EXCEPT !.hit = TRUE])
         /\ Silent(frame[c], [End(c, status) EXCEPT !.hit = TRUE])
         /\ \A type \in {"node.failed", "interrupt.created"} : \A arg :
              /\ Writes(frame[c], type, arg, End(c, status))
              /\ Writes(frame[c], type, arg, [End(c, status) EXCEPT !.hit = TRUE])
<1> DEFINE g == End(c, status)
           h == [End(c, status) EXCEPT !.hit = TRUE]
<1>1. frame[c] \in Frame /\ Stopping(c, frame[c])
  BY Running
<1>2. /\ g.pc = "terminal" /\ g.run = frame[c].run /\ g.steps = frame[c].steps
      /\ g.response = frame[c].response /\ g.late = frame[c].late
  BY <1>1, SMT DEF End, Frame
<1>3. /\ h.pc = "terminal" /\ h.run = frame[c].run /\ h.steps = frame[c].steps
      /\ h.response = frame[c].response /\ h.late = frame[c].late
  BY <1>1, SMT DEF End, Frame
<1> HIDE DEF g, h
<1>4. \A x \in {g, h} :
        /\ Goes(c, x) /\ Silent(frame[c], x)
        /\ \A type \in {"node.failed", "interrupt.created"} : \A arg : Writes(frame[c], type, arg, x)
  BY <1>1, <1>2, <1>3 DEF Goes, Silent, Writes, Stopping, NotRunning, Terminal
<1>5. QED
  BY <1>4 DEF g, h

-----------------------------------------------------------------------------
(* The steps of a call, one lemma for each.                                *)
LEMMA SnapshotFailsSteps ==
  ASSUME TraceInv, NEW c \in Calls, frame[c].run \in RunIDs, frame[c].pc # "returned",
         SnapshotFails(c)
  PROVE  Steps(c)
BY AbortedGoes, MoveSteps DEF SnapshotFails, Aborted, Move

LEMMA AtPlace ==
  ASSUME TraceInv, NEW c \in Calls, frame[c].pc \notin NotRunning
  PROVE  /\ frame[c].run \in RunIDs /\ frame[c] \in Frame /\ Shape(frame[c])
         /\ Stopping(c, frame[c])
BY FrameType DEF TraceInv

LEMMA BeginSteps == ASSUME TraceInv, NEW c \in Calls, Begin(c) PROVE Steps(c)
<1> DEFINE ok == [frame[c] EXCEPT !.pc = "loop", !.node = frame[c].target]
           type == IF frame[c].via = "invoke" THEN "run.started" ELSE "run.resumed"
<1>1. /\ frame[c].pc = "begin" /\ frame[c].run \in RunIDs /\ frame[c] \in Frame
      /\ Stopping(c, frame[c])
  BY AtPlace DEF Begin, At, NotRunning
<1>2. type \in EventType \ Terminal /\ type \in Leading /\ type \notin {"node.started", "edge.selected", "node.event"}
  BY DEF EventType, Terminal, Leading
<1>3. frame[c].target \in NodeIDs \cup Nat \cup {None}
  BY <1>1 DEF Frame
<1> HIDE DEF type
<1>4. Goes(c, ok) /\ Writes(frame[c], type, frame[c].target, ok)
  BY <1>1, <1>2, SMT DEF Goes, Writes, Stopping, Frame, NotRunning
<1>5. CASE SnapshotFails(c)
  BY <1>1, <1>5, SnapshotFailsSteps
<1>6. CASE Record(c, type, frame[c].target, ok, Abandon(c)) /\ UNCHANGED <<stores, cancelled>>
  <2> HIDE DEF ok
  <2>1. /\ Goes(c, Aborted(c)) /\ Silent(frame[c], Aborted(c))
        /\ Writes(frame[c], type, frame[c].target, Aborted(c))
    BY <1>1, <1>2, AbortedGoes
  <2>2. QED
    BY <1>1, <1>2, <1>3, <1>4, <1>6, <2>1, RecordSteps DEF Aborted
<1>7. QED
  BY <1>5, <1>6 DEF Begin, type

LEMMA LoopSteps == ASSUME TraceInv, NEW c \in Calls, Loop(c) PROVE Steps(c)
<1> DEFINE steps == IF MaxSteps > 0 THEN frame[c].steps + 1 ELSE frame[c].steps
           g == [frame[c] EXCEPT !.pc = "enter", !.steps = steps]
<1>1. /\ frame[c].pc = "loop" /\ frame[c].run \in RunIDs /\ frame[c] \in Frame
      /\ Stopping(c, frame[c])
  BY AtPlace DEF Loop, At, NotRunning
<1>2. events' = events /\ cancelled' = cancelled
  BY DEF Loop
<1>3. \A status \in {"cancelled", "failed"} :
        Goes(c, End(c, status)) /\ Silent(frame[c], End(c, status))
  BY <1>1, EndGoes DEF Terminal
<1>4. CASE Move(c, End(c, "cancelled")) \/ Move(c, End(c, "failed"))
  BY <1>1, <1>2, <1>3, <1>4, MoveSteps
<1>5. CASE ~CancelSeen(c) /\ ~LimitReached(c) /\ Move(c, g)
  <2>1. frame[c].steps \in Nat /\ frame[c].late \in Nat /\ MaxSteps \in Nat
    BY <1>1, RunnerAssumption DEF Frame
  <2>2. frame[c].late = 0
    BY <1>1, <1>5, <2>1 DEF CancelSeen, Stopping
  <2>3. /\ g.pc = "enter" /\ g.steps = steps /\ g.run = frame[c].run /\ g.node = frame[c].node
        /\ g.late = frame[c].late /\ g.response = frame[c].response
    BY <1>1, SMT DEF Frame
  <2> HIDE DEF g
  <2>4. Goes(c, g) /\ Silent(frame[c], g)
    BY <1>1, <1>5, <2>1, <2>2, <2>3 DEF Goes, Silent, Stopping, NotRunning, LimitReached
  <2>5. QED
    BY <1>1, <1>2, <1>5, <2>4, MoveSteps
<1>6. QED
  BY <1>4, <1>5 DEF Loop

LEMMA NodeStartSteps == ASSUME TraceInv, NEW c \in Calls, NodeStart(c) PROVE Steps(c)
<1> DEFINE late == IF c \in cancelled THEN frame[c].late + 1 ELSE frame[c].late
           ok == [Consume(frame[c]) EXCEPT !.pc = "node", !.emitter = TRUE, !.late = late]
<1>1. /\ frame[c].pc = "enter" /\ frame[c].run \in RunIDs /\ frame[c] \in Frame
      /\ Stopping(c, frame[c])
  BY AtPlace DEF NodeStart, At, NotRunning
<1>2. /\ ok.pc = "node" /\ ok.run = frame[c].run /\ ok.steps = frame[c].steps
      /\ ok.response = None /\ ok.given = frame[c].response /\ ok.late = late
      /\ Consume(frame[c]).late = frame[c].late
  BY <1>1, SMT DEF Consume, Frame
<1>3. CASE SnapshotFails(c)
  BY <1>1, <1>3, SnapshotFailsSteps
<1>4. CASE Record(c, "node.started", None, ok, Abandon(c)) /\ UNCHANGED <<stores, cancelled>>
  <2> HIDE DEF ok
  <2>1. frame[c].late = 0
    BY <1>1 DEF Stopping
  <2>2. Goes(c, ok) /\ Writes(frame[c], "node.started", None, ok)
    BY <1>1, <1>2, <2>1 DEF Goes, Writes, Stopping, NotRunning, Terminal
  <2>3. /\ Goes(c, Aborted(c)) /\ Silent(frame[c], Aborted(c))
        /\ Writes(frame[c], "node.started", None, Aborted(c))
    BY <1>1, AbortedGoes DEF EventType, Terminal
  <2>4. QED
    BY <1>1, <1>4, <2>2, <2>3, RecordSteps DEF Aborted, EventType
<1>5. QED
  BY <1>2, <1>3, <1>4 DEF NodeStart

LEMMA EmitSteps == ASSUME TraceInv, NEW c \in Calls, Emit(c) PROVE Steps(c)
<1> DEFINE g == [frame[c] EXCEPT !.emits = @ + 1]
           r == frame[c].run
<1>1. /\ frame[c] \in Frame /\ r \in RunIDs /\ frame[c].pc \notin NotRunning \cup {"begin"}
      /\ frame'[c] = g /\ OthersSame(c) /\ cancelled' = cancelled
      /\ events' \in {events, Recorded(c, "node.event", None)}
  BY Emitted DEF TraceInv
<1>2. Traced(events[r], c, frame[c]) /\ Stopping(c, frame[c]) /\ events[r] \in Seq(Event)
  BY <1>1, Running
<1>3. /\ g.pc = frame[c].pc /\ g.run = r /\ g.node = frame[c].node /\ g.steps = frame[c].steps
      /\ g.status = frame[c].status /\ g.failed = frame[c].failed /\ g.hit = frame[c].hit
      /\ g.response = frame[c].response /\ g.given = frame[c].given /\ g.late = frame[c].late
  BY <1>1, SMT DEF Frame
<1> HIDE DEF g
<1>4. ASSUME NEW log, Traced(log, c, frame[c]) PROVE Traced(log, c, g)
  BY <1>3, <1>4 DEF Traced, Arrives, Departs, Ended, Agrees, Counted, Given
<1>5. Traced(events'[r], c, frame[c])
  <2>1. CASE events' = events
    BY <1>2, <2>1
  <2>2. CASE events' = Recorded(c, "node.event", None)
    <3>1. PICK e \in Event :
            /\ e.call = c /\ e.type = "node.event"
            /\ Recorded(c, "node.event", None) = [events EXCEPT ![r] = Append(events[r], e)]
      BY <1>1, RecordedLog DEF TraceInv, EventType
    <3>2. events'[r] = Append(events[r], e) /\ Foreign(e, c)
      BY <1>1, <2>2, <3>1 DEF TraceInv, Inv, TypeOK, Foreign
    <3>3. QED
      BY <1>2, <3>2, OtherTraced
  <2>3. QED
    BY <1>1, <2>1, <2>2
<1>6. Followed(c)'
  BY <1>1, <1>3, <1>4, <1>5 DEF Followed
<1>7. events' = events \/ Records(c)
  BY <1>1 DEF Records, EventType
<1>8. Unbegun(g) /\ Stopping(c, g)
  BY <1>1, <1>2, <1>3 DEF Unbegun, Stopping, NotRunning
<1>9. (Unbegun(frame[c]) /\ Stopping(c, frame[c]))'
  BY <1>1, <1>8 DEF Unbegun, Stopping
<1>10. QED
  BY <1>1, <1>3, <1>6, <1>7, <1>9 DEF Steps

LEMMA NodeReturnSteps ==
  ASSUME TraceInv, NEW c \in Calls, NEW cmd \in Commands, NodeReturn(c, cmd) PROVE Steps(c)
<1> DEFINE v == IF cmd.update # None THEN cmd.update ELSE frame[c].state
           g == [frame[c] EXCEPT !.pc = "complete", !.cmd = cmd, !.state = v]
<1>1. /\ frame[c].pc = "node" /\ frame[c].run \in RunIDs /\ frame[c] \in Frame
      /\ Stopping(c, frame[c])
  BY AtPlace DEF NodeReturn, At, NotRunning
<1>2. Move(c, g) /\ events' = events /\ cancelled' = cancelled
  BY DEF NodeReturn
<1> HIDE DEF v
<1>3. Goes(c, g) /\ Silent(frame[c], g)
  BY <1>1, SMT DEF Frame, Goes, Silent, Stopping, NotRunning
<1> HIDE DEF g
<1>4. QED
  BY <1>1, <1>2, <1>3, MoveSteps

LEMMA NodeErrorSteps ==
  ASSUME TraceInv, NEW c \in Calls, NEW wrapsCancel \in NodeErrors, NodeError(c, wrapsCancel)
  PROVE  Steps(c)
<1> DEFINE g == [frame[c] EXCEPT !.pc = "failing"]
<1>1. /\ frame[c].pc = "node" /\ frame[c].run \in RunIDs /\ frame[c] \in Frame
      /\ Stopping(c, frame[c])
  BY AtPlace DEF NodeError, At, NotRunning
<1>2. Goes(c, g) /\ Silent(frame[c], g)
  BY <1>1, SMT DEF Frame, Goes, Silent, Stopping, NotRunning
<1>3. Goes(c, End(c, "cancelled")) /\ Silent(frame[c], End(c, "cancelled"))
  BY <1>1, EndGoes DEF Terminal
<1>4. (Move(c, g) \/ Move(c, End(c, "cancelled"))) /\ events' = events /\ cancelled' = cancelled
  BY DEF NodeError
<1> HIDE DEF g
<1>5. QED
  BY <1>1, <1>2, <1>3, <1>4, MoveSteps

LEMMA NodeFailedSteps == ASSUME TraceInv, NEW c \in Calls, NodeFailed(c) PROVE Steps(c)
<1> DEFINE g == End(c, "failed")
           h == [g EXCEPT !.hit = TRUE]
<1>1. frame[c].pc = "failing" /\ frame[c].run \in RunIDs
  BY AtPlace DEF NodeFailed, At, NotRunning
<1>2. /\ Goes(c, g) /\ Writes(frame[c], "node.failed", None, g)
      /\ Goes(c, h) /\ Writes(frame[c], "node.failed", None, h) /\ Silent(frame[c], h)
  BY <1>1, EndGoes DEF Terminal
<1>3. Record(c, "node.failed", None, g, g) /\ UNCHANGED <<stores, cancelled>>
  BY DEF NodeFailed
<1>4. h = [g EXCEPT !.hit = TRUE]
  OBVIOUS
<1> HIDE DEF g, h
<1>5. QED
  BY <1>1, <1>2, <1>3, <1>4, RecordSteps DEF EventType

LEMMA NodeCompleteSteps == ASSUME TraceInv, NEW c \in Calls, NodeComplete(c) PROVE Steps(c)
<1> DEFINE n == Len(events[frame[c].run]) + 1
           ok == [frame[c] EXCEPT !.pc = "save", !.completed = n]
<1>1. /\ frame[c].pc = "complete" /\ frame[c].run \in RunIDs /\ frame[c] \in Frame
      /\ Stopping(c, frame[c])
  BY AtPlace DEF NodeComplete, At, NotRunning
<1>2. Goes(c, ok) /\ Writes(frame[c], "node.completed", None, ok)
  <2> HIDE DEF n
  <2>1. QED
    BY <1>1, SMT DEF Frame, Goes, Writes, Stopping, NotRunning, Terminal, Leading
<1>3. CASE SnapshotFails(c)
  BY <1>1, <1>3, SnapshotFailsSteps
<1>4. CASE Record(c, "node.completed", None, ok, Abandon(c)) /\ UNCHANGED <<stores, cancelled>>
  <2> HIDE DEF ok
  <2>1. /\ Goes(c, Aborted(c)) /\ Silent(frame[c], Aborted(c))
        /\ Writes(frame[c], "node.completed", None, Aborted(c))
    BY <1>1, AbortedGoes DEF EventType, Terminal
  <2>2. QED
    BY <1>1, <1>2, <1>4, <2>1, RecordSteps DEF Aborted, EventType
<1>5. QED
  BY <1>3, <1>4 DEF NodeComplete

LEMMA SaveCheckpointSteps == ASSUME TraceInv, NEW c \in Calls, SaveCheckpoint(c) PROVE Steps(c)
<1> DEFINE n == Len(checkpoints) + 1
           g == [frame[c] EXCEPT !.pc = "saved", !.saved = n]
<1>1. /\ frame[c].pc = "save" /\ frame[c].run \in RunIDs /\ frame[c] \in Frame
      /\ Stopping(c, frame[c])
  BY AtPlace DEF SaveCheckpoint, At, NotRunning
<1>2. Goes(c, g) /\ Silent(frame[c], g)
  <2> HIDE DEF n
  <2>1. QED
    BY <1>1, SMT DEF Frame, Goes, Silent, Stopping, NotRunning
<1>3. Goes(c, End(c, "failed")) /\ Silent(frame[c], End(c, "failed"))
  BY <1>1, EndGoes DEF Terminal
<1>4. (Move(c, g) \/ Move(c, End(c, "failed"))) /\ events' = events /\ cancelled' = cancelled
  BY DEF SaveCheckpoint, SaveFailed
<1> HIDE DEF g
<1>5. QED
  BY <1>1, <1>2, <1>3, <1>4, MoveSteps

LEMMA RecordSavedSteps == ASSUME TraceInv, NEW c \in Calls, RecordSaved(c) PROVE Steps(c)
<1> DEFINE pc == IF frame[c].cmd.interrupt THEN "register" ELSE "route"
           ok == [frame[c] EXCEPT !.pc = pc]
<1>1. /\ frame[c].pc = "saved" /\ frame[c].run \in RunIDs /\ frame[c] \in Frame
      /\ Stopping(c, frame[c]) /\ frame[c].saved \in Nat
  BY AtPlace DEF RecordSaved, At, NotRunning, Frame
<1>2. pc \in {"register", "route"}
  OBVIOUS
<1>3. Goes(c, ok) /\ Writes(frame[c], "checkpoint.saved", frame[c].saved, ok)
  <2> HIDE DEF pc
  <2>1. QED
    BY <1>1, <1>2, SMT DEF Frame, Goes, Writes, Stopping, NotRunning, Terminal, Leading
<1>4. /\ Goes(c, Aborted(c)) /\ Silent(frame[c], Aborted(c))
      /\ Writes(frame[c], "checkpoint.saved", frame[c].saved, Aborted(c))
  BY <1>1, AbortedGoes DEF EventType, Terminal
<1>5. Record(c, "checkpoint.saved", frame[c].saved, ok, Abandon(c)) /\ UNCHANGED <<stores, cancelled>>
  BY DEF RecordSaved
<1> HIDE DEF ok
<1>6. QED
  BY <1>1, <1>3, <1>4, <1>5, RecordSteps DEF Aborted, EventType

LEMMA RegisterInterruptSteps ==
  ASSUME TraceInv, NEW c \in Calls, RegisterInterrupt(c) PROVE Steps(c)
<1> DEFINE n == Len(interrupts) + 1
           g == [frame[c] EXCEPT !.pc = "announce", !.raised = n]
<1>1. /\ frame[c].pc = "register" /\ frame[c].run \in RunIDs /\ frame[c] \in Frame
      /\ Stopping(c, frame[c])
  BY AtPlace DEF RegisterInterrupt, At, NotRunning
<1>2. Goes(c, g) /\ Silent(frame[c], g)
  <2> HIDE DEF n
  <2>1. QED
    BY <1>1, SMT DEF Frame, Goes, Silent, Stopping, NotRunning
<1>3. Goes(c, End(c, "failed")) /\ Silent(frame[c], End(c, "failed"))
  BY <1>1, EndGoes DEF Terminal
<1>4. (Move(c, g) \/ Move(c, End(c, "failed"))) /\ events' = events /\ cancelled' = cancelled
  BY DEF RegisterInterrupt
<1> HIDE DEF g
<1>5. QED
  BY <1>1, <1>2, <1>3, <1>4, MoveSteps

LEMMA AnnounceInterruptSteps ==
  ASSUME TraceInv, NEW c \in Calls, AnnounceInterrupt(c) PROVE Steps(c)
<1> DEFINE g == End(c, "interrupted")
           h == [g EXCEPT !.hit = TRUE]
<1>1. frame[c].pc = "announce" /\ frame[c].run \in RunIDs /\ frame[c].raised \in Nat
  BY AtPlace DEF AnnounceInterrupt, At, NotRunning, Frame
<1>2. /\ Goes(c, g) /\ Writes(frame[c], "interrupt.created", frame[c].raised, g)
      /\ Goes(c, h) /\ Writes(frame[c], "interrupt.created", frame[c].raised, h)
      /\ Silent(frame[c], h)
  BY <1>1, EndGoes DEF Terminal
<1>3. Record(c, "interrupt.created", frame[c].raised, g, g) /\ UNCHANGED <<stores, cancelled>>
  BY DEF AnnounceInterrupt
<1>4. h = [g EXCEPT !.hit = TRUE]
  OBVIOUS
<1> HIDE DEF g, h
<1>5. QED
  BY <1>1, <1>2, <1>3, <1>4, RecordSteps DEF EventType

LEMMA RouteSteps == ASSUME TraceInv, NEW c \in Calls, Route(c) PROVE Steps(c)
<1>1. /\ frame[c].pc = "route" /\ frame[c].run \in RunIDs /\ frame[c] \in Frame
      /\ Stopping(c, frame[c])
  BY AtPlace DEF Route, At, NotRunning
<1>2. events' = events /\ cancelled' = cancelled
  BY DEF Route
<1>3. ASSUME NEW to, Follow(c, to) PROVE Steps(c)
  <2> DEFINE g == [frame[c] EXCEPT !.pc = "edge", !.target = to]
  <2>1. Goes(c, g) /\ Silent(frame[c], g)
    BY <1>1, SMT DEF Frame, Goes, Silent, Stopping, NotRunning
  <2>2. Move(c, g)
    BY <1>3 DEF Follow
  <2> HIDE DEF g
  <2>3. QED
    BY <1>1, <1>2, <2>1, <2>2, MoveSteps
<1>4. ASSUME NEW status \in {"completed", "failed"}, Move(c, End(c, status)) PROVE Steps(c)
  <2>1. Goes(c, End(c, status)) /\ Silent(frame[c], End(c, status))
    BY <1>1, EndGoes DEF Terminal
  <2>2. QED
    BY <1>1, <1>2, <1>4, <2>1, MoveSteps
<1>5. QED
  BY <1>3, <1>4 DEF Route, FollowFixed

LEMMA RecordEdgeSteps == ASSUME TraceInv, NEW c \in Calls, RecordEdge(c) PROVE Steps(c)
<1> DEFINE ok == [frame[c] EXCEPT !.pc = "loop", !.node = frame[c].target]
<1>1. /\ frame[c].pc = "edge" /\ frame[c].run \in RunIDs /\ frame[c] \in Frame
      /\ Stopping(c, frame[c])
  BY AtPlace DEF RecordEdge, At, NotRunning
<1>2. frame[c].target \in NodeIDs \cup Nat \cup {None}
  BY <1>1 DEF Frame
<1>3. Goes(c, ok) /\ Writes(frame[c], "edge.selected", frame[c].target, ok)
  BY <1>1, SMT DEF Frame, Goes, Writes, Stopping, NotRunning, Terminal, Leading
<1>4. /\ Goes(c, Aborted(c)) /\ Silent(frame[c], Aborted(c))
      /\ Writes(frame[c], "edge.selected", frame[c].target, Aborted(c))
  BY <1>1, AbortedGoes DEF EventType, Terminal
<1>5. Record(c, "edge.selected", frame[c].target, ok, Abandon(c)) /\ UNCHANGED <<stores, cancelled>>
  BY DEF RecordEdge
<1> HIDE DEF ok
<1>6. QED
  BY <1>1, <1>2, <1>3, <1>4, <1>5, RecordSteps DEF Aborted, EventType

LEMMA FinishSteps == ASSUME TraceInv, NEW c \in Calls, Finish(c) PROVE Steps(c)
<1> DEFINE done == [frame[c] EXCEPT !.pc = "returned"]
           h == [done EXCEPT !.hit = TRUE]
           status == frame[c].status
           arg == IF status = "interrupted" THEN frame[c].raised ELSE None
<1>1. /\ frame[c].pc = "terminal" /\ frame[c].run \in RunIDs /\ frame[c] \in Frame
      /\ Stopping(c, frame[c]) /\ Shape(frame[c])
  BY AtPlace DEF Finish, At, NotRunning
<1>2. status \in Terminal /\ status \in EventType /\ arg \in NodeIDs \cup Nat \cup {None}
  BY <1>1 DEF Shape, Placed, Frame, EventType
<1>3. Record(c, status, arg, done, done) /\ UNCHANGED <<stores, cancelled>>
  BY DEF Finish, TerminalEvent
<1> HIDE DEF arg
<1>4. /\ done.pc = "returned" /\ done.run = frame[c].run /\ done.steps = frame[c].steps
      /\ done.status = status /\ done.response = frame[c].response /\ done.late = frame[c].late
  BY <1>1, SMT DEF Frame
<1>5. /\ h.pc = "returned" /\ h.run = frame[c].run /\ h.steps = frame[c].steps /\ h.hit
      /\ h.status = status /\ h.response = frame[c].response /\ h.late = frame[c].late
  BY <1>1, SMT DEF Frame
<1>6. h = [done EXCEPT !.hit = TRUE]
  OBVIOUS
<1> HIDE DEF done, h, status
<1>7. /\ Goes(c, done) /\ Writes(frame[c], status, arg, done)
      /\ Goes(c, h) /\ Writes(frame[c], status, arg, h) /\ Silent(frame[c], h)
  BY <1>1, <1>2, <1>4, <1>5 DEF Goes, Writes, Silent, Stopping, NotRunning, Terminal
<1>8. QED
  BY <1>1, <1>2, <1>3, <1>6, <1>7, RecordSteps

-----------------------------------------------------------------------------
(* A call begins: none of the events of the run it joins is its own.       *)
LEMMA BeginningSteps ==
  ASSUME TraceInv, NEW c \in Calls, frame[c].pc \in {"idle", "load"},
         NEW g, g.pc = "begin", g.run \in RunIDs, g.steps = 0, g.late = 0,
         Move(c, g), events' = events, cancelled' = cancelled
  PROVE  Steps(c)
<1> DEFINE log == events[g.run]
<1>1. frame'[c] = g /\ OthersSame(c)
  BY DEF Move, OthersSame, TraceInv, Inv, TypeOK
<1>2. frame[c].run = None /\ None \notin RunIDs
  BY RunnerAssumption DEF TraceInv, Unbegun, NotRunning
<1>3. Own(log, c) = {} /\ Started(log, c) = {}
  BY <1>2 DEF TraceInv, Attributed, Own, Started
<1>4. Cardinality(Started(log, c)) = 0
  BY <1>3, FS_EmptySet
<1>5. Traced(log, c, g)
  <2> HIDE DEF log
  <2>1. Arrives(log, c, g) /\ Departs(log, c, g) /\ Ended(log, c, g) /\ Replays(log, c)
    BY <1>3 DEF Arrives, Departs, Ended, Replays
  <2>2. Counted(log, c, g) /\ Given(log, c, g)
    BY <1>3, <1>4, RunnerAssumption DEF Counted, Given
  <2>3. QED
    BY <2>1, <2>2 DEF Traced
<1>6. Followed(c)'
  BY <1>1, <1>5 DEF Followed
<1>7. QED
  BY <1>1, <1>2, <1>6 DEF Steps, Unbegun, Stopping, NotRunning

(* Resolve and refusals leave a call without a run.                        *)
LEMMA WaitingSteps ==
  ASSUME TraceInv, NEW c \in Calls, frame[c].pc \in {"idle", "load"},
         NEW g, g.pc \in {"load", "rejected"}, g.run = None, g.steps = 0, g.late = 0,
         Move(c, g), events' = events, cancelled' = cancelled
  PROVE  Steps(c)
<1>1. frame'[c] = g /\ OthersSame(c)
  BY DEF Move, OthersSame, TraceInv, Inv, TypeOK
<1>2. frame[c].run = None /\ None \notin RunIDs
  BY RunnerAssumption DEF TraceInv, Unbegun, NotRunning
<1>3. QED
  BY <1>1, <1>2 DEF Steps, Followed, Unbegun, Stopping, NotRunning

LEMMA RejectSteps ==
  ASSUME TraceInv, NEW c \in Calls, frame[c].pc \in {"idle", "load"}, Reject(c),
         events' = events, cancelled' = cancelled
  PROVE  Steps(c)
<1> DEFINE g == [frame[c] EXCEPT !.pc = "rejected", !.failed = TRUE]
<1>1. frame[c] \in Frame /\ frame[c].run = None /\ frame[c].steps = 0 /\ frame[c].late = 0
  BY DEF TraceInv, Inv, TypeOK, Unbegun, NotRunning
<1>2. g.pc = "rejected" /\ g.run = None /\ g.steps = 0 /\ g.late = 0
  BY <1>1, SMT DEF Frame
<1>3. Move(c, g)
  BY DEF Reject
<1> HIDE DEF g
<1>4. QED
  BY <1>2, <1>3, WaitingSteps

LEMMA InvokeSteps ==
  ASSUME TraceInv, NEW c \in Calls, NEW r \in RunIDs, NEW start \in StartAt, NEW v \in Inputs,
         Invoke(c, r, start, v)
  PROVE  Steps(c)
<1> DEFINE g == [Idle EXCEPT !.pc = "begin", !.via = "invoke", !.run = r, !.target = start,
                             !.state = v, !.status = "running"]
<1>1. frame[c].pc = "idle" /\ events' = events /\ cancelled' = cancelled
  BY DEF Invoke, At
<1>2. g.pc = "begin" /\ g.run \in RunIDs /\ g.steps = 0 /\ g.late = 0
  BY DEF Idle
<1>3. Move(c, g) \/ Reject(c)
  BY DEF Invoke
<1> HIDE DEF g
<1>4. QED
  BY <1>1, <1>2, <1>3, BeginningSteps, RejectSteps

LEMMA ResumeSteps ==
  ASSUME TraceInv, NEW c \in Calls, NEW i \in Nat, NEW answer \in Answers, Resume(c, i, answer)
  PROVE  Steps(c)
<1> DEFINE g == [Idle EXCEPT !.pc = "load", !.via = "resume", !.source = i]
<1>1. frame[c].pc = "idle" /\ events' = events /\ cancelled' = cancelled
  BY DEF Resume, At
<1>2. g.pc = "load" /\ g.run = None /\ g.steps = 0 /\ g.late = 0
  BY DEF Idle
<1>3. Move(c, g) \/ Reject(c)
  BY DEF Resume
<1> HIDE DEF g
<1>4. QED
  BY <1>1, <1>2, <1>3, WaitingSteps, RejectSteps

LEMMA LoadCheckpointSteps == ASSUME TraceInv, NEW c \in Calls, LoadCheckpoint(c) PROVE Steps(c)
<1> DEFINE record == interrupts[frame[c].source]
           v == SavedState(record)
           g == [frame[c] EXCEPT !.pc = "begin", !.run = record.run, !.target = record.resume,
                                 !.state = v, !.status = "running", !.response = record.response]
<1>1. /\ frame[c].pc = "load" /\ frame[c] \in Frame /\ frame[c].steps = 0 /\ frame[c].late = 0
      /\ Shape(frame[c])
  BY DEF TraceInv, Inv, TypeOK, Unbegun, NotRunning, LoadCheckpoint, At
<1>2. record.run \in RunIDs
  BY <1>1, RecordType DEF Shape, Answered, TraceInv
<1>3. events' = events /\ cancelled' = cancelled /\ (Move(c, g) \/ Reject(c))
  BY DEF LoadCheckpoint, Resumed
<1> HIDE DEF record, v
<1>4. g.pc = "begin" /\ g.run \in RunIDs /\ g.steps = 0 /\ g.late = 0
  BY <1>1, <1>2, SMT DEF Frame
<1> HIDE DEF g
<1>5. QED
  BY <1>1, <1>3, <1>4, BeginningSteps, RejectSteps

LEMMA ResumeFromSteps ==
  ASSUME TraceInv, NEW c \in Calls, NEW i \in Nat, NEW answer \in Answers, ResumeFrom(c, i, answer)
  PROVE  Steps(c)
<1> DEFINE record == interrupts[i]
           v == SavedState(record)
           g == [Idle EXCEPT !.pc = "begin", !.via = "request", !.source = i,
                             !.run = record.run, !.target = record.resume,
                             !.state = v, !.status = "running", !.response = answer]
<1>1. /\ frame[c].pc = "idle" /\ i \in DOMAIN interrupts
      /\ events' = events /\ cancelled' = cancelled /\ (Move(c, g) \/ Reject(c))
  BY DEF ResumeFrom, At
<1>2. record.run \in RunIDs
  BY <1>1, RecordType DEF TraceInv
<1> HIDE DEF record, v
<1>3. g.pc = "begin" /\ g.run \in RunIDs /\ g.steps = 0 /\ g.late = 0
  BY <1>2, SMT DEF Idle
<1> HIDE DEF g
<1>4. QED
  BY <1>1, <1>3, BeginningSteps, RejectSteps

LEMMA EveryStep ==
  ASSUME TraceInv, NEW c \in Calls, Start(c) \/ Step(c) \/ Emit(c)
  PROVE  Steps(c)
<1>1. Visible \subseteq Nat /\ Unknown \in Nat
  <2>1. interrupts \in Seq(InterruptRecord)
    BY DEF TraceInv, Inv, TypeOK
  <2>2. QED
    BY <2>1 DEF Visible, Unknown
<1>2. CASE Start(c)
  BY <1>1, <1>2, InvokeSteps, ResumeSteps, ResumeFromSteps DEF Start
<1>3. CASE Step(c)
  BY <1>3, LoadCheckpointSteps, BeginSteps, LoopSteps, NodeStartSteps, NodeReturnSteps,
     NodeErrorSteps, NodeFailedSteps, NodeCompleteSteps, SaveCheckpointSteps, RecordSavedSteps,
     RegisterInterruptSteps, AnnounceInterruptSteps, RouteSteps, RecordEdgeSteps, FinishSteps DEF Step
<1>4. QED
  BY <1>2, <1>3, EmitSteps

-----------------------------------------------------------------------------
(* The invariant.                                                          *)
LEMMA InitTraceInv == Init => TraceInv
<1> SUFFICES ASSUME Init PROVE TraceInv
  OBVIOUS
<1>1. \A c \in Calls : frame[c] = Idle
  BY DEF Init
<1>2. Attributed
  <2>1. \A r \in RunIDs : DOMAIN events[r] = {}
    BY DEF Init
  <2>2. QED
    BY <2>1 DEF Attributed
<1>3. \A c \in Calls : Unbegun(frame[c]) /\ Followed(c) /\ Stopping(c, frame[c])
  BY <1>1, RunnerAssumption DEF Idle, Unbegun, Followed, Stopping
<1>4. QED
  BY <1>2, <1>3, InitInv DEF TraceInv

LEMMA CancelTraceInv == ASSUME TraceInv, Inv', NEW c \in Calls, Cancel(c) PROVE TraceInv'
<1>1. /\ UNCHANGED <<frame, events>>
      /\ cancelled \subseteq cancelled'
  BY DEF Cancel
<1>2. QED
  BY <1>1 DEF TraceInv, Attributed, Unbegun, Followed, Stopping

LEMMA NextTraceInv == TraceInv /\ Inv' /\ [Next]_vars => TraceInv'
<1> SUFFICES ASSUME TraceInv, Inv', [Next]_vars PROVE TraceInv'
  OBVIOUS
<1>1. ASSUME NEW c \in Calls, Start(c) \/ Step(c) \/ Emit(c) PROVE TraceInv'
  BY <1>1, EveryStep, StepsKeep
<1>2. ASSUME NEW c \in Calls, Cancel(c) PROVE TraceInv'
  BY <1>2, CancelTraceInv
<1>3. CASE Stop \/ UNCHANGED vars
  BY <1>3 DEF Stop, vars, TraceInv, Attributed, Unbegun, Followed, Stopping
<1>4. QED
  BY <1>1, <1>2, <1>3 DEF Next

LEMMA SpecTraceInv == Spec => []TraceInv
BY InitTraceInv, NextTraceInv, SpecInv, PTL DEF Spec

-----------------------------------------------------------------------------
(* The status a returned call reports is what its trace ends with, through *)
(* every exit of run() and whatever else the run records.                  *)
THEOREM OutcomesMatchTrace == Spec => []OutcomeMatchesTrace
<1>1. ASSUME TraceInv PROVE OutcomeMatchesTrace
  <2> SUFFICES ASSUME NEW c \in Calls, frame[c].pc = "returned"
               PROVE  Agrees(Log(c), c, frame[c])
    BY DEF OutcomeMatchesTrace, At
  <2>1. frame[c].run \in RunIDs
    BY <1>1, AtPlace DEF NotRunning
  <2>2. QED
    BY <1>1, <2>1, RunnerAssumption DEF TraceInv, Followed, Traced, Ended, Log
<1>2. QED
  BY <1>1, SpecTraceInv, PTL

(* An empty log says nothing wrong of a call, which is all that is known   *)
(* of one without a run.                                                   *)
LEMMA LogOf ==
  ASSUME TraceInv, NEW c \in Calls
  PROVE  \/ frame[c].run \in RunIDs /\ Log(c) = events[frame[c].run] /\ Traced(Log(c), c, frame[c])
         \/ frame[c].run = None /\ Own(Log(c), c) = {} /\ Started(Log(c), c) = {}
<1>1. frame[c].run \in RunIDs \cup {None}
  BY DEF TraceInv, Inv, TypeOK, Frame
<1>2. CASE frame[c].run \in RunIDs
  BY <1>2, RunnerAssumption DEF TraceInv, Followed, Log
<1>3. CASE frame[c].run = None
  <2>1. Log(c) = <<>>
    BY <1>3 DEF Log
  <2>2. QED
    BY <1>3, <2>1 DEF Own, Started
<1>4. QED
  BY <1>1, <1>2, <1>3

(* The trace of every call replays: each node.started follows the event    *)
(* that led to its node, each edge the checkpoint of the node it leaves.   *)
THEOREM TracesReplay == Spec => []TraceReplaysPath
<1>1. ASSUME TraceInv PROVE TraceReplaysPath
  <2> SUFFICES ASSUME NEW c \in Calls PROVE Replays(Log(c), c)
    BY DEF TraceReplaysPath
  <2>1. CASE Traced(Log(c), c, frame[c])
    BY <2>1 DEF Traced
  <2>2. CASE Own(Log(c), c) = {}
    BY <2>2 DEF Replays
  <2>3. QED
    BY <1>1, <2>1, <2>2, LogOf
<1>2. QED
  BY <1>1, SpecTraceInv, PTL

(* The step limit counts what the trace shows: a call never starts more    *)
(* than MaxSteps nodes, and at most one after its context is cancelled.    *)
THEOREM CallsStopInTime == Spec => []StopsInTime
<1>1. ASSUME TraceInv PROVE StopsInTime
  <2> SUFFICES ASSUME NEW c \in Calls
               PROVE  /\ MaxSteps > 0 => Cardinality(Started(Log(c), c)) <= MaxSteps
                      /\ frame[c].late <= 1
    BY DEF StopsInTime
  <2>1. frame[c].late <= 1
    BY <1>1 DEF TraceInv, Stopping
  <2>2. CASE frame[c].run \in RunIDs /\ Log(c) = events[frame[c].run] /\ Traced(Log(c), c, frame[c])
    <3>1. /\ Cardinality(Started(Log(c), c)) \in Nat /\ frame[c].steps \in Nat /\ MaxSteps \in Nat
      BY <1>1, <2>2, OwnPositions, RunnerAssumption DEF TraceInv, Inv, TypeOK, Frame
    <3>2. QED
      BY <2>1, <2>2, <3>1 DEF Traced, Counted
  <2>3. CASE Started(Log(c), c) = {}
    BY <2>1, <2>3, FS_EmptySet, RunnerAssumption
  <2>4. QED
    BY <1>1, <2>2, <2>3, LogOf
<1>2. QED
  BY <1>1, SpecTraceInv, PTL

(* The response of a resume is consumed by the first node that starts.     *)
THEOREM ResponsesToFirstNode == Spec => []ResponseToFirstNodeOnly
<1>1. ASSUME TraceInv PROVE ResponseToFirstNodeOnly
  <2> SUFFICES ASSUME NEW c \in Calls
               PROVE  /\ frame[c].response # None /\ ~Over(c) => Started(Log(c), c) = {}
                      /\ At(c, "node") /\ frame[c].given # None =>
                           Cardinality(Started(Log(c), c)) <= 1
    BY DEF ResponseToFirstNodeOnly
  <2>1. CASE Traced(Log(c), c, frame[c])
    BY <2>1 DEF Traced, Given, Over, At
  <2>2. CASE Started(Log(c), c) = {}
    BY <2>2, FS_EmptySet
  <2>3. QED
    BY <1>1, <2>1, <2>2, LogOf
<1>2. QED
  BY <1>1, SpecTraceInv, PTL

(* Together: of any number of Resume calls that race for an interrupt one  *)
(* answer is used, by one call, for one node.                              *)
THEOREM AnswersUsedOnce == Spec => []AnswerUsedOnce
<1>1. AnswerUsedOnce <=> OneWinnerPerInterrupt /\ ResponseToFirstNodeOnly
  BY DEF AnswerUsedOnce
<1>2. QED
  BY <1>1, OneWinner, ResponsesToFirstNode, PTL
=============================================================================
