--------------------------- MODULE ToolNodeProofs ---------------------------
(***************************************************************************)
(* The tool node of ToolNode.tla, for every number of calls, every plan    *)
(* and every width of the pool.  The invariant says where the execution of *)
(* each call can be while the node function is at each of its stages, what *)
(* the call has emitted by then and why it failed; it is inductive as a    *)
(* whole, for the stages lean on the calls and the calls on the stages.    *)
(***************************************************************************)
EXTENDS ToolNode, TLAPS, FiniteSetTheorems

Begun == {"executing", "stopping"}
PreRun == {"new", "prepared", "spawned", "gaveup", "answering", "acquired", "start"}
Closing == {"result", "sending", "done"}
Pooled == {"prepared", "spawned", "gaveup", "answering", "acquired", "sending"}

Places == {"off", "running", "stopping", "stopped"}

(* A call whose execution is at `at`, with its ticker at t, has emitted s. *)
Ordered(s) ==
  \A i \in DOMAIN s : (s[i] = "started" <=> i = 1) /\ (s[i] \in Settled => i = Len(s))
Open(s) == s # <<>> /\ \A i \in DOMAIN s : s[i] \notin Settled
Told(at, t, s) ==
  /\ Ordered(s)
  /\ at \in PreRun => s = <<>> /\ t = "off"
  /\ at \in Begun => Open(s)
  /\ at = "executing" => t \in {"running", "stopped"}
  /\ at = "stopping" => t \in {"stopping", "stopped"}
  /\ at \in Closing => t \in {"off", "stopped"}
Logged == \A k \in Calls : Told(work[k].at, ticker[k], emitted[k])

(* Why a call failed, by where its execution is: a success has emitted     *)
(* tool.completed, a call is late only after a failed one stopped the      *)
(* pool, and a cancelled one is late or was cancelled by the caller.       *)
Completed(s) == s # <<>> /\ s[Len(s)] = "completed"
Caused(k) ==
  LET at == work[k].at
      why == work[k].why
  IN /\ at \in {"new", "prepared", "spawned", "acquired", "start", "executing"} => why = None /\ ~work[k].late
     /\ at \in {"gaveup", "answering"} => why = "cancelled"
     /\ at = "stopping" => why \in {None, "tool", "cancelled"}
     /\ at \in Closing /\ why = None => Completed(emitted[k])
     /\ work[k].late => context.stopped
     /\ why = "cancelled" => work[k].late \/ context.cancelled
     /\ Parallel /\ at \in {"sending", "answering", "done"} /\ why # None => node.first # None
Causes == \A k \in Calls : Caused(k)

(* A call is executed only when nothing refuses it any more.               *)
Allowed(k) == ~Asks(k) /\ Refusal(k) = None
Modes ==
  \A k \in Calls :
    /\ work[k].at # "new" => Allowed(k)
    /\ work[k].at \in Pooled => Parallel

(* The first error is one of the pool's, and came before it was stopped.   *)
Reported ==
  /\ context.stopped => node.first # None
  /\ node.first # None =>
       /\ Parallel
       /\ node.first.why # None
       /\ node.first.why = work[node.first.call].why
       /\ work[node.first.call].at \in {"sending", "answering", "done"}
       /\ ~work[node.first.call].late

(* What was executed so far, the earlier attempts included; the response   *)
(* answers the question about the first call that needs an approval.       *)
Granted == response # None /\ ~Rejected
FirstAsked(k) == kind[k] = "approval" /\ \A i \in Calls : kind[i] = "approval" => k <= i
Asked == response # None => FirstAsked(response.about)
Ran ==
  /\ Asked
  /\ \A k \in Calls :
       /\ ran[k] > 0 /\ kind[k] = "approval" => Granted
       /\ Parallel => ran[k] <= 1 /\ (work[k].at \in PreRun => ran[k] = 0)

(* Where the calls are while the node function is at each of its stages.   *)
Has(k) == results[k] # None
Before(k) ==
  IF Parallel THEN work[k].at \in {"new", "prepared"} /\ (work[k].at = "new" => Has(k))
              ELSE work[k].at \in {"new", "done"} /\ Has(k)
Untouched(k) == work[k].at = "new" /\ ~Has(k)

Preparing ==
  node.pc = "prepare" =>
    \A k \in Calls : IF k < node.next THEN Before(k) ELSE Untouched(k)
Executing ==
  node.pc = "execute" =>
    /\ ~Parallel /\ node.next \in Calls
    /\ work[node.next].at \in {"start", "executing", "stopping", "result"} /\ ~Has(node.next)
    /\ \A k \in Calls \ {node.next} : IF k < node.next THEN Before(k) ELSE Untouched(k)
Waiting ==
  node.pc = "wait" =>
    /\ Parallel
    /\ \A k \in Calls :
         /\ work[k].at # "prepared"
         /\ work[k].at = "new" => Has(k)
         /\ work[k].at = "done" => \E j \in DOMAIN outcomes : outcomes[j].call = k
Drained ==
  node.pc = "drained" =>
    /\ Parallel
    /\ \A k \in Calls :
         /\ work[k].at \in {"new", "done"}
         /\ work[k].at = "new" => Has(k)
         /\ work[k].at = "done" /\ (work[k].why = None \/ spec.continueOnError) => Has(k)
AtEnd ==
  node.pc = "returned" =>
    /\ node.outcome \in OutcomeType
    /\ \A k \in Calls : work[k].at \in {"new", "prepared", "done"}
Stages == Preparing /\ Executing /\ Waiting /\ Drained /\ AtEnd

(* The answers of the goroutines, and what stands at each position.        *)
Answered ==
  \A j \in DOMAIN outcomes :
    work[outcomes[j].call].at = "done" /\ work[outcomes[j].call].why = outcomes[j].why
Kept ==
  \A k \in Calls :
    Has(k) =>
      /\ results[k].call = k
      /\ results[k].why # None => spec.continueOnError
      /\ results[k].why = None => work[k].at = "done" /\ work[k].why = None
      /\ ~Asks(k)

(* An interrupt came before any answer, for the first call that needs one, *)
(* and before any tool of a pool ran.                                      *)
Interrupted ==
  node.pc = "returned" /\ node.outcome.kind = "interrupt" =>
    /\ response = None
    /\ node.outcome.call \in Calls /\ FirstAsked(node.outcome.call)
    /\ Parallel => \A k \in Calls : work[k].at \in {"new", "prepared"}

Pool == Parallel => Cardinality(Holders) <= spec.width

IInv ==
  /\ TypeOK /\ Logged /\ Causes /\ Modes /\ Reported /\ Ran /\ Stages
  /\ Answered /\ Kept /\ Interrupted /\ Pool /\ OutputComplete /\ CauseReported

-----------------------------------------------------------------------------
(* The records the node keeps.                                             *)
At == {"new", "prepared", "spawned", "gaveup", "answering", "done"} \cup Holding
Why == Error \cup {None}

(* The execution of a call, as the actions write it.                       *)
LEMMA WorkWritten ==
  ASSUME NEW at \in At, NEW why \in Why, NEW late \in BOOLEAN
  PROVE  /\ [at |-> at, why |-> why, late |-> late] \in WorkType
         /\ [at |-> at, why |-> why, late |-> late].at = at
         /\ [at |-> at, why |-> why, late |-> late].why = why
         /\ [at |-> at, why |-> why, late |-> late].late = late
  BY DEF At, Why, WorkType

(* The execution of a call, moved on.                                      *)
LEMMA WorkMoved ==
  ASSUME NEW w \in WorkType, NEW at \in At
  PROVE  /\ [w EXCEPT !.at = at] \in WorkType
         /\ [w EXCEPT !.at = at].at = at
         /\ [w EXCEPT !.at = at].why = w.why
         /\ [w EXCEPT !.at = at].late = w.late
  BY DEF At, WorkType

(* The node's record, as the actions write it.                             *)
LEMMA NodeFields ==
  ASSUME NEW n \in NodeType
  PROVE  /\ n.pc \in {"prepare", "execute", "wait", "drained", "returned"}
         /\ n.next \in 1 .. NCalls + 1
         /\ n.first \in [call : Calls, why : Error] \cup {None}
         /\ n.outcome \in OutcomeType \cup {None}
  BY DEF NodeType

LEMMA NodeReturned ==
  ASSUME NEW n \in NodeType, NEW o \in OutcomeType
  PROVE  [n EXCEPT !.pc = "returned", !.outcome = o] \in NodeType
  BY Zenon DEF NodeType

LEMMA NodeNext ==
  ASSUME NEW n \in NodeType, NEW i \in 1 .. NCalls + 1,
         NEW pc \in {"prepare", "execute", "wait", "drained", "returned"}
  PROVE  /\ [n EXCEPT !.next = i] \in NodeType
         /\ [n EXCEPT !.pc = pc, !.next = i] \in NodeType
  BY Zenon DEF NodeType

LEMMA NodeMoved ==
  ASSUME NEW n \in NodeType, NEW pc \in {"prepare", "execute", "wait", "drained", "returned"}
  PROVE  [n EXCEPT !.pc = pc] \in NodeType
  BY Zenon DEF NodeType

LEMMA NodeFirst ==
  ASSUME NEW n \in NodeType, NEW f \in [call : Calls, why : Error] \cup {None}
  PROVE  [n EXCEPT !.first = f] \in NodeType
  BY Zenon DEF NodeType

(* Every attempt starts from records of their types.                       *)
LEMMA FirstTypes ==
  /\ NewNode \in NodeType /\ Each(Idle) \in [Calls -> WorkType]
  /\ Each("off") \in [Calls -> {"off", "running", "stopping", "stopped"}]
  /\ Each(<<>>) \in [Calls -> Seq(EventType)]
  /\ Each(None) \in [Calls -> ResultType \cup {None}]
  /\ NewContext \in [cancelled : BOOLEAN, stopped : BOOLEAN]
<1>1. 1 \in 1 .. NCalls + 1
  BY ToolAssumption DEF ToolAssumption
<1>2. NewNode \in NodeType
  BY <1>1 DEF NewNode, NodeType
<1>3. Idle \in WorkType
  BY WorkWritten DEF Idle, At, Why
<1> QED
  BY <1>2, <1>3 DEF Each, NewContext

-----------------------------------------------------------------------------
(* What a step writes of one call and its ticker.                          *)
Others(k) == Calls \ {k}
Puts(k, at, why) ==
  /\ work' \in [Calls -> WorkType]
  /\ work'[k].at = at /\ work'[k].why = why
  /\ \A i \in Others(k) : work'[i] = work[i]
Keeps(k) == work'[k].late = work[k].late
Marks(k) ==
  /\ work'[k].late => context.stopped
  /\ Done /\ work'[k].why # None => work'[k].late \/ context.cancelled
Says(k, s) ==
  /\ emitted' \in [Calls -> Seq(EventType)]
  /\ emitted'[k] = s
  /\ \A i \in Others(k) : emitted'[i] = emitted[i]
Ticks(k, t) ==
  /\ ticker' \in [Calls -> Places]
  /\ ticker'[k] = t
  /\ \A i \in Others(k) : ticker'[i] = ticker[i]

LEMMA GotoPuts ==
  ASSUME work \in [Calls -> WorkType], NEW k \in Calls, NEW at \in At, Goto(k, at)
  PROVE  Puts(k, at, work[k].why) /\ Keeps(k)
<1> DEFINE w == [work[k] EXCEPT !.at = at]
<1>1. w \in WorkType /\ w.at = at /\ w.why = work[k].why /\ w.late = work[k].late
  BY WorkMoved
<1>2. work' = [work EXCEPT ![k] = w]
  BY Zenon DEF Goto
<1> HIDE DEF w
<1> QED
  BY <1>1, <1>2 DEF Puts, Others, Keeps

LEMMA EndsPuts ==
  ASSUME work \in [Calls -> WorkType], NEW k \in Calls, NEW at \in At, NEW why \in Why,
         Ends(k, at, why)
  PROVE  Puts(k, at, why) /\ Marks(k)
<1>1. PICK late \in BOOLEAN : late = (why # None /\ context.stopped)
  OBVIOUS
<1> DEFINE w == [at |-> at, why |-> why, late |-> late]
<1>2. w \in WorkType /\ w.at = at /\ w.why = why /\ w.late = late
  BY WorkWritten
<1>3. work' = [work EXCEPT ![k] = w]
  BY <1>1 DEF Ends
<1> HIDE DEF w
<1>4. work'[k] = w
  BY <1>3
<1> QED
  BY <1>1, <1>2, <1>3, <1>4 DEF Puts, Others, Marks, Done

LEMMA SaySays ==
  ASSUME emitted \in [Calls -> Seq(EventType)], NEW k \in Calls, NEW e \in EventType, Say(k, e)
  PROVE  Says(k, Append(emitted[k], e))
<1> DEFINE s == Append(emitted[k], e)
<1>1. s \in Seq(EventType)
  OBVIOUS
<1>2. emitted' = [emitted EXCEPT ![k] = s]
  BY DEF Say
<1> HIDE DEF s
<1>3. Says(k, s)
  BY <1>1, <1>2 DEF Says, Others
<1> QED
  BY <1>3 DEF s

LEMMA SilentSays ==
  ASSUME emitted \in [Calls -> Seq(EventType)], NEW k \in Calls, UNCHANGED emitted
  PROVE  Says(k, emitted[k])
  BY DEF Says

LEMMA TickerTicks ==
  ASSUME ticker \in [Calls -> Places], NEW k \in Calls, NEW t \in Places,
         ticker' = [ticker EXCEPT ![k] = t]
  PROVE  Ticks(k, t)
  BY DEF Ticks, Others

(* The events of a call after one more.                                    *)
LEMMA StartedTold ==
  ASSUME NEW s \in Seq(EventType), s = <<>>, NEW r, r = Append(s, "started")
  PROVE  Ordered(r) /\ Open(r)
<1>1. Len(r) = 1 /\ r[1] = "started" /\ DOMAIN r = {1}
  OBVIOUS
<1> QED
  BY <1>1 DEF Ordered, Open, Settled

LEMMA MoreTold ==
  ASSUME NEW s \in Seq(EventType), Ordered(s), Open(s), NEW e \in EventType \ {"started"},
         NEW r, r = Append(s, e)
  PROVE  /\ Ordered(r)
         /\ e \notin Settled => Open(r)
         /\ e = "completed" => Completed(r)
<1>1. /\ Len(r) = Len(s) + 1 /\ DOMAIN r = 1 .. Len(s) + 1 /\ DOMAIN s = 1 .. Len(s)
      /\ r[Len(r)] = e /\ r # <<>> /\ Len(s) \in Nat
      /\ \A i \in DOMAIN s : r[i] = s[i]
  OBVIOUS
<1>2. Len(s) > 0
  BY DEF Open
<1>3. \A i \in DOMAIN r : i \in DOMAIN s \/ (i = Len(r) /\ i # 1)
  BY <1>1, <1>2
<1> HIDE DEF EventType
<1>4. ASSUME NEW i \in DOMAIN r
      PROVE  (r[i] = "started" <=> i = 1) /\ (r[i] \in Settled => i = Len(r))
  <2>1. CASE i \in DOMAIN s
    <3>1. r[i] = s[i] /\ s[i] \notin Settled /\ (s[i] = "started" <=> i = 1)
      BY <1>1, <2>1 DEF Ordered, Open
    <3> QED
      BY <3>1
  <2>2. CASE i = Len(r) /\ i # 1
    BY <1>1, <2>2
  <2> QED
    BY <1>3, <2>1, <2>2
<1>5. e \notin Settled => Open(r)
  BY <1>1, <1>3 DEF Open
<1> QED
  BY <1>1, <1>4, <1>5 DEF Completed, Ordered

LEMMA EmptyTold == Ordered(<<>>)
  BY DEF Ordered

-----------------------------------------------------------------------------
(* What a step of the goroutine of call k, or of its ticker, does: the     *)
(* other calls and the stage of the node function stay as they are.        *)
Turn(k) ==
  /\ UNCHANGED <<spec, kind, response, results>>
  /\ node'.pc = node.pc /\ node'.next = node.next
  /\ node.first # None => node'.first # None
  /\ context.cancelled => context'.cancelled
  /\ context.stopped => context'.stopped
  /\ \A i \in Others(k) :
       work'[i] = work[i] /\ ticker'[i] = ticker[i] /\ emitted'[i] = emitted[i] /\ ran'[i] = ran[i]
  /\ work[k].at \notin {"new", "prepared", "done"}
  /\ work'[k].at \notin {"new", "prepared"}
  /\ work'[k].at \in Pooled => Parallel
  /\ ~Parallel => work'[k].at \in {"start", "executing", "stopping", "result"}
  /\ work'[k].at = "done" => \E j \in DOMAIN outcomes' : outcomes'[j].call = k
  /\ \A j \in DOMAIN outcomes : j \in DOMAIN outcomes' /\ outcomes'[j] = outcomes[j]
  /\ ran'[k] > 0 /\ kind[k] = "approval" => Granted
  /\ Parallel => ran'[k] <= 1 /\ (work'[k].at \in PreRun => ran'[k] = 0)
  /\ Told(work'[k].at, ticker'[k], emitted'[k])
  /\ Caused(k)'

(* A call takes a step only while the node executes or waits.              *)
LEMMA StageOfTurn ==
  ASSUME IInv, NEW k \in Calls, work[k].at \notin {"new", "prepared", "done"}
  PROVE  /\ node.pc \in {"execute", "wait"}
         /\ node.pc = "execute" => ~Parallel /\ k = node.next
         /\ node.pc = "wait" => Parallel
<1>1. node.pc \in {"prepare", "execute", "wait", "drained", "returned"}
  BY NodeFields DEF IInv, TypeOK
<1>2. node.pc # "prepare"
  BY DEF IInv, Stages, Preparing, Before, Untouched
<1>3. node.pc = "execute" => ~Parallel /\ k = node.next
  BY DEF IInv, Stages, Executing, Before, Untouched
<1> QED
  BY <1>1, <1>2, <1>3 DEF IInv, Stages, Waiting, Drained, AtEnd

LEMMA TurnKeeps ==
  ASSUME IInv, NEW k \in Calls, Turn(k),
         TypeOK', Answered', Reported', Pool'
  PROVE  IInv'
<1>1. /\ node.pc \in {"execute", "wait"}
      /\ node.pc = "execute" => ~Parallel /\ k = node.next
      /\ node.pc = "wait" => Parallel
  BY StageOfTurn DEF Turn
<1>2. /\ Parallel' = Parallel
      /\ \A i \in Calls : /\ Has(i)' = Has(i) /\ results'[i] = results[i] /\ Asks(i)' = Asks(i)
                          /\ Refusal(i)' = Refusal(i) /\ Allowed(i)' = Allowed(i)
  BY Zenon DEF Turn, Parallel, Has, Asks, Refusal, Rejected, Allowed
<1>3. Logged'
  BY DEF IInv, Logged, Turn, Others
<1>4. Causes'
  <2> SUFFICES ASSUME NEW i \in Calls, i # k PROVE Caused(i)'
    BY DEF Causes, Turn
  <2>1. Caused(i) /\ i \in Others(k)
    BY DEF IInv, Causes, Others
  <2> QED
    BY <1>2, <2>1 DEF Caused, Turn
<1>5. Modes'
  BY <1>2 DEF IInv, Modes, Turn, Others
<1>6. Ran'
  BY <1>2 DEF IInv, Ran, Turn, Others, Asked, FirstAsked, Granted, Rejected
<1>7. node'.pc = node.pc /\ node'.next = node.next
  BY DEF Turn
<1>8. Stages'
  <2>1. Executing'
    <3> SUFFICES ASSUME node.pc = "execute" PROVE Executing'
      BY <1>7 DEF Executing
    <3>1. /\ ~Parallel /\ k = node.next /\ ~Has(k)
          /\ \A i \in Others(k) : IF i < k THEN Before(i) ELSE Untouched(i)
      BY <1>1 DEF IInv, Stages, Executing, Others
    <3>2. \A i \in Others(k) : Before(i)' = Before(i) /\ Untouched(i)' = Untouched(i)
      BY <1>2 DEF Before, Untouched, Turn, Others
    <3> QED
      BY <1>2, <1>7, <3>1, <3>2 DEF Executing, Turn, Others
  <2>2. Waiting'
    <3> SUFFICES ASSUME node.pc = "wait", NEW i \in Calls
                 PROVE  /\ work'[i].at # "prepared"
                        /\ work'[i].at = "new" => Has(i)'
                        /\ work'[i].at = "done" => \E j \in DOMAIN outcomes' : outcomes'[j].call = i
      BY <1>1, <1>2, <1>7 DEF Waiting
    <3>1. CASE i = k
      BY <3>1 DEF Turn
    <3>2. CASE i \in Others(k)
      BY <3>2, <1>2 DEF IInv, Stages, Waiting, Turn
    <3> QED
      BY <3>1, <3>2 DEF Others
  <2> QED
    BY <1>1, <1>7, <2>1, <2>2 DEF Stages, Preparing, Drained, AtEnd
<1>9. Kept'
  <2> SUFFICES ASSUME NEW i \in Calls, Has(i)
               PROVE  /\ results[i].call = i
                      /\ results[i].why # None => spec.continueOnError
                      /\ results[i].why = None => work'[i].at = "done" /\ work'[i].why = None
                      /\ ~Asks(i)
    BY <1>2 DEF Kept, Turn
  <2> QED
    BY DEF IInv, Kept, Turn, Others
<1>10. Interrupted' /\ OutputComplete' /\ CauseReported'
  BY <1>1, <1>7 DEF Interrupted, OutputComplete, CauseReported
<1> QED
  BY <1>3, <1>4, <1>5, <1>6, <1>8, <1>9, <1>10 DEF IInv

(* A step that takes no place of the semaphore leaves the pool as wide.    *)
LEMMA SamePool ==
  ASSUME IInv, NEW k \in Calls, NEW at, NEW why, Puts(k, at, why), UNCHANGED spec,
         at \in Holding => work[k].at \in Holding
  PROVE  Pool'
<1>1. Holders' \subseteq Holders
  BY DEF Holders, Puts, Others
<1>2. IsFiniteSet(Calls)
  BY FS_Interval, ToolAssumption DEF ToolAssumption, Calls
<1>3. IsFiniteSet(Holders) /\ Cardinality(Holders') <= Cardinality(Holders)
  <2>1. Holders \subseteq Calls
    BY DEF Holders
  <2> QED
    BY <1>1, <1>2, <2>1, FS_Subset
<1>4. Cardinality(Holders) \in Nat /\ Cardinality(Holders') \in Nat
  BY <1>1, <1>3, FS_Subset, FS_CardinalityType
<1>5. spec.width \in Nat
  BY ToolAssumption DEF ToolAssumption, IInv, TypeOK, NodeSpec
<1> QED
  BY <1>3, <1>4, <1>5 DEF IInv, Pool, Parallel

LEMMA SameAnswers ==
  ASSUME IInv, NEW k \in Calls, NEW at, NEW why, Puts(k, at, why), work[k].at # "done",
         UNCHANGED outcomes
  PROVE  Answered'
<1> SUFFICES ASSUME NEW j \in DOMAIN outcomes
             PROVE  /\ work'[outcomes[j].call].at = "done"
                    /\ work'[outcomes[j].call].why = outcomes[j].why
  BY DEF Answered
<1>1. outcomes[j].call \in Calls
  <2>1. outcomes \in Seq(ResultType)
    BY DEF IInv, TypeOK
  <2>2. outcomes[j] \in ResultType
    BY <2>1
  <2> QED
    BY <2>2 DEF ResultType
<1>2. work[outcomes[j].call].at = "done" /\ work[outcomes[j].call].why = outcomes[j].why
  BY DEF IInv, Answered
<1> QED
  BY <1>1, <1>2 DEF Puts, Others

LEMMA SameBlame ==
  ASSUME IInv, NEW k \in Calls, NEW at, NEW why, Puts(k, at, why), UNCHANGED <<spec, node, context>>,
         work[k].at \in {"sending", "answering", "done"} => at = "done" /\ why = work[k].why /\ Keeps(k)
  PROVE  Reported'
<1> SUFFICES ASSUME node.first # None
             PROVE  /\ work'[node.first.call].why = work[node.first.call].why
                    /\ work'[node.first.call].late = work[node.first.call].late
                    /\ work'[node.first.call].at \in {"sending", "answering", "done"}
  BY DEF IInv, Reported, Parallel
<1>1. work[node.first.call].at \in {"sending", "answering", "done"}
  BY DEF IInv, Reported
<1>2. node.first.call \in Calls
  BY NodeFields DEF IInv, TypeOK
<1> QED
  BY <1>1, <1>2 DEF Puts, Others, Keeps

(* A step of a call that leaves the node, the channel and the context.     *)
LEMMA Ordinary ==
  ASSUME IInv, NEW k \in Calls, NEW at \in At, NEW why \in Why, NEW t, NEW s,
         Puts(k, at, why), Says(k, s), Ticks(k, t),
         UNCHANGED <<spec, kind, response, node, outcomes, results, context>>,
         {work[k].at, at} \cap {"new", "prepared", "done", "sending", "answering"} = {},
         ~Parallel => at \in {"start", "executing", "stopping", "result"},
         Told(at, t, s), Caused(k)', Pool',
         ran' \in [Calls -> Nat], \A i \in Others(k) : ran'[i] = ran[i],
         ran'[k] > 0 /\ kind[k] = "approval" => Granted,
         Parallel => ran'[k] <= 1 /\ (at \in PreRun => ran'[k] = 0),
         bounds' \in [ticks : 0 .. MaxTicks, faults : 0 .. MaxFaults]
  PROVE  IInv'
<1>1. TypeOK'
  BY DEF IInv, TypeOK, Puts, Says, Ticks, Places
<1>2. Turn(k)
  BY DEF Turn, Puts, Says, Ticks, Pooled
<1>3. Answered'
  BY SameAnswers
<1>4. Reported'
  BY SameBlame
<1> QED
  BY <1>1, <1>2, <1>3, <1>4, TurnKeeps

(* What every goroutine finds: its call, and the types of what it writes.  *)
LEMMA Found ==
  ASSUME IInv, NEW k \in Calls
  PROVE  /\ work \in [Calls -> WorkType] /\ work[k].at \in At /\ work[k].why \in Why
         /\ emitted \in [Calls -> Seq(EventType)] /\ emitted[k] \in Seq(EventType)
         /\ ticker \in [Calls -> Places] /\ ticker[k] \in Places
         /\ ran \in [Calls -> Nat] /\ ran[k] \in Nat
         /\ Told(work[k].at, ticker[k], emitted[k]) /\ Caused(k)
         /\ None \notin Error
  BY ToolAssumption DEF ToolAssumption, IInv, TypeOK, At, Why, WorkType, Places, Logged, Causes

LEMMA Bounded ==
  ASSUME IInv, Fault \/ UNCHANGED bounds
  PROVE  bounds' \in [ticks : 0 .. MaxTicks, faults : 0 .. MaxFaults]
  BY ToolAssumption DEF ToolAssumption, IInv, TypeOK, Fault

LEMMA StartKeeps ==
  ASSUME IInv, NEW k \in Calls, Start(k)
  PROVE  IInv'
<1>1. work[k].at = "start" /\ UNCHANGED <<spec, kind, response, node, outcomes, results, context>>
  BY DEF Start
<1>2. emitted[k] = <<>> /\ ticker[k] = "off" /\ work[k].why = None /\ ~work[k].late
  BY <1>1, Found DEF Told, Caused, PreRun
<1>3. Allowed(k)
  BY <1>1 DEF IInv, Modes
<1>4. kind[k] = "approval" => Granted
  <2>1. ~Asks(k) /\ Refusal(k) = None
    BY <1>3 DEF Allowed
  <2>2. kind[k] = "approval" => response # None
    BY <2>1 DEF Asks
  <2>3. kind[k] = "approval" /\ Rejected => Refusal(k) = "denied"
    BY DEF Refusal
  <2> QED
    BY <2>1, <2>2, <2>3, Found DEF Error, Granted
<1>5. Parallel => ran[k] = 0
  BY <1>1 DEF IInv, Ran, PreRun
<1>6. PICK s \in {emitted[k], Append(emitted[k], "started")} : Says(k, s)
  BY SaySays, SilentSays, Found DEF Start, EventType
<1>7. Ordered(s) /\ (s = <<>> \/ Open(s))
  <2>1. CASE s = emitted[k]
    BY <1>2, <2>1, EmptyTold
  <2>2. CASE s = Append(emitted[k], "started")
    <3>1. emitted[k] = <<>> /\ emitted[k] \in Seq(EventType)
      BY <1>2, Found
    <3> QED
      BY <2>2, <3>1, StartedTold
  <2> QED
    BY <1>6, <2>1, <2>2
<1>8. bounds' \in [ticks : 0 .. MaxTicks, faults : 0 .. MaxFaults]
  BY Bounded DEF Start
<1>9. CASE Say(k, "started") /\ Goto(k, "executing") /\ ticker' = [ticker EXCEPT ![k] = "running"]
           /\ ran' = [ran EXCEPT ![k] = @ + 1]
  <2>1. Puts(k, "executing", None) /\ Keeps(k)
    BY <1>2, <1>9, GotoPuts, Found DEF At, Holding
  <2>2. Ticks(k, "running")
    BY <1>9, TickerTicks, Found DEF Places
  <2> DEFINE r == Append(emitted[k], "started")
  <2>3. Says(k, r)
    BY <1>9, SaySays, Found DEF EventType
  <2>4. Told("executing", "running", r)
    BY <1>2, StartedTold, Found DEF Told, PreRun, Begun, Closing
  <2> HIDE DEF r
  <2>5. Caused(k)'
    BY <1>1, <1>2, <2>1, Found DEF Caused, Puts, Keeps, Marks, Done, Closing, Error
  <2>6. Pool'
    BY <1>1, <2>1, SamePool DEF Holding
  <2>7. ran' \in [Calls -> Nat] /\ (\A i \in Others(k) : ran'[i] = ran[i]) /\ ran'[k] = ran[k] + 1
    BY <1>9, Found DEF Others
  <2> QED
    BY <1>1, <1>4, <1>5, <1>8, <2>1, <2>2, <2>3, <2>4, <2>5, <2>6, <2>7, Ordinary
       DEF At, Why, Holding, PreRun
<1>10. CASE Result(k, "event") /\ UNCHANGED <<ticker, ran>>
  <2>1. Puts(k, "result", "event") /\ Marks(k)
    BY <1>10, EndsPuts, Found DEF At, Why, Error, Holding, Result
  <2>2. Ticks(k, "off")
    BY <1>2, <1>10, Found DEF Ticks, Others
  <2>3. Told("result", "off", s)
    BY <1>7 DEF Told, PreRun, Begun, Closing
  <2>4. Caused(k)'
    BY <1>1, <2>1, Found DEF Caused, Puts, Keeps, Marks, Done, Closing, Error
  <2>5. Pool'
    BY <1>1, <2>1, SamePool DEF Holding
  <2> QED
    BY <1>1, <1>4, <1>5, <1>6, <1>8, <1>10, <2>1, <2>2, <2>3, <2>4, <2>5, Ordinary, Found
       DEF At, Why, Error, Holding, PreRun, Others
<1> QED
  BY <1>9, <1>10 DEF Start

LEMMA TickKeeps ==
  ASSUME IInv, NEW k \in Calls, Tick(k)
  PROVE  IInv'
<1>1. /\ UNCHANGED <<spec, kind, response, node, work, ticker, outcomes, results, ran, context>>
      /\ ticker[k] \in {"running", "stopping"} /\ Say(k, "progress")
  BY DEF Tick
<1>2. work[k].at \in Begun
  BY <1>1, Found DEF Told, At, Begun, Closing, PreRun, Holding
<1> DEFINE r == Append(emitted[k], "progress")
<1>3. Says(k, r)
  BY <1>1, SaySays, Found DEF EventType
<1>4. Ordered(r) /\ Open(r)
  <2>1. Ordered(emitted[k]) /\ Open(emitted[k])
    BY <1>2, Found DEF Told
  <2>2. "progress" \in EventType \ {"started"} /\ "progress" \notin Settled
    BY DEF Settled, EventType
  <2>3. emitted[k] \in Seq(EventType)
    BY Found
  <2> QED
    BY <2>1, <2>2, <2>3, MoreTold
<1> HIDE DEF r
<1>5. Told(work[k].at, ticker[k], r)
  BY <1>2, <1>4, Found DEF Told, Begun, PreRun, Closing
<1>6. Puts(k, work[k].at, work[k].why) /\ Ticks(k, ticker[k])
  BY <1>1, Found DEF Puts, Ticks
<1>7. Caused(k)'
  BY <1>1, <1>2, Found DEF Caused, Parallel, Begun, Closing
<1>8. Pool'
  BY <1>1, <1>6, SamePool
<1>9. bounds' \in [ticks : 0 .. MaxTicks, faults : 0 .. MaxFaults]
  <2>1. bounds.ticks < MaxTicks /\ bounds' = [bounds EXCEPT !.ticks = @ + 1]
    BY DEF Tick
  <2>2. bounds \in [ticks : 0 .. MaxTicks, faults : 0 .. MaxFaults]
    BY DEF IInv, TypeOK
  <2> QED
    BY <2>1, <2>2, ToolAssumption DEF ToolAssumption
<1>10. /\ ran[k] > 0 /\ kind[k] = "approval" => Granted
       /\ Parallel => ran[k] <= 1 /\ (work[k].at \in PreRun => ran[k] = 0)
  BY DEF IInv, Ran
<1> QED
  BY <1>1, <1>2, <1>3, <1>5, <1>6, <1>7, <1>8, <1>9, <1>10, Ordinary, Found DEF Begun, Others

LEMMA TickerExitKeeps ==
  ASSUME IInv, NEW k \in Calls, TickerExit(k)
  PROVE  IInv'
<1>1. /\ UNCHANGED <<spec, kind, response, node, work, emitted, outcomes, results, ran, context, bounds>>
      /\ ticker[k] \in {"running", "stopping"} /\ ticker' = [ticker EXCEPT ![k] = "stopped"]
  BY DEF TickerExit
<1>2. work[k].at \in Begun
  BY <1>1, Found DEF Told, At, Begun, Closing, PreRun, Holding
<1>3. Puts(k, work[k].at, work[k].why) /\ Says(k, emitted[k])
  BY <1>1, Found DEF Puts, Says
<1>4. Ticks(k, "stopped")
  BY <1>1, TickerTicks, Found DEF Places
<1>5. Told(work[k].at, "stopped", emitted[k])
  BY <1>2, Found DEF Told, Begun, PreRun, Closing
<1>6. Caused(k)'
  BY <1>1, Found DEF Caused, Parallel
<1>7. Pool'
  BY <1>1, <1>3, SamePool
<1>8. /\ ran[k] > 0 /\ kind[k] = "approval" => Granted
      /\ Parallel => ran[k] <= 1 /\ (work[k].at \in PreRun => ran[k] = 0)
  BY DEF IInv, Ran
<1>9. bounds' \in [ticks : 0 .. MaxTicks, faults : 0 .. MaxFaults]
  BY <1>1, Bounded
<1> QED
  BY <1>1, <1>2, <1>3, <1>4, <1>5, <1>6, <1>7, <1>8, <1>9, Ordinary, Found DEF Begun, Others

(* What was executed is not changed by a step that executes nothing.       *)
LEMMA SameRan ==
  ASSUME IInv, NEW k \in Calls, UNCHANGED ran
  PROVE  /\ ran' \in [Calls -> Nat] /\ \A i \in Others(k) : ran'[i] = ran[i]
         /\ ran'[k] > 0 /\ kind[k] = "approval" => Granted
         /\ Parallel => ran'[k] <= 1 /\ (work[k].at \in PreRun => ran'[k] = 0)
  BY DEF IInv, TypeOK, Ran

LEMMA ExecuteKeeps ==
  ASSUME IInv, NEW k \in Calls, NEW why \in Returned, Execute(k, why)
  PROVE  IInv'
<1>1. /\ work[k].at = "executing"
      /\ Ends(k, "stopping", why)
      /\ UNCHANGED <<spec, kind, response, node, emitted, outcomes, results, ran, context, bounds>>
  BY DEF Execute
<1>2. Open(emitted[k]) /\ ticker[k] \in {"running", "stopped"} /\ Ordered(emitted[k])
  BY <1>1, Found DEF Told, Begun
<1>3. PICK t \in {"stopping", "stopped"} : Ticks(k, t)
  <2>1. CASE ticker[k] = "running"
    <3>1. ticker' = [ticker EXCEPT ![k] = "stopping"]
      BY <2>1 DEF Execute
    <3> QED
      BY <3>1, TickerTicks, Found DEF Places
  <2>2. CASE ticker[k] = "stopped"
    <3>1. ticker' = [ticker EXCEPT ![k] = "stopped"]
      BY <2>2 DEF Execute
    <3> QED
      BY <3>1, TickerTicks, Found DEF Places
  <2> QED
    BY <1>2, <2>1, <2>2
<1>4. Puts(k, "stopping", why) /\ Marks(k)
  BY <1>1, EndsPuts, Found DEF At, Why, Returned, Error, Holding
<1>5. Says(k, emitted[k])
  BY <1>1, SilentSays, Found
<1>6. Told("stopping", t, emitted[k])
  BY <1>2 DEF Told, Begun, PreRun, Closing
<1>7. Caused(k)'
  BY <1>1, <1>4, Found DEF Caused, Puts, Keeps, Marks, Done, Closing, Error, Returned
<1>8. Pool'
  BY <1>1, <1>4, SamePool DEF Holding
<1>9. bounds' \in [ticks : 0 .. MaxTicks, faults : 0 .. MaxFaults]
  BY <1>1, Bounded
<1> QED
  BY <1>1, <1>3, <1>4, <1>5, <1>6, <1>7, <1>8, <1>9, SameRan, Ordinary
     DEF At, Why, Error, Holding, PreRun, Returned

LEMMA SettleKeeps ==
  ASSUME IInv, NEW k \in Calls, Settle(k)
  PROVE  IInv'
<1>1. /\ work[k].at = "stopping" /\ ticker[k] = "stopped"
      /\ UNCHANGED <<spec, kind, response, node, ticker, outcomes, results, ran, context>>
  BY DEF Settle, TickerStopped
<1>2. Open(emitted[k]) /\ Ordered(emitted[k]) /\ work[k].why \in {None, "tool", "cancelled"}
  BY <1>1, Found DEF Told, Begun, Caused
<1>3. bounds' \in [ticks : 0 .. MaxTicks, faults : 0 .. MaxFaults]
  BY Bounded DEF Settle
<1>4. Ticks(k, "stopped")
  BY <1>1, Found DEF Ticks
<1>5. ASSUME NEW why \in {None, "tool", "cancelled", "event", "adjuster"}, NEW s, Ordered(s), Says(k, s),
             Puts(k, "result", why), why = None => Completed(s),
             (work[k].why = why /\ Keeps(k)) \/ (why # "cancelled" /\ Marks(k))
      PROVE  IInv'
  <2>1. Told("result", "stopped", s)
    BY <1>5 DEF Told, Begun, PreRun, Closing
  <2>2. Caused(k)'
    BY <1>1, <1>5, Found DEF Caused, Puts, Keeps, Marks, Done, Says, Closing, Error
  <2>3. Pool'
    BY <1>1, <1>5, SamePool DEF Holding
  <2>4. "result" \in At /\ why \in Why
    BY DEF At, Why, Holding, Error
  <2> QED
    BY <1>1, <1>3, <1>4, <1>5, <2>1, <2>2, <2>3, <2>4, SameRan, Ordinary DEF PreRun
<1>6. ASSUME NEW e \in {"failed", "completed"}, Say(k, e) \/ UNCHANGED emitted
      PROVE  \E s : Ordered(s) /\ Says(k, s) /\ (Say(k, e) /\ e = "completed" => Completed(s))
  <2> DEFINE r == Append(emitted[k], e)
  <2>1. e \in EventType \ {"started"} /\ emitted[k] \in Seq(EventType)
    BY Found DEF EventType
  <2>2. Ordered(r) /\ (e = "completed" => Completed(r))
    BY <1>2, <2>1, MoreTold
  <2>3. CASE Say(k, e)
    <3>1. Says(k, r)
      BY <2>1, <2>3, SaySays, Found
    <3> HIDE DEF r
    <3> QED
      BY <2>2, <3>1
  <2>4. CASE UNCHANGED emitted /\ ~Say(k, e)
    BY <1>2, <2>4, SilentSays, Found
  <2> QED
    BY <1>6, <2>3, <2>4
<1>7. \/ Goto(k, "result") /\ work[k].why # None /\ (Say(k, "failed") \/ UNCHANGED emitted)
      \/ Goto(k, "result") /\ work[k].why = None /\ Say(k, "completed")
      \/ Result(k, "event") /\ (Say(k, "completed") \/ UNCHANGED emitted)
      \/ Result(k, "adjuster") /\ UNCHANGED emitted
  BY Zenon DEF Settle
<1>8. "result" \in At /\ {"event", "adjuster"} \subseteq Why
  BY DEF At, Why, Holding, Error
<1>9. Goto(k, "result") => Puts(k, "result", work[k].why) /\ Keeps(k)
  BY <1>8, GotoPuts, Found
<1>10. \A why \in {"event", "adjuster"} : Result(k, why) => Puts(k, "result", why) /\ Marks(k)
  BY <1>8, EndsPuts, Found DEF Result
<1>11. {"event", "adjuster"} \cap {None} = {}
  BY Found DEF Error
<1>12. CASE Goto(k, "result") /\ work[k].why # None /\ (Say(k, "failed") \/ UNCHANGED emitted)
  <2>1. PICK s : Ordered(s) /\ Says(k, s)
    BY <1>6, <1>12
  <2>2. PICK why \in {None, "tool", "cancelled", "event", "adjuster"} : why = work[k].why
    BY <1>2
  <2>3. Puts(k, "result", why) /\ Keeps(k) /\ why # None
    BY <1>9, <1>12, <2>2
  <2> QED
    BY Zenon, <1>5, <2>1, <2>2, <2>3
<1>13. CASE Goto(k, "result") /\ work[k].why = None /\ Say(k, "completed")
  <2>1. PICK s : Ordered(s) /\ Says(k, s) /\ Completed(s)
    BY <1>6, <1>13
  <2>2. Puts(k, "result", None) /\ Keeps(k) /\ work[k].why = None
    BY <1>9, <1>13
  <2> QED
    BY Zenon, <1>5, <2>1, <2>2
<1>14. CASE Result(k, "event") /\ (Say(k, "completed") \/ UNCHANGED emitted)
  BY <1>5, <1>6, <1>10, <1>11, <1>14
<1>15. CASE Result(k, "adjuster") /\ UNCHANGED emitted
  BY <1>5, <1>6, <1>10, <1>11, <1>15
<1> QED
  BY <1>7, <1>12, <1>13, <1>14, <1>15

(* A goroutine takes a place only while one is free.                       *)
LEMMA AcquireKeeps ==
  ASSUME IInv, NEW k \in Calls, Acquire(k)
  PROVE  IInv'
<1>1. /\ work[k].at = "spawned" /\ Cardinality(Holders) < spec.width /\ Goto(k, "acquired")
      /\ UNCHANGED <<spec, kind, response, node, ticker, emitted, outcomes, results, ran, context, bounds>>
  BY DEF Acquire
<1>2. emitted[k] = <<>> /\ ticker[k] = "off" /\ work[k].why = None /\ ~work[k].late
  BY <1>1, Found DEF Told, Caused, PreRun
<1>3. Parallel
  BY <1>1 DEF IInv, Modes, Pooled
<1>4. Puts(k, "acquired", None) /\ Keeps(k)
  BY <1>1, <1>2, GotoPuts, Found DEF At, Holding
<1>5. Says(k, <<>>) /\ Ticks(k, "off")
  BY <1>1, <1>2, Found DEF Says, Ticks
<1>6. Told("acquired", "off", <<>>)
  BY EmptyTold DEF Told, PreRun, Begun, Closing
<1>7. Caused(k)'
  BY <1>1, <1>2, <1>4, Found DEF Caused, Puts, Keeps, Marks, Done, Closing, Error
<1>8. Pool'
  <2>1. Holders' = Holders \cup {k} /\ k \notin Holders /\ Holders \subseteq Calls
    BY <1>1, <1>4 DEF Holders, Puts, Others, Holding
  <2>2. IsFiniteSet(Calls)
    BY FS_Interval, ToolAssumption DEF ToolAssumption, Calls
  <2>3. IsFiniteSet(Holders)
    BY <2>1, <2>2, FS_Subset
  <2>4. Cardinality(Holders') = Cardinality(Holders) + 1 /\ Cardinality(Holders) \in Nat
    BY <2>1, <2>3, FS_AddElement, FS_CardinalityType
  <2>5. spec.width \in Nat
    BY ToolAssumption DEF ToolAssumption, IInv, TypeOK, NodeSpec
  <2> QED
    BY <1>1, <2>4, <2>5 DEF Pool
<1>9. bounds' \in [ticks : 0 .. MaxTicks, faults : 0 .. MaxFaults]
  BY <1>1, Bounded
<1> QED
  BY <1>1, <1>3, <1>4, <1>5, <1>6, <1>7, <1>8, <1>9, SameRan, Ordinary
     DEF At, Why, Holding, PreRun

LEMMA GiveUpKeeps ==
  ASSUME IInv, NEW k \in Calls, GiveUp(k)
  PROVE  IInv'
<1>1. /\ work[k].at = "spawned" /\ Done
      /\ Ends(k, "gaveup", "cancelled")
      /\ UNCHANGED <<spec, kind, response, node, ticker, emitted, outcomes, results, ran, context, bounds>>
  BY DEF GiveUp
<1>2. emitted[k] = <<>> /\ ticker[k] = "off"
  BY <1>1, Found DEF Told, PreRun
<1>3. Parallel
  BY <1>1 DEF IInv, Modes, Pooled
<1>4. Puts(k, "gaveup", "cancelled") /\ Marks(k)
  BY <1>1, EndsPuts, Found DEF At, Why, Error
<1>5. Says(k, <<>>) /\ Ticks(k, "off")
  BY <1>1, <1>2, Found DEF Says, Ticks
<1>6. Told("gaveup", "off", <<>>)
  BY EmptyTold DEF Told, PreRun, Begun, Closing
<1>8. Caused(k)'
  BY <1>1, <1>4, Found DEF Caused, Puts, Keeps, Marks, Done, Closing, Error, Parallel
<1>9. Pool'
  BY <1>1, <1>4, SamePool DEF Holding
<1>10. bounds' \in [ticks : 0 .. MaxTicks, faults : 0 .. MaxFaults]
  BY <1>1, Bounded
<1> QED
  BY <1>1, <1>3, <1>4, <1>5, <1>6, <1>8, <1>9, <1>10, SameRan, Ordinary
     DEF At, Why, Error, Holding, PreRun

LEMMA CheckKeeps ==
  ASSUME IInv, NEW k \in Calls, Check(k)
  PROVE  IInv'
<1>1. /\ work[k].at = "acquired"
      /\ UNCHANGED <<spec, kind, response, node, ticker, emitted, outcomes, results, ran, context, bounds>>
  BY DEF Check
<1>2. emitted[k] = <<>> /\ ticker[k] = "off" /\ work[k].why = None /\ ~work[k].late
  BY <1>1, Found DEF Told, Caused, PreRun
<1>3. Parallel
  BY <1>1 DEF IInv, Modes, Pooled
<1>4. Says(k, <<>>) /\ Ticks(k, "off")
  BY <1>1, <1>2, Found DEF Says, Ticks
<1>5. bounds' \in [ticks : 0 .. MaxTicks, faults : 0 .. MaxFaults]
  BY <1>1, Bounded
<1>6. CASE Done /\ Result(k, "cancelled")
  <2>1. Puts(k, "result", "cancelled") /\ Marks(k)
    BY <1>6, EndsPuts, Found DEF At, Why, Error, Holding, Result
  <2>2. Told("result", "off", <<>>)
    BY EmptyTold DEF Told, PreRun, Begun, Closing
  <2>4. Caused(k)'
    BY <1>1, <1>6, <2>1, Found DEF Caused, Puts, Keeps, Marks, Done, Closing, Error, Parallel
  <2>5. Pool'
    BY <1>1, <2>1, SamePool DEF Holding
  <2> QED
    BY <1>1, <1>3, <1>4, <1>5, <2>1, <2>2, <2>4, <2>5, SameRan, Ordinary
       DEF At, Why, Error, Holding, PreRun
<1>7. CASE Goto(k, "start")
  <2>1. Puts(k, "start", None) /\ Keeps(k)
    BY <1>2, <1>7, GotoPuts, Found DEF At, Holding
  <2>2. Told("start", "off", <<>>)
    BY EmptyTold DEF Told, PreRun, Begun, Closing
  <2>3. Caused(k)'
    BY <1>1, <2>1, Found DEF Caused, Puts, Keeps, Marks, Done, Closing, Error
  <2>4. Pool'
    BY <1>1, <2>1, SamePool DEF Holding
  <2> QED
    BY <1>1, <1>3, <1>4, <1>5, <2>1, <2>2, <2>3, <2>4, SameRan, Ordinary
       DEF At, Why, Holding, PreRun
<1> QED
  BY <1>6, <1>7 DEF Check

(* The first error of the pool is kept, and is not the echo of itself.     *)
LEMMA ReportKeeps ==
  ASSUME IInv, NEW k \in Calls, Report(k)
  PROVE  IInv'
<1> DEFINE at == IF work[k].at = "gaveup" THEN "answering" ELSE "sending"
<1>1. /\ Parallel /\ work[k].at \in {"result", "gaveup"} /\ Goto(k, at)
      /\ node' = [node EXCEPT !.first = KeepFirst(k)]
      /\ context' = [context EXCEPT !.stopped = @ \/ (work[k].why # None /\ ~spec.continueOnError)]
      /\ UNCHANGED <<spec, kind, response, ticker, emitted, outcomes, results, ran, bounds>>
  BY DEF Report
<1>2. Puts(k, at, work[k].why) /\ Keeps(k)
  BY <1>1, GotoPuts, Found DEF At, Holding
<1>3. node \in NodeType /\ context \in [cancelled : BOOLEAN, stopped : BOOLEAN]
  BY DEF IInv, TypeOK
<1>4. work[k].why # None => FirstOf(k) \in [call : Calls, why : Error] /\ FirstOf(k) # None
  <2> SUFFICES ASSUME work[k].why # None
               PROVE  FirstOf(k) \in [call : Calls, why : Error] /\ FirstOf(k) # None
    OBVIOUS
  <2>1. work[k].why \in Error
    BY Found DEF Why
  <2>2. FirstOf(k) \in [call : Calls, why : Error] /\ FirstOf(k) \in ResultType
    BY <2>1 DEF FirstOf, ResultType
  <2> QED
    BY <2>2, ToolAssumption DEF ToolAssumption
<1>5. node' \in NodeType /\ node'.pc = node.pc /\ node'.next = node.next /\ node'.first = KeepFirst(k)
  <2>1. KeepFirst(k) \in [call : Calls, why : Error] \cup {None}
    BY <1>3, <1>4, NodeFields DEF KeepFirst
  <2>2. node' \in NodeType
    BY <1>1, <1>3, <2>1, NodeFirst
  <2> QED
    BY <1>1, <1>3, <2>2 DEF NodeType
<1>6. /\ context' \in [cancelled : BOOLEAN, stopped : BOOLEAN] /\ context'.cancelled = context.cancelled
      /\ context'.stopped = (context.stopped \/ (work[k].why # None /\ ~spec.continueOnError))
  BY <1>1, <1>3
<1>7. node.first # None => node'.first = node.first
  BY <1>5 DEF KeepFirst
<1>8. work[k].why # None => node'.first # None
  BY <1>4, <1>5 DEF KeepFirst
<1>9. TypeOK'
  BY <1>1, <1>2, <1>5, <1>6 DEF IInv, TypeOK, Puts
<1>10. Told(at, ticker[k], emitted[k])
  BY <1>1, Found DEF Told, PreRun, Begun, Closing
<1>11. /\ work[k].at = "gaveup" => work[k].why = "cancelled"
       /\ work[k].at = "result" /\ work[k].why = None => Completed(emitted[k])
       /\ work[k].late => context.stopped
  BY Found DEF Caused, Closing
<1>12. Caused(k)'
  BY <1>1, <1>2, <1>6, <1>7, <1>8, <1>11, Found DEF Caused, Puts, Keeps, Marks, Done, Closing, Error, Parallel
<1>13. Turn(k)
  BY <1>1, <1>2, <1>5, <1>6, <1>7, <1>10, <1>12, SameRan, Found DEF Turn, Puts, Pooled, PreRun
<1>14. Answered'
  BY <1>1, <1>2, SameAnswers
<1>15. Reported'
  <2>1. context'.stopped => node'.first # None
    BY <1>6, <1>7, <1>8 DEF IInv, Reported
  <2>2. CASE node.first # None
    <3>1. node.first.call \in Calls
      BY <1>3, <2>2, NodeFields
    <3>2. /\ work[node.first.call].at \in {"sending", "answering", "done"}
          /\ node.first.why = work[node.first.call].why /\ node.first.why # None
          /\ ~work[node.first.call].late
      BY <2>2 DEF IInv, Reported
    <3>3. node.first.call # k
      BY <1>1, <3>2
    <3> QED
      BY <1>1, <1>2, <1>6, <1>7, <2>1, <2>2, <3>1, <3>2, <3>3 DEF Reported, Puts, Others, Parallel
  <2>3. CASE node.first = None /\ work[k].why # None
    <3>1. node'.first.call = k /\ node'.first.why = work[k].why
      BY <1>5, <2>3 DEF KeepFirst, FirstOf
    <3> QED
      <4>1. ~work[k].late
        BY <1>11, <2>3 DEF IInv, Reported
      <4> QED
        BY <1>1, <1>2, <2>1, <2>3, <3>1, <4>1 DEF Reported, Puts, Keeps, Parallel
  <2>4. CASE node.first = None /\ work[k].why = None
    BY <1>5, <2>1, <2>4 DEF Reported, KeepFirst
  <2> QED
    BY <2>2, <2>3, <2>4
<1>16. Pool'
  BY <1>1, <1>2, SamePool DEF Holding
<1> QED
  BY <1>9, <1>13, <1>14, <1>15, <1>16, TurnKeeps

LEMMA SendKeeps ==
  ASSUME IInv, NEW k \in Calls, Send(k)
  PROVE  IInv'
<1> DEFINE r == ResultOf(k, work[k].why)
<1>1. /\ work[k].at \in {"sending", "answering"} /\ outcomes' = Append(outcomes, r) /\ Goto(k, "done")
      /\ UNCHANGED <<spec, kind, response, node, ticker, emitted, results, ran, context, bounds>>
  BY DEF Send
<1>2. Puts(k, "done", work[k].why) /\ Keeps(k)
  BY <1>1, GotoPuts, Found DEF At
<1>3. Parallel
  BY <1>1 DEF IInv, Modes, Pooled
<1>4. r \in ResultType /\ r.call = k /\ r.why = work[k].why
  BY Found DEF ResultOf, ResultType, Why
<1> HIDE DEF r
<1>5. outcomes \in Seq(ResultType)
  BY DEF IInv, TypeOK
<1>6. /\ outcomes' \in Seq(ResultType) /\ DOMAIN outcomes' = 1 .. Len(outcomes) + 1
      /\ DOMAIN outcomes = 1 .. Len(outcomes) /\ Len(outcomes) \in Nat
      /\ outcomes'[Len(outcomes) + 1] = r
      /\ \A j \in DOMAIN outcomes : outcomes'[j] = outcomes[j]
  BY <1>1, <1>4, <1>5
<1>7. /\ \A j \in DOMAIN outcomes : j \in DOMAIN outcomes'
      /\ \A j \in DOMAIN outcomes' : j \in DOMAIN outcomes \/ outcomes'[j] = r
      /\ \E j \in DOMAIN outcomes' : outcomes'[j].call = k
  BY <1>4, <1>6
<1>8. TypeOK'
  BY <1>1, <1>2, <1>6 DEF IInv, TypeOK, Puts
<1>9. Told("done", ticker[k], emitted[k])
  BY <1>1, Found DEF Told, PreRun, Begun, Closing
<1>10. Caused(k)'
  BY <1>1, <1>2, Found DEF Caused, Puts, Keeps, Marks, Done, Closing, Error, Parallel
<1>11. Turn(k)
  BY <1>1, <1>2, <1>3, <1>6, <1>7, <1>9, <1>10, SameRan, Found DEF Turn, Puts, Pooled, PreRun
<1>12. Answered'
  <2> SUFFICES ASSUME NEW j \in DOMAIN outcomes'
               PROVE  /\ work'[outcomes'[j].call].at = "done"
                      /\ work'[outcomes'[j].call].why = outcomes'[j].why
    BY DEF Answered
  <2>1. CASE outcomes'[j] = r
    BY <1>2, <1>4, <2>1 DEF Puts
  <2>2. CASE j \in DOMAIN outcomes
    <3>1. outcomes[j] \in ResultType /\ outcomes'[j] = outcomes[j]
      BY <1>5, <1>6, <2>2
    <3>2. work[outcomes[j].call].at = "done" /\ work[outcomes[j].call].why = outcomes[j].why
      BY <2>2 DEF IInv, Answered
    <3> QED
      BY <1>1, <1>2, <3>1, <3>2 DEF Puts, Others, ResultType
  <2> QED
    BY <1>7, <2>1, <2>2
<1>13. Reported'
  BY <1>1, <1>2, SameBlame
<1>14. Pool'
  BY <1>1, <1>2, SamePool DEF Holding
<1> QED
  BY <1>8, <1>11, <1>12, <1>13, <1>14, TurnKeeps

-----------------------------------------------------------------------------
(* The steps of the node function.  What is true of the calls whatever its *)
(* stage is kept apart from the stages.                                    *)
CallsInv == Logged /\ Causes /\ Modes /\ Reported /\ Ran /\ Answered /\ Pool

LEMMA CallsSame ==
  ASSUME IInv, UNCHANGED <<spec, kind, response, work, ticker, emitted, outcomes, ran, context>>,
         node'.first = node.first
  PROVE  CallsInv'
<1>1. Logged' /\ Answered' /\ Reported'
  BY DEF IInv, Logged, Answered, Reported, Parallel
<1>2. Causes' /\ Modes' /\ Ran'
  BY DEF IInv, Causes, Caused, Modes, Allowed, Asks, Refusal, Rejected, Ran, Parallel,
         Asked, FirstAsked, Granted
<1>3. Pool'
  BY DEF IInv, Pool, Parallel, Holders
<1> QED
  BY <1>1, <1>2, <1>3 DEF CallsInv

(* The node function moves one call on, before or after its execution.     *)
LEMMA CallsMoved ==
  ASSUME IInv, NEW k \in Calls, NEW at, Puts(k, at, work[k].why), Keeps(k),
         UNCHANGED <<spec, kind, response, ticker, emitted, outcomes, ran, context>>,
         node'.first = node.first,
         \/ work[k].at = "new" /\ at = "prepared" /\ Parallel /\ Allowed(k)
         \/ work[k].at = "new" /\ at = "start" /\ ~Parallel /\ Allowed(k)
         \/ work[k].at = "result" /\ at = "done" /\ ~Parallel
  PROVE  CallsInv'
<1>1. Logged'
  <2>1. Told(at, ticker[k], emitted[k])
    BY Found DEF Told, PreRun, Begun, Closing
  <2> QED
    BY <2>1 DEF IInv, Logged, Puts, Others
<1>2. Answered'
  BY SameAnswers
<1>3. Reported'
  <2> SUFFICES ASSUME node.first # None, Parallel PROVE Reported'
    BY DEF IInv, Reported, Parallel
  <2>1. /\ work[node.first.call].at \in {"sending", "answering", "done"}
        /\ node.first.why = work[node.first.call].why /\ node.first.why # None
        /\ ~work[node.first.call].late
    BY DEF IInv, Reported
  <2>2. node.first.call \in Others(k)
    BY <2>1, NodeFields DEF IInv, TypeOK, Others
  <2> QED
    BY <2>1, <2>2 DEF Reported, Puts, Parallel
<1>4. Causes'
  <2>1. Caused(k)'
    BY Found DEF Caused, Puts, Keeps, Marks, Done, Closing, Error, Parallel
  <2>2. ASSUME NEW i \in Others(k) PROVE Caused(i)'
    <3>1. Caused(i)
      BY DEF IInv, Causes, Others
    <3> QED
      BY <3>1, <2>2 DEF Caused, Puts, Keeps, Marks, Done, Parallel
  <2> QED
    BY <2>1, <2>2 DEF Causes, Others
<1>5. \A i \in Calls : Allowed(i)' = Allowed(i)
  BY DEF Allowed, Asks, Refusal, Rejected
<1>6. Modes'
  BY <1>5 DEF IInv, Modes, Puts, Others, Pooled, Parallel
<1>7. Ran'
  BY DEF IInv, Ran, Puts, Others, PreRun, Parallel, Asked, FirstAsked, Granted, Rejected
<1>8. Pool'
  <2> SUFFICES ASSUME Parallel PROVE Pool'
    BY DEF Pool, Parallel
  <2> QED
    BY SamePool DEF Holding
<1> QED
  BY <1>1, <1>2, <1>3, <1>4, <1>6, <1>7, <1>8 DEF CallsInv

(* What the node function returns with.                                    *)
Delivered(o) ==
  o.kind = "output" =>
    /\ Len(o.results) = NCalls
    /\ \A k \in Calls :
         /\ o.results[k].call = k
         /\ o.results[k].why # None => spec.continueOnError
         /\ o.results[k].why = None => Completed(emitted[k])
Explained(o) ==
  o.kind \in {"error", "handler"} =>
    /\ ~work[o.call].late
    /\ o.why = "cancelled" => context.cancelled
    /\ o.why = (IF work[o.call].why # None THEN work[o.call].why ELSE Refusal(o.call))
Asking(o) ==
  o.kind = "interrupt" =>
    /\ response = None /\ o.call \in Calls /\ FirstAsked(o.call)
    /\ Parallel => \A k \in Calls : work[k].at \in {"new", "prepared"}

LEMMA ReturnKeeps ==
  ASSUME IInv, NEW o \in OutcomeType, Return(o), work' \in [Calls -> WorkType],
         UNCHANGED <<spec, kind, response, ticker, emitted, outcomes, results, ran, context, bounds>>,
         CallsInv', Kept', \A k \in Calls : work'[k].at \in {"new", "prepared", "done"},
         Delivered(o)', Explained(o)', Asking(o)'
  PROVE  IInv'
<1>1. node \in NodeType
  BY DEF IInv, TypeOK
<1>2. node' = [node EXCEPT !.pc = "returned", !.outcome = o]
  BY DEF Return
<1>3. node' \in NodeType
  BY <1>1, <1>2, NodeReturned
<1>4. node'.pc = "returned" /\ node'.outcome = o
  BY <1>1, <1>2 DEF NodeType
<1>5. TypeOK'
  BY <1>3 DEF IInv, TypeOK
<1>6. Stages'
  BY <1>4 DEF Stages, Preparing, Executing, Waiting, Drained, AtEnd
<1>7. OutputComplete'
  BY <1>4 DEF OutputComplete, Delivered, Completed, Last
<1>8. CauseReported' /\ Interrupted'
  BY <1>4 DEF CauseReported, Explained, Interrupted, Asking
<1> QED
  BY <1>5, <1>6, <1>7, <1>8 DEF IInv, CallsInv

LEMMA FailureKeeps ==
  ASSUME IInv, NEW k \in Calls, NEW why \in Error, NEW what \in {"error", "handler"},
         Return(Failed(what, k, why)), work' \in [Calls -> WorkType],
         UNCHANGED <<spec, kind, response, ticker, emitted, outcomes, results, ran, context, bounds>>,
         CallsInv', Kept', \A i \in Calls : work'[i].at \in {"new", "prepared", "done"},
         ~work'[k].late, why = "cancelled" => context.cancelled,
         why = IF work'[k].why # None THEN work'[k].why ELSE Refusal(k)
  PROVE  IInv'
<1> DEFINE o == Failed(what, k, why)
<1>1. o \in OutcomeType
  BY DEF Failed, OutcomeType, Error
<1>2. o.kind = what /\ o.call = k /\ o.why = why
  BY DEF Failed
<1> HIDE DEF o
<1>3. Refusal(k)' = Refusal(k)
  BY DEF Refusal, Rejected
<1>4. Delivered(o)' /\ Asking(o)'
  BY <1>2 DEF Delivered, Asking
<1>5. Explained(o)'
  BY <1>2, <1>3 DEF Explained
<1>6. Return(o)
  BY DEF o
<1> QED
  BY <1>1, <1>4, <1>5, <1>6, ReturnKeeps

LEMMA Handled ==
  ASSUME NEW k, NEW why, HandleToolError(k, why)
  PROVE  \E what \in {"error", "handler"} : Return(Failed(what, k, why))
  BY DEF HandleToolError

(* The next position is filled, and the node function goes on behind it.   *)
LEMMA SkippedKeeps ==
  ASSUME IInv, NEW k \in Calls, k = node.next, NEW why \in Why, Skip(k, why),
         UNCHANGED <<spec, kind, response, ticker, emitted, outcomes, ran, context, bounds>>,
         work' \in [Calls -> WorkType], CallsInv',
         \A i \in Others(k) : /\ work'[i] = work[i]
                            /\ IF i < k THEN Before(i) ELSE Untouched(i),
         work'[k].at = "new" \/ (~Parallel /\ work'[k].at = "done"),
         why # None => spec.continueOnError, ~Asks(k),
         why = None => work'[k].at = "done" /\ work'[k].why = None
  PROVE  IInv'
<1> DEFINE r == ResultOf(k, why)
<1>1. r \in ResultType /\ r.call = k /\ r.why = why /\ r # None
  BY ToolAssumption DEF ToolAssumption, ResultOf, ResultType, Why
<1>2. results' = [results EXCEPT ![k] = r] /\ node' = [node EXCEPT !.pc = "prepare", !.next = k + 1]
  BY DEF Skip
<1> HIDE DEF r
<1>3. node \in NodeType /\ results \in [Calls -> ResultType \cup {None}]
  BY DEF IInv, TypeOK
<1>4. /\ results' \in [Calls -> ResultType \cup {None}] /\ results'[k] = r
      /\ \A i \in Others(k) : results'[i] = results[i]
  BY <1>1, <1>2, <1>3 DEF Others
<1>5. NCalls \in Nat /\ k \in Int /\ k + 1 \in 1 .. NCalls + 1 /\ Calls \subseteq Int
  BY ToolAssumption DEF ToolAssumption, Calls
<1>6. node' \in NodeType
  BY <1>2, <1>3, <1>5, NodeNext
<1>7. node'.pc = "prepare" /\ node'.next = k + 1
  BY <1>2, <1>3 DEF NodeType
<1>8. TypeOK'
  BY <1>4, <1>6 DEF IInv, TypeOK
<1>9. Preparing'
  <2> SUFFICES ASSUME NEW i \in Calls PROVE IF i < k + 1 THEN Before(i)' ELSE Untouched(i)'
    BY <1>7 DEF Preparing
  <2>1. CASE i = k
    <3>1. Has(k)'
      BY <1>1, <1>4 DEF Has
    <3> QED
      BY <1>5, <2>1, <3>1 DEF Before, Parallel
  <2>2. CASE i # k
    <3>1. i \in Others(k) /\ i \in Int
      BY <1>5, <2>2 DEF Others
    <3>2. Has(i)' = Has(i) /\ Before(i)' = Before(i) /\ Untouched(i)' = Untouched(i)
      BY <1>4, <3>1 DEF Has, Before, Untouched, Parallel
    <3> QED
      BY <1>5, <2>2, <3>1, <3>2
  <2> QED
    BY <2>1, <2>2
<1>10. Stages'
  BY <1>7, <1>9 DEF Stages, Executing, Waiting, Drained, AtEnd
<1>11. Kept'
  <2> SUFFICES ASSUME NEW i \in Calls, Has(i)'
               PROVE  /\ results'[i].call = i
                      /\ results'[i].why # None => spec.continueOnError
                      /\ results'[i].why = None => work'[i].at = "done" /\ work'[i].why = None
                      /\ ~Asks(i)
    BY DEF Kept, Asks
  <2>1. CASE i = k
    BY <1>1, <1>4, <2>1
  <2>2. CASE i \in Others(k)
    BY <1>4, <2>2 DEF IInv, Kept, Has, Others
  <2> QED
    BY <2>1, <2>2 DEF Others
<1>12. OutputComplete' /\ CauseReported' /\ Interrupted'
  BY <1>7 DEF OutputComplete, CauseReported, Interrupted
<1> QED
  BY <1>8, <1>10, <1>11, <1>12 DEF IInv, CallsInv

LEMMA Refusals ==
  ASSUME NEW k \in Calls, Refusal(k) # None
  PROVE  Refusal(k) \in Error /\ Refusal(k) # "cancelled"
  BY DEF Refusal, Rejected, Error

(* What the node function finds when it prepares its next call.            *)
LEMMA NextCall ==
  ASSUME IInv, node.pc = "prepare", node.next <= NCalls
  PROVE  /\ node.next \in Calls
         /\ work[node.next].at = "new" /\ work[node.next].why = None /\ ~work[node.next].late
         /\ \A i \in Others(node.next) : IF i < node.next THEN Before(i) ELSE Untouched(i)
         /\ \A i \in Calls : work[i].at \in {"new", "prepared", "done"}
         /\ Parallel => \A i \in Calls : work[i].at \in {"new", "prepared"}
<1>1. node.next \in Calls
  BY NodeFields, ToolAssumption DEF ToolAssumption, IInv, TypeOK, Calls
<1>2. \A i \in Calls : IF i < node.next THEN Before(i) ELSE Untouched(i)
  BY DEF IInv, Stages, Preparing
<1>3. Untouched(node.next)
  BY <1>1, <1>2 DEF Calls
<1>4. work[node.next].at = "new" /\ work[node.next].why = None /\ ~work[node.next].late
  BY <1>1, <1>3, Found DEF Untouched, Caused
<1>5. \A i \in Calls : work[i].at \in {"new", "prepared", "done"}
                      /\ (Parallel => work[i].at \in {"new", "prepared"})
  BY <1>2 DEF Before, Untouched
<1> QED
  BY <1>1, <1>2, <1>4, <1>5 DEF Others

LEMMA SameKept ==
  ASSUME IInv, NEW k \in Calls, NEW at, Puts(k, at, work[k].why),
         UNCHANGED <<spec, kind, response, results>>, work[k].at = "done" => at = "done"
  PROVE  Kept'
  BY DEF IInv, Kept, Has, Puts, Others, Asks

(* The three outcomes of a preparation both modes share: the interrupt,    *)
(* the refusal that is skipped and the one that ends the node.             *)
LEMMA InterruptKeeps ==
  ASSUME IInv, node.pc = "prepare", node.next <= NCalls, Asks(node.next), Interrupt(node.next),
         UNCHANGED <<spec, kind, response, work, ticker, emitted, outcomes, results, ran, context, bounds>>
  PROVE  IInv'
<1>1. PICK k \in Calls : k = node.next
  BY NextCall
<1>2. PICK o \in OutcomeType : o.kind = "interrupt" /\ o.call = k /\ Return(o)
  <2> DEFINE asking == [Ended("interrupt") EXCEPT !.call = k]
  <2>1. asking \in OutcomeType /\ asking.kind = "interrupt" /\ asking.call = k
    <3>1. asking = [kind |-> "interrupt", call |-> k, why |-> None, results |-> <<>>]
      BY DEF Ended
    <3> HIDE DEF asking
    <3> QED
      BY <3>1 DEF OutcomeType
  <2>2. Return(asking)
    BY <1>1 DEF Interrupt
  <2> HIDE DEF asking
  <2> QED
    BY <2>1, <2>2
<1>3. work' \in [Calls -> WorkType]
  BY DEF IInv, TypeOK
<1>4. CallsInv' /\ Kept'
  <2>1. node'.first = node.first
    BY <1>2 DEF Return, IInv, TypeOK, NodeType
  <2> QED
    BY <2>1, CallsSame DEF IInv, Kept, Has, Asks
<1>5. Delivered(o)' /\ Explained(o)'
  BY <1>2 DEF Delivered, Explained
<1>6. Asking(o)'
  <2>1. /\ kind[k] = "approval" /\ response = None
        /\ Parallel => \A i \in Calls : work[i].at \in {"new", "prepared"}
    BY <1>1, NextCall DEF Asks
  <2>2. ASSUME NEW i \in Calls, kind[i] = "approval" PROVE k <= i
    <3>1. Asks(i)
      BY <2>1, <2>2 DEF Asks
    <3>2. ~Has(i) /\ work[i].at = "new"
      BY <3>1 DEF IInv, Kept, Modes, Allowed
    <3>3. ~(i < node.next)
      BY <3>2 DEF IInv, Stages, Preparing, Before
    <3> QED
      BY <1>1, <3>3, ToolAssumption DEF ToolAssumption, Calls
  <2>3. FirstAsked(k)'
    BY <2>1, <2>2 DEF FirstAsked
  <2> QED
    BY <1>2, <2>1, <2>3 DEF Asking, Parallel
<1>7. \A i \in Calls : work'[i].at \in {"new", "prepared", "done"}
  BY NextCall
<1> QED
  BY <1>2, <1>3, <1>4, <1>5, <1>6, <1>7, ReturnKeeps

LEMMA RefusedKeeps ==
  ASSUME IInv, node.pc = "prepare", node.next <= NCalls, Refusal(node.next) # None,
         UNCHANGED <<spec, kind, response, work, ticker, emitted, outcomes, ran, context, bounds>>,
         \/ spec.continueOnError /\ Skip(node.next, Refusal(node.next))
         \/ UNCHANGED results /\ \E what \in {"error", "handler"} :
                                  Return(Failed(what, node.next, Refusal(node.next)))
  PROVE  IInv'
<1> DEFINE k == node.next
<1>1. /\ k \in Calls /\ work[k].at = "new" /\ work[k].why = None /\ ~work[k].late
      /\ \A i \in Others(k) : IF i < k THEN Before(i) ELSE Untouched(i)
      /\ \A i \in Calls : work[i].at \in {"new", "prepared", "done"}
  BY NextCall
<1>2. work' \in [Calls -> WorkType]
  BY DEF IInv, TypeOK
<1> HIDE DEF k
<1>3. Refusal(k) \in Error /\ Refusal(k) # "cancelled" /\ Refusal(k) # None /\ ~Asks(k)
  <2>1. Refusal(k) # None
    BY DEF k
  <2>2. Asks(k) => Refusal(k) = None
    BY DEF Asks, Refusal, Rejected
  <2> QED
    BY <1>1, <2>1, <2>2, Refusals
<1>4. node'.first = node.first
  BY DEF Skip, Return, IInv, TypeOK, NodeType
<1>5. CallsInv'
  BY <1>4, CallsSame
<1>6. CASE spec.continueOnError /\ Skip(k, Refusal(k))
  BY <1>1, <1>2, <1>3, <1>5, <1>6, SkippedKeeps DEF k, Why, Others
<1>7. ASSUME NEW what \in {"error", "handler"}, UNCHANGED results, Return(Failed(what, k, Refusal(k)))
      PROVE  IInv'
  <2>1. Kept'
    BY <1>7 DEF IInv, Kept, Has, Asks
  <2> QED
    BY <1>1, <1>2, <1>3, <1>5, <1>7, <2>1, FailureKeeps
<1> QED
  BY <1>6, <1>7 DEF k

(* The call may run: it is prepared, or started in sequential mode.        *)
LEMMA PreparedKeeps ==
  ASSUME IInv, node.pc = "prepare", node.next <= NCalls, Allowed(node.next),
         UNCHANGED <<spec, kind, response, ticker, emitted, outcomes, results, ran, context, bounds>>,
         \/ /\ Parallel /\ work' = [work EXCEPT ![node.next].at = "prepared"]
            /\ node' = [node EXCEPT !.next = node.next + 1]
         \/ /\ ~Parallel /\ work' = [work EXCEPT ![node.next].at = "start"]
            /\ node' = [node EXCEPT !.pc = "execute"]
  PROVE  IInv'
<1> DEFINE k == node.next
<1>1. /\ k \in Calls /\ work[k].at = "new" /\ work[k].why = None
      /\ \A i \in Others(k) : IF i < k THEN Before(i) ELSE Untouched(i)
      /\ ~Has(k)
  <2>1. Untouched(node.next)
    BY NextCall DEF IInv, Stages, Preparing, Calls
  <2> QED
    BY <2>1, NextCall DEF Untouched
<1>2. node \in NodeType /\ work \in [Calls -> WorkType]
  BY DEF IInv, TypeOK
<1>3. NCalls \in Nat /\ k \in Int /\ k + 1 \in 1 .. NCalls + 1 /\ Calls \subseteq Int
  BY <1>1, ToolAssumption DEF ToolAssumption, Calls
<1>4. /\ Allowed(k) /\ node.pc = "prepare" /\ node.next = k
      /\ \/ /\ Parallel /\ Goto(k, "prepared") /\ node' = [node EXCEPT !.next = k + 1]
         \/ /\ ~Parallel /\ Goto(k, "start") /\ node' = [node EXCEPT !.pc = "execute"]
  BY DEF Goto
<1> HIDE DEF k
<1>5. ASSUME NEW at \in {"prepared", "start"}, Puts(k, at, work[k].why), Keeps(k), at = "prepared" <=> Parallel,
             node' \in NodeType, node'.first = node.first, Stages', node'.pc # "returned"
      PROVE  IInv'
  <2>1. CallsInv'
    BY <1>1, <1>4, <1>5, CallsMoved
  <2>2. Kept'
    BY <1>1, <1>5, SameKept
  <2>3. TypeOK'
    BY <1>5 DEF IInv, TypeOK, Puts
  <2>4. OutputComplete' /\ CauseReported' /\ Interrupted'
    BY <1>5 DEF OutputComplete, CauseReported, Interrupted
  <2> QED
    BY <1>5, <2>1, <2>2, <2>3, <2>4 DEF IInv, CallsInv
<1>6. \A i \in Calls : Has(i)' = Has(i)
  BY DEF Has
<1>7. CASE Parallel /\ Goto(k, "prepared") /\ node' = [node EXCEPT !.next = k + 1]
  <2>1. Puts(k, "prepared", work[k].why) /\ Keeps(k)
    BY <1>1, <1>2, <1>7, GotoPuts DEF At
  <2>2. node' \in NodeType
    BY <1>2, <1>3, <1>7, NodeNext
  <2>3. node'.pc = "prepare" /\ node'.next = k + 1 /\ node'.first = node.first
    BY <1>2, <1>4, <1>7 DEF NodeType
  <2>4. Preparing'
    <3> SUFFICES ASSUME NEW i \in Calls PROVE IF i < k + 1 THEN Before(i)' ELSE Untouched(i)'
      BY <2>3 DEF Preparing
    <3>1. CASE i = k
      <4>1. Before(i)' /\ i < k + 1
        BY <1>3, <1>7, <2>1, <3>1 DEF Before, Puts, Parallel
      <4> QED
        BY <4>1
    <3>2. CASE i # k
      <4>1. i \in Others(k) /\ i \in Int
        BY <1>3, <3>2 DEF Others
      <4>2. Before(i)' = Before(i) /\ Untouched(i)' = Untouched(i)
        BY <1>6, <2>1, <4>1 DEF Before, Untouched, Puts, Parallel
      <4> QED
        BY <1>1, <1>3, <3>2, <4>1, <4>2
    <3> QED
      BY <3>1, <3>2
  <2>5. Stages'
    BY <2>3, <2>4 DEF Stages, Executing, Waiting, Drained, AtEnd
  <2> QED
    BY <1>5, <1>7, <2>1, <2>2, <2>3, <2>5
<1>8. CASE ~Parallel /\ Goto(k, "start") /\ node' = [node EXCEPT !.pc = "execute"]
  <2>1. Puts(k, "start", work[k].why) /\ Keeps(k)
    BY <1>1, <1>2, <1>8, GotoPuts DEF At, Holding
  <2>2. node' \in NodeType
    BY <1>2, <1>8, NodeMoved
  <2>3. node'.pc = "execute" /\ node'.next = k /\ node'.first = node.first
    BY <1>2, <1>4, <1>8 DEF NodeType
  <2>4. \A i \in Others(k) : Before(i)' = Before(i) /\ Untouched(i)' = Untouched(i)
    BY <1>6, <2>1 DEF Before, Untouched, Puts, Parallel, Others
  <2>5. Executing'
    BY <1>1, <1>6, <1>8, <2>1, <2>3, <2>4 DEF Executing, Puts, Parallel, Others
  <2>6. Stages'
    BY <2>3, <2>5 DEF Stages, Preparing, Waiting, Drained, AtEnd
  <2> QED
    BY <1>5, <1>8, <2>1, <2>2, <2>3, <2>6
<1> QED
  BY <1>4, <1>7, <1>8

LEMMA PrepareKeeps ==
  ASSUME IInv, Prepare
  PROVE  IInv'
<1> DEFINE k == node.next
<1>1. /\ node.pc = "prepare" /\ k <= NCalls
      /\ IF Parallel THEN PrepareParallel(k) ELSE PrepareNext(k)
      /\ UNCHANGED <<spec, kind, response, ticker, emitted, outcomes, ran, context, bounds>>
  BY DEF Prepare
<1>2. CASE Parallel /\ PrepareParallel(k)
  <2>1. CASE Asks(k) /\ Interrupt(k) /\ UNCHANGED <<work, results>>
    BY <1>1, <2>1, InterruptKeeps
  <2>2. CASE /\ Refusal(k) # None /\ UNCHANGED work
             /\ IF spec.continueOnError THEN Skip(k, Refusal(k))
                                        ELSE HandleToolError(k, Refusal(k)) /\ UNCHANGED results
    BY <1>1, <2>2, Handled, RefusedKeeps
  <2>3. CASE /\ ~Asks(k) /\ Refusal(k) = None /\ UNCHANGED results
             /\ work' = [work EXCEPT ![k].at = "prepared"] /\ node' = [node EXCEPT !.next = k + 1]
    BY <1>1, <1>2, <2>3, PreparedKeeps DEF Allowed
  <2> QED
    BY <1>2, <2>1, <2>2, <2>3 DEF PrepareParallel, Held
<1>3. CASE ~Parallel /\ PrepareNext(k)
  <2>1. CASE Asks(k) /\ Interrupt(k) /\ UNCHANGED <<work, results>>
    BY <1>1, <2>1, InterruptKeeps
  <2>2. CASE Refusal(k) = "disallowed" /\ Return(Failed("error", k, "disallowed")) /\ UNCHANGED <<work, results>>
    <3>1. Refusal(k) # None
      BY <2>2, ToolAssumption DEF ToolAssumption, Error
    <3> QED
      BY <1>1, <2>2, <3>1, RefusedKeeps
  <2>3. CASE /\ Refusal(k) \notin {None, "disallowed"} /\ UNCHANGED work
             /\ IF spec.continueOnError /\ ~spec.handler
                THEN Skip(k, Refusal(k))
                ELSE HandleToolError(k, Refusal(k)) /\ UNCHANGED results
    BY <1>1, <2>3, Handled, RefusedKeeps
  <2>4. CASE /\ ~Asks(k) /\ Refusal(k) = None /\ UNCHANGED results
             /\ work' = [work EXCEPT ![k].at = "start"] /\ node' = [node EXCEPT !.pc = "execute"]
    BY <1>1, <1>3, <2>4, PreparedKeeps DEF Allowed
  <2> QED
    BY <1>3, <2>1, <2>2, <2>3, <2>4 DEF PrepareNext
<1> QED
  BY <1>1, <1>2, <1>3

(* With every position filled the output is the results as they stand.     *)
LEMMA FullOutput ==
  ASSUME TypeOK, \A k \in Calls : Has(k)
  PROVE  /\ Compact \in Seq(ResultType) /\ Len(Compact) = NCalls
         /\ \A k \in Calls : Compact[k] = results[k]
<1>1. NCalls \in Nat /\ Calls = 1 .. NCalls
  BY ToolAssumption DEF ToolAssumption, Calls
<1>2. Filled = Calls
  BY DEF Filled, Has
<1>3. Cardinality(Filled) = NCalls
  BY <1>1, <1>2, FS_Interval
<1>4. ASSUME NEW k \in Calls PROVE Rank(k) = k
  <2>1. {i \in Filled : i <= k} = 1 .. k
    BY <1>1, <1>2
  <2>2. k \in Nat /\ Cardinality(1 .. k) = k
    BY <1>1, FS_Interval
  <2> QED
    BY <2>1, <2>2 DEF Rank
<1>5. ASSUME NEW j \in Calls PROVE (CHOOSE k \in Filled : Rank(k) = j) = j
  BY <1>2, <1>4
<1>6. Compact = [j \in Calls |-> results[j]]
  <2>1. 1 .. Cardinality(Filled) = Calls
    BY <1>1, <1>3
  <2> DEFINE at(j) == CHOOSE k \in Filled : Rank(k) = j
  <2>2. Compact = [j \in Calls |-> results[at(j)]]
    BY <2>1, Zenon DEF Compact
  <2>3. \A j \in Calls : at(j) = j
    BY <1>5
  <2> HIDE DEF at
  <2> QED
    BY <2>2, <2>3
<1>7. \A k \in Calls : results[k] \in ResultType
  BY DEF TypeOK, Has
<1> QED
  BY <1>1, <1>6, <1>7

LEMMA DeliverKeeps ==
  ASSUME IInv, Deliver, \A k \in Calls : Has(k) /\ work[k].at \in {"new", "prepared", "done"},
         UNCHANGED <<spec, kind, response, work, ticker, emitted, outcomes, results, ran, context, bounds>>
  PROVE  IInv'
<1>1. /\ Compact \in Seq(ResultType) /\ Len(Compact) = NCalls
      /\ \A k \in Calls : Compact[k] = results[k]
  BY FullOutput DEF IInv
<1>2. PICK o \in OutcomeType : o.kind = "output" /\ o.results = Compact /\ Return(o)
  <2> DEFINE output == [Ended("output") EXCEPT !.results = Compact]
  <2>1. output \in OutcomeType /\ output.kind = "output" /\ output.results = Compact
    BY <1>1 DEF Ended, OutcomeType
  <2>2. Return(output)
    BY DEF Deliver
  <2> HIDE DEF output
  <2> QED
    BY <2>1, <2>2
<1>4. work' \in [Calls -> WorkType]
  BY DEF IInv, TypeOK
<1>5. CallsInv' /\ Kept'
  <2>1. node'.first = node.first
    BY <1>2 DEF Return, IInv, TypeOK, NodeType
  <2> QED
    BY <2>1, CallsSame DEF IInv, Kept, Has, Asks
<1>6. Delivered(o)'
  <2> SUFFICES ASSUME NEW k \in Calls
               PROVE  /\ results[k].call = k
                      /\ results[k].why # None => spec.continueOnError
                      /\ results[k].why = None => Completed(emitted[k])
    BY <1>1, <1>2 DEF Delivered
  <2>1. /\ results[k].call = k /\ (results[k].why # None => spec.continueOnError)
        /\ results[k].why = None => work[k].at = "done" /\ work[k].why = None
    BY DEF IInv, Kept
  <2> QED
    BY <2>1, Found DEF Caused, Closing
<1>7. Explained(o)' /\ Asking(o)'
  BY <1>2 DEF Explained, Asking
<1> QED
  BY <1>2, <1>4, <1>5, <1>6, <1>7, ReturnKeeps

(* Every prepared call gets its goroutine at once.                         *)
LEMMA SpawnKeeps ==
  ASSUME IInv, node.pc = "prepare", node.next > NCalls, Parallel,
         work' = [k \in Calls |-> IF k \in Prepared THEN [work[k] EXCEPT !.at = "spawned"] ELSE work[k]],
         node' = [node EXCEPT !.pc = "wait"],
         UNCHANGED <<spec, kind, response, ticker, emitted, outcomes, results, ran, context, bounds>>
  PROVE  IInv'
<1>1. node \in NodeType /\ work \in [Calls -> WorkType]
  BY DEF IInv, TypeOK
<1>2. node' \in NodeType
  BY <1>1, NodeMoved
<1>3. node'.pc = "wait" /\ node'.first = node.first
  BY <1>1 DEF NodeType
<1>4. \A k \in Calls : Before(k)
  <2>1. \A k \in Calls : k < node.next
    BY NodeFields, ToolAssumption DEF ToolAssumption, IInv, TypeOK, Calls
  <2> QED
    BY <2>1 DEF IInv, Stages, Preparing
<1>5. \A k \in Calls :
        /\ work'[k] \in WorkType /\ work'[k].why = work[k].why /\ work'[k].late = work[k].late
        /\ \/ work[k].at = "new" /\ work'[k].at = "new" /\ Has(k)
           \/ work[k].at = "prepared" /\ work'[k].at = "spawned"
  <2> SUFFICES ASSUME NEW k \in Calls
               PROVE  /\ work'[k] \in WorkType /\ work'[k].why = work[k].why /\ work'[k].late = work[k].late
                      /\ \/ work[k].at = "new" /\ work'[k].at = "new" /\ Has(k)
                         \/ work[k].at = "prepared" /\ work'[k].at = "spawned"
    OBVIOUS
  <2>1. CASE work[k].at = "new"
    BY <1>1, <1>4, <2>1 DEF Prepared, Before
  <2>2. CASE work[k].at = "prepared"
    <3> DEFINE w == [work[k] EXCEPT !.at = "spawned"]
    <3>1. w \in WorkType /\ w.at = "spawned" /\ w.why = work[k].why /\ w.late = work[k].late
      BY <1>1, WorkMoved DEF At
    <3>2. work'[k] = w
      BY <2>2 DEF Prepared
    <3> HIDE DEF w
    <3> QED
      BY <2>2, <3>1, <3>2
  <2> QED
    BY <1>4, <2>1, <2>2 DEF Before
<1>6. work' \in [Calls -> WorkType]
  BY <1>5
<1>7. TypeOK'
  BY <1>2, <1>6 DEF IInv, TypeOK
<1>8. Logged'
  BY <1>5 DEF IInv, Logged, Told, PreRun, Begun, Closing
<1>9. Causes'
  <2> SUFFICES ASSUME NEW k \in Calls PROVE Caused(k)'
    BY DEF Causes
  <2> QED
    <3>1. work[k].at \in {"new", "prepared"} /\ work'[k].at \in {"new", "spawned"}
      BY <1>5
    <3>2. work[k].why = None /\ ~work[k].late
      BY <3>1, Found DEF Caused
    <3>3. work'[k].why = None /\ ~work'[k].late /\ None # "cancelled"
      BY <1>5, <3>2, Found DEF Error
    <3> QED
      BY <3>1, <3>3 DEF Caused, Closing
<1>10. Modes' /\ Ran'
  <2>1. \A k \in Calls : Allowed(k)' = Allowed(k)
    BY DEF Allowed, Asks, Refusal, Rejected
  <2> QED
    BY <1>5, <2>1 DEF IInv, Modes, Ran, PreRun, Pooled, Parallel, Asked, FirstAsked, Granted, Rejected
<1>11. Answered'
  <2> SUFFICES ASSUME NEW j \in DOMAIN outcomes PROVE FALSE
    BY DEF Answered
  <2>1. outcomes \in Seq(ResultType)
    BY DEF IInv, TypeOK
  <2>2. outcomes[j] \in ResultType
    BY <2>1
  <2>3. outcomes[j].call \in Calls /\ work[outcomes[j].call].at = "done"
    BY <2>2 DEF ResultType, IInv, Answered
  <2> QED
    BY <1>5, <2>3
<1>12. Reported'
  <2>1. node.first # None => node.first.call \in Calls
    BY <1>1, NodeFields
  <2> QED
    BY <1>3, <1>5, <2>1 DEF IInv, Reported, Parallel
<1>13. Pool'
  <2>1. Holders' \subseteq Holders
    BY <1>5 DEF Holders, Holding
  <2>2. Holders = {}
    BY <1>5 DEF Holders, Holding
  <2>3. Holders' = {}
    BY <2>1, <2>2
  <2> QED
    BY <2>2, <2>3 DEF IInv, Pool, Parallel
<1>14. Stages'
  BY <1>3, <1>5 DEF Stages, Preparing, Executing, Waiting, Drained, AtEnd, Parallel, Has
<1>15. Kept'
  BY <1>5 DEF IInv, Kept, Has, Asks
<1>16. OutputComplete' /\ CauseReported' /\ Interrupted'
  BY <1>3 DEF OutputComplete, CauseReported, Interrupted
<1> QED
  BY <1>7, <1>8, <1>9, <1>10, <1>11, <1>12, <1>13, <1>14, <1>15, <1>16 DEF IInv

LEMMA Prepare_DoneKeeps ==
  ASSUME IInv, Prepare_Done
  PROVE  IInv'
<1>1. CASE Parallel /\ Prepared # {}
  BY <1>1, SpawnKeeps DEF Prepare_Done
<1>2. CASE ~(Parallel /\ Prepared # {})
  <2>1. \A k \in Calls : k < node.next
    BY NodeFields, ToolAssumption DEF ToolAssumption, IInv, TypeOK, Calls, Prepare_Done
  <2>2. \A k \in Calls : Before(k)
    BY <2>1 DEF IInv, Stages, Preparing, Prepare_Done
  <2>3. \A k \in Calls : Has(k) /\ work[k].at \in {"new", "prepared", "done"}
    BY <1>2, <2>2 DEF Before, Prepared
  <2> QED
    BY <1>2, <2>3, DeliverKeeps DEF Prepare_Done
<1> QED
  BY <1>1, <1>2

LEMMA CollectKeeps ==
  ASSUME IInv, Collect
  PROVE  IInv'
<1> DEFINE k == node.next
<1>1. /\ ~Parallel /\ k \in Calls
      /\ \A i \in Others(k) : IF i < k THEN Before(i) ELSE Untouched(i)
  BY DEF Collect, IInv, Stages, Executing, Others
<1>2. /\ work[k].at = "result" /\ Goto(k, "done")
      /\ IF work[k].why = None \/ (spec.continueOnError /\ ~spec.handler)
         THEN Skip(k, work[k].why)
         ELSE HandleToolError(k, work[k].why) /\ UNCHANGED results
      /\ UNCHANGED <<spec, kind, response, ticker, emitted, outcomes, ran, context, bounds>>
  BY DEF Collect
<1>3. Puts(k, "done", work[k].why) /\ Keeps(k)
  BY <1>1, <1>2, GotoPuts, Found DEF At
<1>4. node'.first = node.first
  BY <1>2 DEF Skip, HandleToolError, Return, IInv, TypeOK, NodeType
<1>5. k = node.next
  OBVIOUS
<1> HIDE DEF k
<1>6. CallsInv'
  BY <1>1, <1>2, <1>3, <1>4, CallsMoved
<1>7. CASE Skip(k, work[k].why) /\ (work[k].why # None => spec.continueOnError)
  <2>1. ~Asks(k)
    BY <1>1, <1>2 DEF IInv, Modes, Allowed
  <2> QED
    BY <1>1, <1>2, <1>3, <1>5, <1>6, <1>7, <2>1, SkippedKeeps, Found DEF Puts
<1>8. ASSUME NEW what \in {"error", "handler"}, Return(Failed(what, k, work[k].why)),
             UNCHANGED results, work[k].why # None
      PROVE  IInv'
  <2>1. Kept'
    BY <1>1, <1>2, <1>3, <1>8, SameKept
  <2>2. \A i \in Calls : work'[i].at \in {"new", "prepared", "done"}
    BY <1>1, <1>3 DEF Puts, Others, Before, Untouched
  <2>3. /\ ~work[k].late /\ work[k].why \in Error
        /\ work[k].why = "cancelled" => context.cancelled
    <3>1. ~context.stopped
      BY <1>1 DEF IInv, Reported
    <3> QED
      BY <1>1, <1>8, <3>1, Found DEF Caused, Why
  <2> QED
    BY <1>1, <1>2, <1>3, <1>6, <1>8, <2>1, <2>2, <2>3, FailureKeeps DEF Puts, Keeps
<1> QED
  BY <1>2, <1>7, <1>8, Handled

(* Every answer that counts is put at the position of its call.            *)
LEMMA DrainKeeps ==
  ASSUME IInv, Drain
  PROVE  IInv'
<1>1. /\ node.pc = "wait" /\ Joined /\ node' = [node EXCEPT !.pc = "drained"]
      /\ UNCHANGED <<spec, kind, response, work, ticker, emitted, outcomes, ran, context, bounds>>
  BY DEF Drain
<1>2. node \in NodeType /\ outcomes \in Seq(ResultType) /\ results \in [Calls -> ResultType \cup {None}]
  BY DEF IInv, TypeOK
<1>3. node' \in NodeType
  BY <1>1, <1>2, NodeMoved
<1>4. node'.pc = "drained" /\ node'.first = node.first
  BY <1>1, <1>2 DEF NodeType
<1>5. CallsInv'
  BY <1>1, <1>4, CallsSame
<1>6. \A j \in DOMAIN outcomes :
        /\ outcomes[j] \in ResultType /\ outcomes[j] # None
        /\ work[outcomes[j].call].at = "done" /\ work[outcomes[j].call].why = outcomes[j].why
  BY <1>2, ToolAssumption DEF ToolAssumption, IInv, Answered
<1> DEFINE kept == {j \in DOMAIN outcomes : outcomes[j].why = None \/ spec.continueOnError}
           at(k) == CHOOSE j \in kept : Slot(j) = k
<1>7. results' = [k \in Calls |-> IF \E j \in kept : Slot(j) = k THEN outcomes[at(k)] ELSE results[k]]
  BY DEF Drain
<1>8. \A k \in Calls : (\E j \in kept : Slot(j) = k) => at(k) \in kept /\ Slot(at(k)) = k
  BY Zenon
<1> HIDE DEF at
<1>9. ASSUME NEW k \in Calls
      PROVE  \/ /\ results'[k] \in ResultType /\ Has(k)' /\ results'[k].call = k
                /\ results'[k].why = None \/ spec.continueOnError
                /\ work[k].at = "done" /\ work[k].why = results'[k].why
             \/ results'[k] = results[k] /\ ~\E j \in kept : Slot(j) = k
  <2>1. CASE \E j \in kept : Slot(j) = k
    <3>1. at(k) \in kept /\ Slot(at(k)) = k /\ results'[k] = outcomes[at(k)]
      BY <1>7, <1>8, <2>1
    <3>2. at(k) \in DOMAIN outcomes /\ outcomes[at(k)].call = k
      BY <3>1 DEF Slot
    <3> QED
      BY <1>6, <3>1, <3>2 DEF Has
  <2>2. CASE ~\E j \in kept : Slot(j) = k
    <3> HIDE DEF kept
    <3> QED
      BY <1>7, <2>2
  <2> QED
    BY <2>1, <2>2
<1>10. results' \in [Calls -> ResultType \cup {None}]
  <2>1. results' = [k \in Calls |-> results'[k]]
    BY <1>7
  <2>2. \A k \in Calls : results'[k] \in ResultType \cup {None}
    BY <1>2, <1>9
  <2> QED
    BY <2>1, <2>2
<1>11. TypeOK'
  BY <1>1, <1>3, <1>10 DEF IInv, TypeOK
<1>12. Kept'
  <2> SUFFICES ASSUME NEW k \in Calls, Has(k)'
               PROVE  /\ results'[k].call = k
                      /\ results'[k].why # None => spec.continueOnError
                      /\ results'[k].why = None => work[k].at = "done" /\ work[k].why = None
                      /\ ~Asks(k)
    BY <1>1 DEF Kept, Asks
  <2>1. CASE results'[k] = results[k]
    BY <2>1 DEF IInv, Kept, Has
  <2>2. CASE work[k].at = "done"
    BY <1>9, <2>1, <2>2 DEF IInv, Modes, Allowed
  <2> QED
    BY <1>9, <2>1, <2>2
<1>13. Drained'
  <2> SUFFICES ASSUME NEW k \in Calls
               PROVE  /\ work[k].at \in {"new", "done"}
                      /\ work[k].at = "new" => Has(k)'
                      /\ work[k].at = "done" /\ (work[k].why = None \/ spec.continueOnError) => Has(k)'
    BY <1>1 DEF Drained, Parallel, IInv, Stages, Waiting
  <2>1. work[k].at \in {"new", "done"}
    BY <1>1 DEF Joined, Prepared
  <2>2. work[k].at = "new" => Has(k)'
    BY <1>1, <1>9 DEF IInv, Stages, Waiting, Has
  <2>3. ASSUME work[k].at = "done", work[k].why = None \/ spec.continueOnError PROVE Has(k)'
    <3>1. PICK j \in DOMAIN outcomes : outcomes[j].call = k
      BY <1>1, <2>3 DEF IInv, Stages, Waiting
    <3>2. j \in kept /\ Slot(j) = k
      BY <1>6, <2>3, <3>1 DEF Slot
    <3> QED
      BY <1>9, <3>2
  <2> QED
    BY <2>1, <2>2, <2>3
<1>14. Stages'
  BY <1>4, <1>13 DEF Stages, Preparing, Executing, Waiting, AtEnd
<1>15. OutputComplete' /\ CauseReported' /\ Interrupted'
  BY <1>4 DEF OutputComplete, CauseReported, Interrupted
<1> QED
  BY <1>5, <1>11, <1>12, <1>14, <1>15 DEF IInv, CallsInv

LEMMA FinishKeeps ==
  ASSUME IInv, Finish
  PROVE  IInv'
<1>1. /\ node.pc = "drained"
      /\ UNCHANGED <<spec, kind, response, work, ticker, emitted, outcomes, results, ran, context, bounds>>
  BY DEF Finish
<1>2. /\ Parallel
      /\ \A k \in Calls :
           /\ work[k].at \in {"new", "done"}
           /\ work[k].at = "new" => Has(k)
           /\ work[k].at = "done" /\ (work[k].why = None \/ spec.continueOnError) => Has(k)
  BY <1>1 DEF IInv, Stages, Drained
<1>3. CASE ~spec.continueOnError /\ node.first # None
  <2>1. PICK what \in {"error", "handler"} : Return(Failed(what, node.first.call, node.first.why))
    BY <1>3, Handled DEF Finish
  <2>2. node.first.call \in Calls /\ node.first.why \in Error
    BY <1>3, NodeFields DEF IInv, TypeOK
  <2>3. /\ ~work[node.first.call].late
        /\ node.first.why = "cancelled" => context.cancelled
        /\ node.first.why = work[node.first.call].why /\ node.first.why # None
    BY <1>3, <2>2, Found DEF IInv, Reported, Caused
  <2>4. CallsInv' /\ Kept' /\ work' \in [Calls -> WorkType]
    <3>1. node'.first = node.first
      BY <2>1 DEF Return, IInv, TypeOK, NodeType
    <3> QED
      BY <1>1, <3>1, CallsSame DEF IInv, Kept, Has, Asks, TypeOK
  <2> QED
    BY <1>1, <1>2, <2>1, <2>2, <2>3, <2>4, FailureKeeps
<1>4. CASE ~(~spec.continueOnError /\ node.first # None)
  <2>1. \A k \in Calls : Has(k) /\ work[k].at \in {"new", "prepared", "done"}
    <3> SUFFICES ASSUME NEW k \in Calls, work[k].at = "done" PROVE Has(k)
      BY <1>2
    <3>1. spec.continueOnError \/ work[k].why = None
      BY <1>2, <1>4, Found DEF Caused
    <3> QED
      BY <1>2, <3>1
  <2> QED
    BY <1>1, <1>4, <2>1, DeliverKeeps DEF Finish
<1> QED
  BY <1>3, <1>4

LEMMA CancelKeeps ==
  ASSUME IInv, Cancel
  PROVE  IInv'
<1>1. /\ node.pc # "returned" /\ context' = [context EXCEPT !.cancelled = TRUE]
      /\ UNCHANGED <<spec, kind, response, node, work, ticker, emitted, outcomes, results, ran, bounds>>
  BY DEF Cancel
<1>2. context \in [cancelled : BOOLEAN, stopped : BOOLEAN]
  BY DEF IInv, TypeOK
<1>3. /\ context' \in [cancelled : BOOLEAN, stopped : BOOLEAN]
      /\ context'.cancelled /\ context'.stopped = context.stopped
  BY <1>1, <1>2
<1>4. TypeOK' /\ Logged' /\ Answered' /\ Kept'
  BY <1>1, <1>3 DEF IInv, TypeOK, Logged, Answered, Kept, Has, Asks
<1>5. Causes'
  BY <1>1, <1>3 DEF IInv, Causes, Caused, Parallel
<1>6. Modes' /\ Ran'
  BY <1>1 DEF IInv, Modes, Allowed, Asks, Refusal, Rejected, Ran, Parallel, Asked, FirstAsked, Granted
<1>7. Reported'
  BY <1>1, <1>3 DEF IInv, Reported, Parallel
<1>8. Stages'
  BY <1>1 DEF IInv, Stages, Preparing, Executing, Waiting, Drained, AtEnd,
              Before, Untouched, Has, Parallel
<1>9. Pool'
  BY <1>1 DEF IInv, Pool, Parallel, Holders
<1>10. OutputComplete' /\ CauseReported' /\ Interrupted'
  BY <1>1 DEF OutputComplete, CauseReported, Interrupted
<1> QED
  BY <1>4, <1>5, <1>6, <1>7, <1>8, <1>9, <1>10 DEF IInv

(* An attempt starts as the first one did, but for what ran before it.     *)
LEMMA FreshKeeps ==
  ASSUME node' = NewNode, work' = Each(Idle), ticker' = Each("off"), emitted' = Each(<<>>),
         outcomes' = <<>>, results' = Each(None), context' = NewContext, TypeOK', Ran'
  PROVE  IInv'
<1>1. \A k \in Calls : /\ work'[k].at = "new" /\ work'[k].why = None /\ ticker'[k] = "off" /\ ~work'[k].late
                       /\ emitted'[k] = <<>> /\ results'[k] = None
  BY DEF Each, Idle
<1>2. /\ node'.pc = "prepare" /\ node'.next = 1 /\ node'.first = None
      /\ ~context'.cancelled /\ ~context'.stopped
  BY DEF NewNode, NewContext
<1>3. Logged'
  BY <1>1, EmptyTold DEF Logged, Told, PreRun, Begun, Closing
<1>4. Causes'
  BY <1>1, ToolAssumption DEF ToolAssumption, Causes, Caused, Closing, Error
<1>5. Modes' /\ Reported' /\ Kept'
  BY <1>1, <1>2 DEF Modes, Pooled, Reported, Kept, Has
<1>6. Answered'
  BY DEF Answered
<1>7. Stages'
  <2>1. \A k \in Calls : ~(k < 1)
    BY ToolAssumption DEF ToolAssumption, Calls
  <2> QED
    BY <1>1, <1>2, <2>1 DEF Stages, Preparing, Executing, Waiting, Drained, AtEnd, Untouched, Has
<1>8. Pool'
  <2>1. Holders' = {}
    BY <1>1 DEF Holders, Holding
  <2>2. Cardinality({}) = 0
    BY FS_EmptySet
  <2>3. spec'.width \in Nat
    BY ToolAssumption DEF ToolAssumption, TypeOK, NodeSpec
  <2> QED
    BY <2>1, <2>2, <2>3 DEF Pool
<1>9. OutputComplete' /\ CauseReported' /\ Interrupted'
  BY <1>2 DEF OutputComplete, CauseReported, Interrupted
<1> QED
  BY <1>3, <1>4, <1>5, <1>6, <1>7, <1>8, <1>9 DEF IInv

LEMMA ResumeKeeps ==
  ASSUME IInv, NEW decision \in Decision, Resume(decision)
  PROVE  IInv'
<1>1. /\ response' = [decision |-> decision, about |-> node.outcome.call] /\ node' = NewNode /\ work' = Each(Idle) /\ ticker' = Each("off")
      /\ emitted' = Each(<<>>) /\ outcomes' = <<>> /\ results' = Each(None) /\ context' = NewContext
      /\ UNCHANGED <<spec, kind, ran, bounds>>
  BY DEF Resume
<1>2. /\ response = None /\ node.outcome.call \in Calls /\ FirstAsked(node.outcome.call)
      /\ Parallel => \A k \in Calls : work[k].at \in {"new", "prepared"}
  BY DEF IInv, Interrupted, Resume
<1>3. TypeOK'
  <2>1. response' \in Response
    BY <1>1, <1>2 DEF Response
  <2> QED
    BY <1>1, <2>1, FirstTypes DEF IInv, TypeOK
<1>4. Ran'
  <2>1. \A k \in Calls : ran[k] > 0 => kind[k] # "approval"
    BY <1>2 DEF IInv, Ran, Granted
  <2>2. Asked'
    BY <1>1, <1>2 DEF Asked, FirstAsked
  <2>3. Parallel => \A k \in Calls : ran[k] = 0
    BY <1>2 DEF IInv, Ran, PreRun
  <2> QED
    BY <1>1, <2>1, <2>2, <2>3, Found DEF Ran, Parallel
<1> QED
  BY <1>1, <1>3, <1>4, FreshKeeps

-----------------------------------------------------------------------------
LEMMA InitKeeps == Init => IInv
<1> SUFFICES ASSUME Init PROVE IInv
  OBVIOUS
<1>1. \A k \in Calls : /\ work[k].at = "new" /\ work[k].why = None /\ ticker[k] = "off" /\ ~work[k].late
                       /\ emitted[k] = <<>> /\ results[k] = None /\ ran[k] = 0
  BY DEF Init, Each, Idle
<1>2. /\ node.pc = "prepare" /\ node.next = 1 /\ node.first = None
      /\ ~context.cancelled /\ ~context.stopped /\ outcomes = <<>>
  BY DEF Init, NewNode, NewContext
<1>3. TypeOK
  BY FirstTypes, ToolAssumption DEF ToolAssumption, TypeOK, Init, Each
<1>4. Logged
  BY <1>1, EmptyTold DEF Logged, Told, PreRun, Begun, Closing
<1>5. Causes
  BY <1>1, ToolAssumption DEF ToolAssumption, Causes, Caused, Closing, Error
<1>6. Modes /\ Reported /\ Kept /\ Ran /\ Answered
  BY <1>1, <1>2 DEF Modes, Pooled, Reported, Kept, Has, Ran, Answered, Asked, Init
<1>7. Stages
  <2>1. \A k \in Calls : ~(k < 1)
    BY ToolAssumption DEF ToolAssumption, Calls
  <2> QED
    BY <1>1, <1>2, <2>1 DEF Stages, Preparing, Executing, Waiting, Drained, AtEnd, Untouched, Has
<1>8. Pool
  <2>1. Holders = {}
    BY <1>1 DEF Holders, Holding
  <2>2. Cardinality({}) = 0
    BY FS_EmptySet
  <2>3. spec.width \in Nat
    BY <1>3, ToolAssumption DEF ToolAssumption, TypeOK, NodeSpec
  <2> QED
    BY <2>1, <2>2, <2>3 DEF Pool
<1>9. OutputComplete /\ CauseReported /\ Interrupted
  BY <1>2 DEF OutputComplete, CauseReported, Interrupted
<1> QED
  BY <1>3, <1>4, <1>5, <1>6, <1>7, <1>8, <1>9 DEF IInv

LEMMA StutterKeeps == IInv /\ UNCHANGED vars => IInv'
<1> SUFFICES ASSUME IInv, UNCHANGED vars PROVE IInv'
  OBVIOUS
<1> USE DEF vars
<1>1. TypeOK' /\ Logged' /\ Answered' /\ Kept' /\ Reported'
  BY DEF IInv, TypeOK, Logged, Answered, Kept, Has, Asks, Reported, Parallel
<1>2. Causes' /\ Modes' /\ Ran'
  BY DEF IInv, Causes, Caused, Modes, Allowed, Asks, Refusal, Rejected, Ran, Parallel, Asked, FirstAsked, Granted
<1>3. Stages'
  BY DEF IInv, Stages, Preparing, Executing, Waiting, Drained, AtEnd, Before, Untouched, Has, Parallel
<1>4. Pool' /\ Interrupted'
  BY DEF IInv, Pool, Parallel, Holders, Interrupted, FirstAsked
<1>5. OutputComplete'
  BY DEF IInv, OutputComplete, Last
<1>6. CauseReported'
  BY DEF IInv, CauseReported, Refusal, Rejected
<1> QED
  BY <1>1, <1>2, <1>3, <1>4, <1>5, <1>6 DEF IInv

LEMMA GoroutineKeeps ==
  ASSUME IInv, NEW k \in Calls, Goroutine(k)
  PROVE  IInv'
  BY StartKeeps, ExecuteKeeps, SettleKeeps, AcquireKeeps, GiveUpKeeps, CheckKeeps, ReportKeeps, SendKeeps
     DEF Goroutine

LEMMA NodeKeeps ==
  ASSUME IInv, Node
  PROVE  IInv'
  BY PrepareKeeps, Prepare_DoneKeeps, CollectKeeps, DrainKeeps, FinishKeeps DEF Node

LEMMA NextKeeps == IInv /\ [Next]_vars => IInv'
<1> SUFFICES ASSUME IInv, [Next]_vars PROVE IInv'
  OBVIOUS
<1>1. CASE Node
  BY <1>1, NodeKeeps
<1>2. ASSUME NEW k \in Calls, Goroutine(k) \/ Tick(k) \/ TickerExit(k) PROVE IInv'
  BY <1>2, GoroutineKeeps, TickKeeps, TickerExitKeeps
<1>3. ASSUME NEW decision \in Decision, Resume(decision) PROVE IInv'
  BY <1>3, ResumeKeeps
<1>4. CASE Cancel
  BY <1>4, CancelKeeps
<1>5. CASE Stop \/ UNCHANGED vars
  BY <1>5, StutterKeeps DEF Stop
<1> QED
  BY <1>1, <1>2, <1>3, <1>4, <1>5 DEF Next

(* The invariant holds in every state of every run of a tool node.         *)
THEOREM Inductive == Spec => []IInv
  BY InitKeeps, NextKeeps, PTL DEF Spec

(* Every variable keeps its type, whatever the calls and the faults.       *)
THEOREM TypeCorrect == Spec => []TypeOK
<1>1. IInv => TypeOK
  BY DEF IInv
<1> QED
  BY <1>1, Inductive, PTL

(* The events of a call are tool.started, progress, and one last event     *)
(* that nothing follows, however late its ticker was told to stop.         *)
THEOREM EventsInOrder == Spec => []EventOrder
<1>1. IInv => EventOrder
  BY DEF IInv, EventOrder, Logged, Told, Ordered
<1> QED
  BY <1>1, Inductive, PTL

(* A tool that needs approval runs only after a human was asked about the  *)
(* first such call of the list and did not reject it, and no tool of a     *)
(* pool runs twice over the interrupt and its resume.                      *)
THEOREM ApprovedFirst == Spec => []ApprovalFirst
<1>1. IInv => ApprovalFirst
  <2> SUFFICES ASSUME IInv PROVE ApprovalFirst
    OBVIOUS
  <2>1. Parallel /\ node.pc = "returned" /\ node.outcome.kind = "interrupt" =>
          \A k \in Calls : work[k].at \in PreRun
    BY DEF IInv, Interrupted, PreRun
  <2> QED
    BY <2>1 DEF IInv, Ran, ApprovalFirst, Asked, FirstAsked, Granted
<1> QED
  BY <1>1, Inductive, PTL

(* The output holds the result of every call, in the order of the calls.   *)
THEOREM OutputsComplete == Spec => []OutputComplete
<1>1. IInv => OutputComplete
  BY DEF IInv
<1> QED
  BY <1>1, Inductive, PTL

(* The error the node returns came before any had stopped the pool, so it  *)
(* is never the echo of a failed sibling.                                  *)
THEOREM CausesReported == Spec => []CauseReported
<1>1. IInv => CauseReported
  BY DEF IInv
<1> QED
  BY <1>1, Inductive, PTL

(* At most MaxConcurrency tools run at a time, for every such width.       *)
THEOREM PoolWithinWidth == Spec => []WithinWidth
<1>1. IInv => WithinWidth
  <2> SUFFICES ASSUME IInv PROVE WithinWidth
    OBVIOUS
  <2> DEFINE running == {k \in Calls : work[k].at \in {"start", "executing", "stopping"}}
  <2>1. spec.width \in Nat
    BY ToolAssumption DEF ToolAssumption, IInv, TypeOK, NodeSpec
  <2>2. CASE Parallel
    <3>1. running \subseteq Holders /\ Holders \subseteq Calls
      BY DEF Holders, Holding
    <3>2. IsFiniteSet(Calls)
      BY FS_Interval, ToolAssumption DEF ToolAssumption, Calls
    <3>3. IsFiniteSet(Holders) /\ Cardinality(running) <= Cardinality(Holders)
      BY <3>1, <3>2, FS_Subset
    <3>4. Cardinality(running) \in Nat /\ Cardinality(Holders) \in Nat
      BY <3>1, <3>3, FS_Subset, FS_CardinalityType
    <3> QED
      BY <2>1, <2>2, <3>3, <3>4 DEF IInv, Pool, WithinWidth
  <2>3. CASE ~Parallel
    <3>1. running \subseteq {node.next}
      BY <2>3, StageOfTurn
    <3>2. IsFiniteSet({node.next}) /\ Cardinality({node.next}) = 1
      BY FS_Singleton
    <3>3. Cardinality(running) <= 1
      BY <3>1, <3>2, FS_Subset
    <3> QED
      BY <2>3, <3>3 DEF WithinWidth
  <2> QED
    BY <2>2, <2>3
<1> QED
  BY <1>1, Inductive, PTL

-----------------------------------------------------------------------------
(* The node keeps the contract of NodeContract: what a step of it looks    *)
(* like to the run loop.                                                   *)
Running == node.pc # "returned"
Outcome == IF node.pc = "returned" THEN node.outcome.kind ELSE "none"
Count == [k \in Calls |-> Len(emitted[k])]

LEMMA ContractSteps ==
  ASSUME \/ Count' = Count /\ Running' = Running /\ Outcome' = Outcome
         \/ \E k \in Calls :
              Running /\ Count' = [Count EXCEPT ![k] = @ + 1] /\ Running' = Running /\ Outcome' = Outcome
         \/ /\ Running /\ ~Running' /\ Count' = Count
            /\ Outcome' \in {"output", "interrupt", "error", "handler"}
         \/ /\ ~Running /\ Outcome = "interrupt" /\ Running' /\ Outcome' = "none"
            /\ Count' = [k \in Calls |-> 0]
  PROVE  [Contract!Next]_(Contract!contract)
  BY Zenon DEF Running, Outcome, Count, Contract!Next, Contract!contract, Contract!Emit, Contract!Return,
         Contract!Again, Contract!Quiet

LEMMA ContractInit == Init => Contract!Init
  BY DEF Init, NewNode, Each, Contract!Init, Contract!Quiet

(* A goroutine or a ticker emits at most one event, and the node runs.     *)
LEMMA SaidOnce ==
  ASSUME IInv, NEW k \in Calls, work[k].at \notin {"new", "prepared", "done"},
         node'.pc = node.pc, \/ UNCHANGED emitted
                            \/ \E e \in EventType : Say(k, e)
  PROVE  [Contract!Next]_(Contract!contract)
<1>1. Running /\ Running' = Running /\ Outcome' = Outcome
  BY StageOfTurn DEF Running, Outcome
<1>2. CASE UNCHANGED emitted
  BY <1>1, <1>2, ContractSteps DEF Count
<1>3. ASSUME NEW e \in EventType, Say(k, e)
      PROVE  [Contract!Next]_(Contract!contract)
  <2>1. emitted' = [emitted EXCEPT ![k] = Append(emitted[k], e)]
    BY <1>3 DEF Say
  <2>2. /\ emitted \in [Calls -> Seq(EventType)]
        /\ Len(Append(emitted[k], e)) = Len(emitted[k]) + 1
    BY Found
  <2>3. Count' = [Count EXCEPT ![k] = @ + 1]
    BY <2>1, <2>2 DEF Count
  <2> QED
    BY <1>1, <2>3, ContractSteps
<1> QED
  BY <1>2, <1>3

LEMMA ContractNext == IInv /\ IInv' /\ [Next]_vars => [Contract!Next]_(Contract!contract)
<1> SUFFICES ASSUME IInv, IInv', [Next]_vars PROVE [Contract!Next]_(Contract!contract)
  OBVIOUS
<1>1. ASSUME NEW k \in Calls, Goroutine(k) \/ Tick(k) \/ TickerExit(k)
      PROVE  [Contract!Next]_(Contract!contract)
  <2>1. work[k].at \notin {"new", "prepared", "done"}
    <3>1. ticker[k] \in {"running", "stopping"} => work[k].at \in Begun
      BY Found DEF Told, At, Begun, Closing, PreRun, Holding
    <3>2. CASE Goroutine(k)
      BY <3>2 DEF Goroutine, Start, Execute, Settle, Acquire, GiveUp, Check, Report, Send
    <3>3. CASE Tick(k) \/ TickerExit(k)
      BY <3>1, <3>3 DEF Tick, TickerExit, Begun
    <3> QED
      BY <1>1, <3>2, <3>3
  <2>2. node'.pc = node.pc
    <3>1. CASE Report(k)
      BY <3>1 DEF Report, IInv, TypeOK, NodeType
    <3>2. CASE ~Report(k)
      BY <1>1, <3>2 DEF Goroutine, Start, Execute, Settle, Acquire, GiveUp, Check, Send, Tick, TickerExit
    <3> QED
      BY <3>1, <3>2
  <2>3. UNCHANGED emitted \/ \E e \in EventType : Say(k, e)
    BY <1>1 DEF Goroutine, Start, Execute, Settle, Acquire, GiveUp, Check, Report, Send, Tick, TickerExit,
                EventType
  <2> QED
    BY <2>1, <2>2, <2>3, SaidOnce
<1>2. ASSUME Running, UNCHANGED emitted
      PROVE  [Contract!Next]_(Contract!contract)
  <2>1. Count' = Count
    BY <1>2 DEF Count
  <2>2. CASE Running'
    BY <1>2, <2>1, <2>2, ContractSteps DEF Running, Outcome
  <2>3. CASE ~Running'
    <3>1. node'.outcome \in OutcomeType
      BY <2>3 DEF Running, IInv, Stages, AtEnd
    <3>2. Outcome' \in {"output", "interrupt", "error", "handler"}
      BY <2>3, <3>1 DEF Running, Outcome, OutcomeType
    <3> QED
      BY <1>2, <2>1, <2>3, <3>2, ContractSteps
  <2> QED
    BY <2>2, <2>3
<1>3. CASE Node \/ Cancel
  BY <1>2, <1>3 DEF Node, Prepare, Prepare_Done, Collect, Drain, Finish, Cancel, Running
<1>4. ASSUME NEW decision \in Decision, Resume(decision)
      PROVE  [Contract!Next]_(Contract!contract)
  <2>1. ~Running /\ Outcome = "interrupt"
    BY <1>4 DEF Resume, Running, Outcome
  <2>2. Running' /\ Outcome' = "none"
    BY <1>4 DEF Resume, Running, Outcome, NewNode
  <2>3. Count' = [k \in Calls |-> 0]
    BY <1>4 DEF Resume, Count, Each
  <2> QED
    BY <2>1, <2>2, <2>3, ContractSteps
<1>5. CASE Stop \/ UNCHANGED vars
  BY <1>5, ContractSteps DEF Stop, vars, Count, Running, Outcome
<1> QED
  BY <1>1, <1>3, <1>4, <1>5 DEF Next

(* What the order of delivery relies on: nothing of the node, pool or      *)
(* ticker, emits an event after its function has returned, and it returns  *)
(* once for each call and is called again only to answer its interrupt.    *)
THEOREM ContractKept == Spec => KeepsContract
  BY ContractInit, ContractNext, Inductive, PTL DEF Spec, KeepsContract, Contract!Spec
=============================================================================
