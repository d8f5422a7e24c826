------------------------------ MODULE Compact -------------------------------
(***************************************************************************)
(* CompactMessages (src/llm/compact.go over src/prompt/compact.go): a plan *)
(* keeps, drops, replaces and adds segments of a conversation, one segment *)
(* per message.  The loops are actions, one step per operation of the      *)
(* plan, so that what holds between two operations can be stated.          *)
(*                                                                         *)
(* The segment of message i has identifier i; 0 is the empty identifier.   *)
(* A segment is its identifier and the operation it came with, 0 when it   *)
(* is a message as it was.                                                 *)
(***************************************************************************)
EXTENDS Integers, Sequences, FiniteSets, SequencesExt

CONSTANTS
  Conversations,  \* the lists of messages to compact
  Plans,          \* the plans
  MaxInt,         \* the largest index; one more is the smallest
  Nil             \* no replacement, no index, no place

Actions == {"keep", "drop", "replace", "add"}
Kinds == {"start", "end", "index", "before", "after"}
Position == [kind : Kinds \cup {""}, segment : Nat, index : Int \cup {Nil}]
Op == [action : Actions \cup {""}, target : Nat,
       replacement : [id : Nat, role : STRING, text : Seq(STRING)] \cup {Nil}, position : Position]
ASSUME CompactAssumption ==
  /\ MaxInt \in Nat
  /\ Nil \notin Int
  /\ \A conversation \in Conversations : conversation \in Seq(Range(conversation))
  /\ Plans \subseteq Seq(Op)

VARIABLES
  messages,   \* the messages given
  plan,       \* the plan
  pc,
  next,       \* the operation, then the addition that is next
  keeps,      \* segments kept explicitly
  mutations,  \* the drop and replace operations, by their place in the plan
  adds,       \* the add operations, in order
  segments,   \* the compacted segments so far
  compacted   \* the messages returned

compaction == <<messages, plan, pc, next, keeps, mutations, adds, segments, compacted>>

Original == [i \in DOMAIN messages |-> [id |-> i, op |-> 0]]

(* indexSegments: identifiers are there and differ.                        *)
Indexed(s) == (\A i \in DOMAIN s : s[i].id # 0) /\ IsInjective([i \in DOMAIN s |-> s[i].id])

CompactionInit ==
  /\ messages \in Conversations
  /\ plan \in Plans
  /\ pc = "plan" /\ next = 1
  /\ keeps = {} /\ mutations = {} /\ adds = <<>>
  /\ segments = <<>>
  /\ compacted = <<>>

Fail == pc' = "error" /\ UNCHANGED <<messages, plan, next, keeps, mutations, adds, segments, compacted>>

-----------------------------------------------------------------------------
(* The loop over the plan: every operation is checked by itself and        *)
(* against those before it.                                                *)
Target(op) == op.target \in DOMAIN messages
Replacement(op) == op.replacement # Nil /\ op.replacement.id # 0
Mutated(id) == \E k \in mutations : plan[k].target = id

(* validatePositionShape.                                                  *)
Shaped(position) ==
  LET segment == position.segment # 0
      index == position.index # Nil
  IN CASE position.kind \in {"start", "end"} -> ~segment /\ ~index
       [] position.kind = "index" -> index /\ ~segment
       [] position.kind \in {"before", "after"} -> segment # index
       [] OTHER -> FALSE

MayMutate(op) ==
  /\ Target(op)
  /\ op.target \notin keeps
  /\ ~Mutated(op.target)
  /\ op.action = "replace" => Replacement(op)

Examine ==
  /\ pc = "plan" /\ next <= Len(plan)
  /\ LET op == plan[next]
     IN \/ /\ op.action = "keep" /\ Target(op)
           /\ keeps' = keeps \cup {op.target}
           /\ UNCHANGED <<mutations, adds>>
        \/ /\ op.action \in {"drop", "replace"} /\ MayMutate(op)
           /\ mutations' = mutations \cup {next}
           /\ UNCHANGED <<keeps, adds>>
        \/ /\ op.action = "add" /\ Replacement(op) /\ Shaped(op.position)
           /\ adds' = Append(adds, next)
           /\ UNCHANGED <<keeps, mutations>>
  /\ next' = next + 1
  /\ UNCHANGED <<messages, plan, pc, segments, compacted>>

Rejected(op) ==
  CASE op.action = "keep" -> ~Target(op)
    [] op.action \in {"drop", "replace"} -> ~MayMutate(op)
    [] op.action = "add" -> ~(Replacement(op) /\ Shaped(op.position))
    [] OTHER -> TRUE
Reject == pc = "plan" /\ next <= Len(plan) /\ Rejected(plan[next]) /\ Fail

-----------------------------------------------------------------------------
(* The segments that are left, replacements in their place.                *)
MutationOf(id) == CHOOSE k \in mutations : plan[k].target = id
Dropped(id) == Mutated(id) /\ plan[MutationOf(id)].action = "drop"
Replaced(id) == Mutated(id) /\ plan[MutationOf(id)].action = "replace"
New(k) == [id |-> plan[k].replacement.id, op |-> k]

Left(id) ==
  IF Dropped(id) THEN <<>>
  ELSE IF Replaced(id) THEN <<New(MutationOf(id))>> ELSE <<Original[id]>>
Base == FlattenSeq([i \in DOMAIN messages |-> Left(i)])

Rebuild ==
  /\ pc = "plan" /\ next > Len(plan)
  /\ IF Indexed(Base)
     THEN /\ segments' = Base /\ pc' = "add" /\ next' = 1
          /\ UNCHANGED <<messages, plan, keeps, mutations, adds, compacted>>
     ELSE Fail

(* resolvePosition, against the segments as they are now: how many of them *)
(* come first, or Nil.                                                     *)
Clamp(index) == IF index < 0 THEN 0 ELSE IF index > Len(segments) THEN Len(segments) ELSE index
Place(id) ==
  IF \E i \in DOMAIN segments : segments[i].id = id
  THEN CHOOSE i \in DOMAIN segments : segments[i].id = id
  ELSE Nil
Successor(index) == IF index = MaxInt THEN -MaxInt - 1 ELSE index + 1
After(position) ==
  IF position.segment # 0 THEN Place(position.segment) ELSE Clamp(Successor(position.index))
Before(position) ==
  IF position.segment = 0 THEN Clamp(position.index)
  ELSE IF Place(position.segment) = Nil THEN Nil ELSE Place(position.segment) - 1
Slot(position) ==
  CASE position.kind = "start" -> 0
    [] position.kind = "end" -> Len(segments)
    [] position.kind = "index" -> IF position.index \in 0 .. Len(segments) THEN position.index ELSE Nil
    [] position.kind = "before" -> Before(position)
    [] position.kind = "after" -> After(position)

Add ==
  /\ pc = "add" /\ next <= Len(adds)
  /\ LET op == plan[adds[next]]
         slot == Slot(op.position)
         longer == InsertAt(segments, slot + 1, New(adds[next]))
     IN IF slot # Nil /\ Indexed(longer)
        THEN /\ segments' = longer /\ next' = next + 1
             /\ UNCHANGED <<messages, plan, pc, keeps, mutations, adds, compacted>>
        ELSE Fail

(* compactedMessages: a segment is the message it was unless its           *)
(* identifier came with a replacement or an addition; a new message has a  *)
(* role and a content and nothing else: no input parts, tool calls, tool   *)
(* call identifier or name.  The estimates before and after and the record *)
(* of prompt.adjusted may fail.                                            *)
ReplacementsOnly ==  \* mutant of NewIDs: additions forgotten
  {plan[k].replacement.id : k \in {j \in DOMAIN plan : plan[j].action = "replace"}}
NewIDs ==
  {plan[k].replacement.id : k \in {j \in DOMAIN plan : plan[j].action \in {"replace", "add"}}}
Fresh(replacement) ==
  [role |-> replacement.role, text |-> replacement.text, input |-> <<>>, calls |-> <<>>,
   answers |-> "", name |-> ""]
CloneWithoutCalls(message) == [message EXCEPT !.calls = <<>>] \* mutant of Clone
Clone(message) == message
Message(s) ==
  IF s.id \in DOMAIN messages /\ s.id \notin NewIDs
  THEN Clone(messages[s.id])
  ELSE Fresh(plan[s.op].replacement)

Return ==
  /\ pc = "add" /\ next > Len(adds)
  /\ \/ /\ pc' = "compacted"
        /\ compacted' = [i \in DOMAIN segments |-> Message(segments[i])]
        /\ UNCHANGED <<messages, plan, next, keeps, mutations, adds, segments>>
     \/ Fail

Compaction == Examine \/ Reject \/ Rebuild \/ Add \/ Return
CompactionSpec == CompactionInit /\ [][Compaction]_compaction

-----------------------------------------------------------------------------
(* What a plan that was carried out has done to the conversation, stated   *)
(* without the order of the loops: each message is there as it was, or as  *)
(* its replacement, or was dropped, as the plan says; those left stand in  *)
(* their order; each addition is there once and where its position says,   *)
(* with nothing but later additions in between; and a message that was not *)
(* touched has kept its images, tool calls and the call it answers.  An    *)
(* index after MaxInt wraps round in the code and is left out.             *)
DropsOf(id) == \E k \in DOMAIN plan : plan[k].action = "drop" /\ plan[k].target = id
ReplacesOf(id) == {k \in DOMAIN plan : plan[k].action = "replace" /\ plan[k].target = id}
At(s) == {i \in DOMAIN segments : segments[i] = s}
ImageOf(id) ==
  IF DropsOf(id) THEN {}
  ELSE IF ReplacesOf(id) = {} THEN {[id |-> id, op |-> 0]} ELSE {New(k) : k \in ReplacesOf(id)}
LaterAdds(k, I) == \A i \in I : segments[i].op > k /\ plan[segments[i].op].action = "add"
Here(k) == CHOOSE i \in DOMAIN segments : segments[i].op = k
Earlier(k) == {i \in DOMAIN segments : ~LaterAdds(k, {i}) /\ i # Here(k)}
First(k) == Cardinality({i \in Earlier(k) : i < Here(k)})
Within(k, n) == IF n < 0 THEN 0 ELSE IF n > Cardinality(Earlier(k)) THEN Cardinality(Earlier(k)) ELSE n

NextTo(k, a) ==
  IF plan[k].position.kind = "before"
  THEN Here(k) < a /\ LaterAdds(k, Here(k) + 1 .. a - 1)
  ELSE a < Here(k) /\ LaterAdds(k, a + 1 .. Here(k) - 1)

PlacedBy(k) ==
  LET position == plan[k].position
  IN /\ position.kind = "start" => First(k) = 0
     /\ position.kind = "end" => First(k) = Cardinality(Earlier(k))
     /\ position.kind = "index" => First(k) = position.index
     /\ position.kind \in {"before", "after"} =>
          IF position.segment # 0
          THEN \E a \in DOMAIN segments : segments[a].id = position.segment /\ NextTo(k, a)
          ELSE \/ position.kind = "after" /\ position.index = MaxInt
               \/ First(k) = Within(k, IF position.kind = "before" THEN position.index ELSE position.index + 1)

PlanHonoured ==
  pc = "compacted" =>
    /\ Indexed(segments)
    /\ \A id \in DOMAIN messages : \A s \in ImageOf(id) : Cardinality(At(s)) = 1
    /\ \A id, other \in DOMAIN messages : id < other =>
         \A s \in ImageOf(id), t \in ImageOf(other) : \A i \in At(s), j \in At(t) : i < j
    /\ \A k \in DOMAIN plan : plan[k].action = "add" => Cardinality(At(New(k))) = 1 /\ PlacedBy(k)
    /\ \A i \in DOMAIN segments :
         \/ \E id \in DOMAIN messages : segments[i] \in ImageOf(id)
         \/ \E k \in DOMAIN plan : plan[k].action = "add" /\ segments[i] = New(k)
    /\ \A i \in DOMAIN compacted :
         IF segments[i].op = 0 THEN compacted[i] = messages[segments[i].id]
                               ELSE compacted[i] = Fresh(plan[segments[i].op].replacement)
=============================================================================
