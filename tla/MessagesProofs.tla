--------------------------- MODULE MessagesProofs ---------------------------
(***************************************************************************)
(* Theorems about what becomes of a conversation: compaction, for every    *)
(* conversation and every plan, however long; and what each provider makes *)
(* of what is left, and what is counted of it.                             *)
(***************************************************************************)
EXTENDS Messages, ListProofs

(***************************************************************************)
(* Compaction.                                                             *)
(***************************************************************************)
(* What has been checked of an operation, ...                              *)
SegmentType == [id : Nat, op : Nat]
Mutates(k) == plan[k].action \in {"drop", "replace"}
Checked(k) ==
  /\ plan[k].action \in Actions
  /\ plan[k].action # "add" => Target(plan[k])
  /\ Mutates(k) => k \in mutations
  /\ plan[k].action \in {"replace", "add"} => Replacement(plan[k])
  /\ plan[k].action = "add" => Shaped(plan[k].position) /\ \E i \in 1 .. Len(adds) : adds[i] = k

(* ... and of the first operations of the plan together.                   *)
Sorted(upto) ==
  /\ \A k \in mutations : k \in 1 .. upto /\ Mutates(k)
  /\ \A j, k \in mutations : plan[j].target = plan[k].target => j = k
  /\ adds \in Seq(Nat)
  /\ \A i \in 1 .. Len(adds) : adds[i] \in 1 .. upto /\ plan[adds[i]].action = "add"
  /\ \A i, j \in 1 .. Len(adds) : i < j => adds[i] < adds[j]
  /\ \A k \in 1 .. upto : Checked(k)

(* The segments after the first n additions.                               *)
InOrder ==
  \A id, other \in DOMAIN messages : id < other =>
    \A s \in ImageOf(id), t \in ImageOf(other) : \A i \in At(s), j \in At(t) : i < j
Sourced(n) ==
  \A i \in DOMAIN segments :
    \/ \E id \in DOMAIN messages : segments[i] \in ImageOf(id)
    \/ \E a \in 1 .. n : segments[i] = New(adds[a])
Built(n) ==
  /\ segments \in Seq(SegmentType) /\ Indexed(segments)
  /\ Sourced(n)
  /\ \A id \in DOMAIN messages : \A s \in ImageOf(id) : At(s) # {}
  /\ InOrder
  /\ \A a \in 1 .. n : At(New(adds[a])) # {} /\ PlacedBy(adds[a])

CompactionInv ==
  /\ messages \in Conversations /\ plan \in Plans
  /\ pc \in {"plan", "add", "compacted", "error"}
  /\ pc = "plan" => next \in 1 .. Len(plan) + 1 /\ Sorted(next - 1)
  /\ pc \in {"add", "compacted"} =>
       next \in 1 .. Len(adds) + 1 /\ Sorted(Len(plan)) /\ Built(next - 1)
  /\ PlanHonoured

-----------------------------------------------------------------------------
(* The plan and its operations.                                            *)
LEMMA PlanTyped ==
  ASSUME plan \in Plans
  PROVE  plan \in Seq(Op) /\ Len(plan) \in Nat /\ DOMAIN plan = 1 .. Len(plan)
  BY CompactAssumption

LEMMA OpTyped ==
  ASSUME plan \in Plans, NEW k \in 1 .. Len(plan)
  PROVE  /\ plan[k].target \in Nat
         /\ plan[k].position \in Position
         /\ Replacement(plan[k]) => plan[k].replacement.id \in Nat /\ plan[k].replacement.id # 0
<1>1. plan[k] \in Op
  BY PlanTyped
<1>2. QED
  BY <1>1 DEF Op, Replacement

LEMMA PositionTyped ==
  ASSUME NEW position \in Position
  PROVE  position.segment \in Nat /\ (position.index = Nil \/ position.index \in Int)
  BY DEF Position

LEMMA MessagesTyped ==
  ASSUME messages \in Conversations
  PROVE  Len(messages) \in Nat /\ DOMAIN messages = 1 .. Len(messages)
<1>1. messages \in Seq(Range(messages))
  BY CompactAssumption
<1>2. QED
  BY <1>1

LEMMA NewTyped ==
  ASSUME plan \in Plans, NEW k \in 1 .. Len(plan), Replacement(plan[k])
  PROVE  New(k) \in SegmentType /\ New(k).op = k /\ New(k).id = plan[k].replacement.id
  BY OpTyped, PlanTyped DEF New, SegmentType

(* What the loops of the code leave of a message is what the plan says.    *)
Facts == messages \in Conversations /\ plan \in Plans /\ Sorted(Len(plan))

LEMMA Mutating ==
  ASSUME Facts, NEW k
  PROVE  k \in mutations <=> k \in 1 .. Len(plan) /\ Mutates(k)
  BY DEF Facts, Sorted, Checked

LEMMA MutatedOnce ==
  ASSUME Facts, NEW k \in mutations
  PROVE  MutationOf(plan[k].target) = k /\ Mutated(plan[k].target)
  BY DEF Facts, Sorted, MutationOf, Mutated

LEMMA MutationIs ==
  ASSUME Facts, NEW id, Mutated(id)
  PROVE  MutationOf(id) \in mutations /\ plan[MutationOf(id)].target = id
  BY DEF MutationOf, Mutated

LEMMA DroppedMeans ==
  ASSUME Facts, NEW id
  PROVE  Dropped(id) <=> DropsOf(id)
<1>1. DOMAIN plan = 1 .. Len(plan)
  BY PlanTyped DEF Facts
<1>2. ASSUME Dropped(id) PROVE DropsOf(id)
  <2>1. MutationOf(id) \in 1 .. Len(plan) /\ plan[MutationOf(id)].target = id
    BY <1>2, MutationIs, Mutating DEF Dropped
  <2>2. QED
    BY <1>1, <1>2, <2>1 DEF Dropped, DropsOf
<1>3. ASSUME DropsOf(id) PROVE Dropped(id)
  <2>1. PICK k \in 1 .. Len(plan) : plan[k].action = "drop" /\ plan[k].target = id
    BY <1>1, <1>3 DEF DropsOf
  <2>2. k \in mutations
    BY <2>1, Mutating DEF Mutates
  <2>3. MutationOf(id) = k /\ Mutated(id)
    BY <2>1, <2>2, MutatedOnce
  <2>4. QED
    BY <2>1, <2>3 DEF Dropped
<1>4. QED
  BY <1>2, <1>3

LEMMA ReplacedMeans ==
  ASSUME Facts, NEW id
  PROVE  /\ Replaced(id) => ReplacesOf(id) = {MutationOf(id)}
         /\ ~Replaced(id) => ReplacesOf(id) = {}
<1>1. DOMAIN plan = 1 .. Len(plan)
  BY PlanTyped DEF Facts
<1>2. ASSUME NEW k \in ReplacesOf(id) PROVE Replaced(id) /\ k = MutationOf(id)
  <2>1. k \in 1 .. Len(plan) /\ plan[k].action = "replace" /\ plan[k].target = id
    BY <1>1, <1>2 DEF ReplacesOf
  <2>2. k \in mutations
    BY <2>1, Mutating DEF Mutates
  <2>3. QED
    BY <2>1, <2>2, MutatedOnce DEF Replaced
<1>3. ASSUME Replaced(id) PROVE MutationOf(id) \in ReplacesOf(id)
  <2>1. MutationOf(id) \in 1 .. Len(plan) /\ plan[MutationOf(id)].target = id
    BY <1>3, MutationIs, Mutating DEF Replaced
  <2>2. QED
    BY <1>1, <1>3, <2>1 DEF Replaced, ReplacesOf
<1>4. QED
  BY <1>2, <1>3

LEMMA ImageTyped ==
  ASSUME Facts, NEW id \in DOMAIN messages, NEW s \in ImageOf(id)
  PROVE  /\ s \in SegmentType
         /\ \/ s = [id |-> id, op |-> 0]
            \/ /\ s.op \in 1 .. Len(plan) /\ plan[s.op].action = "replace"
               /\ plan[s.op].target = id /\ s = New(s.op)
<1>1. id \in Nat
  BY MessagesTyped DEF Facts
<1>2. CASE s = [id |-> id, op |-> 0]
  BY <1>1, <1>2 DEF SegmentType
<1>3. CASE s # [id |-> id, op |-> 0]
  <2>1. PICK k \in ReplacesOf(id) : s = New(k)
    BY <1>3 DEF ImageOf
  <2>2. k \in 1 .. Len(plan) /\ plan[k].action = "replace" /\ plan[k].target = id
    BY <2>1, PlanTyped DEF ReplacesOf, Facts
  <2>3. Replacement(plan[k])
    BY <2>2 DEF Facts, Sorted, Checked
  <2>4. New(k) \in SegmentType /\ New(k).op = k
    BY <2>2, <2>3, NewTyped DEF Facts
  <2>5. QED
    BY <2>1, <2>2, <2>4
<1>4. QED
  BY <1>2, <1>3

LEMMA ImagesApart ==
  ASSUME Facts, NEW id \in DOMAIN messages, NEW other \in DOMAIN messages,
         NEW s \in ImageOf(id), s \in ImageOf(other)
  PROVE  id = other
<1>1. CASE s.op = 0
  BY <1>1, ImageTyped
<1>2. CASE s.op # 0
  <2>1. [id |-> id, op |-> 0].op = 0 /\ [id |-> other, op |-> 0].op = 0
    OBVIOUS
  <2>2. QED
    BY <1>2, <2>1, ImageTyped
<1>3. QED
  BY <1>1, <1>2

LEMMA LeftIs ==
  ASSUME Facts, NEW id \in DOMAIN messages
  PROVE  \/ Left(id) = <<>> /\ ImageOf(id) = {}
         \/ \E s \in SegmentType : Left(id) = <<s>> /\ ImageOf(id) = {s}
<1>1. CASE Dropped(id)
  BY <1>1, DroppedMeans DEF Left, ImageOf
<1>2. CASE ~Dropped(id) /\ Replaced(id)
  <2>1. ReplacesOf(id) = {MutationOf(id)} /\ ~DropsOf(id)
    BY <1>2, DroppedMeans, ReplacedMeans
  <2>2. ImageOf(id) = {New(MutationOf(id))}
    BY <2>1 DEF ImageOf
  <2>3. Left(id) = <<New(MutationOf(id))>>
    BY <1>2 DEF Left
  <2>4. New(MutationOf(id)) \in SegmentType
    BY <2>2, ImageTyped
  <2>5. QED
    BY <2>2, <2>3, <2>4
<1>3. CASE ~Dropped(id) /\ ~Replaced(id)
  <2>1. ReplacesOf(id) = {} /\ ~DropsOf(id)
    BY <1>3, DroppedMeans, ReplacedMeans
  <2>2. ImageOf(id) = {[id |-> id, op |-> 0]}
    BY <2>1 DEF ImageOf
  <2>3. Left(id) = <<[id |-> id, op |-> 0]>>
    BY <1>3 DEF Left, Original
  <2>4. [id |-> id, op |-> 0] \in SegmentType
    BY <2>2, ImageTyped
  <2>5. QED
    BY <2>2, <2>3, <2>4
<1>4. QED
  BY <1>1, <1>2, <1>3

(* The segments that are left, in the order of the messages.               *)
LEMMA BaseBuilt ==
  ASSUME Facts, segments' = Base, Indexed(Base), UNCHANGED <<messages, plan, mutations, adds>>
  PROVE  Built(0)'
<1> DEFINE n == Len(messages)
           lefts == [i \in 1 .. n |-> Left(i)]
<1>1. n \in Nat /\ DOMAIN messages = 1 .. n
  BY MessagesTyped DEF Facts
<1>2. ASSUME NEW id \in 1 .. n PROVE Left(id) \in Seq(SegmentType) /\ Len(Left(id)) \in {0, 1}
  <2>1. CASE Left(id) = <<>>
    BY <2>1
  <2>2. CASE Left(id) # <<>>
    <3>1. PICK s \in SegmentType : Left(id) = <<s>>
      BY <1>1, <2>2, LeftIs
    <3>2. QED
      BY <3>1
  <2>3. QED
    BY <2>1, <2>2
<1> HIDE DEF n
<1>3. lefts \in Seq(Seq(SegmentType)) /\ Len(lefts) = n /\ \A i \in 1 .. n : lefts[i] = Left(i)
  BY <1>1, <1>2
<1>4. Base = FlattenSeq(lefts)
  BY <1>1 DEF Base
<1> HIDE DEF lefts
<1>5. Base \in Seq(SegmentType)
  BY <1>3, <1>4, FlattenTyped
<1>6. PICK o : Origins(o, Base, lefts)
  <2>1. \A i \in 1 .. Len(lefts) : Len(lefts[i]) \in {0, 1}
    BY <1>2, <1>3
  <2>2. QED
    BY <1>3, <1>4, <2>1, FlattenOrigins
<1>7. DOMAIN Base = 1 .. Len(Base)
  BY <1>5
<1>8. ASSUME NEW p \in DOMAIN Base
      PROVE  o[p] \in DOMAIN messages /\ Left(o[p]) = <<Base[p]>> /\ ImageOf(o[p]) = {Base[p]}
  <2>1. o[p] \in 1 .. n /\ lefts[o[p]] = <<Base[p]>>
    BY <1>3, <1>6, <1>7, <1>8 DEF Origins
  <2>2. Left(o[p]) = <<Base[p]>> /\ o[p] \in DOMAIN messages
    BY <1>1, <1>3, <2>1
  <2>3. QED
    BY <2>2, LeftIs
<1>9. ASSUME NEW id \in DOMAIN messages, NEW s \in ImageOf(id), NEW p \in DOMAIN Base, Base[p] = s
      PROVE  o[p] = id
  BY <1>8, <1>9, ImagesApart
<1>10. ASSUME NEW id \in DOMAIN messages, NEW s \in ImageOf(id)
       PROVE  \E p \in DOMAIN Base : Base[p] = s
  <2>1. Left(id) = <<s>>
    BY <1>10, LeftIs
  <2>2. lefts[id] # <<>> /\ id \in 1 .. n
    BY <1>1, <1>3, <2>1
  <2>3. PICK p \in DOMAIN Base : o[p] = id
    BY <1>3, <1>6, <1>7, <2>2 DEF Origins
  <2>4. <<Base[p]>> = <<s>>
    BY <1>8, <2>1, <2>3
  <2>5. QED
    BY <2>4
<1>11. Sourced(0)'
  BY <1>8 DEF Sourced, ImageOf, DropsOf, ReplacesOf, New
<1>12. \A id \in DOMAIN messages' : \A s \in ImageOf(id)' : At(s)' # {}
  BY <1>10 DEF At, ImageOf, DropsOf, ReplacesOf, New
<1>13. InOrder'
  <2>1. ASSUME NEW id \in DOMAIN messages, NEW other \in DOMAIN messages, id < other,
               NEW s \in ImageOf(id), NEW t \in ImageOf(other),
               NEW i \in DOMAIN Base, Base[i] = s, NEW j \in DOMAIN Base, Base[j] = t
        PROVE  i < j
    <3>1. o[i] = id /\ o[j] = other
      BY <1>9, <2>1
    <3>2. i \in Nat /\ j \in Nat /\ (j < i => o[j] < o[i])
      BY <1>5, <1>6, <1>7 DEF Origins
    <3>3. id \in Nat /\ other \in Nat
      BY <1>1
    <3>4. QED
      BY <2>1, <3>1, <3>2, <3>3
  <2>2. QED
    BY <2>1 DEF InOrder, At, ImageOf, DropsOf, ReplacesOf, New
<1>14. QED
  BY <1>5, <1>11, <1>12, <1>13 DEF Built, Indexed

-----------------------------------------------------------------------------
(* An addition: the segments behind the slot move on by one.               *)
Inserts(slot, k) ==
  /\ segments \in Seq(SegmentType) /\ New(k) \in SegmentType
  /\ slot \in 0 .. Len(segments)
  /\ segments' = InsertAt(segments, slot + 1, New(k))
  /\ UNCHANGED <<messages, plan, mutations, adds>>

LEMMA Inserted ==
  ASSUME NEW slot, NEW k, Inserts(slot, k)
  PROVE  /\ Len(segments) \in Nat /\ slot \in 0 .. Len(segments)
         /\ DOMAIN segments = 1 .. Len(segments)
         /\ segments' \in Seq(SegmentType)
         /\ DOMAIN segments' = 1 .. Len(segments) + 1
         /\ segments'[slot + 1] = New(k)
         /\ \A i \in 1 .. Len(segments) : segments'[Moved(slot, i)] = segments[i]
<1>1. segments \in Seq(SegmentType) /\ New(k) \in SegmentType /\ slot \in 0 .. Len(segments)
  BY DEF Inserts
<1>2. segments' = InsertAt(segments, slot + 1, New(k))
  BY DEF Inserts
<1> DEFINE longer == InsertAt(segments, slot + 1, New(k))
<1>3. /\ longer \in Seq(SegmentType)
      /\ Len(longer) = Len(segments) + 1
      /\ longer[slot + 1] = New(k)
      /\ \A i \in 1 .. Len(segments) : longer[Moved(slot, i)] = segments[i]
  BY <1>1, InsertAtIs
<1> HIDE DEF longer
<1>4. DOMAIN longer = 1 .. Len(segments) + 1
  BY <1>3
<1>5. segments' = longer
  BY <1>2 DEF longer
<1>6. QED
  BY <1>1, <1>3, <1>4, <1>5

(* No two segments have one operation.                                     *)
OneEach == \A i, j \in DOMAIN segments : segments[i].op # 0 /\ segments[i].op = segments[j].op => i = j

LEMMA OnePlace ==
  ASSUME Indexed(segments), NEW i \in DOMAIN segments, NEW j \in DOMAIN segments,
         segments[i].id = segments[j].id
  PROVE  i = j
  BY DEF Indexed, IsInjective

LEMMA SourcesOne ==
  ASSUME Facts, NEW n \in 0 .. Len(adds), Sourced(n), Indexed(segments)
  PROVE  /\ OneEach
         /\ \A i \in DOMAIN segments :
              \/ segments[i].op = 0
              \/ /\ segments[i].op \in 1 .. Len(plan) /\ segments[i] = New(segments[i].op)
                 /\ \/ plan[segments[i].op].action = "replace"
                    \/ \E a \in 1 .. n : segments[i].op = adds[a]
<1>1. ASSUME NEW i \in DOMAIN segments
      PROVE  \/ segments[i].op = 0
             \/ /\ segments[i].op \in 1 .. Len(plan) /\ segments[i] = New(segments[i].op)
                /\ \/ plan[segments[i].op].action = "replace"
                   \/ \E a \in 1 .. n : segments[i].op = adds[a]
  <2>1. CASE \E id \in DOMAIN messages : segments[i] \in ImageOf(id)
    <3>1. PICK id \in DOMAIN messages : segments[i] \in ImageOf(id)
      BY <2>1
    <3>2. [id |-> id, op |-> 0].op = 0
      OBVIOUS
    <3>3. QED
      BY <3>1, <3>2, ImageTyped
  <2>2. CASE \E a \in 1 .. n : segments[i] = New(adds[a])
    <3>1. PICK a \in 1 .. n : segments[i] = New(adds[a])
      BY <2>2
    <3>2. adds[a] \in 1 .. Len(plan)
      BY <3>1 DEF Facts, Sorted
    <3>3. New(adds[a]).op = adds[a]
      BY DEF New
    <3>4. QED
      BY <3>1, <3>2, <3>3
  <2>3. QED
    BY <2>1, <2>2 DEF Sourced
<1>2. ASSUME NEW i \in DOMAIN segments, NEW j \in DOMAIN segments,
             segments[i].op # 0, segments[i].op = segments[j].op
      PROVE  i = j
  <2>1. segments[i] = segments[j]
    BY <1>1, <1>2
  <2>2. QED
    BY <2>1, OnePlace
<1>3. QED
  BY <1>1, <1>2 DEF OneEach

LEMMA HereIs ==
  ASSUME OneEach, NEW h \in DOMAIN segments, segments[h].op # 0
  PROVE  Here(segments[h].op) = h
  BY DEF OneEach, Here

LEMMA Steady ==
  ASSUME UNCHANGED plan, NEW k
  PROVE  ImageOf(k)' = ImageOf(k) /\ New(k)' = New(k)
  BY DEF ImageOf, DropsOf, ReplacesOf, New

(* The slot is where the position says.                                    *)
Fits(slot, position) ==
  LET length == Len(segments)
  IN  /\ slot \in 0 .. length
      /\ position.kind = "start" => slot = 0
      /\ position.kind = "end" => slot = length
      /\ position.kind = "index" => slot = position.index
      /\ position.kind \in {"before", "after"} /\ position.segment # 0 =>
           \E a \in 1 .. length :
             /\ segments[a].id = position.segment
             /\ slot = IF position.kind = "before" THEN a - 1 ELSE a
      /\ position.kind \in {"before", "after"} /\ position.segment = 0
        /\ ~(position.kind = "after" /\ position.index = MaxInt) =>
           LET n == IF position.kind = "before" THEN position.index ELSE position.index + 1
           IN  n \in Int /\ slot = IF n < 0 THEN 0 ELSE IF n > length THEN length ELSE n

LEMMA SlotFits ==
  ASSUME NEW position \in Position, Shaped(position), segments \in Seq(SegmentType),
         NEW slot, slot = Slot(position), slot # Nil
  PROVE  Fits(slot, position)
<1> DEFINE length == Len(segments)
<1>1. length \in Nat /\ DOMAIN segments = 1 .. length
  OBVIOUS
<1>2. position.segment \in Nat /\ (position.index = Nil \/ position.index \in Int)
  BY PositionTyped
<1> HIDE DEF length, Fits
<1>3. position.kind \in {"start", "end", "index", "before", "after"}
  BY DEF Shaped
<1>4. CASE position.kind = "start"
  BY <1>1, <1>4 DEF Slot, Fits, length
<1>5. CASE position.kind = "end"
  <2>1. slot = length
    BY <1>5 DEF Slot, length
  <2>2. QED
    BY <1>1, <1>5, <2>1 DEF length, Fits
<1>6. CASE position.kind = "index"
  <2>1. slot = position.index /\ slot \in 0 .. length
    BY <1>6 DEF Slot, length
  <2>2. QED
    BY <1>6, <2>1 DEF length, Fits
<1>7. CASE position.kind \in {"before", "after"} /\ position.segment # 0
  <2>1. Place(position.segment) # Nil
    BY <1>7 DEF Slot, Before, After
  <2>2. /\ Place(position.segment) \in 1 .. length
        /\ segments[Place(position.segment)].id = position.segment
    BY <1>1, <2>1 DEF Place
  <2>3. CASE position.kind = "before"
    <3>1. slot = Place(position.segment) - 1
      BY <1>7, <2>1, <2>3 DEF Slot, Before
    <3>2. QED
      BY <1>1, <1>7, <2>2, <2>3, <3>1 DEF length, Fits
  <2>4. CASE position.kind = "after"
    <3>1. slot = Place(position.segment)
      BY <1>7, <2>4 DEF Slot, After
    <3>2. QED
      BY <1>1, <1>7, <2>2, <2>4, <3>1 DEF length, Fits
  <2>5. QED
    BY <1>7, <2>3, <2>4
<1>8. CASE position.kind \in {"before", "after"} /\ position.segment = 0
  <2>1. position.index \in Int
    BY <1>2, <1>8 DEF Shaped
  <2>2. MaxInt \in Nat
    BY CompactAssumption
  <2>3. \A n \in Int : Clamp(n) \in 0 .. length /\ Clamp(n) = IF n < 0 THEN 0 ELSE IF n > length THEN length ELSE n
    BY <1>1 DEF Clamp, length
  <2>4. CASE position.kind = "before"
    <3>1. slot = Clamp(position.index)
      BY <1>8, <2>4 DEF Slot, Before
    <3>2. QED
      BY <1>8, <2>1, <2>3, <2>4, <3>1 DEF length, Fits
  <2>5. CASE position.kind = "after"
    <3>1. slot = Clamp(Successor(position.index))
      BY <1>8, <2>5 DEF Slot, After
    <3>2. Successor(position.index) \in Int
      BY <2>1, <2>2 DEF Successor
    <3>3. position.index # MaxInt => Successor(position.index) = position.index + 1
      BY DEF Successor
    <3>4. QED
      BY <1>8, <2>1, <2>3, <2>5, <3>1, <3>2, <3>3 DEF length, Fits
  <2>6. QED
    BY <1>8, <2>4, <2>5
<1>9. QED
  BY <1>3, <1>4, <1>5, <1>6, <1>7, <1>8

(* What was placed where its position says stays there: only later         *)
(* additions come between.                                                 *)
LEMMA OldPlaced ==
  ASSUME Facts, NEW n \in Nat, n + 1 \in 1 .. Len(adds), NEW slot, Inserts(slot, adds[n + 1]),
         OneEach, OneEach', NEW b \in 1 .. n, At(New(adds[b])) # {}, PlacedBy(adds[b])
  PROVE  PlacedBy(adds[b])'
<1> DEFINE k == adds[b]
           new == adds[n + 1]
           length == Len(segments)
<1>1. /\ k \in Nat /\ k # 0 /\ new \in Nat /\ new > k /\ plan[new].action = "add"
  BY DEF Facts, Sorted
<1>2. k' = k /\ plan' = plan
  BY DEF Inserts
<1>3. /\ length \in Nat /\ slot \in 0 .. length
      /\ DOMAIN segments = 1 .. length
      /\ DOMAIN segments' = 1 .. length + 1
      /\ segments'[slot + 1] = New(new)
      /\ \A i \in 1 .. length : segments'[Moved(slot, i)] = segments[i]
  BY Inserted
<1>4. \A i \in 1 .. length : segments[i].op \in Nat
  <2>1. segments \in Seq(SegmentType)
    BY DEF Inserts
  <2>2. ASSUME NEW i \in 1 .. Len(segments) PROVE segments[i] \in SegmentType
    BY <2>1
  <2>3. QED
    BY <2>2 DEF SegmentType
<1>5. PICK h \in 1 .. length : segments[h] = New(k)
  BY <1>3 DEF At
<1>6. New(k).op = k /\ New(new).op = new
  BY DEF New
<1> HIDE DEF k, new, length
<1> USE <1>2
<1>7. Here(k) = h
  BY <1>1, <1>3, <1>5, <1>6 DEF OneEach, Here
<1> DEFINE M(i) == Moved(slot, i)
<1>8. /\ \A i \in 1 .. length : M(i) \in 1 .. length + 1 /\ M(i) # slot + 1
      /\ \A i, j \in 1 .. length : M(i) < M(j) <=> i < j
      /\ \A i, j \in 1 .. length : M(i) = M(j) => i = j
      /\ \A j \in 1 .. length + 1 : j # slot + 1 => \E i \in 1 .. length : M(i) = j
  <2>1. \A j \in 1 .. length + 1 : j # slot + 1 => Back(slot, j) \in 1 .. length /\ M(Back(slot, j)) = j
    BY <1>3, MovedIs
  <2>2. QED
    BY <1>3, <2>1, MovedIs
<1>9. \A i \in 1 .. length : segments'[M(i)] = segments[i]
  BY <1>3
<1> HIDE DEF M
<1>10. Here(k') = h /\ Here(k)' = M(h)
  <2>1. M(h) \in DOMAIN segments' /\ segments'[M(h)].op = k
    BY <1>3, <1>5, <1>6, <1>8, <1>9
  <2>2. \A i \in DOMAIN segments' : segments'[i].op = k => i = M(h)
    BY <1>1, <2>1 DEF OneEach
  <2>3. QED
    BY <1>7, <2>1, <2>2 DEF Here
<1>11. \A i \in 1 .. length : LaterAdds(k, {i}) <=> LaterAdds(k, {M(i)})'
  BY <1>9 DEF LaterAdds
<1>12. LaterAdds(k, {slot + 1})'
  BY <1>1, <1>3, <1>6 DEF LaterAdds
<1>13. Earlier(k) \in SUBSET (1 .. length) /\ Earlier(k)' \in SUBSET (1 .. length + 1)
  BY <1>3 DEF Earlier
<1>14. \A j \in 1 .. length + 1 : j \in Earlier(k)' <=> \E i \in Earlier(k) : j = M(i)
  <2>1. ASSUME NEW i \in 1 .. length PROVE i \in Earlier(k) <=> M(i) \in Earlier(k)'
    <3>1. i # h <=> M(i) # M(h)
      BY <1>8
    <3>2. QED
      BY <1>3, <1>7, <1>8, <1>10, <1>11, <3>1 DEF Earlier
  <2>2. slot + 1 \notin Earlier(k)'
    BY <1>12 DEF Earlier
  <2>3. QED
    BY <1>8, <1>13, <2>1, <2>2
<1>15. Cardinality(Earlier(k)') = Cardinality(Earlier(k))
  <2> DEFINE A == Earlier(k)
             B == Earlier(k)'
  <2>1. length \in Nat /\ slot \in 0 .. length
    BY <1>3
  <2>2. \A j \in 1 .. length + 1 : j \in B <=> \E i \in A : j = Moved(slot, i)
    BY <1>14 DEF M
  <2> HIDE DEF A, B
  <2>3. A \in SUBSET (1 .. length) /\ B \in SUBSET (1 .. length + 1)
    BY <1>13 DEF A, B
  <2>4. Cardinality(B) = Cardinality(A)
    BY <2>1, <2>2, <2>3, AsMany
  <2>5. QED
    BY <2>4 DEF A, B
<1>16. First(k)' = First(k)
  <2> DEFINE A == {i \in Earlier(k) : i < h}
             B == {i \in Earlier(k)' : i < M(h)}
  <2>1. A \in SUBSET (1 .. length) /\ B \in SUBSET (1 .. length + 1)
    BY <1>13
  <2>2. \A j \in 1 .. length + 1 : j \in B <=> \E i \in A : j = M(i)
    BY <1>8, <1>13, <1>14
  <2>3. Cardinality(B) = Cardinality(A)
    <3> HIDE DEF A, B
    <3>1. length \in Nat /\ slot \in 0 .. length
      BY <1>3
    <3>2. \A j \in 1 .. length + 1 : j \in B <=> \E i \in A : j = Moved(slot, i)
      BY <2>2 DEF M
    <3>3. QED
      BY <2>1, <3>1, <3>2, AsMany
  <2>4. QED
    BY <1>7, <1>10, <2>3 DEF First
<1>17. Within(k, plan[k].position.index)' = Within(k, plan[k].position.index)
  BY <1>15 DEF Within
<1>18. Within(k, plan[k].position.index + 1)' = Within(k, plan[k].position.index + 1)
  BY <1>15 DEF Within
<1>19. ASSUME NEW a \in 1 .. length, segments[a].id = plan[k].position.segment, NextTo(k, a)
       PROVE  \E c \in DOMAIN segments' : segments'[c].id = plan[k].position.segment /\ NextTo(k, c)'
  <2>1. M(a) \in DOMAIN segments' /\ segments'[M(a)].id = plan[k].position.segment
    BY <1>3, <1>8, <1>9, <1>19
  <2>2. ASSUME NEW from \in 1 .. length, NEW to \in 1 .. length, LaterAdds(k, from + 1 .. to - 1)
        PROVE  LaterAdds(k, M(from) + 1 .. M(to) - 1)'
    <3>1. ASSUME NEW j \in M(from) + 1 .. M(to) - 1
          PROVE  segments'[j].op > k /\ plan[segments'[j].op].action = "add"
      <4>1. j \in 1 .. length + 1 /\ M(from) < j /\ j < M(to)
        <5>1. M(from) \in 1 .. length + 1 /\ M(to) \in 1 .. length + 1
          BY <1>8
        <5>2. QED
          BY <1>3, <3>1, <5>1
      <4>2. CASE j = slot + 1
        BY <1>12, <4>2 DEF LaterAdds
      <4>3. CASE j # slot + 1
        <5>1. PICK i \in 1 .. length : M(i) = j
          BY <1>8, <4>1, <4>3
        <5>2. from < i /\ i < to
          BY <1>8, <4>1, <5>1
        <5>3. i \in from + 1 .. to - 1
          BY <1>3, <5>2
        <5>4. QED
          BY <1>9, <2>2, <5>1, <5>3 DEF LaterAdds
      <4>4. QED
        BY <4>2, <4>3
    <3>2. QED
      BY <3>1 DEF LaterAdds
  <2>3. NextTo(k, M(a))'
    BY <1>7, <1>8, <1>10, <1>19, <2>2 DEF NextTo
  <2>4. QED
    BY <2>1, <2>3
<1>20. QED
  <2> DEFINE position == plan[k].position
  <2>1. position' = position
    OBVIOUS
  <2>2. PlacedBy(k)
    BY DEF k
  <2>3. ASSUME position.kind \in {"before", "after"}, position.segment # 0
        PROVE  \E c \in DOMAIN segments' : segments'[c].id = position.segment /\ NextTo(k, c)'
    <3>1. PICK a \in DOMAIN segments : segments[a].id = position.segment /\ NextTo(k, a)
      BY <2>2, <2>3 DEF PlacedBy
    <3>2. QED
      BY <1>3, <1>19, <3>1
  <2>4. ASSUME position.kind \in {"before", "after"}, position.segment = 0,
               ~(position.kind = "after" /\ position.index = MaxInt)
        PROVE  First(k)' = Within(k, IF position.kind = "before" THEN position.index ELSE position.index + 1)'
    <3>1. First(k) = Within(k, IF position.kind = "before" THEN position.index ELSE position.index + 1)
      BY <2>2, <2>4 DEF PlacedBy
    <3>2. QED
      BY <1>16, <1>17, <1>18, <3>1
  <2>5. PlacedBy(k)'
    BY <1>15, <1>16, <2>2, <2>3, <2>4 DEF PlacedBy
  <2>6. QED
    BY <2>5 DEF k

(* The addition itself is where its position says: none of those before it *)
(* is a later one.                                                         *)
LEMMA NewPlaced ==
  ASSUME Facts, NEW n \in Nat, n + 1 \in 1 .. Len(adds), NEW slot, Inserts(slot, adds[n + 1]),
         Sourced(n), Indexed(segments), OneEach',
         Fits(slot, plan[adds[n + 1]].position)
  PROVE  PlacedBy(adds[n + 1])'
<1> DEFINE k == adds[n + 1]
           length == Len(segments)
           position == plan[k].position
<1>1. /\ k \in 1 .. Len(plan) /\ k # 0 /\ plan[k].action = "add"
      /\ \A a \in 1 .. n : adds[a] < k
  <2>1. k \in 1 .. Len(plan) /\ plan[k].action = "add"
    BY DEF Facts, Sorted
  <2>2. ASSUME NEW a \in 1 .. n PROVE adds[a] < k
    <3>1. Len(adds) \in Nat
      BY DEF Facts, Sorted
    <3>2. a \in 1 .. Len(adds) /\ a < n + 1
      BY <3>1
    <3>3. QED
      BY <3>2 DEF Facts, Sorted
  <2>3. QED
    BY <2>1, <2>2
<1>2. k' = k /\ plan' = plan
  BY DEF Inserts
<1>3. /\ length \in Nat /\ slot \in 0 .. length
      /\ DOMAIN segments = 1 .. length
      /\ DOMAIN segments' = 1 .. length + 1
      /\ segments'[slot + 1] = New(k)
      /\ \A i \in 1 .. length : segments'[Moved(slot, i)] = segments[i]
  BY Inserted
<1>4. New(k).op = k
  BY DEF New
<1>5. ASSUME NEW i \in 1 .. length
      PROVE  ~(segments[i].op > k /\ plan[segments[i].op].action = "add")
  <2>1. n \in 0 .. Len(adds)
    BY DEF Facts, Sorted
  <2>2. CASE segments[i].op = 0
    BY <1>1, <2>2
  <2>3. CASE plan[segments[i].op].action = "replace"
    BY <2>3
  <2>4. CASE \E a \in 1 .. n : segments[i].op = adds[a]
    <3>1. PICK a \in 1 .. n : segments[i].op = adds[a]
      BY <2>4
    <3>2. adds[a] \in Nat /\ adds[a] < k
      BY <1>1, <2>1, <3>1, SMTT(30) DEF Facts, Sorted
    <3>3. QED
      BY <1>1, <3>1, <3>2
  <2>5. QED
    BY <1>3, <2>1, <2>2, <2>3, <2>4, SourcesOne
<1>6. Fits(slot, position)
  OBVIOUS
<1> HIDE DEF k, length, position
<1> USE <1>2
<1>7. position' = position /\ plan[k].position = position
  BY DEF position
<1>8. Here(k)' = slot + 1 /\ Here(k') = Here(k)
  <2>1. slot + 1 \in DOMAIN segments' /\ segments'[slot + 1].op = k
    BY <1>3, <1>4
  <2>2. \A i \in DOMAIN segments' : segments'[i].op = k => i = slot + 1
    BY <1>1, <2>1 DEF OneEach
  <2>3. QED
    BY <2>1, <2>2 DEF Here
<1>9. \A i \in 1 .. length : Moved(slot, i) \in 1 .. length + 1 /\ Moved(slot, i) # slot + 1
  BY <1>3, MovedIs
<1>10. \A j \in 1 .. length + 1 : j # slot + 1 => \E i \in 1 .. length : Moved(slot, i) = j
  <2>1. \A j \in 1 .. length + 1 : j # slot + 1 => Back(slot, j) \in 1 .. length /\ Moved(slot, Back(slot, j)) = j
    BY <1>3, MovedIs
  <2>2. QED
    BY <2>1
<1>11. \A j \in 1 .. length + 1 : j \in Earlier(k)' <=> j # slot + 1
  <2>1. ASSUME NEW j \in 1 .. length + 1, j # slot + 1 PROVE ~LaterAdds(k, {j})'
    <3>1. PICK i \in 1 .. length : Moved(slot, i) = j
      BY <1>10, <2>1
    <3>2. segments'[j] = segments[i]
      BY <1>3, <3>1
    <3>3. QED
      BY <1>5, <3>2 DEF LaterAdds
  <2>2. QED
    BY <1>3, <1>8, <2>1 DEF Earlier
<1>12. Earlier(k)' \in SUBSET (1 .. length + 1)
  BY <1>3 DEF Earlier
<1>13. \A j \in 1 .. length + 1 : j \in Earlier(k)' <=> \E i \in 1 .. length : j = Moved(slot, i)
  BY <1>9, <1>10, <1>11
<1>14. Cardinality(1 .. length) = length /\ Cardinality(1 .. slot) = slot
  <2>1. length \in Nat /\ slot \in Nat
    BY <1>3
  <2>2. \A m \in Nat : Cardinality(1 .. m) = m
    <3>1. \A m \in Nat : 1 \in Int /\ m \in Int /\ m - 1 + 1 = m /\ (1 > m <=> m = 0)
      OBVIOUS
    <3>2. QED
      BY <3>1, FS_Interval
  <2>3. QED
    BY <2>1, <2>2
<1>15. Cardinality(Earlier(k)') = length
  <2> DEFINE A == 1 .. length
             B == Earlier(k)'
  <2>1. length \in Nat /\ slot \in 0 .. length
    BY <1>3
  <2>2. \A j \in 1 .. length + 1 : j \in B <=> \E i \in A : j = Moved(slot, i)
    BY <1>13
  <2> HIDE DEF A, B
  <2>3. A \in SUBSET (1 .. length) /\ B \in SUBSET (1 .. length + 1)
    BY <1>12 DEF A, B
  <2>4. Cardinality(B) = Cardinality(A)
    BY <2>1, <2>2, <2>3, AsMany
  <2>5. QED
    BY <1>14, <2>4 DEF A, B
<1>16. First(k)' = slot
  <2> DEFINE B == {i \in Earlier(k)' : i < slot + 1}
  <2>1. B = 1 .. slot
    BY <1>3, <1>11, <1>12
  <2>2. First(k)' = Cardinality(B)
    BY <1>8 DEF First
  <2>3. QED
    BY <1>14, <2>1, <2>2
<1>17. \A m \in Int : Within(k, m)' = IF m < 0 THEN 0 ELSE IF m > length THEN length ELSE m
  BY <1>15 DEF Within
<1>18. /\ position.kind = "start" => slot = 0
       /\ position.kind = "end" => slot = length
       /\ position.kind = "index" => slot = position.index
  BY <1>6 DEF length, Fits
<1>19. ASSUME position.kind \in {"before", "after"}, position.segment # 0
       PROVE  \E c \in DOMAIN segments' : segments'[c].id = position.segment /\ NextTo(k, c)'
  <2>1. PICK a \in 1 .. length :
          segments[a].id = position.segment /\ slot = IF position.kind = "before" THEN a - 1 ELSE a
    BY <1>6, <1>19 DEF length, Fits
  <2>2. segments'[Moved(slot, a)].id = position.segment /\ Moved(slot, a) \in DOMAIN segments'
    BY <1>3, <1>9, <2>1
  <2>3. CASE position.kind = "before"
    <3>1. Moved(slot, a) = slot + 2
      BY <1>3, <2>1, <2>3 DEF Moved
    <3>2. slot + 1 < slot + 2 /\ (slot + 1) + 1 .. (slot + 2) - 1 = {}
      BY <1>3
    <3>3. NextTo(k, slot + 2)'
      BY <1>7, <1>8, <2>3, <3>2 DEF NextTo, LaterAdds
    <3>4. QED
      BY <2>2, <3>1, <3>3
  <2>4. CASE position.kind = "after"
    <3>1. Moved(slot, a) = slot
      BY <1>3, <2>1, <2>4 DEF Moved
    <3>2. slot < slot + 1 /\ slot + 1 .. (slot + 1) - 1 = {}
      BY <1>3
    <3>3. NextTo(k, slot)'
      BY <1>7, <1>8, <2>4, <3>2 DEF NextTo, LaterAdds
    <3>4. QED
      BY <2>2, <3>1, <3>3
  <2>5. QED
    BY <1>19, <2>3, <2>4
<1>20. ASSUME position.kind \in {"before", "after"}, position.segment = 0,
              ~(position.kind = "after" /\ position.index = MaxInt)
       PROVE  First(k)' = Within(k, IF position.kind = "before" THEN position.index ELSE position.index + 1)'
  <2> DEFINE m == IF position.kind = "before" THEN position.index ELSE position.index + 1
  <2>1. m \in Int /\ slot = IF m < 0 THEN 0 ELSE IF m > length THEN length ELSE m
    BY <1>6, <1>20 DEF length, Fits
  <2>2. m' = m
    BY <1>7
  <2> HIDE DEF m
  <2>3. Within(k, m)' = slot
    BY <1>17, <2>1, <2>2
  <2>4. First(k)' = Within(k, m)'
    BY <1>16, <2>3
  <2>5. QED
    BY <2>4 DEF m
<1>21. PlacedBy(k)'
  BY <1>7, <1>15, <1>16, <1>18, <1>19, <1>20 DEF PlacedBy
<1>22. QED
  BY <1>21 DEF k

LEMMA AddBuilt ==
  ASSUME Facts, NEW n \in Nat, n + 1 \in 1 .. Len(adds), Built(n),
         NEW slot, slot = Slot(plan[adds[n + 1]].position), slot # Nil,
         segments' = InsertAt(segments, slot + 1, New(adds[n + 1])), Indexed(segments'),
         UNCHANGED <<messages, plan, mutations, adds>>
  PROVE  Built(n + 1)'
<1> DEFINE k == adds[n + 1]
           length == Len(segments)
<1>1. /\ k \in 1 .. Len(plan) /\ plan[k].action = "add" /\ Replacement(plan[k])
      /\ Shaped(plan[k].position) /\ plan[k].position \in Position
  <2>1. k \in 1 .. Len(plan) /\ plan[k].action = "add"
    BY DEF Facts, Sorted
  <2>2. QED
    BY <2>1, OpTyped DEF Facts, Sorted, Checked
<1>2. segments \in Seq(SegmentType) /\ Sourced(n) /\ Indexed(segments) /\ InOrder
  BY DEF Built
<1>3. Fits(slot, plan[k].position) /\ slot \in 0 .. length
  <2>1. Fits(slot, plan[k].position)
    BY <1>1, <1>2, SlotFits
  <2>2. QED
    BY <2>1 DEF Fits
<1>4. New(k) \in SegmentType /\ New(k).op = k
  BY <1>1, NewTyped DEF Facts
<1>5. Inserts(slot, k)
  BY <1>2, <1>3, <1>4 DEF Inserts
<1>6. /\ length \in Nat /\ slot \in 0 .. length
      /\ DOMAIN segments = 1 .. length
      /\ segments' \in Seq(SegmentType)
      /\ DOMAIN segments' = 1 .. length + 1
      /\ segments'[slot + 1] = New(k)
      /\ \A i \in 1 .. length : segments'[Moved(slot, i)] = segments[i]
  BY <1>5, Inserted
<1>7. \A x : ImageOf(x)' = ImageOf(x) /\ New(x)' = New(x)
  BY Steady
<1> HIDE DEF length
<1>8. /\ \A i \in 1 .. length : Moved(slot, i) \in 1 .. length + 1
      /\ \A i, j \in 1 .. length : Moved(slot, i) < Moved(slot, j) <=> i < j
  <2>1. length \in Nat /\ slot \in 0 .. length
    BY <1>6
  <2>2. QED
    BY <2>1, MovedIs, ZenonT(60)
<1>9. \A j \in 1 .. length + 1 : j # slot + 1 => \E i \in 1 .. length : Moved(slot, i) = j
  <2>1. \A j \in 1 .. length + 1 : j # slot + 1 => Back(slot, j) \in 1 .. length /\ Moved(slot, Back(slot, j)) = j
    BY <1>6, MovedIs
  <2>2. QED
    BY <2>1
<1>10. Sourced(n + 1)'
  <2>1. ASSUME NEW j \in DOMAIN segments'
        PROVE  \/ \E id \in DOMAIN messages : segments'[j] \in ImageOf(id)
               \/ \E a \in 1 .. n + 1 : segments'[j] = New(adds[a])
    <3>1. CASE j = slot + 1
      BY <1>6, <3>1
    <3>2. CASE j # slot + 1
      <4>1. PICK i \in 1 .. length : Moved(slot, i) = j
        BY <1>6, <1>9, <3>2
      <4>2. segments'[j] = segments[i] /\ i \in DOMAIN segments
        BY <1>6, <4>1
      <4>3. 1 .. n \subseteq 1 .. n + 1
        OBVIOUS
      <4>4. QED
        BY <1>2, <4>2, <4>3 DEF Sourced
    <3>3. QED
      BY <3>1, <3>2
  <2>2. QED
    BY <1>7, <2>1 DEF Sourced
<1>11. ASSUME NEW s, At(s) # {} PROVE At(s)' # {}
  <2>1. PICK i \in 1 .. length : segments[i] = s
    BY <1>6, <1>11 DEF At
  <2>2. Moved(slot, i) \in DOMAIN segments' /\ segments'[Moved(slot, i)] = s
    BY <1>6, <1>8, <2>1
  <2>3. s' = s => Moved(slot, i) \in At(s)'
    BY <2>2 DEF At
  <2>4. QED
    BY <2>2 DEF At
<1>12. \A id \in DOMAIN messages' : \A s \in ImageOf(id)' : At(s)' # {}
  BY <1>7, <1>11 DEF Built
<1>13. ASSUME NEW id \in DOMAIN messages, NEW s \in ImageOf(id), NEW j \in DOMAIN segments', segments'[j] = s
       PROVE  \E i \in At(s) : i \in 1 .. length /\ Moved(slot, i) = j
  <2>1. j # slot + 1
    <3>1. s.op = 0 \/ plan[s.op].action = "replace"
      <4>1. [id |-> id, op |-> 0].op = 0
        OBVIOUS
      <4>2. QED
        BY <4>1, ImageTyped
    <3>2. s # New(k)
      BY <1>1, <1>4, <3>1
    <3>3. QED
      BY <1>6, <1>13, <3>2
  <2>2. PICK i \in 1 .. length : Moved(slot, i) = j
    BY <1>6, <1>9, <2>1
  <2>3. QED
    BY <1>6, <1>13, <2>2 DEF At
<1>14. InOrder'
  <2>1. ASSUME NEW id \in DOMAIN messages, NEW other \in DOMAIN messages, id < other,
               NEW s \in ImageOf(id), NEW t \in ImageOf(other),
               NEW i \in DOMAIN segments', segments'[i] = s, NEW j \in DOMAIN segments', segments'[j] = t
        PROVE  i < j
    <3>1. PICK c \in At(s) : c \in 1 .. length /\ Moved(slot, c) = i
      BY <1>13, <2>1
    <3>2. PICK d \in At(t) : d \in 1 .. length /\ Moved(slot, d) = j
      BY <1>13, <2>1
    <3>3. c < d
      BY <1>2, <2>1, <3>1, <3>2 DEF InOrder
    <3>4. QED
      BY <1>8, <3>1, <3>2, <3>3
  <2>2. QED
    BY <1>7, <2>1 DEF InOrder, At
<1>15. OneEach /\ OneEach'
  <2>1. OneEach
    BY <1>2, SourcesOne DEF Facts, Sorted
  <2>2. ASSUME NEW i \in DOMAIN segments', NEW j \in DOMAIN segments',
               segments'[i].op # 0, segments'[i].op = segments'[j].op
        PROVE  i = j
    <3>1. segments'[i] = segments'[j]
      <4>1. ASSUME NEW c \in DOMAIN segments', segments'[c].op # 0
            PROVE  segments'[c] = New(segments'[c].op)
        <5>1. CASE c = slot + 1
          BY <1>4, <1>6, <5>1
        <5>2. CASE c # slot + 1
          <6>1. PICK b \in 1 .. length : Moved(slot, b) = c
            BY <1>6, <1>9, <5>2
          <6>2. segments'[c] = segments[b] /\ b \in DOMAIN segments
            BY <1>6, <6>1
          <6>3. n \in 0 .. Len(adds)
            BY DEF Facts, Sorted
          <6>4. QED
            BY <1>2, <4>1, <6>2, <6>3, SourcesOne
        <5>3. QED
          BY <5>1, <5>2
      <4>2. QED
        BY <2>2, <4>1
    <3>2. QED
      BY <3>1 DEF Indexed, IsInjective
  <2>3. QED
    BY <2>1, <2>2 DEF OneEach
<1>16. ASSUME NEW a \in 1 .. n + 1 PROVE At(New(adds[a]))' # {} /\ PlacedBy(adds[a])'
  <2>1. CASE a = n + 1
    <3>1. slot + 1 \in DOMAIN segments' /\ segments'[slot + 1] = New(k)'
      BY <1>6, <1>7
    <3>2. At(New(k))' # {}
      BY <3>1 DEF At
    <3>3. PlacedBy(k)'
      BY <1>2, <1>3, <1>5, <1>15, NewPlaced
    <3>4. QED
      BY <2>1, <3>2, <3>3
  <2>2. CASE a \in 1 .. n
    <3>1. At(New(adds[a])) # {} /\ PlacedBy(adds[a])
      BY <2>2 DEF Built
    <3>2. At(New(adds[a]))' # {}
      BY <1>7, <1>11, <3>1 DEF At
    <3>3. PlacedBy(adds[a])'
      BY <1>5, <1>15, <2>2, <3>1, OldPlaced
    <3>4. QED
      BY <3>2, <3>3
  <2>3. QED
    BY <2>1, <2>2
<1>17. QED
  BY <1>6, <1>10, <1>12, <1>14, <1>16 DEF Built, Indexed

-----------------------------------------------------------------------------
(* The result: a segment is in one place, and is the message it was or     *)
(* what the plan replaced or added.                                        *)
LEMMA OneAt ==
  ASSUME Indexed(segments), NEW s, At(s) # {}
  PROVE  Cardinality(At(s)) = 1
<1>1. PICK i \in DOMAIN segments : segments[i] = s
  BY DEF At
<1>2. At(s) = {i}
  BY <1>1, OnePlace DEF At
<1>3. QED
  BY <1>2, FS_Singleton

(* Every replacement and addition of the plan is among the segments.       *)
LEMMA AllThere ==
  ASSUME Facts, Built(Len(adds)), NEW k \in 1 .. Len(plan), plan[k].action \in {"replace", "add"}
  PROVE  \E j \in DOMAIN segments : segments[j] = New(k)
<1>1. CASE plan[k].action = "add"
  <2>1. PICK a \in 1 .. Len(adds) : adds[a] = k
    BY <1>1 DEF Facts, Sorted, Checked
  <2>2. QED
    BY <2>1 DEF Built, At
<1>2. CASE plan[k].action = "replace"
  <2>1. k \in mutations /\ plan[k].target \in DOMAIN messages
    BY <1>2 DEF Facts, Sorted, Checked, Mutates, Target
  <2>2. MutationOf(plan[k].target) = k /\ Mutated(plan[k].target)
    BY <2>1, MutatedOnce
  <2>3. ~DropsOf(plan[k].target)
    BY <1>2, <2>2, DroppedMeans DEF Dropped
  <2>4. ReplacesOf(plan[k].target) = {k}
    BY <1>2, <2>2, ReplacedMeans DEF Replaced
  <2>5. New(k) \in ImageOf(plan[k].target)
    BY <2>3, <2>4 DEF ImageOf
  <2>6. QED
    BY <2>1, <2>5 DEF Built, At
<1>3. QED
  BY <1>1, <1>2

LEMMA MessageIs ==
  ASSUME Facts, Built(Len(adds)), NEW i \in DOMAIN segments
  PROVE  Message(segments[i]) = IF segments[i].op = 0 THEN messages[segments[i].id]
                                                      ELSE Fresh(plan[segments[i].op].replacement)
<1>1. DOMAIN plan = 1 .. Len(plan)
  BY PlanTyped DEF Facts
<1>2. Indexed(segments) /\ Sourced(Len(adds)) /\ Len(adds) \in 0 .. Len(adds)
  BY DEF Built, Facts, Sorted
<1>3. \A k : New(k).op = k /\ New(k).id = plan[k].replacement.id
  BY DEF New
<1>4. CASE segments[i].op = 0
  <2>1. segments[i].id \in DOMAIN messages
    <3>1. CASE \E id \in DOMAIN messages : segments[i] \in ImageOf(id)
      <4>1. PICK id \in DOMAIN messages : segments[i] \in ImageOf(id)
        BY <3>1
      <4>2. segments[i] = [id |-> id, op |-> 0]
        BY <1>4, <4>1, ImageTyped
      <4>3. segments[i].id = id
        BY <4>2
      <4>4. QED
        BY <4>3
    <3>2. CASE \E a \in 1 .. Len(adds) : segments[i] = New(adds[a])
      <4>1. PICK a \in 1 .. Len(adds) : segments[i] = New(adds[a])
        BY <3>2
      <4>2. adds[a] # 0
        BY DEF Facts, Sorted
      <4>3. QED
        BY <1>3, <1>4, <4>1, <4>2
    <3>3. QED
      BY <1>2, <3>1, <3>2 DEF Sourced
  <2>2. segments[i].id \notin NewIDs
    <3>1. SUFFICES ASSUME NEW k \in 1 .. Len(plan), plan[k].action \in {"replace", "add"},
                          plan[k].replacement.id = segments[i].id
                   PROVE  FALSE
      BY <1>1 DEF NewIDs
    <3>2. PICK j \in DOMAIN segments : segments[j] = New(k)
      BY <3>1, AllThere
    <3>3. i = j
      BY <1>2, <1>3, <3>1, <3>2, OnePlace
    <3>4. QED
      BY <1>3, <1>4, <3>2, <3>3
  <2>3. QED
    BY <1>4, <2>1, <2>2 DEF Message, Clone
<1>5. CASE segments[i].op # 0
  <2>1. /\ segments[i].op \in 1 .. Len(plan) /\ segments[i] = New(segments[i].op)
        /\ \/ plan[segments[i].op].action = "replace"
           \/ \E a \in 1 .. Len(adds) : segments[i].op = adds[a]
    BY <1>2, <1>5, SourcesOne
  <2>2. plan[segments[i].op].action \in {"replace", "add"}
    BY <2>1 DEF Facts, Sorted
  <2>3. segments[i].id = plan[segments[i].op].replacement.id
    BY <1>3, <2>1
  <2>4. segments[i].id \in NewIDs
    BY <1>1, <2>1, <2>2, <2>3 DEF NewIDs
  <2>5. QED
    BY <1>5, <2>4 DEF Message
<1>6. QED
  BY <1>4, <1>5

LEMMA Honours ==
  ASSUME Facts, Built(Len(adds)), compacted' = [i \in DOMAIN segments |-> Message(segments[i])],
         UNCHANGED <<messages, plan, segments>>
  PROVE  PlanHonoured'
<1>1. Indexed(segments)
  BY DEF Built
<1>2. \A id \in DOMAIN messages : \A s \in ImageOf(id) : Cardinality(At(s)) = 1
  BY <1>1, OneAt DEF Built
<1>3. ASSUME NEW k \in DOMAIN plan, plan[k].action = "add"
      PROVE  Cardinality(At(New(k))) = 1 /\ PlacedBy(k)
  <2>1. k \in 1 .. Len(plan)
    BY PlanTyped DEF Facts
  <2>2. PICK a \in 1 .. Len(adds) : adds[a] = k
    BY <1>3, <2>1 DEF Facts, Sorted, Checked
  <2>3. At(New(k)) # {} /\ PlacedBy(k)
    BY <2>2 DEF Built
  <2>4. QED
    BY <1>1, <2>3, OneAt
<1>4. ASSUME NEW i \in DOMAIN segments
      PROVE  \/ \E id \in DOMAIN messages : segments[i] \in ImageOf(id)
             \/ \E k \in DOMAIN plan : plan[k].action = "add" /\ segments[i] = New(k)
  <2>1. \A a \in 1 .. Len(adds) : adds[a] \in DOMAIN plan /\ plan[adds[a]].action = "add"
    BY PlanTyped DEF Facts, Sorted
  <2>2. QED
    BY <2>1 DEF Built, Sourced
<1>5. ASSUME NEW i \in DOMAIN compacted'
      PROVE  IF segments[i].op = 0 THEN compacted'[i] = messages[segments[i].id]
                                   ELSE compacted'[i] = Fresh(plan[segments[i].op].replacement)
  <2>1. i \in DOMAIN segments /\ compacted'[i] = Message(segments[i])
    OBVIOUS
  <2>2. QED
    BY <2>1, MessageIs
<1>6. \A k : ImageOf(k)' = ImageOf(k) /\ New(k)' = New(k)
  BY Steady
<1>7. \A s : At(s)' = At(s)
  BY DEF At
<1>8. \A k : PlacedBy(k)' = PlacedBy(k)
  BY DEF PlacedBy, First, Earlier, Here, LaterAdds, Within, NextTo
<1>9. Indexed(segments)'
  BY <1>1 DEF Indexed
<1>10. \A id \in DOMAIN messages' : \A s \in ImageOf(id)' : Cardinality(At(s)') = 1
  BY <1>2, <1>6, <1>7
<1>11. \A id, other \in DOMAIN messages' : id < other =>
         \A s \in ImageOf(id)', t \in ImageOf(other)' : \A i \in At(s)', j \in At(t)' : i < j
  <2>1. InOrder
    BY DEF Built
  <2>2. QED
    BY <1>6, <1>7, <2>1 DEF InOrder
<1>12. \A k \in DOMAIN plan' : plan'[k].action = "add" => Cardinality(At(New(k)))' = 1 /\ PlacedBy(k)'
  BY <1>3, <1>6, <1>7, <1>8
<1>13. \A i \in DOMAIN segments' :
         \/ \E id \in DOMAIN messages' : segments'[i] \in ImageOf(id)'
         \/ \E k \in DOMAIN plan' : plan'[k].action = "add" /\ segments'[i] = New(k)'
  BY <1>4, <1>6
<1>14. \A i \in DOMAIN compacted' :
         IF segments'[i].op = 0 THEN compacted'[i] = messages'[segments'[i].id]
                                ELSE compacted'[i] = Fresh(plan'[segments'[i].op].replacement)
  BY <1>5
<1>15. QED
  BY <1>9, <1>10, <1>11, <1>12, <1>13, <1>14 DEF PlanHonoured

-----------------------------------------------------------------------------
(* The loops.                                                              *)
LEMMA SegmentsStay ==
  ASSUME UNCHANGED <<messages, plan, segments>>
  PROVE  /\ \A k : ImageOf(k)' = ImageOf(k) /\ New(k)' = New(k)
         /\ \A k : At(k)' = At(k)
         /\ \A k : PlacedBy(k)' = PlacedBy(k)
<1>1. \A k : ImageOf(k)' = ImageOf(k) /\ New(k)' = New(k)
  BY Steady
<1>2. \A k : At(k)' = At(k)
  BY DEF At
<1>3. \A k : PlacedBy(k)' = PlacedBy(k)
  BY DEF PlacedBy, First, Earlier, Here, LaterAdds, Within, NextTo
<1>4. QED
  BY <1>1, <1>2, <1>3

LEMMA BuiltStays ==
  ASSUME NEW n, Built(n), UNCHANGED <<messages, plan, adds, segments>>
  PROVE  Built(n)'
<1>1. Sourced(n)'
  BY SegmentsStay DEF Built, Sourced
<1>2. InOrder'
  BY SegmentsStay DEF Built, InOrder
<1>3. Indexed(segments)' /\ segments' \in Seq(SegmentType)
  BY DEF Built, Indexed
<1>4. \A id \in DOMAIN messages' : \A s \in ImageOf(id)' : At(s)' # {}
  BY SegmentsStay DEF Built
<1>5. \A a \in 1 .. n : At(New(adds[a]))' # {} /\ PlacedBy(adds[a])'
  BY SegmentsStay DEF Built
<1>6. QED
  BY <1>1, <1>2, <1>3, <1>4, <1>5 DEF Built

LEMMA SortedStays ==
  ASSUME NEW n, Sorted(n), UNCHANGED <<messages, plan, mutations, adds>>
  PROVE  Sorted(n)'
  BY DEF Sorted, Checked, Mutates, Target

LEMMA HonouredStays ==
  ASSUME PlanHonoured, UNCHANGED <<messages, plan, pc, segments, compacted>>
  PROVE  PlanHonoured'
<1>1. Indexed(segments)' = Indexed(segments)
  BY DEF Indexed
<1>2. QED
  BY <1>1, SegmentsStay DEF PlanHonoured

LEMMA CompactionStarts == CompactionInit => CompactionInv
<1> SUFFICES ASSUME CompactionInit PROVE CompactionInv
  OBVIOUS
<1>1. messages \in Conversations /\ plan \in Plans /\ pc = "plan" /\ next = 1 /\ mutations = {} /\ adds = <<>>
  BY DEF CompactionInit
<1>2. next \in 1 .. Len(plan) + 1
  BY <1>1, PlanTyped
<1>3. Sorted(next - 1)
  <2>1. next - 1 = 0 /\ Len(adds) = 0 /\ adds \in Seq(Nat)
    BY <1>1
  <2>2. QED
    BY <1>1, <2>1 DEF Sorted
<1>4. QED
  BY <1>1, <1>2, <1>3 DEF CompactionInv, PlanHonoured

LEMMA Aborts ==
  ASSUME CompactionInv, Fail
  PROVE  CompactionInv'
  BY DEF CompactionInv, Fail, PlanHonoured

(* An operation is sorted in.                                              *)
LEMMA SortedIn ==
  ASSUME plan \in Plans, NEW n \in 1 .. Len(plan), Sorted(n - 1), UNCHANGED <<messages, plan>>,
         \/ /\ plan[n].action = "keep" /\ Target(plan[n])
            /\ UNCHANGED <<mutations, adds>>
         \/ /\ plan[n].action \in {"drop", "replace"} /\ MayMutate(plan[n])
            /\ mutations' = mutations \cup {n}
            /\ UNCHANGED adds
         \/ /\ plan[n].action = "add" /\ Replacement(plan[n]) /\ Shaped(plan[n].position)
            /\ adds' = Append(adds, n)
            /\ UNCHANGED mutations
  PROVE  Sorted(n)'
<1>1. /\ \A k \in mutations : k \in 1 .. n - 1 /\ Mutates(k)
      /\ \A j, k \in mutations : plan[j].target = plan[k].target => j = k
      /\ adds \in Seq(Nat)
      /\ \A i \in 1 .. Len(adds) : adds[i] \in 1 .. n - 1 /\ plan[adds[i]].action = "add"
      /\ \A i, j \in 1 .. Len(adds) : i < j => adds[i] < adds[j]
      /\ \A k \in 1 .. n - 1 : Checked(k)
  BY DEF Sorted
<1>2. Len(plan) \in Nat /\ 1 .. n - 1 \subseteq 1 .. n /\ n \notin 1 .. n - 1
      /\ (\A k \in 1 .. n : k = n \/ k \in 1 .. n - 1)
  BY PlanTyped
<1>3. \A k : Mutates(k)' = Mutates(k)
  BY DEF Mutates
<1>4. CASE /\ plan[n].action = "keep" /\ Target(plan[n])
           /\ UNCHANGED <<mutations, adds>>
  <2>1. Checked(n)'
    BY <1>4 DEF Checked, Mutates, Target, Actions
  <2>2. \A k \in 1 .. n - 1 : Checked(k)'
    BY <1>1, <1>4 DEF Checked, Mutates, Target
  <2>3. \A k \in 1 .. n : Checked(k)'
    BY <1>2, <2>1, <2>2
  <2>4. QED
    BY <1>1, <1>2, <1>3, <1>4, <2>3 DEF Sorted
<1>5. CASE /\ plan[n].action \in {"drop", "replace"} /\ MayMutate(plan[n])
           /\ mutations' = mutations \cup {n}
           /\ UNCHANGED adds
  <2>1. Checked(n)'
    BY <1>5 DEF Checked, Mutates, Target, Actions, MayMutate
  <2>2. \A k \in 1 .. n - 1 : Checked(k)'
    BY <1>1, <1>5 DEF Checked, Mutates, Target
  <2>3. \A k \in 1 .. n : Checked(k)'
    BY <1>2, <2>1, <2>2
  <2>4. \A k \in mutations : plan[k].target # plan[n].target
    BY <1>5 DEF MayMutate, Mutated
  <2>5. \A j, k \in mutations' : plan'[j].target = plan'[k].target => j = k
    BY <1>1, <1>5, <2>4
  <2>6. \A k \in mutations' : k \in 1 .. n /\ Mutates(k)'
    BY <1>1, <1>2, <1>3, <1>5 DEF Mutates
  <2>7. QED
    BY <1>1, <1>2, <1>5, <2>3, <2>5, <2>6 DEF Sorted
<1>6. CASE /\ plan[n].action = "add" /\ Replacement(plan[n]) /\ Shaped(plan[n].position)
           /\ adds' = Append(adds, n)
           /\ UNCHANGED mutations
  <2> DEFINE l == Len(adds)
  <2>1. /\ adds' \in Seq(Nat) /\ l \in Nat /\ Len(adds') = l + 1
        /\ adds'[l + 1] = n
        /\ \A i \in 1 .. l : adds'[i] = adds[i]
    BY <1>1, <1>6
  <2>2. \A i \in 1 .. l : adds[i] \in 1 .. n - 1 /\ plan[adds[i]].action = "add"
    BY <1>1
  <2>3. \A i, j \in 1 .. l : i < j => adds[i] < adds[j]
    BY <1>1
  <2>4. \A k \in 1 .. n - 1 : plan[k].action = "add" => \E i \in 1 .. l : adds[i] = k
    BY <1>1 DEF Checked
  <2> HIDE DEF l
  <2>5. \A i \in 1 .. l + 1 : i = l + 1 \/ i \in 1 .. l
    BY <2>1
  <2>6. \A i \in 1 .. l + 1 : adds'[i] \in 1 .. n /\ plan'[adds'[i]].action = "add"
    BY <1>2, <1>6, <2>1, <2>2, <2>5
  <2>7. \A i, j \in 1 .. l + 1 : i < j => adds'[i] < adds'[j]
    <3>1. SUFFICES ASSUME NEW i \in 1 .. l + 1, NEW j \in 1 .. l + 1, i < j PROVE adds'[i] < adds'[j]
      OBVIOUS
    <3>2. i \in 1 .. l
      BY <2>1, <3>1
    <3>3. CASE j = l + 1
      BY <2>1, <2>2, <3>2, <3>3
    <3>4. CASE j \in 1 .. l
      BY <2>1, <2>3, <3>1, <3>2, <3>4
    <3>5. QED
      BY <2>5, <3>3, <3>4
  <2>8. Checked(n)'
    <3>1. \E i \in 1 .. Len(adds') : adds'[i] = n
      BY <2>1
    <3>2. QED
      BY <1>6, <3>1 DEF Checked, Mutates, Actions
  <2>9. ASSUME NEW k \in 1 .. n - 1 PROVE Checked(k)'
    <3>1. Checked(k)
      BY <1>1
    <3>2. plan[k].action = "add" => \E i \in 1 .. Len(adds') : adds'[i] = k
      <4>1. ASSUME plan[k].action = "add" PROVE \E i \in 1 .. Len(adds') : adds'[i] = k
        <5>1. PICK i \in 1 .. l : adds[i] = k
          BY <2>4, <4>1
        <5>2. i \in 1 .. Len(adds') /\ adds'[i] = k
          BY <2>1, <5>1
        <5>3. QED
          BY <5>2
      <4>2. QED
        BY <4>1
    <3>3. QED
      BY <1>6, <3>1, <3>2 DEF Checked, Mutates, Target
  <2>10. \A k \in 1 .. n : Checked(k)'
    BY <1>2, <2>8, <2>9
  <2>11. \A k \in mutations' : k \in 1 .. n /\ Mutates(k)'
    BY <1>1, <1>2, <1>3, <1>6
  <2>12. \A j, k \in mutations' : plan'[j].target = plan'[k].target => j = k
    BY <1>1, <1>6
  <2>13. QED
    BY <2>1, <2>6, <2>7, <2>10, <2>11, <2>12 DEF Sorted
<1>7. QED
  BY <1>4, <1>5, <1>6

LEMMA Examines ==
  ASSUME CompactionInv, Examine
  PROVE  CompactionInv'
<1>1. /\ messages \in Conversations /\ plan \in Plans
      /\ pc = "plan" /\ next \in 1 .. Len(plan) + 1 /\ next <= Len(plan) /\ Sorted(next - 1)
  BY DEF CompactionInv, Examine
<1>2. UNCHANGED <<messages, plan, pc, segments, compacted>> /\ next' = next + 1
  BY DEF Examine
<1>3. next \in 1 .. Len(plan) /\ next + 1 \in 1 .. Len(plan) + 1 /\ (next + 1) - 1 = next
  BY <1>1, PlanTyped
<1>4. Sorted(next - 1)'
  <2>1. PICK m : m = next
    OBVIOUS
  <2>2. \/ /\ plan[m].action = "keep" /\ Target(plan[m])
           /\ UNCHANGED <<mutations, adds>>
        \/ /\ plan[m].action \in {"drop", "replace"} /\ MayMutate(plan[m])
           /\ mutations' = mutations \cup {m}
           /\ UNCHANGED adds
        \/ /\ plan[m].action = "add" /\ Replacement(plan[m]) /\ Shaped(plan[m].position)
           /\ adds' = Append(adds, m)
           /\ UNCHANGED mutations
    BY <2>1 DEF Examine
  <2>3. m \in 1 .. Len(plan) /\ Sorted(m - 1)
    BY <1>1, <1>3, <2>1
  <2>4. Sorted(m)'
    BY <1>1, <1>2, <2>2, <2>3, SortedIn
  <2>5. next' - 1 = m
    BY <1>2, <1>3, <2>1
  <2>6. QED
    BY <2>4, <2>5
<1>5. next' \in 1 .. Len(plan') + 1
  BY <1>2, <1>3
<1>6. QED
  BY <1>1, <1>2, <1>4, <1>5 DEF CompactionInv, PlanHonoured

LEMMA Rebuilds ==
  ASSUME CompactionInv, Rebuild
  PROVE  CompactionInv'
<1>1. /\ messages \in Conversations /\ plan \in Plans
      /\ pc = "plan" /\ next \in 1 .. Len(plan) + 1 /\ next > Len(plan) /\ Sorted(next - 1)
  BY DEF CompactionInv, Rebuild
<1>2. next - 1 = Len(plan)
  BY <1>1, PlanTyped
<1>3. Facts
  BY <1>1, <1>2 DEF Facts
<1>4. CASE Fail
  BY <1>4, Aborts
<1>5. CASE ~Fail
  <2>1. /\ segments' = Base /\ pc' = "add" /\ next' = 1 /\ Indexed(Base)
        /\ UNCHANGED <<messages, plan, keeps, mutations, adds, compacted>>
    BY <1>5 DEF Rebuild
  <2>2. Built(0)'
    BY <1>3, <2>1, BaseBuilt
  <2>3. Sorted(Len(plan))'
    BY <1>3, <2>1 DEF Facts, Sorted, Checked, Mutates, Target
  <2>4. next' \in 1 .. Len(adds') + 1 /\ next' - 1 = 0
    BY <1>1, <2>1 DEF Sorted
  <2>5. QED
    BY <1>1, <2>1, <2>2, <2>3, <2>4 DEF CompactionInv, PlanHonoured
<1>6. QED
  BY <1>4, <1>5

LEMMA AddsNext ==
  ASSUME CompactionInv, Add
  PROVE  CompactionInv'
<1>1. /\ messages \in Conversations /\ plan \in Plans
      /\ pc = "add" /\ next \in 1 .. Len(adds) + 1 /\ next <= Len(adds)
      /\ Sorted(Len(plan)) /\ Built(next - 1)
  BY DEF CompactionInv, Add
<1>2. Facts
  BY <1>1 DEF Facts
<1>3. CASE Fail
  BY <1>3, Aborts
<1>4. CASE ~Fail
  <2> DEFINE slot == Slot(plan[adds[next]].position)
             n == next - 1
  <2>1. /\ slot # Nil /\ segments' = InsertAt(segments, slot + 1, New(adds[next])) /\ next' = next + 1
        /\ Indexed(InsertAt(segments, slot + 1, New(adds[next])))
        /\ UNCHANGED <<messages, plan, pc, keeps, mutations, adds, compacted>>
    BY <1>4 DEF Add
  <2>2. Len(adds) \in Nat
    BY <1>1 DEF Sorted
  <2>3. n \in Nat /\ n + 1 = next /\ n + 1 \in 1 .. Len(adds)
    BY <1>1, <2>2
  <2>4. Built(n)
    BY <1>1
  <2>5. PICK m, s : m = n /\ s = slot
    OBVIOUS
  <2> HIDE DEF slot, n
  <2>6. /\ m \in Nat /\ m + 1 \in 1 .. Len(adds) /\ m + 1 = next /\ Built(m)
        /\ s = Slot(plan[adds[m + 1]].position) /\ s # Nil
        /\ segments' = InsertAt(segments, s + 1, New(adds[m + 1]))
        /\ Indexed(segments')
    BY <2>1, <2>3, <2>4, <2>5 DEF slot
  <2>7. Built(m + 1)'
    BY <1>2, <2>1, <2>6, AddBuilt
  <2>8. /\ m + 1 = next' - 1
        /\ next' \in 1 .. Len(adds') + 1
    BY <1>1, <2>1, <2>2, <2>6
  <2>9. Sorted(Len(plan))'
    BY <1>1, <2>1, SortedStays
  <2>10. pc' = "add" /\ messages' \in Conversations /\ plan' \in Plans
    BY <1>1, <2>1
  <2>11. PlanHonoured'
    BY <2>10 DEF PlanHonoured
  <2>12. Built(next - 1)'
    BY <2>7, <2>8
  <2>13. next' \in 1 .. Len(adds') + 1
    BY <2>8
  <2>14. QED
    BY <2>9, <2>10, <2>11, <2>12, <2>13 DEF CompactionInv
<1>5. QED
  BY <1>3, <1>4

LEMMA Returns ==
  ASSUME CompactionInv, Return
  PROVE  CompactionInv'
<1>1. /\ messages \in Conversations /\ plan \in Plans
      /\ pc = "add" /\ next \in 1 .. Len(adds) + 1 /\ next > Len(adds)
      /\ Sorted(Len(plan)) /\ Built(next - 1)
  BY DEF CompactionInv, Return
<1>2. Facts
  BY <1>1 DEF Facts
<1>3. CASE Fail
  BY <1>3, Aborts
<1>4. CASE ~Fail
  <2>1. /\ pc' = "compacted"
        /\ compacted' = [i \in DOMAIN segments |-> Message(segments[i])]
        /\ UNCHANGED <<messages, plan, next, keeps, mutations, adds, segments>>
    BY <1>4 DEF Return
  <2>2. next - 1 = Len(adds)
    <3>1. Len(adds) \in Nat
      BY <1>1 DEF Sorted
    <3>2. QED
      BY <1>1, <3>1
  <2>3. PlanHonoured'
    BY <1>1, <1>2, <2>1, <2>2, Honours
  <2>4. Sorted(Len(plan))'
    BY <1>1, <2>1, SortedStays
  <2>5. Built(next - 1)'
    <3>1. PICK m : m = next - 1
      OBVIOUS
    <3>2. Built(m)'
      BY <1>1, <2>1, <3>1, BuiltStays
    <3>3. QED
      BY <2>1, <3>1, <3>2
  <2>6. QED
    BY <1>1, <2>1, <2>3, <2>4, <2>5 DEF CompactionInv
<1>5. QED
  BY <1>3, <1>4

LEMMA CompactionSteps == CompactionInv /\ [Compaction]_compaction => CompactionInv'
<1> SUFFICES ASSUME CompactionInv, [Compaction]_compaction PROVE CompactionInv'
  OBVIOUS
<1>1. CASE Examine
  BY <1>1, Examines
<1>2. CASE Reject
  BY <1>2, Aborts DEF Reject
<1>3. CASE Rebuild
  BY <1>3, Rebuilds
<1>4. CASE Add
  BY <1>4, AddsNext
<1>5. CASE Return
  BY <1>5, Returns
<1>6. CASE UNCHANGED compaction
  <2>1. UNCHANGED <<messages, plan, pc, next, mutations, adds, segments, compacted>>
    BY <1>6 DEF compaction
  <2>2. PICK m : m = next - 1
    OBVIOUS
  <2>3. Sorted(m) => Sorted(next - 1)'
    BY <2>1, <2>2, SortedStays
  <2>4. Built(m) => Built(next - 1)'
    BY <2>1, <2>2, BuiltStays
  <2>5. Sorted(Len(plan)) => Sorted(Len(plan))'
    BY <2>1, SortedStays
  <2>6. PlanHonoured'
    BY <2>1, HonouredStays DEF CompactionInv
  <2>7. QED
    BY <2>1, <2>2, <2>3, <2>4, <2>5, <2>6 DEF CompactionInv
<1>7. QED
  BY <1>1, <1>2, <1>3, <1>4, <1>5, <1>6 DEF Compaction

(* What compaction returns is what the plan says, for any conversation and *)
(* any plan, however many operations it has.                               *)
THEOREM PlansHonoured == CompactionSpec => []PlanHonoured
<1>1. CompactionInv => PlanHonoured
  BY DEF CompactionInv
<1>2. QED
  BY <1>1, CompactionStarts, CompactionSteps, PTL DEF CompactionSpec

(***************************************************************************)
(* What a provider makes of a conversation.                                *)
(***************************************************************************)
(* The parts of a request.                                                 *)
LEMMA LeafTyped ==
  ASSUME NEW line \in STRING
  PROVE  /\ Text(line) \in LeafType /\ Text(line) \in PartType
         /\ Image(line) \in LeafType /\ Image(line) \in PartType
<1>1. <<>> \in Seq(LeafType)
  OBVIOUS
<1>2. QED
  BY <1>1 DEF Text, Image, Part, LeafType, PartType, Optional

LEMMA TextTyped ==
  ASSUME NEW text \in Seq(STRING)
  PROVE  Lines(text) \in Seq(LeafType) /\ Lines(text) \in Seq(PartType)
<1>1. \A k \in 1 .. Len(text) : text[k] \in STRING
  OBVIOUS
<1>2. \A k \in 1 .. Len(text) : Text(text[k]) \in LeafType /\ Text(text[k]) \in PartType
  BY <1>1, LeafTyped
<1>3. QED
  BY <1>2 DEF Lines

LEMMA CallTyped == ASSUME NEW call \in ToolCall PROVE Call(call) \in PartType
<1>1. call.id \in STRING /\ call.name \in STRING
  BY DEF ToolCall
<1>2. <<>> \in Seq(LeafType)
  OBVIOUS
<1>3. QED
  BY <1>1, <1>2 DEF Call, Part, PartType, Optional

LEMMA PartsTyped ==
  ASSUME NEW message \in MessageType
  PROVE  /\ InputParts(message) \in Seq(LeafType)
         /\ InputParts(message) \in Seq(PartType)
         /\ Content(message) \in Seq(LeafType)
         /\ Content(message) \in Seq(PartType)
         /\ Calls(message) \in Seq(PartType)
<1>1. message.text \in Seq(STRING) /\ message.input \in Seq(InputPart) /\ message.calls \in Seq(ToolCall)
  BY DEF MessageType
<1>2. Content(message) \in Seq(LeafType) /\ Content(message) \in Seq(PartType)
  BY <1>1, TextTyped DEF Content
<1>3. ASSUME NEW i \in 1 .. Len(message.input)
      PROVE  PartsOf(message.input[i]) \in Seq(LeafType) /\ PartsOf(message.input[i]) \in Seq(PartType)
  <2>1. PICK part \in InputPart : part = message.input[i]
    BY <1>1
  <2>2. part.text \in Seq(STRING) /\ part.image \in STRING
    BY DEF InputPart
  <2>3. Image(part.image) \in LeafType /\ Image(part.image) \in PartType
    BY <2>2, LeafTyped
  <2>4. QED
    BY <2>1, <2>2, <2>3, TextTyped DEF PartsOf
<1> DEFINE parts == [i \in DOMAIN message.input |-> PartsOf(message.input[i])]
<1>a. DOMAIN message.input = 1 .. Len(message.input) /\ Len(message.input) \in Nat
  BY <1>1
<1>4. parts \in Seq(Seq(LeafType)) /\ parts \in Seq(Seq(PartType))
  BY <1>1, <1>3, <1>a DEF MessageType
<1> HIDE DEF parts
<1>5. FlattenSeq(parts) \in Seq(LeafType) /\ FlattenSeq(parts) \in Seq(PartType)
  BY <1>4, FlattenTyped
<1>6. InputParts(message) \in Seq(LeafType) /\ InputParts(message) \in Seq(PartType)
  BY <1>2, <1>5 DEF InputParts, parts
<1>7. \A i \in 1 .. Len(message.calls) : Call(message.calls[i]) \in PartType
  BY <1>1, CallTyped
<1>8. Calls(message) \in Seq(PartType)
  BY <1>1, <1>7 DEF Calls
<1>9. QED
  BY <1>2, <1>6, <1>8

(* The greatest of some numbers up to a bound is one of them.              *)
LEMMA MaxIs ==
  ASSUME NEW n \in Nat, NEW S, S \subseteq 1 .. n, S # {}
  PROVE  Max(S) \in S /\ \A y \in S : Max(S) >= y
<1> DEFINE D == {n - y : y \in S}
<1>1. \A y \in S : n - y \in Nat /\ y \in Int
  OBVIOUS
<1>2. D \subseteq Nat /\ D # {}
  BY <1>1
<1>3. PICK m \in D : \A d \in D : <<d, m>> \notin OpToRel(<, Nat)
  BY <1>2, NatLessThanWellFounded, WFMin
<1>4. \A d \in D : ~(d < m)
  BY <1>2, <1>3 DEF OpToRel
<1>5. PICK x \in S : m = n - x
  BY <1>3
<1>6. \A y \in S : n - y \in D /\ y \in Int
  BY <1>1
<1>7. \A y \in S : x >= y
  BY <1>4, <1>5, <1>6
<1>8. QED
  BY <1>5, <1>7 DEF Max

(* The calls before a message, and the name of the tool it answers.        *)
LEMMA EarlierTyped ==
  ASSUME NEW conversation \in Seq(MessageType), NEW i \in 1 .. Len(conversation)
  PROVE  /\ [j \in 1 .. i - 1 |-> CallsOf(conversation[j])] \in Seq(Seq(ToolCall))
         /\ EarlierCalls(conversation, i) \in Seq(ToolCall)
<1>1. i - 1 \in Nat
  OBVIOUS
<1>2. \A j \in 1 .. i - 1 : conversation[j] \in MessageType
  OBVIOUS
<1>3. \A j \in 1 .. i - 1 : CallsOf(conversation[j]) \in Seq(ToolCall)
  BY <1>2 DEF CallsOf, MessageType
<1>4. [j \in 1 .. i - 1 |-> CallsOf(conversation[j])] \in Seq(Seq(ToolCall))
  BY <1>1, <1>3
<1>5. QED
  BY <1>4, FlattenTyped DEF EarlierCalls

LEMMA ToolNameIs ==
  ASSUME NEW conversation \in Seq(MessageType), NEW i \in 1 .. Len(conversation)
  PROVE  /\ ToolName(conversation, i) \in Optional
         /\ \/ ToolName(conversation, i) = ""
            \/ ToolName(conversation, i) = conversation[i].name
            \/ \E k \in 1 .. Len(EarlierCalls(conversation, i)) :
                 EarlierCalls(conversation, i)[k] =
                   [id |-> conversation[i].answers, name |-> ToolName(conversation, i)]
<1> DEFINE message == conversation[i]
           calls == EarlierCalls(conversation, i)
           matching == {k \in DOMAIN calls : calls[k].id = message.answers}
<1>1. conversation[i] \in MessageType
  OBVIOUS
<1>2. message.name \in Optional
  BY <1>1 DEF MessageType
<1>3. calls \in Seq(ToolCall)
  BY EarlierTyped
<1>4. ToolName(conversation, i) = IF message.name # "" THEN message.name
        ELSE IF matching = {} THEN "" ELSE calls[Max(matching)].name
  BY DEF ToolName
<1> HIDE DEF message, calls
<1>5. CASE matching # {}
  <2>1. matching \subseteq 1 .. Len(calls) /\ Len(calls) \in Nat
    BY <1>3
  <2>2. Max(matching) \in matching
    BY <1>5, <2>1, MaxIs
  <2>3. PICK m \in 1 .. Len(calls) : m = Max(matching) /\ calls[m].id = message.answers /\ calls[m] \in ToolCall
    <3>1. Max(matching) \in 1 .. Len(calls) /\ calls[Max(matching)].id = message.answers
      BY <2>1, <2>2
    <3>2. calls[Max(matching)] \in ToolCall
      BY <1>3, <3>1
    <3>3. QED
      BY <3>1, <3>2
  <2>4. calls[m] = [id |-> message.answers, name |-> calls[m].name] /\ calls[m].name \in STRING
    BY <2>3 DEF ToolCall
  <2>5. ToolName(conversation, i) = IF message.name # "" THEN message.name ELSE calls[m].name
    BY <1>4, <1>5, <2>3
  <2>6. QED
    BY <1>2, <2>3, <2>4, <2>5 DEF message, calls, Optional
<1>6. CASE matching = {}
  BY <1>2, <1>4, <1>6 DEF message, Optional
<1>7. QED
  BY <1>5, <1>6

LEMMA SaidTyped ==
  ASSUME NEW parts \in Seq(PartType),
         NEW role \in {"system", "developer", "user", "assistant", "model", "tool"}
  PROVE  Said(role, parts) \in Seq(TurnType) /\ SaidIfAny(role, parts) \in Seq(TurnType)
<1>1. [role |-> role, parts |-> parts] \in TurnType
  BY DEF TurnType
<1>2. QED
  BY <1>1 DEF Said, SaidIfAny

LEMMA ItemsTyped ==
  ASSUME NEW message \in MessageType
  PROVE  /\ ItemsOfCalls(message) \in Seq(TurnType)
         /\ Len(ItemsOfCalls(message)) = Len(message.calls)
         /\ \A k \in 1 .. Len(message.calls) :
              ItemsOfCalls(message)[k] = [role |-> "assistant", parts |-> <<Call(message.calls[k])>>]
<1>1. PICK calls \in Seq(ToolCall) : calls = message.calls
  BY DEF MessageType
<1> DEFINE items == [k \in 1 .. Len(calls) |-> [role |-> "assistant", parts |-> <<Call(calls[k])>>]]
<1>2. ASSUME NEW k \in 1 .. Len(calls)
      PROVE  [role |-> "assistant", parts |-> <<Call(calls[k])>>] \in TurnType
  <2>1. calls[k] \in ToolCall
    OBVIOUS
  <2>2. Call(calls[k]) \in PartType
    BY <2>1, CallTyped
  <2>3. <<Call(calls[k])>> \in Seq(PartType)
    BY <2>2
  <2>4. QED
    BY <2>3 DEF TurnType
<1>3. items \in Seq(TurnType)
  BY <1>2
<1>4. Len(items) = Len(calls)
      /\ \A k \in 1 .. Len(calls) : items[k] = [role |-> "assistant", parts |-> <<Call(calls[k])>>]
  OBVIOUS
<1>5. ItemsOfCalls(message) = items
  BY <1>1 DEF ItemsOfCalls
<1> HIDE DEF items
<1>6. QED
  BY <1>1, <1>3, <1>4, <1>5

LEMMA ResultTyped ==
  ASSUME NEW id \in Optional, NEW name \in Optional, NEW content \in Seq(LeafType)
  PROVE  <<Result(id, name, content)>> \in Seq(PartType)
<1>1. Result(id, name, content) \in PartType
  BY DEF Result, Part, PartType
<1>2. QED
  BY <1>1

LEMMA EncodedTyped ==
  ASSUME NEW p \in Providers, NEW conversation \in Seq(MessageType), NEW i \in 1 .. Len(conversation)
  PROVE  Encoded(p, conversation, i) \in Seq(TurnType)
<1>1. PICK m \in MessageType : m = conversation[i]
  OBVIOUS
<1>2. /\ InputParts(m) \in Seq(LeafType) /\ InputParts(m) \in Seq(PartType)
      /\ Content(m) \in Seq(LeafType) /\ Content(m) \in Seq(PartType)
      /\ Calls(m) \in Seq(PartType)
  BY PartsTyped
<1>3. m.role \in STRING /\ m.answers \in Optional /\ "" \in Optional /\ m.text \in Seq(STRING) /\ m.calls \in Seq(ToolCall)
  BY DEF MessageType, Optional
<1>4. InputParts(m) \o Calls(m) \in Seq(PartType) /\ Content(m) \o Calls(m) \in Seq(PartType)
  BY <1>2
<1>5. /\ <<Result(m.answers, "", Content(m))>> \in Seq(PartType)
      /\ <<Result(m.answers, "", InputParts(m))>> \in Seq(PartType)
  BY <1>2, <1>3, ResultTyped
<1>6. OpenAIMessage(m) \in Seq(TurnType)
  BY <1>2, <1>3, <1>4, <1>5, SaidTyped DEF OpenAIMessage
<1>7. AnthropicMessage(m) \in Seq(TurnType)
  BY <1>2, <1>3, <1>4, <1>5, SaidTyped DEF AnthropicMessage
<1>8. ResponsesMessage(m) \in Seq(TurnType)
  <2>1. Said("assistant", Content(m)) \in Seq(TurnType) /\ ItemsOfCalls(m) \in Seq(TurnType)
    BY <1>2, SaidTyped, ItemsTyped
  <2>2. AppendAssistant(m) \in Seq(TurnType)
    BY <2>1 DEF AppendAssistant
  <2>3. QED
    BY <1>6, <2>2 DEF ResponsesMessage
<1>9. GeminiMessage(conversation, i) \in Seq(TurnType)
  <2>1. ToolName(conversation, i) \in Optional
    BY ToolNameIs
  <2>2. <<Result(m.answers, ToolName(conversation, i), Content(m))>> \in Seq(PartType)
    BY <1>2, <1>3, <2>1, ResultTyped
  <2>3. QED
    BY <1>1, <1>2, <1>4, <2>2, SaidTyped DEF GeminiMessage
<1>10. QED
  BY <1>1, <1>6, <1>7, <1>8, <1>9 DEF Encoded, Providers

(* What is sent apart, and what among the contents.                        *)
Apart(p, conversation) ==
  [i \in DOMAIN conversation |-> IF SetApart(p, conversation, i) THEN InputParts(conversation[i]) ELSE <<>>]
Among(p, conversation) ==
  [i \in DOMAIN conversation |-> IF SetApart(p, conversation, i) THEN <<>> ELSE Encoded(p, conversation, i)]

LEMMA RequestTyped ==
  ASSUME NEW p \in Providers, NEW conversation \in Seq(MessageType)
  PROVE  /\ Apart(p, conversation) \in Seq(Seq(PartType))
         /\ Among(p, conversation) \in Seq(Seq(TurnType))
         /\ ConvertMessages(p, conversation) = Refused <=>
              \E i \in 1 .. Len(conversation) : Refuses(p, conversation, i)
         /\ ConvertMessages(p, conversation) # Refused =>
              /\ ConvertMessages(p, conversation).system = FlattenSeq(Apart(p, conversation))
              /\ ConvertMessages(p, conversation).contents = FlattenSeq(Among(p, conversation))
<1>1. DOMAIN conversation = 1 .. Len(conversation) /\ Len(conversation) \in Nat
  OBVIOUS
<1>2. \A i \in 1 .. Len(conversation) : Encoded(p, conversation, i) \in Seq(TurnType)
  BY EncodedTyped
<1>3. \A i \in 1 .. Len(conversation) : conversation[i] \in MessageType
  OBVIOUS
<1>4. \A i \in 1 .. Len(conversation) : InputParts(conversation[i]) \in Seq(PartType)
  BY <1>3, PartsTyped
<1>5. Apart(p, conversation) \in Seq(Seq(PartType))
  <2>1. \A i \in 1 .. Len(conversation) :
          (IF SetApart(p, conversation, i) THEN InputParts(conversation[i]) ELSE <<>>) \in Seq(PartType)
    BY <1>4
  <2>2. QED
    BY <1>1, <2>1 DEF Apart
<1>6. Among(p, conversation) \in Seq(Seq(TurnType))
  <2>1. \A i \in 1 .. Len(conversation) :
          (IF SetApart(p, conversation, i) THEN <<>> ELSE Encoded(p, conversation, i)) \in Seq(TurnType)
    BY <1>2
  <2>2. QED
    BY <1>1, <2>1 DEF Among
<1>7. FlattenSeq(Apart(p, conversation)) \in Seq(PartType) /\ FlattenSeq(Among(p, conversation)) \in Seq(TurnType)
  BY <1>5, <1>6, FlattenTyped
<1> DEFINE made == [system |-> FlattenSeq(Apart(p, conversation)), contents |-> FlattenSeq(Among(p, conversation))]
<1>8. ConvertMessages(p, conversation) =
        IF \E i \in 1 .. Len(conversation) : Refuses(p, conversation, i) THEN Refused ELSE made
  BY <1>1 DEF ConvertMessages, Apart, Among
<1>9. made # Refused
  BY <1>7, MessagesAssumption
<1>10. QED
  BY <1>5, <1>6, <1>8, <1>9

(***************************************************************************)
(* What compaction has left of each message when a provider converts.      *)
(***************************************************************************)
MessagesInv ==
  /\ CompactionInv
  /\ pc = "compacted" => compacted = [i \in DOMAIN segments |-> Message(segments[i])]
  /\ provider \in Providers \cup {Nil}
  /\ provider # Nil => pc = "compacted" /\ request = ConvertMessages(provider, compacted)

LEMMA MessagesStart == Init => MessagesInv
  BY CompactionStarts DEF Init, MessagesInv, CompactionInit

LEMMA MessagesStep == MessagesInv /\ [Next]_vars => MessagesInv'
<1> SUFFICES ASSUME MessagesInv, [Next]_vars PROVE MessagesInv'
  OBVIOUS
<1>1. ASSUME UNCHANGED <<messages, plan, pc, segments, compacted>>
      PROVE  (pc = "compacted" => compacted = [i \in DOMAIN segments |-> Message(segments[i])])'
  BY <1>1 DEF MessagesInv, Message, Clone, NewIDs
<1>2. CASE Compaction /\ UNCHANGED <<provider, request>>
  <2>1. CompactionInv'
    BY <1>2, CompactionSteps DEF MessagesInv
  <2>2. pc # "compacted"
    BY <1>2 DEF Compaction, Examine, Reject, Rebuild, Add, Return
  <2>3. provider = Nil
    BY <2>2 DEF MessagesInv
  <2>4. (pc = "compacted" => compacted = [i \in DOMAIN segments |-> Message(segments[i])])'
    <3>1. CASE Return /\ pc' = "compacted"
      <4>1. /\ compacted' = [i \in DOMAIN segments |-> Message(segments[i])]
            /\ UNCHANGED <<messages, plan, segments>>
        BY <3>1 DEF Return, Fail
      <4>2. \A s : Message(s)' = Message(s)
        BY <4>1 DEF Message, Clone, NewIDs
      <4>3. QED
        BY <4>1, <4>2
    <3>2. CASE pc' # "compacted"
      BY <3>2
    <3>3. QED
      BY <1>2, <2>2, <3>1, <3>2 DEF Compaction, Examine, Reject, Rebuild, Add, Fail
  <2>5. QED
    BY <1>2, <2>1, <2>3, <2>4 DEF MessagesInv
<1>3. ASSUME NEW p \in Providers, Convert(p) PROVE MessagesInv'
  <2>1. UNCHANGED compaction /\ pc = "compacted" /\ provider' = p /\ request' = ConvertMessages(p, compacted)
    BY <1>3 DEF Convert
  <2>2. CompactionInv'
    BY <2>1, CompactionSteps DEF MessagesInv
  <2>3. UNCHANGED <<messages, plan, pc, segments, compacted>>
    BY <2>1 DEF compaction
  <2>4. request' = ConvertMessages(p, compacted)'
    BY <2>1, <2>3
  <2>5. QED
    BY <1>1, <2>1, <2>2, <2>3, <2>4 DEF MessagesInv
<1>4. CASE UNCHANGED vars
  <2>1. UNCHANGED compaction /\ UNCHANGED <<provider, request>>
    BY <1>4 DEF vars
  <2>2. CompactionInv'
    BY <2>1, CompactionSteps DEF MessagesInv
  <2>3. UNCHANGED <<messages, plan, pc, segments, compacted>>
    BY <2>1 DEF compaction
  <2>4. QED
    BY <1>1, <2>1, <2>2, <2>3 DEF MessagesInv
<1>5. QED
  BY <1>2, <1>3, <1>4 DEF Next, Returned

(* Where the message at i of those returned stood, or 0 when it is new.    *)
Origin(i) == IF segments[i].op = 0 THEN segments[i].id ELSE 0

LEMMA CompactedIs ==
  ASSUME MessagesInv, pc = "compacted"
  PROVE  /\ messages \in Seq(MessageType) /\ compacted \in Seq(MessageType)
         /\ \A i \in 1 .. Len(compacted) :
              /\ Origin(i) \in 0 .. Len(messages)
              /\ Origin(i) # 0 => compacted[i] = messages[Origin(i)]
              /\ Origin(i) = 0 => \E k \in DOMAIN plan :
                   plan[k].action \in {"replace", "add"} /\ compacted[i] = Fresh(plan[k].replacement)
<1>1. /\ Built(next - 1) /\ Facts /\ PlanHonoured /\ plan \in Plans /\ messages \in Conversations
      /\ compacted = [i \in DOMAIN segments |-> Message(segments[i])]
  BY DEF MessagesInv, CompactionInv, Facts
<1>2. segments \in Seq(SegmentType)
  BY <1>1 DEF Built
<1>3. compacted \in Seq({Message(segments[i]) : i \in DOMAIN segments}) /\ Len(compacted) = Len(segments)
      /\ DOMAIN segments = 1 .. Len(compacted) /\ DOMAIN compacted = 1 .. Len(compacted) /\ Len(compacted) \in Nat
  BY <1>1, <1>2
<1>4. messages \in Seq(MessageType) /\ DOMAIN messages = 1 .. Len(messages) /\ Len(messages) \in Nat
  BY <1>1, MessagesAssumption
<1>5. DOMAIN plan = 1 .. Len(plan) /\ Len(plan) \in Nat
  BY <1>1, PlanTyped
<1>6. ASSUME NEW i \in 1 .. Len(compacted)
      PROVE  /\ Origin(i) \in 0 .. Len(messages)
             /\ Origin(i) # 0 => compacted[i] = messages[Origin(i)]
             /\ Origin(i) = 0 => \E k \in DOMAIN plan :
                  plan[k].action \in {"replace", "add"} /\ compacted[i] = Fresh(plan[k].replacement)
  <2>1. IF segments[i].op = 0 THEN compacted[i] = messages[segments[i].id]
                              ELSE compacted[i] = Fresh(plan[segments[i].op].replacement)
    BY <1>1, <1>3 DEF PlanHonoured
  <2>2. \/ \E id \in DOMAIN messages : segments[i] \in ImageOf(id)
        \/ \E k \in DOMAIN plan : plan[k].action = "add" /\ segments[i] = New(k)
    BY <1>1, <1>3 DEF PlanHonoured
  <2>3. \/ \E id \in DOMAIN messages : segments[i] = [id |-> id, op |-> 0]
        \/ \E k \in DOMAIN plan : plan[k].action \in {"replace", "add"} /\ segments[i] = New(k)
    BY <2>2 DEF ImageOf, ReplacesOf
  <2>4. CASE \E id \in DOMAIN messages : segments[i] = [id |-> id, op |-> 0]
    BY <1>4, <2>1, <2>4 DEF Origin
  <2>5. ASSUME NEW k \in DOMAIN plan, plan[k].action \in {"replace", "add"}, segments[i] = New(k)
        PROVE  Origin(i) = 0 /\ compacted[i] = Fresh(plan[k].replacement)
    <3>1. segments[i].op = k /\ k # 0
      BY <1>5, <2>5 DEF New
    <3>2. QED
      BY <2>1, <3>1 DEF Origin
  <2>6. CASE \E k \in DOMAIN plan : plan[k].action \in {"replace", "add"} /\ segments[i] = New(k)
    <3>1. PICK k \in DOMAIN plan : plan[k].action \in {"replace", "add"} /\ segments[i] = New(k)
      BY <2>6
    <3>2. Origin(i) = 0 /\ compacted[i] = Fresh(plan[k].replacement)
      BY <2>5, <3>1
    <3>3. 0 \in 0 .. Len(messages)
      BY <1>4
    <3>4. QED
      BY <3>1, <3>2, <3>3
  <2>7. QED
    BY <2>3, <2>4, <2>6
<1>7. ASSUME NEW i \in 1 .. Len(compacted) PROVE compacted[i] \in MessageType
  <2>1. CASE Origin(i) # 0
    BY <1>4, <1>6, <2>1
  <2>2. ASSUME NEW k \in DOMAIN plan, plan[k].action \in {"replace", "add"} PROVE Fresh(plan[k].replacement) \in MessageType
    <3>1. Replacement(plan[k])
      BY <1>1, <1>5, <2>2 DEF Facts, Sorted, Checked
    <3>2. plan[k] \in Op
      BY <1>1, <1>5, PlanTyped
    <3>3. PICK r \in [id : Nat, role : STRING, text : Seq(STRING)] : r = plan[k].replacement
      BY <3>1, <3>2 DEF Op, Replacement
    <3>4. r.role \in STRING /\ r.text \in Seq(STRING)
      BY <3>3
    <3>5. <<>> \in Seq(InputPart) /\ <<>> \in Seq(ToolCall)
      OBVIOUS
    <3>6. QED
      BY <3>3, <3>4, <3>5 DEF Fresh, MessageType, Optional
  <2>3. QED
    BY <1>6, <2>1, <2>2
<1>8. compacted \in Seq(MessageType)
  BY <1>3, <1>7
<1>9. QED
  BY <1>4, <1>6, <1>8

(* Those that are left stand in their order, ...                           *)
LEMMA OriginsRise ==
  ASSUME MessagesInv, pc = "compacted",
         NEW i \in 1 .. Len(compacted), NEW j \in 1 .. Len(compacted),
         i < j, Origin(i) # 0, Origin(j) # 0
  PROVE  Origin(i) < Origin(j)
<1>1. /\ Built(next - 1) /\ PlanHonoured /\ messages \in Conversations
      /\ compacted = [k \in DOMAIN segments |-> Message(segments[k])]
  BY DEF MessagesInv, CompactionInv
<1>2. segments \in Seq(SegmentType)
  BY <1>1 DEF Built
<1>3. DOMAIN segments = 1 .. Len(compacted) /\ Len(compacted) \in Nat
  BY <1>1, <1>2
<1>4. DOMAIN messages = 1 .. Len(messages) /\ Len(messages) \in Nat
  BY <1>1, MessagesTyped
<1>5. ASSUME NEW k \in 1 .. Len(compacted), Origin(k) # 0
      PROVE  Origin(k) \in DOMAIN messages /\ segments[k] \in ImageOf(Origin(k)) /\ k \in At(segments[k])
             /\ segments[k].id = Origin(k)
  <2>1. segments[k].op = 0 /\ Origin(k) = segments[k].id
    BY <1>5 DEF Origin
  <2>2. \/ \E id \in DOMAIN messages : segments[k] \in ImageOf(id)
        \/ \E n \in DOMAIN plan : plan[n].action = "add" /\ segments[k] = New(n)
    BY <1>1, <1>3 DEF PlanHonoured
  <2>3. DOMAIN plan = 1 .. Len(plan) /\ Len(plan) \in Nat
    BY PlanTyped DEF MessagesInv, CompactionInv
  <2>4. \A n \in DOMAIN plan : segments[k] # New(n)
    BY <2>1, <2>3 DEF New
  <2>5. PICK id \in DOMAIN messages : segments[k] \in ImageOf(id)
    BY <2>2, <2>4
  <2>6. segments[k] = [id |-> id, op |-> 0]
    BY <2>4, <2>5 DEF ImageOf, ReplacesOf
  <2>7. Origin(k) = id
    BY <2>1, <2>6
  <2>8. QED
    BY <1>3, <2>1, <2>5, <2>7 DEF At
<1>6. \A id, other \in DOMAIN messages : id < other =>
        \A s \in ImageOf(id), t \in ImageOf(other) : \A a \in At(s), b \in At(t) : a < b
  BY <1>1 DEF PlanHonoured
<1>7. /\ Origin(i) \in DOMAIN messages /\ segments[i] \in ImageOf(Origin(i)) /\ i \in At(segments[i])
      /\ Origin(j) \in DOMAIN messages /\ segments[j] \in ImageOf(Origin(j)) /\ j \in At(segments[j])
      /\ segments[i].id = Origin(i) /\ segments[j].id = Origin(j)
  BY <1>5
<1>8. ~(Origin(j) < Origin(i))
  <2>1. Origin(j) < Origin(i) => j < i
    BY <1>6, <1>7
  <2>2. QED
    BY <1>3, <2>1
<1>9. Origin(i) # Origin(j)
  <2>1. IsInjective([k \in DOMAIN segments |-> segments[k].id])
    BY <1>1 DEF PlanHonoured, Indexed
  <2>2. i # j /\ i \in DOMAIN segments /\ j \in DOMAIN segments
    BY <1>3
  <2>3. segments[i].id # segments[j].id
    BY <2>1, <2>2 DEF IsInjective
  <2>4. QED
    BY <1>7, <2>3
<1>10. QED
  BY <1>4, <1>7, <1>8, <1>9

(* ... and with a plan that spares tools, none that calls or answers one   *)
(* is missing, and those that are new do neither.                          *)
LEMMA ToolsSpared ==
  ASSUME MessagesInv, pc = "compacted", SparesTools
  PROVE  /\ \A id \in 1 .. Len(messages) : messages[id].calls # <<>> \/ messages[id].role = "tool" =>
              \E i \in 1 .. Len(compacted) : Origin(i) = id
         /\ \A i \in 1 .. Len(compacted) : Origin(i) = 0 =>
              compacted[i].role # "tool" /\ compacted[i].input = <<>> /\ compacted[i].calls = <<>>
<1>1. /\ Built(next - 1) /\ messages \in Conversations /\ plan \in Plans
      /\ compacted = [k \in DOMAIN segments |-> Message(segments[k])]
  BY DEF MessagesInv, CompactionInv
<1>2. segments \in Seq(SegmentType)
  BY <1>1 DEF Built
<1>3. DOMAIN segments = 1 .. Len(compacted)
  BY <1>1, <1>2
<1>4. DOMAIN messages = 1 .. Len(messages)
  BY <1>1, MessagesTyped
<1>5. ASSUME NEW id \in 1 .. Len(messages), messages[id].calls # <<>> \/ messages[id].role = "tool"
      PROVE  \E i \in 1 .. Len(compacted) : Origin(i) = id
  <2>1. \A k \in DOMAIN plan : plan[k].action \in {"drop", "replace"} => plan[k].target # id
    BY <1>5 DEF SparesTools
  <2>2. ImageOf(id) = {[id |-> id, op |-> 0]}
    BY <2>1 DEF ImageOf, DropsOf, ReplacesOf
  <2>3. At([id |-> id, op |-> 0]) # {}
    BY <1>1, <1>4, <2>2 DEF Built
  <2>4. PICK i \in DOMAIN segments : segments[i] = [id |-> id, op |-> 0]
    BY <2>3 DEF At
  <2>5. QED
    BY <1>3, <2>4 DEF Origin
<1>6. ASSUME NEW i \in 1 .. Len(compacted), Origin(i) = 0
      PROVE  compacted[i].role # "tool" /\ compacted[i].input = <<>> /\ compacted[i].calls = <<>>
  <2>1. PICK k \in DOMAIN plan :
          plan[k].action \in {"replace", "add"} /\ compacted[i] = Fresh(plan[k].replacement)
    BY <1>6, CompactedIs
  <2>2. plan[k].replacement.role # "tool"
    BY <2>1 DEF SparesTools
  <2>3. QED
    <3>1. PICK r : r = plan[k].replacement
      OBVIOUS
    <3>2. compacted[i] = Fresh(r) /\ r.role # "tool"
      BY <2>1, <2>2, <3>1
    <3>3. Fresh(r).role = r.role /\ Fresh(r).input = <<>> /\ Fresh(r).calls = <<>>
      BY DEF Fresh
    <3>4. QED
      BY <3>2, <3>3
<1>7. QED
  BY <1>5, <1>6

(* So a message that is left has the same calls before it, ...             *)
LEMMA CallsSpared ==
  ASSUME MessagesInv, pc = "compacted", SparesTools, NEW i \in 1 .. Len(compacted), Origin(i) # 0
  PROVE  EarlierCalls(compacted, i) = EarlierCalls(messages, Origin(i))
<1> DEFINE a == [j \in 1 .. i - 1 |-> CallsOf(compacted[j])]
           b == [j \in 1 .. Origin(i) - 1 |-> CallsOf(messages[j])]
           o == [j \in 1 .. i - 1 |-> Origin(j)]
<1>1. /\ messages \in Seq(MessageType) /\ compacted \in Seq(MessageType)
      /\ \A j \in 1 .. Len(compacted) :
           /\ Origin(j) \in 0 .. Len(messages)
           /\ Origin(j) # 0 => compacted[j] = messages[Origin(j)]
  BY CompactedIs
<1>2. Origin(i) \in 1 .. Len(messages) /\ Len(messages) \in Nat /\ Len(compacted) \in Nat
  BY <1>1
<1>3. a \in Seq(Seq(ToolCall)) /\ b \in Seq(Seq(ToolCall))
  BY <1>1, <1>2, EarlierTyped
<1>4. Len(a) = i - 1 /\ Len(b) = Origin(i) - 1 /\ i - 1 \in Nat /\ Origin(i) - 1 \in Nat
  BY <1>2
<1>5. \A j \in 1 .. i - 1 : j \in 1 .. Len(compacted) /\ j < i
  BY <1>2
<1>6. \A j \in 1 .. i - 1 : Origin(j) # 0 => Origin(j) < Origin(i)
  BY <1>5, OriginsRise
<1>7. \A j \in 1 .. i - 1 : Origin(j) \in 0 .. Origin(i) - 1
  BY <1>1, <1>2, <1>5, <1>6
<1>8. \A j \in 1 .. i - 1 : a[j] = IF o[j] = 0 THEN <<>> ELSE b[o[j]]
  <2>1. SUFFICES ASSUME NEW j \in 1 .. i - 1 PROVE CallsOf(compacted[j]) = IF Origin(j) = 0 THEN <<>> ELSE b[Origin(j)]
    OBVIOUS
  <2>2. CASE Origin(j) = 0
    <3>1. compacted[j].calls = <<>>
      BY <1>5, <2>2, ToolsSpared
    <3>2. QED
      BY <2>2, <3>1 DEF CallsOf
  <2>3. CASE Origin(j) # 0
    <3>1. Origin(j) \in 1 .. Origin(i) - 1
      BY <1>4, <1>7, <2>3
    <3>2. compacted[j] = messages[Origin(j)]
      BY <1>1, <1>5, <2>3
    <3>3. QED
      BY <2>3, <3>1, <3>2
  <2>4. QED
    BY <2>2, <2>3
<1>9. \A k \in 1 .. Origin(i) - 1 : b[k] # <<>> => \E j \in 1 .. i - 1 : o[j] = k
  <2>1. SUFFICES ASSUME NEW k \in 1 .. Origin(i) - 1, CallsOf(messages[k]) # <<>>
                 PROVE  \E j \in 1 .. i - 1 : Origin(j) = k
    OBVIOUS
  <2>2. k \in 1 .. Len(messages) /\ messages[k].calls # <<>> /\ k < Origin(i) /\ k # 0
    BY <1>2, <2>1 DEF CallsOf
  <2>3. PICK j \in 1 .. Len(compacted) : Origin(j) = k
    BY <2>2, ToolsSpared
  <2>4. j # i
    BY <1>2, <2>2, <2>3
  <2>5. ~(i < j)
    <3>1. i < j => Origin(i) < Origin(j)
      BY <2>2, <2>3, OriginsRise
    <3>2. QED
      BY <1>2, <2>2, <2>3, <3>1
  <2>6. QED
    BY <1>2, <2>3, <2>4, <2>5
<1>10. Thinned(o, a, b)
  <2>1. o \in [1 .. Len(a) -> 0 .. Len(b)]
    BY <1>4, <1>7
  <2>2. \A j, k \in 1 .. Len(a) : j < k /\ o[j] # 0 /\ o[k] # 0 => o[j] < o[k]
    BY <1>4, <1>5, OriginsRise
  <2>3. QED
    BY <1>4, <1>8, <1>9, <2>1, <2>2 DEF Thinned
<1> HIDE DEF a, b, o
<1>11. FlattenSeq(a) = FlattenSeq(b)
  BY <1>3, <1>10, FlattenThinned
<1>12. QED
  BY <1>11 DEF EarlierCalls, a, b

(* ... and is refused only if it would have been before.                   *)
LEMMA RefusalKept ==
  ASSUME MessagesInv, pc = "compacted", SparesTools, NEW p \in Providers,
         NEW i \in 1 .. Len(compacted), Refuses(p, compacted, i)
  PROVE  Origin(i) \in 1 .. Len(messages) /\ Refuses(p, messages, Origin(i))
<1>1. Origin(i) # 0
  <2>1. SUFFICES ASSUME Origin(i) = 0 PROVE FALSE
    OBVIOUS
  <2>2. compacted[i].role # "tool" /\ compacted[i].input = <<>>
    BY <2>1, ToolsSpared
  <2>3. DOMAIN compacted[i].input = {}
    BY <2>2
  <2>4. Sendable(p, compacted[i]) /\ ~HasImageInput(compacted[i])
    BY <2>3 DEF Sendable, HasImageInput
  <2>5. QED
    BY <2>2, <2>4 DEF Refuses, OpenAIRefuses, AnthropicRefuses, GeminiRefuses, Providers
<1>2. Origin(i) \in 0 .. Len(messages) /\ compacted[i] = messages[Origin(i)] /\ messages \in Seq(MessageType)
  BY <1>1, CompactedIs
<1>3. EarlierCalls(compacted, i) = EarlierCalls(messages, Origin(i))
  BY <1>1, CallsSpared
<1>4. ToolName(compacted, i) = ToolName(messages, Origin(i))
  BY <1>2, <1>3 DEF ToolName
<1>5. Refuses(p, messages, Origin(i))
  BY <1>2, <1>4 DEF Refuses, GeminiRefuses, Providers
<1>6. QED
  BY <1>1, <1>2, <1>5

(* A plan that spares tools, however it is made, does not make a provider  *)
(* refuse what it would have taken: a result still has its call before it. *)
THEOREM AcceptedStill == Spec => []StillAccepted
<1>1. MessagesInv => StillAccepted
  <2>1. SUFFICES ASSUME MessagesInv, provider # Nil, SparesTools, request = Refused
                 PROVE  ConvertMessages(provider, messages) = Refused
    BY DEF StillAccepted
  <2>2. /\ provider \in Providers /\ pc = "compacted" /\ ConvertMessages(provider, compacted) = Refused
        /\ messages \in Seq(MessageType) /\ compacted \in Seq(MessageType)
    BY <2>1, CompactedIs DEF MessagesInv
  <2>3. PICK i \in 1 .. Len(compacted) : Refuses(provider, compacted, i)
    BY <2>2, RequestTyped
  <2>4. Origin(i) \in 1 .. Len(messages) /\ Refuses(provider, messages, Origin(i))
    BY <2>1, <2>2, <2>3, RefusalKept
  <2>5. QED
    BY <2>2, <2>4, RequestTyped
<1>2. QED
  BY <1>1, MessagesStart, MessagesStep, PTL DEF Spec

(***************************************************************************)
(* What a request says is what the conversation says.                      *)
(***************************************************************************)
ItemType == [kind : {"text", "image", "call", "result"}, value : Optional]
CarriedOf == [part \in PartType |-> Carried(part)]
PartsOfTurn == [turn \in TurnType |-> turn.parts]
Line == [line \in STRING |-> <<Item("text", line)>>]

LEMMA CarriedTyped ==
  /\ CarriedOf \in [PartType -> Seq(ItemType)]
  /\ PartsOfTurn \in [TurnType -> Seq(PartType)]
  /\ Line \in [STRING -> Seq(ItemType)]
<1>1. ASSUME NEW part \in PartType PROVE Carried(part) \in Seq(ItemType)
  <2>1. part.kind \in {"text", "image", "call", "result"} /\ part.value \in Optional /\ part.content \in Seq(LeafType)
    BY DEF PartType
  <2>2. PICK content \in Seq(LeafType) : content = part.content
    BY <2>1
  <2>3. ASSUME NEW j \in 1 .. Len(content) PROVE Item(content[j].kind, content[j].value) \in ItemType
    <3>1. content[j] \in LeafType
      OBVIOUS
    <3>2. QED
      BY <3>1 DEF LeafType, Item, ItemType, Optional
  <2>4. [j \in DOMAIN content |-> Item(content[j].kind, content[j].value)] \in Seq(ItemType)
    BY <2>3
  <2>5. Item(part.kind, part.value) \in ItemType
    BY <2>1 DEF Item, ItemType
  <2>6. <<Item(part.kind, part.value)>> \in Seq(ItemType)
    BY <2>5
  <2>7. QED
    BY <2>2, <2>4, <2>6 DEF Carried
<1>2. CarriedOf \in [PartType -> Seq(ItemType)]
  BY <1>1 DEF CarriedOf
<1>3. PartsOfTurn \in [TurnType -> Seq(PartType)]
  BY DEF PartsOfTurn, TurnType
<1>4. ASSUME NEW line \in STRING PROVE <<Item("text", line)>> \in Seq(ItemType)
  <2>1. Item("text", line) \in ItemType
    BY DEF Item, ItemType, Optional
  <2>2. QED
    BY <2>1
<1>5. Line \in [STRING -> Seq(ItemType)]
  BY <1>4 DEF Line
<1>6. QED
  BY <1>2, <1>3, <1>5

(* The loops that the definitions are.                                     *)
LEMMA FlatIs ==
  ASSUME NEW parts \in Seq(PartType)
  PROVE  Flat(parts) = Each(parts, CarriedOf) /\ Flat(parts) \in Seq(ItemType)
<1>1. \A i \in 1 .. Len(parts) : parts[i] \in PartType
  OBVIOUS
<1>2. [i \in DOMAIN parts |-> Carried(parts[i])] = [i \in 1 .. Len(parts) |-> CarriedOf[parts[i]]]
  BY <1>1 DEF CarriedOf
<1>3. Flat(parts) = Each(parts, CarriedOf)
  BY <1>2 DEF Flat, Each
<1>4. Each(parts, CarriedOf) \in Seq(ItemType)
  BY CarriedTyped, EachTyped
<1>5. QED
  BY <1>3, <1>4

LEMMA AllPartsIs ==
  ASSUME NEW turns \in Seq(TurnType)
  PROVE  AllParts(turns) = Each(turns, PartsOfTurn) /\ AllParts(turns) \in Seq(PartType)
<1>1. \A i \in 1 .. Len(turns) : turns[i] \in TurnType
  OBVIOUS
<1>2. [i \in DOMAIN turns |-> turns[i].parts] = [i \in 1 .. Len(turns) |-> PartsOfTurn[turns[i]]]
  BY <1>1 DEF PartsOfTurn
<1>3. AllParts(turns) = Each(turns, PartsOfTurn)
  BY <1>2 DEF AllParts, Each
<1>4. Each(turns, PartsOfTurn) \in Seq(PartType)
  BY CarriedTyped, EachTyped
<1>5. QED
  BY <1>3, <1>4

LEMMA WrittenIs ==
  ASSUME NEW text \in Seq(STRING)
  PROVE  Written(text) = Each(text, Line) /\ Written(text) \in Seq(ItemType)
<1>1. \A k \in 1 .. Len(text) : text[k] \in STRING
  OBVIOUS
<1>2. \A k \in 1 .. Len(text) : Item("text", text[k]) \in ItemType
  BY <1>1 DEF Item, ItemType, Optional
<1>3. Written(text) \in Seq(ItemType) /\ Len(Written(text)) = Len(text)
      /\ \A k \in 1 .. Len(text) : Written(text)[k] = Item("text", text[k])
  BY <1>2 DEF Written
<1>4. \A k \in 1 .. Len(text) : Line[text[k]] = <<Written(text)[k]>>
  BY <1>1, <1>3 DEF Line
<1> HIDE DEF Written
<1>5. Each(text, Line) = Written(text)
  BY <1>3, <1>4, EachSingles
<1>6. QED
  BY <1>3, <1>5

(* What is said of lists put together.                                     *)
LEMMA FlatJoined ==
  ASSUME NEW a \in Seq(PartType), NEW b \in Seq(PartType)
  PROVE  Flat(a \o b) = Flat(a) \o Flat(b)
<1>1. a \o b \in Seq(PartType)
  OBVIOUS
<1>2. Each(a \o b, CarriedOf) = Each(a, CarriedOf) \o Each(b, CarriedOf)
  BY CarriedTyped, EachJoined
<1>3. QED
  BY <1>1, <1>2, FlatIs

LEMMA FlatFlattened ==
  ASSUME NEW seqs \in Seq(Seq(PartType))
  PROVE  Flat(FlattenSeq(seqs)) = FlattenSeq([k \in 1 .. Len(seqs) |-> Flat(seqs[k])])
<1>1. FlattenSeq(seqs) \in Seq(PartType)
  BY FlattenTyped
<1>2. Each(FlattenSeq(seqs), CarriedOf) = FlattenSeq([k \in 1 .. Len(seqs) |-> Each(seqs[k], CarriedOf)])
  <2>1. CarriedOf \in [PartType -> Seq(ItemType)]
    BY CarriedTyped
  <2>2. QED
    BY <2>1, EachFlattened
<1>3. \A k \in 1 .. Len(seqs) : seqs[k] \in Seq(PartType)
  OBVIOUS
<1>4. [k \in 1 .. Len(seqs) |-> Each(seqs[k], CarriedOf)] = [k \in 1 .. Len(seqs) |-> Flat(seqs[k])]
  BY <1>3, FlatIs
<1>5. QED
  BY <1>1, <1>2, <1>4, FlatIs

LEMMA AllPartsFlattened ==
  ASSUME NEW seqs \in Seq(Seq(TurnType))
  PROVE  /\ AllParts(FlattenSeq(seqs)) = FlattenSeq([k \in 1 .. Len(seqs) |-> AllParts(seqs[k])])
         /\ [k \in 1 .. Len(seqs) |-> AllParts(seqs[k])] \in Seq(Seq(PartType))
<1>1. FlattenSeq(seqs) \in Seq(TurnType)
  BY FlattenTyped
<1>2. Each(FlattenSeq(seqs), PartsOfTurn) = FlattenSeq([k \in 1 .. Len(seqs) |-> Each(seqs[k], PartsOfTurn)])
  <2>1. PartsOfTurn \in [TurnType -> Seq(PartType)]
    BY CarriedTyped
  <2>2. QED
    BY <2>1, EachFlattened
<1>3. \A k \in 1 .. Len(seqs) : seqs[k] \in Seq(TurnType)
  OBVIOUS
<1>4. [k \in 1 .. Len(seqs) |-> Each(seqs[k], PartsOfTurn)] = [k \in 1 .. Len(seqs) |-> AllParts(seqs[k])]
  BY <1>3, AllPartsIs
<1>5. \A k \in 1 .. Len(seqs) : AllParts(seqs[k]) \in Seq(PartType)
  BY <1>3, AllPartsIs
<1>6. QED
  <2>1. [k \in 1 .. Len(seqs) |-> AllParts(seqs[k])] \in Seq(Seq(PartType))
    BY <1>5
  <2>2. QED
    BY <1>1, <1>2, <1>4, <2>1, AllPartsIs

LEMMA WrittenFlattened ==
  ASSUME NEW seqs \in Seq(Seq(STRING))
  PROVE  Written(FlattenSeq(seqs)) = FlattenSeq([k \in 1 .. Len(seqs) |-> Written(seqs[k])])
<1>1. FlattenSeq(seqs) \in Seq(STRING)
  BY FlattenTyped
<1>2. Each(FlattenSeq(seqs), Line) = FlattenSeq([k \in 1 .. Len(seqs) |-> Each(seqs[k], Line)])
  <2>1. PICK S, T : S = STRING /\ T = ItemType
    OBVIOUS
  <2>2. Line \in [S -> Seq(T)] /\ seqs \in Seq(Seq(S))
    BY <2>1, CarriedTyped
  <2>3. Line \in [S -> Seq(T)]
    BY <2>2
  <2>4. seqs \in Seq(Seq(S))
    BY <2>2
  <2>5. QED
    BY <2>3, <2>4, EachFlattened
<1>3. \A k \in 1 .. Len(seqs) : seqs[k] \in Seq(STRING)
  OBVIOUS
<1>4. [k \in 1 .. Len(seqs) |-> Each(seqs[k], Line)] = [k \in 1 .. Len(seqs) |-> Written(seqs[k])]
  BY <1>3, WrittenIs
<1>5. QED
  BY <1>1, <1>2, <1>4, WrittenIs

(* What is said by parts that have no content, ...                         *)
LEMMA FlatLeaves ==
  ASSUME NEW parts \in Seq(PartType), \A k \in 1 .. Len(parts) : parts[k].content = <<>>
  PROVE  Flat(parts) = [k \in 1 .. Len(parts) |-> Item(parts[k].kind, parts[k].value)]
<1> DEFINE items == [k \in 1 .. Len(parts) |-> Item(parts[k].kind, parts[k].value)]
<1>1. ASSUME NEW k \in 1 .. Len(parts)
      PROVE  items[k] \in ItemType /\ CarriedOf[parts[k]] = <<items[k]>>
  <2>1. parts[k] \in PartType
    OBVIOUS
  <2>2. items[k] = Item(parts[k].kind, parts[k].value)
    OBVIOUS
  <2>3. Item(parts[k].kind, parts[k].value) \in ItemType
    BY <2>1 DEF PartType, ItemType, Item
  <2>4. parts[k].content = <<>>
    OBVIOUS
  <2>5. [j \in DOMAIN parts[k].content |-> Item(parts[k].content[j].kind, parts[k].content[j].value)] = <<>>
    BY <2>4
  <2> HIDE DEF items
  <2>6. <<items[k]>> \o <<>> = <<items[k]>>
    OBVIOUS
  <2>7. Carried(parts[k]) = <<items[k]>> \o <<>>
    BY <2>2, <2>5 DEF Carried
  <2>8. QED
    BY <2>1, <2>2, <2>3, <2>6, <2>7 DEF CarriedOf
<1>2. items \in Seq(ItemType) /\ Len(items) = Len(parts)
  BY <1>1
<1> HIDE DEF items
<1>3. Each(parts, CarriedOf) = items
  BY <1>1, <1>2, EachSingles
<1>4. QED
  BY <1>3, FlatIs DEF items

LEMMA FlatNone == Flat(<<>>) = <<>> /\ AllParts(<<>>) = <<>>
<1>1. [i \in DOMAIN <<>> |-> Carried(<<>>[i])] = <<>> /\ [i \in DOMAIN <<>> |-> <<>>[i].parts] = <<>>
  OBVIOUS
<1>2. QED
  BY <1>1, FlattenNone DEF Flat, AllParts

(* ... by lines, ...                                                       *)
LEMMA FlatLines ==
  ASSUME NEW text \in Seq(STRING)
  PROVE  Flat(Lines(text)) = Written(text)
<1>1. Lines(text) \in Seq(PartType)
  BY TextTyped
<1>2. Len(Lines(text)) = Len(text) /\ \A k \in 1 .. Len(text) : Lines(text)[k] = Text(text[k])
  BY DEF Lines
<1>3. \A line : Text(line).content = <<>> /\ Text(line).kind = "text" /\ Text(line).value = line
  BY DEF Text, Part
<1>4. \A k \in 1 .. Len(text) : /\ Lines(text)[k].content = <<>>
                                /\ Lines(text)[k].kind = "text" /\ Lines(text)[k].value = text[k]
  BY <1>2, <1>3
<1>5. Flat(Lines(text)) = [k \in 1 .. Len(text) |-> Item(Lines(text)[k].kind, Lines(text)[k].value)]
  BY <1>1, <1>2, <1>4, FlatLeaves
<1>6. QED
  BY <1>4, <1>5 DEF Written

(* ... by calls, and by a result.                                          *)
LEMMA FlatCalls ==
  ASSUME NEW message \in MessageType
  PROVE  Flat(Calls(message)) = [i \in DOMAIN message.calls |-> Item("call", message.calls[i].id)]
<1>1. PICK calls \in Seq(ToolCall) : calls = message.calls
  BY DEF MessageType
<1>2. Calls(message) \in Seq(PartType)
  BY PartsTyped
<1>3. Len(Calls(message)) = Len(calls) /\ \A k \in 1 .. Len(calls) : Calls(message)[k] = Call(calls[k])
  BY <1>1 DEF Calls
<1>4. \A call : Call(call).content = <<>> /\ Call(call).kind = "call" /\ Call(call).value = call.id
  BY DEF Call, Part
<1>5. \A k \in 1 .. Len(calls) : /\ Calls(message)[k].content = <<>>
                                 /\ Calls(message)[k].kind = "call" /\ Calls(message)[k].value = calls[k].id
  BY <1>3, <1>4
<1>6. Flat(Calls(message)) = [k \in 1 .. Len(calls) |-> Item(Calls(message)[k].kind, Calls(message)[k].value)]
  BY <1>2, <1>3, <1>5, FlatLeaves
<1>7. [k \in 1 .. Len(calls) |-> Item(Calls(message)[k].kind, Calls(message)[k].value)]
        = [k \in 1 .. Len(calls) |-> Item("call", calls[k].id)]
  BY <1>5
<1>8. QED
  BY <1>1, <1>6, <1>7

LEMMA FlatResult ==
  ASSUME NEW id \in Optional, NEW name \in Optional, NEW content \in Seq(LeafType), content \in Seq(PartType)
  PROVE  Flat(<<Result(id, name, content)>>) = <<Item("result", id)>> \o Flat(content)
<1> DEFINE result == Result(id, name, content)
<1>1. <<result>> \in Seq(PartType)
  BY ResultTyped
<1>2. result.kind = "result" /\ result.value = id /\ result.content = content
  BY DEF Result, Part
<1>3. \A k \in 1 .. Len(content) : content[k].content = <<>>
  <2>1. \A k \in 1 .. Len(content) : content[k] \in LeafType
    OBVIOUS
  <2>2. QED
    BY <2>1 DEF LeafType
<1>4. Flat(content) = [j \in 1 .. Len(content) |-> Item(content[j].kind, content[j].value)]
  BY <1>3, FlatLeaves
<1> HIDE DEF result
<1>5. Carried(result) = <<Item("result", id)>> \o Flat(content)
  BY <1>2, <1>4 DEF Carried
<1>6. [i \in DOMAIN <<result>> |-> Carried(<<result>>[i])] = <<Carried(result)>>
  OBVIOUS
<1>7. Carried(result) \in Seq(ItemType)
  <2>1. result \in PartType
    BY <1>1
  <2>2. CarriedOf[result] \in Seq(ItemType)
    BY <2>1, CarriedTyped
  <2>3. QED
    BY <2>1, <2>2 DEF CarriedOf
<1>8. FlattenSeq(<<Carried(result)>>) = Carried(result)
  BY <1>7, FlattenOne
<1>9. QED
  BY <1>5, <1>6, <1>8 DEF Flat, result

(* What a message says is sent whichever way it is encoded: its input      *)
(* parts, ...                                                              *)
SpokenOf(part) == IF part.type = "input_image" THEN <<Item("image", part.image)>> ELSE Written(part.text)
TextOf(part) == IF part.type = "input_text" THEN part.text ELSE <<>>

LEMMA InputTyped ==
  ASSUME NEW message \in MessageType
  PROVE  /\ [i \in 1 .. Len(message.input) |-> PartsOf(message.input[i])] \in Seq(Seq(PartType))
         /\ [i \in 1 .. Len(message.input) |-> TextOf(message.input[i])] \in Seq(Seq(STRING))
         /\ \A i \in 1 .. Len(message.input) : Flat(PartsOf(message.input[i])) = SpokenOf(message.input[i])
         /\ \A i \in 1 .. Len(message.input) : message.input[i] \in InputPart
         /\ DOMAIN message.input = 1 .. Len(message.input) /\ Len(message.input) \in Nat
<1>1. PICK input \in Seq(InputPart) : input = message.input
  BY DEF MessageType
<1>2. ASSUME NEW i \in 1 .. Len(input)
      PROVE  /\ input[i] \in InputPart
             /\ PartsOf(input[i]) \in Seq(PartType)
             /\ TextOf(input[i]) \in Seq(STRING)
             /\ Flat(PartsOf(input[i])) = SpokenOf(input[i])
  <2>1. PICK part \in InputPart : part = input[i]
    OBVIOUS
  <2>2. part.text \in Seq(STRING) /\ part.image \in STRING
    BY DEF InputPart
  <2>3. Lines(part.text) \in Seq(PartType) /\ Flat(Lines(part.text)) = Written(part.text)
    BY <2>2, TextTyped, FlatLines
  <2>4. Image(part.image) \in PartType
    BY <2>2, LeafTyped
  <2>5. <<Image(part.image)>> \in Seq(PartType)
    BY <2>4
  <2>6. Flat(<<Image(part.image)>>) = <<Item("image", part.image)>>
    <3>1. PICK image \in PartType : image = Image(part.image)
      BY <2>4
    <3>2. image.content = <<>> /\ image.kind = "image" /\ image.value = part.image
      BY <3>1 DEF Image, Part
    <3>3. /\ <<image>> \in Seq(PartType) /\ Len(<<image>>) = 1
          /\ \A k \in 1 .. Len(<<image>>) : <<image>>[k] = image
      OBVIOUS
    <3>4. \A k \in 1 .. Len(<<image>>) : <<image>>[k].content = <<>>
      BY <3>2, <3>3
    <3>5. Flat(<<image>>) = [k \in 1 .. Len(<<image>>) |-> Item(<<image>>[k].kind, <<image>>[k].value)]
      BY <3>3, <3>4, FlatLeaves
    <3>6. [k \in 1 .. Len(<<image>>) |-> Item(<<image>>[k].kind, <<image>>[k].value)] = <<Item(image.kind, image.value)>>
      OBVIOUS
    <3>7. QED
      BY <3>1, <3>2, <3>5, <3>6
  <2>7. PartsOf(part) \in Seq(PartType) /\ Flat(PartsOf(part)) = SpokenOf(part)
    BY <2>3, <2>5, <2>6 DEF PartsOf, SpokenOf
  <2>8. TextOf(part) \in Seq(STRING)
    <3>1. <<>> \in Seq(STRING)
      OBVIOUS
    <3>2. QED
      BY <2>2, <3>1 DEF TextOf
  <2>9. QED
    BY <2>1, <2>7, <2>8
<1>3. [i \in 1 .. Len(input) |-> PartsOf(input[i])] \in Seq(Seq(PartType))
  BY <1>2
<1>4. [i \in 1 .. Len(input) |-> TextOf(input[i])] \in Seq(Seq(STRING))
  BY <1>2
<1>5. DOMAIN input = 1 .. Len(input) /\ Len(input) \in Nat
  OBVIOUS
<1>6. QED
  BY <1>1, <1>2, <1>3, <1>4, <1>5

(* The parts of a message whose input is not empty.                        *)
LEMMA FlatInput ==
  ASSUME NEW message \in MessageType
  PROVE  Flat(FlattenSeq([i \in 1 .. Len(message.input) |-> PartsOf(message.input[i])])) =
           FlattenSeq([i \in 1 .. Len(message.input) |-> SpokenOf(message.input[i])])
<1> DEFINE parts == [i \in 1 .. Len(message.input) |-> PartsOf(message.input[i])]
<1>1. parts \in Seq(Seq(PartType))
  BY InputTyped
<1>2. Len(parts) = Len(message.input) /\ \A i \in 1 .. Len(message.input) : parts[i] = PartsOf(message.input[i])
  BY InputTyped
<1>3. [i \in 1 .. Len(parts) |-> Flat(parts[i])] = [i \in 1 .. Len(message.input) |-> SpokenOf(message.input[i])]
  BY <1>2, InputTyped
<1> HIDE DEF parts
<1>4. Flat(FlattenSeq(parts)) = FlattenSeq([i \in 1 .. Len(parts) |-> Flat(parts[i])])
  BY <1>1, FlatFlattened
<1>5. QED
  BY <1>3, <1>4 DEF parts

LEMMA SpokenIs ==
  ASSUME NEW message \in MessageType
  PROVE  Spoken(message) = IF message.input = <<>> THEN Written(message.text)
           ELSE FlattenSeq([i \in 1 .. Len(message.input) |-> SpokenOf(message.input[i])])
  BY InputTyped DEF Spoken, SpokenOf

LEMMA TextIs ==
  ASSUME NEW message \in MessageType, Constructed(message), message.input # <<>>
  PROVE  message.text = FlattenSeq([i \in 1 .. Len(message.input) |-> TextOf(message.input[i])])
  BY InputTyped DEF Constructed, TextOf

(* A concatenation is empty only of what is empty.                         *)
LEMMA FlattenEmptied ==
  ASSUME NEW S, NEW seqs \in Seq(Seq(S)), FlattenSeq(seqs) = <<>>, NEW i \in 1 .. Len(seqs)
  PROVE  seqs[i] = <<>>
<1>1. Range(FlattenSeq(seqs)) = UNION {Range(seqs[k]) : k \in 1 .. Len(seqs)}
  BY FlattenListed
<1>2. Range(FlattenSeq(seqs)) = {}
  BY DEF Range
<1>3. Range(seqs[i]) = {}
  BY <1>1, <1>2
<1>4. PICK list \in Seq(S) : list = seqs[i]
  OBVIOUS
<1>5. \A k \in DOMAIN list : FALSE
  BY <1>3, <1>4 DEF Range
<1>6. list = <<>>
  <2>1. DOMAIN list = 1 .. Len(list) /\ Len(list) \in Nat
    OBVIOUS
  <2>2. 1 \notin DOMAIN list
    BY <1>5
  <2>3. 1 \notin 1 .. Len(list)
    BY <2>1, <2>2
  <2>4. Len(list) = 0
    BY <2>1, <2>3
  <2>5. QED
    BY <2>4
<1>7. QED
  BY <1>4, <1>6

LEMMA InputSaid ==
  ASSUME NEW message \in MessageType, Constructed(message)
  PROVE  Flat(InputParts(message)) = Spoken(message)
<1> DEFINE parts == [i \in 1 .. Len(message.input) |-> PartsOf(message.input[i])]
           texts == [i \in 1 .. Len(message.input) |-> TextOf(message.input[i])]
<1>1. InputParts(message) = IF FlattenSeq(parts) = <<>> THEN Lines(message.text) ELSE FlattenSeq(parts)
  BY InputTyped DEF InputParts, Content
<1>2. /\ parts \in Seq(Seq(PartType)) /\ texts \in Seq(Seq(STRING))
      /\ Len(parts) = Len(message.input) /\ Len(texts) = Len(message.input)
  BY InputTyped
<1>3. message.text \in Seq(STRING)
  BY DEF MessageType
<1>4. CASE message.input = <<>>
  <2>1. parts = <<>>
    BY <1>4
  <2>2. InputParts(message) = Lines(message.text)
    BY <1>1, <2>1, FlattenNone
  <2>3. QED
    BY <1>3, <1>4, <2>2, FlatLines, SpokenIs
<1>5. CASE message.input # <<>> /\ FlattenSeq(parts) # <<>>
  BY <1>1, <1>5, FlatInput, SpokenIs
<1>6. CASE message.input # <<>> /\ FlattenSeq(parts) = <<>>
  <2>1. Spoken(message) = <<>>
    BY <1>6, FlatInput, FlatNone, SpokenIs
  <2>2. ASSUME NEW i \in 1 .. Len(message.input) PROVE texts[i] = <<>>
    <3>1. parts[i] = <<>>
      <4> HIDE DEF parts
      <4>1. QED
        BY <1>2, <1>6, FlattenEmptied
    <3>2. PartsOf(message.input[i]) = <<>>
      BY <3>1
    <3>3. PICK part \in InputPart : part = message.input[i]
      BY InputTyped
    <3>4. part.text \in Seq(STRING)
      BY DEF InputPart
    <3>5. part.type = "input_text" => part.text = <<>>
      <4>1. ASSUME part.type = "input_text" PROVE part.text = <<>>
        <5>1. Lines(part.text) = <<>>
          BY <3>2, <3>3, <4>1 DEF PartsOf
        <5>2. Len(Lines(part.text)) = Len(part.text)
          BY <3>4 DEF Lines
        <5>3. QED
          BY <3>4, <5>1, <5>2
      <4>2. QED
        BY <4>1
    <3>6. QED
      BY <3>3, <3>5 DEF TextOf
  <2>3. texts = [i \in 1 .. Len(message.input) |-> <<>>]
    BY <2>2
  <2>4. FlattenSeq(texts) = <<>>
    <3>1. Len(message.input) \in Nat
      BY InputTyped
    <3> HIDE DEF texts
    <3>2. QED
      BY <2>3, <3>1, FlattenEmpties
  <2>5. message.text = <<>>
    BY <1>6, <2>4, TextIs
  <2>6. Lines(message.text) = <<>>
    BY <2>5 DEF Lines
  <2>7. QED
    BY <1>1, <1>6, <2>1, <2>6, FlatNone
<1>7. QED
  BY <1>4, <1>5, <1>6

(* ... or, without images, its content.                                    *)
LEMMA ContentSaid ==
  ASSUME NEW message \in MessageType, Constructed(message), ~HasImageInput(message)
  PROVE  Flat(Content(message)) = Spoken(message)
<1> DEFINE texts == [i \in 1 .. Len(message.input) |-> TextOf(message.input[i])]
<1>1. texts \in Seq(Seq(STRING)) /\ Len(texts) = Len(message.input)
  BY InputTyped
<1>2. message.text \in Seq(STRING)
  BY DEF MessageType
<1>3. Flat(Content(message)) = Written(message.text)
  BY <1>2, FlatLines DEF Content
<1>4. CASE message.input = <<>>
  BY <1>3, <1>4, SpokenIs
<1>5. CASE message.input # <<>>
  <2>1. \A i \in 1 .. Len(message.input) : message.input[i].type = "input_text"
    BY InputTyped DEF Constructed, HasImageInput
  <2>2. \A i \in 1 .. Len(message.input) : Written(texts[i]) = SpokenOf(message.input[i])
    BY <2>1 DEF TextOf, SpokenOf
  <2>3. [i \in 1 .. Len(texts) |-> Written(texts[i])] = [i \in 1 .. Len(message.input) |-> SpokenOf(message.input[i])]
    BY <1>1, <2>2
  <2>4. message.text = FlattenSeq(texts)
    BY <1>5, TextIs
  <2> HIDE DEF texts
  <2>5. Written(FlattenSeq(texts)) = FlattenSeq([i \in 1 .. Len(texts) |-> Written(texts[i])])
    BY <1>1, WrittenFlattened
  <2>6. QED
    BY <1>3, <1>5, <2>3, <2>4, <2>5, SpokenIs
<1>6. QED
  BY <1>4, <1>5

(* A turn, and turns put together.                                         *)
LEMMA PartsSaid ==
  ASSUME NEW parts \in Seq(PartType),
         NEW role \in {"system", "developer", "user", "assistant", "model", "tool"}
  PROVE  AllParts(Said(role, parts)) = parts /\ AllParts(SaidIfAny(role, parts)) = parts
<1>1. [i \in DOMAIN Said(role, parts) |-> Said(role, parts)[i].parts] = <<parts>>
  BY DEF Said
<1>2. AllParts(Said(role, parts)) = parts
  BY <1>1, FlattenOne DEF AllParts
<1>3. parts = <<>> => AllParts(SaidIfAny(role, parts)) = parts
  BY FlatNone DEF SaidIfAny
<1>4. QED
  BY <1>2, <1>3 DEF SaidIfAny

LEMMA AssistantSaid ==
  ASSUME NEW message \in MessageType
  PROVE  AllParts(AppendAssistant(message)) = Content(message) \o Calls(message)
<1> DEFINE some == IF message.text = <<>> THEN <<>> ELSE Said("assistant", Content(message))
           items == ItemsOfCalls(message)
<1>1. Content(message) \in Seq(PartType) /\ Calls(message) \in Seq(PartType)
  BY PartsTyped
<1>2. PICK calls \in Seq(ToolCall) : calls = message.calls
  BY DEF MessageType
<1>3. ASSUME NEW k \in 1 .. Len(calls) PROVE [role |-> "assistant", parts |-> <<Call(calls[k])>>] \in TurnType
  <2>1. Call(calls[k]) \in PartType
    BY CallTyped
  <2>2. <<Call(calls[k])>> \in Seq(PartType)
    BY <2>1
  <2>3. QED
    BY <2>2 DEF TurnType
<1>4. items = [k \in 1 .. Len(calls) |-> [role |-> "assistant", parts |-> <<Call(calls[k])>>]]
  BY <1>2 DEF ItemsOfCalls
<1>5. items \in Seq(TurnType) /\ Len(items) = Len(calls)
      /\ \A k \in 1 .. Len(calls) : items[k] = [role |-> "assistant", parts |-> <<Call(calls[k])>>]
  BY <1>3, <1>4
<1>6. Len(Calls(message)) = Len(calls) /\ \A k \in 1 .. Len(calls) : Calls(message)[k] = Call(calls[k])
  BY <1>2 DEF Calls
<1>7. \A k \in 1 .. Len(items) : PartsOfTurn[items[k]] = <<Calls(message)[k]>>
  <2>1. SUFFICES ASSUME NEW k \in 1 .. Len(calls) PROVE PartsOfTurn[items[k]] = <<Calls(message)[k]>>
    BY <1>5
  <2> HIDE DEF items
  <2>2. items[k] = [role |-> "assistant", parts |-> <<Call(calls[k])>>]
    BY <1>5
  <2>3. items[k] \in TurnType /\ items[k].parts = <<Call(calls[k])>>
    BY <1>3, <2>2
  <2>4. PartsOfTurn[items[k]] = items[k].parts
    BY <2>3 DEF PartsOfTurn
  <2>5. QED
    BY <1>6, <2>3, <2>4
<1>8. AllParts(items) = Calls(message)
  <2> HIDE DEF items
  <2>1. PICK sent \in Seq(PartType) : sent = Calls(message)
    BY <1>1
  <2>2. Len(sent) = Len(items)
    BY <1>5, <1>6, <2>1
  <2>3. \A k \in 1 .. Len(items) : PartsOfTurn[items[k]] = <<sent[k]>>
    BY <1>7, <2>1
  <2>4. Each(items, PartsOfTurn) = sent
    BY <2>2, <2>3, EachSingles
  <2>5. QED
    BY <1>5, <2>4, <2>1, AllPartsIs
<1>9. some \in Seq(TurnType) /\ AllParts(some) = Content(message)
  <2>1. CASE message.text = <<>>
    <3>1. some = <<>> /\ Content(message) = <<>>
      BY <2>1 DEF Content, Lines
    <3>2. <<>> \in Seq(TurnType)
      OBVIOUS
    <3> HIDE DEF some
    <3>3. QED
      BY <3>1, <3>2, FlatNone
  <2>2. CASE message.text # <<>>
    BY <1>1, <2>2, SaidTyped, PartsSaid
  <2>3. QED
    BY <2>1, <2>2
<1>10. AppendAssistant(message) = some \o items
  BY DEF AppendAssistant
<1> HIDE DEF some, items
<1>11. some \o items \in Seq(TurnType)
  BY <1>5, <1>9
<1>12. Each(some \o items, PartsOfTurn) = Each(some, PartsOfTurn) \o Each(items, PartsOfTurn)
  <2>1. PartsOfTurn \in [TurnType -> Seq(PartType)]
    BY CarriedTyped
  <2>2. QED
    BY <1>5, <1>9, <2>1, EachJoined
<1>13. QED
  BY <1>5, <1>8, <1>9, <1>10, <1>11, <1>12, AllPartsIs

(* What a message is encoded as says what it means.                        *)
LEMMA EncodedSays ==
  ASSUME NEW p \in Providers, NEW conversation \in Seq(MessageType), NEW i \in 1 .. Len(conversation),
         Constructed(conversation[i]), ~Refuses(p, conversation, i)
  PROVE  Flat(AllParts(Encoded(p, conversation, i))) = Meant(conversation[i])
<1>1. PICK m \in MessageType : m = conversation[i]
  OBVIOUS
<1>2. Constructed(m)
  BY <1>1
<1>3. /\ InputParts(m) \in Seq(LeafType) /\ InputParts(m) \in Seq(PartType)
      /\ Content(m) \in Seq(LeafType) /\ Content(m) \in Seq(PartType)
      /\ Calls(m) \in Seq(PartType)
  BY PartsTyped
<1>4. m.role \in STRING /\ m.answers \in Optional /\ "" \in Optional /\ m.calls \in Seq(ToolCall)
  BY DEF MessageType, Optional
<1> DEFINE calls == [k \in DOMAIN m.calls |-> Item("call", m.calls[k].id)]
<1>5. Flat(Calls(m)) = calls
  BY FlatCalls
<1>6. Flat(InputParts(m)) = Spoken(m)
  BY <1>2, InputSaid
<1>7. ~HasImageInput(m) => Flat(Content(m)) = Spoken(m)
  BY <1>2, ContentSaid
<1>8. Meant(m) = (IF m.role = "tool" THEN <<Item("result", m.answers)>> ELSE <<>>) \o Spoken(m) \o calls
  BY DEF Meant
<1>9. Spoken(m) \in Seq(ItemType) /\ calls \in Seq(ItemType)
  BY <1>3, <1>5, <1>6, FlatIs
<1>10. m.role # "assistant" => calls = <<>>
  BY <1>2 DEF Constructed
<1> HIDE DEF calls
<1>11. /\ m.role = "assistant" => Meant(m) = Spoken(m) \o calls
       /\ m.role = "tool" => Meant(m) = <<Item("result", m.answers)>> \o Spoken(m)
       /\ m.role \notin {"assistant", "tool"} => Meant(m) = Spoken(m)
  <2>1. <<Item("result", m.answers)>> \in Seq(ItemType)
    <3>1. Item("result", m.answers) \in ItemType
      BY <1>4 DEF Item, ItemType
    <3>2. QED
      BY <3>1
  <2>2. /\ <<>> \o Spoken(m) = Spoken(m) /\ Spoken(m) \o <<>> = Spoken(m)
        /\ (<<Item("result", m.answers)>> \o Spoken(m)) \o <<>> = <<Item("result", m.answers)>> \o Spoken(m)
    BY <1>9, <2>1
  <2>3. QED
    BY <1>8, <1>10, <2>2
<1>12. /\ Flat(InputParts(m) \o Calls(m)) = Spoken(m) \o calls
       /\ ~HasImageInput(m) => Flat(Content(m) \o Calls(m)) = Spoken(m) \o calls
       /\ InputParts(m) \o Calls(m) \in Seq(PartType) /\ Content(m) \o Calls(m) \in Seq(PartType)
  <2>1. Flat(InputParts(m) \o Calls(m)) = Flat(InputParts(m)) \o Flat(Calls(m))
    BY <1>3, FlatJoined
  <2>2. Flat(Content(m) \o Calls(m)) = Flat(Content(m)) \o Flat(Calls(m))
    BY <1>3, FlatJoined
  <2>3. InputParts(m) \o Calls(m) \in Seq(PartType) /\ Content(m) \o Calls(m) \in Seq(PartType)
    BY <1>3
  <2>4. QED
    BY <1>5, <1>6, <1>7, <2>1, <2>2, <2>3
<1>13. ASSUME NEW name \in Optional
       PROVE  /\ Flat(<<Result(m.answers, name, InputParts(m))>>) = <<Item("result", m.answers)>> \o Spoken(m)
              /\ ~HasImageInput(m) =>
                   Flat(<<Result(m.answers, name, Content(m))>>) = <<Item("result", m.answers)>> \o Spoken(m)
              /\ <<Result(m.answers, name, InputParts(m))>> \in Seq(PartType)
              /\ <<Result(m.answers, name, Content(m))>> \in Seq(PartType)
  <2>1. Flat(<<Result(m.answers, name, InputParts(m))>>) = <<Item("result", m.answers)>> \o Flat(InputParts(m))
    BY <1>3, <1>4, FlatResult
  <2>2. Flat(<<Result(m.answers, name, Content(m))>>) = <<Item("result", m.answers)>> \o Flat(Content(m))
    BY <1>3, <1>4, FlatResult
  <2>3. /\ <<Result(m.answers, name, InputParts(m))>> \in Seq(PartType)
        /\ <<Result(m.answers, name, Content(m))>> \in Seq(PartType)
    BY <1>3, <1>4, ResultTyped
  <2>4. QED
    BY <1>6, <1>7, <2>1, <2>2, <2>3
<1>14. ASSUME ~OpenAIRefuses(p, m) PROVE Flat(AllParts(OpenAIMessage(m))) = Meant(m)
  <2>1. CASE m.role = "user"
    <3>1. OpenAIMessage(m) = Said("user", InputParts(m))
      BY <2>1 DEF OpenAIMessage
    <3>2. QED
      BY <1>3, <1>6, <1>11, <2>1, <3>1, PartsSaid
  <2>2. ~HasImageInput(m) \/ m.role = "user"
    BY <1>14 DEF OpenAIRefuses
  <2>3. CASE m.role = "tool"
    <3>1. OpenAIMessage(m) = Said("tool", <<Result(m.answers, "", Content(m))>>)
      BY <2>3 DEF OpenAIMessage
    <3>2. QED
      BY <1>4, <1>11, <1>13, <2>2, <2>3, <3>1, PartsSaid
  <2>4. CASE m.role = "assistant"
    <3>1. OpenAIMessage(m) = Said("assistant", Content(m) \o Calls(m))
      BY <2>4 DEF OpenAIMessage
    <3>2. QED
      BY <1>11, <1>12, <2>2, <2>4, <3>1, PartsSaid
  <2>5. CASE m.role \notin {"user", "tool", "assistant"}
    <3>1. PICK role \in {"system", "developer", "user"} : OpenAIMessage(m) = Said(role, Content(m))
      BY <2>5 DEF OpenAIMessage
    <3>2. AllParts(OpenAIMessage(m)) = Content(m)
      BY <1>3, <3>1, PartsSaid
    <3>3. QED
      BY <1>7, <1>11, <2>2, <2>5, <3>2
  <2>6. QED
    BY <2>1, <2>3, <2>4, <2>5
<1>15. CASE p = "openai"
  BY <1>1, <1>14, <1>15 DEF Encoded, Refuses
<1>16. CASE p = "responses"
  <2>1. ~OpenAIRefuses(p, m) /\ Encoded(p, conversation, i) = ResponsesMessage(m)
    BY <1>1, <1>16 DEF Encoded, Refuses
  <2>2. CASE m.role = "assistant"
    <3>1. ~HasImageInput(m) /\ ResponsesMessage(m) = AppendAssistant(m)
      BY <2>1, <2>2 DEF OpenAIRefuses, ResponsesMessage
    <3>2. QED
      BY <1>1, <1>11, <1>12, <2>1, <2>2, <3>1, AssistantSaid
  <2>3. CASE m.role # "assistant"
    BY <1>1, <1>14, <2>1, <2>3 DEF ResponsesMessage
  <2>4. QED
    BY <2>2, <2>3
<1>17. CASE p = "anthropic"
  <2>1. Encoded(p, conversation, i) = AnthropicMessage(m)
    BY <1>1, <1>17 DEF Encoded
  <2>2. CASE m.role = "assistant"
    <3>1. AnthropicMessage(m) = Said("assistant", InputParts(m) \o Calls(m))
      BY <2>2 DEF AnthropicMessage
    <3>2. AllParts(Said("assistant", InputParts(m) \o Calls(m))) = InputParts(m) \o Calls(m)
      BY <1>12, PartsSaid
    <3>3. QED
      BY <1>1, <1>11, <1>12, <2>1, <2>2, <3>1, <3>2
  <2>3. CASE m.role = "tool"
    <3>1. AnthropicMessage(m) = Said("user", <<Result(m.answers, "", InputParts(m))>>)
      BY <2>3 DEF AnthropicMessage
    <3>2. <<Result(m.answers, "", InputParts(m))>> \in Seq(PartType)
      BY <1>4, <1>13
    <3>3. AllParts(AnthropicMessage(m)) = <<Result(m.answers, "", InputParts(m))>>
      BY <3>1, <3>2, PartsSaid
    <3>4. Flat(<<Result(m.answers, "", InputParts(m))>>) = <<Item("result", m.answers)>> \o Spoken(m)
      BY <1>4, <1>13
    <3>5. QED
      BY <1>1, <1>11, <2>1, <2>3, <3>3, <3>4
  <2>4. CASE m.role \notin {"assistant", "tool"}
    <3>1. AnthropicMessage(m) = Said("user", InputParts(m))
      BY <2>4 DEF AnthropicMessage
    <3>2. QED
      BY <1>1, <1>3, <1>6, <1>11, <2>1, <2>4, <3>1, PartsSaid
  <2>5. QED
    BY <2>2, <2>3, <2>4
<1>18. CASE p = "gemini"
  <2>1. Encoded(p, conversation, i) = GeminiMessage(conversation, i)
    BY <1>18 DEF Encoded
  <2>2. CASE m.role = "assistant"
    <3>1. GeminiMessage(conversation, i) = SaidIfAny("model", InputParts(m) \o Calls(m))
      BY <1>1, <2>2 DEF GeminiMessage
    <3>2. AllParts(SaidIfAny("model", InputParts(m) \o Calls(m))) = InputParts(m) \o Calls(m)
      BY <1>12, PartsSaid
    <3>3. QED
      BY <1>1, <1>11, <1>12, <2>1, <2>2, <3>1, <3>2
  <2>3. CASE m.role = "tool"
    <3>1. GeminiMessage(conversation, i) =
            Said("user", <<Result(m.answers, ToolName(conversation, i), Content(m))>>)
      BY <1>1, <2>3 DEF GeminiMessage
    <3>2. ~HasImageInput(m)
      BY <1>1, <1>18, <2>3 DEF Refuses, GeminiRefuses
    <3>3. ToolName(conversation, i) \in Optional
      BY ToolNameIs
    <3>4. PICK name \in Optional : name = ToolName(conversation, i)
      BY <3>3
    <3>5. <<Result(m.answers, name, Content(m))>> \in Seq(PartType)
      BY <1>13
    <3>6. AllParts(GeminiMessage(conversation, i)) = <<Result(m.answers, name, Content(m))>>
      BY <3>1, <3>4, <3>5, PartsSaid
    <3>7. Flat(<<Result(m.answers, name, Content(m))>>) = <<Item("result", m.answers)>> \o Spoken(m)
      BY <1>13, <3>2
    <3>8. QED
      BY <1>1, <1>11, <2>1, <2>3, <3>6, <3>7
  <2>4. CASE m.role \notin {"assistant", "tool"}
    <3>1. GeminiMessage(conversation, i) = SaidIfAny("user", InputParts(m))
      BY <1>1, <2>4 DEF GeminiMessage
    <3>2. QED
      BY <1>1, <1>3, <1>6, <1>11, <2>1, <2>4, <3>1, PartsSaid
  <2>5. QED
    BY <2>2, <2>3, <2>4
<1>19. QED
  BY <1>15, <1>16, <1>17, <1>18 DEF Providers

(* Whose the parts are: the calls an assistant's, the results another's,   *)
(* and a name Gemini gives a result that of a call before it.              *)
HasItsName(conversation, id, name) ==
  \/ \E m \in DOMAIN conversation : \E c \in DOMAIN conversation[m].calls :
       conversation[m].calls[c] = [id |-> id, name |-> name]
  \/ \E m \in DOMAIN conversation : conversation[m].answers = id /\ conversation[m].name = name
Attributed(p, conversation, turn) ==
  \A j \in DOMAIN turn.parts :
    /\ turn.parts[j].kind = "call" => turn.role \in {"assistant", "model"}
    /\ turn.parts[j].kind = "result" => turn.role \notin {"assistant", "model"}
    /\ turn.parts[j].kind = "result" /\ p = "gemini" =>
         HasItsName(conversation, turn.parts[j].value, turn.parts[j].name)

LEMMA LeavesAttributed ==
  ASSUME NEW p, NEW conversation, NEW role, NEW parts \in Seq(LeafType), NEW k \in 1 .. Len(Said(role, parts))
  PROVE  Attributed(p, conversation, Said(role, parts)[k])
<1>1. Said(role, parts)[k] = [role |-> role, parts |-> parts]
  BY DEF Said
<1>2. \A j \in DOMAIN parts : parts[j].kind \in {"text", "image"}
  <2>1. \A j \in DOMAIN parts : parts[j] \in LeafType
    OBVIOUS
  <2>2. QED
    BY <2>1 DEF LeafType
<1>3. QED
  BY <1>1, <1>2 DEF Attributed

LEMMA AssistantAttributed ==
  ASSUME NEW p, NEW conversation, NEW message \in MessageType, NEW role \in {"assistant", "model"},
         NEW leaves \in Seq(LeafType), NEW k \in 1 .. Len(Said(role, leaves \o Calls(message)))
  PROVE  Attributed(p, conversation, Said(role, leaves \o Calls(message))[k])
<1>1. Said(role, leaves \o Calls(message))[k] = [role |-> role, parts |-> leaves \o Calls(message)]
  BY DEF Said
<1>2. PICK calls \in Seq(PartType) : calls = Calls(message)
  BY PartsTyped
<1>3. \A j \in DOMAIN calls : calls[j].kind = "call"
  BY <1>2 DEF Calls, Call, Part
<1>4. \A j \in 1 .. Len(leaves) : leaves[j].kind \in {"text", "image"}
  <2>1. \A j \in 1 .. Len(leaves) : leaves[j] \in LeafType
    OBVIOUS
  <2>2. QED
    BY <2>1 DEF LeafType
<1>5. ASSUME NEW j \in DOMAIN (leaves \o calls) PROVE (leaves \o calls)[j].kind # "result"
  <2>1. CASE j <= Len(leaves)
    <3>1. j \in 1 .. Len(leaves) /\ (leaves \o calls)[j] = leaves[j]
      BY <2>1
    <3>2. QED
      BY <1>4, <3>1
  <2>2. CASE ~(j <= Len(leaves))
    <3>1. j - Len(leaves) \in DOMAIN calls /\ (leaves \o calls)[j] = calls[j - Len(leaves)]
      BY <2>2
    <3>2. QED
      BY <1>3, <3>1
  <2>3. QED
    BY <2>1, <2>2
<1>6. QED
  BY <1>1, <1>2, <1>5 DEF Attributed

LEMMA ResultAttributed ==
  ASSUME NEW p, NEW conversation, NEW role, role \notin {"assistant", "model"}, NEW id, NEW name, NEW content,
         p = "gemini" => HasItsName(conversation, id, name),
         NEW k \in 1 .. Len(Said(role, <<Result(id, name, content)>>))
  PROVE  Attributed(p, conversation, Said(role, <<Result(id, name, content)>>)[k])
<1>1. PICK result : result = Result(id, name, content)
  OBVIOUS
<1>2. result.kind = "result" /\ result.value = id /\ result.name = name
  BY <1>1 DEF Result, Part
<1>3. Said(role, <<result>>)[k] = [role |-> role, parts |-> <<result>>]
  BY <1>1 DEF Said
<1>4. \A j \in DOMAIN <<result>> : <<result>>[j] = result
  OBVIOUS
<1>5. p = "gemini" => HasItsName(conversation, id, name)
  BY <1>2
<1>6. QED
  BY <1>1, <1>2, <1>3, <1>4, <1>5 DEF Attributed

(* The name is given or that of an earlier call, else Gemini refuses.      *)
LEMMA NameIs ==
  ASSUME NEW conversation \in Seq(MessageType), NEW i \in 1 .. Len(conversation)
  PROVE  ToolName(conversation, i) = "" \/
         HasItsName(conversation, conversation[i].answers, ToolName(conversation, i))
<1> DEFINE call == [id |-> conversation[i].answers, name |-> ToolName(conversation, i)]
<1>1. DOMAIN conversation = 1 .. Len(conversation) /\ Len(conversation) \in Nat
  OBVIOUS
<1>2. i \in 1 .. Len(conversation) /\ i - 1 \in Nat
  BY <1>1
<1>3. i \in DOMAIN conversation /\ \A j \in 1 .. i - 1 : j \in DOMAIN conversation
  BY <1>1, <1>2
<1>4. CASE ToolName(conversation, i) = conversation[i].name
  BY <1>3, <1>4 DEF HasItsName
<1>5. CASE \E k \in 1 .. Len(EarlierCalls(conversation, i)) : EarlierCalls(conversation, i)[k] = call
  <2>1. PICK lists : lists = [j \in 1 .. i - 1 |-> CallsOf(conversation[j])]
    OBVIOUS
  <2>2. lists \in Seq(Seq(ToolCall)) /\ EarlierCalls(conversation, i) = FlattenSeq(lists)
    BY <2>1, EarlierTyped DEF EarlierCalls
  <2>3. FlattenSeq(lists) \in Seq(ToolCall)
    BY <2>2, FlattenTyped
  <2>4. PICK k \in 1 .. Len(FlattenSeq(lists)) : FlattenSeq(lists)[k] = call
    BY <1>5, <2>2
  <2>5. Len(lists) = i - 1 /\ \A j \in 1 .. i - 1 : lists[j] = CallsOf(conversation[j])
    BY <1>2, <2>1
  <2>6. Range(FlattenSeq(lists)) = UNION {Range(lists[j]) : j \in 1 .. Len(lists)}
    BY <2>2, FlattenListed
  <2>7. call \in Range(FlattenSeq(lists))
    BY <2>3, <2>4 DEF Range
  <2>8. PICK j \in 1 .. Len(lists) : call \in Range(lists[j])
    BY <2>6, <2>7
  <2>9. j \in 1 .. i - 1 /\ lists[j] = CallsOf(conversation[j])
    BY <2>5, <2>8
  <2>10. PICK c \in DOMAIN CallsOf(conversation[j]) :
           CallsOf(conversation[j])[c] = call
    BY <2>8, <2>9 DEF Range
  <2>11. CallsOf(conversation[j]) = conversation[j].calls
    <3>1. DOMAIN <<>> = {}
      OBVIOUS
    <3>2. QED
      BY <2>10, <3>1 DEF CallsOf
  <2>12. QED
    BY <1>3, <2>9, <2>10, <2>11 DEF HasItsName
<1>6. QED
  BY <1>4, <1>5, ToolNameIs

LEMMA EncodedAttributed ==
  ASSUME NEW p \in Providers, NEW conversation \in Seq(MessageType), NEW i \in 1 .. Len(conversation),
         ~Refuses(p, conversation, i), NEW turn, turn \in Range(Encoded(p, conversation, i))
  PROVE  Attributed(p, conversation, turn)
<1>1. PICK m \in MessageType : m = conversation[i]
  OBVIOUS
<1>2. InputParts(m) \in Seq(LeafType) /\ Content(m) \in Seq(LeafType)
  BY PartsTyped
<1>3. \A role, parts : Range(SaidIfAny(role, parts)) \subseteq Range(Said(role, parts))
  BY DEF SaidIfAny, Range
<1>4. \A role, parts : \A said \in Range(Said(role, parts)) :
        \E k \in 1 .. Len(Said(role, parts)) : said = Said(role, parts)[k]
  BY DEF Said, Range
<1>5. ASSUME NEW role, NEW leaves \in Seq(LeafType), turn \in Range(Said(role, leaves))
      PROVE  Attributed(p, conversation, turn)
  <2>1. PICK k \in 1 .. Len(Said(role, leaves)) : turn = Said(role, leaves)[k]
    BY <1>4, <1>5
  <2>2. Attributed(p, conversation, Said(role, leaves)[k])
    BY LeavesAttributed
  <2>3. QED
    BY <2>1, <2>2
<1>6. ASSUME NEW role \in {"assistant", "model"}, NEW leaves \in Seq(LeafType),
             turn \in Range(Said(role, leaves \o Calls(m)))
      PROVE  Attributed(p, conversation, turn)
  <2>1. PICK k \in 1 .. Len(Said(role, leaves \o Calls(m))) : turn = Said(role, leaves \o Calls(m))[k]
    BY <1>4, <1>6
  <2>2. Attributed(p, conversation, Said(role, leaves \o Calls(m))[k])
    BY AssistantAttributed
  <2>3. QED
    BY <2>1, <2>2
<1>7. ASSUME NEW role, role \notin {"assistant", "model"}, NEW name, NEW content,
             p = "gemini" => name = ToolName(conversation, i) /\ name # "",
             turn \in Range(Said(role, <<Result(m.answers, name, content)>>))
      PROVE  Attributed(p, conversation, turn)
  <2>1. p = "gemini" => HasItsName(conversation, m.answers, name)
    BY <1>1, <1>7, NameIs
  <2>2. PICK k \in 1 .. Len(Said(role, <<Result(m.answers, name, content)>>)) :
          turn = Said(role, <<Result(m.answers, name, content)>>)[k]
    BY <1>4, <1>7
  <2>3. Attributed(p, conversation, Said(role, <<Result(m.answers, name, content)>>)[k])
    BY <1>7, <2>1, ResultAttributed
  <2>4. QED
    BY <2>2, <2>3
<1>8. ASSUME turn \in Range(OpenAIMessage(m)), p # "gemini" PROVE Attributed(p, conversation, turn)
  <2>1. CASE m.role = "tool"
    <3>1. OpenAIMessage(m) = Said("tool", <<Result(m.answers, "", Content(m))>>)
      BY <2>1 DEF OpenAIMessage
    <3>2. QED
      BY <1>7, <1>8, <3>1
  <2>2. CASE m.role = "assistant"
    <3>1. OpenAIMessage(m) = Said("assistant", Content(m) \o Calls(m))
      BY <2>2 DEF OpenAIMessage
    <3>2. QED
      BY <1>2, <1>6, <1>8, <3>1
  <2>3. CASE m.role \notin {"tool", "assistant"}
    <3>1. \E role, leaves : leaves \in Seq(LeafType) /\ OpenAIMessage(m) = Said(role, leaves)
      BY <1>2, <2>3 DEF OpenAIMessage
    <3>2. QED
      BY <1>5, <1>8, <3>1
  <2>4. QED
    BY <2>1, <2>2, <2>3
<1>9. CASE p = "openai"
  BY <1>1, <1>8, <1>9 DEF Encoded
<1>10. CASE p = "responses"
  <2>1. turn \in Range(ResponsesMessage(m))
    BY <1>1, <1>10 DEF Encoded
  <2>2. CASE m.role # "assistant"
    BY <1>8, <1>10, <2>1, <2>2 DEF ResponsesMessage
  <2>3. CASE m.role = "assistant"
    <3>1. turn \in Range(AppendAssistant(m))
      BY <2>1, <2>3 DEF ResponsesMessage
    <3> DEFINE some == IF m.text = <<>> THEN <<>> ELSE Said("assistant", Content(m))
    <3>2. some \in Seq(TurnType) /\ ItemsOfCalls(m) \in Seq(TurnType)
      <4>1. Said("assistant", Content(m)) \in Seq(TurnType)
        BY PartsTyped, SaidTyped
      <4>2. <<>> \in Seq(TurnType)
        OBVIOUS
      <4>3. QED
        BY <4>1, <4>2, ItemsTyped
    <3>3. AppendAssistant(m) = some \o ItemsOfCalls(m)
      BY DEF AppendAssistant
    <3>4. Range(AppendAssistant(m)) = Range(some) \cup Range(ItemsOfCalls(m))
      <4> HIDE DEF some
      <4>1. QED
        BY <3>2, <3>3, RangeJoined
    <3>5. CASE turn \in Range(some)
      <4>1. turn \in Range(Said("assistant", Content(m)))
        BY <3>5 DEF Range
      <4>2. QED
        BY <1>2, <1>5, <4>1
    <3>6. CASE turn \in Range(ItemsOfCalls(m))
      <4>1. PICK k \in DOMAIN m.calls : turn = [role |-> "assistant", parts |-> <<Call(m.calls[k])>>]
        BY <3>6 DEF ItemsOfCalls, Range
      <4>2. \A j \in DOMAIN turn.parts : turn.parts[j].kind = "call" /\ turn.role = "assistant"
        BY <4>1 DEF Call, Part
      <4>3. QED
        BY <4>2 DEF Attributed
    <3>7. QED
      BY <3>1, <3>4, <3>5, <3>6
  <2>4. QED
    BY <2>2, <2>3
<1>11. CASE p = "anthropic"
  <2>1. turn \in Range(AnthropicMessage(m))
    BY <1>1, <1>11 DEF Encoded
  <2>2. CASE m.role = "assistant"
    <3>1. AnthropicMessage(m) = Said("assistant", InputParts(m) \o Calls(m))
      BY <2>2 DEF AnthropicMessage
    <3>2. QED
      BY <1>2, <1>6, <2>1, <3>1
  <2>3. CASE m.role = "tool"
    <3>1. AnthropicMessage(m) = Said("user", <<Result(m.answers, "", InputParts(m))>>)
      BY <2>3 DEF AnthropicMessage
    <3>2. QED
      BY <1>7, <1>11, <2>1, <3>1
  <2>4. CASE m.role \notin {"assistant", "tool"}
    <3>1. AnthropicMessage(m) = Said("user", InputParts(m))
      BY <2>4 DEF AnthropicMessage
    <3>2. QED
      BY <1>2, <1>5, <2>1, <3>1
  <2>5. QED
    BY <2>2, <2>3, <2>4
<1>12. CASE p = "gemini"
  <2>1. turn \in Range(GeminiMessage(conversation, i))
    BY <1>12 DEF Encoded
  <2>2. CASE m.role = "assistant"
    <3>1. GeminiMessage(conversation, i) = SaidIfAny("model", InputParts(m) \o Calls(m))
      BY <1>1, <2>2 DEF GeminiMessage
    <3>2. turn \in Range(Said("model", InputParts(m) \o Calls(m)))
      BY <1>3, <2>1, <3>1
    <3>3. QED
      BY <1>2, <1>6, <3>2
  <2>3. CASE m.role = "tool"
    <3>1. GeminiMessage(conversation, i) =
            Said("user", <<Result(m.answers, ToolName(conversation, i), Content(m))>>)
      BY <1>1, <2>3 DEF GeminiMessage
    <3>2. ToolName(conversation, i) # ""
      BY <1>1, <1>12, <2>3 DEF Refuses, GeminiRefuses
    <3>3. QED
      BY <1>7, <2>1, <3>1, <3>2
  <2>4. CASE m.role \notin {"assistant", "tool"}
    <3>1. GeminiMessage(conversation, i) = SaidIfAny("user", InputParts(m))
      BY <1>1, <2>4 DEF GeminiMessage
    <3>2. turn \in Range(Said("user", InputParts(m)))
      BY <1>3, <2>1, <3>1
    <3>3. QED
      BY <1>2, <1>5, <3>2
  <2>5. QED
    BY <2>2, <2>3, <2>4
<1>13. QED
  BY <1>9, <1>10, <1>11, <1>12 DEF Providers

(* The conversation as a whole.                                            *)
LEMMA ConversationSaid ==
  ASSUME NEW p \in Providers, NEW conversation \in Seq(MessageType),
         \A i \in 1 .. Len(conversation) : Constructed(conversation[i]),
         \A i \in 1 .. Len(conversation) : ~Refuses(p, conversation, i)
  PROVE  /\ Flat(FlattenSeq(Apart(p, conversation))) =
              FlattenSeq([i \in DOMAIN conversation |->
                IF SetApart(p, conversation, i) THEN Meant(conversation[i]) ELSE <<>>])
         /\ Flat(AllParts(FlattenSeq(Among(p, conversation)))) =
              FlattenSeq([i \in DOMAIN conversation |->
                IF SetApart(p, conversation, i) THEN <<>> ELSE Meant(conversation[i])])
<1>1. DOMAIN conversation = 1 .. Len(conversation) /\ Len(conversation) \in Nat
  OBVIOUS
<1>2. Apart(p, conversation) \in Seq(Seq(PartType)) /\ Among(p, conversation) \in Seq(Seq(TurnType))
  BY RequestTyped
<1>3. /\ Len(Apart(p, conversation)) = Len(conversation) /\ Len(Among(p, conversation)) = Len(conversation)
      /\ \A i \in 1 .. Len(conversation) :
           /\ Apart(p, conversation)[i] = IF SetApart(p, conversation, i) THEN InputParts(conversation[i]) ELSE <<>>
           /\ Among(p, conversation)[i] = IF SetApart(p, conversation, i) THEN <<>> ELSE Encoded(p, conversation, i)
  BY <1>1 DEF Apart, Among
<1>4. ASSUME NEW i \in 1 .. Len(conversation)
      PROVE  Flat(Apart(p, conversation)[i]) =
               IF SetApart(p, conversation, i) THEN Meant(conversation[i]) ELSE <<>>
  <2>1. CASE SetApart(p, conversation, i)
    <3>1. PICK m \in MessageType : m = conversation[i]
      OBVIOUS
    <3>2. Constructed(m) /\ m.role \in {"system", "developer"}
      BY <2>1, <3>1 DEF SetApart, System
    <3>3. m.calls = <<>> /\ m.role # "tool"
      BY <3>2 DEF Constructed
    <3>4. Flat(InputParts(m)) = Spoken(m)
      BY <3>2, InputSaid
    <3>5. Spoken(m) \in Seq(ItemType)
      BY <3>4, PartsTyped, FlatIs
    <3>6. [k \in DOMAIN m.calls |-> Item("call", m.calls[k].id)] = <<>>
      BY <3>3
    <3>7. <<>> \o Spoken(m) = Spoken(m) /\ Spoken(m) \o <<>> = Spoken(m)
      BY <3>5
    <3>8. Meant(m) = Spoken(m)
      BY <3>3, <3>6, <3>7 DEF Meant
    <3>9. QED
      BY <1>3, <2>1, <3>1, <3>4, <3>8
  <2>2. CASE ~SetApart(p, conversation, i)
    BY <1>3, <2>2, FlatNone
  <2>3. QED
    BY <2>1, <2>2
<1>5. ASSUME NEW i \in 1 .. Len(conversation)
      PROVE  Flat(AllParts(Among(p, conversation)[i])) =
               IF SetApart(p, conversation, i) THEN <<>> ELSE Meant(conversation[i])
  <2>1. CASE SetApart(p, conversation, i)
    BY <1>3, <2>1, FlatNone
  <2>2. CASE ~SetApart(p, conversation, i)
    BY <1>3, <2>2, EncodedSays
  <2>3. QED
    BY <2>1, <2>2
<1>6. Flat(FlattenSeq(Apart(p, conversation))) =
        FlattenSeq([i \in 1 .. Len(conversation) |-> Flat(Apart(p, conversation)[i])])
  BY <1>2, <1>3, FlatFlattened
<1>7. Flat(AllParts(FlattenSeq(Among(p, conversation)))) =
        FlattenSeq([i \in 1 .. Len(conversation) |-> Flat(AllParts(Among(p, conversation)[i]))])
  <2>1. PICK parts : parts = [i \in 1 .. Len(conversation) |-> AllParts(Among(p, conversation)[i])]
    OBVIOUS
  <2>2. AllParts(FlattenSeq(Among(p, conversation))) = FlattenSeq(parts) /\ parts \in Seq(Seq(PartType))
    BY <1>2, <1>3, <2>1, AllPartsFlattened
  <2>3. Len(parts) = Len(conversation) /\ \A i \in 1 .. Len(conversation) : parts[i] = AllParts(Among(p, conversation)[i])
    BY <1>1, <2>1
  <2>4. Flat(FlattenSeq(parts)) = FlattenSeq([i \in 1 .. Len(parts) |-> Flat(parts[i])])
    BY <2>2, FlatFlattened
  <2>5. [i \in 1 .. Len(parts) |-> Flat(parts[i])] =
          [i \in 1 .. Len(conversation) |-> Flat(AllParts(Among(p, conversation)[i]))]
    BY <2>3
  <2>6. QED
    BY <2>2, <2>4, <2>5
<1>8. [i \in 1 .. Len(conversation) |-> Flat(Apart(p, conversation)[i])] =
        [i \in DOMAIN conversation |-> IF SetApart(p, conversation, i) THEN Meant(conversation[i]) ELSE <<>>]
  BY <1>1, <1>4
<1>9. [i \in 1 .. Len(conversation) |-> Flat(AllParts(Among(p, conversation)[i]))] =
        [i \in DOMAIN conversation |-> IF SetApart(p, conversation, i) THEN <<>> ELSE Meant(conversation[i])]
  BY <1>1, <1>5
<1>10. QED
  BY <1>6, <1>7, <1>8, <1>9

(* Whatever the conversation and the plan, each provider sends everything  *)
(* that is said, once and in its order, and attributes it rightly.         *)
THEOREM RequestsFaithful == Spec => []RequestFaithful
<1>1. MessagesInv => RequestFaithful
  <2>1. SUFFICES ASSUME MessagesInv, provider # Nil, request # Refused, AllConstructed
                 PROVE  RequestFaithful
    BY DEF RequestFaithful
  <2>2. PICK p, c, r : p = provider /\ c = compacted /\ r = request
    OBVIOUS
  <2>3. p \in Providers /\ r = ConvertMessages(p, c) /\ r # Refused /\ c \in Seq(MessageType)
    BY <2>1, <2>2, CompactedIs DEF MessagesInv
  <2>4. DOMAIN c = 1 .. Len(c) /\ Len(c) \in Nat
    BY <2>3
  <2>5. \A i \in 1 .. Len(c) : Constructed(c[i])
    BY <2>1, <2>2, <2>4 DEF AllConstructed
  <2>6. /\ Apart(p, c) \in Seq(Seq(PartType)) /\ Among(p, c) \in Seq(Seq(TurnType))
        /\ \A i \in 1 .. Len(c) : ~Refuses(p, c, i)
        /\ r.system = FlattenSeq(Apart(p, c)) /\ r.contents = FlattenSeq(Among(p, c))
    BY <2>3, RequestTyped
  <2>7. /\ Flat(r.system) = FlattenSeq([i \in DOMAIN c |-> IF SetApart(p, c, i) THEN Meant(c[i]) ELSE <<>>])
        /\ Flat(AllParts(r.contents)) =
             FlattenSeq([i \in DOMAIN c |-> IF SetApart(p, c, i) THEN <<>> ELSE Meant(c[i])])
    BY <2>3, <2>5, <2>6, ConversationSaid
  <2>8. ASSUME NEW i \in DOMAIN r.contents PROVE Attributed(p, c, r.contents[i])
    <3>1. Range(r.contents) = UNION {Range(Among(p, c)[k]) : k \in 1 .. Len(Among(p, c))}
      BY <2>6, FlattenListed
    <3>2. r.contents[i] \in Range(r.contents)
      BY <2>8 DEF Range
    <3>3. PICK k \in 1 .. Len(Among(p, c)) : r.contents[i] \in Range(Among(p, c)[k])
      BY <3>1, <3>2
    <3>4. k \in 1 .. Len(c) /\ Among(p, c)[k] = IF SetApart(p, c, k) THEN <<>> ELSE Encoded(p, c, k)
      BY <2>4, <3>3 DEF Among
    <3>5. Range(<<>>) = {}
      BY DEF Range
    <3>6. r.contents[i] \in Range(Encoded(p, c, k))
      BY <3>3, <3>4, <3>5
    <3>7. QED
      BY <2>3, <2>6, <3>4, <3>6, EncodedAttributed
  <2>9. /\ Flat(r.system) = FlattenSeq([i \in DOMAIN c |-> IF SystemApart(p) /\ System(c[i]) THEN Meant(c[i]) ELSE <<>>])
        /\ Flat(AllParts(r.contents)) =
             FlattenSeq([i \in DOMAIN c |-> IF ~(SystemApart(p) /\ System(c[i])) THEN Meant(c[i]) ELSE <<>>])
    <3>1. /\ [i \in DOMAIN c |-> IF SetApart(p, c, i) THEN Meant(c[i]) ELSE <<>>] =
               [i \in DOMAIN c |-> IF SystemApart(p) /\ System(c[i]) THEN Meant(c[i]) ELSE <<>>]
          /\ [i \in DOMAIN c |-> IF SetApart(p, c, i) THEN <<>> ELSE Meant(c[i])] =
               [i \in DOMAIN c |-> IF ~(SystemApart(p) /\ System(c[i])) THEN Meant(c[i]) ELSE <<>>]
      BY DEF SetApart
    <3>2. QED
      BY <2>7, <3>1
  <2>10. \A i \in DOMAIN r.contents : \A j \in DOMAIN r.contents[i].parts :
           LET role == r.contents[i].role
               part == r.contents[i].parts[j]
           IN /\ part.kind = "call" => role \in {"assistant", "model"}
              /\ part.kind = "result" => role \notin {"assistant", "model"}
              /\ part.kind = "result" /\ p = "gemini" => NamedByCall(part) \/ NamedAsGiven(part)
    <3>1. ASSUME NEW i \in DOMAIN r.contents, NEW j \in DOMAIN r.contents[i].parts
          PROVE  LET role == r.contents[i].role
                     part == r.contents[i].parts[j]
                 IN /\ part.kind = "call" => role \in {"assistant", "model"}
                    /\ part.kind = "result" => role \notin {"assistant", "model"}
                    /\ part.kind = "result" /\ p = "gemini" => NamedByCall(part) \/ NamedAsGiven(part)
      <4>1. PICK turn, part : turn = r.contents[i] /\ part = turn.parts[j]
        OBVIOUS
      <4>2. Attributed(p, c, turn) /\ j \in DOMAIN turn.parts
        BY <2>8, <3>1, <4>1
      <4>3. /\ part.kind = "call" => turn.role \in {"assistant", "model"}
            /\ part.kind = "result" => turn.role \notin {"assistant", "model"}
            /\ part.kind = "result" /\ p = "gemini" => HasItsName(c, part.value, part.name)
        BY <4>1, <4>2 DEF Attributed
      <4>4. HasItsName(c, part.value, part.name) <=> NamedByCall(part) \/ NamedAsGiven(part)
        BY <2>2 DEF HasItsName, NamedByCall, NamedAsGiven
      <4>5. QED
        BY <4>1, <4>3, <4>4
    <3>2. QED
      BY <3>1
  <2>11. QED
    BY <2>2, <2>9, <2>10 DEF RequestFaithful, MeantBy
<1>2. QED
  BY <1>1, MessagesStart, MessagesStep, PTL DEF Spec

(***************************************************************************)
(* What the estimators count of a conversation.                            *)
(***************************************************************************)
(* A message as package token has it.                                      *)
KnownCall(call) == [ID |-> call.id, Name |-> call.name]

Token(t, m) ==
  /\ t.Role = m.role /\ t.Content = m.text /\ t.Name = m.name /\ t.ToolCallID = m.answers
  /\ DOMAIN t.Input = DOMAIN m.input /\ t.Input = [i \in DOMAIN m.input |-> t.Input[i]]
  /\ \A i \in DOMAIN m.input : /\ t.Input[i].Type = m.input[i].type
                               /\ t.Input[i].Text = m.input[i].text
                               /\ t.Input[i].Image = m.input[i].image
  /\ t.ToolCalls = [k \in DOMAIN m.calls |-> KnownCall(m.calls[k])]

LEMMA TokenIs == ASSUME NEW m PROVE Token(ToTokenMessage(m), m)
  BY DEF ToTokenMessage, KnownCall, Token

LEMMA TokenSame ==
  ASSUME NEW p \in Estimators, NEW m \in MessageType, NEW t, Token(t, m)
  PROVE  /\ Instructs(t) <=> System(m)
         /\ InputImages(t) # {} <=> HasImageInput(m)
         /\ NotConvertible(p, t) <=> ~Sendable(p, m)
         /\ Sendable(p, m) => MessageParts(t) = InputParts(m)
         /\ Lines(t.Content) = Content(m)
         /\ ToolUses(t) = Calls(m)
<1>1. /\ t.Role = m.role /\ t.Content = m.text
      /\ DOMAIN t.Input = DOMAIN m.input
      /\ \A i \in DOMAIN m.input : /\ t.Input[i].Type = m.input[i].type
                                   /\ t.Input[i].Text = m.input[i].text
                                   /\ t.Input[i].Image = m.input[i].image
  BY DEF Token
<1>2. Instructs(t) <=> System(m)
  BY <1>1 DEF Instructs, System
<1>3. InputImages(t) # {} <=> HasImageInput(m)
  BY <1>1 DEF InputImages, HasImageInput
<1>4. \A i \in DOMAIN m.input :
        PartConverts(p, t.Input[i]) <=>
          \/ m.input[i].type = "input_text"
          \/ m.input[i].type = "input_image" /\ Takes(p, m.input[i].image)
  BY <1>1 DEF PartConverts, ImageConverts, Takes, Estimators
<1>5. NotConvertible(p, t) <=> ~Sendable(p, m)
  BY <1>1, <1>4 DEF Sendable, NotConvertible
<1>6. ASSUME Sendable(p, m) PROVE MessageParts(t) = InputParts(m)
  <2>1. \A i \in DOMAIN m.input : m.input[i].type \in {"input_text", "input_image"}
    BY <1>6 DEF Sendable
  <2>2. \A i \in DOMAIN m.input : BlocksOf(t.Input[i]) = PartsOf(m.input[i])
    BY <1>1, <2>1 DEF BlocksOf, PartsOf
  <2>3. [i \in DOMAIN t.Input |-> BlocksOf(t.Input[i])] = [i \in DOMAIN m.input |-> PartsOf(m.input[i])]
    BY <1>1, <2>2
  <2>4. QED
    BY <1>1, <2>3 DEF MessageParts, InputParts, Content
<1>7. ToolUses(t) = Calls(m)
  <2>1. t.ToolCalls = [k \in DOMAIN m.calls |-> KnownCall(m.calls[k])]
    BY DEF Token
  <2>2. DOMAIN t.ToolCalls = DOMAIN m.calls
        /\ \A k \in DOMAIN m.calls : t.ToolCalls[k].ID = m.calls[k].id /\ t.ToolCalls[k].Name = m.calls[k].name
    BY <2>1 DEF KnownCall
  <2>3. QED
    BY <2>2 DEF ToolUses, Calls, Call
<1>8. Lines(t.Content) = Content(m)
  BY <1>1 DEF Content
<1>9. QED
  BY <1>2, <1>3, <1>5, <1>6, <1>7, <1>8

(* What has been read is what would have been converted, message by        *)
(* message.                                                                *)
KnownType == [ID : STRING, Name : STRING]
ReadType == [contents : Seq(TurnType), system : Seq(PartType), toolNames : Seq(KnownType), refused : BOOLEAN]
KnownCalls(calls) == [k \in 1 .. Len(calls) |-> KnownCall(calls[k])]
ReadSoFar(p, conversation, i, read) ==
  /\ read \in ReadType
  /\ read.refused <=> \E k \in 1 .. i : Refuses(p, conversation, k)
  /\ ~read.refused =>
       /\ read.system = FlattenSeq(SubSeq(Apart(p, conversation), 1, i))
       /\ read.contents = FlattenSeq(SubSeq(Among(p, conversation), 1, i))
       /\ p = "gemini" => read.toolNames = KnownCalls(EarlierCalls(conversation, i + 1))

LEMMA NameKnown ==
  ASSUME NEW conversation \in Seq(MessageType), NEW i \in 1 .. Len(conversation),
         NEW read \in ReadType, read.toolNames = KnownCalls(EarlierCalls(conversation, i))
  PROVE  ToolName(conversation, i) =
           IF conversation[i].name # "" THEN conversation[i].name ELSE Named(read, conversation[i].answers)
<1> DEFINE calls == EarlierCalls(conversation, i)
           matching == {k \in DOMAIN calls : calls[k].id = conversation[i].answers}
           known == {k \in DOMAIN read.toolNames : read.toolNames[k].ID = conversation[i].answers}
<1>1. calls \in Seq(ToolCall)
  BY EarlierTyped
<1>2. DOMAIN read.toolNames = DOMAIN calls
      /\ \A k \in DOMAIN calls : read.toolNames[k].ID = calls[k].id /\ read.toolNames[k].Name = calls[k].name
  BY <1>1 DEF KnownCalls, KnownCall
<1>3. ToolName(conversation, i) = IF conversation[i].name # "" THEN conversation[i].name
        ELSE IF matching = {} THEN "" ELSE calls[Max(matching)].name
  BY DEF ToolName
<1>4. known = matching
  BY <1>2
<1>5. Named(read, conversation[i].answers) =
        IF known = {} THEN "" ELSE read.toolNames[CHOOSE k \in known : \A j \in known : j <= k].Name
  BY DEF Named
<1>6. matching \subseteq 1 .. Len(calls) /\ Len(calls) \in Nat /\ DOMAIN calls = 1 .. Len(calls)
  BY <1>1
<1> HIDE DEF calls, matching, known
<1>7. ASSUME matching # {} PROVE (CHOOSE k \in known : \A j \in known : j <= k) = Max(matching)
  <2>1. Max(matching) \in matching /\ \A j \in matching : Max(matching) >= j
    BY <1>6, <1>7, MaxIs
  <2>2. \A j \in matching : j \in Int
    BY <1>6
  <2>3. Max(matching) \in known /\ \A j \in known : j <= Max(matching)
    BY <1>4, <2>1, <2>2
  <2>4. PICK x : x = CHOOSE k \in known : \A j \in known : j <= k
    OBVIOUS
  <2>5. x \in known /\ \A j \in known : j <= x
    BY <2>3, <2>4
  <2>6. x <= Max(matching) /\ Max(matching) <= x /\ x \in Int /\ Max(matching) \in Int
    BY <1>4, <2>1, <2>2, <2>3, <2>5
  <2>7. x = Max(matching)
    BY <2>6
  <2>8. QED
    BY <2>4, <2>7
<1>8. matching # {} => read.toolNames[Max(matching)].Name = calls[Max(matching)].name
  <2>1. ASSUME matching # {} PROVE Max(matching) \in DOMAIN calls
    <3>1. Max(matching) \in matching
      BY <1>6, <2>1, MaxIs
    <3>2. QED
      BY <1>1, <1>6, <3>1
  <2>2. QED
    BY <1>2, <2>1
<1>9. QED
  BY <1>3, <1>4, <1>5, <1>7, <1>8

(* One message more.                                                       *)
LEMMA ListedNext ==
  ASSUME NEW S, NEW seqs \in Seq(Seq(S)), NEW i \in 0 .. Len(seqs) - 1
  PROVE  /\ FlattenSeq(SubSeq(seqs, 1, i)) \in Seq(S)
         /\ FlattenSeq(SubSeq(seqs, 1, i + 1)) = FlattenSeq(SubSeq(seqs, 1, i)) \o seqs[i + 1]
<1>1. SubSeq(seqs, 1, i) \in Seq(Seq(S)) /\ seqs[i + 1] \in Seq(S)
  OBVIOUS
<1>2. SubSeq(seqs, 1, i + 1) = Append(SubSeq(seqs, 1, i), seqs[i + 1])
  OBVIOUS
<1>3. QED
  BY <1>1, <1>2, FlattenMore, FlattenTyped

LEMMA CallsNext ==
  ASSUME NEW conversation \in Seq(MessageType), NEW i \in 1 .. Len(conversation)
  PROVE  EarlierCalls(conversation, i + 1) = EarlierCalls(conversation, i) \o CallsOf(conversation[i])
<1>1. PICK a, x : a = [j \in 1 .. i - 1 |-> CallsOf(conversation[j])] /\ x = CallsOf(conversation[i])
  OBVIOUS
<1>2. a \in Seq(Seq(ToolCall)) /\ x \in Seq(ToolCall)
  <2>1. conversation[i] \in MessageType
    OBVIOUS
  <2>2. x \in Seq(ToolCall)
    BY <1>1, <2>1 DEF CallsOf, MessageType
  <2>3. QED
    BY <1>1, <2>2, EarlierTyped
<1>3. i \in Nat /\ i - 1 \in Nat /\ (i + 1) - 1 = i
  OBVIOUS
<1>4. Append(a, x) = [j \in 1 .. (i + 1) - 1 |-> CallsOf(conversation[j])]
  BY <1>1, <1>3
<1>5. FlattenSeq(Append(a, x)) = FlattenSeq(a) \o x
  BY <1>2, FlattenMore
<1>6. QED
  BY <1>1, <1>4, <1>5 DEF EarlierCalls

LEMMA KnownJoined ==
  ASSUME NEW a \in Seq(ToolCall), NEW b \in Seq(ToolCall)
  PROVE  KnownCalls(a \o b) = KnownCalls(a) \o KnownCalls(b) /\ KnownCalls(a) \in Seq(KnownType)
<1>1. \A call \in ToolCall : KnownCall(call) \in KnownType
  BY DEF KnownCall, KnownType, ToolCall
<1>2. (\A k \in 1 .. Len(a) : a[k] \in ToolCall) /\ \A k \in 1 .. Len(b) : b[k] \in ToolCall
  OBVIOUS
<1>3. \A k \in 1 .. Len(a) : KnownCall(a[k]) \in KnownType
  BY <1>1, <1>2
<1>4. \A k \in 1 .. Len(b) : KnownCall(b[k]) \in KnownType
  BY <1>1, <1>2
<1>5. KnownCalls(a) \in Seq(KnownType) /\ KnownCalls(b) \in Seq(KnownType)
  BY <1>3, <1>4 DEF KnownCalls
<1>6. KnownCalls(a \o b) = KnownCalls(a) \o KnownCalls(b)
  BY DEF KnownCalls
<1>7. QED
  BY <1>5, <1>6

(* What there is to read of the message that is next, ...                  *)
Reading(p, conversation, i, read, m, t) ==
  /\ m \in MessageType /\ m = conversation[i] /\ Token(t, m)
  /\ read \in ReadType /\ ~read.refused
  /\ p = "gemini" => read.toolNames = KnownCalls(EarlierCalls(conversation, i))

(* ... and what is read of it.                                             *)
ReadNext(p, conversation, i, read, more) ==
  /\ more \in ReadType
  /\ more.refused <=> Refuses(p, conversation, i)
  /\ ~more.refused =>
       /\ more.system = read.system \o Apart(p, conversation)[i]
       /\ more.contents = read.contents \o Among(p, conversation)[i]
       /\ p = "gemini" => more.toolNames = KnownCalls(EarlierCalls(conversation, i + 1))

LEMMA RefusingIs ==
  ASSUME NEW read \in ReadType
  PROVE  Refusing(read) \in ReadType /\ Refusing(read).refused = TRUE
  BY DEF ReadType, Refusing

LEMMA ReadUnchanged ==
  ASSUME NEW read \in ReadType
  PROVE  read.contents \o <<>> = read.contents /\ read.system \o <<>> = read.system
<1>1. read.contents \in Seq(TurnType) /\ read.system \in Seq(PartType)
  BY DEF ReadType
<1>2. QED
  BY <1>1

LEMMA AddingIs ==
  ASSUME NEW read \in ReadType, NEW parts \in Seq(PartType),
         NEW role \in {"system", "developer", "user", "assistant", "model", "tool"}
  PROVE  /\ Adding(read, role, parts) \in ReadType
         /\ Adding(read, role, parts).refused = read.refused
         /\ Adding(read, role, parts).contents = read.contents \o Said(role, parts)
         /\ Adding(read, role, parts).system = read.system
         /\ Adding(read, role, parts).toolNames = read.toolNames
<1>1. PICK turn \in TurnType : turn = Turn(role, parts) /\ Said(role, parts) = <<turn>>
  BY DEF Turn, Said, TurnType
<1>2. PICK contents \in Seq(TurnType) : contents = read.contents
  BY DEF ReadType
<1>3. Append(contents, turn) \in Seq(TurnType) /\ Append(contents, turn) = contents \o <<turn>>
  OBVIOUS
<1>4. PICK longer \in Seq(TurnType) : longer = Append(contents, turn)
  BY <1>3
<1>5. Adding(read, role, parts) = [read EXCEPT !.contents = longer]
  BY <1>1, <1>2, <1>4 DEF Adding
<1>6. /\ Adding(read, role, parts) \in ReadType
      /\ Adding(read, role, parts).refused = read.refused
      /\ Adding(read, role, parts).contents = longer
      /\ Adding(read, role, parts).system = read.system
      /\ Adding(read, role, parts).toolNames = read.toolNames
  BY <1>5 DEF ReadType
<1>7. QED
  BY <1>1, <1>2, <1>3, <1>4, <1>6

LEMMA InstructedIs ==
  ASSUME NEW read \in ReadType, NEW t, MessageParts(t) \in Seq(PartType)
  PROVE  /\ Instructed(read, t) \in ReadType
         /\ Instructed(read, t).refused = read.refused
         /\ Instructed(read, t).system = read.system \o MessageParts(t)
         /\ Instructed(read, t).contents = read.contents
         /\ Instructed(read, t).toolNames = read.toolNames
<1>1. PICK system \in Seq(PartType), parts \in Seq(PartType) : system = read.system /\ parts = MessageParts(t)
  BY DEF ReadType
<1>2. system \o parts \in Seq(PartType)
  OBVIOUS
<1>3. PICK longer \in Seq(PartType) : longer = read.system \o MessageParts(t)
  BY <1>1, <1>2
<1>4. Instructed(read, t) = [read EXCEPT !.system = longer]
  BY <1>3 DEF Instructed
<1>5. QED
  BY <1>3, <1>4 DEF ReadType

LEMMA AnthropicReadsNext ==
  ASSUME NEW conversation \in Seq(MessageType), NEW i \in 1 .. Len(conversation), NEW read, NEW m, NEW t,
         Reading("anthropic", conversation, i, read, m, t)
  PROVE  ReadNext("anthropic", conversation, i, read, AnthropicReads(read, t))
<1>1. /\ m \in MessageType /\ m = conversation[i] /\ Token(t, m)
      /\ read \in ReadType /\ ~read.refused
  BY DEF Reading
<1>2. /\ InputParts(m) \in Seq(LeafType) /\ InputParts(m) \in Seq(PartType) /\ Calls(m) \in Seq(PartType)
      /\ InputParts(m) \o Calls(m) \in Seq(PartType)
  BY <1>1, PartsTyped
<1>3. t.Role = m.role /\ t.ToolCallID = m.answers
  BY <1>1 DEF Token
<1>4. /\ Instructs(t) <=> System(m)
      /\ InputImages(t) # {} <=> HasImageInput(m)
      /\ NotConvertible("anthropic", t) <=> ~Sendable("anthropic", m)
      /\ Sendable("anthropic", m) => MessageParts(t) = InputParts(m)
      /\ ToolUses(t) = Calls(m)
  BY <1>1, TokenSame DEF Estimators
<1>5. Refuses("anthropic", conversation, i) <=> ~Sendable("anthropic", m) \/ (System(m) /\ HasImageInput(m))
  BY <1>1 DEF Refuses, AnthropicRefuses
<1>6. /\ Apart("anthropic", conversation)[i] = IF System(m) THEN InputParts(m) ELSE <<>>
      /\ Among("anthropic", conversation)[i] = IF System(m) THEN <<>> ELSE AnthropicMessage(m)
  BY <1>1 DEF Apart, Among, SetApart, SystemApart, Encoded
<1>7. CASE Refuses("anthropic", conversation, i)
  <2>1. AnthropicReads(read, t) = Refusing(read)
    BY <1>4, <1>5, <1>7 DEF AnthropicReads
  <2>2. QED
    BY <1>1, <1>7, <2>1, RefusingIs DEF ReadNext
<1>8. CASE ~Refuses("anthropic", conversation, i) /\ System(m)
  <2>1. AnthropicReads(read, t) = Instructed(read, t) /\ MessageParts(t) = InputParts(m)
    BY <1>3, <1>4, <1>5, <1>8 DEF AnthropicReads, System
  <2>2. /\ Instructed(read, t) \in ReadType /\ Instructed(read, t).refused = read.refused
        /\ Instructed(read, t).system = read.system \o InputParts(m)
        /\ Instructed(read, t).contents = read.contents \o <<>>
    <3>1. MessageParts(t) \in Seq(PartType) /\ read.contents \o <<>> = read.contents
      BY <1>1, <1>2, <2>1, ReadUnchanged
    <3>2. QED
      BY <1>1, <2>1, <3>1, InstructedIs
  <2>3. QED
    BY <1>1, <1>6, <1>8, <2>1, <2>2 DEF ReadNext
<1>9. ASSUME ~Refuses("anthropic", conversation, i), ~System(m),
             NEW role \in {"system", "developer", "user", "assistant", "model", "tool"}, NEW parts \in Seq(PartType),
             AnthropicReads(read, t) = Adding(read, role, parts), AnthropicMessage(m) = Said(role, parts)
      PROVE  ReadNext("anthropic", conversation, i, read, AnthropicReads(read, t))
  <2>1. /\ Adding(read, role, parts) \in ReadType /\ Adding(read, role, parts).refused = read.refused
        /\ Adding(read, role, parts).contents = read.contents \o Said(role, parts)
        /\ Adding(read, role, parts).system = read.system \o <<>>
    BY <1>1, <1>9, AddingIs, ReadUnchanged
  <2>2. QED
    BY <1>1, <1>6, <1>9, <2>1 DEF ReadNext
<1>10. CASE ~Refuses("anthropic", conversation, i) /\ ~System(m)
  <2>1. /\ MessageParts(t) = InputParts(m)
        /\ AnthropicReads(read, t) =
              CASE t.Role = "assistant" -> Adding(read, "assistant", MessageParts(t) \o ToolUses(t))
                [] t.Role = "tool" -> Adding(read, "user", AnthropicResult(t))
                [] OTHER -> Adding(read, "user", MessageParts(t))
    BY <1>4, <1>5, <1>10 DEF AnthropicReads, Instructs
  <2>2. CASE m.role = "assistant"
    <3>1. AnthropicReads(read, t) = Adding(read, "assistant", InputParts(m) \o Calls(m))
      BY <1>3, <1>4, <2>1, <2>2
    <3>2. AnthropicMessage(m) = Said("assistant", InputParts(m) \o Calls(m))
      BY <2>2 DEF AnthropicMessage
    <3>3. QED
      BY <1>2, <1>9, <1>10, <3>1, <3>2
  <2>3. CASE m.role = "tool"
    <3>1. PICK parts : parts = <<Result(m.answers, "", InputParts(m))>>
      OBVIOUS
    <3>2. AnthropicReads(read, t) = Adding(read, "user", parts)
      BY <1>3, <2>1, <2>3, <3>1 DEF AnthropicResult
    <3>3. AnthropicMessage(m) = Said("user", parts)
      BY <2>3, <3>1 DEF AnthropicMessage
    <3>4. parts \in Seq(PartType)
      <4>1. m.answers \in Optional /\ "" \in Optional
        BY <1>1 DEF MessageType, Optional
      <4>2. QED
        BY <1>2, <3>1, <4>1, ResultTyped
    <3>5. QED
      BY <1>9, <1>10, <3>2, <3>3, <3>4
  <2>4. CASE m.role \notin {"assistant", "tool"}
    <3>1. AnthropicReads(read, t) = Adding(read, "user", InputParts(m))
      BY <1>3, <2>1, <2>4
    <3>2. AnthropicMessage(m) = Said("user", InputParts(m))
      BY <2>4 DEF AnthropicMessage
    <3>3. QED
      BY <1>2, <1>9, <1>10, <3>1, <3>2
  <2>5. QED
    BY <2>2, <2>3, <2>4
<1>11. QED
  BY <1>7, <1>8, <1>10

LEMMA GeminiReadsNext ==
  ASSUME NEW conversation \in Seq(MessageType), NEW i \in 1 .. Len(conversation), NEW read, NEW m, NEW t,
         Reading("gemini", conversation, i, read, m, t)
  PROVE  ReadNext("gemini", conversation, i, read, GeminiReads(read, t))
<1>1. /\ m \in MessageType /\ m = conversation[i] /\ Token(t, m)
      /\ read \in ReadType /\ ~read.refused
      /\ read.toolNames = KnownCalls(EarlierCalls(conversation, i))
  BY DEF Reading
<1>2. /\ InputParts(m) \in Seq(LeafType) /\ InputParts(m) \in Seq(PartType) /\ Calls(m) \in Seq(PartType)
      /\ Content(m) \in Seq(LeafType)
      /\ InputParts(m) \o Calls(m) \in Seq(PartType)
  BY <1>1, PartsTyped
<1>3. t.Role = m.role /\ t.ToolCallID = m.answers /\ t.Name = m.name
      /\ t.ToolCalls = [k \in DOMAIN m.calls |-> KnownCall(m.calls[k])]
  BY <1>1 DEF Token
<1>4. /\ Instructs(t) <=> System(m)
      /\ InputImages(t) # {} <=> HasImageInput(m)
      /\ NotConvertible("gemini", t) <=> ~Sendable("gemini", m)
      /\ Sendable("gemini", m) => MessageParts(t) = InputParts(m)
      /\ Lines(t.Content) = Content(m)
      /\ ToolUses(t) = Calls(m)
  BY <1>1, TokenSame DEF Estimators
<1>5. Refuses("gemini", conversation, i) <=>
        IF m.role = "tool" THEN HasImageInput(m) \/ ToolName(conversation, i) = "" ELSE ~Sendable("gemini", m)
  BY <1>1 DEF Refuses, GeminiRefuses
<1>6. /\ Apart("gemini", conversation)[i] = IF System(m) THEN InputParts(m) ELSE <<>>
      /\ Among("gemini", conversation)[i] = IF System(m) THEN <<>> ELSE GeminiMessage(conversation, i)
  BY <1>1 DEF Apart, Among, SetApart, SystemApart, Encoded
<1>7. /\ m.role # "assistant" => KnownCalls(EarlierCalls(conversation, i + 1)) = read.toolNames
      /\ m.role = "assistant" => KnownCalls(EarlierCalls(conversation, i + 1)) = read.toolNames \o t.ToolCalls
      /\ m.role = "assistant" => t.ToolCalls \in Seq(KnownType)
  <2>1. PICK earlier, calls : earlier = EarlierCalls(conversation, i) /\ calls = CallsOf(m)
    OBVIOUS
  <2>2. earlier \in Seq(ToolCall) /\ calls \in Seq(ToolCall)
    <3>1. m.calls \in Seq(ToolCall) /\ <<>> \in Seq(ToolCall)
      BY <1>1 DEF MessageType
    <3>2. CallsOf(m) \in Seq(ToolCall)
      BY <3>1 DEF CallsOf
    <3>3. QED
      BY <2>1, <3>2, EarlierTyped
  <2>3. KnownCalls(EarlierCalls(conversation, i + 1)) = KnownCalls(earlier) \o KnownCalls(calls)
        /\ KnownCalls(earlier) \in Seq(KnownType) /\ KnownCalls(calls) \in Seq(KnownType)
    BY <1>1, <2>1, <2>2, CallsNext, KnownJoined
  <2>4. CASE m.role # "assistant"
    <3>1. KnownCalls(calls) = <<>>
      BY <2>1, <2>4 DEF CallsOf, KnownCalls
    <3>2. KnownCalls(earlier) \o <<>> = KnownCalls(earlier)
      BY <2>3
    <3>3. QED
      BY <1>1, <2>1, <2>3, <2>4, <3>1, <3>2
  <2>5. CASE m.role = "assistant"
    <3>1. calls = m.calls /\ DOMAIN calls = 1 .. Len(calls)
      BY <2>1, <2>2, <2>5 DEF CallsOf
    <3>2. t.ToolCalls = KnownCalls(calls)
      BY <1>3, <3>1 DEF KnownCalls
    <3>3. QED
      BY <1>1, <2>1, <2>3, <2>5, <3>2
  <2>6. QED
    BY <2>4, <2>5
<1>8. ASSUME ~Refuses("gemini", conversation, i), ~System(m), NEW before \in ReadType,
             before.contents = read.contents, before.system = read.system, before.refused = read.refused,
             before.toolNames = KnownCalls(EarlierCalls(conversation, i + 1)),
             NEW role \in {"system", "developer", "user", "assistant", "model", "tool"}, NEW parts \in Seq(PartType),
             GeminiReads(read, t) = Adding(before, role, parts), GeminiMessage(conversation, i) = Said(role, parts)
      PROVE  ReadNext("gemini", conversation, i, read, GeminiReads(read, t))
  <2>1. /\ Adding(before, role, parts) \in ReadType /\ Adding(before, role, parts).refused = read.refused
        /\ Adding(before, role, parts).contents = read.contents \o Said(role, parts)
        /\ Adding(before, role, parts).system = read.system \o <<>>
        /\ Adding(before, role, parts).toolNames = KnownCalls(EarlierCalls(conversation, i + 1))
    <3>1. read.system \o <<>> = read.system
      BY <1>1, ReadUnchanged
    <3>2. QED
      <4>1. /\ Adding(before, role, parts) \in ReadType
            /\ Adding(before, role, parts).refused = before.refused
            /\ Adding(before, role, parts).contents = before.contents \o Said(role, parts)
            /\ Adding(before, role, parts).system = before.system
            /\ Adding(before, role, parts).toolNames = before.toolNames
        BY <1>8, AddingIs
      <4>2. QED
        BY <1>8, <3>1, <4>1
  <2>2. QED
    BY <1>1, <1>6, <1>8, <2>1 DEF ReadNext
<1>9. ASSUME ~Refuses("gemini", conversation, i), ~System(m), NEW before \in ReadType,
             before.contents = read.contents, before.system = read.system, before.refused = read.refused,
             before.toolNames = KnownCalls(EarlierCalls(conversation, i + 1)),
             NEW role \in {"user", "model"}, NEW parts \in Seq(PartType),
             GeminiReads(read, t) = GeminiTurn(before, role, parts),
             GeminiMessage(conversation, i) = SaidIfAny(role, parts)
      PROVE  ReadNext("gemini", conversation, i, read, GeminiReads(read, t))
  <2>1. CASE parts # <<>>
    <3>1. GeminiReads(read, t) = Adding(before, role, parts) /\ GeminiMessage(conversation, i) = Said(role, parts)
      BY <1>9, <2>1 DEF GeminiTurn, SaidIfAny
    <3>2. role \in {"system", "developer", "user", "assistant", "model", "tool"}
      BY <1>9
    <3>3. QED
      BY <1>8, <1>9, <3>1, <3>2
  <2>2. CASE parts = <<>>
    <3>1. GeminiReads(read, t) = before /\ GeminiMessage(conversation, i) = <<>>
      BY <1>9, <2>2 DEF GeminiTurn, SaidIfAny
    <3>2. read.contents \o <<>> = read.contents /\ read.system \o <<>> = read.system
      BY <1>1, ReadUnchanged
    <3>3. QED
      BY <1>1, <1>6, <1>9, <3>1, <3>2 DEF ReadNext
  <2>3. QED
    BY <2>1, <2>2
<1>10. CASE m.role = "tool"
  <2>1. PICK name : name = ToolName(conversation, i)
    OBVIOUS
  <2>2. name = (IF t.Name # "" THEN t.Name ELSE Named(read, t.ToolCallID))
    BY <1>1, <1>3, <2>1, NameKnown
  <2>3. GeminiReads(read, t) = IF InputImages(t) # {} \/ name = "" THEN Refusing(read)
          ELSE Adding(read, "user", <<Result(m.answers, name, Content(m))>>)
    BY <1>3, <1>4, <1>10, <2>2 DEF GeminiReads, GeminiResult
  <2>4. CASE Refuses("gemini", conversation, i)
    <3>1. GeminiReads(read, t) = Refusing(read)
      BY <1>4, <1>5, <1>10, <2>1, <2>3, <2>4
    <3>2. QED
      BY <1>1, <2>4, <3>1, RefusingIs DEF ReadNext
  <2>5. CASE ~Refuses("gemini", conversation, i)
    <3>1. PICK parts : parts = <<Result(m.answers, name, Content(m))>>
      OBVIOUS
    <3>2. GeminiReads(read, t) = Adding(read, "user", parts)
      BY <1>4, <1>5, <1>10, <2>1, <2>3, <2>5, <3>1
    <3>3. GeminiMessage(conversation, i) = Said("user", parts)
      BY <1>1, <1>10, <2>1, <3>1 DEF GeminiMessage
    <3>4. parts \in Seq(PartType)
      <4>1. m.answers \in Optional /\ name \in Optional
        BY <1>1, <2>1, ToolNameIs DEF MessageType
      <4>2. QED
        BY <1>2, <3>1, <4>1, ResultTyped
    <3>5. ~System(m)
      BY <1>10 DEF System
    <3>6. read.toolNames = KnownCalls(EarlierCalls(conversation, i + 1))
      BY <1>7, <1>10
    <3>7. QED
      BY <1>1, <1>8, <2>5, <3>2, <3>3, <3>4, <3>5, <3>6
  <2>6. QED
    BY <2>4, <2>5
<1>11. CASE m.role # "tool" /\ Refuses("gemini", conversation, i)
  <2>1. GeminiReads(read, t) = Refusing(read)
    BY <1>3, <1>4, <1>5, <1>11 DEF GeminiReads
  <2>2. QED
    BY <1>1, <1>11, <2>1, RefusingIs DEF ReadNext
<1>12. CASE m.role # "tool" /\ ~Refuses("gemini", conversation, i) /\ System(m)
  <2>1. GeminiReads(read, t) = Instructed(read, t) /\ MessageParts(t) = InputParts(m)
    BY <1>3, <1>4, <1>5, <1>12 DEF GeminiReads, System
  <2>2. /\ Instructed(read, t) \in ReadType /\ Instructed(read, t).refused = read.refused
        /\ Instructed(read, t).system = read.system \o InputParts(m)
        /\ Instructed(read, t).contents = read.contents \o <<>>
        /\ Instructed(read, t).toolNames = read.toolNames
    <3>1. MessageParts(t) \in Seq(PartType) /\ read.contents \o <<>> = read.contents
      BY <1>1, <1>2, <2>1, ReadUnchanged
    <3>2. QED
      BY <1>1, <2>1, <3>1, InstructedIs
  <2>3. m.role # "assistant"
    BY <1>12 DEF System
  <2>4. QED
    BY <1>1, <1>6, <1>7, <1>12, <2>1, <2>2, <2>3 DEF ReadNext
<1>13. CASE m.role \notin {"tool", "assistant"} /\ ~Refuses("gemini", conversation, i) /\ ~System(m)
  <2>1. GeminiReads(read, t) = GeminiTurn(read, "user", InputParts(m))
    BY <1>3, <1>4, <1>5, <1>13 DEF GeminiReads
  <2>2. GeminiMessage(conversation, i) = SaidIfAny("user", InputParts(m))
    BY <1>1, <1>13 DEF GeminiMessage
  <2>3. read.toolNames = KnownCalls(EarlierCalls(conversation, i + 1))
    BY <1>7, <1>13
  <2>4. QED
    BY <1>1, <1>2, <1>9, <1>13, <2>1, <2>2, <2>3
<1>14. CASE m.role = "assistant" /\ ~Refuses("gemini", conversation, i)
  <2>1. PICK names : names = read.toolNames \o t.ToolCalls
    OBVIOUS
  <2>2. names \in Seq(KnownType) /\ names = KnownCalls(EarlierCalls(conversation, i + 1))
    <3>1. read.toolNames \in Seq(KnownType) /\ t.ToolCalls \in Seq(KnownType)
      BY <1>1, <1>7, <1>14 DEF ReadType
    <3>2. QED
      <4>1. PICK x \in Seq(KnownType), y \in Seq(KnownType) : x = read.toolNames /\ y = t.ToolCalls
        BY <3>1
      <4>2. x \o y \in Seq(KnownType)
        OBVIOUS
      <4>3. QED
        BY <1>7, <1>14, <2>1, <4>1, <4>2
  <2>3. PICK before : before = [read EXCEPT !.toolNames = names]
    OBVIOUS
  <2>4. /\ before \in ReadType /\ before.contents = read.contents /\ before.system = read.system
        /\ before.refused = read.refused /\ before.toolNames = names
    BY <1>1, <2>2, <2>3 DEF ReadType
  <2>5. ~System(m)
    BY <1>14 DEF System
  <2>6. GeminiReads(read, t) = GeminiTurn(before, "model", InputParts(m) \o Calls(m))
    BY <1>3, <1>4, <1>5, <1>14, <2>1, <2>3, <2>5 DEF GeminiReads
  <2>7. GeminiMessage(conversation, i) = SaidIfAny("model", InputParts(m) \o Calls(m))
    BY <1>1, <1>14 DEF GeminiMessage
  <2>8. QED
    BY <1>2, <1>9, <1>14, <2>2, <2>4, <2>5, <2>6, <2>7
<1>15. QED
  BY <1>10, <1>11, <1>12, <1>13, <1>14

LEMMA ReadsNext ==
  ASSUME NEW p \in Estimators, NEW conversation \in Seq(MessageType), NEW i \in 1 .. Len(conversation), NEW read,
         ReadSoFar(p, conversation, i - 1, read)
  PROVE  ReadSoFar(p, conversation, i, Reads(p, read, ToTokenMessages(conversation)[i]))
<1> DEFINE t == ToTokenMessages(conversation)[i]
           m == conversation[i]
<1>1. DOMAIN conversation = 1 .. Len(conversation) /\ Len(conversation) \in Nat /\ i \in Nat /\ i - 1 \in 0 .. Len(conversation) - 1
      /\ (i - 1) + 1 = i /\ (\A k \in 1 .. i : k = i \/ k \in 1 .. i - 1) /\ 1 .. i - 1 \subseteq 1 .. i
  OBVIOUS
<1>2. m \in MessageType /\ Token(t, m)
  BY <1>1, TokenIs DEF ToTokenMessages
<1>3. /\ read \in ReadType
      /\ read.refused <=> \E k \in 1 .. i - 1 : Refuses(p, conversation, k)
      /\ ~read.refused =>
           /\ read.system = FlattenSeq(SubSeq(Apart(p, conversation), 1, i - 1))
           /\ read.contents = FlattenSeq(SubSeq(Among(p, conversation), 1, i - 1))
           /\ p = "gemini" => read.toolNames = KnownCalls(EarlierCalls(conversation, i))
  BY <1>1 DEF ReadSoFar
<1> HIDE DEF t, m
<1>4. CASE read.refused
  <2>1. Reads(p, read, t) = read
    BY <1>4 DEF Reads
  <2>2. \E k \in 1 .. i : Refuses(p, conversation, k)
    BY <1>1, <1>3, <1>4
  <2>3. QED
    BY <1>3, <1>4, <2>1, <2>2 DEF ReadSoFar, t
<1>5. CASE ~read.refused
  <2>1. Reading(p, conversation, i, read, m, t)
    BY <1>2, <1>3, <1>5 DEF Reading, m
  <2>2. PICK more : more = Reads(p, read, t)
    OBVIOUS
  <2>3. ReadNext(p, conversation, i, read, more)
    <3>1. CASE p = "anthropic"
      <4>1. more = AnthropicReads(read, t)
        BY <1>5, <2>2, <3>1 DEF Reads
      <4>2. ReadNext("anthropic", conversation, i, read, AnthropicReads(read, t))
        BY <2>1, <3>1, AnthropicReadsNext
      <4>3. QED
        BY <3>1, <4>1, <4>2
    <3>2. CASE p = "gemini"
      <4>1. more = GeminiReads(read, t)
        BY <1>5, <2>2, <3>2 DEF Reads
      <4>2. ReadNext("gemini", conversation, i, read, GeminiReads(read, t))
        BY <2>1, <3>2, GeminiReadsNext
      <4>3. QED
        BY <3>2, <4>1, <4>2
    <3>3. QED
      BY <3>1, <3>2 DEF Estimators
  <2>4. more \in ReadType /\ (more.refused <=> Refuses(p, conversation, i))
    BY <2>3 DEF ReadNext
  <2>5. more.refused <=> \E k \in 1 .. i : Refuses(p, conversation, k)
    BY <1>1, <1>3, <1>5, <2>4
  <2>6. ASSUME ~more.refused
        PROVE  /\ more.system = FlattenSeq(SubSeq(Apart(p, conversation), 1, i))
               /\ more.contents = FlattenSeq(SubSeq(Among(p, conversation), 1, i))
               /\ p = "gemini" => more.toolNames = KnownCalls(EarlierCalls(conversation, i + 1))
    <3>1. /\ more.system = read.system \o Apart(p, conversation)[i]
          /\ more.contents = read.contents \o Among(p, conversation)[i]
          /\ p = "gemini" => more.toolNames = KnownCalls(EarlierCalls(conversation, i + 1))
      BY <2>3, <2>6 DEF ReadNext
    <3>2. PICK a \in Seq(Seq(PartType)), b \in Seq(Seq(TurnType)) : a = Apart(p, conversation) /\ b = Among(p, conversation)
      BY RequestTyped DEF Estimators, Providers
    <3>3. Len(a) = Len(conversation) /\ Len(b) = Len(conversation)
      BY <1>1, <3>2 DEF Apart, Among
    <3>4. FlattenSeq(SubSeq(a, 1, (i - 1) + 1)) = FlattenSeq(SubSeq(a, 1, i - 1)) \o a[(i - 1) + 1]
      BY <1>1, <3>3, ListedNext
    <3>5. FlattenSeq(SubSeq(b, 1, (i - 1) + 1)) = FlattenSeq(SubSeq(b, 1, i - 1)) \o b[(i - 1) + 1]
      BY <1>1, <3>3, ListedNext
    <3>6. QED
      BY <1>1, <1>3, <1>5, <3>1, <3>2, <3>4, <3>5
  <2>7. ReadSoFar(p, conversation, i, more)
    BY <2>4, <2>5, <2>6 DEF ReadSoFar
  <2>8. QED
    BY <2>2, <2>7 DEF t
<1>6. read.refused \in BOOLEAN
  BY <1>3 DEF ReadType
<1>7. QED
  BY <1>4, <1>5, <1>6

(* The readings, one after the other: they exist, and are as read so far.  *)
Readings(p, conversation, f) ==
  f = [i \in 0 .. Len(conversation) |->
        IF i = 0 THEN Nothing ELSE Reads(p, f[i - 1], ToTokenMessages(conversation)[i])]

LEMMA ReadingsExist ==
  ASSUME NEW p \in Estimators, NEW conversation \in Seq(MessageType)
  PROVE  \E f : Readings(p, conversation, f)
<1> DEFINE e(f, i) == IF i = 0 THEN Nothing ELSE Reads(p, f[i - 1], ToTokenMessages(conversation)[i])
           G(n) == \E f : f = [i \in 0 .. n |-> e(f, i)]
           T == {n \in Nat : G(n)}
<1>1. 0 \in T
  <2> DEFINE f == [i \in 0 .. 0 |-> Nothing]
  <2>1. \A g : [i \in 0 .. 0 |-> e(g, i)] = f
    OBVIOUS
  <2>2. f = [i \in 0 .. 0 |-> e(f, i)]
    BY <2>1
  <2>3. G(0)
    BY <2>2
  <2>4. QED
    BY <2>3
<1>2. ASSUME NEW n \in Nat, n \in T PROVE n + 1 \in T
  <2>1. PICK f : f = [i \in 0 .. n |-> e(f, i)]
    BY <1>2
  <2>2. DOMAIN f = 0 .. n /\ \A i \in 0 .. n : f[i] = e(f, i)
    BY <2>1
  <2> DEFINE g == [i \in 0 .. n + 1 |-> IF i \in 0 .. n THEN f[i] ELSE e(f, i)]
  <2>3. \A i \in 0 .. n : g[i] = f[i]
    OBVIOUS
  <2>4. \A i \in 0 .. n + 1 : i # 0 => i - 1 \in 0 .. n
    OBVIOUS
  <2>5. \A i \in 0 .. n + 1 : g[i] = e(f, i)
    <3>1. \A i \in 0 .. n + 1 : g[i] = IF i \in 0 .. n THEN f[i] ELSE e(f, i)
      OBVIOUS
    <3> HIDE DEF g, e
    <3>2. QED
      BY <2>2, <3>1
  <2>6. \A i \in 0 .. n + 1 : e(f, i) = e(g, i)
    <3>1. ASSUME NEW i \in 0 .. n + 1 PROVE e(f, i) = e(g, i)
      <4>1. i # 0 => g[i - 1] = f[i - 1]
        BY <2>3, <2>4
      <4> HIDE DEF g
      <4>2. QED
        BY <4>1
    <3>2. QED
      BY <3>1
  <2>7. g = [i \in 0 .. n + 1 |-> e(g, i)]
    <3>1. g = [i \in 0 .. n + 1 |-> g[i]]
      OBVIOUS
    <3>2. \A i \in 0 .. n + 1 : g[i] = e(g, i)
      BY <2>5, <2>6
    <3> HIDE DEF g, e
    <3>3. QED
      BY <3>1, <3>2
  <2>8. G(n + 1)
    <3> HIDE DEF g
    <3>1. QED
      BY <2>7
  <2>9. QED
    BY <2>8
<1>3. Len(conversation) \in T
  <2>1. Len(conversation) \in Nat
    OBVIOUS
  <2> HIDE DEF T
  <2>2. QED
    BY <1>1, <1>2, <2>1, NatSetInduction
<1>4. G(Len(conversation))
  BY <1>3
<1>5. QED
  BY <1>4 DEF Readings

LEMMA ReadingsAre ==
  ASSUME NEW p \in Estimators, NEW conversation \in Seq(MessageType), NEW f, Readings(p, conversation, f)
  PROVE  ReadSoFar(p, conversation, Len(conversation), f[Len(conversation)])
<1> DEFINE T == {n \in Nat : n <= Len(conversation) => ReadSoFar(p, conversation, n, f[n])}
<1>1. Len(conversation) \in Nat
  OBVIOUS
<1>2. \A i \in 0 .. Len(conversation) :
        f[i] = IF i = 0 THEN Nothing ELSE Reads(p, f[i - 1], ToTokenMessages(conversation)[i])
  <2>1. PICK g : g = [i \in 0 .. Len(conversation) |->
                       IF i = 0 THEN Nothing ELSE Reads(p, f[i - 1], ToTokenMessages(conversation)[i])]
    OBVIOUS
  <2>2. f = g
    BY <2>1 DEF Readings
  <2>3. QED
    BY <2>1, <2>2
<1>3. 0 \in T
  <2>1. f[0] = Nothing
    BY <1>1, <1>2
  <2>2. Nothing \in ReadType
    BY DEF Nothing, ReadType
  <2>3. SubSeq(Apart(p, conversation), 1, 0) = <<>> /\ SubSeq(Among(p, conversation), 1, 0) = <<>>
    <3>1. PICK a \in Seq(Seq(PartType)), b \in Seq(Seq(TurnType)) : a = Apart(p, conversation) /\ b = Among(p, conversation)
      BY RequestTyped DEF Estimators, Providers
    <3>2. SubSeq(a, 1, 0) = <<>> /\ SubSeq(b, 1, 0) = <<>>
      OBVIOUS
    <3>3. QED
      BY <3>1, <3>2
  <2>4. EarlierCalls(conversation, 0 + 1) = <<>>
    <3>1. [j \in 1 .. (0 + 1) - 1 |-> CallsOf(conversation[j])] = <<>>
      OBVIOUS
    <3>2. QED
      BY <3>1, FlattenNone DEF EarlierCalls
  <2>5. KnownCalls(<<>>) = <<>>
    BY DEF KnownCalls
  <2>6. /\ Nothing.refused = FALSE /\ Nothing.system = <<>> /\ Nothing.contents = <<>> /\ Nothing.toolNames = <<>>
    BY DEF Nothing
  <2>7. ReadSoFar(p, conversation, 0, Nothing)
    <3>1. Nothing.refused <=> \E k \in 1 .. 0 : Refuses(p, conversation, k)
      <4>1. ~\E k \in 1 .. 0 : Refuses(p, conversation, k)
        OBVIOUS
      <4>2. QED
        BY <2>6, <4>1
    <3>2. Nothing.system = FlattenSeq(SubSeq(Apart(p, conversation), 1, 0))
      BY <2>3, <2>6, FlattenNone
    <3>3. Nothing.contents = FlattenSeq(SubSeq(Among(p, conversation), 1, 0))
      BY <2>3, <2>6, FlattenNone
    <3>4. Nothing.toolNames = KnownCalls(EarlierCalls(conversation, 0 + 1))
      BY <2>4, <2>5, <2>6
    <3>5. QED
      BY <2>2, <3>1, <3>2, <3>3, <3>4 DEF ReadSoFar
  <2>8. QED
    BY <2>1, <2>7
<1>4. ASSUME NEW n \in Nat, n \in T PROVE n + 1 \in T
  <2>1. SUFFICES ASSUME n + 1 <= Len(conversation) PROVE ReadSoFar(p, conversation, n + 1, f[n + 1])
    BY <1>4
  <2>2. n <= Len(conversation) /\ n + 1 \in 1 .. Len(conversation) /\ (n + 1) - 1 = n /\ n + 1 # 0
        /\ n + 1 \in 0 .. Len(conversation)
    BY <1>1, <2>1
  <2>3. ReadSoFar(p, conversation, n, f[n])
    BY <1>4, <2>2
  <2>4. f[n + 1] = Reads(p, f[n], ToTokenMessages(conversation)[n + 1])
    BY <1>2, <2>2
  <2>5. ReadSoFar(p, conversation, n + 1, Reads(p, f[n], ToTokenMessages(conversation)[n + 1]))
    <3>1. PICK i : i = n + 1
      OBVIOUS
    <3>2. i \in 1 .. Len(conversation) /\ ReadSoFar(p, conversation, i - 1, f[n])
      BY <2>2, <2>3, <3>1
    <3>3. ReadSoFar(p, conversation, i, Reads(p, f[n], ToTokenMessages(conversation)[i]))
      BY <3>2, ReadsNext
    <3>4. QED
      BY <3>1, <3>3
  <2>6. QED
    BY <2>4, <2>5
<1>5. Len(conversation) \in T
  <2> HIDE DEF T
  <2>1. QED
    BY <1>1, <1>3, <1>4, NatSetInduction
<1>6. QED
  BY <1>5

(* What is counted is what is sent.                                        *)
LEMMA CountedIsSent ==
  ASSUME NEW p \in Estimators, NEW conversation \in Seq(MessageType)
  PROVE  CountedMessages(p, conversation) = ConvertMessages(p, conversation)
<1>1. PICK all : /\ ReadSoFar(p, conversation, Len(conversation), all)
                 /\ CountedMessages(p, conversation) =
                      IF all.refused THEN Refused ELSE [system |-> all.system, contents |-> all.contents]
  <2>1. PICK f : f = CHOOSE g : Readings(p, conversation, g)
    OBVIOUS
  <2>2. Readings(p, conversation, f)
    BY <2>1, ReadingsExist
  <2>3. ReadSoFar(p, conversation, Len(conversation), f[Len(conversation)])
    BY <2>2, ReadingsAre
  <2>4. CountedMessages(p, conversation) =
          IF f[Len(conversation)].refused THEN Refused
          ELSE [system |-> f[Len(conversation)].system, contents |-> f[Len(conversation)].contents]
    BY <2>1 DEF CountedMessages, Readings
  <2>5. QED
    BY <2>3, <2>4
<1>2. PICK a \in Seq(Seq(PartType)), b \in Seq(Seq(TurnType)) : a = Apart(p, conversation) /\ b = Among(p, conversation)
  BY RequestTyped DEF Estimators, Providers
<1>3. Len(a) = Len(conversation) /\ Len(b) = Len(conversation) /\ DOMAIN conversation = 1 .. Len(conversation)
  BY <1>2 DEF Apart, Among
<1>4. SubSeq(a, 1, Len(a)) = a /\ SubSeq(b, 1, Len(b)) = b
  OBVIOUS
<1>5. all.refused <=> \E k \in 1 .. Len(conversation) : Refuses(p, conversation, k)
  BY <1>1 DEF ReadSoFar
<1>6. ~all.refused => all.system = FlattenSeq(a) /\ all.contents = FlattenSeq(b)
  BY <1>1, <1>2, <1>3, <1>4 DEF ReadSoFar
<1>7. ConvertMessages(p, conversation) =
        IF \E k \in 1 .. Len(conversation) : Refuses(p, conversation, k) THEN Refused
        ELSE [system |-> FlattenSeq(a), contents |-> FlattenSeq(b)]
  BY <1>2, <1>3 DEF ConvertMessages, Apart, Among
<1>8. all.refused \in BOOLEAN
  BY <1>1 DEF ReadSoFar, ReadType
<1>9. CASE all.refused
  <2>1. CountedMessages(p, conversation) = Refused
    BY <1>1, <1>9
  <2>2. ConvertMessages(p, conversation) = Refused
    BY <1>5, <1>7, <1>9
  <2>3. QED
    BY <2>1, <2>2
<1>10. CASE ~all.refused
  <2>1. CountedMessages(p, conversation) = [system |-> all.system, contents |-> all.contents]
    BY <1>1, <1>10
  <2>2. all.system = FlattenSeq(a) /\ all.contents = FlattenSeq(b)
    BY <1>6, <1>10
  <2>3. ConvertMessages(p, conversation) = [system |-> FlattenSeq(a), contents |-> FlattenSeq(b)]
    BY <1>5, <1>7, <1>10
  <2>4. QED
    BY <2>1, <2>2, <2>3
<1>11. QED
  BY <1>8, <1>9, <1>10

(***************************************************************************)
(* What tiktoken counts.                                                   *)
(***************************************************************************)
(* How often an element stands in a list: never in none, ...               *)
LEMMA TimesNatural ==
  ASSUME NEW S, NEW list \in Seq(S), NEW x
  PROVE  Times(list, x) \in Nat
<1>1. IsFiniteSet(1 .. Len(list)) /\ {i \in DOMAIN list : list[i] = x} \in SUBSET (1 .. Len(list))
  BY FS_Interval
<1>2. IsFiniteSet({i \in DOMAIN list : list[i] = x})
  BY <1>1, FS_Subset
<1>3. QED
  BY <1>2, FS_CardinalityType DEF Times

LEMMA TimesNever ==
  ASSUME NEW S, NEW list \in Seq(S), NEW x, \A i \in 1 .. Len(list) : list[i] # x
  PROVE  Times(list, x) = 0
<1>1. {i \in DOMAIN list : list[i] = x} = {}
  OBVIOUS
<1>2. QED
  BY <1>1, FS_EmptySet DEF Times

LEMMA TimesNone == ASSUME NEW x PROVE Times(<<>>, x) = 0
<1>1. {i \in DOMAIN <<>> : <<>>[i] = x} = {}
  OBVIOUS
<1>2. QED
  BY <1>1, FS_EmptySet DEF Times

(* ... as often as it stands in two that are joined, ...                   *)
LEMMA TimesJoined ==
  ASSUME NEW S, NEW a \in Seq(S), NEW b \in Seq(S), NEW x
  PROVE  Times(a \o b, x) = Times(a, x) + Times(b, x)
<1> DEFINE A == {i \in 1 .. Len(a) : a[i] = x}
           B == {i \in 1 .. Len(b) : b[i] = x}
           C == {i \in 1 .. Len(a \o b) : (a \o b)[i] = x}
           M == {i \in C : i > Len(a)}
           f == [i \in B |-> i + Len(a)]
<1>1. /\ Len(a) \in Nat /\ Len(b) \in Nat /\ Len(a \o b) = Len(a) + Len(b)
      /\ DOMAIN a = 1 .. Len(a) /\ DOMAIN b = 1 .. Len(b) /\ DOMAIN (a \o b) = 1 .. Len(a \o b)
      /\ \A i \in 1 .. Len(a) : (a \o b)[i] = a[i]
      /\ \A i \in 1 .. Len(b) : (a \o b)[i + Len(a)] = b[i]
  OBVIOUS
<1>2. \A i \in B : i \in Nat /\ i + Len(a) \in M
  BY <1>1
<1>3. \A j \in M : j - Len(a) \in B /\ (j - Len(a)) + Len(a) = j
  <2>1. ASSUME NEW j \in M PROVE j - Len(a) \in B /\ (j - Len(a)) + Len(a) = j
    <3>1. j \in 1 .. Len(a) + Len(b) /\ j > Len(a)
      BY <1>1
    <3>2. PICK i : i = j - Len(a)
      OBVIOUS
    <3>3. i \in 1 .. Len(b) /\ i + Len(a) = j
      BY <1>1, <3>1, <3>2
    <3>4. b[i] = x
      BY <1>1, <3>3
    <3>5. QED
      BY <3>2, <3>3, <3>4
  <2>2. QED
    BY <2>1
<1>4. f \in Bijection(B, M)
  <2>1. f \in [B -> M] /\ \A i, j \in B : f[i] = f[j] => i = j
    BY <1>1, <1>2
  <2>2. \A j \in M : \E i \in B : f[i] = j
    <3>1. ASSUME NEW j \in M PROVE \E i \in B : f[i] = j
      <4>1. j - Len(a) \in B /\ f[j - Len(a)] = (j - Len(a)) + Len(a)
        BY <1>3
      <4>2. QED
        BY <1>3, <4>1
    <3>2. QED
      BY <3>1
  <2> HIDE DEF f, B, M
  <2>3. f \in Injection(B, M)
    BY <2>1 DEF Injection, IsInjective
  <2>4. f \in Surjection(B, M)
    BY <2>1, <2>2 DEF Surjection
  <2>5. QED
    BY <2>3, <2>4 DEF Bijection
<1>5. IsFiniteSet(A) /\ IsFiniteSet(B)
  <2>1. IsFiniteSet(1 .. Len(a)) /\ IsFiniteSet(1 .. Len(b))
    BY <1>1, FS_Interval
  <2>2. A \in SUBSET (1 .. Len(a)) /\ B \in SUBSET (1 .. Len(b))
    OBVIOUS
  <2> HIDE DEF A, B
  <2>3. QED
    BY <2>1, <2>2, FS_Subset
<1>6. IsFiniteSet(M) /\ Cardinality(M) = Cardinality(B)
  <2> HIDE DEF B, M, f
  <2>1. QED
    BY <1>4, <1>5, FS_Bijection DEF ExistsBijection
<1>7. C = A \cup M /\ A \cap M = {}
  BY <1>1
<1>8. Cardinality(C) = Cardinality(A) + Cardinality(B)
  <2> HIDE DEF A, B, C, M
  <2>1. Cardinality(A \cup M) = Cardinality(A) + Cardinality(M) - Cardinality(A \cap M)
    BY <1>5, <1>6, FS_Union
  <2>2. Cardinality(A) \in Nat /\ Cardinality(M) \in Nat /\ Cardinality({}) = 0
    BY <1>5, <1>6, FS_CardinalityType, FS_EmptySet
  <2>3. Cardinality(C) = Cardinality(A \cup M) /\ Cardinality(A \cap M) = 0
    BY <1>7, <2>2
  <2>4. QED
    BY <1>6, <2>1, <2>2, <2>3
<1>9. Times(a, x) = Cardinality(A) /\ Times(b, x) = Cardinality(B) /\ Times(a \o b, x) = Cardinality(C)
  BY <1>1 DEF Times
<1>10. QED
  BY <1>8, <1>9

(* ... and no more often in two that are gathered than in one, when that   *)
(* is so of each of their pieces.                                          *)
LEMMA TimesGathered ==
  ASSUME NEW S, NEW T, NEW a \in Seq(Seq(S)), NEW b \in Seq(Seq(S)), NEW c \in Seq(Seq(T)), NEW x, NEW y,
         Len(a) = Len(c), Len(b) = Len(c),
         \A i \in 1 .. Len(c) : Times(a[i], x) + Times(b[i], x) <= Times(c[i], y)
  PROVE  Times(FlattenSeq(a), x) + Times(FlattenSeq(b), x) <= Times(FlattenSeq(c), y)
<1> DEFINE A(n) == FlattenSeq(SubSeq(a, 1, n))
           B(n) == FlattenSeq(SubSeq(b, 1, n))
           C(n) == FlattenSeq(SubSeq(c, 1, n))
           U == {n \in Nat : n <= Len(c) => Times(A(n), x) + Times(B(n), x) <= Times(C(n), y)}
<1>1. Len(c) \in Nat /\ SubSeq(a, 1, Len(a)) = a /\ SubSeq(b, 1, Len(b)) = b /\ SubSeq(c, 1, Len(c)) = c
      /\ SubSeq(a, 1, 0) = <<>> /\ SubSeq(b, 1, 0) = <<>> /\ SubSeq(c, 1, 0) = <<>>
  OBVIOUS
<1>2. 0 \in U
  <2>1. A(0) = <<>> /\ B(0) = <<>> /\ C(0) = <<>>
    BY <1>1, FlattenNone
  <2>2. Times(<<>>, x) = 0 /\ Times(<<>>, y) = 0
    BY TimesNone
  <2> HIDE DEF A, B, C
  <2>3. QED
    BY <2>1, <2>2
<1>3. ASSUME NEW n \in Nat, n \in U PROVE n + 1 \in U
  <2>1. SUFFICES ASSUME n + 1 <= Len(c)
                 PROVE  Times(A(n + 1), x) + Times(B(n + 1), x) <= Times(C(n + 1), y)
    OBVIOUS
  <2>2. n \in 0 .. Len(c) - 1 /\ n + 1 \in 1 .. Len(c)
    BY <1>1, <2>1
  <2>3. Times(A(n), x) + Times(B(n), x) <= Times(C(n), y)
    BY <1>3, <2>2
  <2>4. PICK p, q \in Seq(S), r \in Seq(T) : p = a[n + 1] /\ q = b[n + 1] /\ r = c[n + 1]
    BY <2>2
  <2>5. Times(p, x) + Times(q, x) <= Times(r, y)
    BY <2>2, <2>4
  <2>6. PICK v, w \in Seq(S), z \in Seq(T) : v = A(n) /\ w = B(n) /\ z = C(n)
    BY <2>2, ListedNext
  <2>7. A(n + 1) = v \o p /\ B(n + 1) = w \o q /\ C(n + 1) = z \o r
    BY <2>2, <2>4, <2>6, ListedNext
  <2> HIDE DEF A, B, C
  <2>8. /\ Times(v \o p, x) = Times(v, x) + Times(p, x) /\ Times(w \o q, x) = Times(w, x) + Times(q, x)
        /\ Times(z \o r, y) = Times(z, y) + Times(r, y)
    BY TimesJoined
  <2>9. /\ Times(v, x) \in Nat /\ Times(w, x) \in Nat /\ Times(z, y) \in Nat
        /\ Times(p, x) \in Nat /\ Times(q, x) \in Nat /\ Times(r, y) \in Nat
    BY TimesNatural
  <2>10. Times(v, x) + Times(w, x) <= Times(z, y)
    BY <2>3, <2>6
  <2>11. (Times(v, x) + Times(p, x)) + (Times(w, x) + Times(q, x)) <= Times(z, y) + Times(r, y)
    <3>1. ASSUME NEW i \in Nat, NEW j \in Nat, NEW k \in Nat, NEW l \in Nat, NEW m \in Nat, NEW o \in Nat,
                 i + k <= m, j + l <= o
          PROVE  (i + j) + (k + l) <= m + o
      BY <3>1
    <3>2. QED
      BY <2>5, <2>9, <2>10, <3>1
  <2>12. Times(v \o p, x) + Times(w \o q, x) <= Times(z \o r, y)
    BY <2>8, <2>11
  <2>13. QED
    BY <2>7, <2>12
<1>4. Len(c) \in U
  <2> HIDE DEF U
  <2>1. QED
    BY <1>1, <1>2, <1>3, NatSetInduction
<1>5. Times(A(Len(c)), x) + Times(B(Len(c)), x) <= Times(C(Len(c)), y)
  BY <1>1, <1>4
<1>6. A(Len(c)) = FlattenSeq(a) /\ B(Len(c)) = FlattenSeq(b) /\ C(Len(c)) = FlattenSeq(c)
  BY <1>1
<1> HIDE DEF A, B, C
<1>7. QED
  BY <1>5, <1>6

(* The same of one list.                                                   *)
LEMMA TimesEach ==
  ASSUME NEW S, NEW T, NEW a \in Seq(Seq(S)), NEW c \in Seq(Seq(T)), NEW x, NEW y, Len(a) = Len(c),
         \A i \in 1 .. Len(c) : Times(a[i], x) <= Times(c[i], y)
  PROVE  Times(FlattenSeq(a), x) <= Times(FlattenSeq(c), y)
<1> DEFINE b == [i \in 1 .. Len(c) |-> <<>>]
<1>1. Len(c) \in Nat /\ Len(b) = Len(c) /\ b \in Seq(Seq(S)) /\ <<>> \in Seq(S) /\ Len(<<>>) = 0
      /\ \A i \in 1 .. Len(c) : b[i] = <<>>
  OBVIOUS
<1>2. FlattenSeq(b) = <<>>
  BY <1>1, FlattenEmpties
<1>3. Times(<<>>, x) = 0
  BY TimesNone
<1>4. \A i \in 1 .. Len(c) : Times(a[i], x) \in Nat
  BY TimesNatural
<1>5. \A i \in 1 .. Len(c) : Times(a[i], x) + Times(b[i], x) <= Times(c[i], y)
  <2> HIDE DEF b
  <2>1. ASSUME NEW i \in 1 .. Len(c) PROVE Times(a[i], x) + Times(b[i], x) <= Times(c[i], y)
    <3>1. Times(b[i], x) = 0 /\ Times(a[i], x) \in Nat /\ Times(a[i], x) <= Times(c[i], y)
      BY <1>1, <1>3, <1>4
    <3>2. QED
      BY <3>1
  <2>2. QED
    BY <2>1
<1> HIDE DEF b
<1>6. Times(FlattenSeq(a), x) + Times(FlattenSeq(b), x) <= Times(FlattenSeq(c), y)
  BY <1>1, <1>5, TimesGathered
<1>7. Times(FlattenSeq(a), x) \in Nat
  BY FlattenTyped, TimesNatural
<1>8. QED
  BY <1>2, <1>3, <1>6, <1>7

(* What tiktoken counts of an input part, of a call, and of a message.     *)
Counted == STRING \cup {"", "image"}

LEMMA WrittenTimes ==
  ASSUME NEW text \in Seq(STRING), NEW v
  PROVE  /\ Times(Written(text), Item("text", v)) = Times(text, v)
         /\ Times(Written(text), Item("call", v)) = 0
<1>1. DOMAIN text = 1 .. Len(text) /\ Written(text) \in Seq(ItemType)
  BY WrittenIs
<1>2. DOMAIN Written(text) = DOMAIN text /\ \A k \in DOMAIN text : Written(text)[k] = Item("text", text[k])
  BY DEF Written
<1>3. \A k \in DOMAIN text : Item("text", text[k]) = Item("text", v) <=> text[k] = v
  BY DEF Item
<1>4. \A k \in DOMAIN text : Item("text", text[k]) # Item("call", v)
  BY DEF Item
<1>5. {k \in DOMAIN Written(text) : Written(text)[k] = Item("text", v)} = {k \in DOMAIN text : text[k] = v}
  BY <1>2, <1>3
<1>6. {k \in DOMAIN Written(text) : Written(text)[k] = Item("call", v)} = {}
  BY <1>2, <1>4
<1>7. QED
  BY <1>5, <1>6, FS_EmptySet DEF Times

LEMMA SoleTimes ==
  ASSUME NEW x, NEW y
  PROVE  Times(<<x>>, y) = IF x = y THEN 1 ELSE 0
<1>1. CASE x = y
  <2>1. {k \in DOMAIN <<x>> : <<x>>[k] = y} = {1}
    BY <1>1
  <2>2. QED
    BY <1>1, <2>1, FS_Singleton DEF Times
<1>2. CASE x # y
  <2>1. {k \in DOMAIN <<x>> : <<x>>[k] = y} = {}
    BY <1>2
  <2>2. QED
    BY <1>2, <2>1, FS_EmptySet DEF Times
<1>3. QED
  BY <1>1, <1>2

LEMMA CountedTyped ==
  ASSUME NEW text \in Seq(STRING)
  PROVE  text \in Seq(Counted)
<1>1. \A k \in 1 .. Len(text) : text[k] \in STRING
  OBVIOUS
<1>2. \A k \in 1 .. Len(text) : text[k] \in Counted
  BY <1>1 DEF Counted
<1>3. Len(text) \in Nat /\ text = [k \in 1 .. Len(text) |-> text[k]]
  OBVIOUS
<1>4. [k \in 1 .. Len(text) |-> text[k]] \in Seq(Counted)
  BY <1>2, <1>3
<1>5. QED
  BY <1>3, <1>4

LEMMA TextsJoined ==
  ASSUME NEW a \in Seq(Counted), NEW b \in Seq(Counted), NEW v
  PROVE  Times(a, v) <= Times(a \o b, v) /\ Times(b, v) <= Times(a \o b, v)
<1>1. Times(a, v) \in Nat /\ Times(b, v) \in Nat
  BY TimesNatural
<1>2. Times(a \o b, v) = Times(a, v) + Times(b, v)
  BY TimesJoined
<1>3. QED
  BY <1>1, <1>2

LEMMA PartTimes ==
  ASSUME NEW part \in InputPart, part.type \in {"input_text", "input_image"}, NEW token,
         token.Type = part.type, token.Text = part.text, token.Image = part.image, NEW v
  PROVE  /\ SpokenOf(part) \in Seq(ItemType)
         /\ CountedPart(token) \in Seq(Counted)
         /\ Times(SpokenOf(part), Item("text", v)) <= Times(CountedPart(token), v)
         /\ Times(SpokenOf(part), Item("call", v)) = 0
<1>1. part.type \in STRING /\ part.text \in Seq(STRING) /\ part.image \in STRING
  BY DEF InputPart
<1>2. PICK type : type = part.type
  OBVIOUS
<1>3. type \in Counted /\ part.image \in Counted /\ "image" \in Counted
  BY <1>1, <1>2 DEF Counted
<1>4. <<type>> \in Seq(Counted)
  BY <1>3
<1>5. CASE part.type = "input_image"
  <2>1. SpokenOf(part) = <<Item("image", part.image)>>
    BY <1>5 DEF SpokenOf
  <2>2. Item("image", part.image) \in ItemType
    BY <1>1 DEF Item, ItemType, Optional
  <2>3. Item("image", part.image) # Item("text", v) /\ Item("image", part.image) # Item("call", v)
    BY DEF Item
  <2>4. Times(SpokenOf(part), Item("text", v)) = 0 /\ Times(SpokenOf(part), Item("call", v)) = 0
    BY <2>1, <2>3, SoleTimes
  <2>5. CountedPart(token) = <<type>> \o <<"image", part.image>>
    BY <1>2, <1>5 DEF CountedPart
  <2>6. <<"image", part.image>> \in Seq(Counted)
    BY <1>3
  <2>7. CountedPart(token) \in Seq(Counted)
    BY <1>4, <2>5, <2>6
  <2>8. Times(CountedPart(token), v) \in Nat
    BY <2>7, TimesNatural
  <2>9. <<Item("image", part.image)>> \in Seq(ItemType)
    BY <2>2
  <2>10. QED
    BY <2>1, <2>4, <2>7, <2>8, <2>9
<1>6. CASE part.type = "input_text"
  <2>1. SpokenOf(part) = Written(part.text)
    BY <1>6 DEF SpokenOf
  <2>2. CountedPart(token) = <<type>> \o part.text
    BY <1>2, <1>6 DEF CountedPart
  <2>3. part.text \in Seq(Counted)
    BY <1>1, CountedTyped
  <2>4. CountedPart(token) \in Seq(Counted)
    BY <1>4, <2>2, <2>3
  <2>5. Times(part.text, v) <= Times(CountedPart(token), v)
    BY <1>4, <2>2, <2>3, TextsJoined
  <2>6. /\ Times(Written(part.text), Item("text", v)) = Times(part.text, v)
        /\ Times(Written(part.text), Item("call", v)) = 0 /\ Written(part.text) \in Seq(ItemType)
    BY <1>1, WrittenTimes, WrittenIs
  <2>7. QED
    BY <2>1, <2>4, <2>5, <2>6
<1>7. QED
  BY <1>5, <1>6

(* What a message says, ...                                                *)
CountedSaid(t) ==
  IF t.Input = <<>> THEN t.Content ELSE FlattenSeq([i \in DOMAIN t.Input |-> CountedPart(t.Input[i])])

LEMMA SaidTimes ==
  ASSUME NEW m \in MessageType, Constructed(m), NEW t, Token(t, m), NEW v
  PROVE  /\ Spoken(m) \in Seq(ItemType)
         /\ CountedSaid(t) \in Seq(Counted)
         /\ Times(Spoken(m), Item("text", v)) <= Times(CountedSaid(t), v)
         /\ Times(Spoken(m), Item("call", v)) = 0
<1>1. /\ t.Content = m.text /\ DOMAIN t.Input = DOMAIN m.input
      /\ \A i \in DOMAIN m.input : /\ t.Input[i].Type = m.input[i].type
                                   /\ t.Input[i].Text = m.input[i].text
                                   /\ t.Input[i].Image = m.input[i].image
  BY DEF Token
<1>2. m.text \in Seq(STRING) /\ m.input \in Seq(InputPart)
  BY DEF MessageType
<1>3. /\ DOMAIN m.input = 1 .. Len(m.input) /\ Len(m.input) \in Nat
      /\ \A i \in 1 .. Len(m.input) : m.input[i] \in InputPart
  BY InputTyped
<1>4. \A i \in 1 .. Len(m.input) : m.input[i].type \in {"input_text", "input_image"}
  BY <1>3 DEF Constructed
<1>5. CASE m.input = <<>>
  <2>1. Spoken(m) = Written(m.text)
    BY <1>5, SpokenIs
  <2>2. CountedSaid(t) = m.text
    <3>1. DOMAIN m.input = {} /\ t.Input = [i \in DOMAIN m.input |-> t.Input[i]]
      BY <1>5 DEF Token
    <3>2. t.Input = <<>>
      BY <3>1
    <3>3. QED
      BY <1>1, <3>2 DEF CountedSaid
  <2>3. /\ Times(Written(m.text), Item("text", v)) = Times(m.text, v)
        /\ Times(Written(m.text), Item("call", v)) = 0 /\ Written(m.text) \in Seq(ItemType)
    BY <1>2, WrittenTimes, WrittenIs
  <2>4. m.text \in Seq(Counted)
    BY <1>2, CountedTyped
  <2>5. Times(m.text, v) \in Nat
    BY <2>4, TimesNatural
  <2>6. QED
    BY <2>1, <2>2, <2>3, <2>4, <2>5
<1>6. CASE m.input # <<>>
  <2> DEFINE a == [i \in 1 .. Len(m.input) |-> SpokenOf(m.input[i])]
             c == [i \in 1 .. Len(m.input) |-> CountedPart(t.Input[i])]
             e == [i \in 1 .. Len(m.input) |-> <<>>]
  <2>1. \A i \in 1 .. Len(m.input) :
          /\ SpokenOf(m.input[i]) \in Seq(ItemType)
          /\ CountedPart(t.Input[i]) \in Seq(Counted)
          /\ Times(SpokenOf(m.input[i]), Item("text", v)) <= Times(CountedPart(t.Input[i]), v)
          /\ Times(SpokenOf(m.input[i]), Item("call", v)) = 0
    BY <1>1, <1>3, <1>4, PartTimes
  <2>2. /\ a \in Seq(Seq(ItemType)) /\ Len(a) = Len(m.input)
        /\ c \in Seq(Seq(Counted)) /\ Len(c) = Len(m.input)
        /\ e \in Seq(Seq(Counted)) /\ Len(e) = Len(m.input)
        /\ \A i \in 1 .. Len(m.input) : a[i] = SpokenOf(m.input[i]) /\ c[i] = CountedPart(t.Input[i]) /\ e[i] = <<>>
    BY <1>3, <2>1
  <2>3. Spoken(m) = FlattenSeq(a)
    BY <1>6, SpokenIs
  <2>4. CountedSaid(t) = FlattenSeq(c)
    <3>1. PICK input \in Seq(InputPart) : input = m.input
      BY <1>2
    <3>2. input # <<>> /\ Len(input) # 0
      BY <1>6, <3>1
    <3>3. 1 \in DOMAIN t.Input
      BY <1>1, <1>3, <3>1, <3>2
    <3>4. t.Input # <<>>
      BY <3>3
    <3>5. QED
      BY <1>1, <1>3, <3>4 DEF CountedSaid
  <2>5. FlattenSeq(e) = <<>>
    BY <1>3, FlattenEmpties
  <2> HIDE DEF a, c, e
  <2>6. \A i \in 1 .. Len(c) : Times(a[i], Item("text", v)) <= Times(c[i], v)
    BY <2>1, <2>2
  <2>7. Times(FlattenSeq(a), Item("text", v)) <= Times(FlattenSeq(c), v)
    BY <2>2, <2>6, TimesEach
  <2>8. \A i \in 1 .. Len(e) : Times(a[i], Item("call", v)) <= Times(e[i], v)
    <3>1. \A i \in 1 .. Len(e) : Times(a[i], Item("call", v)) = 0 /\ Times(e[i], v) = 0
      BY <2>1, <2>2, TimesNone
    <3>2. QED
      BY <3>1
  <2>9. Times(FlattenSeq(a), Item("call", v)) <= Times(FlattenSeq(e), v)
    BY <2>2, <2>8, TimesEach
  <2>10. FlattenSeq(a) \in Seq(ItemType) /\ FlattenSeq(c) \in Seq(Counted)
    BY <2>2, FlattenTyped
  <2>11. Times(FlattenSeq(a), Item("call", v)) \in Nat /\ Times(<<>>, v) = 0
    BY <2>10, TimesNatural, TimesNone
  <2>12. Times(FlattenSeq(a), Item("call", v)) = 0
    BY <2>5, <2>9, <2>11
  <2>13. QED
    BY <2>3, <2>4, <2>7, <2>10, <2>12
<1>7. QED
  BY <1>5, <1>6

(* ... what it calls, ...                                                  *)
CallItems(m) == [i \in DOMAIN m.calls |-> Item("call", m.calls[i].id)]

LEMMA CallTimes ==
  ASSUME NEW m \in MessageType, NEW t, Token(t, m), NEW v
  PROVE  /\ CallItems(m) \in Seq(ItemType)
         /\ CountedCalls(t) \in Seq(Counted)
         /\ Times(CallItems(m), Item("call", v)) <= Times(CountedCalls(t), v)
         /\ Times(CallItems(m), Item("text", v)) = 0
<1>1. PICK calls \in Seq(ToolCall) : calls = m.calls
  BY DEF MessageType
<1>2. /\ DOMAIN calls = 1 .. Len(calls) /\ Len(calls) \in Nat
      /\ \A i \in 1 .. Len(calls) : calls[i].id \in STRING /\ calls[i].name \in STRING
  <2>1. \A i \in 1 .. Len(calls) : calls[i] \in ToolCall
    OBVIOUS
  <2>2. QED
    BY <2>1 DEF ToolCall
<1>3. DOMAIN t.ToolCalls = 1 .. Len(calls)
      /\ \A i \in 1 .. Len(calls) : t.ToolCalls[i].ID = calls[i].id /\ t.ToolCalls[i].Name = calls[i].name
  BY <1>1, <1>2 DEF Token, KnownCall
<1> DEFINE items == [i \in 1 .. Len(calls) |-> Item("call", calls[i].id)]
           a == [i \in 1 .. Len(calls) |-> <<items[i]>>]
           c == [i \in 1 .. Len(calls) |-> <<calls[i].id, calls[i].name>>]
<1>4. \A i \in 1 .. Len(calls) : Item("call", calls[i].id) \in ItemType
  BY <1>2 DEF Item, ItemType, Optional
<1>5. items \in Seq(ItemType) /\ Len(items) = Len(calls)
      /\ \A i \in 1 .. Len(calls) : items[i] = Item("call", calls[i].id) /\ items[i] \in ItemType
  BY <1>2, <1>4
<1>6. CallItems(m) = items
  BY <1>1, <1>2 DEF CallItems
<1>7. CountedCalls(t) = FlattenSeq(c)
  <2>1. [i \in DOMAIN t.ToolCalls |-> <<t.ToolCalls[i].ID, t.ToolCalls[i].Name>>] = c
    BY <1>3
  <2>2. QED
    BY <2>1 DEF CountedCalls
<1>8. \A i \in 1 .. Len(calls) : calls[i].id \in Counted /\ calls[i].name \in Counted
  BY <1>2 DEF Counted
<1>9. c \in Seq(Seq(Counted)) /\ Len(c) = Len(calls)
      /\ \A i \in 1 .. Len(calls) : c[i] = <<calls[i].id, calls[i].name>>
  BY <1>2, <1>8
<1> HIDE DEF items
<1>10. a \in Seq(Seq(ItemType)) /\ Len(a) = Len(calls) /\ \A i \in 1 .. Len(calls) : a[i] = <<items[i]>>
  BY <1>2, <1>5
<1>11. FlattenSeq(a) = items
  BY <1>5, FlattenSingles
<1> HIDE DEF a, c
<1>12. ASSUME NEW i \in 1 .. Len(c) PROVE Times(a[i], Item("call", v)) <= Times(c[i], v)
  <2>1. PICK id \in Counted, name \in Counted : id = calls[i].id /\ name = calls[i].name
    BY <1>8, <1>9
  <2>2. c[i] = <<id>> \o <<name>> /\ <<id>> \in Seq(Counted) /\ <<name>> \in Seq(Counted)
    BY <1>9, <2>1
  <2>3. Times(<<id>>, v) <= Times(c[i], v)
    BY <2>2, TextsJoined
  <2>4. a[i] = <<Item("call", id)>>
    BY <1>5, <1>9, <1>10, <2>1
  <2>5. Item("call", id) = Item("call", v) <=> id = v
    BY DEF Item
  <2>6. Times(a[i], Item("call", v)) = Times(<<id>>, v)
    BY <2>4, <2>5, SoleTimes
  <2>7. QED
    BY <2>3, <2>6
<1>13. Times(FlattenSeq(a), Item("call", v)) <= Times(FlattenSeq(c), v)
  BY <1>9, <1>10, <1>12, TimesEach
<1>14. Times(items, Item("text", v)) = 0
  <2>1. \A i \in 1 .. Len(calls) : Item("call", calls[i].id) # Item("text", v)
    BY DEF Item
  <2>2. \A i \in 1 .. Len(items) : items[i] # Item("text", v)
    BY <1>5, <2>1
  <2>3. QED
    BY <1>5, <2>2, TimesNever
<1>15. FlattenSeq(c) \in Seq(Counted)
  BY <1>9, FlattenTyped
<1>16. QED
  BY <1>5, <1>6, <1>7, <1>11, <1>13, <1>14, <1>15

(* ... and both with what stands beside.                                   *)
LEMMA MessageTimes ==
  ASSUME NEW m \in MessageType, Constructed(m), NEW t, Token(t, m), NEW kind \in {"text", "call"}, NEW v
  PROVE  /\ Meant(m) \in Seq(ItemType)
         /\ CountedTexts(t) \in Seq(Counted)
         /\ Times(Meant(m), Item(kind, v)) <= Times(CountedTexts(t), v)
<1>1. m.role \in STRING /\ m.answers \in Optional /\ m.name \in Optional
  BY DEF MessageType
<1>2. t.Role = m.role /\ t.Name = m.name /\ t.ToolCallID = m.answers
  BY DEF Token
<1>3. PICK role \in Counted, name \in Counted, id \in Counted : role = t.Role /\ name = t.Name /\ id = t.ToolCallID
  BY <1>1, <1>2 DEF Counted, Optional
<1>4. PICK x : x = Item(kind, v)
  OBVIOUS
<1>5. PICK r : r = IF m.role = "tool" THEN <<Item("result", m.answers)>> ELSE <<>>
  OBVIOUS
<1>6. r \in Seq(ItemType)
  <2>1. Item("result", m.answers) \in ItemType
    BY <1>1 DEF Item, ItemType
  <2>2. <<Item("result", m.answers)>> \in Seq(ItemType)
    BY <2>1
  <2>3. QED
    BY <1>5, <2>2
<1>7. Times(r, x) = 0
  <2>1. Item("result", m.answers) # x
    BY <1>4 DEF Item
  <2>2. QED
    BY <1>5, <2>1, SoleTimes, TimesNone
<1>8. PICK s, c : s = Spoken(m) /\ c = CallItems(m)
  OBVIOUS
<1>9. PICK said, calls : said = CountedSaid(t) /\ calls = CountedCalls(t)
  OBVIOUS
<1>10. s \in Seq(ItemType) /\ c \in Seq(ItemType) /\ said \in Seq(Counted) /\ calls \in Seq(Counted)
  BY <1>8, <1>9, SaidTimes, CallTimes
<1>11. Times(s, x) + Times(c, x) <= Times(said, v) + Times(calls, v)
  <2>1. /\ Times(s, Item("text", v)) <= Times(said, v) /\ Times(s, Item("call", v)) = 0
        /\ Times(c, Item("call", v)) <= Times(calls, v) /\ Times(c, Item("text", v)) = 0
    BY <1>8, <1>9, SaidTimes, CallTimes
  <2>2. Times(s, x) \in Nat /\ Times(c, x) \in Nat /\ Times(said, v) \in Nat /\ Times(calls, v) \in Nat
    BY <1>10, TimesNatural
  <2>3. CASE kind = "text"
    <3>1. Times(s, x) <= Times(said, v) /\ Times(c, x) = 0
      BY <1>4, <2>1, <2>3
    <3>2. QED
      BY <2>2, <3>1
  <2>4. CASE kind = "call"
    <3>1. Times(s, x) = 0 /\ Times(c, x) <= Times(calls, v)
      BY <1>4, <2>1, <2>4
    <3>2. QED
      BY <2>2, <3>1
  <2>5. QED
    BY <2>3, <2>4
<1>12. Meant(m) = (r \o s) \o c
  BY <1>5, <1>8 DEF Meant, CallItems
<1>13. CountedTexts(t) = ((<<role, name>> \o said) \o <<id>>) \o calls
  BY <1>3, <1>9 DEF CountedTexts, CountedSaid
<1>14. <<role, name>> \in Seq(Counted) /\ <<id>> \in Seq(Counted)
  OBVIOUS
<1>15. Times((r \o s) \o c, x) = Times(s, x) + Times(c, x)
  <2>1. r \o s \in Seq(ItemType)
    BY <1>6, <1>10
  <2>2. Times((r \o s) \o c, x) = Times(r \o s, x) + Times(c, x)
    BY <1>10, <2>1, TimesJoined
  <2>3. Times(r \o s, x) = Times(r, x) + Times(s, x)
    BY <1>6, <1>10, TimesJoined
  <2>4. Times(s, x) \in Nat
    BY <1>10, TimesNatural
  <2>5. QED
    BY <1>7, <2>2, <2>3, <2>4
<1>16. Times(said, v) + Times(calls, v) <= Times(((<<role, name>> \o said) \o <<id>>) \o calls, v)
  <2>1. PICK p : p = <<role, name>> \o said
    OBVIOUS
  <2>2. PICK q : q = p \o <<id>>
    OBVIOUS
  <2>3. p \in Seq(Counted)
    BY <1>10, <1>14, <2>1
  <2>4. q \in Seq(Counted)
    BY <1>14, <2>2, <2>3
  <2>5. Times(said, v) <= Times(p, v)
    BY <1>10, <1>14, <2>1, TextsJoined
  <2>6. Times(p, v) <= Times(q, v)
    BY <1>14, <2>2, <2>3, TextsJoined
  <2>7. Times(q \o calls, v) = Times(q, v) + Times(calls, v)
    BY <1>10, <2>4, TimesJoined
  <2>8. Times(said, v) \in Nat /\ Times(calls, v) \in Nat /\ Times(p, v) \in Nat /\ Times(q, v) \in Nat
    BY <1>10, <2>3, <2>4, TimesNatural
  <2>9. Times(said, v) + Times(calls, v) <= Times(q, v) + Times(calls, v)
    BY <2>5, <2>6, <2>8
  <2>10. QED
    BY <2>1, <2>2, <2>7, <2>9
<1>17. (r \o s) \o c \in Seq(ItemType)
  BY <1>6, <1>10
<1>18. ((<<role, name>> \o said) \o <<id>>) \o calls \in Seq(Counted)
  BY <1>10, <1>14
<1>19. Times((r \o s) \o c, x) <= Times(((<<role, name>> \o said) \o <<id>>) \o calls, v)
  <2>1. PICK n, o : n = Times(said, v) + Times(calls, v) /\ o = Times(((<<role, name>> \o said) \o <<id>>) \o calls, v)
    OBVIOUS
  <2>2. Times(s, x) \in Nat /\ Times(c, x) \in Nat /\ Times(said, v) \in Nat /\ Times(calls, v) \in Nat /\ o \in Nat
    BY <1>10, <1>18, <2>1, TimesNatural
  <2>3. Times(s, x) + Times(c, x) <= n /\ n <= o /\ n \in Nat
    BY <1>11, <1>16, <2>1, <2>2
  <2>4. Times(s, x) + Times(c, x) <= o
    BY <2>2, <2>3
  <2>5. QED
    BY <1>15, <2>1, <2>4
<1>20. QED
  BY <1>4, <1>12, <1>13, <1>17, <1>18, <1>19

(* What is said of a conversation apart and among is counted together.     *)
LEMMA ConversationTimes ==
  ASSUME NEW p \in Providers, NEW conversation \in Seq(MessageType),
         \A i \in 1 .. Len(conversation) : Constructed(conversation[i]),
         NEW apart, apart = FlattenSeq([i \in DOMAIN conversation |->
                      IF SetApart(p, conversation, i) THEN Meant(conversation[i]) ELSE <<>>]),
         NEW among, among = FlattenSeq([i \in DOMAIN conversation |->
                      IF SetApart(p, conversation, i) THEN <<>> ELSE Meant(conversation[i])]),
         NEW kind \in {"text", "call"}, NEW v
  PROVE  /\ apart \in Seq(ItemType) /\ among \in Seq(ItemType)
         /\ Times(apart \o among, Item(kind, v)) <= Times(Tiktoken(conversation), v)
<1>1. DOMAIN conversation = 1 .. Len(conversation) /\ Len(conversation) \in Nat
  OBVIOUS
<1> DEFINE a == [i \in 1 .. Len(conversation) |->
                  IF SetApart(p, conversation, i) THEN Meant(conversation[i]) ELSE <<>>]
           b == [i \in 1 .. Len(conversation) |->
                  IF SetApart(p, conversation, i) THEN <<>> ELSE Meant(conversation[i])]
           c == [i \in 1 .. Len(conversation) |-> CountedTexts(ToTokenMessage(conversation[i]))]
<1>2. \A i \in 1 .. Len(conversation) :
        /\ Meant(conversation[i]) \in Seq(ItemType)
        /\ CountedTexts(ToTokenMessage(conversation[i])) \in Seq(Counted)
        /\ Times(Meant(conversation[i]), Item(kind, v)) <= Times(CountedTexts(ToTokenMessage(conversation[i])), v)
  <2>1. ASSUME NEW i \in 1 .. Len(conversation)
        PROVE  /\ Meant(conversation[i]) \in Seq(ItemType)
               /\ CountedTexts(ToTokenMessage(conversation[i])) \in Seq(Counted)
               /\ Times(Meant(conversation[i]), Item(kind, v)) <=
                    Times(CountedTexts(ToTokenMessage(conversation[i])), v)
    <3>1. PICK m \in MessageType : m = conversation[i]
      OBVIOUS
    <3>2. Constructed(m) /\ Token(ToTokenMessage(m), m)
      BY <3>1, TokenIs
    <3>3. /\ Meant(m) \in Seq(ItemType)
          /\ CountedTexts(ToTokenMessage(m)) \in Seq(Counted)
          /\ Times(Meant(m), Item(kind, v)) <= Times(CountedTexts(ToTokenMessage(m)), v)
      BY <3>2, MessageTimes
    <3>4. QED
      BY <3>1, <3>3
  <2>2. QED
    BY <2>1
<1>3. /\ a \in Seq(Seq(ItemType)) /\ b \in Seq(Seq(ItemType)) /\ c \in Seq(Seq(Counted))
      /\ Len(a) = Len(conversation) /\ Len(b) = Len(conversation) /\ Len(c) = Len(conversation)
      /\ \A i \in 1 .. Len(conversation) :
           /\ a[i] = IF SetApart(p, conversation, i) THEN Meant(conversation[i]) ELSE <<>>
           /\ b[i] = IF SetApart(p, conversation, i) THEN <<>> ELSE Meant(conversation[i])
           /\ c[i] = CountedTexts(ToTokenMessage(conversation[i]))
  BY <1>1, <1>2
<1>4. apart = FlattenSeq(a) /\ among = FlattenSeq(b)
  BY <1>1
<1>5. Tiktoken(conversation) = FlattenSeq(c)
  <2>1. DOMAIN ToTokenMessages(conversation) = 1 .. Len(conversation)
        /\ \A i \in 1 .. Len(conversation) : ToTokenMessages(conversation)[i] = ToTokenMessage(conversation[i])
    BY <1>1 DEF ToTokenMessages
  <2>2. [i \in DOMAIN ToTokenMessages(conversation) |-> CountedTexts(ToTokenMessages(conversation)[i])] = c
    BY <2>1
  <2>3. QED
    BY <2>2 DEF Tiktoken
<1> HIDE DEF a, b, c
<1>6. PICK x : x = Item(kind, v)
  OBVIOUS
<1>7. \A i \in 1 .. Len(c) : Times(a[i], x) + Times(b[i], x) <= Times(c[i], v)
  <2>1. ASSUME NEW i \in 1 .. Len(c) PROVE Times(a[i], x) + Times(b[i], x) <= Times(c[i], v)
    <3>1. PICK n, o : n = Times(Meant(conversation[i]), x) /\ o = Times(c[i], v)
      OBVIOUS
    <3>2. n \in Nat /\ n <= o
      <4>1. Times(Meant(conversation[i]), x) \in Nat
        BY <1>2, <1>3, TimesNatural
      <4>2. QED
        BY <1>2, <1>3, <1>6, <3>1, <4>1
    <3>3. o \in Nat
      BY <1>3, <3>1, TimesNatural
    <3>4. Times(<<>>, x) = 0
      BY TimesNone
    <3>5. CASE SetApart(p, conversation, i)
      <4>1. Times(a[i], x) = n /\ Times(b[i], x) = 0
        BY <1>3, <3>1, <3>4, <3>5
      <4>2. QED
        BY <3>1, <3>2, <3>3, <4>1
    <3>6. CASE ~SetApart(p, conversation, i)
      <4>1. Times(a[i], x) = 0 /\ Times(b[i], x) = n
        BY <1>3, <3>1, <3>4, <3>6
      <4>2. QED
        BY <3>1, <3>2, <3>3, <4>1
    <3>7. QED
      BY <3>5, <3>6
  <2>2. QED
    BY <2>1
<1>8. Times(FlattenSeq(a), x) + Times(FlattenSeq(b), x) <= Times(FlattenSeq(c), v)
  BY <1>3, <1>7, TimesGathered
<1>9. apart \in Seq(ItemType) /\ among \in Seq(ItemType)
  BY <1>3, <1>4, FlattenTyped
<1>10. Times(apart \o among, x) = Times(apart, x) + Times(among, x)
  BY <1>9, TimesJoined
<1>11. QED
  BY <1>4, <1>5, <1>6, <1>8, <1>9, <1>10

(* Whatever the conversation and the plan, the vendor's estimator counts   *)
(* the very request that is sent, and tiktoken whatever is sent as often   *)
(* as it is sent.                                                          *)
THEOREM EstimatesAgree == Spec => []EstimateAgrees
<1>1. MessagesInv => EstimateAgrees
  <2>1. SUFFICES ASSUME MessagesInv, provider # Nil PROVE EstimateAgrees
    BY DEF EstimateAgrees
  <2>2. PICK p, c, r : p = provider /\ c = compacted /\ r = request
    OBVIOUS
  <2>3. p \in Providers /\ r = ConvertMessages(p, c) /\ c \in Seq(MessageType)
    BY <2>1, <2>2, CompactedIs DEF MessagesInv
  <2>4. p \in Estimators => CountedMessages(p, c) = r
    BY <2>3, CountedIsSent
  <2>5. ASSUME r # Refused, AllConstructed,
               NEW sent, sent = Flat(r.system) \o Flat(AllParts(r.contents)),
               NEW i \in DOMAIN sent, sent[i].kind \in {"text", "call"}
        PROVE  Times(sent, sent[i]) <= Times(Tiktoken(c), sent[i].value)
    <3>1. DOMAIN c = 1 .. Len(c) /\ Len(c) \in Nat
      BY <2>3
    <3>2. \A k \in 1 .. Len(c) : Constructed(c[k])
      BY <2>2, <2>5, <3>1 DEF AllConstructed
    <3>3. /\ \A k \in 1 .. Len(c) : ~Refuses(p, c, k)
          /\ r.system = FlattenSeq(Apart(p, c)) /\ r.contents = FlattenSeq(Among(p, c))
      BY <2>3, <2>5, RequestTyped
    <3>4. PICK apart, among : apart = Flat(r.system) /\ among = Flat(AllParts(r.contents))
      OBVIOUS
    <3>5. /\ apart = FlattenSeq([k \in DOMAIN c |-> IF SetApart(p, c, k) THEN Meant(c[k]) ELSE <<>>])
          /\ among = FlattenSeq([k \in DOMAIN c |-> IF SetApart(p, c, k) THEN <<>> ELSE Meant(c[k])])
      BY <2>3, <3>2, <3>3, <3>4, ConversationSaid
    <3>6. sent = apart \o among
      BY <2>5, <3>4
    <3>7. PICK kind, v : kind = sent[i].kind /\ v = sent[i].value /\ kind \in {"text", "call"}
      BY <2>5
    <3>8. /\ apart \in Seq(ItemType) /\ among \in Seq(ItemType)
          /\ Times(apart \o among, Item(kind, v)) <= Times(Tiktoken(c), v)
      BY <2>3, <3>2, <3>5, <3>7, ConversationTimes
    <3>9. sent[i] \in ItemType
      <4>1. sent \in Seq(ItemType)
        BY <3>6, <3>8
      <4>2. QED
        BY <2>5, <4>1
    <3>10. sent[i] = Item(kind, v)
      BY <3>7, <3>9 DEF Item, ItemType
    <3>11. QED
      BY <3>6, <3>7, <3>8, <3>10
  <2>6. QED
    BY <2>2, <2>4, <2>5 DEF EstimateAgrees
<1>2. QED
  BY <1>1, MessagesStart, MessagesStep, PTL DEF Spec
=============================================================================
