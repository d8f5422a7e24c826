--------------------------- MODULE DeliveryProofs ---------------------------
(***************************************************************************)
(* What becomes of a recorded event: EventStream for every set of calls,   *)
(* goroutines and closers and every buffer, EventHub for every set of      *)
(* calls, connections and filters and every channel; each against the      *)
(* promise of Feed.                                                        *)
(***************************************************************************)
EXTENDS EventStream, EventHub, TLAPS, FiniteSetTheorems, SequenceTheorems

(***************************************************************************)
(* What Recording gives both of them: of the emitters of one call only one *)
(* at a time is on its way to the event handler, the event it carries is   *)
(* the one it recorded, and the bounds leave room for every event.  A      *)
(* module says with `stages' where else than in "handler" its emitters may *)
(* be.                                                                     *)
(***************************************************************************)
RunBehind(e) == RunOf[CallBehind(e)]
Busy(e) == emit[e] # "idle"

(* An emitter is busy only when its call is there, and holds the mutex.    *)
Mutex ==
  /\ \A c \in Calls : Busy(c) <=> run[c] \in {"starting", "ending"}
  /\ \A g \in Goroutines : Busy(g) => run[CallOf[g]] = "node" /\ emitMu[CallOf[g]] = g

(* What a busy emitter carries is in the trace, at the place it names.     *)
Carried ==
  \A e \in Emitters :
    Busy(e) =>
      /\ event[e] \in Events
      /\ event[e].run = RunBehind(e) /\ event[e].from = e
      /\ event[e].sequence \in DOMAIN trace[RunBehind(e)]
      /\ trace[RunBehind(e)][event[e].sequence] = e

(* How often each emitter recorded.                                        *)
Turns(e) ==
  IF e \in Goroutines THEN emits[e]
  ELSE IF run[e] = "idle" THEN 0 ELSE IF run[e] \in {"starting", "node"} THEN 1 ELSE 2
Mine(s, e) == {i \in DOMAIN s : s[i] = e}
Tallied ==
  /\ \A e \in Emitters : Cardinality(Mine(trace[RunBehind(e)], e)) = Turns(e)
  /\ \A r \in RunIDs : \A i \in DOMAIN trace[r] : RunBehind(trace[r][i]) = r

RInv(stages) ==
  /\ RecordingTypeOK(stages) /\ Mutex /\ Carried /\ Tallied
  /\ IsFiniteSet(Recorded)

-----------------------------------------------------------------------------
LEMMA EmitterKinds ==
  ASSUME NEW e \in Emitters
  PROVE  /\ e \in Calls \/ e \in Goroutines
         /\ e \in Calls => e \notin Goroutines /\ CallBehind(e) = e
         /\ e \in Goroutines => CallBehind(e) = CallOf[e]
         /\ CallBehind(e) \in Calls /\ RunBehind(e) \in RunIDs
         /\ e # None
  BY RecordingAssumption DEF RecordingAssumption, Emitters, CallBehind, RunBehind

(* Two emitters of one call are never busy at once.                        *)
LEMMA Solo ==
  ASSUME Mutex, NEW e \in Emitters, NEW f \in Emitters, Busy(e), Busy(f),
         CallBehind(e) = CallBehind(f)
  PROVE  e = f
  BY EmitterKinds DEF Mutex

(* A sequence in which calls are at most twice and goroutines at most      *)
(* MaxEmits times is no longer than Most.                                  *)
LEMMA Fits ==
  ASSUME NEW s \in Seq(Emitters),
         \A c \in Calls : Cardinality(Mine(s, c)) <= 2,
         \A g \in Goroutines : Cardinality(Mine(s, g)) <= MaxEmits
  PROVE  Len(s) <= Most
<1> DEFINE S == DOMAIN s
           T == (Calls \X (1 .. 2)) \cup (Goroutines \X (1 .. MaxEmits))
           upTo(i) == {j \in 1 .. i : s[j] = s[i]}
<1>1. /\ Len(s) \in Nat /\ S = 1 .. Len(s) /\ IsFiniteSet(S) /\ Cardinality(S) = Len(s)
      /\ MaxEmits \in Nat
  <2>1. Len(s) \in Nat /\ S = 1 .. Len(s)
    OBVIOUS
  <2>2. \A n \in Nat : IsFiniteSet(1 .. n) /\ Cardinality(1 .. n) = n
    <3> SUFFICES ASSUME NEW n \in Nat PROVE IsFiniteSet(1 .. n) /\ Cardinality(1 .. n) = n
      OBVIOUS
    <3> QED
      BY FS_Interval
  <2> QED
    BY <2>1, <2>2, RecordingAssumption DEF RecordingAssumption
<1>2. /\ IsFiniteSet(Calls) /\ IsFiniteSet(Goroutines)
      /\ Cardinality(Calls) \in Nat /\ Cardinality(Goroutines) \in Nat
  BY FS_CardinalityType, RecordingAssumption DEF RecordingAssumption
<1>3. IsFiniteSet(T) /\ Cardinality(T) \in Nat /\ Cardinality(T) <= Most
  <2> DEFINE A == Calls \X (1 .. 2)
             B == Goroutines \X (1 .. MaxEmits)
  <2>1. /\ IsFiniteSet(1 .. 2) /\ Cardinality(1 .. 2) = 2
        /\ IsFiniteSet(1 .. MaxEmits) /\ Cardinality(1 .. MaxEmits) = MaxEmits
    <3>1. IsFiniteSet(1 .. 2) /\ Cardinality(1 .. 2) = 2
      <4>1. 1 \in Int /\ 2 \in Int /\ ~(1 > 2)
        OBVIOUS
      <4>2. Cardinality(1 .. 2) = 2 - 1 + 1 /\ IsFiniteSet(1 .. 2)
        BY <4>1, FS_Interval
      <4> QED
        BY <4>2
    <3>2. IsFiniteSet(1 .. MaxEmits) /\ Cardinality(1 .. MaxEmits) = MaxEmits
      <4>1. 1 \in Int /\ MaxEmits \in Int
        BY <1>1
      <4>2. /\ IsFiniteSet(1 .. MaxEmits)
            /\ Cardinality(1 .. MaxEmits) = IF 1 > MaxEmits THEN 0 ELSE MaxEmits - 1 + 1
        BY <4>1, FS_Interval, Zenon
      <4> QED
        BY <1>1, <4>2
    <3> QED
      BY <3>1, <3>2
  <2>2. IsFiniteSet(A) /\ Cardinality(A) = Cardinality(Calls) * 2
    BY <1>2, <2>1, FS_Product
  <2>3. IsFiniteSet(B) /\ Cardinality(B) = Cardinality(Goroutines) * MaxEmits
    BY <1>2, <2>1, FS_Product
  <2> HIDE DEF A, B
  <2>4. /\ IsFiniteSet(A \cup B)
        /\ Cardinality(A \cup B) = Cardinality(A) + Cardinality(B) - Cardinality(A \cap B)
    BY <2>2, <2>3, FS_Union
  <2>5. Cardinality(A \cap B) \in Nat /\ Cardinality(A \cup B) \in Nat
    <3>1. IsFiniteSet(A \cap B)
      BY <2>2, FS_Intersection
    <3> QED
      BY <2>4, <3>1, FS_CardinalityType
  <2>6. Cardinality(A) \in Nat /\ Cardinality(B) \in Nat
    BY <2>2, <2>3, FS_CardinalityType
  <2>7. Cardinality(A \cup B) <= Cardinality(A) + Cardinality(B)
    BY <2>4, <2>5, <2>6
  <2>8. Cardinality(A) + Cardinality(B) = Most
    BY <1>1, <1>2, <2>2, <2>3 DEF Most
  <2> QED
    BY <2>4, <2>5, <2>7, <2>8 DEF A, B
<1>4. ASSUME NEW i \in S
      PROVE  /\ IsFiniteSet(upTo(i)) /\ i \in upTo(i) /\ <<s[i], Cardinality(upTo(i))>> \in T
  <2>1. s[i] \in Emitters /\ i \in 1 .. i
    BY <1>1
  <2>2. upTo(i) \subseteq Mine(s, s[i]) /\ Mine(s, s[i]) \subseteq S
    BY <1>1 DEF Mine
  <2>3. IsFiniteSet(Mine(s, s[i]))
    BY <1>1, <2>2, FS_Subset
  <2>4. IsFiniteSet(upTo(i)) /\ Cardinality(upTo(i)) <= Cardinality(Mine(s, s[i]))
    BY <2>2, <2>3, FS_Subset
  <2>5. i \in upTo(i)
    BY <2>1
  <2> HIDE DEF upTo
  <2>6. Cardinality(upTo(i)) \in Nat /\ Cardinality(upTo(i)) # 0 /\ Cardinality(Mine(s, s[i])) \in Nat
    BY <2>3, <2>4, <2>5, FS_EmptySet, FS_CardinalityType
  <2>7. CASE s[i] \in Calls
    <3>1. Cardinality(upTo(i)) \in 1 .. 2
      BY <2>4, <2>6, <2>7
    <3> QED
      BY <2>4, <2>5, <2>7, <3>1
  <2>8. CASE s[i] \in Goroutines
    <3>1. Cardinality(upTo(i)) \in 1 .. MaxEmits
      BY <1>1, <2>4, <2>6, <2>8
    <3> QED
      BY <2>4, <2>5, <2>8, <3>1
  <2> QED
    BY <2>1, <2>7, <2>8 DEF Emitters
<1>5. ASSUME NEW i \in S, NEW j \in S, i < j, s[i] = s[j]
      PROVE  Cardinality(upTo(i)) # Cardinality(upTo(j))
  <2>1. upTo(i) \subseteq upTo(j) /\ j \in upTo(j) /\ j \notin upTo(i)
    BY <1>1, <1>5
  <2> HIDE DEF upTo
  <2> QED
    BY <1>4, <2>1, FS_Subset
<1> DEFINE f == [i \in S |-> <<s[i], Cardinality(upTo(i))>>]
<1>6. f \in [S -> T]
  BY <1>4
<1>7. ASSUME NEW i \in S, NEW j \in S, i # j PROVE f[i] # f[j]
  <2> HIDE DEF upTo
  <2>1. CASE s[i] = s[j]
    <3>1. i < j \/ j < i
      BY <1>1, <1>7
    <3> QED
      BY <1>5, <2>1, <3>1
  <2> QED
    BY <2>1
<1> HIDE DEF f, S, T
<1>8. ~(Cardinality(T) < Cardinality(S))
  BY <1>1, <1>3, <1>6, <1>7, FS_PigeonHole
<1>9. Cardinality(Calls) * 2 \in Nat /\ MaxEmits * Cardinality(Goroutines) \in Nat
  BY <1>1, <1>2
<1>10. Most \in Nat
  BY <1>2, <1>9 DEF Most
<1> QED
  BY <1>1, <1>3, <1>8, <1>10

-----------------------------------------------------------------------------
(* Taking what is first in the channel changes nothing of what is seen.    *)
LEMMA TakeSees ==
  ASSUME NEW S, NEW s \in Seq(S), NEW t \in Seq(S), t # <<>>
  PROVE  Append(s, Head(t)) \o Tail(t) = s \o t
<1>1. /\ Head(t) \in S /\ Tail(t) \in Seq(S) /\ Append(s, Head(t)) \in Seq(S)
      /\ Len(t) \in Nat /\ Len(t) >= 1 /\ Len(s) \in Nat
      /\ Len(Tail(t)) = Len(t) - 1 /\ Len(Append(s, Head(t))) = Len(s) + 1
  OBVIOUS
<1> DEFINE u == Append(s, Head(t)) \o Tail(t)
           v == s \o t
<1>2. u \in Seq(S) /\ v \in Seq(S) /\ Len(u) = Len(s) + Len(t) /\ Len(v) = Len(s) + Len(t)
  BY <1>1
<1>3. ASSUME NEW i \in 1 .. Len(s) + Len(t) PROVE u[i] = v[i]
  <2>1. CASE i <= Len(s)
    BY <1>1, <2>1
  <2>2. CASE i = Len(s) + 1
    BY <1>1, <2>2
  <2>3. CASE i > Len(s) + 1
    BY <1>1, <2>3
  <2> QED
    BY <1>1, <2>1, <2>2, <2>3
<1> HIDE DEF u, v
<1>4. u = v
  BY <1>2, <1>3, SeqEqual
<1> QED
  BY <1>4 DEF u, v

(* An event put in the channel is seen last.                               *)
LEMMA PutSees ==
  ASSUME NEW S, NEW s \in Seq(S), NEW t \in Seq(S), NEW x \in S
  PROVE  s \o Append(t, x) = Append(s \o t, x)
<1> DEFINE u == s \o Append(t, x)
           v == Append(s \o t, x)
<1>1. /\ Append(t, x) \in Seq(S) /\ Len(Append(t, x)) = Len(t) + 1 /\ s \o t \in Seq(S)
      /\ Len(s \o t) = Len(s) + Len(t) /\ Len(s) \in Nat /\ Len(t) \in Nat
  OBVIOUS
<1>2. u \in Seq(S) /\ v \in Seq(S) /\ Len(u) = Len(s) + Len(t) + 1 /\ Len(v) = Len(s) + Len(t) + 1
  BY <1>1
<1>3. ASSUME NEW i \in 1 .. Len(s) + Len(t) + 1 PROVE u[i] = v[i]
  <2>1. CASE i <= Len(s)
    BY <1>1, <2>1
  <2>2. CASE i > Len(s) /\ i <= Len(s) + Len(t)
    BY <1>1, <2>2
  <2>3. CASE i = Len(s) + Len(t) + 1
    BY <1>1, <2>3
  <2> QED
    BY <1>1, <2>1, <2>2, <2>3
<1> HIDE DEF u, v
<1>4. u = v
  BY <1>2, <1>3, SeqEqual
<1> QED
  BY <1>4 DEF u, v

LEMMA AppendLast ==
  ASSUME NEW S, NEW s \in Seq(S), NEW x \in S
  PROVE  /\ Append(s, x) \in Seq(S) /\ Len(Append(s, x)) = Len(s) + 1
         /\ \A i \in DOMAIN Append(s, x) :
              \/ i \in DOMAIN s /\ Append(s, x)[i] = s[i]
              \/ /\ i \notin DOMAIN s /\ Append(s, x)[i] = x
                 /\ \A j \in DOMAIN Append(s, x) \ {i} : j < i
<1>1. /\ Append(s, x) \in Seq(S) /\ Len(Append(s, x)) = Len(s) + 1 /\ Len(s) \in Nat
      /\ DOMAIN Append(s, x) = 1 .. Len(s) + 1 /\ DOMAIN s = 1 .. Len(s)
      /\ Append(s, x)[Len(s) + 1] = x /\ \A i \in 1 .. Len(s) : Append(s, x)[i] = s[i]
  OBVIOUS
<1> QED
  BY <1>1

LEMMA EmittersFinite == IsFiniteSet(Emitters)
  BY FS_Union, RecordingAssumption DEF RecordingAssumption, Emitters

-----------------------------------------------------------------------------
(* One more event in a trace: the place of the emitter's event, and what   *)
(* stays as it is.                                                         *)
Grown(e) ==
  LET r == RunBehind(e)
      n == Len(trace[r]) + 1
  IN /\ trace' \in [RunIDs -> Seq(Emitters)]
     /\ Len(trace'[r]) = n /\ DOMAIN trace'[r] = 1 .. n /\ trace'[r][n] = e
     /\ \A i \in DOMAIN trace[r] : i \in DOMAIN trace'[r] /\ trace'[r][i] = trace[r][i]
     /\ \A q \in RunIDs \ {r} : trace'[q] = trace[q]
     /\ n \in 1 .. Most
     /\ <<r, n>> \notin Recorded
     /\ Recorded' = Recorded \cup {<<r, n>>}
     /\ emit' = [emit EXCEPT ![e] = "handler"]
     /\ event' = [event EXCEPT ![e] = [run |-> r, sequence |-> n, from |-> e]]

LEMMA TraceGrows ==
  ASSUME trace \in [RunIDs -> Seq(Emitters)], NEW e \in Emitters, Record(e)
  PROVE  LET r == RunBehind(e)
             n == Len(trace[r]) + 1
         IN /\ trace' \in [RunIDs -> Seq(Emitters)]
            /\ n \in Nat /\ DOMAIN trace[r] = 1 .. n - 1
            /\ Len(trace'[r]) = n /\ DOMAIN trace'[r] = 1 .. n /\ trace'[r][n] = e
            /\ \A i \in DOMAIN trace[r] : i \in DOMAIN trace'[r] /\ trace'[r][i] = trace[r][i]
            /\ \A q \in RunIDs \ {r} : trace'[q] = trace[q]
            /\ emit' = [emit EXCEPT ![e] = "handler"]
            /\ event' = [event EXCEPT ![e] = [run |-> r, sequence |-> n, from |-> e]]
<1> DEFINE r == RunBehind(e)
           s == trace[r]
           t == Append(s, e)
<1>1. r \in RunIDs /\ s \in Seq(Emitters)
  BY EmitterKinds
<1>2. trace' = [trace EXCEPT ![r] = t]
  BY DEF Record, RunBehind
<1>3. /\ emit' = [emit EXCEPT ![e] = "handler"]
      /\ event' = [event EXCEPT ![e] = [run |-> r, sequence |-> Len(s) + 1, from |-> e]]
  BY DEF Record, RunBehind
<1> HIDE DEF s, r
<1>4. /\ t \in Seq(Emitters) /\ Len(s) + 1 \in Nat /\ DOMAIN s = 1 .. (Len(s) + 1) - 1
      /\ Len(t) = Len(s) + 1 /\ DOMAIN t = 1 .. Len(s) + 1 /\ t[Len(s) + 1] = e
      /\ \A i \in DOMAIN s : i \in DOMAIN t /\ t[i] = s[i]
  BY <1>1
<1> HIDE DEF t
<1>5. /\ trace' \in [RunIDs -> Seq(Emitters)] /\ trace'[r] = t
      /\ \A q \in RunIDs \ {r} : trace'[q] = trace[q]
  BY <1>1, <1>2, <1>4
<1> QED
  BY <1>3, <1>4, <1>5 DEF s, r

(* The tally of an emitter after one more event.                           *)
LEMMA MineGrows ==
  ASSUME trace \in [RunIDs -> Seq(Emitters)], NEW e \in Emitters, Record(e), NEW f \in Emitters
  PROVE  Cardinality(Mine(trace'[RunBehind(f)], f)) =
           Cardinality(Mine(trace[RunBehind(f)], f)) + (IF f = e THEN 1 ELSE 0)
<1> DEFINE r == RunBehind(e)
           n == Len(trace[r]) + 1
           q == RunBehind(f)
           old == Mine(trace[q], f)
           new == Mine(trace'[q], f)
<1>1. q \in RunIDs /\ r \in RunIDs
  BY EmitterKinds
<1>2. IsFiniteSet(old) /\ Cardinality(old) \in Nat
  <2>1. Len(trace[q]) \in Nat /\ DOMAIN trace[q] = 1 .. Len(trace[q])
    BY <1>1
  <2>2. IsFiniteSet(DOMAIN trace[q])
    BY <2>1, FS_Interval
  <2>3. old \subseteq DOMAIN trace[q]
    BY DEF Mine
  <2> QED
    BY <2>2, <2>3, FS_Subset, FS_CardinalityType
<1>3. CASE f = e
  <2>1. new = old \cup {n} /\ n \notin old
    BY <1>3, TraceGrows DEF Mine
  <2>2. Cardinality(old \cup {n}) = Cardinality(old) + 1
    BY <1>2, <2>1, FS_AddElement
  <2> QED
    BY <1>3, <2>1, <2>2
<1>4. CASE f # e
  <2>1. new = old
    <3>1. CASE q = r
      BY <1>4, <3>1, TraceGrows DEF Mine
    <3>2. CASE q # r
      <4>1. trace'[q] = trace[q]
        BY <1>1, <3>2, TraceGrows
      <4> QED
        BY <4>1
    <3> QED
      BY <3>1, <3>2
  <2> QED
    BY <1>2, <1>4, <2>1
<1> QED
  BY <1>3, <1>4

(* One event is recorded: the invariant from what the step does besides.   *)
LEMMA RecordKeeps ==
  ASSUME NEW stages, RInv(stages), NEW e \in Emitters, ~Busy(e), Record(e),
         run' \in [Calls -> {"idle", "starting", "node", "ending", "returned"}],
         emits' \in [Goroutines -> 0 .. MaxEmits],
         emitMu' \in [Calls -> Goroutines \cup {None}],
         \A f \in Emitters : Turns(f)' = Turns(f) + (IF f = e THEN 1 ELSE 0),
         Mutex'
  PROVE  RInv(stages)' /\ Grown(e)
<1> DEFINE r == RunBehind(e)
           n == Len(trace[r]) + 1
           new == [run |-> r, sequence |-> n, from |-> e]
<1>1. /\ trace \in [RunIDs -> Seq(Emitters)] /\ emit \in [Emitters -> {"idle", "handler"} \cup stages]
      /\ event \in [Emitters -> Events \cup {None}] /\ IsFiniteSet(Recorded) /\ MaxEmits \in Nat
  BY RecordingAssumption DEF RecordingAssumption, RInv, RecordingTypeOK
<1>2. /\ trace' \in [RunIDs -> Seq(Emitters)]
      /\ n \in Nat /\ DOMAIN trace[r] = 1 .. n - 1
      /\ Len(trace'[r]) = n /\ DOMAIN trace'[r] = 1 .. n /\ trace'[r][n] = e
      /\ \A i \in DOMAIN trace[r] : i \in DOMAIN trace'[r] /\ trace'[r][i] = trace[r][i]
      /\ \A q \in RunIDs \ {r} : trace'[q] = trace[q]
      /\ emit' = [emit EXCEPT ![e] = "handler"]
      /\ event' = [event EXCEPT ![e] = new]
  BY <1>1, TraceGrows
<1>3. r \in RunIDs
  BY EmitterKinds
<1>4. Tallied'
  <2>1. ASSUME NEW f \in Emitters PROVE Cardinality(Mine(trace'[RunBehind(f)], f)) = Turns(f)'
    BY <1>1, MineGrows DEF RInv, Tallied
  <2>2. ASSUME NEW q \in RunIDs, NEW i \in DOMAIN trace'[q] PROVE RunBehind(trace'[q][i]) = q
    <3>1. CASE q = r
      <4>1. i = n \/ i \in DOMAIN trace[r]
        BY <1>2, <2>2, <3>1
      <4> QED
        BY <1>2, <1>3, <3>1, <4>1 DEF RInv, Tallied
    <3>2. CASE q # r
      <4>1. trace'[q] = trace[q]
        BY <1>2, <3>2
      <4> QED
        BY <2>2, <4>1 DEF RInv, Tallied
    <3> QED
      BY <3>1, <3>2
  <2> QED
    BY <2>1, <2>2 DEF Tallied
<1>5. n \in 1 .. Most
  <2>1. \A f \in Emitters : Cardinality(Mine(trace'[r], f)) <= IF f \in Goroutines THEN MaxEmits ELSE 2
    <3> SUFFICES ASSUME NEW f \in Emitters
                 PROVE  Cardinality(Mine(trace'[r], f)) <= IF f \in Goroutines THEN MaxEmits ELSE 2
      OBVIOUS
    <3>1. Turns(f)' <= IF f \in Goroutines THEN MaxEmits ELSE 2
      BY <1>1 DEF Turns
    <3>2. CASE RunBehind(f) = r
      BY <1>4, <3>1, <3>2 DEF Tallied
    <3>3. CASE RunBehind(f) # r
      <4>1. Mine(trace'[r], f) = {}
        BY <1>3, <1>4, <3>3 DEF Tallied, Mine
      <4> QED
        BY <1>1, <4>1, FS_EmptySet
    <3> QED
      BY <3>2, <3>3
  <2>2. \A c \in Calls : Cardinality(Mine(trace'[r], c)) <= 2
    BY <2>1, EmitterKinds DEF Emitters
  <2>3. \A g \in Goroutines : Cardinality(Mine(trace'[r], g)) <= MaxEmits
    BY <2>1 DEF Emitters
  <2>4. trace'[r] \in Seq(Emitters)
    BY <1>2, <1>3
  <2>5. Len(trace'[r]) <= Most
    BY <2>2, <2>3, <2>4, Fits
  <2>6. Len(trace[r]) \in Nat
    BY <1>1, <1>3
  <2>7. Most \in Int
    <3>1. Cardinality(Calls) \in Nat /\ Cardinality(Goroutines) \in Nat
      BY FS_CardinalityType, RecordingAssumption DEF RecordingAssumption
    <3> QED
      BY <1>1, <3>1 DEF Most
  <2> QED
    BY <1>2, <2>5, <2>6, <2>7
<1>6. Recorded' = Recorded \cup {<<r, n>>} /\ <<r, n>> \notin Recorded
  <2>1. Len(trace[r]) = n - 1
    BY <1>1, <1>3
  <2>2. \A p \in RunIDs \X (1 .. Most) : p \in Recorded' <=> p \in Recorded \/ p = <<r, n>>
    <3> SUFFICES ASSUME NEW q \in RunIDs, NEW i \in 1 .. Most
                 PROVE  i <= Len(trace'[q]) <=> i <= Len(trace[q]) \/ (q = r /\ i = n)
      BY DEF Recorded
    <3>1. CASE q = r
      BY <1>2, <1>5, <2>1, <3>1
    <3>2. CASE q # r
      BY <1>2, <3>2
    <3> QED
      BY <3>1, <3>2
  <2>3. <<r, n>> \in RunIDs \X (1 .. Most)
    BY <1>3, <1>5
  <2>4. Recorded' \subseteq RunIDs \X (1 .. Most) /\ Recorded \subseteq RunIDs \X (1 .. Most)
    BY DEF Recorded
  <2>5. <<r, n>> \notin Recorded
    BY <1>2, <2>1 DEF Recorded
  <2> QED
    BY <2>2, <2>3, <2>4, <2>5
<1>7. IsFiniteSet(Recorded')
  BY <1>1, <1>6, FS_AddElement
<1>8. new \in Events /\ new.run = r /\ new.sequence = n /\ new.from = e
  BY <1>3, <1>5 DEF Events
<1> HIDE DEF new
<1>9. RecordingTypeOK(stages)'
  BY <1>1, <1>2, <1>8 DEF RecordingTypeOK
<1>10. Carried'
  <2> SUFFICES ASSUME NEW f \in Emitters, Busy(f)'
               PROVE  /\ event'[f] \in Events
                      /\ event'[f].run = RunBehind(f) /\ event'[f].from = f
                      /\ event'[f].sequence \in DOMAIN trace'[RunBehind(f)]
                      /\ trace'[RunBehind(f)][event'[f].sequence] = f
    BY DEF Carried
  <2>1. CASE f = e
    BY <1>1, <1>2, <1>8, <2>1
  <2>2. CASE f # e
    <3>1. event'[f] = event[f] /\ Busy(f)
      BY <1>1, <1>2, <2>2 DEF Busy
    <3>2. RunBehind(f) \in RunIDs
      BY EmitterKinds
    <3>3. /\ event[f] \in Events /\ event[f].run = RunBehind(f) /\ event[f].from = f
          /\ event[f].sequence \in DOMAIN trace[RunBehind(f)]
          /\ trace[RunBehind(f)][event[f].sequence] = f
      BY <3>1 DEF RInv, Carried
    <3>4. CASE RunBehind(f) = r
      BY <1>2, <3>1, <3>3, <3>4
    <3>5. CASE RunBehind(f) # r
      <4>1. trace'[RunBehind(f)] = trace[RunBehind(f)]
        BY <1>2, <3>2, <3>5
      <4> QED
        BY <3>1, <3>3, <4>1
    <3> QED
      BY <3>4, <3>5
  <2> QED
    BY <2>1, <2>2
<1>11. RInv(stages)'
  BY <1>4, <1>7, <1>9, <1>10 DEF RInv
<1>12. Grown(e)
  BY <1>2, <1>5, <1>6 DEF Grown, new
<1> QED
  BY <1>11, <1>12

-----------------------------------------------------------------------------
(* The steps of Recording, and those of a module that takes an emitter     *)
(* from the handler to Handled.                                            *)
LEMMA RecordingStarts ==
  ASSUME NEW stages, RecordingInit
  PROVE  RInv(stages) /\ Recorded = {}
<1>1. /\ run = [c \in Calls |-> "idle"] /\ emit = [e \in Emitters |-> "idle"]
      /\ event = [e \in Emitters |-> None] /\ emits = [g \in Goroutines |-> 0]
      /\ emitMu = [c \in Calls |-> None] /\ trace = [r \in RunIDs |-> <<>>]
  BY DEF RecordingInit
<1>2. MaxEmits \in Nat
  BY RecordingAssumption DEF RecordingAssumption
<1>3. RecordingTypeOK(stages)
  BY <1>1, <1>2 DEF RecordingTypeOK
<1>4. Mutex /\ Carried
  BY <1>1 DEF Mutex, Carried, Busy, Emitters
<1>5. Tallied
  <2>1. ASSUME NEW e \in Emitters PROVE Cardinality(Mine(trace[RunBehind(e)], e)) = Turns(e)
    <3>1. RunBehind(e) \in RunIDs
      BY EmitterKinds
    <3>2. Mine(trace[RunBehind(e)], e) = {}
      BY <1>1, <3>1 DEF Mine
    <3>3. Turns(e) = 0
      BY <1>1, EmitterKinds DEF Turns
    <3> QED
      BY <3>2, <3>3, FS_EmptySet
  <2> QED
    BY <1>1, <2>1 DEF Tallied
<1>6. Recorded = {}
  BY <1>1 DEF Recorded
<1> QED
  BY <1>3, <1>4, <1>5, <1>6, FS_EmptySet DEF RInv

(* A call begins.                                                          *)
LEMMA BeginKeeps ==
  ASSUME NEW stages, RInv(stages), NEW c \in Calls, Begin(c)
  PROVE  /\ RInv(stages)' /\ Grown(c) /\ ~Busy(c)
<1>1. /\ run \in [Calls -> {"idle", "starting", "node", "ending", "returned"}]
      /\ emit \in [Emitters -> {"idle", "handler"} \cup stages]
      /\ emits \in [Goroutines -> 0 .. MaxEmits] /\ emitMu \in [Calls -> Goroutines \cup {None}]
      /\ Mutex
  BY DEF RInv, RecordingTypeOK
<1>2. /\ run[c] = "idle" /\ run' = [run EXCEPT ![c] = "starting"] /\ Record(c)
      /\ UNCHANGED <<emits, emitMu>> /\ emit' = [emit EXCEPT ![c] = "handler"]
  BY DEF Begin, Record
<1>3. c \in Emitters /\ c \notin Goroutines /\ ~Busy(c)
  BY <1>1, <1>2, RecordingAssumption DEF RecordingAssumption, Emitters, Mutex
<1>4. \A f \in Emitters : Turns(f)' = Turns(f) + (IF f = c THEN 1 ELSE 0)
  BY <1>1, <1>2, <1>3, EmitterKinds DEF Turns
<1>5. ASSUME NEW d \in Calls PROVE Busy(d)' <=> run'[d] \in {"starting", "ending"}
  BY <1>1, <1>2 DEF Mutex, Busy, Emitters
<1>6. ASSUME NEW g \in Goroutines, Busy(g)'
      PROVE  run'[CallOf[g]] = "node" /\ emitMu'[CallOf[g]] = g
  <2>1. Busy(g) /\ g \in Emitters
    BY <1>1, <1>2, <1>3, <1>6 DEF Busy, Emitters
  <2>2. CallOf[g] \in Calls
    BY RecordingAssumption DEF RecordingAssumption
  <2> QED
    BY <1>1, <1>2, <2>1, <2>2 DEF Mutex
<1>7. Mutex'
  BY <1>5, <1>6 DEF Mutex
<1>8. /\ run' \in [Calls -> {"idle", "starting", "node", "ending", "returned"}]
      /\ emits' \in [Goroutines -> 0 .. MaxEmits]
      /\ emitMu' \in [Calls -> Goroutines \cup {None}]
  BY <1>1, <1>2
<1> QED
  BY <1>2, <1>3, <1>4, <1>7, <1>8, RecordKeeps

(* A goroutine emits: nobody of its call is busy.                          *)
LEMMA EmitKeeps ==
  ASSUME NEW stages, RInv(stages), NEW g \in Goroutines, Emit(g)
  PROVE  /\ RInv(stages)' /\ Grown(g) /\ ~Busy(g)
         /\ \A f \in Emitters : CallBehind(f) = CallBehind(g) => ~Busy(f)
<1>1. /\ run \in [Calls -> {"idle", "starting", "node", "ending", "returned"}]
      /\ emit \in [Emitters -> {"idle", "handler"} \cup stages]
      /\ emits \in [Goroutines -> 0 .. MaxEmits] /\ emitMu \in [Calls -> Goroutines \cup {None}]
      /\ Mutex /\ MaxEmits \in Nat /\ CallOf \in [Goroutines -> Calls] /\ None \notin Emitters
  BY RecordingAssumption DEF RecordingAssumption, RInv, RecordingTypeOK
<1>2. /\ run[CallOf[g]] = "node" /\ ~Busy(g) /\ emits[g] < MaxEmits /\ emitMu[CallOf[g]] = None
      /\ emitMu' = [emitMu EXCEPT ![CallOf[g]] = g] /\ emits' = [emits EXCEPT ![g] = @ + 1]
      /\ Record(g) /\ UNCHANGED run /\ emit' = [emit EXCEPT ![g] = "handler"]
  BY DEF Emit, Record, Free, Busy
<1>3. g \in Emitters /\ g \notin Calls
  BY RecordingAssumption DEF RecordingAssumption, Emitters
<1>4. \A f \in Emitters : CallBehind(f) = CallBehind(g) => ~Busy(f)
  BY <1>1, <1>2, <1>3, EmitterKinds DEF Mutex
<1>5. \A f \in Emitters : Turns(f)' = Turns(f) + (IF f = g THEN 1 ELSE 0)
  BY <1>1, <1>2, <1>3, EmitterKinds DEF Turns
<1>6. Mutex'
  <2>1. ASSUME NEW d \in Calls PROVE Busy(d)' <=> run'[d] \in {"starting", "ending"}
    BY <1>1, <1>2, <1>3 DEF Mutex, Busy, Emitters
  <2>2. ASSUME NEW h \in Goroutines, Busy(h)'
        PROVE  run'[CallOf[h]] = "node" /\ emitMu'[CallOf[h]] = h
    <3>1. CASE h = g
      BY <1>1, <1>2, <3>1
    <3>2. CASE h # g
      <4>1. Busy(h) /\ h \in Emitters
        BY <1>1, <1>2, <1>3, <2>2, <3>2 DEF Busy, Emitters
      <4>2. CallOf[h] # CallOf[g]
        BY <1>4, <1>3, <4>1, EmitterKinds
      <4> QED
        BY <1>1, <1>2, <4>1, <4>2 DEF Mutex
    <3> QED
      BY <3>1, <3>2
  <2> QED
    BY <2>1, <2>2 DEF Mutex
<1>7. /\ run' \in [Calls -> {"idle", "starting", "node", "ending", "returned"}]
      /\ emits' \in [Goroutines -> 0 .. MaxEmits]
      /\ emitMu' \in [Calls -> Goroutines \cup {None}]
  BY <1>1, <1>2
<1> QED
  BY <1>2, <1>3, <1>4, <1>5, <1>6, <1>7, RecordKeeps

(* A node returns, and the run loop records what follows.                  *)
LEMMA NodeReturnKeeps ==
  ASSUME NEW stages, RInv(stages), NEW c \in Calls, NodeReturn(c)
  PROVE  /\ RInv(stages)' /\ Grown(c) /\ ~Busy(c)
         /\ \A f \in Emitters : CallBehind(f) = CallBehind(c) => ~Busy(f)
<1>1. /\ run \in [Calls -> {"idle", "starting", "node", "ending", "returned"}]
      /\ emit \in [Emitters -> {"idle", "handler"} \cup stages]
      /\ emits \in [Goroutines -> 0 .. MaxEmits] /\ emitMu \in [Calls -> Goroutines \cup {None}]
      /\ Mutex /\ CallOf \in [Goroutines -> Calls]
  BY RecordingAssumption DEF RecordingAssumption, RInv, RecordingTypeOK
<1>2. /\ run[c] = "node" /\ run' = [run EXCEPT ![c] = "ending"] /\ Record(c)
      /\ \A g \in Goroutines : CallOf[g] = c => ~Busy(g)
      /\ UNCHANGED <<emits, emitMu>> /\ emit' = [emit EXCEPT ![c] = "handler"]
  BY DEF NodeReturn, Record, Team, Busy
<1>3. c \in Emitters /\ c \notin Goroutines /\ ~Busy(c)
  BY <1>1, <1>2, RecordingAssumption DEF RecordingAssumption, Emitters, Mutex
<1>4. \A f \in Emitters : CallBehind(f) = CallBehind(c) => ~Busy(f)
  BY <1>2, <1>3, EmitterKinds
<1>5. \A f \in Emitters : Turns(f)' = Turns(f) + (IF f = c THEN 1 ELSE 0)
  BY <1>1, <1>2, <1>3, EmitterKinds DEF Turns
<1>6. Mutex'
  <2>1. ASSUME NEW d \in Calls PROVE Busy(d)' <=> run'[d] \in {"starting", "ending"}
    BY <1>1, <1>2 DEF Mutex, Busy, Emitters
  <2>2. ASSUME NEW g \in Goroutines, Busy(g)'
        PROVE  run'[CallOf[g]] = "node" /\ emitMu'[CallOf[g]] = g
    <3>1. Busy(g) /\ g \in Emitters
      BY <1>1, <1>2, <1>3, <2>2 DEF Busy, Emitters
    <3>2. CallOf[g] # c
      BY <1>2, <3>1
    <3> QED
      BY <1>1, <1>2, <3>1, <3>2 DEF Mutex
  <2> QED
    BY <2>1, <2>2 DEF Mutex
<1>7. /\ run' \in [Calls -> {"idle", "starting", "node", "ending", "returned"}]
      /\ emits' \in [Goroutines -> 0 .. MaxEmits]
      /\ emitMu' \in [Calls -> Goroutines \cup {None}]
  BY <1>1, <1>2
<1> QED
  BY <1>2, <1>3, <1>4, <1>5, <1>6, <1>7, RecordKeeps

(* The handler has returned to an emitter.                                 *)
LEMMA HandledKeeps ==
  ASSUME NEW stages, RInv(stages), NEW e \in Emitters, Busy(e), Handled(e)
  PROVE  /\ RInv(stages)' /\ Recorded' = Recorded /\ UNCHANGED trace
         /\ \A f \in Emitters \ {e} : emit'[f] = emit[f] /\ event'[f] = event[f]
         /\ emit'[e] = "idle"
<1>1. /\ RecordingTypeOK(stages) /\ Mutex /\ CallOf \in [Goroutines -> Calls]
      /\ run \in [Calls -> {"idle", "starting", "node", "ending", "returned"}]
      /\ emit \in [Emitters -> {"idle", "handler"} \cup stages]
      /\ event \in [Emitters -> Events \cup {None}]
      /\ emitMu \in [Calls -> Goroutines \cup {None}]
  BY RecordingAssumption DEF RecordingAssumption, RInv, RecordingTypeOK
<1>2. /\ emit' = [emit EXCEPT ![e] = "idle"] /\ event' = [event EXCEPT ![e] = None]
      /\ UNCHANGED <<emits, trace>>
      /\ e \in Goroutines => emitMu' = [emitMu EXCEPT ![CallOf[e]] = None] /\ UNCHANGED run
      /\ e \notin Goroutines =>
           /\ run' = [run EXCEPT ![e] = IF @ = "starting" THEN "node" ELSE "returned"]
           /\ UNCHANGED emitMu
  BY DEF Handled
<1>3. \A f \in Emitters \ {e} : emit'[f] = emit[f] /\ event'[f] = event[f] /\ (Busy(f)' <=> Busy(f))
  BY <1>1, <1>2 DEF Busy
<1>4. emit'[e] = "idle" /\ ~Busy(e)'
  BY <1>1, <1>2 DEF Busy
<1>5. RecordingTypeOK(stages)'
  <2>1. emit' \in [Emitters -> {"idle", "handler"} \cup stages]
    BY <1>1, <1>2
  <2>2. event' \in [Emitters -> Events \cup {None}]
    BY <1>1, <1>2
  <2>3. /\ run' \in [Calls -> {"idle", "starting", "node", "ending", "returned"}]
        /\ emitMu' \in [Calls -> Goroutines \cup {None}]
    BY <1>1, <1>2
  <2> QED
    BY <1>1, <1>2, <2>1, <2>2, <2>3 DEF RecordingTypeOK
<1>6. Mutex'
  <2>1. ASSUME NEW d \in Calls PROVE Busy(d)' <=> run'[d] \in {"starting", "ending"}
    <3>1. d \in Emitters /\ d \notin Goroutines
      BY RecordingAssumption DEF RecordingAssumption, Emitters
    <3>2. CASE d = e
      BY <1>1, <1>2, <1>4, <3>1, <3>2
    <3>3. CASE d # e
      <4>1. run'[d] = run[d]
        BY <1>1, <1>2, <3>3
      <4> QED
        BY <1>1, <1>3, <3>1, <3>3, <4>1 DEF Mutex
    <3> QED
      BY <3>2, <3>3
  <2>2. ASSUME NEW g \in Goroutines, Busy(g)'
        PROVE  run'[CallOf[g]] = "node" /\ emitMu'[CallOf[g]] = g
    <3>1. g \in Emitters /\ g # e
      BY <1>4, <2>2 DEF Emitters
    <3>2. Busy(g) /\ CallOf[g] \in Calls
      BY <1>1, <1>3, <2>2, <3>1
    <3>3. CallBehind(g) # CallBehind(e)
      BY <1>1, <3>1, <3>2, Solo
    <3>4. run[CallOf[g]] = "node" /\ emitMu[CallOf[g]] = g
      BY <1>1, <3>2 DEF Mutex
    <3>5. CASE e \in Goroutines
      BY <1>1, <1>2, <3>2, <3>3, <3>4, <3>5, <3>1, EmitterKinds
    <3>6. CASE e \notin Goroutines
      BY <1>1, <1>2, <3>2, <3>3, <3>4, <3>6, <3>1, EmitterKinds
    <3> QED
      BY <3>5, <3>6
  <2> QED
    BY <2>1, <2>2 DEF Mutex
<1>7. Carried'
  BY <1>2, <1>3, <1>4 DEF RInv, Carried
<1>8. Tallied'
  <2>1. ASSUME NEW f \in Emitters PROVE Turns(f)' = Turns(f)
    BY <1>1, <1>2, EmitterKinds DEF Turns, Mutex
  <2> QED
    BY <1>2, <2>1 DEF RInv, Tallied
<1>9. Recorded' = Recorded
  BY <1>2 DEF Recorded
<1> QED
  BY <1>2, <1>3, <1>4, <1>5, <1>6, <1>7, <1>8, <1>9 DEF RInv

(* A busy emitter goes on in the handler.                                  *)
LEMMA StageKeeps ==
  ASSUME NEW stages, RInv(stages), NEW e \in Emitters, Busy(e),
         NEW st \in stages, st # "idle",
         emit' = [emit EXCEPT ![e] = st],
         UNCHANGED <<run, event, emits, emitMu, trace>>
  PROVE  /\ RInv(stages)' /\ Recorded' = Recorded
         /\ \A f \in Emitters : Busy(f)' <=> Busy(f)
<1>1. emit \in [Emitters -> {"idle", "handler"} \cup stages] /\ RecordingTypeOK(stages)
  BY DEF RInv, RecordingTypeOK
<1>2. \A f \in Emitters : Busy(f)' <=> Busy(f)
  BY <1>1 DEF Busy
<1>3. RecordingTypeOK(stages)'
  BY <1>1 DEF RecordingTypeOK
<1>4. Mutex' /\ Carried'
  BY <1>2 DEF RInv, Mutex, Carried, Emitters
<1>5. Tallied' /\ Recorded' = Recorded
  BY DEF RInv, Tallied, Turns, Recorded
<1> QED
  BY <1>2, <1>3, <1>4, <1>5 DEF RInv

(* Nothing of the recording changes.                                       *)
LEMMA StillKeeps ==
  ASSUME NEW stages, RInv(stages), UNCHANGED recording
  PROVE  RInv(stages)' /\ Recorded' = Recorded
<1>1. Recorded' = Recorded /\ UNCHANGED <<run, emit, event, emits, emitMu, trace>>
  BY DEF recording, Recorded
<1> QED
  BY <1>1 DEF RInv, RecordingTypeOK, Mutex, Busy, Carried, Tallied, Turns

(***************************************************************************)
(* The stream: the order of one call's events, the count of those the      *)
(* consumer missed, and the promise of Feed.                               *)
(***************************************************************************)
Had == consumed \o buffer

(* The read lock is held by those that send; the stream is closed by a     *)
(* closer that got through, and with no send under way.                    *)
Locked ==
  /\ readers = {e \in Emitters : emit[e] = "sending"}
  /\ shut => readers = {} /\ \E k \in Closers : closer[k] = "closed"

(* A patient closer is past its wait only when every run is over.          *)
Patience ==
  /\ \A k \in Patient : closer[k] # "idle" => \A c \in Calls : done[c] = "read"
  /\ \A c \in Calls : done[c] # "none" => run[c] = "returned"

(* What the consumer saw or will see was recorded, and before what the     *)
(* emitters of the same call are handing on.                               *)
Given ==
  /\ \A i \in DOMAIN Had :
       /\ Had[i].run = RunBehind(Had[i].from)
       /\ Had[i].sequence <= Len(trace[Had[i].run])
  /\ \A e \in Emitters : Busy(e) =>
       \A i \in DOMAIN Had :
         CallBehind(Had[i].from) = CallBehind(e) => Had[i].sequence < event[e].sequence

StreamInv ==
  /\ RInv({"sending"}) /\ StreamTypeOK /\ Locked /\ Patience /\ Given /\ CallOrder /\ NothingMissed

-----------------------------------------------------------------------------
LEMMA InHandlerBusy ==
  ASSUME RInv({"sending"})
  PROVE  /\ InHandler = {e \in Emitters : Busy(e)}
         /\ IsFiniteSet(InHandler) /\ Cardinality(InHandler) \in Nat
         /\ IsFiniteSet(Recorded) /\ Cardinality(Recorded) \in Nat
<1>1. InHandler = {e \in Emitters : Busy(e)} /\ IsFiniteSet(Recorded)
  BY DEF RInv, RecordingTypeOK, InHandler, Busy
<1>2. InHandler \subseteq Emitters
  BY DEF InHandler
<1>3. IsFiniteSet(InHandler)
  BY <1>2, EmittersFinite, FS_Subset
<1> QED
  BY <1>1, <1>3, FS_CardinalityType

LEMMA HadTypes ==
  ASSUME StreamTypeOK
  PROVE  /\ buffer \in Seq(Events) /\ consumed \in Seq(Events) /\ Had \in Seq(Events)
         /\ \A i \in DOMAIN Had :
              /\ Had[i] \in Events /\ Had[i].run \in RunIDs
              /\ Had[i].sequence \in 1 .. Most /\ Had[i].from \in Emitters
<1>1. Had \in Seq(Events) /\ buffer \in Seq(Events) /\ consumed \in Seq(Events)
  BY DEF StreamTypeOK, Had
<1>2. \A i \in DOMAIN Had : Had[i] \in Events
  BY <1>1
<1>3. \A x \in Events : x.run \in RunIDs /\ x.sequence \in 1 .. Most /\ x.from \in Emitters
  BY DEF Events
<1> QED
  BY <1>1, <1>2, <1>3

-----------------------------------------------------------------------------
(* Nothing wanders between the handler and the consumer: one conjunct of   *)
(* the invariant at a time, for the steps that leave the stream alone.     *)
Beside == UNCHANGED <<stream, done>>

(* An event is recorded: by Begin, Emit or NodeReturn.                     *)
LEMMA StreamRecords ==
  ASSUME StreamInv, NEW e \in Emitters, Grown(e), ~Busy(e), RInv({"sending"})', Beside,
         \A c \in Calls : run[c] = "returned" => run'[c] = "returned"
  PROVE  StreamInv'
<1> DEFINE r == RunBehind(e)
           n == Len(trace[r]) + 1
<1>1. /\ emit \in [Emitters -> {"idle", "handler"} \cup {"sending"}]
      /\ event \in [Emitters -> Events \cup {None}]
      /\ trace \in [RunIDs -> Seq(Emitters)] /\ trace' \in [RunIDs -> Seq(Emitters)]
  BY DEF StreamInv, RInv, RecordingTypeOK
<1>2. UNCHANGED <<readers, shut, buffer, dropped, consumed, closer, done>> /\ Had' = Had
  BY DEF Beside, stream, Had
<1>3. /\ r \in RunIDs /\ n \in Nat
      /\ emit' = [emit EXCEPT ![e] = "handler"]
      /\ event' = [event EXCEPT ![e] = [run |-> r, sequence |-> n, from |-> e]]
      /\ Len(trace'[r]) = n
      /\ \A q \in RunIDs \ {r} : trace'[q] = trace[q]
      /\ <<r, n>> \notin Recorded /\ Recorded' = Recorded \cup {<<r, n>>}
  BY <1>1, EmitterKinds DEF Grown
<1>4. StreamTypeOK' /\ Locked' /\ Patience'
  <2>1. StreamTypeOK'
    BY <1>2 DEF StreamInv, StreamTypeOK, RInv
  <2>2. Locked'
    BY <1>1, <1>2, <1>3 DEF StreamInv, Locked, Busy
  <2>3. Patience'
    BY <1>2 DEF StreamInv, Patience
  <2> QED
    BY <2>1, <2>2, <2>3
<1>5. \A i \in DOMAIN Had :
        /\ Had[i].run = RunBehind(Had[i].from) /\ Had[i].run \in RunIDs
        /\ Had[i].sequence <= Len(trace[Had[i].run]) /\ Had[i].sequence \in Int
        /\ Had[i].from \in Emitters
  BY HadTypes DEF StreamInv, Given
<1>6. Given'
  <2>1. ASSUME NEW i \in DOMAIN Had PROVE Had[i].sequence <= Len(trace'[Had[i].run])
    <3>1. CASE Had[i].run = r
      BY <1>1, <1>3, <1>5, <3>1
    <3>2. CASE Had[i].run # r
      BY <1>3, <1>5, <3>2
    <3> QED
      BY <3>1, <3>2
  <2>2. ASSUME NEW f \in Emitters, Busy(f)', NEW i \in DOMAIN Had,
               CallBehind(Had[i].from) = CallBehind(f)
        PROVE  Had[i].sequence < event'[f].sequence
    <3>1. CASE f = e
      <4>1. Had[i].run = r
        BY <1>5, <2>2, <3>1 DEF RunBehind
      <4>2. event'[e].sequence = n
        BY <1>1, <1>3
      <4> QED
        BY <1>1, <1>3, <1>5, <3>1, <4>1, <4>2
    <3>2. CASE f # e
      <4>1. Busy(f) /\ event'[f] = event[f]
        BY <1>1, <1>3, <2>2, <3>2 DEF Busy
      <4> QED
        BY <2>2, <4>1 DEF StreamInv, Given
    <3> QED
      BY <3>1, <3>2
  <2> QED
    BY <1>2, <1>5, <2>1, <2>2 DEF Given
<1>7. CallOrder'
  BY <1>2 DEF StreamInv, CallOrder
<1>8. NothingMissed'
  <2>1. InHandler' = InHandler \cup {e} /\ e \notin InHandler
    <3>1. InHandler = {f \in Emitters : Busy(f)} /\ InHandler' = {f \in Emitters : Busy(f)'}
      BY InHandlerBusy DEF StreamInv, RInv, RecordingTypeOK, InHandler, Busy
    <3>2. \A f \in Emitters : Busy(f)' <=> Busy(f) \/ f = e
      BY <1>1, <1>3 DEF Busy
    <3> QED
      BY <3>1, <3>2
  <2>2. /\ IsFiniteSet(InHandler) /\ Cardinality(InHandler) \in Nat
        /\ IsFiniteSet(Recorded) /\ Cardinality(Recorded) \in Nat
    BY InHandlerBusy DEF StreamInv
  <2>3. Cardinality(InHandler \cup {e}) = Cardinality(InHandler) + 1
    BY <2>1, <2>2, FS_AddElement
  <2>4. Cardinality(Recorded \cup {<<r, n>>}) = Cardinality(Recorded) + 1
    BY <1>3, <2>2, FS_AddElement
  <2>5. Len(buffer) \in Nat /\ Len(consumed) \in Nat /\ dropped \in Nat
    BY DEF StreamInv, StreamTypeOK
  <2>6. Cardinality(InHandler') = Cardinality(InHandler) + 1
    BY <2>1, <2>3
  <2>7. Cardinality(Recorded') = Cardinality(Recorded) + 1
    BY <1>3, <2>4
  <2> QED
    BY <1>2, <2>2, <2>5, <2>6, <2>7 DEF StreamInv, NothingMissed
<1> QED
  BY <1>4, <1>6, <1>7, <1>8 DEF StreamInv

(* Steps that record nothing and touch neither the channel nor the handler.*)
LEMMA QuietStep ==
  ASSUME StreamInv, RInv({"sending"})', Recorded' = Recorded,
         UNCHANGED <<event, trace, run, buffer, dropped, consumed>>,
         \A e \in Emitters : Busy(e)' <=> Busy(e),
         StreamTypeOK', Locked', Patience',
         \A k \in Hasty : closer[k] # "idle" => closer'[k] # "idle"
  PROVE  StreamInv'
<1>1. Had' = Had
  BY DEF Had
<1>2. Given'
  BY <1>1 DEF StreamInv, Given
<1>3. CallOrder'
  BY DEF StreamInv, CallOrder
<1>4. InHandler' = InHandler
  <2>1. InHandler = {f \in Emitters : Busy(f)} /\ InHandler' = {f \in Emitters : Busy(f)'}
    BY InHandlerBusy DEF StreamInv, RInv, RecordingTypeOK, InHandler, Busy
  <2> QED
    BY <2>1
<1>5. NothingMissed'
  BY <1>4 DEF StreamInv, NothingMissed
<1> QED
  BY <1>2, <1>3, <1>5 DEF StreamInv

-----------------------------------------------------------------------------
(* A handler gets the read lock of the open stream, or finds it closed.    *)
LEMMA EntersStep ==
  ASSUME StreamInv, NEW e \in Emitters, emit[e] = "handler", ~shut,
         emit' = [emit EXCEPT ![e] = "sending"], readers' = readers \cup {e},
         UNCHANGED <<run, event, emits, emitMu, trace, shut, buffer, dropped, consumed, closer, done>>
  PROVE  StreamInv'
<1>1. emit \in [Emitters -> {"idle", "handler"} \cup {"sending"}]
  BY DEF StreamInv, RInv, RecordingTypeOK
<1>2. /\ RInv({"sending"})' /\ Recorded' = Recorded
      /\ \A f \in Emitters : Busy(f)' <=> Busy(f)
  <2>1. RInv({"sending"}) /\ Busy(e) /\ "sending" \in {"sending"} /\ "sending" # "idle"
    BY DEF StreamInv, Busy
  <2> QED
    BY <2>1, StageKeeps
<1>3. StreamTypeOK'
  BY <1>2 DEF StreamInv, StreamTypeOK, RInv
<1>4. Locked' /\ Patience'
  BY <1>1 DEF StreamInv, Locked, Patience
<1> QED
  BY <1>2, <1>3, <1>4, QuietStep

(* An event is lost on the closed stream only after somebody hurried.      *)
LEMMA IgnoresStep ==
  ASSUME StreamInv, NEW e \in Emitters, emit[e] = "handler", shut, Handled(e), UNCHANGED <<stream, done>>
  PROVE  StreamInv'
<1>1. /\ Busy(e) /\ emit \in [Emitters -> {"idle", "handler"} \cup {"sending"}]
      /\ run \in [Calls -> {"idle", "starting", "node", "ending", "returned"}]
      /\ Mutex /\ CallOf \in [Goroutines -> Calls]
  BY RecordingAssumption DEF RecordingAssumption, StreamInv, RInv, RecordingTypeOK, Busy
<1>2. UNCHANGED <<readers, shut, buffer, dropped, consumed, closer, done>> /\ Had' = Had
  BY DEF stream, Had
<1>3. /\ RInv({"sending"})' /\ UNCHANGED trace
      /\ \A f \in Emitters \ {e} : emit'[f] = emit[f] /\ event'[f] = event[f]
      /\ emit'[e] = "idle"
  <2>1. RInv({"sending"}) /\ Busy(e) /\ Handled(e)
    BY <1>1 DEF StreamInv
  <2> QED
    BY <2>1, HandledKeeps
<1>4. StreamTypeOK' /\ Locked'
  <2>1. StreamTypeOK'
    BY <1>2, <1>3 DEF StreamInv, StreamTypeOK, RInv
  <2>2. Locked'
    BY <1>2, <1>3 DEF StreamInv, Locked
  <2> QED
    BY <2>1, <2>2
<1>5. \A c \in Calls : run[c] = "returned" => run'[c] = "returned"
  BY <1>1 DEF Handled
<1>6. Patience'
  BY <1>2, <1>5 DEF StreamInv, Patience
<1>7. Given'
  BY <1>2, <1>3 DEF StreamInv, Given, Busy
<1>8. CallOrder'
  BY <1>2 DEF StreamInv, CallOrder
<1>9. ~(\A k \in Hasty : closer[k] = "idle")
  <2>1. ~(\A c \in Calls : run[c] = "returned")
    BY <1>1, EmitterKinds DEF Mutex
  <2>2. PICK k \in Closers : closer[k] = "closed"
    BY DEF StreamInv, Locked
  <2>3. k \notin Patient
    BY <2>1, <2>2 DEF StreamInv, Patience
  <2> QED
    BY <2>2, <2>3 DEF Closers
<1>10. NothingMissed'
  BY <1>2, <1>9 DEF NothingMissed
<1> QED
  BY <1>3, <1>4, <1>6, <1>7, <1>8, <1>10 DEF StreamInv

(* The event is sent or counted, and the handler returns.                  *)
LEMMA SendStep ==
  ASSUME StreamInv, NEW e \in Emitters, HandleSend(e)
  PROVE  StreamInv'
<1> DEFINE x == event[e]
<1>1. /\ Busy(e) /\ emit \in [Emitters -> {"idle", "handler"} \cup {"sending"}]
      /\ emit[e] = "sending" /\ readers' = readers \ {e} /\ Handled(e) /\ Put(e)
      /\ UNCHANGED <<shut, consumed, closer, done>>
      /\ run \in [Calls -> {"idle", "starting", "node", "ending", "returned"}]
  BY DEF HandleSend, StreamInv, RInv, RecordingTypeOK, Busy
<1>2. /\ RInv({"sending"})' /\ UNCHANGED trace /\ Recorded' = Recorded
      /\ \A f \in Emitters \ {e} : emit'[f] = emit[f] /\ event'[f] = event[f]
      /\ emit'[e] = "idle"
  <2>1. RInv({"sending"}) /\ Busy(e) /\ Handled(e)
    BY <1>1 DEF StreamInv
  <2> QED
    BY <2>1, HandledKeeps
<1>3. /\ x \in Events /\ x.run = RunBehind(e) /\ x.from = e
      /\ x.sequence <= Len(trace[x.run]) /\ x.sequence \in Int
  <2>1. /\ x \in Events /\ x.run = RunBehind(e) /\ x.from = e
        /\ x.sequence \in DOMAIN trace[RunBehind(e)]
    BY <1>1 DEF StreamInv, RInv, Carried
  <2>2. trace[RunBehind(e)] \in Seq(Emitters)
    BY EmitterKinds DEF StreamInv, RInv, RecordingTypeOK
  <2> QED
    BY <2>1, <2>2
<1>4. /\ Len(buffer) \in Nat /\ Len(consumed) \in Nat /\ dropped \in Nat /\ StreamBuffer \in Nat
      /\ buffer \in Seq(Events) /\ consumed \in Seq(Events) /\ Had \in Seq(Events)
  BY HadTypes, StreamAssumption DEF StreamAssumption, StreamInv, StreamTypeOK
<1> HIDE DEF x
<1>5. \/ /\ Len(buffer) < StreamBuffer /\ buffer' = Append(buffer, x) /\ dropped' = dropped
         /\ Had' = Append(Had, x)
      \/ buffer' = buffer /\ dropped' = dropped + 1 /\ Had' = Had
  <2>1. CASE Len(buffer) < StreamBuffer /\ buffer' = Append(buffer, x) /\ dropped' = dropped
    BY <1>1, <1>3, <1>4, <2>1, PutSees DEF Had
  <2>2. CASE buffer' = buffer /\ dropped' = dropped + 1
    BY <1>1, <2>2 DEF Had
  <2> QED
    BY <1>1, <2>1, <2>2 DEF Put, x
<1>6. StreamTypeOK'
  <2>1. buffer' \in Seq(Events) /\ Len(buffer') <= StreamBuffer /\ dropped' \in Nat
    <3>1. CASE Len(buffer) < StreamBuffer /\ buffer' = Append(buffer, x) /\ dropped' = dropped
      BY <1>3, <1>4, <3>1, AppendLast
    <3>2. CASE buffer' = buffer /\ dropped' = dropped + 1
      BY <1>4, <3>2 DEF StreamInv, StreamTypeOK
    <3> QED
      BY <1>5, <3>1, <3>2
  <2> QED
    BY <1>1, <1>2, <2>1 DEF StreamInv, StreamTypeOK, RInv
<1>7. Locked'
  BY <1>1, <1>2 DEF StreamInv, Locked
<1>8. Patience'
  <2>1. \A c \in Calls : run[c] = "returned" => run'[c] = "returned"
    BY <1>1 DEF Handled
  <2> QED
    BY <1>1, <2>1 DEF StreamInv, Patience
<1>9. \A i \in DOMAIN Had' :
        \/ i \in DOMAIN Had /\ Had'[i] = Had[i]
        \/ i \notin DOMAIN Had /\ (\A j \in DOMAIN Had' \ {i} : j < i) /\ Had'[i] = x
  <2>1. CASE Had' = Had
    BY <2>1
  <2>2. CASE Had' = Append(Had, x)
    BY <1>3, <1>4, <2>2, AppendLast
  <2> QED
    BY <1>5, <2>1, <2>2
<1>10. Given'
  <2>1. ASSUME NEW i \in DOMAIN Had'
        PROVE  Had'[i].run = RunBehind(Had'[i].from) /\ Had'[i].sequence <= Len(trace[Had'[i].run])
    BY <1>3, <1>9 DEF StreamInv, Given
  <2>2. ASSUME NEW f \in Emitters, Busy(f)', NEW i \in DOMAIN Had',
               CallBehind(Had'[i].from) = CallBehind(f)
        PROVE  Had'[i].sequence < event'[f].sequence
    <3>1. f # e /\ Busy(f) /\ event'[f] = event[f]
      BY <1>2, <2>2 DEF Busy
    <3>2. CallBehind(f) # CallBehind(e)
      BY <1>1, <3>1, Solo DEF StreamInv, RInv
    <3>3. Had'[i] # x
      BY <1>3, <2>2, <3>2
    <3>4. i \in DOMAIN Had /\ Had'[i] = Had[i]
      BY <1>9, <3>3
    <3> QED
      BY <2>2, <3>1, <3>4 DEF StreamInv, Given
  <2> QED
    BY <1>2, <2>1, <2>2 DEF Given
<1>11. CallOrder'
  <2> SUFFICES ASSUME NEW i \in DOMAIN Had', NEW j \in DOMAIN Had', i < j,
                      CallBehind(Had'[i].from) = CallBehind(Had'[j].from)
               PROVE  Had'[i].sequence < Had'[j].sequence
    BY DEF CallOrder, Had
  <2>1. i \in DOMAIN Had /\ Had'[i] = Had[i]
    <3>1. i \in Int /\ j \in Int
      BY <1>3, <1>4, <1>5
    <3> QED
      BY <1>9, <3>1
  <2>2. CASE j \in DOMAIN Had /\ Had'[j] = Had[j]
    BY <2>1, <2>2 DEF StreamInv, CallOrder, Had
  <2>3. CASE Had'[j] = x
    BY <1>1, <1>3, <2>1, <2>3 DEF StreamInv, Given, x
  <2> QED
    BY <1>9, <2>2, <2>3
<1>12. NothingMissed'
  <2>1. InHandler' = InHandler \ {e} /\ e \in InHandler
    BY <1>1, <1>2 DEF InHandler
  <2>2. /\ IsFiniteSet(InHandler) /\ Cardinality(InHandler) \in Nat
        /\ Cardinality(Recorded) \in Nat
    BY InHandlerBusy DEF StreamInv
  <2>3. Cardinality(InHandler \ {e}) = Cardinality(InHandler) - 1
    BY <2>1, <2>2, FS_RemoveElement
  <2>4. Cardinality(InHandler') = Cardinality(InHandler) - 1
    BY <2>1, <2>3
  <2>5. Len(buffer') + dropped' = Len(buffer) + dropped + 1 /\ Len(buffer') \in Nat /\ dropped' \in Nat
    <3>1. CASE Len(buffer) < StreamBuffer /\ buffer' = Append(buffer, x) /\ dropped' = dropped
      BY <1>3, <1>4, <3>1, AppendLast
    <3>2. CASE buffer' = buffer /\ dropped' = dropped + 1
      BY <1>4, <3>2
    <3> QED
      BY <1>5, <3>1, <3>2
  <2> QED
    BY <1>1, <1>2, <1>4, <2>2, <2>4, <2>5, SMTT(20) DEF StreamInv, NothingMissed
<1> QED
  BY <1>2, <1>6, <1>7, <1>8, <1>10, <1>11, <1>12 DEF StreamInv

-----------------------------------------------------------------------------
(* Close: the writer waits, then closes.                                   *)
LEMMA CloseSteps ==
  ASSUME StreamInv, NEW k \in Closers, Close(k) \/ CloseLocked(k)
  PROVE  StreamInv'
<1>1. /\ UNCHANGED <<run, emit, event, emits, emitMu, trace, readers, buffer, dropped, consumed, done>>
      /\ UNCHANGED recording
      /\ closer \in [Closers -> {"idle", "waiting", "closed"}]
      /\ k \notin Hasty => k \in Patient
  BY DEF Close, CloseLocked, recording, StreamInv, StreamTypeOK, Closers
<1>2. RInv({"sending"})' /\ Recorded' = Recorded /\ \A e \in Emitters : Busy(e)' <=> Busy(e)
  BY <1>1, StillKeeps DEF StreamInv, Busy
<1>3. CASE Close(k)
  <2>1. /\ closer[k] = "idle" /\ (k \in Patient => \A c \in Calls : done[c] = "read")
        /\ closer' = [closer EXCEPT ![k] = "waiting"] /\ UNCHANGED shut
    BY <1>3 DEF Close
  <2>2. StreamTypeOK' /\ Locked' /\ Patience'
    <3>1. StreamTypeOK'
      BY <1>1, <1>2, <2>1 DEF StreamInv, StreamTypeOK, RInv
    <3>2. Locked'
      BY <1>1, <2>1 DEF StreamInv, Locked
    <3>3. Patience'
      BY <1>1, <2>1 DEF StreamInv, Patience, Closers
    <3> QED
      BY <3>1, <3>2, <3>3
  <2>3. \A h \in Hasty : closer[h] # "idle" => closer'[h] # "idle"
    BY <1>1, <2>1 DEF Closers
  <2> QED
    BY <1>1, <1>2, <2>2, <2>3, QuietStep
<1>4. CASE CloseLocked(k)
  <2>1. /\ closer[k] = "waiting" /\ readers = {} /\ shut' = TRUE
        /\ closer' = [closer EXCEPT ![k] = "closed"]
    BY <1>4 DEF CloseLocked, Exclusive
  <2>2. StreamTypeOK' /\ Locked' /\ Patience'
    <3>1. StreamTypeOK'
      BY <1>1, <1>2, <2>1 DEF StreamInv, StreamTypeOK, RInv
    <3>2. Locked'
      BY <1>1, <2>1 DEF StreamInv, Locked
    <3>3. Patience'
      BY <1>1, <2>1 DEF StreamInv, Patience, Closers
    <3> QED
      BY <3>1, <3>2, <3>3
  <2>3. \A h \in Hasty : closer[h] # "idle" => closer'[h] # "idle"
    BY <1>1, <2>1 DEF Closers
  <2> QED
    BY <1>1, <1>2, <2>2, <2>3, QuietStep
<1> QED
  BY <1>3, <1>4

(* The consumer takes an event: what it saw or will see is the same.       *)
LEMMA TakeStep ==
  ASSUME StreamInv, Take
  PROVE  StreamInv'
<1>1. /\ buffer # <<>> /\ consumed' = Append(consumed, Head(buffer)) /\ buffer' = Tail(buffer)
      /\ UNCHANGED <<recording, readers, shut, dropped, closer, done>>
      /\ UNCHANGED <<run, emit, event, emits, emitMu, trace>>
  BY DEF Take, recording
<1>2. RInv({"sending"})' /\ Recorded' = Recorded /\ \A e \in Emitters : Busy(e)' <=> Busy(e)
  BY <1>1, StillKeeps DEF StreamInv, Busy
<1>3. /\ buffer \in Seq(Events) /\ consumed \in Seq(Events) /\ Len(buffer) <= StreamBuffer
      /\ StreamBuffer \in Nat /\ dropped \in Nat
  BY StreamAssumption DEF StreamAssumption, StreamInv, StreamTypeOK
<1>4. Had' = Had
  BY <1>1, <1>3, TakeSees DEF Had
<1>5. /\ buffer' \in Seq(Events) /\ consumed' \in Seq(Events) /\ Len(buffer') <= StreamBuffer
      /\ Len(buffer') + Len(consumed') = Len(buffer) + Len(consumed)
      /\ Len(buffer) \in Nat /\ Len(consumed) \in Nat /\ Len(buffer') \in Nat /\ Len(consumed') \in Nat
  BY <1>1, <1>3
<1>6. StreamTypeOK'
  BY <1>1, <1>2, <1>5 DEF StreamInv, StreamTypeOK, RInv
<1>7. Locked' /\ Patience'
  BY <1>1 DEF StreamInv, Locked, Patience
<1>8. Given'
  BY <1>1, <1>2, <1>4 DEF StreamInv, Given
<1>9. CallOrder'
  BY <1>4 DEF StreamInv, CallOrder, Had
<1>10. NothingMissed'
  <2>1. InHandler' = InHandler
    BY <1>1 DEF InHandler
  <2>2. Cardinality(InHandler) \in Nat /\ Cardinality(Recorded) \in Nat
    BY InHandlerBusy DEF StreamInv
  <2> QED
    BY <1>1, <1>2, <1>3, <1>5, <2>1, <2>2 DEF StreamInv, NothingMissed
<1> QED
  BY <1>2, <1>6, <1>7, <1>8, <1>9, <1>10 DEF StreamInv

(* The result goes to Done, and a reader takes it.                         *)
LEMMA DoneStep ==
  ASSUME StreamInv, NEW c \in Calls, Answer(c) \/ ReadDone(c)
  PROVE  StreamInv'
<1>1. /\ UNCHANGED <<recording, stream>> /\ UNCHANGED <<run, emit, event, emits, emitMu, trace>>
      /\ UNCHANGED <<readers, shut, buffer, dropped, consumed, closer>>
      /\ done \in [Calls -> {"none", "sent", "read"}]
  BY DEF Answer, ReadDone, recording, stream, StreamInv, StreamTypeOK
<1>2. RInv({"sending"})' /\ Recorded' = Recorded /\ \A e \in Emitters : Busy(e)' <=> Busy(e)
  BY <1>1, StillKeeps DEF StreamInv, Busy
<1>3. \/ run[c] = "returned" /\ done[c] = "none" /\ done' = [done EXCEPT ![c] = "sent"]
      \/ done[c] = "sent" /\ done' = [done EXCEPT ![c] = "read"]
  BY DEF Answer, ReadDone
<1>4. StreamTypeOK' /\ Locked'
  <2>1. done' \in [Calls -> {"none", "sent", "read"}]
    BY <1>1, <1>3
  <2> QED
    BY <1>1, <1>2, <2>1 DEF StreamInv, StreamTypeOK, RInv, Locked
<1>5. Patience'
  BY <1>1, <1>3 DEF StreamInv, Patience
<1> QED
  BY <1>1, <1>2, <1>4, <1>5, QuietStep

-----------------------------------------------------------------------------
LEMMA StreamStarts ==
  ASSUME StreamInit
  PROVE  StreamInv
<1>1. /\ RecordingInit /\ readers = {} /\ shut = FALSE /\ buffer = <<>> /\ dropped = 0 /\ consumed = <<>>
      /\ closer = [k \in Closers |-> "idle"] /\ done = [c \in Calls |-> "none"]
      /\ emit = [e \in Emitters |-> "idle"]
  BY DEF StreamInit, RecordingInit
<1>2. RInv({"sending"}) /\ Recorded = {}
  BY <1>1, RecordingStarts
<1>3. Had = <<>> /\ \A i : i \notin DOMAIN Had
  BY <1>1 DEF Had
<1>4. StreamTypeOK
  <2>1. <<>> \in Seq(Events) /\ Len(<<>>) = 0 /\ 0 <= StreamBuffer
    BY StreamAssumption DEF StreamAssumption
  <2> QED
    BY <1>1, <1>2, <2>1 DEF StreamTypeOK, RInv
<1>5. Locked /\ Patience
  BY <1>1 DEF Locked, Patience, Closers
<1>6. Given /\ CallOrder
  BY <1>3 DEF Given, CallOrder, Had
<1>7. NothingMissed
  <2>1. InHandler = {}
    BY <1>1 DEF InHandler
  <2>2. Cardinality(InHandler) = 0 /\ Cardinality(Recorded) = 0
    BY <1>2, <2>1, FS_EmptySet
  <2> QED
    BY <1>1, <2>2 DEF NothingMissed
<1> QED
  BY <1>2, <1>4, <1>5, <1>6, <1>7 DEF StreamInv

LEMMA StreamStays ==
  ASSUME StreamInv, UNCHANGED streamVars
  PROVE  StreamInv'
<1>1. UNCHANGED <<recording, stream, done>>
  BY DEF streamVars
<1>2. /\ UNCHANGED <<run, emit, event, emits, emitMu, trace>>
      /\ UNCHANGED <<readers, shut, buffer, dropped, consumed, closer, done>>
  BY <1>1 DEF recording, stream
<1>3. RInv({"sending"})' /\ Recorded' = Recorded /\ \A e \in Emitters : Busy(e)' <=> Busy(e)
  BY <1>1, <1>2, StillKeeps DEF StreamInv, Busy
<1>4. StreamTypeOK' /\ Locked' /\ Patience'
  BY <1>2, <1>3 DEF StreamInv, StreamTypeOK, RInv, Locked, Patience
<1> QED
  BY <1>2, <1>3, <1>4, QuietStep

LEMMA StreamPreserves ==
  ASSUME StreamInv, [StreamNext]_streamVars
  PROVE  StreamInv'
<1>1. ASSUME NEW c \in Calls, InvokeAsync(c) PROVE StreamInv'
  <2>1. Begin(c) /\ Beside
    BY <1>1 DEF InvokeAsync, Beside
  <2>2. RInv({"sending"})
    BY DEF StreamInv
  <2>3. RInv({"sending"})' /\ Grown(c) /\ ~Busy(c) /\ c \in Emitters
    BY <2>1, <2>2, BeginKeeps DEF Emitters
  <2>4. \A d \in Calls : run[d] = "returned" => run'[d] = "returned"
    BY <2>1 DEF Begin, StreamInv, RInv, RecordingTypeOK
  <2> QED
    BY <2>1, <2>3, <2>4, StreamRecords
<1>2. ASSUME NEW g \in Goroutines, Emit(g), Beside PROVE StreamInv'
  <2>1. RInv({"sending"})
    BY DEF StreamInv
  <2>2. RInv({"sending"})' /\ Grown(g) /\ ~Busy(g) /\ g \in Emitters
    BY <1>2, <2>1, EmitKeeps DEF Emitters
  <2>3. \A d \in Calls : run[d] = "returned" => run'[d] = "returned"
    BY <1>2 DEF Emit
  <2> QED
    BY <1>2, <2>2, <2>3, StreamRecords
<1>3. ASSUME NEW c \in Calls, NodeReturn(c), Beside PROVE StreamInv'
  <2>1. RInv({"sending"})
    BY DEF StreamInv
  <2>2. RInv({"sending"})' /\ Grown(c) /\ ~Busy(c) /\ c \in Emitters
    BY <1>3, <2>1, NodeReturnKeeps DEF Emitters
  <2>3. \A d \in Calls : run[d] = "returned" => run'[d] = "returned"
    BY <1>3 DEF NodeReturn, StreamInv, RInv, RecordingTypeOK
  <2> QED
    BY <1>3, <2>2, <2>3, StreamRecords
<1>4. ASSUME NEW e \in Emitters, HandleBegin(e) PROVE StreamInv'
  <2>1. CASE shut
    <3>1. emit[e] = "handler" /\ Handled(e) /\ UNCHANGED <<stream, done>>
      BY <1>4, <2>1 DEF HandleBegin, stream
    <3> QED
      BY <2>1, <3>1, IgnoresStep
  <2>2. CASE ~shut
    BY <1>4, <2>2, EntersStep DEF HandleBegin
  <2> QED
    BY <2>1, <2>2
<1>5. InNode => StreamInv'
  BY <1>2, <1>3 DEF InNode, NodeStep, Beside
<1>6. StreamStop \/ UNCHANGED streamVars => StreamInv'
  BY StreamStays DEF StreamStop
<1>7. CASE StreamNext
  <2>1. ASSUME NEW c \in Calls, CallStep(c) \/ ReadDone(c) PROVE StreamInv'
    BY <1>1, <2>1, DoneStep DEF CallStep
  <2>2. ASSUME NEW e \in Emitters, HandleStep(e) PROVE StreamInv'
    BY <1>4, <2>2, SendStep DEF HandleStep
  <2>3. ASSUME NEW k \in Closers, Close(k) \/ CloseLocked(k) PROVE StreamInv'
    BY <2>3, CloseSteps
  <2> QED
    BY <1>5, <1>6, <1>7, <2>1, <2>2, <2>3, TakeStep DEF StreamNext
<1> QED
  BY <1>6, <1>7

-----------------------------------------------------------------------------
(* The invariant holds in every behaviour.                                 *)
THEOREM StreamInductive == StreamSpec => []StreamInv
  BY StreamStarts, StreamPreserves, PTL DEF StreamSpec

(* Every variable of the stream and its callers has its type: the channel  *)
(* never holds more than its capacity.                                     *)
THEOREM StreamTypes == StreamSpec => []StreamTypeOK
<1>1. StreamInv => StreamTypeOK
  BY DEF StreamInv
<1> QED
  BY <1>1, StreamInductive, PTL

(* Every event of the trace is received, queued, in the handler or counted *)
(* as dropped, unless the stream was closed before the results were read.  *)
THEOREM NoneMissed == StreamSpec => []NothingMissed
<1>1. StreamInv => NothingMissed
  BY DEF StreamInv
<1> QED
  BY <1>1, StreamInductive, PTL

(* One call's events reach the consumer in the order of their numbers, for *)
(* any number of goroutines of its node.                                   *)
THEOREM InCallOrder == StreamSpec => []CallOrder
<1>1. StreamInv => CallOrder
  BY DEF StreamInv
<1> QED
  BY <1>1, StreamInductive, PTL

-----------------------------------------------------------------------------
(* Each step of the stream is a step of Feed or leaves its variables alone.*)
LEMMA StreamFeedInit ==
  ASSUME StreamInit
  PROVE  StreamFeed!Init
  BY DEF StreamInit, StreamFeed!Init

LEMMA StreamFeedStep ==
  ASSUME StreamInv, [StreamNext]_streamVars
  PROVE  [StreamFeed!Next]_(StreamFeed!feed)
<1>1. ASSUME UNCHANGED <<shut, buffer, consumed, dropped>> PROVE [StreamFeed!Next]_(StreamFeed!feed)
  BY <1>1 DEF StreamFeed!feed
<1>2. ASSUME NEW e \in Emitters, HandleSend(e) PROVE StreamFeed!Next
  <2>1. event[e] \in Events
    BY <1>2 DEF StreamInv, RInv, Carried, Busy, HandleSend
  <2>2. ~shut
    BY <1>2 DEF StreamInv, Locked, HandleSend
  <2>3. Len(buffer) \in Nat /\ StreamBuffer \in Nat
    BY StreamAssumption DEF StreamAssumption, StreamInv, StreamTypeOK
  <2>4. StreamFeed!Offer(event[e])
    BY <1>2, <2>2, <2>3 DEF HandleSend, Put, StreamFeed!Offer
  <2> QED
    BY <2>1, <2>4 DEF StreamFeed!Next
<1>3. ASSUME NEW k \in Closers, CloseLocked(k) PROVE [StreamFeed!Next]_(StreamFeed!feed)
  <2>1. shut' = TRUE /\ UNCHANGED <<buffer, consumed, dropped>>
    BY <1>3 DEF CloseLocked
  <2>2. CASE shut
    <3>1. shut' = shut
      BY <2>1, <2>2 DEF StreamInv, StreamTypeOK
    <3> QED
      BY <1>1, <2>1, <3>1
  <2>3. CASE ~shut
    <3>1. StreamFeed!Close
      BY <2>1, <2>3 DEF StreamFeed!Close
    <3> QED
      BY <3>1 DEF StreamFeed!Next
  <2> QED
    BY <2>2, <2>3
<1>4. Take => StreamFeed!Next
  <2>1. Take => StreamFeed!Take
    BY DEF Take, StreamFeed!Take
  <2> QED
    BY <2>1 DEF StreamFeed!Next
<1>5. ASSUME NEW c \in Calls, CallStep(c) \/ ReadDone(c) PROVE UNCHANGED <<shut, buffer, consumed, dropped>>
  BY <1>5 DEF CallStep, InvokeAsync, Answer, ReadDone, stream
<1>6. ASSUME NEW e \in Emitters, HandleBegin(e) PROVE UNCHANGED <<shut, buffer, consumed, dropped>>
  BY <1>6 DEF HandleBegin
<1>7. ASSUME NEW k \in Closers, Close(k) PROVE UNCHANGED <<shut, buffer, consumed, dropped>>
  BY <1>7 DEF Close
<1>8. InNode \/ StreamStop \/ UNCHANGED streamVars => UNCHANGED <<shut, buffer, consumed, dropped>>
  BY DEF InNode, StreamStop, streamVars, stream
<1> QED
  BY <1>1, <1>2, <1>3, <1>4, <1>5, <1>6, <1>7, <1>8 DEF StreamNext, HandleStep

(* Handle and Close keep the promise of Feed, with any number of handlers  *)
(* and closers at once: nothing is sent on the closed channel.             *)
THEOREM StreamIsFeed == StreamSpec => IsStreamFeed
  BY StreamFeedInit, StreamFeedStep, StreamInductive, PTL DEF StreamSpec, IsStreamFeed, StreamFeed!Spec

-----------------------------------------------------------------------------
(***************************************************************************)
(* The hub: one order for all subscribers, every wanted event offered, and *)
(* the promise of Feed to each of them.                                    *)
(***************************************************************************)
(* The mutex is held by the one emitter that publishes; only it has        *)
(* subscriptions to visit, and all of them are in the map.                 *)
MuHeld ==
  /\ \A e \in Emitters : emit[e] = "publishing" <=> mu = e
  /\ \A e \in Emitters : visiting[e] \subseteq subscribers
  /\ \A e \in Emitters : emit[e] # "publishing" => visiting[e] = {}

(* Where a subscription is, from where its connection's handler is.        *)
Seats ==
  \A s \in Connections :
    /\ s \in subscribers <=> conn[s] \in {"serving", "writing", "closing"}
    /\ s \in subscribers => filter[s] \in Filters[s]
    /\ s \in closed => conn[s] = "over"
    /\ conn[s] = "new" => s \notin closed /\ filter[s] = None /\ lost[s] = 0 /\ Seen(s) = <<>>

(* What was published is in the trace and no longer at an emitter, except  *)
(* the event being published: it is last where it was offered already.     *)
Once ==
  \A s \in Connections :
    /\ \A i \in DOMAIN Seen(s) : Seen(s)[i].sequence <= Len(trace[Seen(s)[i].run])
    /\ \A i, j \in DOMAIN Seen(s) : Seen(s)[i] = Seen(s)[j] => i = j
    /\ \A e \in Emitters : \A i \in DOMAIN Seen(s) :
         Busy(e) /\ Seen(s)[i] = event[e] =>
           emit[e] = "publishing" /\ s \notin visiting[e] /\ i = Len(Seen(s))

IInv ==
  /\ RInv({"publishing"}) /\ TypeOK /\ MuHeld /\ Seats /\ Once /\ SameOrder /\ EachMatchOffered

-----------------------------------------------------------------------------
(* What EachMatchOffered says of one subscription and its filter.          *)
Way(s, f) ==
  {e \in Emitters :
     /\ Wanted(f, e)
     /\ emit[e] = "handler" \/ (emit[e] = "publishing" /\ s \in visiting[e])}
Account(s, f) ==
  Cardinality(WantedIn(f)) = before[s] + Cardinality(Way(s, f)) + Len(Seen(s)) + lost[s]

LEMMA AccountsNow ==
  ASSUME EachMatchOffered, NEW s \in subscribers, NEW f, f = filter[s]
  PROVE  Account(s, f)
  BY DEF EachMatchOffered, Account, Way, OnItsWay

LEMMA AccountsNext ==
  ASSUME \A s \in subscribers' : \A f : f = filter'[s] => Account(s, f)'
  PROVE  EachMatchOffered'
<1> SUFFICES ASSUME NEW s \in subscribers'
             PROVE  Cardinality(WantedIn(filter[s])') =
                      before'[s] + Cardinality(OnItsWay(s)') + Len(Seen(s)') + lost'[s]
  BY DEF EachMatchOffered
<1>1. PICK f : f = filter'[s]
  OBVIOUS
<1>2. Account(s, f)'
  BY <1>1
<1>3. Cardinality({q \in Recorded' : Wanted(f, trace'[q[1]][q[2]])}) =
        before'[s]
        + Cardinality({e \in Emitters : /\ Wanted(f, e)
                                        /\ \/ emit'[e] = "handler"
                                           \/ emit'[e] = "publishing" /\ s \in visiting'[e]})
        + Len(Seen(s)') + lost'[s]
  BY <1>2 DEF Account, Way, WantedIn
<1> QED
  BY <1>1, <1>3 DEF OnItsWay, WantedIn

LEMMA Counts ==
  ASSUME IInv, NEW s, NEW f
  PROVE  /\ IsFiniteSet(Way(s, f)) /\ Cardinality(Way(s, f)) \in Nat
         /\ IsFiniteSet(WantedIn(f)) /\ Cardinality(WantedIn(f)) \in Nat
<1>1. Way(s, f) \subseteq Emitters /\ WantedIn(f) \subseteq Recorded
  BY DEF Way, WantedIn
<1>2. IsFiniteSet(Recorded)
  BY DEF IInv, RInv
<1>3. IsFiniteSet(Way(s, f)) /\ IsFiniteSet(WantedIn(f))
  BY <1>1, <1>2, EmittersFinite, FS_Subset
<1> QED
  BY <1>3, FS_CardinalityType

LEMMA HubTypes ==
  ASSUME TypeOK, NEW s \in Connections
  PROVE  /\ channel[s] \in Seq(Events) /\ taken[s] \in Seq(Events) /\ Seen(s) \in Seq(Events)
         /\ Len(channel[s]) \in Nat /\ Len(taken[s]) \in Nat
         /\ Len(Seen(s)) = Len(taken[s]) + Len(channel[s]) /\ Len(Seen(s)) \in Nat
         /\ lost[s] \in Nat /\ before[s] \in Nat
         /\ \A i \in DOMAIN Seen(s) :
              /\ Seen(s)[i] \in Events /\ Seen(s)[i].run \in RunIDs
              /\ Seen(s)[i].sequence \in 1 .. Most
<1>1. /\ channel[s] \in Seq(Events) /\ taken[s] \in Seq(Events)
      /\ lost[s] \in Nat /\ before[s] \in Nat
  BY DEF TypeOK
<1>2. Seen(s) \in Seq(Events) /\ Len(Seen(s)) = Len(taken[s]) + Len(channel[s])
  BY <1>1 DEF Seen
<1>3. Len(Seen(s)) \in Nat /\ \A i \in DOMAIN Seen(s) : Seen(s)[i] \in Events
  <2>1. \A u \in Seq(Events) : Len(u) \in Nat /\ \A i \in DOMAIN u : u[i] \in Events
    OBVIOUS
  <2> QED
    BY <1>2, <2>1
<1>5. Len(channel[s]) \in Nat /\ Len(taken[s]) \in Nat
  BY <1>1
<1>4. \A x \in Events : x.run \in RunIDs /\ x.sequence \in 1 .. Most
  BY DEF Events
<1> QED
  <2>1. \A i \in DOMAIN Seen(s) : /\ Seen(s)[i] \in Events /\ Seen(s)[i].run \in RunIDs
                                  /\ Seen(s)[i].sequence \in 1 .. Most
    BY <1>3, <1>4, Zenon
  <2> QED
    BY <1>1, <1>2, <1>3, <1>5, <2>1

LEMMA OrderKept ==
  ASSUME SameOrder, \A s \in Connections : Seen(s)' = Seen(s)
  PROVE  SameOrder'
  BY DEF SameOrder

LEMMA OnceKept ==
  ASSUME Once, \A s \in Connections : Seen(s)' = Seen(s), UNCHANGED trace,
         \A e \in Emitters : Busy(e)' => event'[e] = event[e] /\ Busy(e),
         \A e \in Emitters : emit'[e] # "idle" => emit'[e] = emit[e] /\ visiting'[e] = visiting[e]
  PROVE  Once'
  BY DEF Once, Busy

(* The emitter that carries an event carries no other's.                   *)
LEMMA Carries ==
  ASSUME IInv, NEW e \in Emitters, Busy(e)
  PROVE  /\ event[e] \in Events /\ event[e].from = e
         /\ event[e].sequence <= Len(trace[event[e].run])
         /\ \A f \in Emitters : Busy(f) /\ event[f] = event[e] => f = e
<1>1. \A f \in Emitters : Busy(f) => event[f].from = f
  BY DEF IInv, RInv, Carried
<1>2. /\ event[e] \in Events /\ event[e].run = RunBehind(e)
      /\ event[e].sequence \in DOMAIN trace[RunBehind(e)]
  BY DEF IInv, RInv, Carried
<1>3. trace[RunBehind(e)] \in Seq(Emitters)
  BY EmitterKinds DEF IInv, RInv, RecordingTypeOK
<1> QED
  BY <1>1, <1>2, <1>3

-----------------------------------------------------------------------------
(* An event is recorded: by Begin, Emit or NodeReturn.                     *)
LEMMA RecordStep ==
  ASSUME IInv, NEW e \in Emitters, Grown(e), ~Busy(e), RInv({"publishing"})',
         UNCHANGED <<mu, visiting, subscriptions, queues>>
  PROVE  IInv'
<1> DEFINE r == RunBehind(e)
           n == Len(trace[r]) + 1
<1>1. /\ emit \in [Emitters -> {"idle", "handler"} \cup {"publishing"}]
      /\ event \in [Emitters -> Events \cup {None}]
      /\ trace \in [RunIDs -> Seq(Emitters)] /\ trace' \in [RunIDs -> Seq(Emitters)]
  BY DEF IInv, RInv, RecordingTypeOK
<1>2. /\ UNCHANGED <<mu, visiting, subscribers, conn, filter, before, broken, channel, closed, taken, lost>>
      /\ \A s : Seen(s)' = Seen(s)
  BY DEF subscriptions, queues, Seen
<1>3. /\ r \in RunIDs /\ n \in Nat /\ Len(trace[r]) \in Nat
      /\ emit' = [emit EXCEPT ![e] = "handler"]
      /\ event' = [event EXCEPT ![e] = [run |-> r, sequence |-> n, from |-> e]]
      /\ Len(trace'[r]) = n /\ trace'[r][n] = e
      /\ \A i \in DOMAIN trace[r] : trace'[r][i] = trace[r][i]
      /\ \A q \in RunIDs \ {r} : trace'[q] = trace[q]
      /\ <<r, n>> \notin Recorded /\ Recorded' = Recorded \cup {<<r, n>>}
  BY <1>1, EmitterKinds DEF Grown
<1>4. TypeOK'
  BY <1>2 DEF IInv, TypeOK, RInv
<1>5. MuHeld' /\ Seats'
  BY <1>1, <1>2, <1>3 DEF IInv, MuHeld, Seats, Busy
<1>6. Once'
  <2> SUFFICES ASSUME NEW s \in Connections
               PROVE  /\ \A i \in DOMAIN Seen(s) : Seen(s)[i].sequence <= Len(trace'[Seen(s)[i].run])
                      /\ \A i, j \in DOMAIN Seen(s) : Seen(s)[i] = Seen(s)[j] => i = j
                      /\ \A f \in Emitters : \A i \in DOMAIN Seen(s) :
                           Busy(f)' /\ Seen(s)[i] = event'[f] =>
                             emit'[f] = "publishing" /\ s \notin visiting[f] /\ i = Len(Seen(s))
    BY <1>2 DEF Once
  <2>1. ASSUME NEW i \in DOMAIN Seen(s)
        PROVE  /\ Seen(s)[i].run \in RunIDs /\ Seen(s)[i].sequence \in Int
               /\ Seen(s)[i].sequence <= Len(trace[Seen(s)[i].run])
    <3>1. TypeOK
      BY DEF IInv
    <3>2. Seen(s)[i].run \in RunIDs /\ Seen(s)[i].sequence \in 1 .. Most
      BY <3>1, HubTypes
    <3> QED
      BY <3>2 DEF IInv, Once
  <2>2. ASSUME NEW i \in DOMAIN Seen(s) PROVE Seen(s)[i].sequence <= Len(trace'[Seen(s)[i].run])
    <3>1. CASE Seen(s)[i].run = r
      BY <1>3, <2>1, <3>1
    <3>2. CASE Seen(s)[i].run # r
      BY <1>3, <2>1, <3>2
    <3> QED
      BY <3>1, <3>2
  <2>3. ASSUME NEW f \in Emitters, NEW i \in DOMAIN Seen(s), Busy(f)', Seen(s)[i] = event'[f]
        PROVE  emit'[f] = "publishing" /\ s \notin visiting[f] /\ i = Len(Seen(s))
    <3>1. CASE f = e
      <4>1. Seen(s)[i].run = r /\ Seen(s)[i].sequence = n
        BY <1>1, <1>3, <2>3, <3>1
      <4> QED
        BY <1>3, <2>1, <4>1
    <3>2. CASE f # e
      <4>1. emit'[f] = emit[f] /\ event'[f] = event[f] /\ Busy(f)
        BY <1>1, <1>3, <2>3, <3>2 DEF Busy
      <4> QED
        BY <2>3, <4>1 DEF IInv, Once
    <3> QED
      BY <3>1, <3>2
  <2> QED
    BY <2>2, <2>3 DEF IInv, Once
<1>7. SameOrder'
  BY <1>2, OrderKept DEF IInv
<1>8. ASSUME NEW s \in subscribers', NEW f, f = filter'[s] PROVE Account(s, f)'
  <2>1. Account(s, f) /\ s \in Connections
    BY <1>2, <1>8, AccountsNow DEF IInv, TypeOK
  <2>2. /\ IsFiniteSet(Way(s, f)) /\ Cardinality(Way(s, f)) \in Nat
        /\ IsFiniteSet(WantedIn(f)) /\ Cardinality(WantedIn(f)) \in Nat
    BY Counts
  <2>3. /\ Len(Seen(s)) \in Nat /\ lost[s] \in Nat /\ before[s] \in Nat
    <3>1. TypeOK
      BY DEF IInv
    <3> QED
      BY <2>1, <3>1, HubTypes
  <2>4. ASSUME NEW p \in Recorded PROVE trace'[p[1]][p[2]] = trace[p[1]][p[2]]
    <3>1. p[1] \in RunIDs /\ p[2] \in 1 .. Most /\ p[2] <= Len(trace[p[1]])
      BY DEF Recorded
    <3>2. p[2] \in Int /\ 1 <= p[2]
      BY <3>1
    <3>3. p[2] \in DOMAIN trace[p[1]]
      BY <1>1, <3>1, <3>2
    <3>4. CASE p[1] = r
      BY <1>3, <3>3, <3>4
    <3>5. CASE p[1] # r
      BY <1>3, <3>1, <3>5
    <3> QED
      BY <3>4, <3>5
  <2>5. WantedIn(f)' = {p \in Recorded' : Wanted(f, trace'[p[1]][p[2]])}
    BY DEF WantedIn
  <2>6. <<r, n>>[1] = r /\ <<r, n>>[2] = n /\ trace'[<<r, n>>[1]][<<r, n>>[2]] = e
    BY <1>3
  <2>7. e \notin Way(s, f) /\ <<r, n>> \notin WantedIn(f)
    BY <1>3 DEF Way, WantedIn, Busy
  <2>8. CASE Wanted(f, e)
    <3>1. WantedIn(f)' = WantedIn(f) \cup {<<r, n>>}
      BY <1>3, <2>4, <2>5, <2>6, <2>8 DEF WantedIn
    <3>2. Way(s, f)' = Way(s, f) \cup {e}
      BY <1>1, <1>2, <1>3, <2>8 DEF Way, Busy
    <3>3. Cardinality(WantedIn(f) \cup {<<r, n>>}) = Cardinality(WantedIn(f)) + 1
      BY <2>2, <2>7, FS_AddElement
    <3>4. Cardinality(Way(s, f) \cup {e}) = Cardinality(Way(s, f)) + 1
      BY <2>2, <2>7, FS_AddElement
    <3>5. /\ Cardinality(WantedIn(f)') = Cardinality(WantedIn(f)) + 1
          /\ Cardinality(Way(s, f)') = Cardinality(Way(s, f)) + 1
      BY <3>1, <3>2, <3>3, <3>4
    <3> QED
      BY <1>2, <2>1, <2>2, <2>3, <3>5, SMTT(20) DEF Account
  <2>9. CASE ~Wanted(f, e)
    <3>1. WantedIn(f)' = WantedIn(f)
      BY <1>3, <2>4, <2>5, <2>6, <2>9 DEF WantedIn
    <3>2. Way(s, f)' = Way(s, f)
      BY <1>1, <1>2, <1>3, <2>9 DEF Way, Busy
    <3> QED
      BY <1>2, <2>1, <3>1, <3>2 DEF Account
  <2> QED
    BY <2>8, <2>9
<1>9. EachMatchOffered'
  BY <1>8, AccountsNext
<1> QED
  BY <1>4, <1>5, <1>6, <1>7, <1>9 DEF IInv

-----------------------------------------------------------------------------
(* Publish takes the mutex; the event is on its way to all in the map.     *)
LEMMA PublishStep ==
  ASSUME IInv, NEW e \in Emitters, Publish(e)
  PROVE  IInv'
<1>1. /\ emit \in [Emitters -> {"idle", "handler"} \cup {"publishing"}]
      /\ visiting \in [Emitters -> SUBSET Connections] /\ subscribers \subseteq Connections
  BY DEF IInv, RInv, RecordingTypeOK, TypeOK
<1>2. /\ emit[e] = "handler" /\ Busy(e) /\ mu = None /\ mu' = e
      /\ visiting' = [visiting EXCEPT ![e] = subscribers]
      /\ emit' = [emit EXCEPT ![e] = "publishing"]
      /\ UNCHANGED <<run, event, emits, emitMu, trace>>
      /\ UNCHANGED <<subscribers, conn, filter, before, broken, channel, closed, taken, lost>>
      /\ \A s : Seen(s)' = Seen(s)
  BY DEF Publish, MuFree, Busy, subscriptions, queues, Seen
<1>3. /\ RInv({"publishing"})' /\ Recorded' = Recorded
      /\ \A f \in Emitters : Busy(f)' <=> Busy(f)
  <2>1. RInv({"publishing"}) /\ "publishing" \in {"publishing"} /\ "publishing" # "idle"
    BY DEF IInv
  <2> QED
    BY <1>2, <2>1, StageKeeps
<1>4. TypeOK'
  BY <1>1, <1>2, <1>3 DEF IInv, TypeOK, RInv
<1>5. \A f \in Emitters : emit[f] # "publishing"
  BY <1>2, EmitterKinds DEF IInv, MuHeld
<1>6. MuHeld'
  BY <1>1, <1>2, <1>5 DEF IInv, MuHeld
<1>7. Seats'
  BY <1>2 DEF IInv, Seats
<1>8. Once'
  BY <1>2, <1>3, <1>5 DEF IInv, Once
<1>9. SameOrder'
  BY <1>2, OrderKept DEF IInv
<1>10. ASSUME NEW s \in subscribers', NEW f, f = filter'[s] PROVE Account(s, f)'
  <2>1. Account(s, f)
    BY <1>2, <1>10, AccountsNow DEF IInv
  <2>2. Way(s, f)' = Way(s, f)
    BY <1>1, <1>2, <1>5, <1>10 DEF Way
  <2>3. WantedIn(f)' = WantedIn(f)
    BY <1>2, <1>3 DEF WantedIn
  <2> QED
    BY <1>2, <2>1, <2>2, <2>3 DEF Account
<1>11. EachMatchOffered'
  BY <1>10, AccountsNext
<1> QED
  BY <1>3, <1>4, <1>6, <1>7, <1>8, <1>9, <1>11 DEF IInv

(* Publish has visited all and lets the mutex go.                          *)
LEMMA PublishedStep ==
  ASSUME IInv, NEW e \in Emitters, Published(e)
  PROVE  IInv'
<1>1. /\ emit \in [Emitters -> {"idle", "handler"} \cup {"publishing"}]
      /\ emit[e] = "publishing" /\ Busy(e) /\ visiting[e] = {} /\ mu = e /\ mu' = None /\ Handled(e)
      /\ UNCHANGED <<visiting, subscribers, conn, filter, before, broken, channel, closed, taken, lost>>
      /\ \A s : Seen(s)' = Seen(s)
  BY DEF Published, IInv, RInv, RecordingTypeOK, MuHeld, Busy, subscriptions, queues, Seen
<1>2. /\ RInv({"publishing"})' /\ Recorded' = Recorded /\ UNCHANGED trace
      /\ \A f \in Emitters \ {e} : emit'[f] = emit[f] /\ event'[f] = event[f]
      /\ emit'[e] = "idle"
  <2>1. RInv({"publishing"})
    BY DEF IInv
  <2> QED
    BY <1>1, <2>1, HandledKeeps
<1>3. TypeOK'
  BY <1>1, <1>2 DEF IInv, TypeOK, RInv
<1>4. MuHeld'
  BY <1>1, <1>2, EmitterKinds DEF IInv, MuHeld
<1>5. Seats'
  BY <1>1 DEF IInv, Seats
<1>6. Once'
  BY <1>1, <1>2, OnceKept DEF IInv, Busy
<1>7. SameOrder'
  BY <1>1, OrderKept DEF IInv
<1>8. ASSUME NEW s \in subscribers', NEW f, f = filter'[s] PROVE Account(s, f)'
  <2>1. Account(s, f)
    BY <1>1, <1>8, AccountsNow DEF IInv
  <2>2. Way(s, f)' = Way(s, f)
    BY <1>1, <1>2 DEF Way
  <2>3. WantedIn(f)' = WantedIn(f)
    BY <1>2 DEF WantedIn
  <2> QED
    BY <1>1, <2>1, <2>2, <2>3 DEF Account
<1>9. EachMatchOffered'
  BY <1>8, AccountsNext
<1> QED
  BY <1>2, <1>3, <1>4, <1>5, <1>6, <1>7, <1>9 DEF IInv

-----------------------------------------------------------------------------
(* Publish visits a subscription: the event is queued, lost or not wanted. *)
Offered(e, s) ==
  \/ /\ Wanted(filter[s], e) /\ Room(s) /\ UNCHANGED lost
     /\ channel' = [channel EXCEPT ![s] = Append(@, event[e])] /\ Seen(s)' = Append(Seen(s), event[e])
  \/ /\ Wanted(filter[s], e) /\ ~Room(s) /\ lost' = [lost EXCEPT ![s] = @ + 1]
     /\ UNCHANGED channel /\ Seen(s)' = Seen(s)
  \/ /\ ~Wanted(filter[s], e) /\ UNCHANGED <<channel, lost>> /\ Seen(s)' = Seen(s)

LEMMA VisitIs ==
  ASSUME IInv, NEW e \in Emitters, NEW s \in Connections, Visit(e, s)
  PROVE  /\ Offered(e, s)
         /\ \A t \in Connections \ {s} : Seen(t)' = Seen(t) /\ channel'[t] = channel[t] /\ lost'[t] = lost[t]
         /\ UNCHANGED taken
<1>1. /\ channel \in [Connections -> Seq(Events)] /\ taken \in [Connections -> Seq(Events)]
      /\ lost \in [Connections -> Nat] /\ UNCHANGED taken
  BY DEF IInv, TypeOK, Visit
<1>2. Matches(s, e) <=> Wanted(filter[s], e)
  BY DEF Matches, Wanted
<1>3. event[e] \in Events /\ channel[s] \in Seq(Events) /\ taken[s] \in Seq(Events)
  BY <1>1, Carries DEF Visit, Busy
<1>4. \/ /\ Wanted(filter[s], e) /\ Room(s) /\ UNCHANGED lost
         /\ channel' = [channel EXCEPT ![s] = Append(@, event[e])]
      \/ Wanted(filter[s], e) /\ ~Room(s) /\ lost' = [lost EXCEPT ![s] = @ + 1] /\ UNCHANGED channel
      \/ ~Wanted(filter[s], e) /\ UNCHANGED <<channel, lost>>
  BY <1>2 DEF Visit
<1>5. ASSUME NEW t \in Connections \ {s}
      PROVE Seen(t)' = Seen(t) /\ channel'[t] = channel[t] /\ lost'[t] = lost[t]
  BY <1>1, <1>4 DEF Seen
<1>6. channel' = channel => Seen(s)' = Seen(s)
  BY <1>1 DEF Seen
<1>7. channel' = [channel EXCEPT ![s] = Append(@, event[e])] => Seen(s)' = Append(Seen(s), event[e])
  <2> SUFFICES ASSUME channel' = [channel EXCEPT ![s] = Append(@, event[e])]
               PROVE  Seen(s)' = Append(Seen(s), event[e])
    OBVIOUS
  <2>1. channel'[s] = Append(channel[s], event[e])
    BY <1>1
  <2>2. taken[s] \o Append(channel[s], event[e]) = Append(taken[s] \o channel[s], event[e])
    <3>1. \A u, v \in Seq(Events) : \A x \in Events : u \o Append(v, x) = Append(u \o v, x)
      BY PutSees
    <3> QED
      BY <1>3, <3>1, Zenon
  <2> QED
    BY <1>1, <2>1, <2>2 DEF Seen
<1> QED
  BY <1>1, <1>4, <1>5, <1>6, <1>7 DEF Offered

(* The places of a sequence that the visit may have made longer.           *)
Old(s, i) == i \in DOMAIN Seen(s) /\ Seen(s)'[i] = Seen(s)[i]
Last(s, i) ==
  /\ i \notin DOMAIN Seen(s) /\ i = Len(Seen(s)')
  /\ \A j \in DOMAIN Seen(s)' \ {i} : j < i

LEMMA VisitPlaces ==
  ASSUME IInv, NEW e \in Emitters, NEW s \in Connections, Visit(e, s)
  PROVE  /\ \A t \in Connections : \A i \in DOMAIN Seen(t)' :
              Old(t, i) \/ (t = s /\ Last(s, i) /\ Seen(s)'[i] = event[e])
         /\ \A i \in DOMAIN Seen(s) : Seen(s)[i] # event[e]
         /\ \A t \in Connections : \A i \in DOMAIN Seen(t) : Seen(t)[i] = event[e] => i = Len(Seen(t))
<1>1. Busy(e) /\ s \in visiting[e]
  BY DEF Visit, Busy
<1>2. /\ \A i \in DOMAIN Seen(s) : Seen(s)[i] # event[e]
      /\ \A t \in Connections : \A i \in DOMAIN Seen(t) : Seen(t)[i] = event[e] => i = Len(Seen(t))
  BY <1>1 DEF IInv, Once
<1>3. event[e] \in Events
  BY <1>1, Carries
<1>4. TypeOK
  BY DEF IInv
<1>5. ASSUME NEW t \in Connections, NEW i \in DOMAIN Seen(t)'
      PROVE  Old(t, i) \/ (t = s /\ Last(s, i) /\ Seen(s)'[i] = event[e])
  <2>1. CASE Seen(t)' = Seen(t)
    BY <1>5, <2>1 DEF Old
  <2>2. CASE t = s /\ Seen(s)' = Append(Seen(s), event[e])
    <3> DEFINE u == Seen(s)
    <3>1. u \in Seq(Events)
      BY <1>4, HubTypes
    <3> HIDE DEF u
    <3>2. /\ \A j \in DOMAIN Append(u, event[e]) :
               \/ j \in DOMAIN u /\ Append(u, event[e])[j] = u[j]
               \/ /\ j \notin DOMAIN u /\ Append(u, event[e])[j] = event[e]
                  /\ \A k \in DOMAIN Append(u, event[e]) \ {j} : k < j
          /\ Append(u, event[e]) \in Seq(Events) /\ Len(Append(u, event[e])) = Len(u) + 1
      BY <1>3, <3>1, AppendLast
    <3>3. \A j \in DOMAIN Append(u, event[e]) : j \notin DOMAIN u => j = Len(Append(u, event[e]))
      BY <3>1, <3>2
    <3> QED
      BY <1>5, <2>2, <3>2, <3>3 DEF u, Old, Last
  <2> QED
    BY <2>1, <2>2, VisitIs DEF Offered
<1> QED
  BY <1>2, <1>5

LEMMA VisitSeq ==
  ASSUME IInv, NEW e \in Emitters, NEW s \in Connections, Visit(e, s)
  PROVE  \A t \in Connections : Seen(t)' \in Seq(Events)
<1>1. TypeOK
  BY DEF IInv
<1>2. \A t \in Connections : Seen(t) \in Seq(Events)
  BY <1>1, HubTypes
<1>3. event[e] \in Events
  BY Carries DEF Visit, Busy
<1>4. Append(Seen(s), event[e]) \in Seq(Events)
  BY <1>2, <1>3, AppendLast
<1> QED
  BY <1>2, <1>4, VisitIs DEF Offered

(* A visit keeps the one order of all subscriptions: the event is last     *)
(* where it is, and new where it comes.                                    *)
LEMMA VisitOrder ==
  ASSUME IInv, NEW e \in Emitters, NEW s \in Connections, Visit(e, s)
  PROVE  /\ SameOrder'
         /\ \A t \in Connections : \A i, j \in DOMAIN Seen(t)' : Seen(t)'[i] = Seen(t)'[j] => i = j
<1> DEFINE x == event[e]
           New(t, i) == t = s /\ Last(s, i) /\ Seen(s)'[i] = x
<1>1. \A t \in Connections : \A i \in DOMAIN Seen(t)' : Old(t, i) \/ New(t, i)
  BY VisitPlaces
<1>2. \A i \in DOMAIN Seen(s) : Seen(s)[i] # x
  BY VisitPlaces
<1>3. \A t \in Connections : \A i \in DOMAIN Seen(t) : Seen(t)[i] = x => i = Len(Seen(t))
  BY VisitPlaces
<1>4. \A t \in Connections : \A i, j \in DOMAIN Seen(t) : Seen(t)[i] = Seen(t)[j] => i = j
  BY DEF IInv, Once
<1>5. \A t \in Connections : \A i \in DOMAIN Seen(t)' : New(t, i) =>
        \A j \in DOMAIN Seen(t)' \ {i} : j < i
  BY DEF Last
<1>6. \A t \in Connections : \A i \in DOMAIN Seen(t) : i \in Int /\ i <= Len(Seen(t)) /\ Len(Seen(t)) \in Int
  <2> SUFFICES ASSUME NEW t \in Connections
               PROVE  \A i \in DOMAIN Seen(t) : i \in Int /\ i <= Len(Seen(t)) /\ Len(Seen(t)) \in Int
    OBVIOUS
  <2>1. TypeOK
    BY DEF IInv
  <2>2. Seen(t) \in Seq(Events)
    BY <2>1, HubTypes
  <2>3. \A u \in Seq(Events) : \A i \in DOMAIN u : i \in Int /\ i <= Len(u) /\ Len(u) \in Int
    OBVIOUS
  <2> QED
    BY <2>2, <2>3
<1>7. \A t \in Connections : \A i \in DOMAIN Seen(t)' : i \in Int
  <2> SUFFICES ASSUME NEW t \in Connections, NEW i \in DOMAIN Seen(t)' PROVE i \in Int
    OBVIOUS
  <2>1. \E u \in Seq(Events) : Seen(t)' = u
    BY VisitSeq
  <2> QED
    BY <2>1
<1>8. ASSUME NEW t \in Connections, NEW u \in Connections,
             NEW i \in DOMAIN Seen(t)', NEW j \in DOMAIN Seen(t)',
             NEW k \in DOMAIN Seen(u)', NEW l \in DOMAIN Seen(u)',
             i < j, Seen(t)'[i] = Seen(u)'[k], Seen(t)'[j] = Seen(u)'[l]
      PROVE  k < l
  <2> HIDE DEF x
  <2>1. Old(t, i)
    <3> SUFFICES ASSUME New(t, i) PROVE FALSE
      BY <1>1
    <3>1. i \in Int /\ j \in Int
      BY <1>7
    <3>2. j < i
      BY <1>5, <1>8, <3>1
    <3> QED
      BY <1>8, <3>1, <3>2
  <2>2. i \in DOMAIN Seen(t) /\ Seen(t)'[i] = Seen(t)[i]
    BY <2>1 DEF Old
  <2>3. CASE Old(t, j)
    <3>1. j \in DOMAIN Seen(t) /\ Seen(t)'[j] = Seen(t)[j]
      BY <2>3 DEF Old
    <3>2. CASE Old(u, k) /\ Old(u, l)
      BY <1>8, <2>2, <3>1, <3>2 DEF IInv, SameOrder, Old
    <3>3. CASE New(u, l)
      <4>1. k # l
        <5>1. i # j
          BY <1>6, <1>8, <2>2, <3>1
        <5>2. Seen(t)[i] # Seen(t)[j]
          BY <1>4, <2>2, <3>1, <5>1
        <5> QED
          BY <1>8, <2>2, <3>1, <5>2
      <4> QED
        BY <1>5, <3>3, <4>1
    <3>4. CASE Old(u, l) /\ New(u, k)
      <4>1. Seen(t)[i] = x
        BY <1>8, <2>2, <3>4
      <4>2. i = Len(Seen(t)) /\ j <= Len(Seen(t)) /\ i \in Int /\ j \in Int
        BY <1>3, <1>6, <2>2, <3>1, <4>1
      <4> QED
        BY <1>8, <4>2
    <3> QED
      BY <1>1, <3>2, <3>3, <3>4
  <2>4. CASE New(t, j)
    <3>1. t = s /\ Seen(u)'[l] = x /\ Seen(t)[i] # x
      BY <1>2, <1>8, <2>2, <2>4
    <3>2. k # l
      BY <1>8, <2>2, <3>1
    <3>3. CASE New(u, l)
      BY <1>5, <3>2, <3>3
    <3>4. CASE Old(u, l)
      <4>1. l \in DOMAIN Seen(u) /\ Seen(u)[l] = x
        BY <3>1, <3>4 DEF Old
      <4>2. u # s /\ l = Len(Seen(u))
        BY <1>2, <1>3, <4>1
      <4>3. k \in DOMAIN Seen(u)
        BY <1>1, <4>2 DEF Old
      <4>4. k \in Int /\ l \in Int /\ k <= Len(Seen(u))
        BY <1>6, <4>1, <4>3
      <4> QED
        BY <3>2, <4>2, <4>4
    <3> QED
      BY <1>1, <3>3, <3>4
  <2> QED
    BY <1>1, <2>3, <2>4
<1>9. ASSUME NEW t \in Connections, NEW i \in DOMAIN Seen(t)', NEW j \in DOMAIN Seen(t)',
             Seen(t)'[i] = Seen(t)'[j]
      PROVE  i = j
  <2> HIDE DEF x
  <2>1. CASE Old(t, i) /\ Old(t, j)
    BY <1>4, <1>9, <2>1 DEF Old
  <2>2. CASE New(t, i) /\ New(t, j)
    BY <2>2 DEF Last
  <2>3. CASE (Old(t, i) /\ New(t, j)) \/ (New(t, i) /\ Old(t, j))
    BY <1>2, <1>9, <2>3 DEF Old
  <2> QED
    BY <1>1, <2>1, <2>2, <2>3
<1> HIDE DEF New
<1>10. SameOrder'
  BY <1>8 DEF SameOrder
<1> QED
  BY <1>9, <1>10

LEMMA VisitOnce ==
  ASSUME IInv, NEW e \in Emitters, NEW s \in Connections, Visit(e, s)
  PROVE  Once'
<1>1. /\ emit[e] = "publishing" /\ Busy(e) /\ s \in visiting[e]
      /\ visiting' = [visiting EXCEPT ![e] = visiting[e] \ {s}]
      /\ visiting \in [Emitters -> SUBSET Connections]
      /\ UNCHANGED <<run, emit, event, emits, emitMu, trace>>
  BY DEF Visit, Others, Busy, recording, IInv, TypeOK
<1>2. event[e].sequence <= Len(trace[event[e].run])
  BY <1>1, Carries
<1>3. \A t \in Connections : \A i \in DOMAIN Seen(t)' :
        Old(t, i) \/ (t = s /\ Last(s, i) /\ Seen(s)'[i] = event[e])
  BY VisitPlaces
<1>4. ASSUME NEW t \in Connections, NEW i \in DOMAIN Seen(t)'
      PROVE  Seen(t)'[i].sequence <= Len(trace[Seen(t)'[i].run])
  <2>1. CASE Old(t, i)
    BY <2>1 DEF Old, IInv, Once
  <2>2. CASE t = s /\ Seen(s)'[i] = event[e]
    BY <1>2, <2>2
  <2> QED
    BY <1>3, <2>1, <2>2
<1>5. ASSUME NEW t \in Connections, NEW f \in Emitters, NEW i \in DOMAIN Seen(t)',
             Busy(f), Seen(t)'[i] = event[f]
      PROVE  emit[f] = "publishing" /\ t \notin visiting'[f] /\ i = Len(Seen(t)')
  <2>1. CASE Old(t, i)
    <3>1. emit[f] = "publishing" /\ t \notin visiting[f] /\ i = Len(Seen(t))
      BY <1>5, <2>1 DEF Old, IInv, Once
    <3>2. f = e
      BY <1>1, <3>1 DEF IInv, MuHeld
    <3>3. t # s /\ t \notin visiting'[f]
      BY <1>1, <3>1, <3>2
    <3>4. Seen(t)' = Seen(t)
      BY <3>3, VisitIs
    <3> QED
      BY <3>1, <3>3, <3>4
  <2>2. CASE t = s /\ Last(s, i) /\ Seen(s)'[i] = event[e]
    <3>1. f = e
      BY <1>1, <1>5, <2>2, Carries
    <3>2. t \notin visiting'[f]
      BY <1>1, <2>2, <3>1
    <3> QED
      BY <1>1, <2>2, <3>1, <3>2 DEF Last
  <2> QED
    BY <1>3, <1>5, <2>1, <2>2
<1>6. \A t \in Connections : \A i, j \in DOMAIN Seen(t)' : Seen(t)'[i] = Seen(t)'[j] => i = j
  BY VisitOrder
<1>7. \A f \in Emitters : Busy(f)' <=> Busy(f)
  BY <1>1 DEF Busy
<1> QED
  BY <1>1, <1>4, <1>5, <1>6, <1>7 DEF Once

LEMMA VisitStep ==
  ASSUME IInv, NEW e \in Emitters, NEW s \in Connections, Visit(e, s)
  PROVE  IInv'
<1>1. /\ emit[e] = "publishing" /\ Busy(e) /\ s \in visiting[e]
      /\ visiting' = [visiting EXCEPT ![e] = visiting[e] \ {s}]
      /\ visiting \in [Emitters -> SUBSET Connections]
      /\ UNCHANGED recording /\ UNCHANGED <<run, emit, event, emits, emitMu, trace>>
      /\ UNCHANGED <<mu, subscribers, conn, filter, before, broken, closed, taken>>
  BY DEF Visit, Others, Busy, recording, subscriptions, IInv, TypeOK
<1>2. RInv({"publishing"})' /\ Recorded' = Recorded
  BY <1>1, StillKeeps DEF IInv
<1>3. /\ Offered(e, s)
      /\ \A t \in Connections \ {s} : Seen(t)' = Seen(t) /\ channel'[t] = channel[t] /\ lost'[t] = lost[t]
  BY VisitIs
<1>4. /\ channel \in [Connections -> Seq(Events)] /\ lost \in [Connections -> Nat]
      /\ \A t \in Connections : Len(channel[t]) <= Buffer
      /\ Buffer \in Nat /\ event[e] \in Events /\ Len(channel[s]) \in Nat /\ lost[s] \in Nat
  <2>1. event[e] \in Events
    BY <1>1, Carries
  <2>2. /\ channel \in [Connections -> Seq(Events)] /\ lost \in [Connections -> Nat]
        /\ \A t \in Connections : Len(channel[t]) <= Buffer
        /\ Buffer \in Nat
    BY HubAssumption DEF HubAssumption, IInv, TypeOK
  <2>3. channel[s] \in Seq(Events)
    BY <2>2
  <2> QED
    BY <2>1, <2>2, <2>3
<1>5. /\ channel' \in [Connections -> Seq(Events)] /\ lost' \in [Connections -> Nat]
      /\ \A t \in Connections : Len(channel'[t]) <= Buffer
  <2>1. CASE UNCHANGED channel /\ (lost' = [lost EXCEPT ![s] = @ + 1] \/ lost' = lost)
    BY <1>4, <2>1
  <2>2. CASE Room(s) /\ UNCHANGED lost /\ channel' = [channel EXCEPT ![s] = Append(@, event[e])]
    <3>1. channel[s] \in Seq(Events)
      BY <1>4
    <3>2. Append(channel[s], event[e]) \in Seq(Events) /\ Len(Append(channel[s], event[e])) = Len(channel[s]) + 1
      BY <1>4, <3>1, AppendLast
    <3>3. channel' \in [Connections -> Seq(Events)]
      BY <1>4, <2>2, <3>2
    <3>4. Len(channel'[s]) <= Buffer
      BY <1>4, <2>2, <3>2 DEF Room
    <3> QED
      BY <1>3, <1>4, <2>2, <3>3, <3>4
  <2> QED
    BY <1>3, <2>1, <2>2 DEF Offered
<1>6. TypeOK'
  <2>1. visiting' \in [Emitters -> SUBSET Connections]
    BY <1>1
  <2> QED
    BY <1>1, <1>2, <1>5, <2>1 DEF IInv, TypeOK, RInv
<1>7. MuHeld'
  BY <1>1 DEF IInv, MuHeld
<1>8. Seats'
  <2>1. s \in subscribers /\ conn[s] # "new"
    BY <1>1 DEF IInv, MuHeld, Seats
  <2> QED
    BY <1>1, <1>3, <2>1 DEF IInv, Seats
<1>9. ASSUME NEW t \in subscribers', NEW f, f = filter'[t] PROVE Account(t, f)'
  <2>1. Account(t, f) /\ t \in Connections
    BY <1>1, <1>9, AccountsNow DEF IInv, TypeOK
  <2>2. WantedIn(f)' = WantedIn(f)
    BY <1>1, <1>2 DEF WantedIn
  <2>3. TypeOK
    BY DEF IInv
  <2>4. CASE t # s \/ ~Wanted(f, e)
    <3>1. Way(t, f)' = Way(t, f)
      BY <1>1, <2>4 DEF Way
    <3>2. Seen(t)' = Seen(t) /\ lost'[t] = lost[t]
      BY <1>1, <1>3, <1>9, <2>1, <2>4 DEF Offered
    <3> QED
      BY <1>1, <2>1, <2>2, <3>1, <3>2 DEF Account
  <2>5. CASE t = s /\ Wanted(f, e)
    <3>1. Way(t, f)' = Way(t, f) \ {e} /\ e \in Way(t, f)
      BY <1>1, <2>5 DEF Way
    <3>2. IsFiniteSet(Way(t, f)) /\ Cardinality(Way(t, f)) \in Nat /\ Cardinality(WantedIn(f)) \in Nat
      BY Counts
    <3>3. Cardinality(Way(t, f) \ {e}) = Cardinality(Way(t, f)) - 1
      BY <3>1, <3>2, FS_RemoveElement
    <3>4. Seen(t) \in Seq(Events) /\ Len(Seen(t)) \in Nat /\ lost[t] \in Nat /\ before[t] \in Nat
      BY <2>1, <2>3, HubTypes
    <3>5. Len(Append(Seen(t), event[e])) = Len(Seen(t)) + 1
      BY <1>4, <3>4, AppendLast
    <3>6. PICK n, m : n = Len(Seen(t)) /\ m = Len(Seen(t)')
      OBVIOUS
    <3>7. n \in Nat /\ Len(Append(Seen(t), event[e])) = n + 1
      BY <3>4, <3>5, <3>6, Zenon
    <3>8. m + lost'[t] = n + lost[t] + 1 /\ m \in Nat /\ lost'[t] \in Nat
      <4>1. CASE UNCHANGED lost /\ Seen(s)' = Append(Seen(s), event[e])
        <5>1. m = n + 1
          BY <2>5, <3>6, <3>7, <4>1, Zenon
        <5>2. lost'[t] = lost[t]
          BY <4>1
        <5> QED
          BY <3>4, <3>7, <5>1, <5>2
      <4>2. CASE lost' = [lost EXCEPT ![s] = @ + 1] /\ Seen(s)' = Seen(s)
        <5>1. m = n
          BY <2>5, <3>6, <4>2, Zenon
        <5>2. lost'[t] = lost[t] + 1
          BY <1>4, <2>5, <4>2
        <5> QED
          BY <3>4, <3>7, <5>1, <5>2, SMTT(20)
      <4> QED
        BY <1>1, <1>3, <1>9, <2>5, <4>1, <4>2 DEF Offered
    <3>9. Cardinality(Way(t, f)') = Cardinality(Way(t, f)) - 1
      BY <3>1, <3>3
    <3> QED
      <4>1. Cardinality(WantedIn(f)) = before[t] + Cardinality(Way(t, f)) + n + lost[t]
        BY <2>1, <3>6 DEF Account
      <4>2. Cardinality(WantedIn(f)) = before[t] + (Cardinality(Way(t, f)) - 1) + m + lost'[t]
        <5>1. PICK a, b, c, g, k :
                /\ a = Cardinality(WantedIn(f)) /\ b = before[t] /\ c = Cardinality(Way(t, f))
                /\ g = lost[t] /\ k = lost'[t]
          OBVIOUS
        <5>2. /\ a \in Nat /\ b \in Nat /\ c \in Nat /\ g \in Nat /\ k \in Nat
              /\ a = b + c + n + g /\ m + k = n + g + 1
          BY <3>2, <3>4, <3>8, <4>1, <5>1, Zenon
        <5>3. a = b + (c - 1) + m + k
          BY <3>7, <3>8, <5>2
        <5> QED
          BY <5>1, <5>3, Zenon
      <4>3. before'[t] = before[t]
        BY <1>1
      <4> QED
        BY <2>2, <3>6, <3>9, <4>2, <4>3 DEF Account
  <2> QED
    BY <2>4, <2>5
<1>10. EachMatchOffered'
  BY <1>9, AccountsNext
<1> QED
  BY <1>2, <1>6, <1>7, <1>8, <1>10, VisitOnce, VisitOrder DEF IInv

-----------------------------------------------------------------------------
(* The steps of a connection's handler that leave events where they are.   *)
LEMMA ConnStep ==
  ASSUME IInv, UNCHANGED <<recording, mu, visiting, filter, before, channel, taken, lost>>,
         subscribers' \subseteq subscribers,
         conn' \in [Connections -> {"new", "serving", "writing", "closing", "detached", "over"}],
         closed' \subseteq Connections, broken' \subseteq Connections,
         MuHeld', Seats'
  PROVE  IInv'
<1>1. UNCHANGED <<run, emit, event, emits, emitMu, trace>> /\ \A s : Seen(s)' = Seen(s)
  BY DEF recording, Seen
<1>2. RInv({"publishing"})' /\ Recorded' = Recorded
  BY StillKeeps DEF IInv
<1>3. TypeOK'
  BY <1>2 DEF IInv, TypeOK, RInv
<1>4. Once'
  BY <1>1, OnceKept DEF IInv, Busy
<1>5. SameOrder'
  BY <1>1, OrderKept DEF IInv
<1>6. ASSUME NEW s \in subscribers', NEW f, f = filter'[s] PROVE Account(s, f)'
  <2>1. Account(s, f)
    BY <1>6, AccountsNow DEF IInv
  <2>2. Way(s, f)' = Way(s, f) /\ WantedIn(f)' = WantedIn(f)
    BY <1>1, <1>2 DEF Way, WantedIn
  <2> QED
    BY <1>1, <2>1, <2>2 DEF Account
<1>7. EachMatchOffered'
  BY <1>6, AccountsNext
<1> QED
  BY <1>2, <1>3, <1>4, <1>5, <1>7 DEF IInv

LEMMA ServeSteps ==
  ASSUME IInv, NEW s \in Connections,
         Write(s) \/ WriteFails(s) \/ ContextDone(s) \/ Detach(s) \/ CloseChannel(s) \/ Break(s)
  PROVE  IInv'
<1>1. /\ UNCHANGED <<recording, mu, visiting, filter, before, channel, taken, lost>>
      /\ UNCHANGED <<run, emit, event, emits, emitMu, trace>> /\ \A t : Seen(t)' = Seen(t)
      /\ conn \in [Connections -> {"new", "serving", "writing", "closing", "detached", "over"}]
      /\ subscribers \subseteq Connections /\ closed \subseteq Connections /\ broken \subseteq Connections
  BY DEF Write, WriteFails, ContextDone, Detach, CloseChannel, Break, recording, queues, Seen, IInv, TypeOK
<1>2. CASE Write(s) \/ WriteFails(s) \/ ContextDone(s) \/ Break(s)
  <2>1. /\ UNCHANGED <<subscribers, closed>> /\ broken' \subseteq Connections
        /\ \/ UNCHANGED conn
           \/ conn[s] \in {"writing", "serving"} /\ conn' = [conn EXCEPT ![s] = "serving"]
           \/ conn[s] \in {"writing", "serving"} /\ conn' = [conn EXCEPT ![s] = "closing"]
    BY <1>1, <1>2 DEF Write, WriteFails, ContextDone, Break, AfterFailure, queues
  <2>2. MuHeld' /\ Seats'
    <3>1. MuHeld'
      BY <1>1, <2>1 DEF IInv, MuHeld
    <3>2. Seats'
      BY <1>1, <2>1 DEF IInv, Seats
    <3> QED
      BY <3>1, <3>2
  <2>3. conn' \in [Connections -> {"new", "serving", "writing", "closing", "detached", "over"}]
    BY <1>1, <2>1
  <2> QED
    BY <1>1, <2>1, <2>2, <2>3, ConnStep
<1>3. CASE Detach(s)
  <2>1. /\ conn[s] = "closing" /\ mu = None /\ subscribers' = subscribers \ {s}
        /\ conn' = [conn EXCEPT ![s] = "detached"] /\ UNCHANGED <<closed, broken>>
    BY <1>3 DEF Detach, MuFree, Detached, queues
  <2>2. \A e \in Emitters : emit[e] # "publishing" /\ visiting[e] = {}
    BY <2>1, EmitterKinds DEF IInv, MuHeld
  <2>3. MuHeld'
    BY <1>1, <2>1, <2>2 DEF IInv, MuHeld
  <2>4. Seats'
    BY <1>1, <2>1 DEF IInv, Seats
  <2>5. conn' \in [Connections -> {"new", "serving", "writing", "closing", "detached", "over"}]
    BY <1>1, <2>1
  <2> QED
    BY <1>1, <2>1, <2>3, <2>4, <2>5, ConnStep
<1>4. CASE CloseChannel(s)
  <2>1. /\ conn[s] = "detached" /\ closed' = closed \cup {s}
        /\ conn' = [conn EXCEPT ![s] = "over"] /\ UNCHANGED <<subscribers, broken>>
    BY <1>4 DEF CloseChannel
  <2>2. MuHeld'
    BY <1>1, <2>1 DEF IInv, MuHeld
  <2>3. Seats'
    BY <1>1, <2>1 DEF IInv, Seats
  <2>4. conn' \in [Connections -> {"new", "serving", "writing", "closing", "detached", "over"}]
    BY <1>1, <2>1
  <2> QED
    BY <1>1, <2>1, <2>2, <2>3, <2>4, ConnStep
<1> QED
  BY <1>2, <1>3, <1>4

-----------------------------------------------------------------------------
(* The events that wait for the hub are among those recorded.              *)
LEMMA Awaiting ==
  ASSUME IInv, NEW f
  PROVE  /\ Cardinality(AwaitingHub(f)) \in Nat /\ Cardinality(WantedIn(f)) \in Nat
         /\ Cardinality(AwaitingHub(f)) <= Cardinality(WantedIn(f))
<1> DEFINE S == AwaitingHub(f)
           T == WantedIn(f)
           place(e) == <<event[e].run, event[e].sequence>>
           g == [e \in S |-> place(e)]
<1>1. IsFiniteSet(T) /\ Cardinality(T) \in Nat
  BY Counts
<1>2. IsFiniteSet(S) /\ Cardinality(S) \in Nat
  <2>1. S \subseteq Emitters
    BY DEF AwaitingHub
  <2> QED
    BY <2>1, EmittersFinite, FS_Subset, FS_CardinalityType
<1>3. ASSUME NEW e \in S
      PROVE  place(e) \in T /\ trace[place(e)[1]][place(e)[2]] = e
  <2>1. e \in Emitters /\ Busy(e) /\ Wanted(f, e)
    BY DEF AwaitingHub, Busy
  <2>2. /\ event[e] \in Events /\ event[e].run = RunBehind(e)
        /\ event[e].sequence <= Len(trace[event[e].run])
        /\ trace[RunBehind(e)][event[e].sequence] = e
    BY <2>1, Carries DEF IInv, RInv, Carried
  <2>3. event[e].run \in RunIDs /\ event[e].sequence \in 1 .. Most
    BY <2>2 DEF Events
  <2>4. place(e) \in RunIDs \X (1 .. Most) /\ place(e)[1] = event[e].run /\ place(e)[2] = event[e].sequence
    BY <2>3
  <2> HIDE DEF place
  <2> QED
    BY <2>1, <2>2, <2>4 DEF WantedIn, Recorded
<1>4. g \in [S -> T]
  BY <1>3
<1>5. ASSUME NEW e \in S, NEW d \in S, e # d PROVE g[e] # g[d]
  BY <1>3, <1>5
<1> HIDE DEF S, T, g
<1>6. ~(Cardinality(T) < Cardinality(S))
  BY <1>1, <1>2, <1>4, <1>5, FS_PigeonHole
<1> QED
  BY <1>1, <1>2, <1>6 DEF S, T

(* A connection subscribes, or its upgrade fails.                          *)
LEMMA SubscribeStep ==
  ASSUME IInv, NEW s \in Connections, NEW f \in Filters[s], Subscribe(s, f)
  PROVE  IInv'
<1>1. /\ conn[s] = "new" /\ UNCHANGED <<recording, mu, visiting, channel, closed, taken, lost, broken>>
      /\ UNCHANGED <<run, emit, event, emits, emitMu, trace>> /\ \A t : Seen(t)' = Seen(t)
      /\ conn \in [Connections -> {"new", "serving", "writing", "closing", "detached", "over"}]
      /\ subscribers \subseteq Connections /\ closed \subseteq Connections /\ broken \subseteq Connections
      /\ before \in [Connections -> Nat]
      /\ DOMAIN filter = Connections
  BY DEF Subscribe, recording, queues, Seen, IInv, TypeOK
<1>2. CASE /\ MuFree
           /\ filter' = [filter EXCEPT ![s] = f]
           /\ subscribers' = subscribers \cup {s}
           /\ conn' = [conn EXCEPT ![s] = "serving"]
           /\ before' = [before EXCEPT ![s] = Cardinality(WantedIn(f)) - Cardinality(AwaitingHub(f))]
  <2>1. \A e \in Emitters : emit[e] # "publishing" /\ visiting[e] = {}
    BY <1>2, EmitterKinds DEF IInv, MuHeld, MuFree
  <2>2. RInv({"publishing"})' /\ Recorded' = Recorded
    BY <1>1, StillKeeps DEF IInv
  <2>3. Cardinality(AwaitingHub(f)) \in Nat /\ Cardinality(WantedIn(f)) \in Nat
        /\ Cardinality(AwaitingHub(f)) <= Cardinality(WantedIn(f))
    BY Awaiting
  <2>4. Cardinality(WantedIn(f)) - Cardinality(AwaitingHub(f)) \in Nat
    BY <2>3
  <2>5. before' \in [Connections -> Nat]
    BY <1>1, <1>2, <2>4
  <2>6. filter[s] = None /\ s \notin closed /\ lost[s] = 0 /\ Seen(s) = <<>>
    BY <1>1 DEF IInv, Seats
  <2>7. TypeOK'
    <3>1. DOMAIN filter' = Connections /\ \A t \in Connections : filter'[t] \in Filters[t] \cup {None}
      BY <1>1, <1>2 DEF IInv, TypeOK
    <3>2. conn' \in [Connections -> {"new", "serving", "writing", "closing", "detached", "over"}]
      BY <1>1, <1>2
    <3>3. subscribers' \subseteq Connections
      BY <1>1, <1>2
    <3> QED
      BY <1>1, <2>2, <2>5, <3>1, <3>2, <3>3 DEF IInv, TypeOK, RInv
  <2>8. MuHeld'
    BY <1>1, <1>2, <2>1 DEF IInv, MuHeld
  <2>9. Seats'
    <3> SUFFICES ASSUME NEW t \in Connections
                 PROVE  /\ t \in subscribers' <=> conn'[t] \in {"serving", "writing", "closing"}
                        /\ t \in subscribers' => filter'[t] \in Filters[t]
                        /\ t \in closed' => conn'[t] = "over"
                        /\ conn'[t] = "new" => t \notin closed' /\ filter'[t] = None /\ lost'[t] = 0
                                             /\ Seen(t)' = <<>>
      BY DEF Seats
    <3>1. CASE t = s
      <4>1. conn'[s] = "serving" /\ s \in subscribers'
        BY <1>1, <1>2
      <4>2. filter'[s] = f
        BY <1>1, <1>2
      <4> QED
        BY <1>1, <2>6, <3>1, <4>1, <4>2
    <3>2. CASE t # s
      BY <1>1, <1>2, <3>2 DEF IInv, Seats
    <3> QED
      BY <3>1, <3>2
  <2>10. Once'
    BY <1>1, OnceKept DEF IInv, Busy
  <2>11. SameOrder'
    BY <1>1, OrderKept DEF IInv
  <2>12. EachMatchOffered'
    <3>1. ASSUME NEW t \in subscribers', NEW h, h = filter'[t] PROVE Account(t, h)'
      <4>1. Way(t, h)' = Way(t, h) /\ WantedIn(h)' = WantedIn(h)
        BY <1>1, <2>2 DEF Way, WantedIn
      <4>2. CASE t # s
        <5>1. t \in subscribers /\ filter'[t] = filter[t] /\ before'[t] = before[t]
          BY <1>1, <1>2, <3>1, <4>2
        <5>2. Account(t, h)
          BY <3>1, <5>1, AccountsNow DEF IInv
        <5> QED
          BY <1>1, <4>1, <5>1, <5>2 DEF Account
      <4>3. CASE t = s
        <5>1. h = f /\ before'[t] = Cardinality(WantedIn(f)) - Cardinality(AwaitingHub(f))
          BY <1>1, <1>2, <3>1, <4>3
        <5>2. Way(t, h) = AwaitingHub(f)
          BY <2>1, <5>1 DEF Way, AwaitingHub
        <5>3. Seen(t)' = <<>> /\ lost'[t] = 0
          BY <1>1, <2>6, <4>3
        <5>4. Len(<<>>) = 0
          OBVIOUS
        <5>5. Cardinality(WantedIn(f)) = before'[t] + Cardinality(AwaitingHub(f)) + 0 + 0
          BY <2>3, <5>1
        <5> QED
          BY <4>1, <5>1, <5>2, <5>3, <5>4, <5>5 DEF Account
      <4> QED
        BY <4>2, <4>3
    <3> QED
      BY <3>1, AccountsNext
  <2> QED
    BY <2>2, <2>7, <2>8, <2>9, <2>10, <2>11, <2>12 DEF IInv
<1>3. CASE conn' = [conn EXCEPT ![s] = "over"] /\ UNCHANGED <<filter, subscribers, before>>
  <2>1. MuHeld'
    BY <1>1, <1>3 DEF IInv, MuHeld
  <2>2. Seats'
    BY <1>1, <1>3 DEF IInv, Seats
  <2>3. conn' \in [Connections -> {"new", "serving", "writing", "closing", "detached", "over"}]
    BY <1>1, <1>3
  <2> QED
    BY <1>1, <1>3, <2>1, <2>2, <2>3, ConnStep
<1> QED
  BY <1>2, <1>3 DEF Subscribe

(* A connection's handler takes an event from its channel.                 *)
LEMMA ReceiveStep ==
  ASSUME IInv, NEW s \in Connections, Receive(s)
  PROVE  IInv'
<1>1. /\ conn[s] = "serving" /\ channel[s] # <<>>
      /\ taken' = [taken EXCEPT ![s] = Append(@, Head(channel[s]))]
      /\ channel' = [channel EXCEPT ![s] = Tail(@)] /\ conn' = [conn EXCEPT ![s] = "writing"]
      /\ UNCHANGED <<recording, mu, visiting, subscribers, filter, before, broken, closed, lost>>
      /\ UNCHANGED <<run, emit, event, emits, emitMu, trace>>
  BY DEF Receive, recording
<1>2. /\ channel \in [Connections -> Seq(Events)] /\ taken \in [Connections -> Seq(Events)]
      /\ \A t \in Connections : Len(channel[t]) <= Buffer
      /\ conn \in [Connections -> {"new", "serving", "writing", "closing", "detached", "over"}]
      /\ Buffer \in Nat
  BY HubAssumption DEF HubAssumption, IInv, TypeOK
<1>3. RInv({"publishing"})' /\ Recorded' = Recorded
  BY <1>1, StillKeeps DEF IInv
<1>4. /\ Head(channel[s]) \in Events /\ Tail(channel[s]) \in Seq(Events)
      /\ Append(taken[s], Head(channel[s])) \in Seq(Events) /\ Len(Tail(channel[s])) <= Buffer
  <2>1. channel[s] \in Seq(Events) /\ taken[s] \in Seq(Events) /\ Len(channel[s]) <= Buffer
    BY <1>2
  <2>2. /\ Head(channel[s]) \in Events /\ Tail(channel[s]) \in Seq(Events)
        /\ Len(Tail(channel[s])) = Len(channel[s]) - 1 /\ Len(channel[s]) \in Nat
    BY <1>1, <2>1
  <2> QED
    BY <1>2, <2>1, <2>2
<1>5. \A t \in Connections : Seen(t)' = Seen(t)
  <2>1. ASSUME NEW t \in Connections, t # s PROVE Seen(t)' = Seen(t)
    BY <1>1, <1>2, <2>1 DEF Seen
  <2>2. Append(taken[s], Head(channel[s])) \o Tail(channel[s]) = taken[s] \o channel[s]
    <3>1. \A u, v \in Seq(Events) : v # <<>> => Append(u, Head(v)) \o Tail(v) = u \o v
      BY TakeSees
    <3>2. channel[s] \in Seq(Events) /\ taken[s] \in Seq(Events)
      BY <1>2
    <3> QED
      BY <1>1, <3>1, <3>2, Zenon
  <2>3. taken'[s] = Append(taken[s], Head(channel[s])) /\ channel'[s] = Tail(channel[s])
    BY <1>1, <1>2
  <2>4. Seen(s)' = Seen(s)
    BY <2>2, <2>3 DEF Seen
  <2> QED
    BY <2>1, <2>4
<1>6. TypeOK'
  <2>1. channel' \in [Connections -> Seq(Events)] /\ taken' \in [Connections -> Seq(Events)]
    BY <1>1, <1>2, <1>4
  <2>2. \A t \in Connections : Len(channel'[t]) <= Buffer
    BY <1>1, <1>2, <1>4
  <2>3. conn' \in [Connections -> {"new", "serving", "writing", "closing", "detached", "over"}]
    BY <1>1, <1>2
  <2> QED
    BY <1>1, <1>3, <2>1, <2>2, <2>3 DEF IInv, TypeOK, RInv
<1>7. MuHeld'
  BY <1>1 DEF IInv, MuHeld
<1>8. Seats'
  BY <1>1, <1>2, <1>5 DEF IInv, Seats
<1>9. Once'
  BY <1>1, <1>5, OnceKept DEF IInv, Busy
<1>10. SameOrder'
  BY <1>5, OrderKept DEF IInv
<1>11. ASSUME NEW t \in subscribers', NEW f, f = filter'[t] PROVE Account(t, f)'
  <2>1. Account(t, f) /\ t \in Connections
    BY <1>1, <1>11, AccountsNow DEF IInv, TypeOK
  <2>2. Way(t, f)' = Way(t, f) /\ WantedIn(f)' = WantedIn(f)
    BY <1>1, <1>3 DEF Way, WantedIn
  <2> QED
    BY <1>1, <1>5, <2>1, <2>2 DEF Account
<1>12. EachMatchOffered'
  BY <1>11, AccountsNext
<1> QED
  BY <1>3, <1>6, <1>7, <1>8, <1>9, <1>10, <1>12 DEF IInv

-----------------------------------------------------------------------------
LEMMA Starts ==
  ASSUME Init
  PROVE  IInv
<1>1. /\ RecordingInit /\ mu = None /\ visiting = [e \in Emitters |-> {}] /\ subscribers = {}
      /\ channel = [s \in Connections |-> <<>>] /\ closed = {} /\ taken = [s \in Connections |-> <<>>]
      /\ lost = [s \in Connections |-> 0] /\ conn = [s \in Connections |-> "new"]
      /\ filter = [s \in Connections |-> None] /\ before = [s \in Connections |-> 0] /\ broken = {}
      /\ emit = [e \in Emitters |-> "idle"]
  BY DEF Init, Each, RecordingInit
<1>2. RInv({"publishing"})
  BY <1>1, RecordingStarts
<1>3. \A s \in Connections : Seen(s) = <<>>
  BY <1>1 DEF Seen
<1>4. TypeOK
  <2>1. <<>> \in Seq(Events) /\ Len(<<>>) = 0 /\ 0 <= Buffer
    BY HubAssumption DEF HubAssumption
  <2> QED
    BY <1>1, <1>2, <2>1 DEF TypeOK, RInv
<1>5. MuHeld
  BY <1>1, EmitterKinds DEF MuHeld
<1>6. Seats
  BY <1>1, <1>3 DEF Seats
<1>7. \A i : i \notin DOMAIN <<>>
  OBVIOUS
<1>8. Once /\ SameOrder
  BY <1>3, <1>7 DEF Once, SameOrder
<1>9. EachMatchOffered
  BY <1>1 DEF EachMatchOffered
<1> QED
  BY <1>2, <1>4, <1>5, <1>6, <1>8, <1>9 DEF IInv

LEMMA Stays ==
  ASSUME IInv, UNCHANGED vars
  PROVE  IInv'
<1>1. UNCHANGED <<recording, mu, visiting, subscribers, conn, filter, before, broken,
                  channel, closed, taken, lost>>
  BY DEF vars, subscriptions, queues
<1>2. UNCHANGED <<run, emit, event, emits, emitMu, trace>> /\ \A s : Seen(s)' = Seen(s)
  BY <1>1 DEF recording, Seen
<1>3. MuHeld' /\ Seats'
  BY <1>1, <1>2 DEF IInv, MuHeld, Seats
<1> QED
  BY <1>1, <1>3, ConnStep DEF IInv, TypeOK

LEMMA Preserves ==
  ASSUME IInv, [Next]_vars
  PROVE  IInv'
<1>1. RInv({"publishing"})
  BY DEF IInv
<1>2. ASSUME RunStep PROVE IInv'
  <2>1. UNCHANGED <<mu, visiting, subscriptions, queues>>
    BY <1>2 DEF RunStep
  <2>2. ASSUME NEW c \in Calls, Begin(c) \/ NodeReturn(c) PROVE IInv'
    <3>1. RInv({"publishing"})' /\ Grown(c) /\ ~Busy(c) /\ c \in Emitters
      BY <1>1, <2>2, BeginKeeps, NodeReturnKeeps DEF Emitters
    <3> QED
      BY <2>1, <3>1, RecordStep
  <2>3. ASSUME NEW g \in Goroutines, Emit(g) PROVE IInv'
    <3>1. RInv({"publishing"})' /\ Grown(g) /\ ~Busy(g) /\ g \in Emitters
      BY <1>1, <2>3, EmitKeeps DEF Emitters
    <3> QED
      BY <2>1, <3>1, RecordStep
  <2> QED
    BY <1>2, <2>2, <2>3 DEF RunStep, NodeStep
<1>3. ASSUME NEW e \in Emitters, EmitStep(e) PROVE IInv'
  BY <1>3, PublishStep, PublishedStep, VisitStep DEF EmitStep
<1>4. ASSUME NEW s \in Connections, NEW f \in Filters[s], Subscribe(s, f) PROVE IInv'
  BY <1>4, SubscribeStep
<1>5. ASSUME NEW s \in Connections, Serve(s) \/ Write(s) \/ ContextDone(s) \/ Break(s) PROVE IInv'
  BY <1>5, ReceiveStep, ServeSteps DEF Serve
<1>6. Stop \/ UNCHANGED vars => IInv'
  BY Stays DEF Stop
<1> QED
  BY <1>2, <1>3, <1>4, <1>5, <1>6 DEF Next

-----------------------------------------------------------------------------
(* The invariant holds in every behaviour.                                 *)
THEOREM HubInductive == Spec => []IInv
  BY Starts, Preserves, PTL DEF Spec

(* Every variable of the hub and its connections has its type: no channel  *)
(* ever holds more than its capacity.                                      *)
THEOREM HubTypesHold == Spec => []TypeOK
<1>1. IInv => TypeOK
  BY DEF IInv
<1> QED
  BY <1>1, HubInductive, PTL

(* Any two connections see the events they share in one order.             *)
THEOREM OneOrder == Spec => []SameOrder
<1>1. IInv => SameOrder
  BY DEF IInv
<1> QED
  BY <1>1, HubInductive, PTL

(* Every event a subscription wants, and that was not published before it, *)
(* is on its way, queued, taken or counted as lost.                        *)
THEOREM MatchesOffered == Spec => []EachMatchOffered
<1>1. IInv => EachMatchOffered
  BY DEF IInv
<1> QED
  BY <1>1, HubInductive, PTL

-----------------------------------------------------------------------------
(* Each step of the hub is for each subscription a step of Feed or leaves  *)
(* its variables alone.                                                    *)
LEMMA FeedInit ==
  ASSUME Init, NEW s \in Connections
  PROVE  SubscriptionFeed(s)!Init
  BY DEF Init, Each, SubscriptionFeed!Init

Asleep(s) ==
  UNCHANGED <<filter[s], channel[s], taken[s], lost[s], s \in subscribers /\ s \notin closed>>

LEMMA FeedAsleep ==
  ASSUME NEW s \in Connections, Asleep(s)
  PROVE  UNCHANGED SubscriptionFeed(s)!feed
  BY DEF Asleep, SubscriptionFeed!feed

LEMMA FeedVisit ==
  ASSUME IInv, NEW e \in Emitters, NEW s \in Connections, Visit(e, s)
  PROVE  [SubscriptionFeed(s)!Next]_(SubscriptionFeed(s)!feed)
<1>1. /\ event[e] \in Events /\ s \in subscribers /\ s \notin closed /\ filter[s] # None
      /\ UNCHANGED <<subscribers, filter, closed>>
  <2>1. event[e] \in Events
    BY Carries DEF Visit, Busy
  <2>2. s \in subscribers
    BY DEF IInv, MuHeld, Visit
  <2>3. s \notin closed /\ filter[s] # None
    BY <2>2, HubAssumption DEF HubAssumption, IInv, Seats
  <2> QED
    BY <2>1, <2>2, <2>3 DEF Visit, subscriptions
<1>2. /\ channel \in [Connections -> Seq(Events)] /\ lost \in [Connections -> Nat]
  BY DEF IInv, TypeOK
<1>3. CASE Wanted(filter[s], e) /\ Room(s) /\ UNCHANGED lost
           /\ channel' = [channel EXCEPT ![s] = Append(@, event[e])]
  <2>1. SubscriptionFeed(s)!Offer(event[e])
    BY <1>1, <1>2, <1>3, VisitIs DEF Room, SubscriptionFeed!Offer
  <2> QED
    BY <1>1, <2>1 DEF SubscriptionFeed!Next
<1>4. CASE Wanted(filter[s], e) /\ ~Room(s) /\ lost' = [lost EXCEPT ![s] = @ + 1] /\ UNCHANGED channel
  <2>1. SubscriptionFeed(s)!Offer(event[e])
    BY <1>1, <1>2, <1>4, VisitIs DEF Room, SubscriptionFeed!Offer
  <2> QED
    BY <1>1, <2>1 DEF SubscriptionFeed!Next
<1>5. CASE UNCHANGED <<channel, lost>>
  BY <1>1, <1>5, VisitIs, FeedAsleep DEF Asleep
<1> QED
  BY <1>3, <1>4, <1>5, VisitIs DEF Offered

LEMMA FeedStep ==
  ASSUME IInv, [Next]_vars, NEW s \in Connections
  PROVE  [SubscriptionFeed(s)!Next]_(SubscriptionFeed(s)!feed)
<1>1. /\ channel \in [Connections -> Seq(Events)] /\ taken \in [Connections -> Seq(Events)]
      /\ lost \in [Connections -> Nat] /\ DOMAIN filter = Connections
  BY DEF IInv, TypeOK
<1>2. ASSUME UNCHANGED <<subscribers, filter, closed, channel, taken, lost>> PROVE Asleep(s)
  BY <1>2 DEF Asleep
<1>3. CASE RunStep \/ Stop \/ UNCHANGED vars
  BY <1>2, <1>3, FeedAsleep DEF RunStep, Stop, vars, subscriptions, queues
<1>4. ASSUME NEW e \in Emitters, EmitStep(e) PROVE [SubscriptionFeed(s)!Next]_(SubscriptionFeed(s)!feed)
  <2>1. CASE Publish(e) \/ Published(e)
    BY <1>2, <2>1, FeedAsleep DEF Publish, Published, subscriptions, queues
  <2>2. ASSUME NEW t \in Connections, Visit(e, t), t # s PROVE Asleep(s)
    BY <2>2, VisitIs DEF Visit, subscriptions, Asleep
  <2> QED
    BY <1>4, <2>1, <2>2, FeedAsleep, FeedVisit DEF EmitStep
<1>5. ASSUME NEW t \in Connections, NEW f \in Filters[t], Subscribe(t, f)
      PROVE  [SubscriptionFeed(s)!Next]_(SubscriptionFeed(s)!feed)
  <2>1. UNCHANGED <<channel, closed, taken, lost>> /\ conn[t] = "new"
    BY <1>5 DEF Subscribe, queues
  <2>2. CASE UNCHANGED <<filter, subscribers>>
    BY <1>2, <2>1, <2>2, FeedAsleep
  <2>3. CASE filter' = [filter EXCEPT ![t] = f] /\ subscribers' = subscribers \cup {t}
    <3>1. CASE t # s
      BY <1>1, <2>1, <2>3, <3>1, FeedAsleep DEF Asleep
    <3>2. CASE t = s
      <4>1. /\ filter[s] = None /\ s \notin closed /\ filter'[s] = f /\ f # None /\ s \in subscribers'
        BY <1>1, <2>1, <2>3, <3>2, HubAssumption DEF HubAssumption, IInv, Seats
      <4>2. SubscriptionFeed(s)!Open
        BY <2>1, <4>1 DEF SubscriptionFeed!Open
      <4> QED
        BY <4>2 DEF SubscriptionFeed!Next
    <3> QED
      BY <3>1, <3>2
  <2> QED
    BY <1>5, <2>2, <2>3 DEF Subscribe
<1>6. ASSUME NEW t \in Connections, Receive(t)
      PROVE  [SubscriptionFeed(s)!Next]_(SubscriptionFeed(s)!feed)
  <2>1. /\ channel[t] # <<>> /\ taken' = [taken EXCEPT ![t] = Append(@, Head(channel[t]))]
        /\ channel' = [channel EXCEPT ![t] = Tail(@)] /\ UNCHANGED <<subscribers, filter, closed, lost>>
    BY <1>6 DEF Receive
  <2>2. CASE t # s
    BY <1>1, <2>1, <2>2, FeedAsleep DEF Asleep
  <2>3. CASE t = s
    <3>1. SubscriptionFeed(s)!Take
      BY <1>1, <2>1, <2>3 DEF SubscriptionFeed!Take
    <3> QED
      BY <3>1 DEF SubscriptionFeed!Next
  <2> QED
    BY <2>2, <2>3
<1>7. ASSUME NEW t \in Connections, Detach(t)
      PROVE  [SubscriptionFeed(s)!Next]_(SubscriptionFeed(s)!feed)
  <2>1. conn[t] = "closing" /\ subscribers' = subscribers \ {t} /\ UNCHANGED <<filter, closed, channel, taken, lost>>
    BY <1>7 DEF Detach, Detached, queues
  <2>2. CASE t # s
    BY <2>1, <2>2, FeedAsleep DEF Asleep
  <2>3. CASE t = s
    <3>1. s \in subscribers /\ s \notin closed /\ filter[s] # None
      BY <2>1, <2>3, HubAssumption DEF HubAssumption, IInv, Seats
    <3>2. SubscriptionFeed(s)!Close
      BY <2>1, <2>3, <3>1 DEF SubscriptionFeed!Close
    <3> QED
      BY <3>2 DEF SubscriptionFeed!Next
  <2> QED
    BY <2>2, <2>3
<1>8. ASSUME NEW t \in Connections, CloseChannel(t)
      PROVE  [SubscriptionFeed(s)!Next]_(SubscriptionFeed(s)!feed)
  <2>1. conn[t] = "detached" /\ closed' = closed \cup {t} /\ UNCHANGED <<subscribers, filter, channel, taken, lost>>
    BY <1>8 DEF CloseChannel
  <2>2. t \notin subscribers
    BY <2>1 DEF IInv, Seats
  <2> QED
    BY <2>1, <2>2, FeedAsleep DEF Asleep
<1>9. ASSUME NEW t \in Connections, Write(t) \/ WriteFails(t) \/ ContextDone(t) \/ Break(t)
      PROVE  [SubscriptionFeed(s)!Next]_(SubscriptionFeed(s)!feed)
  BY <1>2, <1>9, FeedAsleep DEF Write, WriteFails, ContextDone, Break, queues
<1> QED
  BY <1>3, <1>4, <1>5, <1>6, <1>7, <1>8, <1>9 DEF Next, Serve

(* A subscription keeps the promise of Feed, with any number of publishers *)
(* and connections: nothing is sent on a channel that Close closed.        *)
THEOREM SubscriptionsAreFeeds == Spec => IsFeed
<1>1. Init => \A s \in Connections : SubscriptionFeed(s)!Init
  BY FeedInit
<1>2. IInv /\ [Next]_vars =>
        [\A s \in Connections : [SubscriptionFeed(s)!Next]_(SubscriptionFeed(s)!feed)]_vars
  BY FeedStep
<1> QED
  BY <1>1, <1>2, HubInductive, PTL DEF Spec, IsFeed
=============================================================================
