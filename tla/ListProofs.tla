----------------------------- MODULE ListProofs -----------------------------
(***************************************************************************)
(* Lemmas about lists.  FlattenSeq of the community modules is a recursive *)
(* function, the concatenation of ever longer prefixes; here it is shown   *)
(* what it computes, by induction over the length, so that a loop of the   *)
(* code that appends to a list can be reasoned about element by element.   *)
(***************************************************************************)
EXTENDS Integers, Sequences, SequencesExt, FiniteSetTheorems, TLAPS

(* A set that has 0 and with each number the next one has every number:    *)
(* the smallest number it lacked would follow one that it has.             *)
LEMMA NatSetInduction ==
  ASSUME NEW T, 0 \in T, \A n \in Nat : n \in T => n + 1 \in T
  PROVE \A n \in Nat : n \in T
<1>1. SUFFICES ASSUME {n \in Nat : n \notin T} # {} PROVE FALSE
  OBVIOUS
<1>2. PICK m \in {n \in Nat : n \notin T} :
        \A n \in {n \in Nat : n \notin T} : <<n, m>> \notin OpToRel(<, Nat)
  BY <1>1, NatLessThanWellFounded, WFMin
<1>3. \A n \in Nat : n < m => n \in T
  BY <1>2 DEF OpToRel
<1>4. m \in Nat /\ m \notin T
  BY <1>2
<1>5. m # 0
  BY <1>4
<1>6. m - 1 \in Nat /\ m - 1 < m /\ (m - 1) + 1 = m
  BY <1>4, <1>5
<1>7. QED
  BY <1>3, <1>4, <1>6

(* f is the list of the prefixes of the concatenation of seqs.             *)
Concats(f, seqs) ==
  f = [i \in 1 .. Len(seqs) |-> IF i = 1 THEN seqs[i] ELSE f[i - 1] \o seqs[i]]

(* The prefixes, one by one.                                               *)
LEMMA PrefixAt ==
  ASSUME NEW f, NEW seqs, Concats(f, seqs), NEW i \in 1 .. Len(seqs)
  PROVE f[i] = IF i = 1 THEN seqs[i] ELSE f[i - 1] \o seqs[i]
<1> DEFINE h == [j \in 1 .. Len(seqs) |-> IF j = 1 THEN seqs[j] ELSE f[j - 1] \o seqs[j]]
<1>1. f = h
  BY DEF Concats
<1>2. h[i] = IF i = 1 THEN seqs[i] ELSE f[i - 1] \o seqs[i]
  OBVIOUS
<1> HIDE DEF h
<1> QED BY <1>1, <1>2

(* FlattenSeq picks some list of prefixes and takes the last.              *)
LEMMA FlattenDef ==
  ASSUME NEW seqs
  PROVE FlattenSeq(seqs) = IF Len(seqs) = 0 THEN seqs ELSE (CHOOSE f : Concats(f, seqs))[Len(seqs)]
  BY DEF FlattenSeq, Concats

(* There is a list of the prefixes, by induction over their number.        *)
LEMMA PrefixesExist ==
  ASSUME NEW S, NEW seqs \in Seq(Seq(S))
  PROVE \E f \in [1 .. Len(seqs) -> Seq(S)] : Concats(f, seqs)
<1> DEFINE G(m) == \E f \in [1 .. m -> Seq(S)] :
             \A i \in 1 .. m : f[i] = IF i = 1 THEN seqs[i] ELSE f[i - 1] \o seqs[i]
           T == {m \in Nat : m <= Len(seqs) => G(m)}
<1>1. 0 \in T
  <2> DEFINE e == [i \in 1 .. 0 |-> <<>>]
  <2>1. e \in [1 .. 0 -> Seq(S)] /\ 1 .. 0 = {}
    OBVIOUS
  <2>2. \A i \in 1 .. 0 : e[i] = IF i = 1 THEN seqs[i] ELSE e[i - 1] \o seqs[i]
    BY <2>1
  <2> QED BY <2>1, <2>2
<1>2. ASSUME NEW n \in Nat, n \in T PROVE n + 1 \in T
  <2> HIDE DEF G
  <2>1. SUFFICES ASSUME n + 1 <= Len(seqs) PROVE G(n + 1)
    OBVIOUS
  <2> USE DEF G
  <2>2. PICK f \in [1 .. n -> Seq(S)] :
             \A i \in 1 .. n : f[i] = IF i = 1 THEN seqs[i] ELSE f[i - 1] \o seqs[i]
    BY <1>2, <2>1
  <2> DEFINE last == IF n = 0 THEN seqs[1] ELSE f[n] \o seqs[n + 1]
             g == [i \in 1 .. n + 1 |-> IF i = n + 1 THEN last ELSE f[i]]
  <2>3. seqs[n + 1] \in Seq(S)
    BY <2>1
  <2>4. last \in Seq(S)
    <3>1. CASE n = 0  BY <3>1, <2>3
    <3>2. CASE n # 0  
      <4>1. f[n] \in Seq(S) BY <3>2
      <4> QED BY <4>1, <3>2, <2>3
    <3> QED BY <3>1, <3>2
  <2> HIDE DEF last
  <2>5. g \in [1 .. n + 1 -> Seq(S)]
    BY <2>4
  <2>6. ASSUME NEW i \in 1 .. n + 1 PROVE g[i] = IF i = 1 THEN seqs[i] ELSE g[i - 1] \o seqs[i]
    <3>1. CASE i = n + 1  
      BY <3>1 DEF last
    <3>2. CASE i # n + 1
      <4>1. i \in 1 .. n /\ g[i] = f[i] /\ (i # 1 => i - 1 \in 1 .. n /\ g[i - 1] = f[i - 1])
        BY <3>2
      <4>2. f[i] = IF i = 1 THEN seqs[i] ELSE f[i - 1] \o seqs[i]
        BY <4>1, <2>2
      <4> QED BY <4>1, <4>2
    <3> QED BY <3>1, <3>2
  <2> QED BY <2>5, <2>6
<1>3. Len(seqs) \in T
  <2> HIDE DEF T
  <2>1. Len(seqs) \in Nat
    OBVIOUS
  <2> QED BY <1>1, <1>2, <2>1, NatSetInduction
<1>4. PICK f \in [1 .. Len(seqs) -> Seq(S)] :
             \A i \in 1 .. Len(seqs) : f[i] = IF i = 1 THEN seqs[i] ELSE f[i - 1] \o seqs[i]
  BY <1>3
<1>5. Concats(f, seqs)
  BY <1>4 DEF Concats
<1>6. QED
  BY <1>5

(* more begins with the lists of seqs.                                     *)
Initial(seqs, more) ==
  Len(seqs) <= Len(more) /\ \A i \in 1 .. Len(seqs) : more[i] = seqs[i]

(* Lists that begin alike have the same first prefixes.                    *)
LEMMA PrefixesAgree ==
  ASSUME NEW S, NEW seqs \in Seq(Seq(S)), NEW more \in Seq(Seq(S)), Initial(seqs, more),
         NEW f, Concats(f, seqs), NEW g, Concats(g, more)
  PROVE \A i \in 1 .. Len(seqs) : g[i] = f[i]
<1> DEFINE T == {m \in Nat : m \in 1 .. Len(seqs) => g[m] = f[m]}
<1>1. 0 \in T
  OBVIOUS
<1>2. ASSUME NEW n \in Nat, n \in T PROVE n + 1 \in T
  <2>1. SUFFICES ASSUME n + 1 \in 1 .. Len(seqs) PROVE g[n + 1] = f[n + 1]
    OBVIOUS
  <2>2. n + 1 \in 1 .. Len(more) /\ more[n + 1] = seqs[n + 1]
    BY <2>1 DEF Initial
  <2>3. f[n + 1] = IF n + 1 = 1 THEN seqs[n + 1] ELSE f[n + 1 - 1] \o seqs[n + 1]
    BY <2>1, PrefixAt
  <2>4. g[n + 1] = IF n + 1 = 1 THEN more[n + 1] ELSE g[n + 1 - 1] \o more[n + 1]
    BY <2>2, PrefixAt
  <2>5. n + 1 # 1 => g[n] = f[n] /\ n + 1 - 1 = n
    BY <1>2, <2>1
  <2> QED BY <2>2, <2>3, <2>4, <2>5
<1>3. \A n \in Nat : n \in T
  <2> HIDE DEF T
  <2> QED BY <1>1, <1>2, NatSetInduction
<1> QED BY <1>3

(* FlattenSeq is the last of a list of prefixes, each of them a list.      *)
LEMMA FlattenIs ==
  ASSUME NEW S, NEW seqs \in Seq(Seq(S)), Len(seqs) # 0
  PROVE \E f : /\ Concats(f, seqs)
               /\ \A i \in 1 .. Len(seqs) : f[i] \in Seq(S)
               /\ FlattenSeq(seqs) = f[Len(seqs)]
<1> DEFINE f == CHOOSE f : Concats(f, seqs)
<1>1. PICK h \in [1 .. Len(seqs) -> Seq(S)] : Concats(h, seqs)
  BY PrefixesExist
<1>2. Concats(f, seqs)
  BY <1>1
<1>3. \A i \in 1 .. Len(seqs) : h[i] \in Seq(S)
  OBVIOUS
<1>4. FlattenSeq(seqs) = f[Len(seqs)]
  BY FlattenDef DEF f
<1> HIDE DEF f
<1>5. \A i \in 1 .. Len(seqs) : f[i] = h[i]
  BY <1>1, <1>2, PrefixesAgree DEF Initial
<1> QED BY <1>2, <1>3, <1>4, <1>5

(* The concatenation of no lists is empty.                                 *)
LEMMA FlattenNone == FlattenSeq(<<>>) = <<>>
  BY FlattenDef

(* The concatenation of lists over a set is a list over that set.          *)
LEMMA FlattenTyped ==
  ASSUME NEW S, NEW seqs \in Seq(Seq(S))
  PROVE FlattenSeq(seqs) \in Seq(S)
<1>1. CASE Len(seqs) = 0
  <2>1. seqs = <<>> BY <1>1
  <2>2. <<>> \in Seq(S) OBVIOUS
  <2> QED BY <2>1, <2>2, FlattenNone
<1>2. CASE Len(seqs) # 0
  <2>1. Len(seqs) \in 1 .. Len(seqs) BY <1>2
  <2> QED BY <1>2, <2>1, FlattenIs
<1> QED BY <1>1, <1>2

(* With one more list, that list comes at the end.                         *)
LEMMA FlattenGrown ==
  ASSUME NEW S, NEW seqs \in Seq(Seq(S)), NEW more \in Seq(Seq(S)), Initial(seqs, more),
         Len(more) = Len(seqs) + 1, Len(seqs) # 0
  PROVE FlattenSeq(more) = FlattenSeq(seqs) \o more[Len(more)]
<1>1. Len(more) # 0 /\ Len(seqs) \in 1 .. Len(seqs)
  OBVIOUS
<1>2. PICK g : Concats(g, more) /\ FlattenSeq(more) = g[Len(more)]
  BY <1>1, FlattenIs
<1>3. PICK f : Concats(f, seqs) /\ FlattenSeq(seqs) = f[Len(seqs)]
  BY FlattenIs
<1>4. \A i \in 1 .. Len(seqs) : g[i] = f[i]
  BY <1>2, <1>3, PrefixesAgree
<1>5. Len(more) \in 1 .. Len(more) /\ Len(more) # 1 /\ Len(more) - 1 = Len(seqs)
  OBVIOUS
<1>6. g[Len(more)] = g[Len(more) - 1] \o more[Len(more)]
  BY <1>2, <1>5, PrefixAt
<1> QED BY <1>1, <1>2, <1>3, <1>4, <1>5, <1>6

(* The concatenation of one list is that list.                             *)
LEMMA FlattenOne ==
  ASSUME NEW S, NEW x \in Seq(S)
  PROVE FlattenSeq(<<x>>) = x
<1> DEFINE one == <<x>>
<1>1. one \in Seq(Seq(S)) /\ Len(one) # 0
  OBVIOUS
<1>2. 1 \in 1 .. Len(one) /\ one[1] = x /\ Len(one) = 1
  OBVIOUS
<1> HIDE DEF one
<1>3. PICK f : Concats(f, one) /\ FlattenSeq(one) = f[Len(one)]
  BY <1>1, FlattenIs
<1>4. f[1] = one[1]
  BY <1>2, <1>3, PrefixAt
<1> QED BY <1>2, <1>3, <1>4 DEF one

(* The same for a list that is appended.                                   *)
LEMMA FlattenMore ==
  ASSUME NEW S, NEW seqs \in Seq(Seq(S)), NEW x \in Seq(S)
  PROVE FlattenSeq(Append(seqs, x)) = FlattenSeq(seqs) \o x
<1>1. CASE Len(seqs) = 0
  <2>1. seqs = <<>> /\ Append(seqs, x) = <<x>> /\ <<>> \o x = x
    BY <1>1
  <2> QED BY <2>1, FlattenNone, FlattenOne
<1>2. CASE Len(seqs) # 0
  <2>1. Append(seqs, x) \in Seq(Seq(S))
    OBVIOUS
  <2>2. Initial(seqs, Append(seqs, x))
    BY DEF Initial
  <2>3. Len(Append(seqs, x)) = Len(seqs) + 1 /\ Append(seqs, x)[Len(seqs) + 1] = x
    OBVIOUS
  <2> QED BY <1>2, <2>1, <2>2, <2>3, FlattenGrown
<1> QED BY <1>1, <1>2

(* Concatenation of concatenations, by induction over the second.          *)
LEMMA FlattenJoined ==
  ASSUME NEW S, NEW some \in Seq(Seq(S)), NEW others \in Seq(Seq(S))
  PROVE FlattenSeq(some \o others) = FlattenSeq(some) \o FlattenSeq(others)
<1> DEFINE T == {n \in Nat : n <= Len(others) =>
             FlattenSeq(some \o SubSeq(others, 1, n)) = FlattenSeq(some) \o FlattenSeq(SubSeq(others, 1, n))}
<1>1. 0 \in T
  <2>1. SubSeq(others, 1, 0) = <<>> OBVIOUS
  <2>2. some \o <<>> = some OBVIOUS
  <2>3. FlattenSeq(some) \o <<>> = FlattenSeq(some) BY FlattenTyped
  <2> QED BY <2>1, <2>2, <2>3, FlattenNone
<1>2. ASSUME NEW n \in Nat, n \in T PROVE n + 1 \in T
  <2>1. SUFFICES ASSUME n + 1 <= Len(others)
                 PROVE FlattenSeq(some \o SubSeq(others, 1, n + 1)) = FlattenSeq(some) \o FlattenSeq(SubSeq(others, 1, n + 1))
    OBVIOUS
  <2> DEFINE s == SubSeq(others, 1, n)
             x == others[n + 1]
  <2>2. s \in Seq(Seq(S)) /\ x \in Seq(S)
    BY <2>1
  <2>3. SubSeq(others, 1, n + 1) = Append(s, x)
    BY <2>1
  <2>4. some \o Append(s, x) = Append(some \o s, x)
    BY <2>2
  <2>5. FlattenSeq(some \o s) = FlattenSeq(some) \o FlattenSeq(s)
    BY <1>2, <2>1
  <2> HIDE DEF s, x
  <2>6. some \o s \in Seq(Seq(S)) BY <2>2
  <2>7. FlattenSeq(some \o Append(s, x)) = (FlattenSeq(some) \o FlattenSeq(s)) \o x
    BY <2>2, <2>4, <2>5, <2>6, FlattenMore
  <2>8. FlattenSeq(Append(s, x)) = FlattenSeq(s) \o x
    BY <2>2, FlattenMore
  <2>9. FlattenSeq(some) \in Seq(S) /\ FlattenSeq(s) \in Seq(S)
    BY <2>2, FlattenTyped
  <2>10. (FlattenSeq(some) \o FlattenSeq(s)) \o x = FlattenSeq(some) \o (FlattenSeq(s) \o x)
    BY <2>2, <2>9, SMTT(30)
  <2> QED BY <2>3, <2>7, <2>8, <2>10
<1>3. Len(others) \in T
  <2> HIDE DEF T
  <2>1. Len(others) \in Nat
    OBVIOUS
  <2> QED BY <1>1, <1>2, <2>1, NatSetInduction
<1>4. SubSeq(others, 1, Len(others)) = others /\ Len(others) <= Len(others)
  OBVIOUS
<1> QED BY <1>3, <1>4


(* Empty lists give the empty list.                                        *)
LEMMA FlattenEmpties ==
  ASSUME NEW seqs, NEW n \in Nat, seqs = [k \in 1 .. n |-> <<>>]
  PROVE FlattenSeq(seqs) = <<>>
<1> DEFINE e(m) == [k \in 1 .. m |-> <<>>]
           T == {m \in Nat : FlattenSeq(e(m)) = <<>>}
<1>1. 0 \in T
  <2>1. e(0) = <<>> OBVIOUS
  <2> QED BY <2>1, FlattenNone
<1>2. ASSUME NEW m \in Nat, m \in T PROVE m + 1 \in T
  <2>1. e(m) \in Seq(Seq({})) /\ <<>> \in Seq({})
    OBVIOUS
  <2>2. e(m + 1) = Append(e(m), <<>>)
    OBVIOUS
  <2>3. FlattenSeq(e(m)) = <<>>
    BY <1>2
  <2> HIDE DEF e
  <2>4. FlattenSeq(e(m + 1)) = <<>> \o <<>>
    BY <2>1, <2>2, <2>3, FlattenMore
  <2> QED BY <2>4
<1>3. n \in T
  <2> HIDE DEF T
  <2> QED BY <1>1, <1>2, NatSetInduction
<1> QED BY <1>3

(* Of lists that are empty but for one, that one is left.                  *)
LEMMA FlattenSole ==
  ASSUME NEW S, NEW seqs \in Seq(Seq(S)), NEW i \in 1 .. Len(seqs),
         \A k \in 1 .. Len(seqs) : k # i => seqs[k] = <<>>
  PROVE FlattenSeq(seqs) = seqs[i]
<1> DEFINE front == [k \in 1 .. i - 1 |-> <<>>]
           back == [k \in 1 .. Len(seqs) - i |-> <<>>]
<1>1. front \in Seq(Seq(S)) /\ back \in Seq(Seq(S)) /\ seqs[i] \in Seq(S)
  OBVIOUS
<1>2. seqs = Append(front, seqs[i]) \o back
  OBVIOUS
<1>3. FlattenSeq(front) = <<>> /\ FlattenSeq(back) = <<>>
  <2>1. i - 1 \in Nat /\ Len(seqs) - i \in Nat
    OBVIOUS
  <2> QED BY <2>1, FlattenEmpties
<1> HIDE DEF front, back
<1>4. FlattenSeq(Append(front, seqs[i])) = <<>> \o seqs[i]
  BY <1>1, <1>3, FlattenMore
<1>5. Append(front, seqs[i]) \in Seq(Seq(S))
  BY <1>1
<1>6. FlattenSeq(seqs) = (<<>> \o seqs[i]) \o <<>>
  <2>1. FlattenSeq(Append(front, seqs[i]) \o back) = FlattenSeq(Append(front, seqs[i])) \o FlattenSeq(back)
    BY <1>1, <1>5, FlattenJoined
  <2> QED BY <1>2, <1>3, <1>4, <2>1
<1> QED BY <1>1, <1>6

(* A list is the concatenation of its elements.                            *)
LEMMA FlattenSingles ==
  ASSUME NEW S, NEW list \in Seq(S)
  PROVE FlattenSeq([k \in 1 .. Len(list) |-> <<list[k]>>]) = list
<1> DEFINE s(m) == [k \in 1 .. m |-> <<list[k]>>]
           T == {m \in Nat : m <= Len(list) => FlattenSeq(s(m)) = SubSeq(list, 1, m)}
<1>1. 0 \in T
  <2>1. s(0) = <<>> /\ SubSeq(list, 1, 0) = <<>> OBVIOUS
  <2> QED BY <2>1, FlattenNone
<1>2. ASSUME NEW m \in Nat, m \in T PROVE m + 1 \in T
  <2> HIDE DEF s
  <2>1. SUFFICES ASSUME m + 1 <= Len(list) PROVE FlattenSeq(s(m + 1)) = SubSeq(list, 1, m + 1)
    OBVIOUS
  <2> USE DEF s
  <2>2. s(m) \in Seq(Seq(S)) /\ <<list[m + 1]>> \in Seq(S)
    BY <2>1
  <2>3. s(m + 1) = Append(s(m), <<list[m + 1]>>)
    BY <2>1
  <2>4. FlattenSeq(s(m)) = SubSeq(list, 1, m)
    BY <1>2, <2>1
  <2>5. SubSeq(list, 1, m) \o <<list[m + 1]>> = SubSeq(list, 1, m + 1)
    BY <2>1
  <2> HIDE DEF s
  <2> QED BY <2>2, <2>3, <2>4, <2>5, FlattenMore
<1>3. Len(list) \in T
  <2> HIDE DEF T
  <2>1. Len(list) \in Nat OBVIOUS
  <2> QED BY <1>1, <1>2, <2>1, NatSetInduction
<1>4. SubSeq(list, 1, Len(list)) = list /\ Len(list) <= Len(list)
  OBVIOUS
<1> QED BY <1>3, <1>4

(* What a loop over list gathers that appends F[x] for each x.             *)
Each(list, F) == FlattenSeq([k \in 1 .. Len(list) |-> F[list[k]]])

(* What the iterations append are lists.                                   *)
LEMMA EachLists ==
  ASSUME NEW S, NEW T, NEW list \in Seq(S), NEW F \in [S -> Seq(T)]
  PROVE [k \in 1 .. Len(list) |-> F[list[k]]] \in Seq(Seq(T))
<1>1. \A k \in 1 .. Len(list) : F[list[k]] \in Seq(T)
  OBVIOUS
<1> QED BY <1>1

(* What is gathered is a list.                                             *)
LEMMA EachTyped ==
  ASSUME NEW S, NEW T, NEW list \in Seq(S), NEW F \in [S -> Seq(T)]
  PROVE Each(list, F) \in Seq(T)
  BY EachLists, FlattenTyped DEF Each

(* A loop over nothing gathers nothing.                                    *)
LEMMA EachNone == ASSUME NEW F PROVE Each(<<>>, F) = <<>>
<1>1. [k \in 1 .. Len(<<>>) |-> F[<<>>[k]]] = <<>>
  OBVIOUS
<1> QED BY <1>1, FlattenNone DEF Each

(* The last iteration appends at the end.                                  *)
LEMMA EachMore ==
  ASSUME NEW S, NEW T, NEW list \in Seq(S), NEW F \in [S -> Seq(T)], NEW x \in S
  PROVE Each(Append(list, x), F) = Each(list, F) \o F[x]
<1> DEFINE before == [k \in 1 .. Len(list) |-> F[list[k]]]
           after == [k \in 1 .. Len(Append(list, x)) |-> F[Append(list, x)[k]]]
<1>1. before \in Seq(Seq(T)) /\ F[x] \in Seq(T)
  BY EachLists
<1>2. after = Append(before, F[x])
  OBVIOUS
<1>3. Each(list, F) = FlattenSeq(before) /\ Each(Append(list, x), F) = FlattenSeq(after)
  BY DEF Each
<1> HIDE DEF before, after
<1> QED BY <1>1, <1>2, <1>3, FlattenMore

(* A loop over two lists is a loop over one, then over the other.          *)
LEMMA EachJoined ==
  ASSUME NEW S, NEW T, NEW list \in Seq(S), NEW others \in Seq(S), NEW F \in [S -> Seq(T)]
  PROVE Each(list \o others, F) = Each(list, F) \o Each(others, F)
<1> DEFINE a == [k \in 1 .. Len(list) |-> F[list[k]]]
           b == [k \in 1 .. Len(others) |-> F[others[k]]]
           c == [k \in 1 .. Len(list \o others) |-> F[(list \o others)[k]]]
<1>1. a \in Seq(Seq(T)) /\ b \in Seq(Seq(T))
  BY EachLists
<1>2. c = a \o b
  <2>1. Len(list \o others) = Len(list) + Len(others)
    OBVIOUS
  <2>2. c = [k \in 1 .. Len(list) + Len(others) |->
               IF k <= Len(list) THEN F[list[k]] ELSE F[others[k - Len(list)]]]
    BY <2>1
  <2>3. a \o b = [k \in 1 .. Len(list) + Len(others) |->
               IF k <= Len(list) THEN F[list[k]] ELSE F[others[k - Len(list)]]]
    BY <1>1
  <2> QED BY <2>2, <2>3
<1>3. Each(list, F) = FlattenSeq(a) /\ Each(others, F) = FlattenSeq(b) /\ Each(list \o others, F) = FlattenSeq(c)
  BY DEF Each
<1> HIDE DEF a, b, c
<1>4. FlattenSeq(a \o b) = FlattenSeq(a) \o FlattenSeq(b)
  BY <1>1, FlattenJoined
<1> QED BY <1>2, <1>3, <1>4

(* A loop over a concatenation is a loop over each part in turn.           *)
LEMMA EachFlattened ==
  ASSUME NEW S, NEW T, NEW seqs \in Seq(Seq(S)), NEW F \in [S -> Seq(T)]
  PROVE Each(FlattenSeq(seqs), F) = FlattenSeq([k \in 1 .. Len(seqs) |-> Each(seqs[k], F)])
<1> DEFINE e(m) == [k \in 1 .. m |-> Each(seqs[k], F)]
           s(m) == SubSeq(seqs, 1, m)
           U == {m \in Nat : m <= Len(seqs) => Each(FlattenSeq(s(m)), F) = FlattenSeq(e(m))}
<1>1. 0 \in U
  <2>1. s(0) = <<>> /\ e(0) = <<>> OBVIOUS
  <2> QED BY <2>1, FlattenNone, EachNone
<1>2. ASSUME NEW m \in Nat, m \in U PROVE m + 1 \in U
  <2>1. SUFFICES ASSUME m + 1 <= Len(seqs) PROVE Each(FlattenSeq(s(m + 1)), F) = FlattenSeq(e(m + 1))
    OBVIOUS
  <2> DEFINE x == seqs[m + 1]
  <2>2. s(m) \in Seq(Seq(S)) /\ x \in Seq(S) /\ s(m + 1) = Append(s(m), x)
    BY <2>1
  <2>3. \A k \in 1 .. m + 1 : seqs[k] \in Seq(S)
    BY <2>1
  <2>4. \A k \in 1 .. m + 1 : Each(seqs[k], F) \in Seq(T)
    BY <2>3, EachTyped
  <2>5. e(m) \in Seq(Seq(T)) /\ Each(x, F) \in Seq(T) /\ e(m + 1) = Append(e(m), Each(x, F))
    BY <2>4
  <2>6. Each(FlattenSeq(s(m)), F) = FlattenSeq(e(m))
    BY <1>2, <2>1
  <2> HIDE DEF s, e, x
  <2>7. FlattenSeq(s(m + 1)) = FlattenSeq(s(m)) \o x
    BY <2>2, FlattenMore
  <2>8. FlattenSeq(s(m)) \in Seq(S)
    BY <2>2, FlattenTyped
  <2>9. Each(FlattenSeq(s(m)) \o x, F) = Each(FlattenSeq(s(m)), F) \o Each(x, F)
    BY <2>2, <2>8, EachJoined, SMTT(30)
  <2>10. FlattenSeq(e(m + 1)) = FlattenSeq(e(m)) \o Each(x, F)
    BY <2>5, FlattenMore
  <2> QED BY <2>6, <2>7, <2>9, <2>10
<1>3. Len(seqs) \in U
  <2> HIDE DEF U
  <2>1. Len(seqs) \in Nat OBVIOUS
  <2> QED BY <1>1, <1>2, <2>1, NatSetInduction
<1>4. SubSeq(seqs, 1, Len(seqs)) = seqs /\ Len(seqs) <= Len(seqs)
  OBVIOUS
<1> QED BY <1>3, <1>4

(* A loop whose iterations append nothing gathers nothing.                 *)
LEMMA EachNothing ==
  ASSUME NEW list, Len(list) \in Nat, NEW F, \A k \in 1 .. Len(list) : F[list[k]] = <<>>
  PROVE Each(list, F) = <<>>
<1>1. [k \in 1 .. Len(list) |-> F[list[k]]] = [k \in 1 .. Len(list) |-> <<>>]
  OBVIOUS
<1> QED BY <1>1, FlattenEmpties DEF Each

(* A loop that appends one element each time gathers a list as long.       *)
LEMMA EachSingles ==
  ASSUME NEW list, NEW F, NEW T, NEW single \in Seq(T), Len(single) = Len(list),
         \A k \in 1 .. Len(list) : F[list[k]] = <<single[k]>>
  PROVE Each(list, F) = single
<1>1. [k \in 1 .. Len(list) |-> F[list[k]]] = [k \in 1 .. Len(single) |-> <<single[k]>>]
  OBVIOUS
<1> QED BY <1>1, FlattenSingles DEF Each

(* A list has as many elements as places exactly when none stands twice.   *)
LEMMA ListedOnce ==
  ASSUME NEW S, NEW list \in Seq(S)
  PROVE  LET all == {list[k] : k \in 1 .. Len(list)}
         IN  /\ IsFiniteSet(all)
             /\ Cardinality(all) = Len(list) <=> \A i, j \in 1 .. Len(list) : list[i] = list[j] => i = j
<1> DEFINE all == {list[k] : k \in 1 .. Len(list)}
<1>1. list \in Surjection(1 .. Len(list), all)
  BY DEF Surjection
<1>2. IsFiniteSet(1 .. Len(list)) /\ Cardinality(1 .. Len(list)) = Len(list)
  <2>1. Len(list) \in Int /\ 1 \in Int /\ Len(list) >= 0
    OBVIOUS
  <2>2. QED
    BY <2>1, FS_Interval, SMTT(30)
<1>3. list \in Injection(1 .. Len(list), all) <=> \A i, j \in 1 .. Len(list) : list[i] = list[j] => i = j
  <2>1. list \in [1 .. Len(list) -> all] /\ DOMAIN list = 1 .. Len(list)
    OBVIOUS
  <2>2. QED
    BY <2>1 DEF Injection, IsInjective
<1> HIDE DEF all
<1>4. IsFiniteSet(all) /\ (Cardinality(all) = Cardinality(1 .. Len(list)) <=> list \in Injection(1 .. Len(list), all))
  BY <1>1, <1>2, FS_Surjection
<1>5. QED
  BY <1>2, <1>3, <1>4 DEF all

(* What two lists have together.                                           *)
LEMMA RangeJoined ==
  ASSUME NEW S, NEW a \in Seq(S), NEW b \in Seq(S)
  PROVE  Range(a \o b) = Range(a) \cup Range(b)
<1> DEFINE c == a \o b
<1>1. /\ DOMAIN a = 1 .. Len(a) /\ DOMAIN b = 1 .. Len(b) /\ DOMAIN c = 1 .. Len(a) + Len(b)
      /\ Len(a) \in Nat /\ Len(b) \in Nat
  OBVIOUS
<1>2. \A k \in 1 .. Len(a) : c[k] = a[k]
  OBVIOUS
<1>3. \A k \in 1 .. Len(b) : c[Len(a) + k] = b[k]
  OBVIOUS
<1> HIDE DEF c
<1>4. ASSUME NEW k \in 1 .. Len(a) + Len(b), k \notin 1 .. Len(a)
      PROVE  k - Len(a) \in 1 .. Len(b) /\ c[k] = b[k - Len(a)]
  <2>1. k - Len(a) \in 1 .. Len(b) /\ Len(a) + (k - Len(a)) = k
    BY <1>1, <1>4
  <2>2. c[Len(a) + (k - Len(a))] = b[k - Len(a)]
    BY <1>3, <2>1
  <2> QED BY <2>1, <2>2
<1>5. Range(c) \subseteq Range(a) \cup Range(b)
  BY <1>1, <1>2, <1>4 DEF Range
<1>6. Range(a) \subseteq Range(c)
  BY <1>1, <1>2 DEF Range
<1>7. Range(b) \subseteq Range(c)
  <2>1. \A k \in 1 .. Len(b) : Len(a) + k \in 1 .. Len(a) + Len(b)
    BY <1>1
  <2> QED BY <1>1, <1>3, <2>1 DEF Range
<1> QED BY <1>5, <1>6, <1>7 DEF c

(* What a concatenation has is what one of its parts has.                  *)
LEMMA FlattenListed ==
  ASSUME NEW S, NEW seqs \in Seq(Seq(S))
  PROVE  Range(FlattenSeq(seqs)) = UNION {Range(seqs[i]) : i \in 1 .. Len(seqs)}
<1> DEFINE s(m) == SubSeq(seqs, 1, m)
           T == {m \in Nat : m <= Len(seqs) => Range(FlattenSeq(s(m))) = UNION {Range(seqs[i]) : i \in 1 .. m}}
<1>1. 0 \in T
  <2>1. s(0) = <<>> /\ 1 .. 0 = {}
    OBVIOUS
  <2>2. Range(<<>>) = {}
    BY DEF Range
  <2> QED BY <2>1, <2>2, FlattenNone
<1>2. ASSUME NEW m \in Nat, m \in T PROVE m + 1 \in T
  <2> HIDE DEF s
  <2>1. SUFFICES ASSUME m + 1 <= Len(seqs)
                 PROVE Range(FlattenSeq(s(m + 1))) = UNION {Range(seqs[i]) : i \in 1 .. m + 1}
    OBVIOUS
  <2>2. Range(FlattenSeq(s(m))) = UNION {Range(seqs[i]) : i \in 1 .. m}
    BY <1>2, <2>1
  <2> DEFINE x == seqs[m + 1]
  <2> USE DEF s
  <2>3. s(m) \in Seq(Seq(S)) /\ x \in Seq(S) /\ s(m + 1) = Append(s(m), x)
    BY <2>1
  <2> HIDE DEF s
  <2>4. FlattenSeq(s(m)) \in Seq(S)
    BY <2>3, FlattenTyped
  <2>5. FlattenSeq(s(m + 1)) = FlattenSeq(s(m)) \o x
    BY <2>3, FlattenMore
  <2>6. Range(FlattenSeq(s(m)) \o x) = Range(FlattenSeq(s(m))) \cup Range(x)
    BY <2>3, <2>4, RangeJoined
  <2>7. 1 .. m + 1 = (1 .. m) \cup {m + 1}
    OBVIOUS
  <2> QED BY <2>2, <2>5, <2>6, <2>7
<1>3. Len(seqs) \in T
  <2> HIDE DEF T
  <2>1. Len(seqs) \in Nat OBVIOUS
  <2> QED BY <1>1, <1>2, <2>1, NatSetInduction
<1>4. SubSeq(seqs, 1, Len(seqs)) = seqs /\ Len(seqs) <= Len(seqs)
  OBVIOUS
<1> QED BY <1>3, <1>4

-----------------------------------------------------------------------------
(* Lists of at most one element each, and an element put into a list.      *)
(* A list of at most one element that is not empty is that element.        *)
LEMMA Singleton ==
  ASSUME NEW S, NEW x \in Seq(S), Len(x) \in {0, 1}, x # <<>>
  PROVE  \E e \in S : x = <<e>>
<1>1. Len(x) # 0
  <2>1. Len(x) = 0 => x = <<>>
    OBVIOUS
  <2>2. QED
    BY <2>1
<1>2. x = <<x[1]>> /\ x[1] \in S
  BY <1>1
<1>3. QED
  BY <1>2

(* An increasing list of the places that the elements come from, when each *)
(* iteration gives at most one.                                            *)
Origins(o, list, seqs) ==
  /\ o \in [1 .. Len(list) -> 1 .. Len(seqs)]
  /\ \A p \in 1 .. Len(list) : seqs[o[p]] = <<list[p]>>
  /\ \A p, q \in 1 .. Len(list) : p < q => o[p] < o[q]
  /\ \A i \in 1 .. Len(seqs) : seqs[i] # <<>> => \E p \in 1 .. Len(list) : o[p] = i

(* Every concatenation of such lists has origins.                          *)
LEMMA FlattenOrigins ==
  ASSUME NEW S, NEW seqs \in Seq(Seq(S)), \A i \in 1 .. Len(seqs) : Len(seqs[i]) \in {0, 1}
  PROVE  \E o : Origins(o, FlattenSeq(seqs), seqs)
<1> DEFINE s(m) == SubSeq(seqs, 1, m)
           T == {m \in Nat : m <= Len(seqs) => \E o : Origins(o, FlattenSeq(s(m)), s(m))}
<1>1. 0 \in T
  <2>1. s(0) = <<>> /\ FlattenSeq(<<>>) = <<>>
    BY FlattenNone
  <2>2. Origins(<<>>, <<>>, <<>>)
    BY DEF Origins
  <2>3. QED
    BY <2>1, <2>2
<1>2. ASSUME NEW n \in Nat, n \in T PROVE n + 1 \in T
  <2> SUFFICES ASSUME n + 1 <= Len(seqs) PROVE \E o : Origins(o, FlattenSeq(s(n + 1)), s(n + 1))
    OBVIOUS
  <2> DEFINE x == seqs[n + 1]
             before == FlattenSeq(s(n))
             after == FlattenSeq(s(n + 1))
  <2>1. s(n) \in Seq(Seq(S)) /\ x \in Seq(S) /\ s(n + 1) = Append(s(n), x)
    OBVIOUS
  <2>2. before \in Seq(S) /\ after = before \o x
    BY <2>1, FlattenTyped, FlattenMore
  <2>3. PICK o : Origins(o, before, s(n))
    BY <1>2
  <2>4. Len(x) \in {0, 1}
    OBVIOUS
  <2>5. Len(s(n)) = n /\ Len(s(n + 1)) = n + 1 /\ (\A i \in 1 .. n : s(n + 1)[i] = s(n)[i]) /\ s(n + 1)[n + 1] = x
    OBVIOUS
  <2> HIDE DEF s, before, after, x
  <2>6. CASE x = <<>>
    <3>1. after = before
      BY <2>2, <2>6
    <3>2. o \in [1 .. Len(before) -> 1 .. n]
      BY <2>3, <2>5 DEF Origins
    <3>3. o \in [1 .. Len(before) -> 1 .. n + 1]
      BY <2>2, <3>2
    <3>4. Origins(o, before, s(n + 1))
      <4>1. \A p \in 1 .. Len(before) : s(n + 1)[o[p]] = <<before[p]>>
        BY <2>3, <2>5, <3>2 DEF Origins
      <4>2. \A p, q \in 1 .. Len(before) : p < q => o[p] < o[q]
        BY <2>3 DEF Origins
      <4>3. \A i \in 1 .. n + 1 : s(n + 1)[i] # <<>> => \E p \in 1 .. Len(before) : o[p] = i
        BY <2>3, <2>5, <2>6 DEF Origins
      <4>4. QED
        BY <2>5, <3>3, <4>1, <4>2, <4>3 DEF Origins
    <3>5. QED
      BY <3>1, <3>4 DEF after
  <2>7. CASE x # <<>>
    <3>1. PICK e \in S : x = <<e>>
      BY <2>1, <2>4, <2>7, Singleton
    <3>2. after = Append(before, e)
      BY <2>2, <3>1
    <3> DEFINE l == Len(before)
               new == [p \in 1 .. l + 1 |-> IF p = l + 1 THEN n + 1 ELSE o[p]]
    <3>3. l \in Nat /\ Len(after) = l + 1 /\ after[l + 1] = e /\ \A p \in 1 .. l : after[p] = before[p]
      BY <2>2, <3>2
    <3>4. \A p \in 1 .. l : o[p] \in 1 .. n
      BY <2>3, <2>5 DEF Origins
    <3> HIDE DEF l
    <3>5. new \in [1 .. l + 1 -> 1 .. n + 1]
      BY <3>3, <3>4
    <3>6. ASSUME NEW p \in 1 .. l + 1 PROVE s(n + 1)[new[p]] = <<after[p]>>
      <4>1. CASE p = l + 1
        BY <2>5, <3>1, <3>3, <4>1
      <4>2. CASE p \in 1 .. l
        <5>1. s(n)[o[p]] = <<before[p]>>
          BY <2>3, <4>2 DEF Origins, l
        <5>2. QED
          BY <2>5, <3>3, <3>4, <4>2, <5>1
      <4>3. QED
        BY <3>3, <4>1, <4>2
    <3>7. ASSUME NEW p \in 1 .. l + 1, NEW q \in 1 .. l + 1, p < q PROVE new[p] < new[q]
      <4>1. p \in 1 .. l /\ new[p] = o[p] /\ o[p] \in 1 .. n
        BY <3>3, <3>4, <3>7
      <4>2. CASE q = l + 1
        BY <3>3, <4>1, <4>2
      <4>3. CASE q \in 1 .. l
        <5>1. o[p] < o[q]
          BY <2>3, <3>7, <4>1, <4>3 DEF Origins, l
        <5>2. QED
          BY <3>3, <4>1, <4>3, <5>1
      <4>4. QED
        BY <3>3, <4>2, <4>3
    <3>8. ASSUME NEW i \in 1 .. n + 1, s(n + 1)[i] # <<>> PROVE \E p \in 1 .. l + 1 : new[p] = i
      <4>1. CASE i = n + 1
        BY <3>3, <4>1
      <4>2. CASE i \in 1 .. n
        <5>1. PICK p \in 1 .. l : o[p] = i
          BY <2>3, <2>5, <3>8, <4>2 DEF Origins, l
        <5>2. p \in 1 .. l + 1 /\ new[p] = i
          BY <3>3, <5>1
        <5>3. QED
          BY <5>2
      <4>3. QED
        BY <4>1, <4>2
    <3> HIDE DEF new
    <3>9. Origins(new, after, s(n + 1))
      BY <2>5, <3>3, <3>5, <3>6, <3>7, <3>8 DEF Origins
    <3>10. QED
      BY <3>9 DEF after
  <2>8. QED
    BY <2>6, <2>7
<1>3. \A n \in Nat : n \in T
  <2> HIDE DEF T
  <2>1. QED
    BY <1>1, <1>2, NatSetInduction
<1>4. s(Len(seqs)) = seqs
  OBVIOUS
<1>5. \E o : Origins(o, FlattenSeq(s(Len(seqs))), s(Len(seqs)))
  BY <1>3
<1>6. QED
  BY <1>4, <1>5

(* Where an element comes to stand when one is inserted behind the first   *)
(* slot of them.                                                           *)
Moved(slot, i) == IF i <= slot THEN i ELSE i + 1

(* InsertAt puts it there and moves what is behind it on by one.           *)
LEMMA InsertAtIs ==
  ASSUME NEW S, NEW list \in Seq(S), NEW slot \in 0 .. Len(list), NEW x \in S
  PROVE  LET longer == InsertAt(list, slot + 1, x)
         IN  /\ longer \in Seq(S)
             /\ Len(longer) = Len(list) + 1
             /\ longer[slot + 1] = x
             /\ \A i \in 1 .. Len(list) : longer[Moved(slot, i)] = list[i]
<1> DEFINE longer == InsertAt(list, slot + 1, x)
           first == SubSeq(list, 1, slot)
           rest == SubSeq(list, slot + 1, Len(list))
<1>1. /\ first \in Seq(S) /\ Len(first) = slot
      /\ \A i \in 1 .. slot : first[i] = list[i]
  OBVIOUS
<1>2. /\ rest \in Seq(S) /\ Len(rest) = Len(list) - slot
      /\ \A i \in 1 .. Len(list) - slot : rest[i] = list[slot + i]
  OBVIOUS
<1>3. longer = first \o <<x>> \o rest
  <2>1. (slot + 1) - 1 = slot
    OBVIOUS
  <2>2. longer = SubSeq(list, 1, (slot + 1) - 1) \o <<x>> \o SubSeq(list, slot + 1, Len(list))
    BY DEF InsertAt
  <2>3. QED
    BY <2>1, <2>2
<1> HIDE DEF longer, first, rest
<1>4. /\ first \o <<x>> \in Seq(S) /\ Len(first \o <<x>>) = slot + 1
      /\ (first \o <<x>>)[slot + 1] = x
      /\ \A i \in 1 .. slot : (first \o <<x>>)[i] = list[i]
  BY <1>1
<1>5. longer \in Seq(S) /\ Len(longer) = Len(list) + 1 /\ longer[slot + 1] = x
  BY <1>2, <1>3, <1>4
<1>6. ASSUME NEW i \in 1 .. Len(list) PROVE longer[Moved(slot, i)] = list[i]
  <2>1. CASE i <= slot
    BY <1>2, <1>3, <1>4, <2>1 DEF Moved
  <2>2. CASE i > slot
    <3>1. longer[i + 1] = rest[i - slot]
      BY <1>2, <1>3, <1>4, <2>2
    <3>2. QED
      BY <1>2, <2>2, <3>1 DEF Moved
  <2>3. QED
    BY <2>1, <2>2
<1>7. QED
  BY <1>5, <1>6 DEF longer

(* Where an element stood before.                                          *)
Back(slot, j) == IF j <= slot THEN j ELSE j - 1

(* Places keep their order, and none comes to stand in the new place.      *)
LEMMA MovedIs ==
  ASSUME NEW n \in Nat, NEW slot \in 0 .. n
  PROVE  /\ \A i \in 1 .. n : Moved(slot, i) \in 1 .. n + 1 /\ Moved(slot, i) # slot + 1
         /\ \A i, j \in 1 .. n : Moved(slot, i) < Moved(slot, j) <=> i < j
         /\ \A i, j \in 1 .. n : Moved(slot, i) = Moved(slot, j) => i = j
         /\ \A j \in 1 .. n + 1 : j # slot + 1 => Back(slot, j) \in 1 .. n /\ Moved(slot, Back(slot, j)) = j
  BY DEF Moved, Back

(* Cardinalities do not change as places move.                             *)
LEMMA AsMany ==
  ASSUME NEW n \in Nat, NEW slot \in 0 .. n, NEW A \in SUBSET (1 .. n), NEW B \in SUBSET (1 .. n + 1),
         \A j \in 1 .. n + 1 : j \in B <=> \E i \in A : j = Moved(slot, i)
  PROVE  Cardinality(B) = Cardinality(A)
<1> DEFINE f == [i \in A |-> Moved(slot, i)]
<1>1. \A i, j \in 1 .. n : Moved(slot, i) = Moved(slot, j) => i = j
  BY MovedIs
<1>2. IsFiniteSet(A)
  <2>1. IsFiniteSet(1 .. n)
    BY FS_Interval
  <2>2. QED
    BY <2>1, FS_Subset
<1>3. f \in [A -> B]
  BY MovedIs
<1>4. f \in Injection(A, B)
  <2>1. IsInjective(f)
    <3>1. ASSUME NEW i \in A, NEW j \in A, f[i] = f[j] PROVE i = j
      <4>1. i \in 1 .. n /\ j \in 1 .. n /\ Moved(slot, i) = Moved(slot, j)
        BY <3>1
      <4>2. QED
        BY <1>1, <4>1
    <3>2. QED
      BY <1>3, <3>1 DEF IsInjective
  <2>2. QED
    BY <1>3, <2>1 DEF Injection, IsInjective
<1>5. f \in Surjection(A, B)
  BY <1>3 DEF Surjection
<1>6. f \in Bijection(A, B)
  BY <1>4, <1>5 DEF Bijection
<1>7. QED
  BY <1>2, <1>6, FS_Bijection DEF ExistsBijection

(* A list of lists that has those of another in their order, and leaves    *)
(* out or adds only empty ones, has the same concatenation.                *)
Thinned(o, a, b) ==
  /\ o \in [1 .. Len(a) -> 0 .. Len(b)]
  /\ \A i \in 1 .. Len(a) : a[i] = IF o[i] = 0 THEN <<>> ELSE b[o[i]]
  /\ \A i, j \in 1 .. Len(a) : i < j /\ o[i] # 0 /\ o[j] # 0 => o[i] < o[j]
  /\ \A k \in 1 .. Len(b) : b[k] # <<>> => \E i \in 1 .. Len(a) : o[i] = k

LEMMA FlattenThinned ==
  ASSUME NEW S, NEW a \in Seq(Seq(S)), NEW b \in Seq(Seq(S)), NEW o, Thinned(o, a, b)
  PROVE  FlattenSeq(a) = FlattenSeq(b)
<1> DEFINE A(i) == FlattenSeq(SubSeq(a, 1, i))
           B(k) == FlattenSeq(SubSeq(b, 1, k))
           Fits(i, k) == /\ \A j \in 1 .. i : o[j] <= k
                         /\ \A l \in 1 .. k : b[l] # <<>> => \E j \in 1 .. i : o[j] = l
           T == {s \in Nat : \A i \in 0 .. Len(a), k \in 0 .. Len(b) : i + k <= s /\ Fits(i, k) => A(i) = B(k)}
<1>1. A(0) = <<>> /\ B(0) = <<>>
  <2>1. SubSeq(a, 1, 0) = <<>> /\ SubSeq(b, 1, 0) = <<>>
    OBVIOUS
  <2>2. QED
    BY <2>1, FlattenNone
<1>2. \A i \in 0 .. Len(a) - 1 : A(i) \in Seq(S) /\ A(i + 1) = A(i) \o a[i + 1]
  <2>1. SUFFICES ASSUME NEW i \in 0 .. Len(a) - 1 PROVE A(i) \in Seq(S) /\ A(i + 1) = A(i) \o a[i + 1]
    OBVIOUS
  <2>2. SubSeq(a, 1, i) \in Seq(Seq(S)) /\ a[i + 1] \in Seq(S)
    OBVIOUS
  <2>3. SubSeq(a, 1, i + 1) = Append(SubSeq(a, 1, i), a[i + 1])
    OBVIOUS
  <2>4. QED
    BY <2>2, <2>3, FlattenMore, FlattenTyped
<1>3. \A k \in 0 .. Len(b) - 1 : B(k) \in Seq(S) /\ B(k + 1) = B(k) \o b[k + 1]
  <2>1. SUFFICES ASSUME NEW k \in 0 .. Len(b) - 1 PROVE B(k) \in Seq(S) /\ B(k + 1) = B(k) \o b[k + 1]
    OBVIOUS
  <2>2. SubSeq(b, 1, k) \in Seq(Seq(S)) /\ b[k + 1] \in Seq(S)
    OBVIOUS
  <2>3. SubSeq(b, 1, k + 1) = Append(SubSeq(b, 1, k), b[k + 1])
    OBVIOUS
  <2>4. QED
    BY <2>2, <2>3, FlattenMore, FlattenTyped
<1>4. A(Len(a)) = FlattenSeq(a) /\ B(Len(b)) = FlattenSeq(b)
  <2>1. SubSeq(a, 1, Len(a)) = a /\ SubSeq(b, 1, Len(b)) = b
    OBVIOUS
  <2>2. QED
    BY <2>1
<1>5. Len(a) \in Nat /\ Len(b) \in Nat
  OBVIOUS
<1>6. \A i \in 1 .. Len(a) : a[i] \in Seq(S) /\ o[i] \in 0 .. Len(b)
  BY DEF Thinned
<1> HIDE DEF A, B
<1>7. 0 \in T
  BY <1>1, <1>5
<1>8. ASSUME NEW s \in Nat, s \in T PROVE s + 1 \in T
  <2>1. SUFFICES ASSUME NEW i \in 0 .. Len(a), NEW k \in 0 .. Len(b), i + k <= s + 1, Fits(i, k)
                 PROVE  A(i) = B(k)
    OBVIOUS
  <2>2. \A j \in 0 .. Len(a), l \in 0 .. Len(b) : j + l <= s /\ Fits(j, l) => A(j) = B(l)
    <3> HIDE DEF Fits
    <3>1. QED
      BY <1>8
  <2>a. \A j \in 1 .. i : o[j] <= k
    BY <2>1
  <2>b. \A l \in 1 .. k : b[l] # <<>> => \E j \in 1 .. i : o[j] = l
    BY <2>1
  <2>3. CASE i = 0 /\ k = 0
    BY <1>1, <2>3
  <2>4. CASE i # 0 /\ o[i] = 0
    <3>1. i \in 1 .. Len(a) /\ i - 1 \in 0 .. Len(a) - 1 /\ i - 1 \in 0 .. Len(a) /\ (i - 1) + 1 = i
      BY <1>5, <2>1, <2>4
    <3>2. a[i] = <<>>
      BY <2>4, <3>1 DEF Thinned
    <3>3. Fits(i - 1, k)
      <4>1. \A j \in 1 .. i - 1 : o[j] <= k
        BY <2>1, <3>1
      <4>2. ASSUME NEW l \in 1 .. k, b[l] # <<>> PROVE \E j \in 1 .. i - 1 : o[j] = l
        <5>1. PICK j \in 1 .. i : o[j] = l
          BY <2>b, <4>2
        <5>2. j # i
          BY <2>4, <4>2, <5>1
        <5>3. QED
          BY <3>1, <5>1, <5>2
      <4>3. QED
        BY <4>1, <4>2
    <3> HIDE DEF Fits
    <3>a. (i - 1) + k <= s
      BY <1>5, <2>1, <3>1
    <3>4. A(i - 1) = B(k)
      BY <2>2, <3>1, <3>3, <3>a
    <3>5. A(i) = A(i - 1) \o <<>> /\ A(i - 1) \in Seq(S)
      BY <1>2, <3>1, <3>2
    <3>6. A(i) = A(i - 1)
      BY <3>5
    <3>7. QED
      BY <3>4, <3>6
  <2>5. CASE i # 0 /\ k # 0 /\ o[i] = k
    <3>1. /\ i \in 1 .. Len(a) /\ i - 1 \in 0 .. Len(a) - 1 /\ i - 1 \in 0 .. Len(a) /\ (i - 1) + 1 = i
          /\ k \in 1 .. Len(b) /\ k - 1 \in 0 .. Len(b) - 1 /\ k - 1 \in 0 .. Len(b) /\ (k - 1) + 1 = k
      BY <1>5, <2>1, <2>5
    <3>2. a[i] = b[k]
      BY <2>5, <3>1 DEF Thinned
    <3>3. Fits(i - 1, k - 1)
      <4>1. ASSUME NEW j \in 1 .. i - 1 PROVE o[j] <= k - 1
        <5>1. j \in 1 .. Len(a) /\ j < i /\ o[j] \in 0 .. Len(b)
          BY <1>6, <3>1, <1>5
        <5>2. o[j] = 0 \/ o[j] < o[i]
          BY <2>5, <3>1, <5>1 DEF Thinned
        <5>3. QED
          BY <2>5, <3>1, <5>1, <5>2, <1>5
      <4>2. ASSUME NEW l \in 1 .. k - 1, b[l] # <<>> PROVE \E j \in 1 .. i - 1 : o[j] = l
        <5>1. l \in 1 .. k
          BY <4>2, <3>1, <1>5
        <5>2. PICK j \in 1 .. i : o[j] = l
          BY <2>b, <4>2, <5>1
        <5>3. j # i
          BY <2>5, <4>2, <5>2, <3>1, <1>5
        <5>4. QED
          BY <3>1, <5>2, <5>3, <1>5
      <4>3. QED
        BY <4>1, <4>2
    <3> HIDE DEF Fits
    <3>a. (i - 1) + (k - 1) <= s
      BY <1>5, <2>1, <3>1
    <3>4. A(i - 1) = B(k - 1)
      BY <2>2, <3>1, <3>3, <3>a
    <3>5. A(i) = A(i - 1) \o a[i] /\ B(k) = B(k - 1) \o b[k]
      BY <1>2, <1>3, <3>1
    <3>6. QED
      BY <3>2, <3>4, <3>5
  <2>6. CASE k # 0 /\ (i # 0 => o[i] # 0 /\ o[i] # k)
    <3>1. k \in 1 .. Len(b) /\ k - 1 \in 0 .. Len(b) - 1 /\ k - 1 \in 0 .. Len(b) /\ (k - 1) + 1 = k
      BY <1>5, <2>1, <2>6
    <3>2. ASSUME NEW j \in 1 .. i PROVE o[j] <= k - 1
      <4>1. /\ i # 0 /\ i \in 1 .. Len(a) /\ j \in 1 .. Len(a) /\ (j = i \/ j < i)
            /\ o[j] \in 0 .. Len(b) /\ o[i] \in 0 .. Len(b)
        BY <1>5, <1>6, <2>1, <3>2
      <4>2. o[i] <= k
        BY <2>a, <4>1
      <4>3. o[j] = 0 \/ o[j] <= o[i]
        BY <2>6, <4>1 DEF Thinned
      <4>4. QED
        BY <1>5, <2>6, <3>1, <4>1, <4>2, <4>3
    <3>3. b[k] = <<>>
      <4>1. SUFFICES ASSUME b[k] # <<>> PROVE FALSE
        OBVIOUS
      <4>2. PICK j \in 1 .. i : o[j] = k
        BY <2>b, <3>1, <4>1
      <4>3. k <= k - 1
        BY <3>2, <4>2
      <4>4. QED
        BY <1>5, <2>1, <3>1, <4>3
    <3>4. Fits(i, k - 1)
      <4>1. \A l \in 1 .. k - 1 : l \in 1 .. k
        BY <1>5, <2>1, <3>1
      <4>2. QED
        BY <2>b, <3>2, <4>1
    <3>a. i + (k - 1) <= s
      BY <1>5, <2>1, <3>1
    <3>5. A(i) = B(k - 1)
      <4> HIDE DEF Fits
      <4>1. QED
        BY <2>2, <3>1, <3>4, <3>a
    <3>6. B(k) = B(k - 1) \o <<>> /\ B(k - 1) \in Seq(S)
      BY <1>3, <3>1, <3>3
    <3>7. B(k) = B(k - 1)
      BY <3>6
    <3>8. QED
      BY <3>5, <3>7
  <2>7. i # 0 => i \in 1 .. Len(a) /\ o[i] <= k /\ o[i] \in 0 .. Len(b)
    BY <1>5, <1>6, <2>1
  <2>8. i # 0 /\ k = 0 => o[i] = 0
    BY <2>7, <1>5
  <2>9. QED
    BY <2>3, <2>4, <2>5, <2>6, <2>8
<1>9. Len(a) + Len(b) \in T
  <2>1. Len(a) + Len(b) \in Nat
    BY <1>5
  <2> HIDE DEF T
  <2>2. QED
    BY <1>7, <1>8, <2>1, NatSetInduction
<1>10. Fits(Len(a), Len(b))
  BY <1>5, <1>6 DEF Thinned
<1>a. Len(a) \in 0 .. Len(a) /\ Len(b) \in 0 .. Len(b) /\ Len(a) + Len(b) <= Len(a) + Len(b)
  BY <1>5
<1>11. A(Len(a)) = B(Len(b))
  <2> HIDE DEF Fits
  <2>1. QED
    BY <1>9, <1>10, <1>a
<1>12. QED
  BY <1>4, <1>11
=============================================================================
