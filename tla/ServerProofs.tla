---------------------------- MODULE ServerProofs ----------------------------
(***************************************************************************)
(* Theorems about building and serving an application, for any graph, any  *)
(* things given and any number of calls: the application is frozen, what   *)
(* Validate accepts meets the assumption of the run loop, and starting a   *)
(* server from an application is a start in the sense of TokenFile; and    *)
(* about the requests it then serves.                                      *)
(***************************************************************************)
EXTENDS Startup, Http, ListProofs, TLAPS

(***************************************************************************)
(* The token file, for every set of servers.  TokenAgreed by itself is not *)
(* inductive: a server about to write could overwrite a token that another *)
(* serves.  What excludes it is that the server that created the file is   *)
(* the only one to write it, and finds it as it left it.                   *)
(***************************************************************************)
SoleWriter ==
  \A s \in Servers : pc[s] = "write" =>
    /\ file = "empty"
    /\ \A t \in Servers : pc[t] = "write" => t = s

TokenInv == TypeOK /\ SoleWriter /\ TokenAgreed

LEMMA TokenStarts == Init => TokenInv
  BY TokenAssumption DEF Init, TokenInv, TypeOK, SoleWriter, TokenAgreed

LEMMA TokenSteps == TokenInv /\ [Next]_vars => TokenInv'
<1> SUFFICES ASSUME TokenInv, [Next]_vars PROVE TokenInv'
  OBVIOUS
<1> USE TokenAssumption DEF TokenInv, TypeOK, SoleWriter, TokenAgreed, Goto, Serve
<1>1. ASSUME NEW s \in Servers, Stat(s) PROVE TokenInv'
  BY <1>1 DEF Stat
<1>2. ASSUME NEW s \in Servers, Read(s) PROVE TokenInv'
  BY <1>2 DEF Read
<1>3. ASSUME NEW s \in Servers, Create(s) PROVE TokenInv'
  BY <1>3 DEF Create, Exclusive
<1>4. ASSUME NEW s \in Servers, Write(s) PROVE TokenInv'
  BY <1>4 DEF Write
<1>5. ASSUME NEW s \in Servers, Crash(s) PROVE TokenInv'
  BY <1>5 DEF Crash
<1>6. CASE UNCHANGED vars
  BY <1>6 DEF vars
<1>7. QED
  BY <1>1, <1>2, <1>3, <1>4, <1>5, <1>6 DEF Next, Stop

LEMMA TokenInvariant == Spec => []TokenInv
  BY TokenStarts, TokenSteps, PTL DEF Spec

(* Every server that serves does so with the token in the file, for any    *)
(* number of servers starting at once and dying anywhere.                  *)
THEOREM TokensAgree == Spec => []TokenAgreed
<1>1. TokenInv => TokenAgreed
  BY DEF TokenInv
<1>2. QED
  BY TokenInvariant, <1>1, PTL

(* Once a file holds a token no start of a server ever changes it, so that *)
(* a token given to a client stays good over restarts.                     *)
THEOREM TokenKept == Spec => [][(file \in Tokens => file' = file)]_vars
<1>1. TokenInv /\ [Next]_vars => [(file \in Tokens => file' = file)]_vars
  <2> SUFFICES ASSUME TokenInv, [Next]_vars PROVE [(file \in Tokens => file' = file)]_vars
    OBVIOUS
  <2> USE TokenAssumption DEF TokenInv, TypeOK, SoleWriter
  <2>1. CASE UNCHANGED vars
    BY <2>1
  <2>2. ASSUME NEW s \in Servers, Stat(s) \/ Read(s) \/ Create(s) \/ Write(s) \/ Crash(s)
        PROVE file \in Tokens => file' = file
    BY <2>2 DEF Stat, Read, Create, Exclusive, Write, Crash
  <2>3. QED
    BY <2>1, <2>2 DEF Next, Stop
<1>2. QED
  BY TokenInvariant, <1>1, PTL DEF Spec

-----------------------------------------------------------------------------
(* Building. *)
RouteType == [there : BOOLEAN, whens : Seq(Names), otherwise : Given]

(* The graph as it is built has the types that StateGraph assumes.         *)
GraphTyped ==
  /\ nodes \in Seq(Names)
  /\ fixed \in [Names -> Seq(Names)]
  /\ routes \in [Names -> RouteType]
  /\ start \in Given
  /\ finish \in Seq(Names)
  /\ builders \subseteq Given

(* The skills of an application are none or in a registry that was made    *)
(* for it, never in the one the caller goes on registering in.             *)
IsList(list) == \E S : list \in Seq(S)
AppOwns ==
  /\ IsList(apps) /\ IsList(registries) /\ Len(registries) = Len(apps) + 1
  /\ \A k \in 1 .. Len(apps) : apps[k].skills = Nil \/ apps[k].skills \in 2 .. Len(registries)

LEMMA NoRouteTyped == Absent \in RouteType /\ NewRoute \in RouteType
<1>1. <<>> \in Seq(Names) /\ Empty \in Given
  BY DEF Given
<1>2. Absent \in RouteType
  BY <1>1 DEF Absent, RouteType
<1>3. \A r \in RouteType : [r EXCEPT !.there = TRUE] \in RouteType
  BY DEF RouteType
<1>4. QED
  BY <1>2, <1>3 DEF NewRoute

LEMMA GraphStarts == GraphInit => GraphTyped
  BY NamesAssumption, NoRouteTyped DEF GraphInit, GraphTyped, Given

LEMMA Appended == ASSUME NEW S, NEW list \in Seq(S), NEW x \in S PROVE Append(list, x) \in Seq(S)
  OBVIOUS

LEMMA RefuseTyped == ASSUME GraphTyped, Refuse, builders' \subseteq Given PROVE GraphTyped'
  BY DEF GraphTyped, Refuse

LEMMA RoutesTyped ==
  ASSUME routes \in [Names -> RouteType], NEW n \in Names, NEW target \in Names
  PROVE  /\ [routes EXCEPT ![n] = NewRoute] \in [Names -> RouteType]
         /\ [routes EXCEPT ![n].whens = Append(@, target)] \in [Names -> RouteType]
         /\ [routes EXCEPT ![n].otherwise = target] \in [Names -> RouteType]
<1>1. NewRoute \in RouteType
  BY NoRouteTyped
<1>2. \A r \in RouteType : [r EXCEPT !.otherwise = target] \in RouteType
  BY DEF RouteType, Given
<1>3. \A r \in RouteType : [r EXCEPT !.whens = Append(@, target)] \in RouteType
  <2> SUFFICES ASSUME NEW r \in RouteType PROVE [r EXCEPT !.whens = Append(@, target)] \in RouteType
    OBVIOUS
  <2>1. Append(r.whens, target) \in Seq(Names)
    BY Appended DEF RouteType
  <2>2. QED
    BY <2>1 DEF RouteType
<1>4. QED
  BY <1>1, <1>2, <1>3

LEMMA GraphSteps == ASSUME GraphTyped, GraphNext PROVE GraphTyped'
<1> USE NamesAssumption DEF Given
<1>1. ASSUME NEW id \in Given, NEW given \in BOOLEAN, Node(id, given) PROVE GraphTyped'
  <2>1. CASE id = Empty \/ ~given \/ HasNode(id)
    BY <1>1, <2>1, RefuseTyped DEF Node, GraphTyped
  <2>2. CASE ~(id = Empty \/ ~given \/ HasNode(id))
    <3>1. Append(nodes, id) \in Seq(Names)
      BY <2>2, Appended DEF GraphTyped
    <3>2. QED
      BY <1>1, <2>2, <3>1 DEF Node, GraphTyped
  <2>3. QED
    BY <2>1, <2>2
<1>2. ASSUME NEW l \in Links, Edge(l.from, l.to) PROVE GraphTyped'
  <2>1. CASE l.from = Empty \/ l.to = Empty
    BY <1>2, <2>1, RefuseTyped DEF Edge, GraphTyped
  <2>2. CASE ~(l.from = Empty \/ l.to = Empty)
    <3>1. l.from \in Names /\ l.to \in Names
      BY <2>2, LinksAssumption
    <3>2. Append(fixed[l.from], l.to) \in Seq(Names)
      BY <3>1, Appended DEF GraphTyped
    <3>3. QED
      BY <1>2, <2>2, <3>1, <3>2 DEF Edge, GraphTyped
  <2>3. QED
    BY <2>1, <2>2
<1>3. ASSUME NEW l \in Links, Reachable(l.from, l.to) PROVE GraphTyped'
  BY <1>3, RefuseTyped DEF Reachable, GraphTyped
<1>4. ASSUME NEW from \in Given, Route(from) PROVE GraphTyped'
  <2>1. CASE from = Empty \/ from \in Routed
    BY <1>4, <2>1, RefuseTyped DEF Route, GraphTyped
  <2>2. CASE ~(from = Empty \/ from \in Routed)
    <3>1. routes' \in [Names -> RouteType]
      BY <1>4, <2>2, NoRouteTyped DEF Route, GraphTyped
    <3>2. QED
      BY <1>4, <2>2, <3>1 DEF Route, GraphTyped
  <2>3. QED
    BY <2>1, <2>2
<1>5. ASSUME NEW b \in builders, NEW target \in Given, NEW given \in BOOLEAN, RouteWhen(b, given, target)
      PROVE GraphTyped'
  <2>1. CASE b = Empty \/ ~given \/ target = Empty
    BY <1>5, <2>1, RefuseTyped DEF RouteWhen, GraphTyped
  <2>2. CASE ~(b = Empty \/ ~given \/ target = Empty)
    <3>1. b \in Names /\ target \in Names
      BY <2>2 DEF GraphTyped
    <3>2. [routes EXCEPT ![b].whens = Append(@, target)] \in [Names -> RouteType]
      BY <3>1, RoutesTyped DEF GraphTyped
    <3>3. QED
      BY <1>5, <2>2, <3>2 DEF RouteWhen, GraphTyped
  <2>3. QED
    BY <2>1, <2>2
<1>6. ASSUME NEW b \in builders, NEW target \in Given, RouteOtherwise(b, target) PROVE GraphTyped'
  <2>1. CASE b = Empty \/ target = Empty
    BY <1>6, <2>1, RefuseTyped DEF RouteOtherwise, GraphTyped
  <2>2. CASE ~(b = Empty \/ target = Empty)
    <3>1. b \in Names /\ target \in Names
      BY <2>2 DEF GraphTyped
    <3>2. [routes EXCEPT ![b].otherwise = target] \in [Names -> RouteType]
      BY <3>1, RoutesTyped DEF GraphTyped
    <3>3. QED
      BY <1>6, <2>2, <3>2 DEF RouteOtherwise, GraphTyped
  <2>3. QED
    BY <2>1, <2>2
<1>7. ASSUME NEW id \in Given, Start(id) PROVE GraphTyped'
  BY <1>7, RefuseTyped DEF Start, GraphTyped
<1>8. ASSUME NEW id \in Given, Finish(id) PROVE GraphTyped'
  <2>1. CASE id = Empty
    BY <1>8, <2>1, RefuseTyped DEF Finish, GraphTyped
  <2>2. CASE id # Empty
    <3>1. Append(finish, id) \in Seq(Names)
      BY <2>2, Appended DEF GraphTyped
    <3>2. QED
      BY <1>8, <2>2, <3>1 DEF Finish, GraphTyped
  <2>3. QED
    BY <2>1, <2>2
<1>9. QED
  BY <1>1, <1>2, <1>3, <1>4, <1>5, <1>6, <1>7, <1>8 DEF GraphNext, GraphCall

(* What a snapshot shows.  The edges of one kind from one node are gathered *)
(* from three lists one after the other; fixed edges are kept twice, in the *)
(* order they were asked for and by their source, and GraphListed says that *)
(* both agree, that no node is listed twice and that a node without a route *)
(* has no targets of one.                                                   *)
LinkType == [from : Names, to : Names]
Kinds == {"fixed", "conditional", "otherwise", "dynamic"}
ShownType == [from : Names, to : Names, kind : Kinds, order : Nat]

LeadsFrom(n) == [l \in LinkType |-> IF l.from = n THEN <<l.to>> ELSE <<>>]
Picks(n, kind) == [e \in ShownType |-> IF e.from = n /\ e.kind = kind THEN <<e.to>> ELSE <<>>]

GraphListed ==
  /\ fixedOrder \in Seq(LinkType)
  /\ reachable \in Seq(LinkType)
  /\ \A n \in Names : fixed[n] = Each(fixedOrder, LeadsFrom(n))
  /\ \A i, j \in 1 .. Len(nodes) : nodes[i] = nodes[j] => i = j
  /\ builders \subseteq Routed \cup {Empty}
  /\ \A n \in Names : n \notin Routed => routes[n] = Absent

LEMMA ListedStarts == GraphInit => GraphListed
<1> SUFFICES ASSUME GraphInit PROVE GraphListed
  OBVIOUS
<1>1. fixedOrder = <<>> /\ reachable = <<>> /\ <<>> \in Seq(LinkType)
  BY DEF GraphInit
<1>2. \A n \in Names : fixed[n] = Each(fixedOrder, LeadsFrom(n))
  BY <1>1, EachNone DEF GraphInit
<1>3. nodes = <<>> /\ builders = {} /\ \A n \in Names : routes[n] = Absent
  BY DEF GraphInit
<1>4. QED
  BY <1>1, <1>2, <1>3 DEF GraphListed

LEMMA RefuseListed ==
  ASSUME GraphListed, Refuse, builders' \subseteq Routed \cup {Empty} PROVE GraphListed'
<1>1. UNCHANGED <<nodes, fixed, fixedOrder, reachable, routes>>
  BY DEF Refuse
<1>2. Routed' = Routed
  BY <1>1 DEF Routed
<1>3. QED
  BY <1>1, <1>2 DEF GraphListed

LEMMA LeadsTyped == \A n \in Names : LeadsFrom(n) \in [LinkType -> Seq(Names)]
<1> SUFFICES ASSUME NEW n \in Names PROVE LeadsFrom(n) \in [LinkType -> Seq(Names)]
  OBVIOUS
<1>1. \A l \in LinkType : <<l.to>> \in Seq(Names) /\ <<>> \in Seq(Names)
  BY DEF LinkType
<1>2. QED
  BY <1>1 DEF LeadsFrom

LEMMA EdgeListed ==
  ASSUME GraphTyped, GraphListed, NEW from \in Names, NEW to \in Names,
         fixed' = [fixed EXCEPT ![from] = Append(@, to)],
         fixedOrder' = Append(fixedOrder, Link(from, to))
  PROVE  \A n \in Names : fixed'[n] = Each(fixedOrder', LeadsFrom(n))
<1>1. Link(from, to) \in LinkType /\ Link(from, to).from = from /\ Link(from, to).to = to
  BY DEF Link, LinkType
<1> SUFFICES ASSUME NEW n \in Names PROVE fixed'[n] = Each(fixedOrder', LeadsFrom(n))
  OBVIOUS
<1>2. LeadsFrom(n)[Link(from, to)] = IF from = n THEN <<to>> ELSE <<>>
  BY <1>1 DEF LeadsFrom
<1>3. fixedOrder \in Seq(LinkType) /\ fixed[n] = Each(fixedOrder, LeadsFrom(n)) /\ fixed[n] \in Seq(Names)
  BY DEF GraphListed, GraphTyped
<1>4. Each(fixedOrder', LeadsFrom(n)) = fixed[n] \o LeadsFrom(n)[Link(from, to)]
  <2>1. LeadsFrom(n) \in [LinkType -> Seq(Names)]
    BY LeadsTyped
  <2>2. Each(Append(fixedOrder, Link(from, to)), LeadsFrom(n))
          = Each(fixedOrder, LeadsFrom(n)) \o LeadsFrom(n)[Link(from, to)]
    <3>1. fixedOrder \in Seq(LinkType)
      BY <1>3
    <3>2. Link(from, to) \in LinkType
      BY <1>1
    <3>3. QED
      BY <2>1, <3>1, <3>2, EachMore
  <2>3. QED
    BY <1>3, <2>2
<1>5. fixed'[n] = IF from = n THEN Append(fixed[n], to) ELSE fixed[n]
  BY DEF GraphTyped
<1>6. fixed[n] \o <<>> = fixed[n] /\ fixed[n] \o <<to>> = Append(fixed[n], to)
  BY <1>3
<1>7. QED
  BY <1>2, <1>4, <1>5, <1>6

LEMMA ListedSteps == ASSUME GraphTyped, GraphListed, GraphNext PROVE GraphListed'
<1> USE NamesAssumption DEF Given
<1>0. builders \subseteq Routed \cup {Empty} /\ Routed \subseteq Names
  BY DEF GraphListed, Routed
<1>1. ASSUME NEW id \in Given, NEW given \in BOOLEAN, Node(id, given) PROVE GraphListed'
  <2>1. CASE id = Empty \/ ~given \/ HasNode(id)
    BY <1>0, <1>1, <2>1, RefuseListed DEF Node
  <2>2. CASE ~(id = Empty \/ ~given \/ HasNode(id))
    <3>1. nodes' = Append(nodes, id) /\ UNCHANGED <<fixed, fixedOrder, reachable, routes, builders>>
      BY <1>1, <2>2 DEF Node
    <3>2. \A i \in 1 .. Len(nodes) : nodes[i] # id
      BY <2>2 DEF HasNode, Elements
    <3>3. \A i, j \in 1 .. Len(nodes') : nodes'[i] = nodes'[j] => i = j
      BY <3>1, <3>2 DEF GraphTyped, GraphListed
    <3>4. Routed' = Routed
      BY <3>1 DEF Routed
    <3>5. QED
      BY <3>1, <3>3, <3>4 DEF GraphListed
  <2>3. QED
    BY <2>1, <2>2
<1>2. ASSUME NEW l \in Links, Edge(l.from, l.to) PROVE GraphListed'
  <2>1. CASE l.from = Empty \/ l.to = Empty
    BY <1>0, <1>2, <2>1, RefuseListed DEF Edge
  <2>2. CASE ~(l.from = Empty \/ l.to = Empty)
    <3>1. l.from \in Names /\ l.to \in Names
      BY <2>2, LinksAssumption
    <3>2. /\ fixed' = [fixed EXCEPT ![l.from] = Append(@, l.to)]
          /\ fixedOrder' = Append(fixedOrder, Link(l.from, l.to))
          /\ UNCHANGED <<nodes, reachable, routes, builders>>
      BY <1>2, <2>2 DEF Edge
    <3>3. \A n \in Names : fixed'[n] = Each(fixedOrder', LeadsFrom(n))
      BY <3>1, <3>2, EdgeListed
    <3>4. Link(l.from, l.to) \in LinkType
      BY <3>1 DEF Link, LinkType
    <3>5. fixedOrder' \in Seq(LinkType)
      BY <3>2, <3>4, Appended DEF GraphListed
    <3>6. Routed' = Routed
      BY <3>2 DEF Routed
    <3>7. QED
      BY <3>2, <3>3, <3>5, <3>6 DEF GraphListed
  <2>3. QED
    BY <2>1, <2>2
<1>3. ASSUME NEW l \in Links, Reachable(l.from, l.to) PROVE GraphListed'
  <2>1. CASE l.from = Empty \/ l.to = Empty
    BY <1>0, <1>3, <2>1, RefuseListed DEF Reachable
  <2>2. CASE ~(l.from = Empty \/ l.to = Empty)
    <3>1. Link(l.from, l.to) \in LinkType
      BY <2>2, LinksAssumption DEF Link, LinkType
    <3>2. /\ reachable' = Append(reachable, Link(l.from, l.to))
          /\ UNCHANGED <<nodes, fixed, fixedOrder, routes, builders>>
      BY <1>3, <2>2 DEF Reachable
    <3>3. reachable' \in Seq(LinkType)
      BY <3>1, <3>2, Appended DEF GraphListed
    <3>4. Routed' = Routed
      BY <3>2 DEF Routed
    <3>5. QED
      BY <3>2, <3>3, <3>4 DEF GraphListed
  <2>3. QED
    BY <2>1, <2>2
<1>4. ASSUME NEW from \in Given, Route(from) PROVE GraphListed'
  <2>1. CASE from = Empty \/ from \in Routed
    BY <1>0, <1>4, <2>1, RefuseListed DEF Route
  <2>2. CASE ~(from = Empty \/ from \in Routed)
    <3>1. /\ routes' = [routes EXCEPT ![from] = NewRoute]
          /\ builders' = builders \cup {from}
          /\ UNCHANGED <<nodes, fixed, fixedOrder, reachable>>
      BY <1>4, <2>2 DEF Route
    <3>2. from \in Names
      BY <2>2
    <3>3. NewRoute.there
      BY DEF NewRoute, Absent
    <3>4. Routed' = Routed \cup {from}
      BY <3>1, <3>2, <3>3 DEF Routed, GraphTyped
    <3>5. \A n \in Names : n \notin Routed' => routes'[n] = Absent
      BY <3>1, <3>4 DEF GraphListed, GraphTyped
    <3>6. QED
      BY <1>0, <3>1, <3>4, <3>5 DEF GraphListed
  <2>3. QED
    BY <2>1, <2>2
<1>5. ASSUME NEW b \in builders, b # Empty, NEW route \in RouteType, route.there,
             routes' = [routes EXCEPT ![b] = route],
             UNCHANGED <<nodes, fixed, fixedOrder, reachable, builders>>
      PROVE  GraphListed'
  <2>1. b \in Names /\ b \in Routed
    BY <1>0, <1>5
  <2>2. Routed' = Routed
    BY <1>5, <2>1 DEF Routed, GraphTyped
  <2>3. \A n \in Names : n \notin Routed' => routes'[n] = Absent
    BY <1>5, <2>1, <2>2 DEF GraphListed, GraphTyped
  <2>4. QED
    BY <1>5, <2>2, <2>3 DEF GraphListed
<1>6. ASSUME NEW b \in builders, NEW target \in Given, NEW given \in BOOLEAN, RouteWhen(b, given, target)
      PROVE GraphListed'
  <2>1. CASE b = Empty \/ ~given \/ target = Empty
    BY <1>0, <1>6, <2>1, RefuseListed DEF RouteWhen
  <2>2. CASE ~(b = Empty \/ ~given \/ target = Empty)
    <3>1. b \in Names /\ target \in Names /\ b \in Routed
      BY <1>0, <2>2
    <3>2. routes' = [routes EXCEPT ![b].whens = Append(@, target)]
          /\ UNCHANGED <<nodes, fixed, fixedOrder, reachable, builders>>
      BY <1>6, <2>2 DEF RouteWhen
    <3>3. routes'[b] \in RouteType
      <4>1. routes' \in [Names -> RouteType]
        BY <3>1, <3>2, RoutesTyped DEF GraphTyped
      <4>2. QED
        BY <3>1, <4>1
    <3>4. routes' = [routes EXCEPT ![b] = routes'[b]] /\ routes'[b].there
      BY <3>1, <3>2 DEF GraphTyped, Routed, RouteType
    <3>5. QED
      BY <1>5, <2>2, <3>2, <3>3, <3>4
  <2>3. QED
    BY <2>1, <2>2
<1>7. ASSUME NEW b \in builders, NEW target \in Given, RouteOtherwise(b, target) PROVE GraphListed'
  <2>1. CASE b = Empty \/ target = Empty
    BY <1>0, <1>7, <2>1, RefuseListed DEF RouteOtherwise
  <2>2. CASE ~(b = Empty \/ target = Empty)
    <3>1. b \in Names /\ target \in Names /\ b \in Routed
      BY <1>0, <2>2
    <3>2. routes' = [routes EXCEPT ![b].otherwise = target]
          /\ UNCHANGED <<nodes, fixed, fixedOrder, reachable, builders>>
      BY <1>7, <2>2 DEF RouteOtherwise
    <3>3. routes'[b] \in RouteType
      <4>1. routes' \in [Names -> RouteType]
        BY <3>1, <3>2, RoutesTyped DEF GraphTyped
      <4>2. QED
        BY <3>1, <4>1
    <3>4. routes' = [routes EXCEPT ![b] = routes'[b]] /\ routes'[b].there
      BY <3>1, <3>2 DEF GraphTyped, Routed, RouteType
    <3>5. QED
      BY <1>5, <2>2, <3>2, <3>3, <3>4
  <2>3. QED
    BY <2>1, <2>2
<1>8. ASSUME NEW id \in Given, Start(id) \/ Finish(id) PROVE GraphListed'
  <2>1. CASE id = Empty
    BY <1>0, <1>8, <2>1, RefuseListed DEF Start, Finish
  <2>2. CASE id # Empty
    <3>1. UNCHANGED <<nodes, fixed, fixedOrder, reachable, routes, builders>>
      BY <1>8, <2>2 DEF Start, Finish
    <3>2. Routed' = Routed
      BY <3>1 DEF Routed
    <3>3. QED
      BY <3>1, <3>2 DEF GraphListed
  <2>3. QED
    BY <2>1, <2>2
<1>9. QED
  BY <1>1, <1>2, <1>3, <1>4, <1>6, <1>7, <1>8 DEF GraphNext, GraphCall

LEMMA ListMore ==
  ASSUME NEW list, IsList(list), NEW x
  PROVE  /\ IsList(Append(list, x))
         /\ Len(list) \in Nat /\ DOMAIN list = 1 .. Len(list)
         /\ Len(Append(list, x)) = Len(list) + 1
         /\ DOMAIN Append(list, x) = 1 .. Len(list) + 1
         /\ \A k \in 1 .. Len(list) : Append(list, x)[k] = list[k]
         /\ Append(list, x)[Len(list) + 1] = x
<1>1. PICK S : list \in Seq(S)
  BY DEF IsList
<1>2. list \in Seq(S \cup {x}) /\ x \in S \cup {x}
  BY <1>1
<1>3. Append(list, x) \in Seq(S \cup {x})
  BY <1>2
<1>4. QED
  BY <1>2, <1>3 DEF IsList

LEMMA ListSet ==
  ASSUME NEW list, IsList(list), NEW set, NEW i,
         set = [k \in DOMAIN list |-> set[k]], \A k \in DOMAIN list : k # i => set[k] = list[k]
  PROVE  IsList(set) /\ Len(set) = Len(list)
<1>1. PICK S : list \in Seq(S)
  BY DEF IsList
<1>2. \A k \in DOMAIN list : set[k] \in S \cup {set[i]}
  BY <1>1
<1>3. DOMAIN list = 1 .. Len(list) /\ Len(list) \in Nat
  BY <1>1
<1>4. set \in Seq(S \cup {set[i]}) /\ Len(set) = Len(list)
  BY <1>2, <1>3
<1>5. QED
  BY <1>4 DEF IsList

LEMMA AppStarts == AppInit => AppOwns
<1>1. IsList(<<>>) /\ IsList(<< <<>> >>)
  <2>1. <<>> \in Seq({}) /\ << <<>> >> \in Seq({<<>>})
    OBVIOUS
  <2>2. QED
    BY <2>1 DEF IsList
<1>2. QED
  BY <1>1 DEF AppInit, AppOwns

(* Everything but Build and the caller's Register leaves applications and  *)
(* registries alone.                                                       *)
LEMMA CallKeeps ==
  ASSUME Call
  PROVE  UNCHANGED <<apps, registries>> \/ Build \/ (\E skill \in Packages : RegisterSkill(skill))
  BY DEF Call, Give, GiveProvider, GivePrompts, GiveSkillDir, GiveSkillRegistry, GiveTool,
         GiveWorkflow, GiveAdjuster

(* Applications are only added, and only the caller's registry is changed. *)
LEMMA OnlyAdds ==
  ASSUME AppOwns, IsList(apps'), IsList(registries'),
         Len(apps) <= Len(apps'), \A k \in 1 .. Len(apps) : apps'[k] = apps[k],
         \A k \in 2 .. Len(registries) : registries'[k] = registries[k]
  PROVE  \A k \in DOMAIN apps :
           /\ k \in DOMAIN apps' /\ apps'[k] = apps[k]
           /\ AppSkills(apps'[k], registries') = AppSkills(apps[k], registries)
<1>1. DOMAIN apps = 1 .. Len(apps) /\ Len(apps) \in Nat
  BY ListMore DEF AppOwns
<1>2. DOMAIN apps' = 1 .. Len(apps') /\ Len(apps') \in Nat
  BY ListMore
<1> SUFFICES ASSUME NEW k \in DOMAIN apps
             PROVE  /\ k \in DOMAIN apps' /\ apps'[k] = apps[k]
                    /\ AppSkills(apps'[k], registries') = AppSkills(apps[k], registries)
  OBVIOUS
<1>3. k \in DOMAIN apps' /\ apps'[k] = apps[k]
  BY <1>1, <1>2
<1>4. apps[k].skills = Nil \/ apps[k].skills \in 2 .. Len(registries)
  BY <1>1 DEF AppOwns
<1>5. QED
  BY <1>3, <1>4 DEF AppSkills

(* What one call does to the applications there are: a Build that succeeds *)
(* adds another one with skills of its own; nothing else touches one.      *)
LEMMA CallFreezes ==
  ASSUME AppOwns, Call
  PROVE  /\ AppOwns'
         /\ \A k \in DOMAIN apps :
              /\ k \in DOMAIN apps' /\ apps'[k] = apps[k]
              /\ AppSkills(apps'[k], registries') = AppSkills(apps[k], registries)
<1>0. /\ IsList(apps) /\ IsList(registries) /\ Len(registries) = Len(apps) + 1
      /\ Len(apps) \in Nat /\ Len(registries) \in Nat
  BY ListMore DEF AppOwns
<1>1. CASE UNCHANGED <<apps, registries>>
  BY <1>0, <1>1 DEF AppOwns
<1>2. ASSUME NEW r, NEW more, apps' = Append(apps, [NewApp EXCEPT !.skills = r]),
             registries' = Append(registries, more), r \in {Nil, Len(registries) + 1}
      PROVE  /\ AppOwns'
             /\ \A k \in DOMAIN apps :
                  /\ k \in DOMAIN apps' /\ apps'[k] = apps[k]
                  /\ AppSkills(apps'[k], registries') = AppSkills(apps[k], registries)
  <2> DEFINE new == [NewApp EXCEPT !.skills = r]
  <2>1. new.skills = r
    BY DEF NewApp
  <2> HIDE DEF new
  <2>2. apps' = Append(apps, new)
    BY <1>2 DEF new
  <2>3. /\ IsList(apps') /\ Len(apps') = Len(apps) + 1
        /\ apps'[Len(apps) + 1] = new
        /\ \A k \in 1 .. Len(apps) : apps'[k] = apps[k]
    BY <1>0, <2>2, ListMore
  <2>4. /\ IsList(registries') /\ Len(registries') = Len(registries) + 1
        /\ \A k \in 1 .. Len(registries) : registries'[k] = registries[k]
    BY <1>0, <1>2, ListMore
  <2>5. \A k \in 1 .. Len(apps') : apps'[k].skills = Nil \/ apps'[k].skills \in 2 .. Len(registries')
    BY <1>0, <1>2, <2>1, <2>3, <2>4 DEF AppOwns
  <2>6. QED
    BY <1>0, <2>3, <2>4, <2>5, OnlyAdds DEF AppOwns
<1>3. CASE Build
  <2>1. CASE BuildSucceeds
    <3>1. apps' = Append(apps, NewApp) /\ registries' = Append(registries, SkillsTogether)
      BY <1>3, <2>1 DEF Build
    <3>2. NewApp = [NewApp EXCEPT !.skills = SkillRegistry]
      BY DEF NewApp
    <3>3. SkillRegistry \in {Nil, Len(registries) + 1}
      BY DEF SkillRegistry
    <3>4. QED
      BY <1>2, <3>1, <3>2, <3>3
  <2>2. CASE ~BuildSucceeds
    BY <1>1, <1>3, <2>2 DEF Build
  <2>3. QED
    BY <2>1, <2>2
<1>4. ASSUME NEW skill \in Packages, RegisterSkill(skill)
      PROVE  /\ AppOwns'
             /\ \A k \in DOMAIN apps :
                  /\ k \in DOMAIN apps' /\ apps'[k] = apps[k]
                  /\ AppSkills(apps'[k], registries') = AppSkills(apps[k], registries)
  <2>1. apps' = apps
    BY <1>4 DEF RegisterSkill
  <2>2. /\ IsList(registries') /\ Len(registries') = Len(registries)
        /\ \A k \in 2 .. Len(registries) : registries'[k] = registries[k]
    <3>1. \/ registries' = registries
          \/ registries' = [registries EXCEPT ![Callers] = Append(registries[Callers], skill)]
      BY <1>4 DEF RegisterSkill
    <3>2. ASSUME registries' = [registries EXCEPT ![Callers] = Append(registries[Callers], skill)]
          PROVE  /\ IsList(registries') /\ Len(registries') = Len(registries)
                 /\ \A k \in 1 .. Len(registries) : k # Callers => registries'[k] = registries[k]
      <4>1. DOMAIN registries = 1 .. Len(registries)
        BY <1>0, ListMore
      <4>2. /\ registries' = [k \in DOMAIN registries |-> registries'[k]]
            /\ \A k \in DOMAIN registries : k # Callers => registries'[k] = registries[k]
        BY <3>2
      <4>3. IsList(registries') /\ Len(registries') = Len(registries)
        BY <1>0, <4>2, ListSet
      <4>4. QED
        BY <4>1, <4>2, <4>3
    <3>3. \A k \in 2 .. Len(registries) : k \in 1 .. Len(registries) /\ k # Callers
      BY DEF Callers
    <3>4. QED
      BY <1>0, <3>1, <3>2, <3>3
  <2>3. QED
    BY <1>0, <2>1, <2>2, OnlyAdds DEF AppOwns
<1>5. QED
  BY <1>1, <1>3, <1>4, CallKeeps

-----------------------------------------------------------------------------
(* What the builder and the caller's skill registry hold.                  *)
BuilderType ==
  [project : BOOLEAN, providers : Seq(Providers \cup {Empty}), promptDir : PromptDirs \cup {"none"}, skillDirs : Seq(Paths),
   skills : {Nil, Callers}, tools : Seq(Tools), workflows : Seq(Workflows),
   adjuster : Adjusters \cup {{"none"}}]
BuilderTyped == builder \in BuilderType /\ registries[Callers] \in Seq(Packages)

LEMMA BuilderStarts == AppInit => BuilderTyped
<1>1. /\ <<>> \in Seq(Providers \cup {Empty}) /\ <<>> \in Seq(Paths) /\ <<>> \in Seq(Tools)
      /\ <<>> \in Seq(Workflows) /\ <<>> \in Seq(Packages)
  OBVIOUS
<1>2. \A identified \in BOOLEAN : NewBuilder(identified) \in BuilderType
  BY <1>1 DEF NewBuilder, BuilderType
<1>3. QED
  BY <1>1, <1>2 DEF AppInit, BuilderTyped, Callers

LEMMA BuilderFields ==
  ASSUME NEW b \in BuilderType
  PROVE  /\ b.providers \in Seq(Providers \cup {Empty}) /\ b.skillDirs \in Seq(Paths)
         /\ b.skills \in {Nil, Callers} /\ b.tools \in Seq(Tools)
         /\ b.workflows \in Seq(Workflows)
  BY DEF BuilderType

LEMMA BuilderTakes ==
  ASSUME NEW b \in BuilderType
  PROVE  /\ \A v \in Seq(Providers \cup {Empty}) : [b EXCEPT !["providers"] = v] \in BuilderType
         /\ \A v \in PromptDirs : [b EXCEPT !["promptDir"] = v] \in BuilderType
         /\ \A v \in Seq(Paths) : [b EXCEPT !["skillDirs"] = v] \in BuilderType
         /\ \A v \in {Nil, Callers} : [b EXCEPT !["skills"] = v] \in BuilderType
         /\ \A v \in Seq(Tools) : [b EXCEPT !["tools"] = v] \in BuilderType
         /\ \A v \in Seq(Workflows) : [b EXCEPT !["workflows"] = v] \in BuilderType
         /\ \A v \in Adjusters : [b EXCEPT !["adjuster"] = v] \in BuilderType
<1>1. \A v \in Seq(Providers \cup {Empty}) : [b EXCEPT !["providers"] = v] \in BuilderType
  BY DEF BuilderType
<1>2. \A v \in PromptDirs : [b EXCEPT !["promptDir"] = v] \in BuilderType
  BY DEF BuilderType
<1>3. \A v \in Seq(Paths) : [b EXCEPT !["skillDirs"] = v] \in BuilderType
  BY DEF BuilderType
<1>4. \A v \in {Nil, Callers} : [b EXCEPT !["skills"] = v] \in BuilderType
  BY DEF BuilderType
<1>5. \A v \in Seq(Tools) : [b EXCEPT !["tools"] = v] \in BuilderType
  BY DEF BuilderType
<1>6. \A v \in Seq(Workflows) : [b EXCEPT !["workflows"] = v] \in BuilderType
  BY DEF BuilderType
<1>7. \A v \in Adjusters : [b EXCEPT !["adjuster"] = v] \in BuilderType
  BY DEF BuilderType
<1>8. QED
  BY <1>1, <1>2, <1>3, <1>4, <1>5, <1>6, <1>7

LEMMA BuilderSteps == ASSUME BuilderTyped, AppOwns, Call PROVE BuilderTyped'
<1>1. builder \in BuilderType /\ registries[Callers] \in Seq(Packages)
  BY DEF BuilderTyped
<1>2. /\ builder.providers \in Seq(Providers \cup {Empty}) /\ builder.skillDirs \in Seq(Paths)
      /\ builder.tools \in Seq(Tools) /\ builder.workflows \in Seq(Workflows)
  BY <1>1, BuilderFields
<1>3. ASSUME NEW x \in Providers \cup {Empty}, GiveProvider(x) PROVE BuilderTyped'
  <2>1. Append(builder.providers, x) \in Seq(Providers \cup {Empty})
    BY <1>2, Appended
  <2>2. QED
    BY <1>1, <1>3, <2>1, BuilderTakes DEF GiveProvider, Give, BuilderTyped
<1>4. ASSUME NEW x \in PromptDirs, GivePrompts(x) PROVE BuilderTyped'
  BY <1>1, <1>4, BuilderTakes DEF GivePrompts, Give, BuilderTyped
<1>5. ASSUME NEW x \in Paths, GiveSkillDir(x) PROVE BuilderTyped'
  <2>1. Append(builder.skillDirs, x) \in Seq(Paths)
    BY <1>2, Appended
  <2>2. QED
    BY <1>1, <1>5, <2>1, BuilderTakes DEF GiveSkillDir, Give, BuilderTyped
<1>6. ASSUME NEW x \in {Nil, Callers}, GiveSkillRegistry(x) PROVE BuilderTyped'
  BY <1>1, <1>6, BuilderTakes DEF GiveSkillRegistry, Give, BuilderTyped
<1>7. ASSUME NEW x \in Tools, GiveTool(x) PROVE BuilderTyped'
  <2>1. Append(builder.tools, x) \in Seq(Tools)
    BY <1>2, Appended
  <2>2. QED
    BY <1>1, <1>7, <2>1, BuilderTakes DEF GiveTool, Give, BuilderTyped
<1>8. ASSUME NEW x \in Workflows, GiveWorkflow(x) PROVE BuilderTyped'
  <2>1. Append(builder.workflows, x) \in Seq(Workflows)
    BY <1>2, Appended
  <2>2. QED
    BY <1>1, <1>8, <2>1, BuilderTakes DEF GiveWorkflow, Give, BuilderTyped
<1>9. ASSUME NEW x \in Adjusters, GiveAdjuster(x) PROVE BuilderTyped'
  BY <1>1, <1>9, BuilderTakes DEF GiveAdjuster, Give, BuilderTyped
<1>10. ASSUME NEW skill \in Packages, RegisterSkill(skill) PROVE BuilderTyped'
  <2>1. Append(registries[Callers], skill) \in Seq(Packages)
    BY <1>1, Appended
  <2>2. registries'[Callers] \in {registries[Callers], Append(registries[Callers], skill)} /\ builder' = builder
    <3>1. 1 \in DOMAIN registries
      BY ListMore DEF AppOwns
    <3>2. QED
      BY <1>10, <3>1 DEF RegisterSkill, Callers
  <2>3. QED
    BY <1>1, <2>1, <2>2 DEF BuilderTyped
<1>11. CASE Build
  <2>1. /\ builder' = builder
        /\ registries' \in {registries, Append(registries, SkillsTogether)}
    BY <1>11 DEF Build
  <2>2. registries'[Callers] = registries[Callers]
    <3>1. 1 \in 1 .. Len(registries) /\ IsList(registries)
      BY ListMore DEF AppOwns
    <3>2. QED
      BY <2>1, <3>1, ListMore DEF Callers
  <2>3. QED
    BY <1>1, <2>1, <2>2 DEF BuilderTyped
<1>12. CASE UNCHANGED <<builder, registries>>
  BY <1>1, <1>12 DEF BuilderTyped
<1>13. QED
  BY <1>3, <1>4, <1>5, <1>6, <1>7, <1>8, <1>9, <1>10, <1>11, <1>12 DEF Call

LEMMA CallTypes == ASSUME GraphTyped, GraphListed, Call PROVE GraphTyped' /\ GraphListed'
<1>1. CASE GraphNext
  BY <1>1, GraphSteps, ListedSteps
<1>2. CASE UNCHANGED graphVars
  BY <1>2 DEF graphVars, GraphTyped, GraphListed, Routed
<1>3. QED
  BY <1>1, <1>2 DEF Call, Give, GiveProvider, GivePrompts, GiveSkillDir, GiveSkillRegistry, GiveTool,
     GiveWorkflow, GiveAdjuster, RegisterSkill, Build

Inductive == GraphTyped /\ GraphListed /\ BuilderTyped /\ AppOwns

LEMMA Begins == StartupInit => Inductive
  BY GraphStarts, ListedStarts, BuilderStarts, AppStarts DEF StartupInit, AppInit, Inductive

LEMMA Continues == Inductive /\ [StartupNext]_startupVars => Inductive'
<1> SUFFICES ASSUME Inductive, [StartupNext]_startupVars PROVE Inductive'
  OBVIOUS
<1>1. CASE AppNext
  BY <1>1, CallTypes, BuilderSteps, CallFreezes DEF AppNext, Inductive
<1>2. CASE UNCHANGED appVars
  BY <1>2 DEF appVars, graphVars, Inductive, GraphTyped, GraphListed, BuilderTyped, Routed, AppOwns
<1>3. QED
  BY <1>1, <1>2 DEF StartupNext, ServeApp, startupVars

LEMMA Always == StartupSpec => []Inductive
  BY Begins, Continues, PTL DEF StartupSpec

(* No application that was built changes, whatever the caller goes on to   *)
(* do with the builder and the skill registry it gave (buildSkillRegistry  *)
(* copies), and through every later Build, failing or not.                 *)
THEOREM AppFrozen == StartupSpec => BuiltAppFrozen
<1>1. ASSUME Inductive, [StartupNext]_startupVars
      PROVE  [\A k \in DOMAIN apps :
                /\ k \in DOMAIN apps' /\ apps'[k] = apps[k]
                /\ AppSkills(apps'[k], registries') = AppSkills(apps[k], registries)]_appVars
  <2>1. CASE AppNext
    BY <1>1, <2>1, CallFreezes DEF AppNext, Inductive
  <2>2. CASE UNCHANGED appVars
    BY <2>2
  <2>3. QED
    BY <1>1, <2>1, <2>2 DEF StartupNext, ServeApp, startupVars
<1>2. QED
  BY Always, <1>1, PTL DEF StartupSpec, BuiltAppFrozen

(* A graph that Validate accepts is what StateGraph assumes and Runner is  *)
(* checked and proved under: nodes, edges and routes are over identifiers  *)
(* and Validate's conditions hold as the run loop reads the graph.         *)
THEOREM AcceptedMeetsAssumption ==
  StartupSpec => [](Valid =>
    /\ Elements(nodes) \subseteq Names /\ Routed \subseteq Names
    /\ fixed \in [Names -> Seq(Names)]
    /\ [n \in Names |-> routes[n].whens] \in [Names -> Seq(Names)]
    /\ [n \in Names |-> routes[n].otherwise] \in [Names -> Names \cup {Empty}]
    /\ Runner!Validate)
<1>1. ASSUME Inductive, Valid
      PROVE  /\ Elements(nodes) \subseteq Names /\ Routed \subseteq Names
             /\ fixed \in [Names -> Seq(Names)]
             /\ [n \in Names |-> routes[n].whens] \in [Names -> Seq(Names)]
             /\ [n \in Names |-> routes[n].otherwise] \in [Names -> Names \cup {Empty}]
    BY <1>1 DEF Inductive, GraphTyped, RouteType, Given, Elements, Routed
<1>2. ASSUME Inductive, Valid PROVE Runner!Validate
  <2> USE <1>2 DEF Valid, HasNode, Elements, Runner!Targets
  <2>1. start \in Elements(nodes) /\ Elements(finish) \subseteq Elements(nodes)
    OBVIOUS
  <2>2. ASSUME NEW n \in Names, fixed[n] # <<>>
        PROVE  n \in Elements(nodes) /\ n \notin Routed /\ Runner!Targets(fixed[n]) \subseteq Elements(nodes)
    BY <2>2
  <2>3. ASSUME NEW n \in Routed
        PROVE  /\ n \in Names /\ n \in Elements(nodes)
               /\ Runner!Targets(routes[n].whens) \subseteq Elements(nodes)
               /\ routes[n].otherwise \in Elements(nodes) \cup {Empty}
    BY <2>3 DEF ValidRoute, Routed
  <2>4. QED
    BY <2>1, <2>2, <2>3 DEF Runner!Validate
<1>3. QED
  BY Always, <1>1, <1>2, PTL

-----------------------------------------------------------------------------
(* The three lists of a snapshot's edges.                                  *)
FixedEdges == [k \in 1 .. Len(fixedOrder) |-> Shown(fixedOrder[k].from, fixedOrder[k].to, "fixed", k)]
RoutesOf == [k \in 1 .. Len(nodes) |-> IF nodes[k] \in Routed THEN RouteEdges(nodes[k]) ELSE <<>>]
DynamicEdges == [k \in 1 .. Len(reachable) |-> Shown(reachable[k].from, reachable[k].to, "dynamic", 0)]

Default(n) == IF routes[n].otherwise = Empty THEN <<>> ELSE <<routes[n].otherwise>>

LEMMA LinkFields == ASSUME NEW l \in LinkType PROVE l.from \in Names /\ l.to \in Names
  BY DEF LinkType

LEMMA ShownTyped ==
  ASSUME NEW from \in Names, NEW to \in Names, NEW kind \in Kinds, NEW order \in Nat
  PROVE  Shown(from, to, kind, order) \in ShownType
  BY DEF Shown, ShownType

LEMMA PicksTyped ==
  ASSUME NEW n \in Names, NEW kind \in Kinds PROVE Picks(n, kind) \in [ShownType -> Seq(Names)]
<1>1. \A e \in ShownType : <<e.to>> \in Seq(Names) /\ <<>> \in Seq(Names)
  BY DEF ShownType
<1>2. QED
  BY <1>1 DEF Picks

LEMMA Picked ==
  ASSUME NEW n \in Names, NEW kind \in Kinds,
         NEW from \in Names, NEW to \in Names, NEW other \in Kinds, NEW order \in Nat
  PROVE  Picks(n, kind)[Shown(from, to, other, order)]
           = IF from = n /\ other = kind THEN <<to>> ELSE <<>>
  BY ShownTyped DEF Picks, Shown

LEMMA FixedShown ==
  ASSUME GraphTyped, GraphListed, NEW n \in Names, NEW kind \in Kinds
  PROVE  /\ FixedEdges \in Seq(ShownType)
         /\ Each(FixedEdges, Picks(n, kind)) = IF kind = "fixed" THEN fixed[n] ELSE <<>>
<1>1. Len(fixedOrder) \in Nat /\ "fixed" \in Kinds
  BY DEF GraphListed, Kinds
<1>2. ASSUME NEW k \in 1 .. Len(fixedOrder)
      PROVE  /\ fixedOrder[k] \in LinkType /\ fixedOrder[k].from \in Names /\ fixedOrder[k].to \in Names
             /\ k \in Nat
  <2>1. fixedOrder[k] \in LinkType
    BY DEF GraphListed
  <2>2. QED
    BY <1>1, <2>1, LinkFields
<1>3. \A k \in 1 .. Len(fixedOrder) : FixedEdges[k] \in ShownType
  BY <1>1, <1>2, ShownTyped DEF FixedEdges
<1>4. FixedEdges \in Seq(ShownType) /\ Len(FixedEdges) = Len(fixedOrder)
  BY <1>1, <1>3 DEF FixedEdges
<1>5. \A k \in 1 .. Len(fixedOrder) : Picks(n, kind)[FixedEdges[k]]
        = IF fixedOrder[k].from = n /\ kind = "fixed" THEN <<fixedOrder[k].to>> ELSE <<>>
  BY <1>1, <1>2, Picked DEF FixedEdges
<1>6. CASE kind = "fixed"
  <2>1. \A k \in 1 .. Len(fixedOrder) : Picks(n, kind)[FixedEdges[k]] = LeadsFrom(n)[fixedOrder[k]]
    BY <1>2, <1>5, <1>6 DEF LeadsFrom
  <2>2. Each(FixedEdges, Picks(n, kind)) = Each(fixedOrder, LeadsFrom(n))
    BY <1>4, <2>1 DEF Each
  <2>3. QED
    BY <1>4, <1>6, <2>2 DEF GraphListed
<1>7. CASE kind # "fixed"
  BY <1>1, <1>4, <1>5, <1>7, EachNothing
<1>8. QED
  BY <1>4, <1>6, <1>7

LEMMA DynamicShown ==
  ASSUME GraphListed, NEW n \in Names, NEW kind \in Kinds, kind # "dynamic"
  PROVE  DynamicEdges \in Seq(ShownType) /\ Each(DynamicEdges, Picks(n, kind)) = <<>>
<1>1. Len(reachable) \in Nat /\ "dynamic" \in Kinds
  BY DEF GraphListed, Kinds
<1>2. ASSUME NEW k \in 1 .. Len(reachable)
      PROVE  reachable[k].from \in Names /\ reachable[k].to \in Names
  <2>1. reachable[k] \in LinkType
    BY DEF GraphListed
  <2>2. QED
    BY <2>1, LinkFields
<1>3. \A k \in 1 .. Len(reachable) : DynamicEdges[k] \in ShownType
  BY <1>1, <1>2, ShownTyped DEF DynamicEdges
<1>4. DynamicEdges \in Seq(ShownType) /\ Len(DynamicEdges) = Len(reachable)
  BY <1>1, <1>3 DEF DynamicEdges
<1>5. \A k \in 1 .. Len(reachable) : Picks(n, kind)[DynamicEdges[k]] = <<>>
  <2> SUFFICES ASSUME NEW k \in 1 .. Len(reachable) PROVE Picks(n, kind)[DynamicEdges[k]] = <<>>
    OBVIOUS
  <2>1. DynamicEdges[k] = Shown(reachable[k].from, reachable[k].to, "dynamic", 0)
    BY DEF DynamicEdges
  <2>2. reachable[k].from \in Names /\ reachable[k].to \in Names
    BY <1>2
  <2>3. Picks(n, kind)[Shown(reachable[k].from, reachable[k].to, "dynamic", 0)]
          = IF reachable[k].from = n /\ "dynamic" = kind THEN <<reachable[k].to>> ELSE <<>>
    <3>1. "dynamic" \in Kinds /\ 0 \in Nat
      BY DEF Kinds
    <3>2. QED
      BY <2>2, <3>1, Picked
  <2>4. QED
    BY <2>1, <2>3
<1>6. QED
  BY <1>1, <1>4, <1>5, EachNothing

(* The edges of m's route, and the targets picked from them.               *)
LEMMA RouteShown ==
  ASSUME GraphTyped, NEW m \in Names, NEW n \in Names, NEW kind \in Kinds
  PROVE  /\ RouteEdges(m) \in Seq(ShownType)
         /\ m # n => Each(RouteEdges(m), Picks(n, kind)) = <<>>
         /\ Each(RouteEdges(m), Picks(m, "conditional")) = routes[m].whens
         /\ Each(RouteEdges(m), Picks(m, "otherwise")) = Default(m)
         /\ Each(RouteEdges(m), Picks(m, "fixed")) = <<>>
<1> DEFINE whens == routes[m].whens
           front == [k \in 1 .. Len(whens) |-> Shown(m, whens[k], "conditional", k)]
           back == IF routes[m].otherwise = Empty THEN <<>>
                   ELSE <<Shown(m, routes[m].otherwise, "otherwise", 0)>>
<1>1. whens \in Seq(Names) /\ Len(whens) \in Nat /\ routes[m].otherwise \in Names \cup {Empty}
  BY DEF GraphTyped, RouteType, Given
<1>2. {"fixed", "conditional", "otherwise"} \subseteq Kinds /\ 0 \in Nat
  BY DEF Kinds
<1>3. RouteEdges(m) = front \o back
  BY <1>1 DEF RouteEdges
<1>4. \A k \in 1 .. Len(whens) : whens[k] \in Names /\ k \in Nat
  BY <1>1
<1> HIDE DEF whens
<1>5. \A k \in 1 .. Len(whens) : front[k] = Shown(m, whens[k], "conditional", k)
  OBVIOUS
<1>6. \A k \in 1 .. Len(whens) : front[k] \in ShownType
  BY <1>2, <1>4, <1>5, ShownTyped
<1>7. front \in Seq(ShownType) /\ Len(front) = Len(whens)
  BY <1>1, <1>6
<1>8. back \in Seq(ShownType)
  <2>1. CASE routes[m].otherwise = Empty
    BY <2>1
  <2>2. CASE routes[m].otherwise # Empty
    <3>1. Shown(m, routes[m].otherwise, "otherwise", 0) \in ShownType
      BY <1>1, <1>2, <2>2, ShownTyped
    <3>2. QED
      BY <2>2, <3>1
  <2>3. QED
    BY <2>1, <2>2
<1> HIDE DEF front
<1>9. ASSUME NEW a \in Names, NEW other \in Kinds
      PROVE  \A k \in 1 .. Len(whens) : Picks(a, other)[front[k]]
               = IF m = a /\ other = "conditional" THEN <<whens[k]>> ELSE <<>>
  BY <1>2, <1>4, <1>5, Picked
<1>10. ASSUME NEW a \in Names, NEW other \in Kinds
       PROVE  Each(back, Picks(a, other)) = IF m = a /\ other = "otherwise" THEN Default(m) ELSE <<>>
  <2>1. CASE routes[m].otherwise = Empty
    BY <2>1, EachNone DEF Default
  <2>2. CASE routes[m].otherwise # Empty
    <3> DEFINE it == Shown(m, routes[m].otherwise, "otherwise", 0)
    <3>1. Picks(a, other)[it] = IF m = a /\ other = "otherwise" THEN <<routes[m].otherwise>> ELSE <<>>
      BY <1>1, <1>2, <2>2, Picked
    <3>2. back = <<it>>
      BY <2>2
    <3> HIDE DEF back, it
    <3>3. Len(back) = 1 /\ back[1] = it
      BY <3>2
    <3>4. CASE m = a /\ other = "otherwise"
      <4>1. <<routes[m].otherwise>> \in Seq(Names) /\ Len(<<routes[m].otherwise>>) = 1
        BY <1>1, <2>2
      <4>2. \A k \in 1 .. Len(back) : Picks(a, other)[back[k]] = <<(<<routes[m].otherwise>>)[k]>>
        BY <3>1, <3>3, <3>4
      <4>3. Each(back, Picks(a, other)) = <<routes[m].otherwise>>
        BY <3>3, <4>1, <4>2, EachSingles
      <4>4. QED
        BY <2>2, <3>4, <4>3 DEF Default
    <3>5. CASE ~(m = a /\ other = "otherwise")
      BY <3>1, <3>3, <3>5, EachNothing
    <3>6. QED
      BY <3>4, <3>5
  <2>3. QED
    BY <2>1, <2>2
<1>11. ASSUME NEW a \in Names, NEW other \in Kinds
       PROVE  Each(front, Picks(a, other)) = IF m = a /\ other = "conditional" THEN whens ELSE <<>>
  <2>1. CASE m = a /\ other = "conditional"
    BY <1>1, <1>7, <1>9, <2>1, EachSingles, ZenonT(60)
  <2>2. CASE ~(m = a /\ other = "conditional")
    BY <1>1, <1>7, <1>9, <2>2, EachNothing
  <2>3. QED
    BY <2>1, <2>2
<1> HIDE DEF back
<1>12. ASSUME NEW a \in Names, NEW other \in Kinds
       PROVE  Each(RouteEdges(m), Picks(a, other)) = Each(front, Picks(a, other)) \o Each(back, Picks(a, other))
  <2>1. Picks(a, other) \in [ShownType -> Seq(Names)]
    BY PicksTyped
  <2>2. QED
    BY <1>3, <1>7, <1>8, <2>1, EachJoined
<1>13. Default(m) \in Seq(Names)
  BY <1>1 DEF Default
<1>14. QED
  <2>1. RouteEdges(m) \in Seq(ShownType)
    BY <1>3, <1>7, <1>8
  <2>2. m # n => Each(RouteEdges(m), Picks(n, kind)) = <<>> \o <<>>
    BY <1>10, <1>11, <1>12
  <2>3. Each(RouteEdges(m), Picks(m, "conditional")) = whens \o <<>>
    BY <1>2, <1>10, <1>11, <1>12
  <2>4. Each(RouteEdges(m), Picks(m, "otherwise")) = <<>> \o Default(m)
    BY <1>2, <1>10, <1>11, <1>12
  <2>5. Each(RouteEdges(m), Picks(m, "fixed")) = <<>> \o <<>>
    BY <1>2, <1>10, <1>11, <1>12
  <2>6. whens \o <<>> = whens /\ <<>> \o Default(m) = Default(m) /\ <<>> \o <<>> = <<>>
    BY <1>1, <1>13
  <2>7. QED
    BY <2>1, <2>2, <2>3, <2>4, <2>5, <2>6 DEF whens

(* Of the routes of all nodes only n's lead from n, and it is shown once.  *)
LEMMA RoutesShown ==
  ASSUME GraphTyped, GraphListed, NEW n \in Names, NEW kind \in Kinds, n \in Routed => HasNode(n)
  PROVE  /\ RoutesOf \in Seq(Seq(ShownType))
         /\ Each(FlattenSeq(RoutesOf), Picks(n, kind))
              = IF n \in Routed THEN Each(RouteEdges(n), Picks(n, kind)) ELSE <<>>
<1> DEFINE picked == [k \in 1 .. Len(RoutesOf) |-> Each(RoutesOf[k], Picks(n, kind))]
<1>1. Len(nodes) \in Nat /\ \A k \in 1 .. Len(nodes) : nodes[k] \in Names
  BY DEF GraphTyped
<1>2. \A k \in 1 .. Len(nodes) : RoutesOf[k] = IF nodes[k] \in Routed THEN RouteEdges(nodes[k]) ELSE <<>>
  BY DEF RoutesOf
<1>3. \A k \in 1 .. Len(nodes) : RouteEdges(nodes[k]) \in Seq(ShownType) /\ <<>> \in Seq(ShownType)
  BY <1>1, RouteShown
<1>4. \A k \in 1 .. Len(nodes) : RoutesOf[k] \in Seq(ShownType)
  BY <1>2, <1>3
<1>5. RoutesOf \in Seq(Seq(ShownType)) /\ Len(RoutesOf) = Len(nodes)
  BY <1>1, <1>4 DEF RoutesOf
<1>6. Picks(n, kind) \in [ShownType -> Seq(Names)]
  BY PicksTyped
<1>7. Each(FlattenSeq(RoutesOf), Picks(n, kind)) = FlattenSeq(picked)
  BY <1>5, <1>6, EachFlattened
<1>8. \A k \in 1 .. Len(nodes) : picked[k] = Each(RoutesOf[k], Picks(n, kind))
  BY <1>5
<1>9. \A k \in 1 .. Len(nodes) : nodes[k] # n \/ n \notin Routed => picked[k] = <<>>
  <2> SUFFICES ASSUME NEW k \in 1 .. Len(nodes), nodes[k] # n \/ n \notin Routed PROVE picked[k] = <<>>
    OBVIOUS
  <2>1. CASE nodes[k] \in Routed
    <3>1. nodes[k] # n /\ nodes[k] \in Names /\ RoutesOf[k] = RouteEdges(nodes[k])
      BY <1>1, <1>2, <2>1
    <3>2. Each(RouteEdges(nodes[k]), Picks(n, kind)) = <<>>
      BY <3>1, RouteShown
    <3>3. QED
      BY <1>8, <3>1, <3>2
  <2>2. CASE nodes[k] \notin Routed
    <3>1. RoutesOf[k] = <<>>
      BY <1>2, <2>2
    <3>2. QED
      BY <1>8, <3>1, EachNone
  <2>3. QED
    BY <2>1, <2>2
<1>10. Len(picked) = Len(nodes) /\ picked = [k \in 1 .. Len(nodes) |-> picked[k]]
  BY <1>1, <1>5
<1>11. \A k \in 1 .. Len(nodes) : picked[k] \in Seq(Names)
  <2> SUFFICES ASSUME NEW k \in 1 .. Len(nodes) PROVE Each(RoutesOf[k], Picks(n, kind)) \in Seq(Names)
    BY <1>8
  <2>1. RoutesOf[k] \in Seq(ShownType)
    BY <1>4
  <2>2. QED
    BY <1>6, <2>1, EachTyped
<1>12. picked \in Seq(Seq(Names))
  BY <1>1, <1>5, <1>11
<1>13. CASE n \in Routed
  <2>1. PICK i \in 1 .. Len(nodes) : nodes[i] = n
    BY <1>13 DEF HasNode, Elements
  <2>2. \A k \in 1 .. Len(nodes) : k # i => nodes[k] # n
    BY <2>1 DEF GraphListed
  <2>3. picked[i] = Each(RouteEdges(n), Picks(n, kind))
    BY <1>2, <1>8, <1>13, <2>1
  <2> HIDE DEF picked
  <2>4. i \in 1 .. Len(picked) /\ \A k \in 1 .. Len(picked) : k # i => picked[k] = <<>>
    BY <1>9, <1>10, <2>2
  <2>5. FlattenSeq(picked) = picked[i]
    BY <1>12, <2>4, FlattenSole
  <2>6. QED
    BY <1>5, <1>7, <1>13, <2>3, <2>5
<1>14. CASE n \notin Routed
  <2> HIDE DEF picked
  <2>1. picked = [k \in 1 .. Len(nodes) |-> <<>>]
    BY <1>9, <1>10, <1>14
  <2>2. FlattenSeq(picked) = <<>>
    BY <1>1, <2>1, FlattenEmpties
  <2>3. QED
    BY <1>5, <1>7, <1>14, <2>2
<1>15. QED
  BY <1>13, <1>14

LEMMA ShownIs ==
  ASSUME GraphTyped, GraphListed, NEW n \in Names, NEW kind \in {"fixed", "conditional", "otherwise"},
         n \in Routed => HasNode(n)
  PROVE  ShownFrom(n, kind) = IF kind = "fixed" THEN fixed[n]
                              ELSE IF n \notin Routed THEN <<>>
                              ELSE IF kind = "conditional" THEN routes[n].whens ELSE Default(n)
<1> DEFINE flat == FlattenSeq(RoutesOf)
           both == FixedEdges \o flat
           edges == both \o DynamicEdges
           F == Picks(n, kind)
<1>1. kind \in Kinds /\ kind # "dynamic"
  BY DEF Kinds
<1>2. FixedEdges \in Seq(ShownType) /\ Each(FixedEdges, F) = IF kind = "fixed" THEN fixed[n] ELSE <<>>
  BY <1>1, FixedShown
<1>3. DynamicEdges \in Seq(ShownType) /\ Each(DynamicEdges, F) = <<>>
  BY <1>1, DynamicShown
<1>4. RoutesOf \in Seq(Seq(ShownType))
      /\ Each(flat, F) = IF n \in Routed THEN Each(RouteEdges(n), F) ELSE <<>>
  BY <1>1, RoutesShown
<1>5. flat \in Seq(ShownType)
  BY <1>4, FlattenTyped
<1>6. F \in [ShownType -> Seq(Names)]
  BY <1>1, PicksTyped
<1>7. Snapshot.edges = edges
  <2>1. DOMAIN fixedOrder = 1 .. Len(fixedOrder) /\ DOMAIN reachable = 1 .. Len(reachable)
        /\ DOMAIN nodes = 1 .. Len(nodes)
    BY DEF GraphListed, GraphTyped
  <2>2. QED
    BY <2>1 DEF Snapshot, FixedEdges, RoutesOf, DynamicEdges
<1> HIDE DEF flat, F
<1>8. both \in Seq(ShownType) /\ edges \in Seq(ShownType)
  BY <1>2, <1>3, <1>5
<1>9. Each(both, F) = Each(FixedEdges, F) \o Each(flat, F)
  <2>1. FixedEdges \in Seq(ShownType)
    BY <1>2
  <2>2. QED
    BY <1>5, <1>6, <2>1, EachJoined
<1>10. Each(edges, F) = (Each(FixedEdges, F) \o Each(flat, F)) \o Each(DynamicEdges, F)
  <2>1. DynamicEdges \in Seq(ShownType)
    BY <1>3
  <2>2. both \in Seq(ShownType)
    BY <1>8
  <2> HIDE DEF both
  <2>3. Each(edges, F) = Each(both, F) \o Each(DynamicEdges, F)
    BY <1>6, <2>1, <2>2, EachJoined
  <2>4. QED
    BY <1>9, <2>3
<1> HIDE DEF edges
<1>11. ShownFrom(n, kind) = Each(edges, F)
  <2>1. DOMAIN edges = 1 .. Len(edges) /\ \A k \in 1 .. Len(edges) : edges[k] \in ShownType
    BY <1>8
  <2>2. \A k \in 1 .. Len(edges) :
          F[edges[k]] = IF edges[k].from = n /\ edges[k].kind = kind THEN <<edges[k].to>> ELSE <<>>
    BY <2>1 DEF F, Picks
  <2>3. [k \in 1 .. Len(edges) |-> F[edges[k]]]
          = [k \in DOMAIN edges |-> IF edges[k].from = n /\ edges[k].kind = kind THEN <<edges[k].to>> ELSE <<>>]
    BY <2>1, <2>2
  <2>4. QED
    BY <1>7, <2>3 DEF ShownFrom, Each
<1>12. /\ Each(RouteEdges(n), Picks(n, "conditional")) = routes[n].whens
       /\ Each(RouteEdges(n), Picks(n, "otherwise")) = Default(n)
       /\ Each(RouteEdges(n), Picks(n, "fixed")) = <<>>
  BY <1>1, RouteShown
<1>13. fixed[n] \in Seq(Names) /\ routes[n].whens \in Seq(Names) /\ Default(n) \in Seq(Names)
  BY DEF GraphTyped, RouteType, Given, Default
<1>14. Each(flat, F) = IF n \notin Routed \/ kind = "fixed" THEN <<>>
                       ELSE IF kind = "conditional" THEN routes[n].whens ELSE Default(n)
  BY <1>4, <1>12 DEF F
<1>15. CASE kind = "fixed"
  <2>1. (fixed[n] \o <<>>) \o <<>> = fixed[n]
    BY <1>13
  <2>2. QED
    BY <1>2, <1>3, <1>10, <1>11, <1>14, <1>15, <2>1
<1>16. CASE kind # "fixed"
  <2>1. Each(flat, F) \in Seq(Names)
    BY <1>13, <1>14
  <2>2. (<<>> \o Each(flat, F)) \o <<>> = Each(flat, F)
    BY <2>1
  <2>3. QED
    BY <1>2, <1>3, <1>10, <1>11, <1>14, <1>16, <2>2
<1>17. QED
  BY <1>15, <1>16

(* The whole of AcceptedGraphRuns: an accepted graph can be run, and its    *)
(* snapshot shows as the fixed edges and the route of a node what the       *)
(* Runner reads for it, in its order (gotos are no part of a graph).        *)
THEOREM AcceptedRuns == StartupSpec => []AcceptedGraphRuns
<1>1. ASSUME Inductive PROVE Elements(Snapshot.nodes) = Elements(nodes) /\ Len(Snapshot.nodes) = Cardinality(Elements(nodes))
  <2>1. nodes \in Seq(Names) /\ \A i, j \in 1 .. Len(nodes) : nodes[i] = nodes[j] => i = j
    BY <1>1 DEF Inductive, GraphTyped, GraphListed
  <2>2. Cardinality(Elements(nodes)) = Len(nodes)
    BY <2>1, ListedOnce DEF Elements
  <2>3. Snapshot.nodes = nodes
    BY DEF Snapshot
  <2>4. QED
    BY <2>2, <2>3
<1>2. ASSUME Inductive, Valid, NEW n \in Names
      PROVE  /\ ShownFrom(n, "fixed") = fixed[n]
             /\ ShownFrom(n, "conditional") = routes[n].whens
             /\ ShownFrom(n, "otherwise") = Default(n)
  <2>1. GraphTyped /\ GraphListed
    BY <1>2 DEF Inductive
  <2>2. n \in Routed => HasNode(n)
    BY <1>2 DEF Valid, ValidRoute
  <2>3. n \notin Routed => routes[n].whens = <<>> /\ Default(n) = <<>>
    BY <2>1 DEF GraphListed, Absent, Default
  <2>4. /\ ShownFrom(n, "fixed") = fixed[n]
        /\ ShownFrom(n, "conditional") = IF n \notin Routed THEN <<>> ELSE routes[n].whens
        /\ ShownFrom(n, "otherwise") = IF n \notin Routed THEN <<>> ELSE Default(n)
    BY <2>1, <2>2, ShownIs
  <2>5. QED
    BY <2>3, <2>4
<1>3. ASSUME Inductive, NEW n \in Names
      PROVE  Elements(routes[n].whens \o Default(n)) = Runner!RouteTargets(n) /\ Len(Default(n)) <= 1
  <2>1. routes[n].whens \in Seq(Names) /\ routes[n].otherwise \in Names \cup {Empty}
    BY <1>3 DEF Inductive, GraphTyped, RouteType, Given
  <2>2. Default(n) = IF routes[n].otherwise = Empty THEN <<>> ELSE <<routes[n].otherwise>>
    BY DEF Default
  <2>3. Elements(routes[n].whens \o Default(n)) = Elements(routes[n].whens) \cup ({routes[n].otherwise} \ {Empty})
    <3>1. CASE routes[n].otherwise = Empty
      <4>1. routes[n].whens \o <<>> = routes[n].whens
        BY <2>1
      <4>2. QED
        BY <2>2, <3>1, <4>1
    <3>2. CASE routes[n].otherwise # Empty
      <4> DEFINE w == routes[n].whens
                 o == routes[n].otherwise
      <4>1. /\ Len(w) \in Nat /\ Len(w \o <<o>>) = Len(w) + 1 /\ (w \o <<o>>)[Len(w) + 1] = o
            /\ \A k \in 1 .. Len(w) : (w \o <<o>>)[k] = w[k]
        BY <2>1
      <4> HIDE DEF w, o
      <4>2. Elements(w \o <<o>>) = Elements(w) \cup {o}
        BY <4>1 DEF Elements
      <4>3. QED
        BY <2>2, <3>2, <4>2 DEF w, o
    <3>3. QED
      BY <3>1, <3>2
  <2>4. n \notin Routed => routes[n].whens = <<>> /\ routes[n].otherwise = Empty
    BY <1>3 DEF Inductive, GraphListed, Absent
  <2>5. Elements(<<>>) = {}
    BY DEF Elements
  <2>6. Runner!RouteTargets(n) = IF n \in Routed THEN Elements(routes[n].whens) \cup ({routes[n].otherwise} \ {Empty}) ELSE {}
    BY DEF Runner!RouteTargets, Runner!Targets, Elements
  <2>7. Elements(routes[n].whens \o Default(n)) = Runner!RouteTargets(n)
    <3>1. CASE n \in Routed
      BY <2>3, <2>6, <3>1
    <3>2. CASE n \notin Routed
      <4>1. Elements(routes[n].whens) \cup ({routes[n].otherwise} \ {Empty}) = {}
        BY <2>4, <2>5, <3>2
      <4>2. QED
        BY <2>3, <2>6, <3>2, <4>1
    <3>3. QED
      BY <3>1, <3>2
  <2>8. Len(Default(n)) <= 1
    BY <2>2
  <2>9. QED
    BY <2>7, <2>8
<1>4. ASSUME Inductive, Valid => Runner!Validate PROVE AcceptedGraphRuns
  <2> SUFFICES ASSUME Valid, NEW n \in Names
               PROVE  /\ ShownFrom(n, "fixed") = fixed[n]
                      /\ ShownFrom(n, "conditional") = routes[n].whens
                      /\ Elements(ShownFrom(n, "conditional") \o ShownFrom(n, "otherwise")) = Runner!RouteTargets(n)
                      /\ Len(ShownFrom(n, "otherwise")) <= 1
    BY <1>1, <1>4 DEF AcceptedGraphRuns
  <2>1. QED
    BY <1>2, <1>3, <1>4
<1>5. StartupSpec => [](Valid => Runner!Validate)
  BY AcceptedMeetsAssumption, PTL
<1>6. QED
  BY Always, <1>4, <1>5, PTL

-----------------------------------------------------------------------------
(* What is loaded from the directories that the builder was given.         *)
Directories == {Disk[p] : p \in DOMAIN Disk} \cup UNION {Range(Disk[p].children) : p \in DOMAIN Disk}
SkillSet == Packages \cup {LoadDir(d.package) : d \in Directories}

LEMMA ElementsRange == ASSUME NEW S, NEW list \in Seq(S) PROVE Elements(list) = Range(list)
<1>1. DOMAIN list = 1 .. Len(list)
  OBVIOUS
<1>2. QED
  BY <1>1 DEF Elements, Range

Named == Paths \ {""}

LEMMA RootsTyped == ASSUME NEW paths \in Seq(Paths) PROVE Roots(paths) \in Seq(Named)
<1> DEFINE lists == [k \in DOMAIN paths |-> IF paths[k] = "" THEN <<>> ELSE <<paths[k]>>]
<1>1. DOMAIN paths = 1 .. Len(paths) /\ Len(paths) \in Nat
  OBVIOUS
<1>2. ASSUME NEW k \in 1 .. Len(paths) PROVE lists[k] \in Seq(Named)
  <2>1. paths[k] \in Paths
    OBVIOUS
  <2>2. lists[k] = IF paths[k] = "" THEN <<>> ELSE <<paths[k]>>
    BY <1>1
  <2> HIDE DEF lists
  <2>3. CASE paths[k] = ""
    <3>1. lists[k] = <<>>
      BY <2>2, <2>3
    <3>2. <<>> \in Seq(Named)
      OBVIOUS
    <3>3. QED
      BY <3>1, <3>2
  <2>4. CASE paths[k] # ""
    <3>1. paths[k] \in Named
      BY <2>1, <2>4 DEF Named
    <3>2. <<paths[k]>> \in Seq(Named)
      BY <3>1
    <3>3. QED
      BY <2>2, <2>4, <3>2
  <2>5. QED
    BY <2>3, <2>4
<1>3. lists = [k \in 1 .. Len(paths) |-> lists[k]]
  BY <1>1
<1>4. Roots(paths) = FlattenSeq(lists)
  BY DEF Roots
<1> HIDE DEF lists
<1>5. lists \in Seq(Seq(Named))
  BY <1>1, <1>2, <1>3
<1>6. QED
  BY <1>4, <1>5, FlattenTyped

LEMMA FoundTyped == ASSUME NEW path \in DOMAIN Disk PROVE Found(path) \in Seq(Directories)
<1>1. CASE Disk[path].skill # "none"
  <2>1. Found(path) = <<Disk[path]>>
    BY <1>1 DEF Found
  <2>2. Disk[path] \in Directories
    BY DEF Directories
  <2>3. QED
    BY <2>1, <2>2
<1>2. CASE Disk[path].skill = "none"
  <2> DEFINE children == Disk[path].children
             all == Range(children)
             lists == [k \in DOMAIN children |->
                         IF children[k].dir /\ children[k].skill # "none" THEN <<children[k]>> ELSE <<>>]
  <2>1. children \in Seq(all) /\ all \subseteq Directories
    BY DiskAssumption DEF Directories
  <2>2. Found(path) = FlattenSeq(lists)
    BY <1>2 DEF Found
  <2> HIDE DEF children, all
  <2>3. DOMAIN children = 1 .. Len(children) /\ Len(children) \in Nat
        /\ \A k \in 1 .. Len(children) : children[k] \in Directories
    BY <2>1
  <2>4. \A k \in 1 .. Len(children) :
          (IF children[k].dir /\ children[k].skill # "none" THEN <<children[k]>> ELSE <<>>) \in Seq(Directories)
    BY <2>3
  <2>5. lists \in Seq(Seq(Directories))
    BY <2>3, <2>4
  <2> HIDE DEF lists
  <2>6. QED
    BY <2>2, <2>5, FlattenTyped
<1>3. QED
  BY <1>1, <1>2

LEMMA RootLoaded ==
  ASSUME NEW path \in DOMAIN Disk
  PROVE  LoadRoot(path) \in Seq(SkillSet) /\ Range(LoadRoot(path)) = {LoadDir(d.package) : d \in Range(Found(path))}
<1> DEFINE found == Found(path)
<1>1. found \in Seq(Directories)
  BY FoundTyped
<1>2. LoadRoot(path) = [k \in DOMAIN found |-> LoadDir(found[k].package)]
  BY DEF LoadRoot
<1> HIDE DEF found
<1>3. DOMAIN found = 1 .. Len(found) /\ Len(found) \in Nat /\ \A k \in 1 .. Len(found) : found[k] \in Directories
  BY <1>1
<1>4. \A k \in 1 .. Len(found) : LoadDir(found[k].package) \in SkillSet
  BY <1>3 DEF SkillSet
<1>5. LoadRoot(path) \in Seq(SkillSet)
  BY <1>2, <1>3, <1>4
<1>6. Range(LoadRoot(path)) = {LoadDir(d.package) : d \in Range(found)}
  BY <1>2 DEF Range
<1>7. QED
  BY <1>5, <1>6 DEF found

LEMMA RootsLoaded ==
  ASSUME NEW paths \in Seq(Paths)
  PROVE  /\ LoadRoots(paths) \in Seq(SkillSet)
         /\ Range(LoadRoots(paths)) = UNION {Range(LoadRoot(path)) : path \in Range(Roots(paths))}
<1> DEFINE roots == Roots(paths)
           lists == [k \in DOMAIN roots |-> LoadRoot(roots[k])]
<1>1. roots \in Seq(Named)
  BY RootsTyped
<1>2. LoadRoots(paths) = FlattenSeq(lists)
  BY DEF LoadRoots
<1> HIDE DEF roots
<1>3. DOMAIN roots = 1 .. Len(roots) /\ Len(roots) \in Nat /\ \A k \in 1 .. Len(roots) : roots[k] \in DOMAIN Disk
  <2>1. DOMAIN roots = 1 .. Len(roots) /\ Len(roots) \in Nat
    BY <1>1
  <2>2. \A k \in 1 .. Len(roots) : roots[k] \in Named
    BY <1>1
  <2>3. Named \subseteq DOMAIN Disk
    BY PathsAssumption DEF Named
  <2>4. QED
    BY <2>1, <2>2, <2>3
<1>4. \A k \in 1 .. Len(roots) : LoadRoot(roots[k]) \in Seq(SkillSet)
  BY <1>3, RootLoaded
<1>5. lists \in Seq(Seq(SkillSet)) /\ Len(lists) = Len(roots)
  BY <1>3, <1>4
<1>6. \A k \in 1 .. Len(roots) : lists[k] = LoadRoot(roots[k])
  BY <1>3
<1> HIDE DEF lists
<1>7. LoadRoots(paths) \in Seq(SkillSet)
  BY <1>2, <1>5, FlattenTyped
<1>8. Range(LoadRoots(paths)) = UNION {Range(lists[i]) : i \in 1 .. Len(lists)}
  BY <1>2, <1>5, FlattenListed
<1>9. Range(roots) = {roots[k] : k \in 1 .. Len(roots)}
  BY <1>3 DEF Range
<1>10. Range(LoadRoots(paths)) = UNION {Range(LoadRoot(path)) : path \in Range(roots)}
  BY <1>5, <1>6, <1>8, <1>9
<1>11. QED
  BY <1>7, <1>10 DEF roots

(* What Build makes of what it was given, when it succeeds.                *)
LEMMA ToolsKept ==
  ASSUME BuilderTyped, ToolsGood
  PROVE  /\ ToolsRegistered = Elements(builder.tools)
         /\ Cardinality(Elements(builder.tools)) = Len(builder.tools)
         /\ Cardinality({t.name : t \in Elements(builder.tools)}) = Len(builder.tools)
<1> DEFINE tools == builder.tools
           names == [k \in 1 .. Len(tools) |-> tools[k].name]
           every == {tools[k].name : k \in 1 .. Len(tools)}
<1>1. tools \in Seq(Tools)
  BY BuilderFields DEF BuilderTyped
<1>2. \A i, j \in DOMAIN tools : tools[i].name = tools[j].name => i = j
  BY DEF ToolsGood
<1>3. ToolsRegistered = {tools[i] : i \in {k \in DOMAIN tools :
         \A j \in DOMAIN tools : tools[j].name = tools[k].name => j <= k}}
  BY DEF ToolsRegistered
<1> HIDE DEF tools
<1>4. DOMAIN tools = 1 .. Len(tools) /\ Len(tools) \in Nat
  BY <1>1
<1>5. ToolsRegistered = Elements(tools)
  BY <1>2, <1>3, <1>4 DEF Elements
<1>6. \A i, j \in 1 .. Len(tools) : tools[i] = tools[j] => i = j
  BY <1>2, <1>4
<1>7. Cardinality(Elements(tools)) = Len(tools)
  BY <1>1, <1>6, ListedOnce DEF Elements
<1>8. names \in Seq(every) /\ Len(names) = Len(tools)
  BY <1>4
<1>9. \A k \in 1 .. Len(tools) : names[k] = tools[k].name
  OBVIOUS
<1>10. \A i, j \in 1 .. Len(names) : names[i] = names[j] => i = j
  BY <1>2, <1>4, <1>8, <1>9
<1>11. {t.name : t \in Elements(tools)} = {names[k] : k \in 1 .. Len(names)}
  BY <1>8, <1>9 DEF Elements
<1> HIDE DEF names, every
<1>12. Cardinality({names[k] : k \in 1 .. Len(names)}) = Len(names)
  BY <1>8, <1>10, ListedOnce
<1>13. QED
  BY <1>5, <1>7, <1>8, <1>11, <1>12 DEF tools

LEMMA ProvidersKept ==
  ASSUME BuilderTyped, ProvidersGood
  PROVE  Cardinality(Elements(builder.providers)) = Len(builder.providers)
<1>1. builder.providers \in Seq(Providers \cup {Empty})
  BY BuilderFields DEF BuilderTyped
<1>2. \A i, j \in 1 .. Len(builder.providers) : builder.providers[i] = builder.providers[j] => i = j
  BY <1>1 DEF ProvidersGood
<1>3. QED
  BY <1>1, <1>2, ListedOnce DEF Elements

LEMMA WorkflowsKept ==
  ASSUME BuilderTyped, WorkflowsGood
  PROVE  Cardinality(Elements(builder.workflows)) = Len(builder.workflows)
<1>1. builder.workflows \in Seq(Workflows)
  BY BuilderFields DEF BuilderTyped
<1>2. \A i, j \in 1 .. Len(builder.workflows) : builder.workflows[i] = builder.workflows[j] => i = j
  BY <1>1 DEF WorkflowsGood
<1>3. QED
  BY <1>1, <1>2, ListedOnce DEF Elements

(* A package that loads exposes its regular files, and links only to files *)
(* inside of it.                                                           *)
LEMMA PackageExposed ==
  ASSUME NEW d
  PROVE  /\ LoadDir(d.package).id = d.package.name
         /\ {e \in d.package.entries : e.type = "file"} \subseteq LoadDir(d.package).resources
         /\ Loads(d.package) => \A e \in LoadDir(d.package).resources :
              e.type = "link" => e.to = "file" /\ e.place # "outside"
<1>1. LoadDir(d.package).id = d.package.name /\ LoadDir(d.package).resources = Resources(d.package)
  BY DEF LoadDir
<1>2. {e \in d.package.entries : e.type = "file"} \subseteq Resources(d.package)
  BY DEF Resources
<1>3. ASSUME Loads(d.package), NEW e \in Resources(d.package), e.type = "link"
      PROVE  e.to = "file" /\ e.place # "outside"
  <2>1. e \in d.package.entries /\ e.to = "file"
    BY <1>3 DEF Resources
  <2>2. WithinRoot(Place(d.package, e)) /\ Place(d.package, e) = e.place
    BY <1>3, <2>1 DEF Loads, Escapes, Place
  <2>3. QED
    BY <2>1, <2>2 DEF WithinRoot
<1>4. QED
  BY <1>1, <1>2, <1>3

Kept == IF builder.skills = Callers THEN registries[Callers] ELSE <<>>

LEMMA SkillsKept ==
  ASSUME BuilderTyped, SkillsGood
  PROVE  /\ SkillsTogether \in Seq(SkillSet)
         /\ Elements(SkillsTogether) = Elements(Kept) \cup Elements(LoadRoots(builder.skillDirs))
         /\ \A path \in Elements(Roots(builder.skillDirs)) : \A d \in Elements(Found(path)) :
              LoadDir(d.package) \in Elements(LoadRoots(builder.skillDirs))
         /\ \A s \in Elements(LoadRoots(builder.skillDirs)) : \A e \in s.resources :
              e.type = "link" => e.to = "file" /\ e.place # "outside"
<1> DEFINE dirs == builder.skillDirs
           roots == Roots(dirs)
           loaded == LoadRoots(dirs)
<1>1. dirs \in Seq(Paths) /\ registries[Callers] \in Seq(Packages)
  BY BuilderFields DEF BuilderTyped
<1>2. SkillsTogether = Kept \o loaded /\ LoadsRoots(dirs)
  BY DEF SkillsTogether, SkillsGood, Kept
<1> HIDE DEF dirs
<1>3. roots \in Seq(Named)
  BY <1>1, RootsTyped
<1>4. loaded \in Seq(SkillSet) /\ Range(loaded) = UNION {Range(LoadRoot(path)) : path \in Range(roots)}
  BY <1>1, RootsLoaded
<1>5. \A k \in DOMAIN roots : LoadsRoot(roots[k])
  BY <1>2 DEF LoadsRoots
<1> HIDE DEF roots, loaded
<1>6. Kept \in Seq(SkillSet)
  <2>1. Packages \subseteq SkillSet
    BY DEF SkillSet
  <2>2. registries[Callers] \in Seq(SkillSet) /\ <<>> \in Seq(SkillSet)
    BY <1>1, <2>1
  <2>3. QED
    BY <2>2 DEF Kept
<1>7. Elements(roots) = Range(roots) /\ Elements(loaded) = Range(loaded) /\ Elements(Kept) = Range(Kept)
  BY <1>3, <1>4, <1>6, ElementsRange
<1>8. SkillsTogether \in Seq(SkillSet)
  BY <1>2, <1>4, <1>6
<1>9. Elements(SkillsTogether) = Elements(Kept) \cup Elements(loaded)
  <2>1. Elements(SkillsTogether) = Range(SkillsTogether)
    BY <1>8, ElementsRange
  <2>2. Range(Kept \o loaded) = Range(Kept) \cup Range(loaded)
    BY <1>4, <1>6, RangeJoined
  <2>3. QED
    BY <1>2, <1>7, <2>1, <2>2
<1>10. ASSUME NEW path \in Range(roots)
       PROVE  /\ path \in DOMAIN Disk /\ LoadsRoot(path)
              /\ Elements(Found(path)) = Range(Found(path))
              /\ Range(LoadRoot(path)) = {LoadDir(d.package) : d \in Range(Found(path))}
  <2>1. PICK k \in DOMAIN roots : path = roots[k]
    BY DEF Range
  <2>2. path \in Named
    BY <1>3, <2>1
  <2>3. path \in DOMAIN Disk
    BY <2>2, PathsAssumption DEF Named
  <2>4. Elements(Found(path)) = Range(Found(path))
    BY <2>3, FoundTyped, ElementsRange
  <2>5. QED
    BY <1>5, <2>1, <2>3, <2>4, RootLoaded
<1>11. ASSUME NEW path \in Elements(roots), NEW d \in Elements(Found(path))
       PROVE  LoadDir(d.package) \in Elements(loaded)
  BY <1>4, <1>7, <1>10, <1>11
<1>12. ASSUME NEW s \in Elements(loaded), NEW e \in s.resources, e.type = "link"
       PROVE  e.to = "file" /\ e.place # "outside"
  <2>1. PICK path \in Range(roots) : s \in Range(LoadRoot(path))
    BY <1>4, <1>7, <1>12
  <2>2. PICK d \in Range(Found(path)) : s = LoadDir(d.package)
    BY <1>10, <2>1
  <2>3. Loads(d.package)
    BY <1>10, <2>2 DEF LoadsRoot, Range
  <2>4. QED
    BY <1>12, <2>2, <2>3, PackageExposed
<1>13. QED
  BY <1>8, <1>9, <1>11, <1>12 DEF roots, loaded, dirs

(* A build that succeeds has everything that was given, each under its own *)
(* name, and each skill with all files of its package and no others.       *)
LEMMA BuildsComplete ==
  ASSUME BuilderTyped, AppOwns, Build, Len(apps') > Len(apps) PROVE NothingLost(apps'[Len(apps')])
<1> DEFINE app == apps'[Len(apps')]
           skills == AppSkills(app, registries')
           loaded == LoadRoots(builder.skillDirs)
<1>1. Len(apps) \in Nat /\ IsList(apps) /\ IsList(registries) /\ Len(registries) \in Nat
  BY ListMore DEF AppOwns
<1>2. BuildSucceeds
  BY <1>1 DEF Build
<1>3. /\ app.tools = ToolsRegistered /\ app.providers = Elements(builder.providers)
      /\ app.workflows = builder.workflows /\ app.skills = SkillRegistry
  <2>1. apps' = Append(apps, NewApp)
    BY <1>2 DEF Build
  <2>2. app = NewApp
    BY <1>1, <2>1, ListMore
  <2>3. QED
    BY <2>2 DEF NewApp
<1>4. registries' = Append(registries, SkillsTogether)
  BY <1>2 DEF Build
<1>5. registries'[Len(registries) + 1] = SkillsTogether
  BY <1>1, <1>4, ListMore
<1> HIDE DEF app
<1>6. ProvidersGood /\ SkillsGood /\ ToolsGood /\ WorkflowsGood
  BY <1>2 DEF BuildSucceeds
<1>7. /\ app.tools = Elements(builder.tools) /\ Cardinality(app.tools) = Len(builder.tools)
      /\ Cardinality({t.name : t \in app.tools}) = Cardinality(app.tools)
      /\ Cardinality(app.providers) = Len(builder.providers)
      /\ Cardinality(Elements(app.workflows)) = Len(builder.workflows)
  BY <1>3, <1>6, ToolsKept, ProvidersKept, WorkflowsKept
<1>8. Elements(Kept) = IF builder.skills = Callers THEN Elements(registries[Callers]) ELSE {}
  BY DEF Kept, Elements
<1>9. skills = SkillsTogether
  <2>1. CASE SkillRegistry = Len(registries) + 1
    BY <1>1, <1>3, <1>5, <2>1 DEF AppSkills, Nil
  <2>2. CASE SkillRegistry # Len(registries) + 1
    <3>1. builder.skills = Nil /\ builder.skillDirs = <<>> /\ app.skills = Nil
      BY <1>3, <2>2 DEF SkillRegistry
    <3>2. Roots(builder.skillDirs) = <<>>
      BY <3>1, FlattenNone DEF Roots
    <3>3. LoadRoots(builder.skillDirs) = <<>>
      BY <3>2, FlattenNone DEF LoadRoots
    <3>4. SkillsTogether = <<>>
      BY <3>1, <3>3 DEF SkillsTogether, Nil, Callers
    <3>5. QED
      BY <3>1, <3>4 DEF AppSkills
  <2>3. QED
    BY <2>1, <2>2
<1>10. Distinct(skills)
  BY <1>6, <1>9 DEF SkillsGood
<1>11. Elements(skills) = Elements(Kept) \cup Elements(loaded)
  BY <1>6, <1>9, SkillsKept
<1>12. ASSUME NEW path \in Elements(Roots(builder.skillDirs)), NEW d \in Elements(Found(path))
       PROVE  \E s \in Elements(skills) : s.id = d.package.name
                /\ {e \in d.package.entries : e.type = "file"} \subseteq s.resources
  <2>1. LoadDir(d.package) \in Elements(skills)
    BY <1>6, <1>11, <1>12, SkillsKept
  <2>2. QED
    BY <2>1, PackageExposed
<1>13. ASSUME NEW s \in Elements(skills)
       PROVE  \/ \A e \in s.resources : e.type = "link" => e.to = "file" /\ e.place # "outside"
              \/ builder.skills = Callers /\ s \in Elements(registries[Callers])
  BY <1>6, <1>8, <1>11, SkillsKept
<1> HIDE DEF skills
<1>14. QED
  BY <1>7, <1>8, <1>10, <1>11, <1>12, <1>13 DEF NothingLost, skills, app

(* Nothing that is given to the builder is lost in a build that succeeds,  *)
(* for any disk, any things given and any number of calls.                 *)
THEOREM CompleteBuilds == StartupSpec => BuildComplete
<1>1. ASSUME Inductive, [StartupNext]_startupVars PROVE [Len(apps') > Len(apps) => NothingLost(apps'[Len(apps')])]_appVars
  <2>1. CASE AppNext
    <3>1. CASE Build
      <4>1. Len(apps') > Len(apps) => NothingLost(apps'[Len(apps')])
        BY <1>1, <3>1, BuildsComplete DEF Inductive
      <4>2. QED
        BY <4>1
    <3>2. CASE ~Build
      <4>1. apps' = apps /\ Len(apps) \in Nat
        BY <1>1, <2>1, <3>2, CallKeeps, ListMore DEF AppNext, RegisterSkill, Inductive, AppOwns
      <4>2. QED
        BY <4>1
    <3>3. QED
      BY <3>1, <3>2
  <2>2. CASE UNCHANGED appVars
    BY <2>2
  <2>3. QED
    BY <1>1, <2>1, <2>2 DEF StartupNext, ServeApp, startupVars
<1>2. QED
  BY Always, <1>1, PTL DEF StartupSpec, BuildComplete

-----------------------------------------------------------------------------
(* Building and serving an application implements TokenFile: before it     *)
(* serves it leaves the file alone, then it is one of the servers.         *)
THEOREM StartsServers == StartupSpec => Spec
<1>1. StartupInit => Init
  BY DEF StartupInit
<1>2. [StartupNext]_startupVars => [Next]_vars
  BY DEF StartupNext, ServeApp, startupVars
<1>3. QED
  BY <1>1, <1>2, PTL DEF StartupSpec, Spec

(* So all of them serve with the token in the file, wherever it came from. *)
THEOREM ServersAgree == StartupSpec => []TokenAgreed
  BY StartsServers, TokensAgree, PTL

-----------------------------------------------------------------------------
(* The requests of Http.  That no two published events are alike is not    *)
(* inductive: the one a handler recorded and has yet to publish must       *)
(* differ from all of them, and the recorder has to be past every number   *)
(* it gave out.                                                            *)
Places == {"idle", "running", "refused"} \cup Statuses
Asked == [at : Places, run : Runs, left : Int]
Heard == [run : Runs, sequence : Nat \ {0}, request : Requests]
HttpTypes ==
  /\ request \in [Requests -> Asked]
  /\ pending \in [Requests -> Nat]
  /\ recorded \in [Recorders -> [Runs -> Nat]]
  /\ published \in Seq(Heard)
  /\ interrupted \subseteq Runs

Counted(r) == recorded["given"][r]

(* An event waits for the hub only while its request runs, so what is      *)
(* pending is of the run the request is about.                             *)
Handing == \A q \in Requests : pending[q] # 0 =>
  request[q].at = "running" /\ pending[q] <= Counted(request[q].run)

HandedOnce ==
  /\ \A i \in DOMAIN published : published[i].sequence <= Counted(published[i].run)
  /\ \A q \in Requests, i \in DOMAIN published :
       published[i].run = request[q].run => published[i].sequence # pending[q]
  /\ \A p, q \in Requests :
       p # q /\ pending[p] # 0 /\ request[p].run = request[q].run => pending[p] # pending[q]

HttpInv == HttpTypes /\ Handing /\ HandedOnce /\ SequenceIdentifiesEvent

LEMMA AskedMoves ==
  ASSUME NEW a \in Asked, NEW at \in Places, NEW r \in Runs
  PROVE  /\ a.run \in Runs /\ a.left \in Int
         /\ [a EXCEPT !.at = at] \in Asked /\ [a EXCEPT !.at = at].run = a.run
         /\ [a EXCEPT !.at = at, !.run = r] \in Asked
         /\ [a EXCEPT !.left = @ - 1] \in Asked
         /\ [a EXCEPT !.left = @ - 1].run = a.run /\ [a EXCEPT !.left = @ - 1].at = a.at
<1>1. PICK s \in Places, o \in Runs, n \in Int : a = [at |-> s, run |-> o, left |-> n]
  BY DEF Asked
<1>2. n - 1 \in Int
  OBVIOUS
<1>3. [a EXCEPT !.at = at] = [at |-> at, run |-> o, left |-> n]
  BY <1>1
<1>4. [a EXCEPT !.at = at, !.run = r] \in Asked
  BY <1>1 DEF Asked
<1>5. [a EXCEPT !.left = @ - 1] = [at |-> s, run |-> o, left |-> n - 1]
  BY <1>1
<1>6. a.run = o /\ a.at = s /\ a.left = n
  BY <1>1
<1>7. QED
  BY <1>2, <1>3, <1>4, <1>5, <1>6 DEF Asked

LEMMA HeardSays ==
  ASSUME NEW list \in Seq(Heard), NEW i \in DOMAIN list
  PROVE  list[i].run \in Runs /\ list[i].sequence \in Nat \ {0}
<1>1. list[i] \in Heard
  OBVIOUS
<1>2. QED
  BY <1>1 DEF Heard

LEMMA HttpStarts == HttpInit => HttpInv
<1> SUFFICES ASSUME HttpInit PROVE HttpInv
  OBVIOUS
<1>1. \A q \in Requests : [at |-> "idle", run |-> q, left |-> MaxEvents] \in Asked
  BY HttpAssumption DEF Asked, Runs, Places
<1>2. HttpTypes
  BY <1>1 DEF HttpInit, HttpTypes
<1>3. QED
  BY <1>2 DEF HttpInit, HttpInv, Handing, HandedOnce, SequenceIdentifiesEvent

(* A handler that is not handing on an event may move and take up a run.   *)
LEMMA Idling ==
  ASSUME HttpInv, NEW q \in Requests, pending[q] = 0, NEW at \in Places, NEW r \in Runs,
         request' = [request EXCEPT ![q].at = at] \/ request' = [request EXCEPT ![q].at = at, ![q].run = r],
         interrupted' \subseteq Runs,
         UNCHANGED <<recorded, pending, published>>
  PROVE  HttpInv'
<1> USE DEF HttpInv, HttpTypes
<1>1. /\ request' \in [Requests -> Asked]
      /\ \A p \in Requests : p # q => request'[p] = request[p]
      /\ pending[q] = 0 /\ \A p \in Requests : pending[p] \in Nat
  <2>1. request[q] \in Asked
    OBVIOUS
  <2>2. [request[q] EXCEPT !.at = at] \in Asked /\ [request[q] EXCEPT !.at = at, !.run = r] \in Asked
    BY <2>1, AskedMoves
  <2>3. QED
    BY <2>2
<1>2. HttpTypes'
  BY <1>1
<1>3. Handing'
  BY <1>1 DEF Handing, Counted
<1>4. HandedOnce'
  <2>1. \A i \in DOMAIN published : published[i].sequence # 0
    BY HeardSays
  <2>2. ASSUME NEW p \in Requests, NEW i \in DOMAIN published, published[i].run = request'[p].run
        PROVE  published[i].sequence # pending[p]
    BY <1>1, <2>1, <2>2 DEF HandedOnce
  <2>3. ASSUME NEW p \in Requests, NEW o \in Requests, p # o, pending[p] # 0,
               request'[p].run = request'[o].run
        PROVE  pending[p] # pending[o]
    BY <1>1, <2>3 DEF HandedOnce
  <2>4. QED
    BY <2>2, <2>3 DEF HandedOnce, Counted
<1>5. SequenceIdentifiesEvent'
  BY DEF SequenceIdentifiesEvent
<1>6. QED
  BY <1>2, <1>3, <1>4, <1>5

LEMMA Recording == ASSUME RecorderGiven, HttpInv, NEW q \in Requests, Record(q) PROVE HttpInv'
<1> DEFINE r == request[q].run
<1> USE DEF HttpInv, HttpTypes
<1>1. "given" \in Recorders /\ RecorderOf(q) = "given" /\ r \in Runs
  <2>1. request[q] \in Asked
    OBVIOUS
  <2>2. QED
    BY <2>1 DEF Asked, Recorders, RecorderOf
<1>2. /\ recorded' = [recorded EXCEPT !["given"][r] = @ + 1]
      /\ pending' = [pending EXCEPT ![q] = Counted(r) + 1]
      /\ request' = [request EXCEPT ![q].left = @ - 1]
      /\ request[q].at = "running" /\ UNCHANGED <<published, interrupted>>
  BY <1>1 DEF Record, Counted
<1>3. \A s \in Runs : Counted(s) \in Nat
  BY <1>1 DEF Counted
<1>4. /\ request' \in [Requests -> Asked]
      /\ pending' \in [Requests -> Nat]
      /\ \A p \in Requests : request'[p].run = request[p].run /\ request'[p].at = request[p].at
      /\ \A p \in Requests : p # q => pending'[p] = pending[p]
      /\ pending'[q] = Counted(r) + 1
  <2>1. \A p \in Requests : request[p] \in Asked
    OBVIOUS
  <2>2. [request[q] EXCEPT !.left = @ - 1] \in Asked
        /\ [request[q] EXCEPT !.left = @ - 1].run = r /\ [request[q] EXCEPT !.left = @ - 1].at = request[q].at
    <3>1. "idle" \in Places
      BY DEF Places
    <3>2. QED
      BY <1>1, <2>1, <3>1, AskedMoves
  <2>3. Counted(r) + 1 \in Nat
    BY <1>1, <1>3
  <2>4. QED
    BY <1>2, <2>1, <2>2, <2>3
<1>5. /\ recorded' \in [Recorders -> [Runs -> Nat]]
      /\ recorded["given"] \in [Runs -> Nat]
      /\ \A s \in Runs : Counted(s) \in Nat /\ Counted(s)' = IF s = r THEN Counted(r) + 1 ELSE Counted(s)
  BY <1>1, <1>2 DEF Counted
<1> HIDE DEF r
<1>6. HttpTypes'
  BY <1>1, <1>2, <1>4, <1>5
<1>7. Handing'
  <2>1. \A p \in Requests : request[p].run \in Runs /\ pending[p] \in Nat
    BY DEF Asked
  <2>2. QED
    BY <1>1, <1>2, <1>3, <1>4, <1>5, <2>1 DEF Handing, r
<1>8. HandedOnce'
  <2>1. \A i \in DOMAIN published : published[i].run \in Runs /\ published[i].sequence \in Nat
    BY HeardSays
  <2>2. \A i \in DOMAIN published : published[i].sequence <= Counted(published[i].run)
    BY DEF HandedOnce
  <2>3. \A p \in Requests : pending[p] # 0 => pending[p] <= Counted(request[p].run)
    BY DEF Handing
  <2>4. (\A i \in DOMAIN published : published[i].sequence <= Counted(published[i].run))'
    <3>1. ASSUME NEW i \in DOMAIN published PROVE published[i].sequence <= recorded'["given"][published[i].run]
      BY <1>3, <1>5, <2>1, <2>2, <3>1 DEF Counted
    <3>2. QED
      BY <1>2, <3>1 DEF Counted
  <2>5. ASSUME NEW p \in Requests, NEW i \in DOMAIN published, published[i].run = request[p].run
        PROVE  published[i].sequence # pending'[p]
    BY <1>1, <1>3, <1>4, <2>1, <2>2, <2>5 DEF HandedOnce, r
  <2>6. ASSUME NEW p \in Requests, NEW o \in Requests, p # o, pending'[p] # 0,
               request[p].run = request[o].run
        PROVE  pending'[p] # pending'[o]
    BY <1>1, <1>3, <1>4, <2>3, <2>6 DEF HandedOnce, r
  <2>7. QED
    BY <1>2, <1>4, <2>4, <2>5, <2>6 DEF HandedOnce
<1>9. SequenceIdentifiesEvent'
  BY <1>2 DEF SequenceIdentifiesEvent
<1>10. QED
  BY <1>6, <1>7, <1>8, <1>9

LEMMA Publishing == ASSUME HttpInv, NEW q \in Requests, Publish(q) PROVE HttpInv'
<1> DEFINE event == [run |-> request[q].run, sequence |-> pending[q], request |-> q]
<1> USE DEF HttpInv, HttpTypes
<1>1. /\ event \in Heard
      /\ event.run = request[q].run /\ event.sequence = pending[q]
      /\ published' = Append(published, event)
      /\ pending[q] # 0 /\ pending' = [pending EXCEPT ![q] = 0]
      /\ UNCHANGED <<request, recorded, interrupted>>
  <2>1. request[q].run \in Runs /\ pending[q] \in Nat
    BY DEF Asked
  <2>2. QED
    BY <2>1 DEF Publish, Heard
<1> HIDE DEF event
<1>2. /\ published' \in Seq(Heard)
      /\ DOMAIN published' = DOMAIN published \cup {Len(published) + 1}
      /\ Len(published) + 1 \notin DOMAIN published
      /\ \A i \in DOMAIN published : published'[i] = published[i]
      /\ published'[Len(published) + 1] = event
  BY <1>1
<1>3. \A i \in DOMAIN published : published[i].sequence \in Nat \ {0}
  BY HeardSays
<1>4. HttpTypes'
  BY <1>1, <1>2
<1>5. Handing'
  BY <1>1 DEF Handing, Counted
<1>6. HandedOnce'
  BY <1>1, <1>2, <1>3 DEF HandedOnce, Handing, Counted
<1>7. SequenceIdentifiesEvent'
  BY <1>1, <1>2 DEF SequenceIdentifiesEvent, HandedOnce
<1>8. QED
  BY <1>4, <1>5, <1>6, <1>7

LEMMA HttpSteps == ASSUME RecorderGiven, HttpInv, [HttpNext]_httpVars PROVE HttpInv'
<1> USE DEF HttpInv, HttpTypes
<1>1. ASSUME NEW q \in Requests, NEW body \in Bodies, Invoke(q, body) PROVE HttpInv'
  <2>1. pending[q] = 0 /\ q \in Runs /\ RunIDs \subseteq Runs /\ request[q].run \in Runs
    BY <1>1 DEF Invoke, Handing, Runs, Asked
  <2>2. "refused" \in Places /\ "running" \in Places
    BY DEF Places
  <2>3. CASE Answer(q, "refused")
    BY <1>1, <2>1, <2>2, <2>3, Idling DEF Invoke, Answer
  <2>4. ASSUME NEW r \in Runs, Run(q, r) PROVE HttpInv'
    BY <1>1, <2>1, <2>2, <2>4, Idling DEF Invoke, Run
  <2>5. QED
    BY <1>1, <2>1, <2>3, <2>4 DEF Invoke
<1>2. ASSUME NEW q \in Requests, NEW r \in Runs, Resume(q, r) PROVE HttpInv'
  <2>1. pending[q] = 0 /\ interrupted' \subseteq Runs
    BY <1>2 DEF Resume, Handing
  <2>2. "refused" \in Places /\ "running" \in Places
    BY DEF Places
  <2>3. QED
    BY <1>2, <2>1, <2>2, Idling DEF Resume, Answer, Run
<1>3. ASSUME NEW q \in Requests, NEW status \in Statuses, Return(q, status) PROVE HttpInv'
  <2>1. pending[q] = 0 /\ request[q].run \in Runs /\ interrupted' \subseteq Runs /\ status \in Places
    BY <1>3 DEF Return, Places, Asked
  <2>2. QED
    BY <1>3, <2>1, Idling DEF Return, Answer
<1>4. CASE UNCHANGED httpVars
  BY <1>4 DEF httpVars, Handing, HandedOnce, Counted, SequenceIdentifiesEvent
<1>5. QED
  BY <1>1, <1>2, <1>3, <1>4, Recording, Publishing DEF HttpNext, AllDone

(* With a trace recorder among a workflow's options, run and sequence      *)
(* identify every event that reaches the hub, for any number of requests   *)
(* that start, resume or share runs, and any number of events.             *)
THEOREM SequencesIdentify == ASSUME RecorderGiven PROVE HttpSpec => []SequenceIdentifiesEvent
<1>1. HttpInit => HttpInv
  BY HttpStarts
<1>2. HttpInv /\ [HttpNext]_httpVars => HttpInv'
  BY HttpSteps
<1>3. HttpInv => SequenceIdentifiesEvent
  BY DEF HttpInv
<1>4. QED
  BY <1>1, <1>2, <1>3, PTL DEF HttpSpec
=============================================================================
