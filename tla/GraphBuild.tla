----------------------------- MODULE GraphBuild -----------------------------
(***************************************************************************)
(* Building a workflow graph (src/graph).  The building calls come in any  *)
(* order and return no error: what is wrong with one is kept in buildErrs, *)
(* and Validate reports it when an application or a Runner is given the    *)
(* graph.  A RouteBuilder may be kept and used later.  Flow and a Finish   *)
(* of several nodes are their calls one by one, and a Step is a Node.      *)
(***************************************************************************)
EXTENDS Integers, Sequences, FiniteSets, SequencesExt

CONSTANTS
  Names,      \* node identifiers
  Empty,      \* the empty identifier
  Links,      \* bound: the pairs of identifiers edges are asked for between
  MaxErrors   \* bound: mistakes in the calls that build one graph

Given == Names \cup {Empty}

ASSUME NamesAssumption == Empty \notin Names /\ MaxErrors \in Nat
ASSUME LinksAssumption == Links \subseteq [from : Given, to : Given]

VARIABLES
  named,       \* whether NewStateGraph was given a workflow identifier
  nodes,       \* nodeOrder: the registered nodes, in order
  fixed,       \* fixed: the targets of the fixed edges of each node
  fixedOrder,  \* fixedOrder: all fixed edges
  reachable,   \* reachable: the edges that only commands take
  routes,      \* routes: of each node, Absent when it has none
  start,       \* start
  finish,      \* finishList; the map finish has the same identifiers
  buildErrs,   \* the number of errors of the calls so far
  builders     \* the route each RouteBuilder the caller got writes to

graphVars ==
  <<named, nodes, fixed, fixedOrder, reachable, routes, start, finish, buildErrs, builders>>

Elements(list) == {list[k] : k \in 1 .. Len(list)}
HasNode(n) == n \in Elements(nodes)

Link(from, to) == [from |-> from, to |-> to]
Absent == [there |-> FALSE, whens |-> <<>>, otherwise |-> Empty]
NewRoute == [Absent EXCEPT !.there = TRUE]
Routed == {n \in Names : routes[n].there}

GraphInit ==
  /\ named \in BOOLEAN
  /\ nodes = <<>> /\ fixedOrder = <<>> /\ reachable = <<>> /\ finish = <<>>
  /\ fixed = [n \in Names |-> <<>>]
  /\ routes = [n \in Names |-> Absent]
  /\ start = Empty
  /\ buildErrs = 0
  /\ builders = {}

(* addError                                                                *)
Refuse ==
  /\ buildErrs < MaxErrors
  /\ buildErrs' = buildErrs + 1
  /\ UNCHANGED <<nodes, fixed, fixedOrder, reachable, routes, start, finish>>

(* Node, of a function or of nil.                                          *)
Node(id, fn) ==
  /\ UNCHANGED builders
  /\ IF id = Empty \/ ~fn \/ HasNode(id)
     THEN Refuse
     ELSE /\ nodes' = Append(nodes, id)
          /\ UNCHANGED <<fixed, fixedOrder, reachable, routes, start, finish, buildErrs>>

Edge(from, to) ==
  /\ UNCHANGED builders
  /\ IF from = Empty \/ to = Empty
     THEN Refuse
     ELSE /\ fixed' = [fixed EXCEPT ![from] = Append(@, to)]
          /\ fixedOrder' = Append(fixedOrder, Link(from, to))
          /\ UNCHANGED <<nodes, reachable, routes, start, finish, buildErrs>>

Reachable(from, to) ==
  /\ UNCHANGED builders
  /\ IF from = Empty \/ to = Empty
     THEN Refuse
     ELSE /\ reachable' = Append(reachable, Link(from, to))
          /\ UNCHANGED <<nodes, fixed, fixedOrder, routes, start, finish, buildErrs>>

(* Route: of a node that has one the caller gets a builder of the same     *)
(* route, of no node a builder that is not attached.                       *)
Route(from) ==
  /\ builders' = builders \cup {from}
  /\ IF from = Empty \/ from \in Routed
     THEN Refuse
     ELSE /\ routes' = [routes EXCEPT ![from] = NewRoute]
          /\ UNCHANGED <<nodes, fixed, fixedOrder, reachable, start, finish, buildErrs>>

(* RouteBuilder.When, of a predicate or of nil: the order of an edge is    *)
(* its place in the list.                                                  *)
RouteWhen(b, predicate, target) ==
  /\ b \in builders
  /\ UNCHANGED builders
  /\ IF b = Empty \/ ~predicate \/ target = Empty
     THEN Refuse
     ELSE /\ routes' = [routes EXCEPT ![b].whens = Append(@, target)]
          /\ UNCHANGED <<nodes, fixed, fixedOrder, reachable, start, finish, buildErrs>>

(* RouteBuilder.Otherwise: the last one counts.                            *)
RouteOtherwise(b, target) ==
  /\ b \in builders
  /\ UNCHANGED builders
  /\ IF b = Empty \/ target = Empty
     THEN Refuse
     ELSE /\ routes' = [routes EXCEPT ![b].otherwise = target]
          /\ UNCHANGED <<nodes, fixed, fixedOrder, reachable, start, finish, buildErrs>>

Start(id) ==
  /\ UNCHANGED builders
  /\ IF id = Empty
     THEN Refuse
     ELSE /\ start' = id
          /\ UNCHANGED <<nodes, fixed, fixedOrder, reachable, routes, finish, buildErrs>>

Finish(id) ==
  /\ UNCHANGED builders
  /\ IF id = Empty
     THEN Refuse
     ELSE /\ finish' = IF id \in Elements(finish) THEN finish ELSE Append(finish, id)
          /\ UNCHANGED <<nodes, fixed, fixedOrder, reachable, routes, start, buildErrs>>

GraphCall ==
  \/ \E id \in Given, given \in BOOLEAN : Node(id, given)
  \/ \E l \in Links : Edge(l.from, l.to) \/ Reachable(l.from, l.to)
  \/ \E from \in Given : Route(from)
  \/ \E b \in builders, target \in Given :
       (\E given \in BOOLEAN : RouteWhen(b, given, target)) \/ RouteOtherwise(b, target)
  \/ \E id \in Given : Start(id) \/ Finish(id)

(* The identifier is given to NewStateGraph, no call changes it.           *)
GraphNext == GraphCall /\ UNCHANGED named

GraphSpec == GraphInit /\ [][GraphNext]_graphVars

-----------------------------------------------------------------------------
(* Validate; a route holds no nil predicate, When refuses it.              *)
ValidRoute(n) ==
  /\ HasNode(n)
  /\ \A target \in Elements(routes[n].whens) : HasNode(target)
  /\ routes[n].otherwise # Empty => HasNode(routes[n].otherwise)

Valid ==
  /\ buildErrs = 0
  /\ named
  /\ nodes # <<>>
  /\ start # Empty /\ HasNode(start)
  /\ \A id \in Elements(finish) : HasNode(id)
  /\ \A n \in Names : fixed[n] # <<>> =>
       HasNode(n) /\ n \notin Routed /\ \A target \in Elements(fixed[n]) : HasNode(target)
  /\ \A n \in Routed : ValidRoute(n)
  /\ \A l \in Elements(reachable) : HasNode(l.from) /\ HasNode(l.to)

-----------------------------------------------------------------------------
(* Snapshot: what an application shows of a graph.                         *)
Shown(from, to, kind, order) == [from |-> from, to |-> to, kind |-> kind, order |-> order]

(* Mutant of RouteEdges: the default target is only shown beside a When.   *)
DefaultOfWhens(n) ==
  LET whens == routes[n].whens
      otherwise == routes[n].otherwise
  IN [k \in DOMAIN whens |-> Shown(n, whens[k], "conditional", k)]
       \o (IF otherwise = Empty \/ whens = <<>> THEN <<>>
           ELSE <<Shown(n, otherwise, "otherwise", 0)>>)

RouteEdges(n) ==
  LET whens == routes[n].whens
      otherwise == routes[n].otherwise
  IN [k \in DOMAIN whens |-> Shown(n, whens[k], "conditional", k)]
       \o (IF otherwise = Empty THEN <<>> ELSE <<Shown(n, otherwise, "otherwise", 0)>>)

Snapshot ==
  [start |-> start, finish |-> finish, nodes |-> nodes,
   edges |->
     [k \in DOMAIN fixedOrder |-> Shown(fixedOrder[k].from, fixedOrder[k].to, "fixed", k)]
     \o FlattenSeq([k \in DOMAIN nodes |-> IF nodes[k] \in Routed THEN RouteEdges(nodes[k]) ELSE <<>>])
     \o [k \in DOMAIN reachable |-> Shown(reachable[k].from, reachable[k].to, "dynamic", 0)]]

-----------------------------------------------------------------------------
(* Properties                                                              *)

(* The graph as a Runner reads it: NodeFunc, FixedTargets, SelectRoute,    *)
(* StartNode and IsFinish.                                                 *)
Runner == INSTANCE StateGraph WITH
  NodeIDs <- Names, Registered <- Elements(nodes), StartNode <- start,
  FinishNodes <- Elements(finish), Fixed <- fixed, Routed <- Routed,
  Whens <- [n \in Names |-> routes[n].whens],
  Otherwise <- [n \in Names |-> routes[n].otherwise],
  Values <- {}, Commands <- {}, None <- Empty

(* Where the edges of one kind from n lead to, in the order shown.         *)
ShownFrom(n, kind) ==
  LET edges == Snapshot.edges
      mine(edge) == edge.from = n /\ edge.kind = kind
  IN FlattenSeq([k \in DOMAIN edges |-> IF mine(edges[k]) THEN <<edges[k].to>> ELSE <<>>])

(* A graph that Validate accepts is one a Runner can execute, in whatever  *)
(* order, with whatever mistakes and through whichever kept RouteBuilder   *)
(* it was built; and its snapshot shows as fixed, conditional and default  *)
(* edges of a node the targets that the Runner reads for it, in its order. *)
(* A goto of the node's own is no part of the graph: the Runner takes it   *)
(* to any node, and of the dynamic edges, which are the caller's word for  *)
(* it, nothing is said here.                                               *)
AcceptedGraphRuns ==
  Valid =>
    /\ Runner!Validate
    /\ Elements(Snapshot.nodes) = Elements(nodes) /\ Len(Snapshot.nodes) = Cardinality(Elements(nodes))
    /\ \A n \in Names :
         /\ ShownFrom(n, "fixed") = fixed[n]
         /\ ShownFrom(n, "conditional") = routes[n].whens
         /\ Elements(ShownFrom(n, "conditional") \o ShownFrom(n, "otherwise")) = Runner!RouteTargets(n)
         /\ Len(ShownFrom(n, "otherwise")) <= 1
=============================================================================
