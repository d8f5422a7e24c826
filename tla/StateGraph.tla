----------------------------- MODULE StateGraph -----------------------------
(***************************************************************************)
(* The workflow graph a Runner executes (src/graph).  A graph is built     *)
(* once and only read afterwards, so it is a set of CONSTANTS here; what   *)
(* the builder rejects before a run (StateGraph.Validate) is the           *)
(* assumption on them, and what a finished node leads to is a set of       *)
(* outcomes, because predicates and node functions are the user's code.    *)
(***************************************************************************)
EXTENDS Integers, Sequences, FiniteSets

CONSTANTS
  NodeIDs,      \* every identifier a command or an interrupt may name
  Registered,   \* the identifiers of registered nodes (g.nodes)
  StartNode,    \* g.start
  FinishNodes,  \* g.finish
  Fixed,        \* fixed edges: the list of targets of each identifier
  Routed,       \* the identifiers that have a conditional route
  Whens,        \* targets of the When edges of a route, in order
  Otherwise,    \* the Otherwise target, None when there is none
  Values,       \* the workflow states that are told apart
  Commands,     \* the commands node functions return
  None          \* the empty identifier, and every other absent value

HasNode(n) == n \in Registered

Targets(list) == {list[k] : k \in 1 .. Len(list)}

(* A graph.Command: Update (None = nil), Goto, Interrupt with the resume   *)
(* node it asks for (None = the interrupting node itself), End.            *)
Command == [update : Values \cup {None}, goto : NodeIDs \cup {None},
            interrupt : BOOLEAN, resume : NodeIDs \cup {None}, end : BOOLEAN]

(* StateGraph.Validate, which NewRunner calls before it accepts a graph.   *)
Validate ==
  /\ StartNode \in Registered
  /\ FinishNodes \subseteq Registered
  /\ \A n \in NodeIDs : Fixed[n] # <<>> =>
        n \in Registered /\ n \notin Routed /\ Targets(Fixed[n]) \subseteq Registered
  /\ \A n \in Routed :
        /\ n \in Registered
        /\ Targets(Whens[n]) \subseteq Registered
        /\ Otherwise[n] \in Registered \cup {None}

ASSUME GraphAssumption ==
  /\ Registered \subseteq NodeIDs
  /\ Routed \subseteq NodeIDs
  /\ Fixed \in [NodeIDs -> Seq(NodeIDs)]
  /\ Whens \in [NodeIDs -> Seq(NodeIDs)]
  /\ Otherwise \in [NodeIDs -> NodeIDs \cup {None}]
  /\ Commands \subseteq Command
  /\ None \notin NodeIDs
  /\ None \notin Values
  /\ Values # {}
  /\ Validate

(* SelectRoute: a predicate may fail, the first true one wins, otherwise   *)
(* the default target is taken when there is one.  The truth of a          *)
(* predicate is the user's, so any When target may be the selected one.    *)
RouteMayFail(n) == n \in Routed /\ Whens[n] # <<>>
RouteTargets(n) ==
  IF n \in Routed
  THEN Targets(Whens[n]) \cup ({Otherwise[n]} \ {None})
  ELSE {}
RouteMaySelectNone(n) == n \notin Routed \/ Otherwise[n] = None
=============================================================================
