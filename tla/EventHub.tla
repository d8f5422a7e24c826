------------------------------ MODULE EventHub ------------------------------
(***************************************************************************)
(* api.EventHub and the web socket handlers that serve its subscriptions.  *)
(* The handler of every invoke and resume request publishes to the hub,    *)
(* which offers the event to each subscription whose filter it matches,    *)
(* under its mutex and without waiting; a connection's handler subscribes, *)
(* forwards what its channel gives and closes the subscription.            *)
(***************************************************************************)
EXTENDS Recording

CONSTANTS
  Connections,  \* web socket requests, and so subscriptions
  Filters,      \* bound: Filters[s], what s may ask for: fields to values or None
  Label,        \* Label[e]: the fields of the events that emitter e records
  Buffer,       \* the capacity of a subscription's channel (256 in the code)
  Cancellable,  \* bound: the connections whose request context may end
  Breakable     \* bound: the connections that may break

Fields == {"run", "node"}

ASSUME HubAssumption ==
  /\ Buffer \in Nat \ {0}
  /\ \A s \in Connections : None \notin Filters[s] /\ \A f \in Filters[s] : DOMAIN f = Fields
  /\ \A e \in Emitters : DOMAIN Label[e] = Fields /\ Label[e]["run"] = RunOf[CallBehind(e)]

VARIABLES
  mu,            \* the emitter that holds the hub's mutex to publish
  visiting,      \* visiting[e]: the subscriptions its Publish has yet to visit
  subscribers,   \* the subscriptions in the hub's map
  channel,       \* channel[s]: the events queued for s
  closed,        \* the subscriptions whose channel is closed
  taken,         \* taken[s]: what the handler of s received
  lost,          \* lost[s]: how many offers found the channel full
  conn,          \* conn[s]: where the handler of s is
  filter,        \* filter[s]: the filter of s
  before,        \* before[s]: the wanted events published before s subscribed
  broken         \* the connections on which writes fail

subscriptions == <<subscribers, conn, filter, before, broken>>
queues == <<channel, closed, taken, lost>>
vars == <<recording, mu, visiting, subscriptions, queues>>

Each(x) == [s \in Connections |-> x]

Init ==
  /\ RecordingInit
  /\ mu = None
  /\ visiting = [e \in Emitters |-> {}]
  /\ subscribers = {}
  /\ channel = Each(<<>>)
  /\ closed = {}
  /\ taken = Each(<<>>)
  /\ lost = Each(0)
  /\ conn = Each("new")
  /\ filter = Each(None)
  /\ before = Each(0)
  /\ broken = {}

-----------------------------------------------------------------------------
(* EventSubscription.matches: a field the filter leaves empty matches all. *)
Matches(s, e) == \A f \in Fields : filter[s][f] \in {None, Label[e][f]}

(* Publish: all subscriptions of the map, in any order, under one lock.    *)
NoLock == visiting \in [Emitters -> SUBSET Connections]  \* mutant of MuFree
MuFree == mu = None

Publish(e) ==
  /\ emit[e] = "handler"
  /\ MuFree
  /\ mu' = e
  /\ visiting' = [visiting EXCEPT ![e] = subscribers]
  /\ emit' = [emit EXCEPT ![e] = "publishing"]
  /\ UNCHANGED <<run, event, emits, emitMu, trace, subscriptions, queues>>

(* A send that does not wait: what finds no room is gone for good.         *)
Room(s) == Len(channel[s]) < Buffer

FirstOnly(e, s) ==  \* mutant of Others: the loop ends at the first match
  IF Matches(s, e) THEN {} ELSE visiting[e] \ {s}
Others(e, s) == visiting[e] \ {s}

Visit(e, s) ==
  /\ emit[e] = "publishing"
  /\ s \in visiting[e]
  /\ visiting' = [visiting EXCEPT ![e] = Others(e, s)]
  /\ channel' = IF Matches(s, e) /\ Room(s)
                THEN [channel EXCEPT ![s] = Append(@, event[e])] ELSE channel
  /\ lost' = IF Matches(s, e) /\ ~Room(s) THEN [lost EXCEPT ![s] = @ + 1] ELSE lost
  /\ UNCHANGED <<recording, mu, subscriptions, closed, taken>>

Published(e) ==
  /\ emit[e] = "publishing"
  /\ visiting[e] = {}
  /\ mu' = None
  /\ Handled(e)
  /\ UNCHANGED <<visiting, subscriptions, queues>>

-----------------------------------------------------------------------------
(* serveEventsWS: the upgrade may fail, otherwise Subscribe.               *)
Wanted(f, e) == \A x \in Fields : f[x] = None \/ f[x] = Label[e][x]
WantedIn(f) == {p \in Recorded : Wanted(f, trace[p[1]][p[2]])}
AwaitingHub(f) == {e \in Emitters : emit[e] = "handler" /\ Wanted(f, e)}

Subscribe(s, f) ==
  /\ conn[s] = "new"
  /\ \/ /\ MuFree
        /\ filter' = [filter EXCEPT ![s] = f]
        /\ subscribers' = subscribers \cup {s}
        /\ conn' = [conn EXCEPT ![s] = "serving"]
        /\ before' = [before EXCEPT ![s] = Cardinality(WantedIn(f)) - Cardinality(AwaitingHub(f))]
     \/ /\ conn' = [conn EXCEPT ![s] = "over"]
        /\ UNCHANGED <<filter, subscribers, before>>
  /\ UNCHANGED <<recording, mu, visiting, queues, broken>>

(* The select of the loop: an event of the channel ...                     *)
Receive(s) ==
  /\ conn[s] = "serving"
  /\ channel[s] # <<>>
  /\ taken' = [taken EXCEPT ![s] = Append(@, Head(channel[s]))]
  /\ channel' = [channel EXCEPT ![s] = Tail(@)]
  /\ conn' = [conn EXCEPT ![s] = "writing"]
  /\ UNCHANGED <<recording, mu, visiting, subscribers, filter, before, broken, closed, lost>>

(* ... is written, which fails on a broken connection.                     *)
Write(s) ==
  /\ conn[s] = "writing"
  /\ s \notin broken
  /\ conn' = [conn EXCEPT ![s] = "serving"]
  /\ UNCHANGED <<recording, mu, visiting, subscribers, filter, before, broken, queues>>

Ignored == "serving"  \* mutant of AfterFailure: the loop goes on
AfterFailure == "closing"

WriteFails(s) ==
  /\ conn[s] = "writing"
  /\ s \in broken
  /\ conn' = [conn EXCEPT ![s] = AfterFailure]
  /\ UNCHANGED <<recording, mu, visiting, subscribers, filter, before, broken, queues>>

(* ... or the end of the request's context.                                *)
ContextDone(s) ==
  /\ conn[s] = "serving"
  /\ s \in Cancellable
  /\ conn' = [conn EXCEPT ![s] = "closing"]
  /\ UNCHANGED <<recording, mu, visiting, subscribers, filter, before, broken, queues>>

(* EventSubscription.Close: out of the map under the lock, then the        *)
(* channel is closed.                                                      *)
Kept(s) == subscribers \cup {s}  \* mutant of Detached: still in the map
Detached(s) == subscribers \ {s}

Detach(s) ==
  /\ conn[s] = "closing"
  /\ MuFree
  /\ subscribers' = Detached(s)
  /\ conn' = [conn EXCEPT ![s] = "detached"]
  /\ UNCHANGED <<recording, mu, visiting, filter, before, broken, queues>>

CloseChannel(s) ==
  /\ conn[s] = "detached"
  /\ closed' = closed \cup {s}
  /\ conn' = [conn EXCEPT ![s] = "over"]
  /\ UNCHANGED <<recording, mu, visiting, subscribers, filter, before, broken, channel, taken, lost>>

(* The connection breaks; nothing reads from it, so only a write notices.  *)
Break(s) ==
  /\ conn[s] \in {"serving", "writing"}
  /\ s \in Breakable \ broken
  /\ broken' = broken \cup {s}
  /\ UNCHANGED <<recording, mu, visiting, subscribers, conn, filter, before, queues>>

-----------------------------------------------------------------------------
EmitStep(e) == Publish(e) \/ Published(e) \/ \E s \in Connections : Visit(e, s)
RunStep ==
  /\ NodeStep \/ \E c \in Calls : Begin(c)
  /\ UNCHANGED <<mu, visiting, subscriptions, queues>>
Serve(s) == Receive(s) \/ WriteFails(s) \/ Detach(s) \/ CloseChannel(s)

(* Every run has ended and nothing is left to forward.                     *)
Stop ==
  /\ \A c \in Calls : run[c] = "returned"
  /\ \A s \in Connections : conn[s] = "over" \/ (conn[s] = "serving" /\ channel[s] = <<>>)
  /\ UNCHANGED vars

Next ==
  \/ RunStep \/ Stop
  \/ \E e \in Emitters : EmitStep(e)
  \/ \E s \in Connections :
       \/ (\E f \in Filters[s] : Subscribe(s, f))
       \/ Serve(s) \/ Write(s) \/ ContextDone(s) \/ Break(s)

(* The server's goroutines are scheduled; a write to a slow client may     *)
(* take for ever.                                                          *)
Spec ==
  /\ Init /\ [][Next]_vars
  /\ \A e \in Emitters : WF_vars(EmitStep(e))
  /\ \A s \in Connections : WF_vars(Serve(s))

-----------------------------------------------------------------------------
(* Properties                                                              *)

(* Every variable has its type.                                            *)
TypeOK ==
  /\ RecordingTypeOK({"publishing"})
  /\ mu \in Emitters \cup {None}
  /\ visiting \in [Emitters -> SUBSET Connections]
  /\ subscribers \subseteq Connections /\ closed \subseteq Connections /\ broken \subseteq Connections
  /\ channel \in [Connections -> Seq(Events)] /\ taken \in [Connections -> Seq(Events)]
  /\ \A s \in Connections : Len(channel[s]) <= Buffer
  /\ lost \in [Connections -> Nat] /\ before \in [Connections -> Nat]
  /\ conn \in [Connections -> {"new", "serving", "writing", "closing", "detached", "over"}]
  /\ DOMAIN filter = Connections /\ \A s \in Connections : filter[s] \in Filters[s] \cup {None}

Seen(s) == taken[s] \o channel[s]

(* All connections see the events they share in one order, that in which   *)
(* the hub published them, whatever their filters and whenever they joined.*)
SameOrder ==
  \A s, t \in Connections : \A i, j \in DOMAIN Seen(s) : \A k, l \in DOMAIN Seen(t) :
    i < j /\ Seen(s)[i] = Seen(t)[k] /\ Seen(s)[j] = Seen(t)[l] => k < l

(* Every recorded event that a subscription wants and that was not         *)
(* published before it is on its way, queued, taken or lost for want of    *)
(* room: a late or slow connection never loses one that fits.              *)
OnItsWay(s) ==
  {e \in Emitters :
     /\ Wanted(filter[s], e)
     /\ emit[e] = "handler" \/ (emit[e] = "publishing" /\ s \in visiting[e])}
EachMatchOffered ==
  \A s \in subscribers :
    Cardinality(WantedIn(filter[s])) =
      before[s] + Cardinality(OnItsWay(s)) + Len(Seen(s)) + lost[s]

(* A subscription keeps the promise of Feed: in particular Publish never   *)
(* sends on a channel that Close closed, which would be a panic.           *)
SubscriptionFeed(s) ==
  INSTANCE Feed WITH
    Items <- Events, Capacity <- Buffer,
    phase <- IF filter[s] = None THEN "new"
             ELSE IF s \in subscribers /\ s \notin closed THEN "open" ELSE "closed",
    queue <- channel[s], taken <- taken[s], lost <- lost[s]
IsFeed ==
  /\ \A s \in Connections : SubscriptionFeed(s)!Init
  /\ [][\A s \in Connections : [SubscriptionFeed(s)!Next]_(SubscriptionFeed(s)!feed)]_vars

(* A subscription whose connection broke leaves the hub once an event      *)
(* reaches it.  Without an event it stays: nothing else notices.           *)
BrokenUnsubscribed ==
  \A s \in Connections :
    s \in broken /\ s \in subscribers /\ channel[s] # <<>> ~> s \notin subscribers
=============================================================================
