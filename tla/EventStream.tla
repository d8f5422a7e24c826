---------------------------- MODULE EventStream -----------------------------
(***************************************************************************)
(* runtime.EventStream as the event handler of calls made with             *)
(* InvokeAsync: the handler never waits for the consumer, drops what does  *)
(* not fit and ignores what comes after Close.  A caller reads a call's    *)
(* result from Done; the stream is closed by its user, who may wait for    *)
(* the results or not, and more than once.                                 *)
(***************************************************************************)
EXTENDS Recording

CONSTANTS
  StreamBuffer,      \* the capacity of the stream's channel
  Patient,     \* users that close the stream after the results are read
  Hasty        \* users that close it whenever they like

Closers == Patient \cup Hasty

ASSUME StreamAssumption == StreamBuffer \in Nat \ {0} /\ Patient \cap Hasty = {}

VARIABLES
  readers,     \* emitters that hold the stream's read lock
  shut,      \* the stream and its channel are closed
  buffer,      \* the channel
  dropped,     \* the counter Dropped() reports
  consumed,       \* what the consumer received
  closer,      \* closer[k]: where user k is in Close
  done         \* done[c]: the Done channel of call c

stream == <<readers, shut, buffer, dropped, consumed, closer>>
streamVars == <<recording, stream, done>>

StreamInit ==
  /\ RecordingInit
  /\ readers = {}
  /\ shut = FALSE
  /\ buffer = <<>>
  /\ dropped = 0
  /\ consumed = <<>>
  /\ closer = [k \in Closers |-> "idle"]
  /\ done = [c \in Calls |-> "none"]

-----------------------------------------------------------------------------
(* Handle: the read lock, then closed, then a send that does not wait.     *)
WriterWaits == \E k \in Closers : closer[k] = "waiting"

HandleBegin(e) ==
  /\ emit[e] = "handler"
  /\ ~WriterWaits
  /\ IF shut
     THEN Handled(e) /\ UNCHANGED readers
     ELSE /\ emit' = [emit EXCEPT ![e] = "sending"]
          /\ readers' = readers \cup {e}
          /\ UNCHANGED <<run, event, emits, emitMu, trace>>
  /\ UNCHANGED <<shut, buffer, dropped, consumed, closer, done>>

WaitForRoom(e) ==  \* mutant of Put: the send waits for the consumer
  /\ Len(buffer) < StreamBuffer
  /\ buffer' = Append(buffer, event[e])
  /\ UNCHANGED dropped
PutOrForget(e) ==  \* mutant of Put: the drop is not counted
  /\ buffer' = IF Len(buffer) < StreamBuffer THEN Append(buffer, event[e]) ELSE buffer
  /\ UNCHANGED dropped
Put(e) ==
  \/ /\ Len(buffer) < StreamBuffer
     /\ buffer' = Append(buffer, event[e])
     /\ UNCHANGED dropped
  \/ /\ Len(buffer) >= StreamBuffer
     /\ dropped' = dropped + 1
     /\ UNCHANGED buffer

HandleSend(e) ==
  /\ emit[e] = "sending"
  /\ Put(e)
  /\ readers' = readers \ {e}
  /\ Handled(e)
  /\ UNCHANGED <<shut, consumed, closer, done>>

(* Close: the write lock waits for the readers and keeps new ones out.     *)
Close(k) ==
  /\ closer[k] = "idle"
  /\ k \in Patient => \A c \in Calls : done[c] = "read"
  /\ closer' = [closer EXCEPT ![k] = "waiting"]
  /\ UNCHANGED <<recording, readers, shut, buffer, dropped, consumed, done>>

AtOnce == WriterWaits  \* mutant of Exclusive: Close takes no lock
Exclusive == readers = {}

CloseLocked(k) ==
  /\ closer[k] = "waiting"
  /\ Exclusive
  /\ shut' = TRUE
  /\ closer' = [closer EXCEPT ![k] = "closed"]
  /\ UNCHANGED <<recording, readers, buffer, dropped, consumed, done>>

(* The consumer ranges over Events().                                      *)
Take ==
  /\ buffer # <<>>
  /\ consumed' = Append(consumed, Head(buffer))
  /\ buffer' = Tail(buffer)
  /\ UNCHANGED <<recording, readers, shut, dropped, closer, done>>

-----------------------------------------------------------------------------
(* InvokeAsync: the result, then the channel closed; the channel has room  *)
(* for it, so nobody needs to read it.                                     *)
InvokeAsync(c) == Begin(c) /\ UNCHANGED <<stream, done>>

Answer(c) ==
  /\ run[c] = "returned"
  /\ done[c] = "none"
  /\ done' = [done EXCEPT ![c] = "sent"]
  /\ UNCHANGED <<recording, stream>>

ReadDone(c) ==
  /\ done[c] = "sent"
  /\ done' = [done EXCEPT ![c] = "read"]
  /\ UNCHANGED <<recording, stream>>

StreamStop ==
  /\ \A c \in Calls : done[c] = "read"
  /\ \A k \in Closers : closer[k] = "closed"
  /\ buffer = <<>>
  /\ UNCHANGED streamVars

CallStep(c) == InvokeAsync(c) \/ Answer(c)
HandleStep(e) == HandleBegin(e) \/ HandleSend(e)
InNode == NodeStep /\ UNCHANGED <<stream, done>>

StreamNext ==
  \/ \E c \in Calls : CallStep(c) \/ ReadDone(c)
  \/ \E e \in Emitters : HandleStep(e)
  \/ InNode \/ Take \/ StreamStop
  \/ \E k \in Closers : Close(k) \/ CloseLocked(k)

(* The program's goroutines are scheduled and its nodes return; whoever    *)
(* called Close gets the lock.  Nothing is assumed of the consumer, of the *)
(* readers of Done, or of when the stream is closed.                       *)
StreamSpec ==
  /\ StreamInit /\ [][StreamNext]_streamVars
  /\ \A c \in Calls : WF_streamVars(CallStep(c))
  /\ \A c \in Calls : WF_streamVars(NodeReturn(c) /\ UNCHANGED <<stream, done>>)
  /\ \A e \in Emitters : WF_streamVars(HandleStep(e))
  /\ \A k \in Closers : WF_streamVars(CloseLocked(k))

-----------------------------------------------------------------------------
(* Properties                                                              *)

(* Every variable has its type.                                            *)
StreamTypeOK ==
  /\ RecordingTypeOK({"sending"})
  /\ readers \subseteq Emitters
  /\ shut \in BOOLEAN
  /\ buffer \in Seq(Events) /\ Len(buffer) <= StreamBuffer
  /\ dropped \in Nat
  /\ consumed \in Seq(Events)
  /\ closer \in [Closers -> {"idle", "waiting", "closed"}]
  /\ done \in [Calls -> {"none", "sent", "read"}]

(* Every event of the trace is in the handler, in the channel, received or *)
(* counted by Dropped(), none twice, unless somebody closed the stream     *)
(* before the results were in: a user who reads Done, closes and drains    *)
(* knows how many events the trace has that the stream did not give.       *)
InHandler == {e \in Emitters : emit[e] \in {"handler", "sending"}}
NothingMissed ==
  (\A k \in Hasty : closer[k] = "idle") =>
    Cardinality(Recorded) = Cardinality(InHandler) + Len(buffer) + Len(consumed) + dropped

(* The consumer gets the events of one call in the order of their          *)
(* sequence numbers and none twice, also those that goroutines of a node   *)
(* emit at once; of two calls with one run ID this cannot be said.         *)
CallOrder ==
  LET seen == consumed \o buffer
  IN \A i, j \in DOMAIN seen :
       i < j /\ CallBehind(seen[i].from) = CallBehind(seen[j].from) =>
         seen[i].sequence < seen[j].sequence

(* Handle and Close keep the promise of Feed: in particular nothing is     *)
(* sent on the closed channel, which would be a panic of the run.          *)
StreamFeed ==
  INSTANCE Feed WITH
    Items <- Events, Capacity <- StreamBuffer,
    phase <- IF shut THEN "closed" ELSE "open",
    queue <- buffer, taken <- consumed, lost <- dropped
IsStreamFeed == StreamFeed!Spec

(* A run never waits for the consumer of its events, for the readers of    *)
(* its result, or for a Close in progress.                                 *)
RunNeverWaits == \A c \in Calls : run[c] = "starting" ~> done[c] # "none"
=============================================================================
