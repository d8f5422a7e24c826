-------------------------------- MODULE Http --------------------------------
(***************************************************************************)
(* POST /runs/{workflow}/invoke and /resume over api.Executable.  Each     *)
(* request makes a Runner of its own from the options the workflow was     *)
(* registered with: a trace recorder among them is shared by all requests, *)
(* otherwise NewRunner makes a new one each time.  The Runner's events go  *)
(* to the hub; what it does inside is module Runner.  A client resumes a   *)
(* run with what the answer to an interrupted request told it.             *)
(***************************************************************************)
EXTENDS Integers, Sequences

CONSTANTS
  Requests,          \* HTTP requests
  RunIDs,            \* run IDs that clients choose
  RecorderGiven,     \* the options of the workflow hold a trace recorder
  Bodies,            \* bound: the sets of fields of an invoke body
  MaxEvents          \* bound: events that one request's run records

(* ids.New gives a request without a run ID one that no other has.         *)
Runs == RunIDs \cup Requests

ASSUME HttpAssumption ==
  /\ RunIDs \cap Requests = {}
  /\ RecorderGiven \in BOOLEAN
  /\ MaxEvents \in Nat

VARIABLES
  request,      \* request[q]: where the handler is, its run
  recorded,     \* recorded[d][r]: events of run r in recorder d
  pending,      \* pending[q]: the recorded event that waits for the hub, 0 = none
  published,    \* the events in the order they reached the hub
  interrupted   \* the runs of which a client holds an interrupt

httpVars == <<request, recorded, pending, published, interrupted>>

Recorders == Requests \cup {"given"}
OwnRecorder(q) == q  \* mutant of RecorderOf: the option is lost
RecorderOf(q) == IF RecorderGiven THEN "given" ELSE q

HttpInit ==
  /\ request = [q \in Requests |-> [at |-> "idle", run |-> q, left |-> MaxEvents]]
  /\ recorded = [d \in Recorders |-> [r \in Runs |-> 0]]
  /\ pending = [q \in Requests |-> 0]
  /\ published = <<>>
  /\ interrupted = {}

-----------------------------------------------------------------------------
(* parseInvokeBody: an object with "state" and an option is an envelope,   *)
(* in which unknown fields are refused; any other body is the state.       *)
Options == {"run_id", "session_id", "metadata", "start_at"}
IsEnvelope(body) == "state" \in body /\ body \cap Options # {}
Refused(body) == IsEnvelope(body) /\ ~(body \subseteq Options \cup {"state"})

Answer(q, status) == request' = [request EXCEPT ![q].at = status]
Run(q, r) == request' = [request EXCEPT ![q].at = "running", ![q].run = r]

(* handleInvoke: the workflow may be unknown or not executable, the body   *)
(* not readable or refused, the state not of the workflow's type.          *)
Invoke(q, body) ==
  /\ request[q].at = "idle"
  /\ \/ Answer(q, "refused")
     \/ ~Refused(body) /\ IsEnvelope(body) /\ "run_id" \in body /\ \E r \in RunIDs : Run(q, r)
     \/ ~Refused(body) /\ ~(IsEnvelope(body) /\ "run_id" \in body) /\ Run(q, q)
  /\ UNCHANGED <<recorded, pending, published, interrupted>>

(* handleResume, with the run of an interrupt that a client was answered.  *)
Resume(q, r) ==
  /\ request[q].at = "idle"
  /\ r \in interrupted
  /\ Answer(q, "refused") \/ Run(q, r)
  /\ UNCHANGED <<recorded, pending, published, interrupted>>

(* Runner.record: the recorder numbers the event, then the hub gets it.    *)
Record(q) ==
  /\ request[q].at = "running"
  /\ request[q].left > 0
  /\ pending[q] = 0
  /\ LET d == RecorderOf(q)
         r == request[q].run
     IN /\ recorded' = [recorded EXCEPT ![d][r] = @ + 1]
        /\ pending' = [pending EXCEPT ![q] = recorded[d][r] + 1]
  /\ request' = [request EXCEPT ![q].left = @ - 1]
  /\ UNCHANGED <<published, interrupted>>

Publish(q) ==
  /\ pending[q] # 0
  /\ published' = Append(published,
                    [run |-> request[q].run, sequence |-> pending[q], request |-> q])
  /\ pending' = [pending EXCEPT ![q] = 0]
  /\ UNCHANGED <<request, recorded, interrupted>>

(* The run ends: the result, an interrupt among them, or an error.         *)
Return(q, status) ==
  /\ request[q].at = "running"
  /\ pending[q] = 0
  /\ status = "error" \/ request[q].left < MaxEvents
  /\ Answer(q, status)
  /\ interrupted' = IF status = "interrupted" THEN interrupted \cup {request[q].run}
                                               ELSE interrupted
  /\ UNCHANGED <<recorded, pending, published>>

Statuses == {"completed", "interrupted", "error"}
AllDone ==
  /\ \A q \in Requests : request[q].at \in Statuses \cup {"refused"}
  /\ UNCHANGED httpVars

HttpNext ==
  \/ \E q \in Requests :
       \/ \E body \in Bodies : Invoke(q, body)
       \/ \E r \in Runs : Resume(q, r)
       \/ Record(q) \/ Publish(q)
       \/ \E status \in Statuses : Return(q, status)
  \/ AllDone

HttpSpec == HttpInit /\ [][HttpNext]_httpVars

-----------------------------------------------------------------------------
(* Properties                                                              *)

(* RunID and Sequence identify an event, as MemoryRecorder.Record says of  *)
(* what is stored and replayed: no two events of a run that reach the hub  *)
(* have one sequence number, be they of the request that started the run,  *)
(* of the one that resumed it or of two that use one run ID at once.       *)
SequenceIdentifiesEvent ==
  \A i, j \in DOMAIN published :
    published[i].run = published[j].run /\ published[i].sequence = published[j].sequence
      => i = j
=============================================================================
