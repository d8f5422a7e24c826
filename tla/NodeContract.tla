---------------------------- MODULE NodeContract ----------------------------
(***************************************************************************)
(* What is expected of a node function, whatever it does inside: it emits  *)
(* events only while its call is running, it returns once with one         *)
(* outcome, and it is called again only to answer the interrupt it asked   *)
(* for.  runtime.Runner does not enforce the first (the emitter it hands   *)
(* out works for ever); the order in which events are delivered needs it.  *)
(***************************************************************************)
EXTENDS Integers

CONSTANTS
  Sources,    \* the parts of the node that emit events
  Outcomes    \* what a call can return, "interrupt" among them

VARIABLES
  running,    \* the node function is on the stack of the run loop
  emitted,    \* emitted[s]: how many events s emitted in this call
  outcome     \* what the last call returned

contract == <<running, emitted, outcome>>

Quiet == [s \in Sources |-> 0]

Init == running = TRUE /\ emitted = Quiet /\ outcome = "none"

Emit(s) ==
  /\ running
  /\ emitted' = [emitted EXCEPT ![s] = @ + 1]
  /\ UNCHANGED <<running, outcome>>

Return(o) ==
  /\ running
  /\ running' = FALSE
  /\ outcome' = o
  /\ UNCHANGED emitted

Again ==
  /\ ~running
  /\ outcome = "interrupt"
  /\ running' = TRUE
  /\ emitted' = Quiet
  /\ outcome' = "none"

Next ==
  \/ \E s \in Sources : Emit(s)
  \/ \E o \in Outcomes : Return(o)
  \/ Again

Spec == Init /\ [][Next]_contract
=============================================================================
