------------------------------ MODULE Requests ------------------------------
(***************************************************************************)
(* The request of a call: its messages, and beside them the schema of the  *)
(* tool that is given.                                                     *)
(***************************************************************************)
EXTENDS Messages, ToolSchema

CONSTANTS
  SchemaOf,   \* bound: the tool that is given with each conversation
  Arguments   \* bound: the arguments schemas are compared by

ASSUME ToolsAssumption == DOMAIN SchemaOf = Conversations

VARIABLE schema  \* what the provider made of the tool's schema

requestVars == <<vars, schema>>

(* convertRequest: the messages first, then the tools.                     *)
ConvertRequest(p) ==
  /\ Convert(p)
  /\ schema' = IF request' = Refused THEN Refused ELSE SentSchema(p, SchemaOf[messages])

RequestsInit == Init /\ schema = Nil
RequestsNext ==
  \/ Compaction /\ UNCHANGED <<provider, request, schema>>
  \/ \E p \in Providers : ConvertRequest(p)
  \/ Returned /\ UNCHANGED schema
RequestsSpec == RequestsInit /\ [][RequestsNext]_requestVars

-----------------------------------------------------------------------------
(* A call of the tool has the arguments that the tool's own schema admits, *)
(* no more and no fewer, as far as Gemini's schemas can express them.      *)
SchemaKept ==
  schema \notin {Nil, Refused} /\ Expressible(SchemaOf[messages], Arguments) =>
    \A value \in Arguments : Admits(schema, value) <=> Admits(SchemaOf[messages], value)

(* What the vendor's estimator counts of the tool is the schema sent.      *)
SchemaCounted ==
  schema \notin {Nil, Refused} /\ provider \in Estimators =>
    CountedSchema(provider, SchemaOf[messages]) = schema

(* Both together: the tool is the same for the model, the counter and the  *)
(* code that runs it.                                                      *)
SchemaFaithful == SchemaKept /\ SchemaCounted
=============================================================================
