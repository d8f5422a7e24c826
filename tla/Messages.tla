------------------------------ MODULE Messages ------------------------------
(***************************************************************************)
(* From a conversation to the messages of a request: a plan compacts the   *)
(* conversation, as an adjuster or a node does before a call, and a        *)
(* provider converts what is left.                                         *)
(***************************************************************************)
EXTENDS Compact, Estimate

ASSUME MessagesAssumption ==
  /\ Conversations \subseteq Seq(MessageType)
  /\ Refused \notin [system : Seq(PartType), contents : Seq(TurnType)]
  /\ Nil \notin Providers

VARIABLES
  provider,  \* the provider that converted, or Nil
  request    \* what it made of the messages

vars == <<compaction, provider, request>>

Convert(p) ==
  /\ pc = "compacted" /\ provider = Nil
  /\ provider' = p
  /\ request' = ConvertMessages(p, compacted)
  /\ UNCHANGED compaction

Returned == (pc = "error" \/ provider # Nil) /\ UNCHANGED vars

Init == CompactionInit /\ provider = Nil /\ request = <<>>
Next ==
  \/ Compaction /\ UNCHANGED <<provider, request>>
  \/ \E p \in Providers : Convert(p)
  \/ Returned
Spec == Init /\ [][Next]_vars

-----------------------------------------------------------------------------
(* What a message means: for a tool result the call that it answers; what  *)
(* it says, in texts and images; and the calls of an assistant.            *)
Item(kind, value) == [kind |-> kind, value |-> value]
Written(text) == [k \in DOMAIN text |-> Item("text", text[k])]
Spoken(message) ==
  IF message.input = <<>> THEN Written(message.text)
  ELSE FlattenSeq([i \in DOMAIN message.input |->
         IF message.input[i].type = "input_image" THEN <<Item("image", message.input[i].image)>>
                                                  ELSE Written(message.input[i].text)])
Meant(message) ==
  (IF message.role = "tool" THEN <<Item("result", message.answers)>> ELSE <<>>)
    \o Spoken(message)
    \o [i \in DOMAIN message.calls |-> Item("call", message.calls[i].id)]
MeantBy(conversation, M(_)) ==
  FlattenSeq([i \in DOMAIN conversation |-> IF M(conversation[i]) THEN Meant(conversation[i]) ELSE <<>>])

(* The same of the parts of a request.                                     *)
Carried(part) ==
  <<Item(part.kind, part.value)>>
    \o [j \in DOMAIN part.content |-> Item(part.content[j].kind, part.content[j].value)]
Flat(parts) == FlattenSeq([i \in DOMAIN parts |-> Carried(parts[i])])
AllParts(contents) == FlattenSeq([i \in DOMAIN contents |-> contents[i].parts])

(* The constructors of message.go: the content is the text of the input    *)
(* parts, and only an assistant calls tools.                               *)
Constructed(message) ==
  /\ \A i \in DOMAIN message.input : message.input[i].type \in {"input_text", "input_image"}
  /\ message.input # <<>> =>
       message.text = FlattenSeq([i \in DOMAIN message.input |->
         IF message.input[i].type = "input_text" THEN message.input[i].text ELSE <<>>])
  /\ message.calls # <<>> => message.role = "assistant"
AllConstructed == \A i \in DOMAIN compacted : Constructed(compacted[i])

NamedByCall(part) ==
  \E m \in DOMAIN compacted : \E c \in DOMAIN compacted[m].calls :
    compacted[m].calls[c] = [id |-> part.value, name |-> part.name]
NamedAsGiven(part) ==
  \E m \in DOMAIN compacted : compacted[m].answers = part.value /\ compacted[m].name = part.name

(* Everything a conversation says is sent once and in its order, whichever *)
(* the provider: texts, images, tool calls and results with their          *)
(* identifiers, each result followed by what it says.  Calls are the       *)
(* assistant's and results are not; only system messages are set apart;    *)
(* and the name Gemini gives a result is that of a call.  (For messages as *)
(* the constructors make them.)                                            *)
RequestFaithful ==
  provider # Nil /\ request # Refused /\ AllConstructed =>
    LET apart(message) == SystemApart(provider) /\ System(message)
        among(message) == ~apart(message)
    IN /\ Flat(request.system) = MeantBy(compacted, apart)
       /\ Flat(AllParts(request.contents)) = MeantBy(compacted, among)
       /\ \A i \in DOMAIN request.contents : \A j \in DOMAIN request.contents[i].parts :
            LET role == request.contents[i].role
                part == request.contents[i].parts[j]
            IN /\ part.kind = "call" => role \in {"assistant", "model"}
               /\ part.kind = "result" => role \notin {"assistant", "model"}
               /\ part.kind = "result" /\ provider = "gemini" => NamedByCall(part) \/ NamedAsGiven(part)

(* A plan that leaves every tool call and result alone, and brings in no   *)
(* result of its own, never makes a provider refuse a conversation it      *)
(* would have taken.                                                       *)
SparesTools ==
  \A k \in DOMAIN plan :
    /\ plan[k].action \in {"drop", "replace"} =>
         messages[plan[k].target].role # "tool" /\ messages[plan[k].target].calls = <<>>
    /\ plan[k].action \in {"replace", "add"} => plan[k].replacement.role # "tool"
StillAccepted ==
  provider # Nil /\ SparesTools /\ request = Refused => ConvertMessages(provider, messages) = Refused

(* The estimate made before a call counts what the call will send: the     *)
(* estimator of the provider's vendor, whose code is another, counts the   *)
(* very same messages and refuses the conversations the provider refuses;  *)
(* and tiktoken counts each text and each call that any provider sends as  *)
(* often as it is sent.  (The latter for messages as the constructors make *)
(* them.)                                                                  *)
Times(list, x) == Cardinality({i \in DOMAIN list : list[i] = x})
EstimateAgrees ==
  provider # Nil =>
    /\ provider \in Estimators => CountedMessages(provider, compacted) = request
    /\ request # Refused /\ AllConstructed =>
         LET sent == Flat(request.system) \o Flat(AllParts(request.contents))
             counted == Tiktoken(compacted)
         IN \A i \in DOMAIN sent : sent[i].kind \in {"text", "call"} =>
              Times(sent, sent[i]) <= Times(counted, sent[i].value)
=============================================================================
