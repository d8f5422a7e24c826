------------------------------- MODULE Encode -------------------------------
(***************************************************************************)
(* What convertMessages of the four providers (src/llm/openai/provider.go, *)
(* openai/responses, anthropic, gemini) makes of a conversation: the       *)
(* messages of the vendor's request with their parts in order, and the     *)
(* system parts apart where the vendor wants them so; or Refused.          *)
(*                                                                         *)
(* A text is the list of its lines, the empty text has none; where there   *)
(* are several texts to send, or one that was joined from several, what is *)
(* sent are the lines of all.  The empty string is an absent identifier,   *)
(* name or image.                                                          *)
(***************************************************************************)
EXTENDS Integers, Sequences, FiniteSets, SequencesExt

CONSTANT Refused

Providers == {"openai", "responses", "anthropic", "gemini"}

(* Message of message.go: its Content, its Input parts, its tool calls,    *)
(* and for a tool result the call it answers and perhaps the tool's name.  *)
ToolCall == [id : STRING, name : STRING]
InputPart == [type : STRING, text : Seq(STRING), image : STRING]
Optional == STRING \cup {""}  \* a name, or none
MessageType == [role : STRING, text : Seq(STRING), input : Seq(InputPart), calls : Seq(ToolCall),
                answers : Optional, name : Optional]

(* A part of a request: its kind, what it carries, and for a tool result   *)
(* the parts it is made of.                                                *)
LeafType == [kind : {"text", "image"}, value : STRING, name : {""}, content : {<<>>}]
PartType == [kind : {"text", "image", "call", "result"}, value : Optional, name : Optional,
             content : Seq(LeafType)]
TurnType == [role : {"system", "developer", "user", "assistant", "model", "tool"}, parts : Seq(PartType)]
Part(kind, value, name, content) == [kind |-> kind, value |-> value, name |-> name, content |-> content]
Text(line) == Part("text", line, "", <<>>)
Image(value) == Part("image", value, "", <<>>)
Call(call) == Part("call", call.id, call.name, <<>>)
Result(id, name, content) == Part("result", id, name, content)
Said(role, parts) == <<[role |-> role, parts |-> parts]>>

Lines(text) == [k \in DOMAIN text |-> Text(text[k])]
Content(message) == Lines(message.text)
HasImageInput(message) == \E i \in DOMAIN message.input : message.input[i].type = "input_image"

(* An image is a name for its data with a type, or "link", a URL without a *)
(* type, or "garbled", a data URL that cannot be parsed.                   *)
Takes(p, image) ==
  /\ image # ""
  /\ image = "link" => p # "gemini"
  /\ image = "garbled" => p \in {"openai", "responses"}

(* The input parts, refused when one of them cannot be sent; the content   *)
(* stands in when none is left.                                            *)
Sendable(p, message) ==
  \A i \in DOMAIN message.input :
    LET part == message.input[i]
    IN \/ part.type = "input_text"
       \/ part.type = "input_image" /\ Takes(p, part.image)
PartsOf(part) == IF part.type = "input_image" THEN <<Image(part.image)>> ELSE Lines(part.text)
InputParts(message) ==
  LET parts == FlattenSeq([i \in DOMAIN message.input |-> PartsOf(message.input[i])])
  IN IF parts = <<>> THEN Content(message) ELSE parts
Calls(message) == [i \in DOMAIN message.calls |-> Call(message.calls[i])]

-----------------------------------------------------------------------------
(* OpenAI: one message each; images in user messages only.                 *)
OpenAIRefuses(p, message) ==
  IF message.role = "user" THEN ~Sendable(p, message) ELSE HasImageInput(message)
OpenAIMessage(message) ==
  CASE message.role = "user" -> Said("user", InputParts(message))
    [] message.role = "tool" -> Said("tool", <<Result(message.answers, "", Content(message))>>)
    [] message.role = "assistant" -> Said("assistant", Content(message) \o Calls(message))
    [] message.role \in {"system", "developer"} -> Said(message.role, Content(message))
    [] OTHER -> Said("user", Content(message))

(* Responses: the content and each call of an assistant are items of their *)
(* own, and nothing is sent for one without either.                        *)
ItemsOfCalls(message) ==
  [i \in DOMAIN message.calls |-> [role |-> "assistant", parts |-> <<Call(message.calls[i])>>]]
CallsWithoutContent(message) == \* mutant of AppendAssistant: content or calls
  IF message.text # <<>> THEN Said("assistant", Content(message)) ELSE ItemsOfCalls(message)
AppendAssistant(message) ==
  (IF message.text = <<>> THEN <<>> ELSE Said("assistant", Content(message))) \o ItemsOfCalls(message)
ResponsesMessage(message) ==
  IF message.role = "assistant" THEN AppendAssistant(message) ELSE OpenAIMessage(message)

(* Anthropic: system blocks apart, tool results as user messages, images   *)
(* anywhere but in a system block.                                         *)
System(message) == message.role \in {"system", "developer"}
AnthropicRefuses(message) ==
  ~Sendable("anthropic", message) \/ (System(message) /\ HasImageInput(message))
AnthropicMessage(message) ==
  CASE message.role = "assistant" -> Said("assistant", InputParts(message) \o Calls(message))
    [] message.role = "tool" -> Said("user", <<Result(message.answers, "", InputParts(message))>>)
    [] OTHER -> Said("user", InputParts(message))

(* Gemini: a tool result carries the name of the tool, given or that of    *)
(* the last earlier call with its identifier; messages of no parts are     *)
(* left out.                                                               *)
CallsOf(message) == IF message.role = "assistant" THEN message.calls ELSE <<>>
EarlierCalls(conversation, i) == FlattenSeq([j \in 1 .. i - 1 |-> CallsOf(conversation[j])])
ToolName(conversation, i) ==
  LET message == conversation[i]
      calls == EarlierCalls(conversation, i)
      matching == {k \in DOMAIN calls : calls[k].id = message.answers}
  IN IF message.name # "" THEN message.name
     ELSE IF matching = {} THEN "" ELSE calls[Max(matching)].name
GeminiRefuses(conversation, i) ==
  LET message == conversation[i]
  IN IF message.role = "tool" THEN HasImageInput(message) \/ ToolName(conversation, i) = ""
                              ELSE ~Sendable("gemini", message)
SaidIfAny(role, parts) == IF parts = <<>> THEN <<>> ELSE Said(role, parts)
GeminiMessage(conversation, i) ==
  LET message == conversation[i]
  IN CASE message.role = "tool" ->
            Said("user", <<Result(message.answers, ToolName(conversation, i), Content(message))>>)
       [] message.role = "assistant" -> SaidIfAny("model", InputParts(message) \o Calls(message))
       [] OTHER -> SaidIfAny("user", InputParts(message))

-----------------------------------------------------------------------------
(* convertMessages.                                                        *)
SystemApart(p) == p \in {"anthropic", "gemini"}
Refuses(p, conversation, i) ==
  CASE p \in {"openai", "responses"} -> OpenAIRefuses(p, conversation[i])
    [] p = "anthropic" -> AnthropicRefuses(conversation[i])
    [] p = "gemini" -> GeminiRefuses(conversation, i)
Encoded(p, conversation, i) ==
  CASE p = "openai" -> OpenAIMessage(conversation[i])
    [] p = "responses" -> ResponsesMessage(conversation[i])
    [] p = "anthropic" -> AnthropicMessage(conversation[i])
    [] p = "gemini" -> GeminiMessage(conversation, i)

SetApart(p, conversation, i) == SystemApart(p) /\ System(conversation[i])
ConvertMessages(p, conversation) ==
  IF \E i \in DOMAIN conversation : Refuses(p, conversation, i) THEN Refused
  ELSE [system |-> FlattenSeq([i \in DOMAIN conversation |->
                     IF SetApart(p, conversation, i) THEN InputParts(conversation[i]) ELSE <<>>]),
        contents |-> FlattenSeq([i \in DOMAIN conversation |->
                       IF SetApart(p, conversation, i) THEN <<>> ELSE Encoded(p, conversation, i)])]
=============================================================================
