------------------------------ MODULE Estimate ------------------------------
(***************************************************************************)
(* What the token estimators count of a conversation (src/token): the      *)
(* node copies its messages to those of package token, and the estimators  *)
(* of Anthropic and Gemini convert them by code of their own into the      *)
(* request whose tokens the vendor counts.  That code is read here as it   *)
(* runs, message by message, with what it has so far.  The tiktoken        *)
(* estimator counts texts.  Texts and parts are those of Encode.           *)
(***************************************************************************)
EXTENDS Encode

(* toTokenMessages, toTokenInputParts and toTokenToolCalls.                *)
ToTokenMessage(message) ==
  [Role |-> message.role, Content |-> message.text, Name |-> message.name,
   ToolCallID |-> message.answers,
   Input |-> [i \in DOMAIN message.input |->
                [Type |-> message.input[i].type, Text |-> message.input[i].text,
                 Image |-> message.input[i].image]],
   ToolCalls |-> [i \in DOMAIN message.calls |->
                    [ID |-> message.calls[i].id, Name |-> message.calls[i].name]]]
ToTokenMessages(conversation) == [i \in DOMAIN conversation |-> ToTokenMessage(conversation[i])]

(* convertImagePart and convertImageBlock: only Gemini needs a type.       *)
ImageConverts(p, image) ==
  /\ image \notin {"", "garbled"}
  /\ p = "gemini" => image # "link"
PartConverts(p, part) ==
  \/ part.Type = "input_text"
  \/ part.Type = "input_image" /\ ImageConverts(p, part.Image)
NotConvertible(p, message) == \E i \in DOMAIN message.Input : ~PartConverts(p, message.Input[i])
InputImages(message) == {i \in DOMAIN message.Input : message.Input[i].Type = "input_image"}

(* convertMessageParts and convertContentBlocks: empty texts are left out, *)
(* and the content stands in when nothing remains.                         *)
BlocksOf(part) ==
  CASE part.Type = "input_image" -> <<Image(part.Image)>>
    [] part.Type = "input_text" -> Lines(part.Text)
    [] OTHER -> <<>>
MessageParts(message) ==
  LET parts == FlattenSeq([i \in DOMAIN message.Input |-> BlocksOf(message.Input[i])])
  IN IF parts = <<>> THEN Lines(message.Content) ELSE parts
ToolUses(message) ==
  [i \in DOMAIN message.ToolCalls |-> Part("call", message.ToolCalls[i].ID, message.ToolCalls[i].Name, <<>>)]

SystemOnly(message) == message.Role = "system"  \* mutant of Instructs
Instructs(message) == message.Role \in {"system", "developer"}

(* What has been read so far: the request, the names of the tools called,  *)
(* and whether a message was refused.                                      *)
Nothing == [contents |-> <<>>, system |-> <<>>, toolNames |-> <<>>, refused |-> FALSE]
Turn(role, parts) == [role |-> role, parts |-> parts]
Refusing(read) == [read EXCEPT !.refused = TRUE]
Instructed(read, message) == [read EXCEPT !.system = @ \o MessageParts(message)]
Adding(read, role, parts) == [read EXCEPT !.contents = Append(@, Turn(role, parts))]

-----------------------------------------------------------------------------
(* token/anthropic convertMessages: an image in a system block is refused, *)
(* one in a tool result is not.                                            *)
AnthropicResult(message) == <<Result(message.ToolCallID, "", MessageParts(message))>>
AnthropicReads(read, message) ==
  IF NotConvertible("anthropic", message) \/ (Instructs(message) /\ InputImages(message) # {})
  THEN Refusing(read)
  ELSE CASE Instructs(message) -> Instructed(read, message)
         [] message.Role = "assistant" -> Adding(read, "assistant", MessageParts(message) \o ToolUses(message))
         [] message.Role = "tool" -> Adding(read, "user", AnthropicResult(message))
         [] OTHER -> Adding(read, "user", MessageParts(message))

(* token/gemini convertMessages: a turn of no parts is left out, a result  *)
(* has its own name or that of the call seen last with its identifier.     *)
Named(read, id) ==
  LET known == {k \in DOMAIN read.toolNames : read.toolNames[k].ID = id}
  IN IF known = {} THEN "" ELSE read.toolNames[CHOOSE k \in known : \A j \in known : j <= k].Name
GeminiResult(read, message) ==
  LET name == IF message.Name # "" THEN message.Name ELSE Named(read, message.ToolCallID)
  IN IF InputImages(message) # {} \/ name = "" THEN Refusing(read)
     ELSE Adding(read, "user", <<Result(message.ToolCallID, name, Lines(message.Content))>>)
GeminiTurn(read, role, parts) == IF parts = <<>> THEN read ELSE Adding(read, role, parts)
GeminiReads(read, message) ==
  IF message.Role = "tool" THEN GeminiResult(read, message)
  ELSE IF NotConvertible("gemini", message) THEN Refusing(read)
  ELSE CASE Instructs(message) -> Instructed(read, message)
         [] message.Role = "assistant" ->
              GeminiTurn([read EXCEPT !.toolNames = @ \o message.ToolCalls],
                         "model", MessageParts(message) \o ToolUses(message))
         [] OTHER -> GeminiTurn(read, "user", MessageParts(message))

(* CountPromptTokens: the request whose tokens are counted.                *)
Estimators == {"anthropic", "gemini"}
Reads(p, read, message) ==
  CASE read.refused -> read
    [] ~read.refused /\ p = "anthropic" -> AnthropicReads(read, message)
    [] ~read.refused /\ p = "gemini" -> GeminiReads(read, message)
CountedMessages(p, conversation) ==
  LET messages == ToTokenMessages(conversation)
      read[i \in 0 .. Len(conversation)] ==
        IF i = 0 THEN Nothing ELSE Reads(p, read[i - 1], messages[i])
      all == read[Len(conversation)]
  IN IF all.refused THEN Refused ELSE [system |-> all.system, contents |-> all.contents]

-----------------------------------------------------------------------------
(* TiktokenEstimator.CountPromptTokens: the texts it counts, besides three *)
(* tokens for each message, one for each name and three for the reply.     *)
CountedPart(part) ==
  <<part.Type>> \o (IF part.Type = "input_image" THEN <<"image", part.Image>> ELSE part.Text)
CountedCalls(message) ==
  FlattenSeq([i \in DOMAIN message.ToolCalls |-> <<message.ToolCalls[i].ID, message.ToolCalls[i].Name>>])
CountedTexts(message) ==
  <<message.Role, message.Name>>
    \o (IF message.Input = <<>> THEN message.Content
        ELSE FlattenSeq([i \in DOMAIN message.Input |-> CountedPart(message.Input[i])]))
    \o <<message.ToolCallID>> \o CountedCalls(message)
Tiktoken(conversation) ==
  LET messages == ToTokenMessages(conversation)
  IN FlattenSeq([i \in DOMAIN messages |-> CountedTexts(messages[i])])
=============================================================================
