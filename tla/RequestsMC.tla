----------------------------- MODULE RequestsMC -----------------------------
(***************************************************************************)
(* Conversations with every role, images, tool calls and results, and all  *)
(* plans of up to two operations, or three that drop and add twice.        *)
(***************************************************************************)
EXTENDS Requests

Say(role, text) ==
  [role |-> role, text |-> IF text = "" THEN <<>> ELSE <<text>>, input |-> <<>>, calls |-> <<>>,
   answers |-> "", name |-> ""]
TextPart(text) == [type |-> "input_text", text |-> IF text = "" THEN <<>> ELSE <<text>>, image |-> ""]
ImagePart(image) == [type |-> "input_image", text |-> <<>>, image |-> image]
Ask(role, text, image) ==
  [Say(role, text) EXCEPT !.input = (IF text = "" THEN <<>> ELSE <<TextPart(text)>>) \o <<ImagePart(image)>>]
Use(text, calls) == [Say("assistant", text) EXCEPT !.calls = calls]
Reply(id, text) == [Say("tool", text) EXCEPT !.answers = id]
Called(id, name) == [id |-> id, name |-> name]

MCConversationList ==
  <<<<Say("system", "brief"), Ask("user", "look", "photo"),
     Use("both", <<Called("a", "f"), Called("b", "g")>>), Reply("a", "one"), Reply("b", "")>>,
   <<Use("", <<Called("a", "f")>>), Reply("a", "one"),
     Use("more", <<Called("a", "g")>>), Reply("a", "two")>>,
   <<Say("developer", "brief"), Ask("user", "", "link"), Say("assistant", ""),
     [Reply("c", "lone") EXCEPT !.name = "h"]>>,
   <<Say("user", "hello"), Use("", <<Called("a", "")>>), Reply("a", "one")>>,
   <<Ask("system", "brief", "photo"), Say("guest", "hello")>>,
   <<Ask("user", "look", "garbled"), Ask("user", "", "")>>,
   <<[Say("assistant", "") EXCEPT !.text = <<"one", "one">>, !.input = <<TextPart("one"), TextPart(""), TextPart("one")>>],
     Ask("user", "look", "garbled"), [Say("user", "hello") EXCEPT !.input = <<TextPart("look")>>]>>>>
MCConversations == Range(MCConversationList)

(* A tool for each conversation, one without a schema among them.          *)
Of(type) == [Anything EXCEPT !.type = type]
Either(type) == [Anything EXCEPT !.types = <<"null", type>>]
Enumerated(kind, text) == [kind |-> kind, text |-> text]
Object(required, properties) ==
  [Of("object") EXCEPT !.required = required, !.properties = <<properties>>]
List(items) == [Of("array") EXCEPT !.items = <<items>>, !.minItems = <<1>>]

MCSchemas ==
  <<Object({"a"}, [a |-> Of("string"), b |-> Either("integer")]),
    Object({"a", "b"}, [a |-> List(Of("integer")), b |-> Object({"a"}, [a |-> Of("number")])]),
    Object({}, [a |-> [Of("string") EXCEPT !.nullable = <<TRUE>>],
                b |-> [Either("string") EXCEPT
                         !.enum = <<Enumerated("string", "x"), Enumerated("null", "")>>]]),
    Object({"b"}, [b |-> [Anything EXCEPT !.anyOf = <<Of("string"), List(Of("string"))>>]]),
    Object({"b"}, [b |-> [Anything EXCEPT !.oneOf = <<Of("boolean"), Object({}, [a |-> Of("string")])>>]]),
    [Anything EXCEPT !.properties = <<[a |-> [Of("integer") EXCEPT !.enum = <<Enumerated("integer", "1")>>],
                                       b |-> Garbled]>>],
    Garbled>>
MCSchemaOf ==
  [c \in MCConversations |->
    MCSchemas[CHOOSE k \in DOMAIN MCConversationList : MCConversationList[k] = c]]

Value(kind, text) == [kind |-> kind, text |-> text, members |-> <<>>, elements |-> <<>>]
Members(f) == [Value("object", "") EXCEPT !.members = f]
Elements(list) == [Value("array", "") EXCEPT !.elements = list]
MCValues ==
  {Value("string", "x"), Value("string", "y"), Value("integer", "1"), Value("number", "1.5"),
   Value("boolean", "true"), Value("null", ""), Elements(<<>>), Elements(<<Value("integer", "1")>>),
   Elements(<<Value("string", "x"), Value("boolean", "true")>>),
   Members(<<>>), Members([a |-> Value("number", "1.5")]), Members([a |-> Value("string", "x")])}
MCArguments ==
  {Members(<<>>)} \cup {Members([a |-> x]) : x \in MCValues} \cup {Members([b |-> x]) : x \in MCValues}
    \cup {Members([a |-> x, b |-> y]) : x, y \in MCValues}

At0 == [kind |-> "start", segment |-> 0, index |-> Nil]
MCPositions ==
  {At0, [At0 EXCEPT !.kind = "end"], [At0 EXCEPT !.kind = ""], [At0 EXCEPT !.segment = 1]}
    \cup {[kind |-> "index", segment |-> 0, index |-> i] : i \in {-1, 1, 9}}
    \cup {[kind |-> "index", segment |-> 1, index |-> 0]}
    \cup {[kind |-> k, segment |-> s, index |-> Nil] : k \in {"before", "after"}, s \in {0, 1, 2, 8}}
    \cup {[kind |-> k, segment |-> 0, index |-> i] : k \in {"before", "after"}, i \in {-2, 0, 1, 8, 9}}

Op1(action, target) == [action |-> action, target |-> target, replacement |-> Nil, position |-> At0]
Segment(id, role) == [id |-> id, role |-> role, text |-> IF role = "guest" THEN <<>> ELSE <<"summary">>]
Additions == {[Op1("add", 0) EXCEPT !.replacement = Segment(n, "user"), !.position = p] : n \in {1, 8}, p \in MCPositions}
MCOps ==
  {Op1(a, t) : a \in {"keep", "drop"}, t \in 0 .. 5}
    \cup {[Op1("replace", t) EXCEPT !.replacement = Segment(n, r)] :
            t \in {1, 3, 4}, n \in {0, 1, 8}, r \in {"user", "guest", "tool"}}
    \cup {Op1("replace", 1), Op1("", 1), Op1("add", 0)}
    \cup Additions
MCPlans ==
  {<<>>} \cup {<<a>> : a \in MCOps} \cup {<<a, b>> : a, b \in MCOps}
    \cup {<<Op1("drop", 1), a, b>> : a, b \in Additions}
=============================================================================
