----------------------------- MODULE ToolSchema -----------------------------
(***************************************************************************)
(* The input schema of a tool as the providers send it (src/llm): OpenAI,  *)
(* Responses and Anthropic pass the tool's JSON schema on, Gemini turns it *)
(* into a schema of its own, with one type and a nullable flag.  Both are  *)
(* a record of keywords here; a keyword that is missing is an empty        *)
(* sequence or string, one of a single value a sequence of it.  A schema   *)
(* that is no JSON object is Garbled, and so is one that is missing.       *)
(* Titles, formats, defaults, examples and the order of properties are     *)
(* left out, and of the limits, which are copied, all but minItems.        *)
(* Keywords that the Gemini conversion does not read at all, such as       *)
(* additionalProperties, const and $ref, are not among the records either: *)
(* a schema that needs one is one Gemini cannot be sent faithfully.        *)
(***************************************************************************)
EXTENDS Integers, Sequences, FiniteSets, SequencesExt

Anything ==
  [map |-> TRUE, type |-> "", types |-> <<>>, nullable |-> <<>>, enum |-> <<>>, required |-> {},
   properties |-> <<>>, items |-> <<>>, minItems |-> <<>>, anyOf |-> <<>>, oneOf |-> <<>>]
Garbled == [Anything EXCEPT !.map = FALSE]
DefaultObject == [Anything EXCEPT !.type = "object", !.properties = <<[name \in {} |-> Anything]>>]

(* schemaType: of a list the first that is not null.                       *)
SchemaType(schema) ==
  LET named(type) == type # "null"
      list == SelectSeq(schema.types, named)
  IN IF schema.type # "" \/ list = <<>> THEN schema.type ELSE list[1]
NullableAsGiven(schema) == schema.nullable  \* mutant of Nullable: null in a list of types is lost
Nullable(schema) ==
  IF schema.nullable # <<>> THEN schema.nullable
  ELSE IF SchemaType(schema) # "" /\ Contains(schema.types, "null") THEN <<TRUE>> ELSE <<>>

(* stringValues: numbers become strings, null is left out.                 *)
StringValues(enum) ==
  LET rendered(value) == value.kind # "null"
      list == SelectSeq(enum, rendered)
  IN [k \in DOMAIN list |-> [list[k] EXCEPT !.kind = "string"]]

(* schemaFromValue, of a JSON object.                                      *)
RECURSIVE SchemaFromValue(_)
SchemaList(list) ==
  LET object(schema) == schema.map
      objects == SelectSeq(list, object)
  IN [k \in DOMAIN objects |-> SchemaFromValue(objects[k])]
PropertySchema(schema) == IF schema.map THEN SchemaFromValue(schema) ELSE DefaultObject
Alternatives(schema) ==
  IF SchemaList(schema.anyOf) # <<>> THEN SchemaList(schema.anyOf) ELSE SchemaList(schema.oneOf)
InferredType(schema) ==
  CASE schema.properties # <<>> -> "object"
    [] schema.properties = <<>> /\ SchemaList(schema.items) # <<>> -> "array"
    [] OTHER -> IF Alternatives(schema) = <<>> THEN "object" ELSE ""
SchemaFromValue(schema) ==
  [Anything EXCEPT
    !.type = IF SchemaType(schema) # "" THEN SchemaType(schema) ELSE InferredType(schema),
    !.nullable = Nullable(schema),
    !.enum = StringValues(schema.enum),
    !.required = schema.required,
    !.properties = [k \in DOMAIN schema.properties |->
      [name \in DOMAIN schema.properties[k] |-> PropertySchema(schema.properties[k][name])]],
    !.items = SchemaList(schema.items),
    !.minItems = schema.minItems,
    !.anyOf = Alternatives(schema)]

(* convertTools of the four providers.                                     *)
SentSchema(p, schema) ==
  CASE p = "gemini" -> IF schema.map THEN SchemaFromValue(schema) ELSE DefaultObject
    [] p = "anthropic" -> IF schema \in {Garbled, Anything} THEN [Anything EXCEPT !.type = "object"] ELSE schema
    [] p = "responses" -> IF schema.map THEN schema ELSE DefaultObject
    [] p = "openai" -> IF schema.map THEN schema ELSE Anything

(* The Gemini estimator has its own copy of the conversion                 *)
(* (token/gemini/estimator.go), written down here on its own, so that one  *)
(* of the two changed alone shows.                                         *)
RECURSIVE EstimatedSchema(_)
EstimatedTypes(schema) ==
  IF schema.type # "" THEN <<schema.type>> ELSE SelectSeq(schema.types, LAMBDA type : type # "null")
EstimatedNullable(schema) ==
  CASE schema.nullable # <<>> -> schema.nullable
    [] schema.nullable = <<>> /\ EstimatedTypes(schema) # <<>> /\ Contains(schema.types, "null") -> <<TRUE>>
    [] OTHER -> <<>>
EstimatedAnyOf(schema) == SelectSeq(schema.anyOf, LAMBDA part : part.map)  \* alone, mutant of EstimatedAlternatives
EstimatedAlternatives(schema) ==
  LET anyOf == EstimatedAnyOf(schema)
  IN IF anyOf = <<>> THEN SelectSeq(schema.oneOf, LAMBDA part : part.map) ELSE anyOf
EstimatedSchema(schema) ==
  LET each(parts) == [k \in DOMAIN parts |-> EstimatedSchema(parts[k])]
      types == EstimatedTypes(schema)
      items == SelectSeq(schema.items, LAMBDA part : part.map)
      values == SelectSeq(schema.enum, LAMBDA value : value.kind # "null")
      alternatives == EstimatedAlternatives(schema)
      property(part) == IF part.map THEN EstimatedSchema(part) ELSE DefaultObject
  IN [Anything EXCEPT
       !.type = CASE types # <<>> -> types[1]
                  [] types = <<>> /\ schema.properties # <<>> -> "object"
                  [] types = <<>> /\ schema.properties = <<>> /\ items # <<>> -> "array"
                  [] OTHER -> IF alternatives = <<>> THEN "object" ELSE "",
       !.nullable = EstimatedNullable(schema),
       !.enum = [k \in DOMAIN values |-> [kind |-> "string", text |-> values[k].text]],
       !.required = schema.required,
       !.properties = [k \in DOMAIN schema.properties |->
         [name \in DOMAIN schema.properties[k] |-> property(schema.properties[k][name])]],
       !.items = each(items), !.minItems = schema.minItems, !.anyOf = each(alternatives)]

(* convertTools of the estimators.                                         *)
NoDefault(p, schema) ==  \* mutant of CountedSchema: a missing schema is counted as none
  IF p = "gemini" /\ schema = Garbled THEN Anything ELSE SentSchema(p, schema)
CountedSchema(p, schema) ==
  CASE p = "anthropic" /\ schema \in {Garbled, Anything} -> [Anything EXCEPT !.type = "object"]
    [] p = "anthropic" /\ schema \notin {Garbled, Anything} -> schema
    [] p = "gemini" /\ schema = Garbled -> DefaultObject
    [] p = "gemini" /\ schema # Garbled -> EstimatedSchema(schema)

-----------------------------------------------------------------------------
(* What a schema means.  A value is [kind, text, members, elements].       *)
Is(value, type) == value.kind = type \/ (value.kind = "integer" /\ type = "number")

RECURSIVE Admits(_, _)
Admits(schema, value) ==
  LET admitting(list) == {k \in DOMAIN list : Admits(list[k], value)}
      types == {schema.types[k] : k \in DOMAIN schema.types} \cup ({schema.type} \ {""})
  IN \/ ~schema.map
     \/ schema.nullable = <<TRUE>> /\ value.kind = "null"
     \/ /\ types # {} => \E type \in types : Is(value, type)
        /\ schema.enum # <<>> => \E k \in DOMAIN schema.enum :
             schema.enum[k] = [kind |-> value.kind, text |-> value.text]
        /\ value.kind = "object" =>
             /\ schema.required \subseteq DOMAIN value.members
             /\ \A k \in DOMAIN schema.properties :
                  \A name \in DOMAIN schema.properties[k] \cap DOMAIN value.members :
                    Admits(schema.properties[k][name], value.members[name])
        /\ value.kind = "array" =>
             /\ \A k \in DOMAIN schema.minItems : Len(value.elements) >= schema.minItems[k]
             /\ \A k \in DOMAIN schema.items : \A e \in DOMAIN value.elements :
                  Admits(schema.items[k], value.elements[e])
        /\ schema.anyOf # <<>> => admitting(schema.anyOf) # {}
        /\ schema.oneOf # <<>> => Cardinality(admitting(schema.oneOf)) = 1

RECURSIVE Parts(_)
Parts(schema) ==
  LET all(list) == UNION {Parts(list[k]) : k \in DOMAIN list}
  IN {schema} \cup all(schema.items) \cup all(schema.anyOf) \cup all(schema.oneOf)
       \cup UNION {UNION {Parts(schema.properties[k][name]) : name \in DOMAIN schema.properties[k]} :
                     k \in DOMAIN schema.properties}

(* A schema that a Gemini schema can express: every part names one type    *)
(* besides null, or alternatives of which no value meets two; enumerates   *)
(* strings, and null when it allows it.                                    *)
Expressible(schema, values) ==
  \A part \in Parts(schema) :
    LET types == {part.types[k] : k \in DOMAIN part.types}
    IN /\ part.map
       /\ part.type # "" \/ Cardinality(types \ {"null"}) = 1 \/ part.anyOf \o part.oneOf # <<>>
       /\ Cardinality(types \ {"null"}) <= 1
       /\ types = {} \/ (part.type = "" /\ part.nullable = <<>>)
       /\ \A k \in DOMAIN part.enum : part.enum[k].kind \in {"string", "null"}
       /\ part.enum # <<>> =>
            ("null" \in types <=> \E k \in DOMAIN part.enum : part.enum[k].kind = "null")
       /\ part.anyOf = <<>> \/ part.oneOf = <<>>
       /\ \A value \in values : Cardinality({k \in DOMAIN part.oneOf : Admits(part.oneOf[k], value)}) <= 1
=============================================================================
