-------------------------- MODULE JsonSchemaRules --------------------------
(***************************************************************************)
(* What a JSON schema (draft 4) demands of a value, the value as a whole.  *)
(* A schema document is a function from places to schemas, the place "#"   *)
(* being the root; a schema is a function from its keywords to what they   *)
(* say, or refers to another place. JsonSchema checks the same while the   *)
(* value is being read.                                                    *)
(***************************************************************************)
EXTENDS Integers, Sequences, SequencesExt, FiniteSetsExt

CONSTANTS
  Length,     \* the code points of each string
  Matching    \* the strings that each regular expression finds something in

Has(o, keyword) == keyword \in DOMAIN o
Nowhere == "nowhere"

\* The place that a place stands for. References do not lead back to themselves.
RECURSIVE Final(_, _)
Final(d, p) ==
    CASE p \notin DOMAIN d -> Nowhere
      [] p \in DOMAIN d /\ Has(d[p], "$ref") -> Final(d, d[p]["$ref"])
      [] OTHER -> p

Names(v) == {v.members[k].name : k \in DOMAIN v.members}
MembersNamed(v, names) == {k \in DOMAIN v.members : v.members[k].name \in names}

RECURSIVE Equal(_, _)
Equal(v, w) ==
    /\ v.type = w.type
    /\ CASE v.type = "null" -> TRUE
         [] v.type = "number" -> v.halves = w.halves
         [] v.type = "string" -> v.text = w.text
         [] v.type = "array" ->
              /\ Len(v.elements) = Len(w.elements)
              /\ \A k \in DOMAIN v.elements : Equal(v.elements[k], w.elements[k])
         [] v.type = "object" ->
              /\ Len(v.members) = Len(w.members)
              /\ \A k \in DOMAIN v.members : \E j \in DOMAIN w.members :
                   /\ v.members[k].name = w.members[j].name
                   /\ Equal(v.members[k].value, w.members[j].value)

\* No object has two members of a name.
RECURSIVE NamesDiffer(_)
NamesDiffer(v) ==
    CASE v.type = "array" -> \A k \in DOMAIN v.elements : NamesDiffer(v.elements[k])
      [] v.type = "object" -> /\ Cardinality(Names(v)) = Len(v.members)
                              /\ \A k \in DOMAIN v.members : NamesDiffer(v.members[k].value)
      [] OTHER -> TRUE

TypesOf(v) ==
    CASE v.type = "number" /\ v.kind # "double" -> {"number", "integer"}
      [] OTHER -> {v.type}

Listed(o) == {o.properties[k].name : k \in DOMAIN o.properties}
Matched(o, name) ==
    {k \in DOMAIN o.patternProperties : name \in Matching[o.patternProperties[k].pattern]}
Additional(o, name) ==
    /\ ~(Has(o, "properties") /\ name \in Listed(o))
    /\ ~(Has(o, "patternProperties") /\ Matched(o, name) # {})

\* The keywords of the schema at a place that a value does not conform to.
RECURSIVE Violated(_, _, _)
Satisfies(d, p, v) == Violated(d, p, v) = {}

ViolatedByAll(d, o, v) ==
    LET valid(places) == {k \in DOMAIN places : Satisfies(d, places[k], v)}
        Broken(keyword) ==
            CASE keyword = "type" -> TypesOf(v) \cap o.type = {}
              [] keyword = "enum" -> ~\E w \in o.enum : Equal(v, w)
              [] keyword = "allOf" -> valid(o.allOf) # DOMAIN o.allOf
              [] keyword = "anyOf" -> valid(o.anyOf) = {}
              [] keyword = "oneOf" -> Cardinality(valid(o.oneOf)) # 1
              [] keyword = "not" -> Satisfies(d, o.not, v)
              [] OTHER -> FALSE
    IN  {keyword \in DOMAIN o : Broken(keyword)}

ViolatedByNumber(o, v) ==
    LET Broken(keyword) ==
            CASE keyword = "minimum" -> IF Has(o, "exclusiveMinimum") THEN v.halves <= o.minimum.halves
                                        ELSE v.halves < o.minimum.halves
              [] keyword = "maximum" -> IF Has(o, "exclusiveMaximum") THEN v.halves >= o.maximum.halves
                                        ELSE v.halves > o.maximum.halves
              [] keyword = "multipleOf" -> v.halves % o.multipleOf.halves # 0
              [] OTHER -> FALSE
    IN  {keyword \in DOMAIN o : Broken(keyword)}

ViolatedByString(o, v) ==
    LET Broken(keyword) ==
            CASE keyword = "minLength" -> Length[v.text] < o.minLength
              [] keyword = "maxLength" -> Length[v.text] > o.maxLength
              [] keyword = "pattern" -> v.text \notin Matching[o.pattern]
              [] OTHER -> FALSE
    IN  {keyword \in DOMAIN o : Broken(keyword)}

ViolatedByArray(d, o, v) ==
    LET n == Len(v.elements)
        beyond == {k \in DOMAIN v.elements : Has(o, "tuple") /\ k > Len(o.tuple)}
        Broken(keyword) ==
            CASE keyword = "minItems" -> n < o.minItems
              [] keyword = "maxItems" -> n > o.maxItems
              [] keyword = "uniqueItems" ->
                   \E j, k \in DOMAIN v.elements : j < k /\ Equal(v.elements[j], v.elements[k])
              [] keyword = "items" -> \E k \in DOMAIN v.elements : ~Satisfies(d, o.items, v.elements[k])
              [] keyword = "tuple" -> \E k \in DOMAIN v.elements \ beyond :
                                         ~Satisfies(d, o.tuple[k], v.elements[k])
              [] keyword = "additionalItems" -> beyond # {} /\ ~o.additionalItems
              [] keyword = "additionalItemsSchema" ->
                   \E k \in beyond : ~Satisfies(d, o.additionalItemsSchema, v.elements[k])
              [] OTHER -> FALSE
    IN  {keyword \in DOMAIN o : Broken(keyword)}

ViolatedByObject(d, o, v) ==
    LET Wrong(k, p) == ~Satisfies(d, p, v.members[k].value)
        additional == {k \in DOMAIN v.members : Additional(o, v.members[k].name)}
        Depends(e) ==
            e.name \in Names(v) =>
                IF e.on = "names" THEN ToSet(e.names) \subseteq Names(v) ELSE Satisfies(d, e.at, v)
        Broken(keyword) ==
            CASE keyword = "required" -> ~(ToSet(o.required) \subseteq Names(v))
              [] keyword = "minProperties" -> Len(v.members) < o.minProperties
              [] keyword = "maxProperties" -> Len(v.members) > o.maxProperties
              [] keyword = "dependencies" -> \E e \in ToSet(o.dependencies) : ~Depends(e)
              [] keyword = "properties" ->
                   \E e \in ToSet(o.properties), k \in DOMAIN v.members :
                      v.members[k].name = e.name /\ Wrong(k, e.at)
              [] keyword = "patternProperties" ->
                   \E k \in DOMAIN v.members : \E e \in Matched(o, v.members[k].name) :
                      Wrong(k, o.patternProperties[e].at)
              [] keyword = "additionalProperties" -> ~o.additionalProperties /\ additional # {}
              [] keyword = "additionalPropertiesSchema" ->
                   \E k \in additional : Wrong(k, o.additionalPropertiesSchema)
              [] OTHER -> FALSE
    IN  {keyword \in DOMAIN o : Broken(keyword)}

Violated(d, p, v) ==
    LET o == d[Final(d, p)]
    IN  IF Final(d, p) = Nowhere THEN {}
        ELSE ViolatedByAll(d, o, v) \cup
             CASE v.type = "number" -> ViolatedByNumber(o, v)
               [] v.type = "string" -> ViolatedByString(o, v)
               [] v.type = "array" -> ViolatedByArray(d, o, v)
               [] v.type = "object" -> ViolatedByObject(d, o, v)
               [] OTHER -> {}

-----------------------------------------------------------------------------
(* Where rapidjson differs from the draft: a required member need not be   *)
(* there if its schema has a default; a name that is only required, or     *)
(* named by a dependency, is no additional one; a member that matches a    *)
(* pattern and is not listed conforms to one of both schemas, the          *)
(* pattern's or the additional one.                                        *)

Requires(o) == IF Has(o, "required") THEN ToSet(o.required) ELSE {}
DependsOn(o) ==
    IF ~Has(o, "dependencies") THEN {}
    ELSE UNION {{e.name} \cup (IF e.on = "names" THEN ToSet(e.names) ELSE {}) :
                  e \in ToSet(o.dependencies)}
Peculiar(d, p) ==
    LET o == d[p]
        listed == IF Has(o, "properties") THEN Listed(o) ELSE {}
    IN  \/ \E e \in IF Has(o, "properties") THEN ToSet(o.properties) ELSE {} :
              /\ e.name \in Requires(o)
              /\ Final(d, e.at) # Nowhere /\ Has(d[Final(d, e.at)], "default")
        \/ /\ Has(o, "additionalProperties") \/ Has(o, "additionalPropertiesSchema")
           /\ ~(Requires(o) \cup DependsOn(o) \subseteq listed)
        \/ Has(o, "patternProperties") /\ Has(o, "additionalPropertiesSchema")
=============================================================================
