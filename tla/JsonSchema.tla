----------------------------- MODULE JsonSchema -----------------------------
(***************************************************************************)
(* The schemas of schema.h: a document compiled, its references resolved,  *)
(* and the validator that hears the events of a value and has to know at   *)
(* the end what JsonSchemaRules says of the whole. A schema is known by    *)
(* its place in the document. Hashes are what they are computed from.      *)
(***************************************************************************)
EXTENDS JsonSchemaRules, TLC

CONSTANTS
  Cases,      \* documents with the events to validate by them
  MaxInt64    \* integers above are unsigned ones only

VARIABLES
  case, compiled, validator,
  open, root, heard   \* the containers being read, what was read, how many events

vars == <<case, compiled, validator, open, root, heard>>

Typeless == "typeless"
NoSlot == "no slot"

-----------------------------------------------------------------------------
(* GenericSchemaDocument: b holds the map of the schemas made, the         *)
(* references still to resolve and, by place, what the fields of the       *)
(* schemas point to.                                                       *)

Branches(o, keyword) == IF Has(o, keyword) THEN o[keyword] ELSE <<>>
One(o, keyword) == IF Has(o, keyword) THEN <<o[keyword]>> ELSE <<>>
PlacesOf(entries) == [k \in DOMAIN entries |-> entries[k].at]
DependencySchemas(o) ==
    PlacesOf(SelectSeq(Branches(o, "dependencies"), LAMBDA e : e.on = "schema"))

\* The schemas whose validators run beside that of o itself.
Parallels(o) ==
    Branches(o, "allOf") \o Branches(o, "anyOf") \o Branches(o, "oneOf")
    \o One(o, "not") \o DependencySchemas(o)

\* The schemas that the constructor of a schema makes, in its order.
SubSchemas(o) ==
    Branches(o, "allOf") \o Branches(o, "anyOf") \o Branches(o, "oneOf") \o One(o, "not")
    \o PlacesOf(Branches(o, "properties")) \o PlacesOf(Branches(o, "patternProperties"))
    \o DependencySchemas(o) \o One(o, "additionalPropertiesSchema") \o One(o, "items")
    \o Branches(o, "tuple") \o One(o, "additionalItemsSchema")

GetSchema(b, place) ==
    LET found == SelectSeq(b.map, LAMBDA entry : entry.pointer = place)
    IN  IF found = <<>> THEN Nowhere ELSE Head(found).schema

Entry(place, s, owned) == [pointer |-> place, schema |-> s, owned |-> owned]
SetSlot(b, slot, s) == IF slot = NoSlot THEN b ELSE [b EXCEPT !.slots = (slot :> s) @@ @]

\* Mutation of HandleRefSchema: a reference to a reference is left at that one.
HandleRefSchemaOnce(d, b, source, slot, o) ==
    [b EXCEPT !.refs = Append(@, [source |-> source, target |-> o["$ref"], slot |-> slot])]

\* A reference to a reference leads where that one leads, whatever the place of
\* the first; the resolution is left to Resolve.
RECURSIVE HandleRefSchema(_, _, _, _, _)
HandleRefSchema(d, b, source, slot, o) ==
    LET target == o["$ref"]
    IN  IF target \in DOMAIN d /\ Has(d[target], "$ref")
        THEN HandleRefSchema(d, b, source, slot, d[target])
        ELSE [b EXCEPT !.refs = Append(@, [source |-> source, target |-> target, slot |-> slot])]

RECURSIVE CreateSchema(_, _, _, _)
CreateSchema(d, b, place, slot) ==
    LET made == FoldLeft(LAMBDA c, sub : CreateSchema(d, c, sub, sub), b, SubSchemas(d[place]))
        entered == [made EXCEPT !.map = Append(@, Entry(place, place, TRUE))]
    IN  IF Has(d[place], "$ref") THEN HandleRefSchema(d, b, place, slot, d[place])
        ELSE SetSlot(entered, slot, place)

\* Every object of the document, those no keyword leads to included.
RECURSIVE CreateSchemaRecursive(_, _, _, _)
CreateSchemaRecursive(d, b, place, slot) ==
    LET begun == SetSlot(b, slot, Typeless)
        made == IF GetSchema(begun, place) = Nowhere THEN CreateSchema(d, begun, place, slot)
                ELSE begun
    IN  FoldLeft(LAMBDA c, sub : CreateSchemaRecursive(d, c, sub, NoSlot), made,
                 SubSchemas(d[place]) \o Branches(d[place], "definitions"))

\* The last reference first; what leads nowhere permits everything.
Resolved(b, ref) ==
    LET s == GetSchema(b, ref.target)
        entered == IF GetSchema(b, ref.source) # Nowhere THEN b
                   ELSE [b EXCEPT !.map = Append(@, Entry(ref.source, s, FALSE))]
    IN  IF s = Nowhere THEN SetSlot(b, ref.slot, Typeless) ELSE SetSlot(entered, ref.slot, s)

Compile(d) ==
    LET b == CreateSchemaRecursive(d, [map |-> <<>>, refs |-> <<>>, slots |-> <<>>], "#", "#")
    IN  [FoldRight(LAMBDA ref, c : Resolved(c, ref), b.refs, b) EXCEPT !.refs = <<>>]

-----------------------------------------------------------------------------
(* Hasher: a stack of the hashes of what is complete. That of an object is *)
(* an exclusive or, which the order of the members does not change.        *)

Xor(set, e) == IF e \in set THEN set \ {e} ELSE set \cup {e}

HashedText(text) == [string |-> text]
HashedScalar(v) ==
    CASE v.type = "null" -> [null |-> 0]
      [] v.type = "number" -> [number |-> v.halves]
      [] v.type = "string" -> HashedText(v.text)

Hashed(stack, e) ==
    LET Popped(n) == SubSeq(stack, 1, Len(stack) - n)
        Top(n) == SubSeq(stack, Len(stack) - n + 1, Len(stack))
        Pairs(kv) == [k \in 1 .. Len(kv) \div 2 |-> <<kv[2 * k - 1], kv[2 * k]>>]
    IN  CASE e.name = "value" -> Append(stack, HashedScalar(e.value))
          [] e.name = "key" -> Append(stack, HashedText(e.text))
          [] e.name = "endArray" -> Append(Popped(e.count), [array |-> Top(e.count)])
          [] e.name = "endObject" ->
               Append(Popped(2 * e.count), [object |-> FoldLeft(Xor, {}, Pairs(Top(2 * e.count)))])
          [] OTHER -> stack

\* The hash of a value of an enumeration, which is heard too.
RECURSIVE HashOf(_)
HashOf(v) ==
    CASE v.type = "array" -> [array |-> [k \in DOMAIN v.elements |-> HashOf(v.elements[k])]]
      [] v.type = "object" ->
           [object |-> FoldLeft(Xor, {}, [k \in DOMAIN v.members |->
               <<HashedText(v.members[k].name), HashOf(v.members[k].value)>>])]
      [] OTHER -> HashedScalar(v)

-----------------------------------------------------------------------------
(* The contexts of a validator, one for each value begun and not ended.    *)

Context(s) ==
    [schema |-> s, valueSchema |-> Nowhere, keyword |-> "none",
     hashing |-> FALSE, hasher |-> <<>>, hashes |-> <<>>,
     validators |-> <<>>, patternValidators |-> <<>>, patternSchemas |-> <<>>,
     valueType |-> "only", objectType |-> "only", index |-> 0, exist |-> {},
     inArray |-> FALSE, valueUnique |-> FALSE, arrayUnique |-> FALSE]

Validator(s, path) == [root |-> s, path |-> path, stack |-> <<>>, valid |-> TRUE]

Current(v) == Last(v.stack)
WithCurrent(v, c) == [v EXCEPT !.stack[Len(v.stack)] = c]
Invalid(v, keyword) ==
    [v EXCEPT !.valid = FALSE, !.stack[Len(v.stack)].keyword = keyword]

\* The schema of a context; the typeless one has no keyword.
SchemaOf(k, c) == IF c.schema = Typeless THEN <<>> ELSE k.document[c.schema]
Slot(k, place) == k.slots[place]

-----------------------------------------------------------------------------
(* Schema: what it asks of a value at its beginning.                       *)

Types(o) ==
    IF ~Has(o, "type") THEN {"null", "number", "integer", "string", "array", "object"}
    ELSE o.type \cup (IF "number" \in o.type THEN {"integer"} ELSE {})

IsInt64(n) == n.kind # "double" /\ n.halves <= 2 * MaxInt64
IsUint64(n) == n.kind # "double" /\ n.halves >= 0

BelowMinimum(o, x) ==
    CASE x.kind = "int" /\ IsUint64(o.minimum) /\ ~IsInt64(o.minimum) -> TRUE
      [] x.kind = "uint" /\ IsInt64(o.minimum) /\ ~IsUint64(o.minimum) -> FALSE
      [] OTHER -> IF Has(o, "exclusiveMinimum") THEN x.halves <= o.minimum.halves
                  ELSE x.halves < o.minimum.halves

AboveMaximum(o, x) ==
    CASE x.kind = "int" /\ IsUint64(o.maximum) /\ ~IsInt64(o.maximum) -> FALSE
      [] x.kind = "uint" /\ IsInt64(o.maximum) /\ ~IsUint64(o.maximum) -> TRUE
      [] OTHER -> IF Has(o, "exclusiveMaximum") THEN x.halves >= o.maximum.halves
                  ELSE x.halves > o.maximum.halves

NotMultipleOf(o, x) ==
    (IF x.halves < 0 THEN -x.halves ELSE x.halves) % o.multipleOf.halves # 0

NumberFault(o, x) ==
    CASE Types(o) \cap (IF x.kind = "double" THEN {"number"} ELSE {"number", "integer"}) = {} ->
           "type"
      [] Has(o, "minimum") /\ BelowMinimum(o, x) -> "minimum"
      [] Has(o, "maximum") /\ AboveMaximum(o, x) -> "maximum"
      [] Has(o, "multipleOf") /\ NotMultipleOf(o, x) -> "multipleOf"
      [] OTHER -> "none"

StringFault(o, text) ==
    CASE "string" \notin Types(o) -> "type"
      [] Has(o, "minLength") /\ Length[text] < o.minLength -> "minLength"
      [] Has(o, "maxLength") /\ Length[text] > o.maxLength -> "maxLength"
      [] Has(o, "pattern") /\ text \notin Matching[o.pattern] -> "pattern"
      [] OTHER -> "none"

BeginFault(o, e) ==
    CASE e.name = "value" /\ e.value.type = "number" -> NumberFault(o, e.value)
      [] e.name = "value" /\ e.value.type = "string" -> StringFault(o, e.value.text)
      [] e.name = "value" /\ e.value.type = "null" /\ "null" \notin Types(o) -> "type"
      [] e.name = "startObject" /\ "object" \notin Types(o) -> "type"
      [] e.name = "startArray" /\ "array" \notin Types(o) -> "type"
      [] OTHER -> "none"

CreateParallelValidator(k, v) ==
    LET c == Current(v)
        o == SchemaOf(k, c)
        beside == [j \in DOMAIN Parallels(o) |-> Validator(Slot(k, Parallels(o)[j]), v.path)]
    IN  WithCurrent(v, [c EXCEPT !.hashing = Has(o, "enum") \/ c.arrayUnique,
                                 !.validators = beside])

\* Null to String, StartObject and StartArray.
Begun(k, v, e) ==
    LET c == Current(v)
        fault == BeginFault(SchemaOf(k, c), e)
        array == WithCurrent(v, [c EXCEPT !.index = 0, !.inArray = TRUE])
    IN  CASE fault # "none" -> Invalid(v, fault)
          [] fault = "none" /\ e.name = "startArray" -> CreateParallelValidator(k, array)
          [] OTHER -> CreateParallelValidator(k, v)

\* The schema of the next element; Nowhere for one too many.
ElementSchema(k, c) ==
    LET o == SchemaOf(k, c)
    IN  CASE Has(o, "items") -> Slot(k, o.items)
          [] Has(o, "tuple") /\ c.index < Len(o.tuple) -> Slot(k, o.tuple[c.index + 1])
          [] Has(o, "tuple") /\ c.index >= Len(o.tuple) /\ Has(o, "additionalItemsSchema") ->
               Slot(k, o.additionalItemsSchema)
          [] Has(o, "tuple") /\ c.index >= Len(o.tuple)
             /\ Has(o, "additionalItems") /\ ~o.additionalItems -> Nowhere
          [] OTHER -> Typeless

\* The schema's part for an element, then the context of the value that begins,
\* with the validators of the patterns that its name matches.
BeginElement(k, c) ==
    IF ~c.inArray THEN c
    ELSE [c EXCEPT !.valueUnique = @ \/ Has(SchemaOf(k, c), "uniqueItems"),
                   !.valueSchema = ElementSchema(k, c), !.index = @ + 1]

BeginValue(k, v) ==
    LET c == Current(v)
        at == IF c.inArray THEN Append(v.path, [element |-> c.index]) ELSE v.path
        d == BeginElement(k, c)
        patterns == [j \in DOMAIN d.patternSchemas |-> Validator(d.patternSchemas[j], at)]
        next == [Context(d.valueSchema) EXCEPT
                   !.objectType = IF patterns = <<>> THEN @ ELSE d.valueType,
                   !.patternValidators = patterns, !.arrayUnique = d.valueUnique]
    IN  CASE v.stack = <<>> -> [v EXCEPT !.stack = <<Context(v.root)>>]
          [] v.stack # <<>> /\ d.valueSchema = Nowhere ->
               Invalid([v EXCEPT !.path = at], "items")
          [] OTHER -> [v EXCEPT !.path = at, !.stack = Append(Front(@) \o <<d>>, next)]

-----------------------------------------------------------------------------
(* Schema: names, and what it asks at the end of a value.                  *)

\* Names that are listed, required or depended on.
AllProperties(o) ==
    (IF Has(o, "properties") THEN Listed(o) ELSE {}) \cup Requires(o) \cup DependsOn(o)

\* The schema of a property, typeless unless it is listed.
PropertySchema(k, o, name) ==
    LET at == {e.at : e \in {e \in ToSet(Branches(o, "properties")) : e.name = name}}
    IN  IF at = {} THEN Typeless ELSE Slot(k, CHOOSE place \in at : TRUE)

Permits(o) == ~Has(o, "additionalProperties") \/ o.additionalProperties

KeyFound(k, c, name) ==
    LET o == SchemaOf(k, c)
        Matches(e) == name \in Matching[e.pattern]
        patterns == SelectSeq(Branches(o, "patternProperties"), Matches)
        matched == [j \in DOMAIN patterns |-> Slot(k, patterns[j].at)]
        d == [c EXCEPT !.patternSchemas = matched,
                       !.valueSchema = IF matched = <<>> THEN @ ELSE Typeless]
        known == name \in AllProperties(o)
        s == IF known THEN PropertySchema(k, o, name)
             ELSE IF Has(o, "additionalPropertiesSchema")
                  THEN Slot(k, o.additionalPropertiesSchema) ELSE Typeless
        e == [d EXCEPT !.exist = IF known THEN @ \cup {name} ELSE @]
    IN  CASE ~known /\ ~Has(o, "additionalPropertiesSchema") ->
               IF Permits(o) THEN [e EXCEPT !.valueSchema = Typeless] ELSE e
          [] (known \/ Has(o, "additionalPropertiesSchema")) /\ matched # <<>> ->
               [e EXCEPT !.patternSchemas = Append(matched, s), !.valueSchema = Typeless,
                         !.valueType = IF known THEN "property" ELSE "additional"]
          [] OTHER -> [e EXCEPT !.valueSchema = s]

Key(k, v, name) ==
    LET o == SchemaOf(k, Current(v))
        c == KeyFound(k, Current(v), name)
        named == WithCurrent([v EXCEPT !.path = Append(@, [member |-> name])], c)
    IN  IF /\ name \notin AllProperties(o) /\ ~Has(o, "additionalPropertiesSchema")
           /\ ~Permits(o) /\ c.patternSchemas = <<>>
        THEN Invalid(named, "additionalProperties") ELSE named

Missing(k, o, c) ==
    {name \in Requires(o) \ c.exist :
       LET s == PropertySchema(k, o, name) IN s = Typeless \/ ~Has(k.document[s], "default")}

\* Names or a schema that a name depends on, its validator the last but some.
Undependable(o, c) ==
    \E j \in DOMAIN Branches(o, "dependencies") :
      LET e == o.dependencies[j]
          later == Len(SelectSeq(SubSeq(o.dependencies, j + 1, Len(o.dependencies)),
                                 LAMBDA f : f.on = "schema"))
      IN  /\ e.name \in c.exist
          /\ IF e.on = "names" THEN ~(ToSet(e.names) \subseteq c.exist)
             ELSE ~c.validators[Len(c.validators) - later].valid

EndObjectFault(k, c, count) ==
    LET o == SchemaOf(k, c)
    IN  CASE Missing(k, o, c) # {} -> "required"
          [] Has(o, "minProperties") /\ count < o.minProperties -> "minProperties"
          [] Has(o, "maxProperties") /\ count > o.maxProperties -> "maxProperties"
          [] Undependable(o, c) -> "dependencies"
          [] OTHER -> "none"

EndArrayFault(o, count) ==
    CASE Has(o, "minItems") /\ count < o.minItems -> "minItems"
      [] Has(o, "maxItems") /\ count > o.maxItems -> "maxItems"
      [] OTHER -> "none"

\* Which validators of the patterns have to agree: all of them, and that of the
\* property too; that of additional properties or all of the others.
PatternFault(c) ==
    LET valid(n) == \A j \in 1 .. n : c.patternValidators[j].valid
        last == Len(c.patternValidators)
    IN  CASE c.patternValidators = <<>> -> FALSE
          [] c.patternValidators # <<>> /\ c.objectType = "additional" ->
               ~valid(last - 1) /\ ~c.patternValidators[last].valid
          [] OTHER -> ~valid(last)

\* The validators of allOf, anyOf and oneOf lie one after the other.
EndFault(k, c) ==
    LET o == SchemaOf(k, c)
        all == Len(Branches(o, "allOf"))
        any == all + Len(Branches(o, "anyOf"))
        one == any + Len(Branches(o, "oneOf"))
        valid(first, last) == {j \in first .. last : c.validators[j].valid}
    IN  CASE PatternFault(c) -> "patternProperties"
          [] Has(o, "enum") /\ Last(c.hasher) \notin {HashOf(w) : w \in o.enum} -> "enum"
          [] Has(o, "allOf") /\ valid(1, all) # 1 .. all -> "allOf"
          [] Has(o, "anyOf") /\ valid(all + 1, any) = {} -> "anyOf"
          [] Has(o, "oneOf") /\ Cardinality(valid(any + 1, one)) # 1 -> "oneOf"
          [] Has(o, "not") /\ c.validators[one + 1].valid -> "not"
          [] OTHER -> "none"

\* The context goes; an array that wants its elements unique keeps the hash.
EndValue(k, v) ==
    LET c == Current(v)
        fault == EndFault(k, c)
        outer == [v EXCEPT !.stack = Front(@)]
        array == Current(outer)
        ended == [outer EXCEPT !.path = IF @ = <<>> THEN @ ELSE Front(@)]
    IN  CASE fault # "none" -> Invalid(v, fault)
          [] fault = "none" /\ (outer.stack = <<>> \/ ~array.valueUnique) -> ended
          [] fault = "none" /\ outer.stack # <<>> /\ array.valueUnique ->
               IF Last(c.hasher) \in ToSet(array.hashes) THEN Invalid(outer, "uniqueItems")
               ELSE WithCurrent(ended, [array EXCEPT !.hashes = Append(@, Last(c.hasher))])

-----------------------------------------------------------------------------
(* GenericSchemaValidator: an event, heard by the schema of the innermost  *)
(* value and by all that runs beside it or around it.                      *)

RECURSIVE Hear(_, _, _)
Parallel(k, v, e) ==
    LET Heard(validators) == [j \in DOMAIN validators |-> Hear(k, validators[j], e)]
        Beside(c) ==
            [c EXCEPT !.hasher = IF c.hashing THEN Hashed(@, e) ELSE @,
                      !.validators = Heard(@), !.patternValidators = Heard(@)]
    IN  [v EXCEPT !.stack = [j \in DOMAIN v.stack |-> Beside(v.stack[j])]]

Hear(k, v, e) ==
    LET begun == BeginValue(k, v)
        asked == IF begun.valid THEN Begun(k, begun, e) ELSE begun
        named == Key(k, v, e.text)
        around == Parallel(k, v, e)
        array == WithCurrent(around, [Current(around) EXCEPT !.inArray = FALSE])
        Ended(w, fault) == IF fault # "none" THEN Invalid(w, fault) ELSE EndValue(k, w)
    IN  CASE ~v.valid -> v
          [] v.valid /\ e.name = "value" ->
               IF asked.valid THEN EndValue(k, Parallel(k, asked, e)) ELSE asked
          [] v.valid /\ e.name \in {"startObject", "startArray"} ->
               IF asked.valid THEN Parallel(k, asked, e) ELSE asked
          [] v.valid /\ e.name = "key" -> IF named.valid THEN Parallel(k, named, e) ELSE named
          [] v.valid /\ e.name = "endObject" ->
               Ended(around, EndObjectFault(k, Current(around), e.count))
          [] v.valid /\ e.name = "endArray" ->
               Ended(array, EndArrayFault(SchemaOf(k, Current(array)), e.count))

-----------------------------------------------------------------------------
(* A value is read, event by event, and heard by the validator. What the   *)
(* reader has read so far is kept, after the validator refused it too.     *)

Nameless == "nameless"
Frame(type) ==
    [value |-> IF type = "array" THEN [type |-> type, elements |-> <<>>]
               ELSE [type |-> type, members |-> <<>>],
     name |-> Nameless]

Filled(f, x) ==
    IF f.value.type = "array" THEN [f EXCEPT !.value.elements = Append(@, x)]
    ELSE [f EXCEPT !.value.members = Append(@, [name |-> f.name, value |-> x]),
                   !.name = Nameless]

ValueExpected ==
    /\ root = <<>>
    /\ open # <<>> => Last(open).value.type = "array" \/ Last(open).name # Nameless

\* The case bounds the events of a value, those that end containers included.
Delivered(e, containers) ==
    /\ heard + 1 + containers <= case.longest
    /\ heard' = heard + 1
    /\ validator' = Hear(compiled, validator, e)
    /\ UNCHANGED <<case, compiled>>

\* A value that is complete: the root, or inside the innermost of the outer containers.
Complete(outer, x) ==
    IF outer = <<>> THEN root' = <<x>> /\ open' = <<>>
    ELSE open' = Front(outer) \o <<Filled(Last(outer), x)>> /\ UNCHANGED root

Scalar ==
    /\ ValueExpected
    /\ \E x \in case.scalars :
          Delivered([name |-> "value", value |-> x], Len(open)) /\ Complete(open, x)

Start ==
    /\ ValueExpected
    /\ \E type \in case.containers :
         /\ Delivered([name |-> IF type = "array" THEN "startArray" ELSE "startObject"],
                      Len(open) + 1)
         /\ open' = Append(open, Frame(type))
    /\ UNCHANGED root

Name ==
    /\ open # <<>> /\ Last(open).value.type = "object" /\ Last(open).name = Nameless
    /\ \E name \in case.names :
         /\ Delivered([name |-> "key", text |-> name], Len(open) + 1)
         /\ open' = [open EXCEPT ![Len(open)].name = name]
    /\ UNCHANGED root

End ==
    LET f == Last(open)
        array == f.value.type = "array"
        count == IF array THEN Len(f.value.elements) ELSE Len(f.value.members)
    IN  /\ open # <<>> /\ f.name = Nameless
        /\ Delivered([name |-> IF array THEN "endArray" ELSE "endObject", count |-> count],
                     Len(open) - 1)
        /\ Complete(Front(open), f.value)

Init ==
    /\ case \in Cases
    /\ LET b == Compile(case.document)
       IN  compiled = [document |-> case.document, map |-> b.map, slots |-> b.slots]
    /\ validator = Validator(compiled.slots["#"], <<>>)
    /\ open = <<>> /\ root = <<>> /\ heard = 0

Next == Scalar \/ Start \/ Name \/ End

Spec == Init /\ [][Next]_vars

-----------------------------------------------------------------------------
(* Properties.                                                             *)

\* Every field that holds a schema holds the one its references lead to, or the
\* one that permits everything; the map owns each schema once and knows no other.
ReferencesResolved ==
    /\ \A place \in DOMAIN compiled.slots :
         LET end == Final(case.document, place)
         IN  compiled.slots[place] = IF end = Nowhere THEN Typeless ELSE end
    /\ LET owned == SelectSeq(compiled.map, LAMBDA entry : entry.owned)
       IN  /\ Cardinality({entry.pointer : entry \in ToSet(owned)}) = Len(owned)
           /\ \A entry \in ToSet(compiled.map) :
                \E owner \in ToSet(owned) : owner.schema = entry.schema

\* The value that a path leads to.
RECURSIVE ValueAt(_, _)
ValueAt(v, path) ==
    CASE path = <<>> -> v
      [] path # <<>> /\ v.type = "array" -> ValueAt(v.elements[Head(path).element + 1], Tail(path))
      [] path # <<>> /\ v.type = "object" ->
           ValueAt((CHOOSE m \in ToSet(v.members) : m.name = Head(path).member).value, Tail(path))

\* What the validator found wrong is wrong: the keyword of the schema it names,
\* of the value it names or, for elements and members that should not be, of the
\* container. (A pattern's keyword is reported for the typeless schema.)
ReportIsTrue ==
    LET c == Current(validator)
        Broken(path) == Violated(case.document, c.schema, ValueAt(root[1], path))
        around == Front(validator.path)
    IN  CASE c.keyword = "patternProperties" -> TRUE
          [] c.keyword = "items" -> "additionalItems" \in Broken(around)
          [] c.keyword \in {"additionalProperties", "uniqueItems"} -> c.keyword \in Broken(around)
          [] OTHER -> c.keyword \in Broken(validator.path)

Comparable == root # <<>> /\ NamesDiffer(root[1])
Peculiarly == \E place \in DOMAIN case.document : Peculiar(case.document, place)
Uses(keyword) == \E place \in DOMAIN case.document : Has(case.document[place], keyword)

\* A validator that heard a value event by event knows whether the value as a
\* whole conforms to the schema, and if not, names something that does not
\* (GenericSchemaValidator::IsValid, GetInvalidSchemaKeyword). Where rapidjson
\* differs from the draft it permits more.
ValidatorAgrees ==
    /\ ReferencesResolved
    /\ Comparable /\ ~Peculiarly /\ validator.valid => Satisfies(case.document, "#", root[1])
    /\ Comparable /\ ~(Peculiarly /\ (Uses("not") \/ Uses("oneOf"))) /\ ~validator.valid =>
         ~Satisfies(case.document, "#", root[1]) /\ ReportIsTrue
=============================================================================
