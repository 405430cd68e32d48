--------------------------- MODULE MCJsonDocument ---------------------------
(***************************************************************************)
(* Either a document and a value, in a few small blocks, and pointers into *)
(* them; or a value that is validated by one of the schemas below.         *)
(***************************************************************************)
EXTENDS JsonPointerValues

CONSTANT MaxPointerCalls   \* a bound: calls before pointers are used

VARIABLES topic, case, compiled, validator, open, root, heard

MCTexts == {"short", "long"}
MCShortTexts == {"short", "0", "1", "-"}

Token(name, index) == [name |-> name, index |-> index]
MCTokens == {Token("0", 0), Token("1", 1)}
            \cup {Token(name, InvalidIndex) : name \in {"long", "-"}}

-----------------------------------------------------------------------------
(* The schemas: of each kind of keyword, with references, nested.          *)

MCLength == "a" :> 1 @@ "b" :> 1 @@ "ab" :> 2
MCMatching == "^a" :> {"a", "ab"} @@ "b" :> {"b", "ab"}

Number(kind, halves) == [type |-> "number", kind |-> kind, halves |-> halves]
Text(text) == [type |-> "string", text |-> text]
Nothing == [type |-> "null"]
Unit == Number("uint", 2)
Half == Number("double", 3)
ArrayOf(elements) == [type |-> "array", elements |-> elements]
ObjectOf(members) == [type |-> "object", members |-> members]
Member(name, v) == [name |-> name, value |-> v]

Is(name, place) == [name |-> name, at |-> place]
Like(pattern, place) == [pattern |-> pattern, at |-> place]
Needs(name, names) == [name |-> name, on |-> "names", names |-> names]
Conforms(name, place) == [name |-> name, on |-> "schema", at |-> place]
Ref(place) == "$ref" :> place

\* Schemas that the root of a document uses, each at one place.
Leaves ==
    "p" :> [type |-> {"number"}] @@ "p2" :> [type |-> {"number"}]
    @@ "q" :> [minimum |-> Half]
    @@ "r" :> [type |-> {"string", "integer"}] @@ "r2" :> [type |-> {"string", "integer"}]
    @@ "t" :> [required |-> <<"b">>] @@ "t2" :> [required |-> <<"b">>]
    @@ "unique" :> [uniqueItems |-> TRUE]
    @@ "default" :> [type |-> {"string"}, default |-> Text("a")]
    @@ "s" :> Ref("next") @@ "next" :> Ref("last") @@ "last" :> [type |-> {"integer"}]
    @@ "h" :> Ref("holder") @@ "holder" :> [properties |-> <<Is("a", "s")>>]
    @@ "v" :> Ref("lost") @@ "x" :> Ref("v") @@ "w" :> Ref("#")

Case(schema, scalars, names, containers, longest) ==
    [document |-> "#" :> schema @@ Leaves, scalars |-> scalars, names |-> names,
     containers |-> containers, longest |-> longest]

Combining ==
    {[allOf |-> <<"p", "q">>], [anyOf |-> <<"q", "r">>], [oneOf |-> <<"p", "q">>],
     [not |-> "r"], [enum |-> {Half, Text("a")}],
     [allOf |-> <<"q">>, anyOf |-> <<"p", "r">>, oneOf |-> <<"r2", "p2">>, not |-> "t"]}
Objects ==
    {[properties |-> <<Is("a", "p"), Is("b", "q")>>, required |-> <<"b">>],
     [properties |-> <<Is("a", "p")>>, additionalProperties |-> FALSE],
     [properties |-> <<Is("a", "p")>>, additionalPropertiesSchema |-> "q"],
     [properties |-> <<Is("a", "p")>>, patternProperties |-> <<Like("^a", "r"), Like("b", "q")>>],
     [patternProperties |-> <<Like("^a", "r")>>, additionalProperties |-> FALSE],
     [patternProperties |-> <<Like("^a", "r")>>, additionalPropertiesSchema |-> "q"],
     [properties |-> <<Is("a", "p")>>, required |-> <<"a", "b">>, additionalProperties |-> FALSE],
     [properties |-> <<Is("a", "default")>>, required |-> <<"a">>],
     [dependencies |-> <<Needs("a", <<"b">>), Conforms("b", "t"), Conforms("ab", "p")>>],
     [not |-> "t", dependencies |-> <<Conforms("b", "q"), Needs("a", <<"b", "ab">>),
                                      Conforms("ab", "t2")>>],
     [enum |-> {ObjectOf(<<Member("a", Unit), Member("b", Half)>>)}]}
Arrays ==
    {[tuple |-> <<"p", "r">>, additionalItems |-> FALSE],
     [tuple |-> <<"p">>, additionalItemsSchema |-> "r"],
     [items |-> "unique", uniqueItems |-> TRUE],
     [items |-> "unique"],
     [tuple |-> <<"unique", "q">>, uniqueItems |-> TRUE],
     [allOf |-> <<"unique">>,
      enum |-> {ArrayOf(<<Unit, Half>>), ArrayOf(<<Unit, ArrayOf(<<Unit>>)>>)}]}
Referring ==
    {[properties |-> <<Is("a", "s"), Is("b", "w")>>, definitions |-> <<"next", "last">>],
     [properties |-> <<Is("a", "w"), Is("b", "x")>>, required |-> <<"b">>,
      definitions |-> <<"v">>],
     [properties |-> <<Is("a", "v"), Is("b", "p")>>, not |-> "s",
      definitions |-> <<"next", "last">>],
     [additionalPropertiesSchema |-> "s", definitions |-> <<"next", "last">>],
     [additionalPropertiesSchema |-> "h", definitions |-> <<"next", "last", "holder">>],
     Ref("next") @@ "definitions" :> <<"next", "last">>}
Counting ==
    {[minItems |-> 1, maxItems |-> 1, minProperties |-> 1, maxProperties |-> 1],
     [type |-> {"array"}, items |-> "r"]}

\* Integers on both sides of the largest signed one, and doubles.
Magnitudes ==
    {Number("int", n) : n \in {-2, 2}} \cup {Number("uint", n) : n \in {2, 4, 10}}
    \cup {Number("double", n) : n \in {-3, 2, 3}}
Limiting ==
    {[minimum |-> m] : m \in Magnitudes} \cup {[maximum |-> m] : m \in Magnitudes}
    \cup {[minimum |-> m, exclusiveMinimum |-> TRUE] : m \in Magnitudes}
    \cup {[maximum |-> m, exclusiveMaximum |-> TRUE] : m \in Magnitudes}
    \cup {[multipleOf |-> m] : m \in {n \in Magnitudes : n.halves > 0}}
    \cup {[type |-> {t}] : t \in {"number", "integer"}}
Spelling ==
    {[minLength |-> 2], [maxLength |-> 1], [pattern |-> "^a"],
     [type |-> {"null", "string"}, pattern |-> "b"], [type |-> {"object"}],
     [type |-> {"array", "null"}]}

Few == {Unit, Half, Text("a")}
Inner(schema) == [Case([items |-> "inner"], Few \cup {Nothing}, {}, {"array"}, 4)
                    EXCEPT !.document = "inner" :> schema @@ @]
MCCases ==
    {Inner(schema) : schema \in Combining}
    \cup {Case(schema, Few, {"a", "b", "ab"}, {"object"}, 8) : schema \in Objects}
    \cup {Case(schema, Few, {}, {"array"}, 8) : schema \in Arrays}
    \cup {Case(schema, {Unit, Text("a")}, {"a", "b"}, {"object"}, 8) : schema \in Referring}
    \cup {Case(schema, {Unit}, {"a", "b"}, {"array", "object"}, 7) : schema \in Counting}
    \cup {Case(schema, Magnitudes, {}, {"array"}, 2) : schema \in Limiting}
    \cup {Case(schema, {Text("a"), Text("ab"), Text("b"), Nothing}, {}, {"array", "object"}, 2) :
            schema \in Spelling}

Schemas == INSTANCE JsonSchema
    WITH Length <- MCLength, Matching <- MCMatching, Cases <- MCCases, MaxInt64 <- 3

-----------------------------------------------------------------------------

svars == <<case, compiled, validator, open, root, heard>>

MCInit ==
    \/ /\ topic = "values" /\ Init
       /\ case = <<>> /\ compiled = <<>> /\ validator = <<>>
       /\ open = <<>> /\ root = <<>> /\ heard = 0
    \/ topic = "schemas" /\ heap = <<>> /\ calls = 0 /\ Schemas!Init

\* The values that the first calls leave are left to pointers.
UsePointers ==
    /\ topic = "values" /\ calls < MaxPointerCalls
    /\ topic' = "pointers"
    /\ UNCHANGED <<vars, svars>>

MCNext ==
    \/ topic = "values" /\ Next /\ UNCHANGED <<topic, svars>>
    \/ topic = "schemas" /\ Schemas!Next /\ UNCHANGED <<topic, vars>>
    \/ UsePointers

MCSpec == MCInit /\ [][MCNext]_<<topic, vars, svars>>

-----------------------------------------------------------------------------

\* Every block of the heap belongs to one value (JsonDocument!Owned).
BlocksOwnedOnce == topic = "values" => OwnedOnce

\* Every call does to the values what it promises, and the values that are equal
\* are those that say the same (JsonDocument).
ValuesKeepPromises == topic = "values" => CallsKeepPromises /\ EqualityAgrees

\* In whatever values calls have left, pointers find, make and erase what they
\* name (JsonPointerValues).
PointersFindValues == [][topic' = "pointers" => PointersKeepPromises]_topic

\* Every schema decides about a value, while it is read, what the draft says of
\* the whole of it (JsonSchema).
ValuesAreValidated == topic = "schemas" => Schemas!ValidatorAgrees
=============================================================================
