----------------------------- MODULE JsonReader -----------------------------
(***************************************************************************)
(* GenericReader, the parser the configuration file is read with. It has   *)
(* three: the recursive one (the default, which the gateway uses), the     *)
(* iterative one with a table and a stack, and the one that is pulled      *)
(* token by token. They read the same text here, one lexeme per step, and  *)
(* a handler that may refuse an event listens. Writers take the events the *)
(* handler accepted. A lexeme is what the reader takes at once: a bracket, *)
(* a delimiter, a literal, a number, a string, one of these that is        *)
(* broken, a comment that is not closed, the end of the text.              *)
(***************************************************************************)
EXTENDS JsonWriter

CONSTANTS
  Lexemes,             \* the lexemes of a run
  ParseFlags,          \* the flags it tries
  MaxDepth, MaxCount   \* bounds on the nesting and on the values in a level

\* Whitespace stands between lexemes.
Blanks == {" ", "\n"}
ASSUME LexemesAssumption == Lexemes \cap Blanks = {}

VARIABLES
  flags,     \* the parse flags, and the writers' kFormatSingleLineArray
  lexeme,    \* the last lexeme read
  before,    \* the one read before it
  recursive, \* the recursive parser: the calls it is in, outermost first
  iterative, \* the iterative parser: its state and its stack
  pull,      \* IterativeParseNext: the same, kept between its calls
  writer, pretty

vars == <<flags, lexeme, before, recursive, iterative, pull, writer, pretty>>

Ends == {"eof", "spaces"}    \* "spaces" are followed by the end
ScalarEvent == [null |-> "Null", true |-> "Bool", false |-> "Bool", number |-> "Number"]

NoEvent == [name |-> "none", count |-> 0]

\* A parser is a record: what it knows of the text; parseResult_, the event of
\* the step, whether it returned. RAPIDJSON_PARSE_ERROR: it asserts that there was none before.
Return(p) == [p EXCEPT !.returned = TRUE]
SetParseError(p, code) ==
    Return([p EXCEPT !.error = IF @ = "None" THEN code ELSE "assertion"])

\* The handler is called and may refuse.
Handle(p, name, count, accepts) ==
    LET heard == [p EXCEPT !.event = [name |-> name, count |-> count]]
    IN  IF accepts THEN heard ELSE SetParseError(heard, "Termination")

-----------------------------------------------------------------------------
(* What the parsers share: values that are no containers, and names.       *)

ParseString(p, l, name, accepts) ==
    IF l = "string" THEN Handle(p, name, 0, accepts)
    ELSE SetParseError(p, "StringMissQuotationMark")

\* ParseNull, ParseTrue, ParseFalse, ParseNumber: a value that begins as none
\* of the others is a number that is none.
ParseScalar(p, l, accepts) ==
    CASE l \in {"string", "brokenString"} -> ParseString(p, l, "String", accepts)
      [] l \in DOMAIN ScalarEvent -> Handle(p, ScalarEvent[l], 0, accepts)
      [] OTHER -> SetParseError(p, "ValueInvalid")

-----------------------------------------------------------------------------
(* The recursive parser. A frame is a call of ParseObject or ParseArray:   *)
(* what was read last in it, and its count.                                *)

Frame(kind) == [kind |-> kind, read |-> "begin", count |-> 0]
NewRecursive ==
    [frames |-> <<>>, root |-> FALSE,
     error |-> "None", event |-> NoEvent, returned |-> FALSE]

Read(p, what) == [p EXCEPT !.frames[Len(p.frames)].read = what]
Call(p, kind) == [p EXCEPT !.frames = Append(@, Frame(kind))]

CountedNever(p) == p

Counted(p) == [p EXCEPT !.frames[Len(p.frames)].count = @ + 1]

ParseValue(p, l, accepts) ==
    CASE l = "{" -> Handle(Call(p, "object"), "StartObject", 0, accepts)
      [] l = "[" -> Handle(Call(p, "array"), "StartArray", 0, accepts)
      [] OTHER -> ParseScalar(p, l, accepts)

\* ParseObject or ParseArray returns.
EndCall(p, name, count, accepts) ==
    Handle([p EXCEPT !.frames = Front(@)], name, count, accepts)

\* A closing bracket after a comma needs kParseTrailingCommasFlag.
ClosesAtOnce(f, l, bracket) ==
    /\ l = bracket
    /\ f.read = "begin" \/ (f.read = "," /\ "trailingCommas" \in flags)

ParseObject(p, l, accepts) ==
    LET f == Last(p.frames)
    IN  CASE ClosesAtOnce(f, l, "}") -> EndCall(p, "EndObject", f.count, accepts)
          [] f.read \in {"begin", ","} /\ ~ClosesAtOnce(f, l, "}") ->
               IF l \in {"string", "brokenString"}
               THEN ParseString(Read(p, "name"), l, "Key", accepts)
               ELSE SetParseError(p, "ObjectMissName")
          [] f.read = "name" -> IF l = ":" THEN Read(p, ":")
                                ELSE SetParseError(p, "ObjectMissColon")
          [] f.read = ":" -> ParseValue(Read(p, "value"), l, accepts)
          [] f.read = "value" ->
               CASE l = "," -> Counted(Read(p, ","))
                 [] l = "}" -> EndCall(p, "EndObject", f.count + 1, accepts)
                 [] OTHER -> SetParseError(p, "ObjectMissCommaOrCurlyBracket")

ParseArray(p, l, accepts) ==
    LET f == Last(p.frames)
    IN  CASE ClosesAtOnce(f, l, "]") -> EndCall(p, "EndArray", f.count, accepts)
          [] f.read \in {"begin", ","} /\ ~ClosesAtOnce(f, l, "]") ->
               ParseValue(Read(p, "value"), l, accepts)
          [] f.read = "value" ->
               CASE l = "," -> Counted(Read(p, ","))
                 [] l = "]" -> EndCall(p, "EndArray", f.count + 1, accepts)
                 [] OTHER -> SetParseError(p, "ArrayMissCommaOrSquareBracket")

\* With kParseStopWhenDoneFlag the parser returns with the root, and leaves
\* what follows to its caller.
Whole(p, whole) ==
    IF whole /\ "stopWhenDone" \in flags THEN Return(p) ELSE p

\* From the lexeme on which the innermost call waited last.
Resume(p, l, accepts) ==
    IF l = "brokenComment" THEN SetParseError(p, "UnspecificSyntaxError")
    ELSE CASE p.frames # <<>> ->
                IF Last(p.frames).kind = "object" THEN ParseObject(p, l, accepts)
                ELSE ParseArray(p, l, accepts)
           [] p.frames = <<>> /\ p.root ->
                IF l \in Ends THEN Return(p)
                ELSE SetParseError(p, "DocumentRootNotSingular")
           [] p.frames = <<>> /\ ~p.root ->
                IF l \in Ends THEN SetParseError(p, "DocumentEmpty")
                ELSE ParseValue([p EXCEPT !.root = TRUE], l, accepts)

Parse(p, l, accepts) ==
    LET r == Resume(p, l, accepts) IN Whole(r, r.root /\ r.frames = <<>>)

-----------------------------------------------------------------------------
(* The iterative parsers. Predict has the states that a lookahead token    *)
(* leads to; where it has none the text is in error.                       *)

Tokenize(l) ==
    CASE l \in {"[", "]", "{", "}", ",", ":"} -> l
      [] l \in {"string", "brokenString"} -> "String"
      [] OTHER -> "Scalar"   \* False, True, Null and Number: G never differs

\* What begins a value, a member or the end of an object, what goes on after a
\* value.
ValueTo(token, state) ==
    CASE token = "[" -> "ArrayInitial"
      [] token = "{" -> "ObjectInitial"
      [] token \in {"String", "Scalar"} -> state
      [] OTHER -> "Error"
NameOrEnd(token) ==
    CASE token = "}" -> "ObjectFinish"
      [] token = "String" -> "MemberKey"
      [] OTHER -> "Error"
CommaOrEnd(token, comma, bracket, end) ==
    CASE token = "," -> comma
      [] token = bracket -> end
      [] OTHER -> "Error"

Predict(state, token) ==
    CASE state = "Start" -> ValueTo(token, "Value")
      [] state \in {"ObjectInitial", "MemberDelimiter"} -> NameOrEnd(token)
      [] state = "MemberKey" -> IF token = ":" THEN "KeyValueDelimiter" ELSE "Error"
      [] state = "KeyValueDelimiter" -> ValueTo(token, "MemberValue")
      [] state = "MemberValue" ->
           CommaOrEnd(token, "MemberDelimiter", "}", "ObjectFinish")
      [] state \in {"ArrayInitial", "ElementDelimiter"} ->
           IF token = "]" THEN "ArrayFinish" ELSE ValueTo(token, "Element")
      [] state = "Element" ->
           CommaOrEnd(token, "ElementDelimiter", "]", "ArrayFinish")
      [] OTHER -> "Error"

NewIterative ==
    [state |-> "Start", stack |-> <<>>,
     error |-> "None", event |-> NoEvent, returned |-> FALSE]

\* The state to come back to when the container that begins is closed.
Restored(src) ==
    CASE src \in {"ArrayInitial", "ElementDelimiter"} -> "Element"
      [] src = "KeyValueDelimiter" -> "MemberValue"
      [] OTHER -> src

Goto(p, state) == [p EXCEPT !.state = state]

\* if (HasParseError()), and if (!hr).
Settle(p, state) == Goto(p, IF p.error = "None" THEN state ELSE "Error")
Heard(p, state, accepts) == Goto(p, IF accepts THEN state ELSE "Error")

\* A value before a delimiter.
CountTop(p) == [p EXCEPT !.stack[Len(p.stack)].count = @ + 1]

TransitInitial(p, dst, accepts) ==
    LET pushed == [p EXCEPT !.stack =
                     Append(@, [state |-> Restored(p.state), count |-> 0])]
    IN  Handle(pushed, IF dst = "ObjectInitial" THEN "StartObject"
                       ELSE "StartArray", 0, accepts)

TransitFinishUncounted(p, name, last, accepts) ==
    Handle([p EXCEPT !.stack = Front(@)], name, Last(p.stack).count, accepts)

\* The last value is counted here, the ones before it by their delimiters.
TransitFinish(p, name, last, accepts) ==
    LET top == Last(p.stack)
    IN  Handle([p EXCEPT !.stack = Front(@)], name,
               top.count + (IF p.state = last THEN 1 ELSE 0), accepts)

StateAfterFinish(p) ==
    IF Last(p.stack).state = "Start" THEN "Finish" ELSE Last(p.stack).state

Transit(p, l, dst, accepts) ==
    LET trailing == "trailingCommas" \notin flags
                    /\ p.state \in {"MemberDelimiter", "ElementDelimiter"}
    IN  CASE dst = "Error" -> Goto(p, "Error")
          [] dst \in {"ObjectInitial", "ArrayInitial"} ->
               Heard(TransitInitial(p, dst, accepts), dst, accepts)
          [] dst = "MemberKey" -> Settle(ParseString(p, l, "Key", accepts), dst)
          [] dst \in {"MemberValue", "Element"} ->
               Settle(ParseScalar(p, l, accepts), dst)
          [] dst = "KeyValueDelimiter" -> Goto(p, dst)
          [] dst \in {"MemberDelimiter", "ElementDelimiter"} -> Goto(CountTop(p), dst)
          [] dst = "ObjectFinish" ->
               IF trailing THEN Settle(SetParseError(p, "ObjectMissName"), dst)
               ELSE Heard(TransitFinish(p, "EndObject", "MemberValue", accepts),
                          StateAfterFinish(p), accepts)
          [] dst = "ArrayFinish" ->
               IF trailing THEN Settle(SetParseError(p, "ValueInvalid"), dst)
               ELSE Heard(TransitFinish(p, "EndArray", "Element", accepts),
                          StateAfterFinish(p), accepts)
          [] dst = "Value" -> Settle(ParseScalar(p, l, accepts), "Finish")

\* What is wrong is known from the state in which the token was not expected.
ErrorOf ==
    [ Start |-> "DocumentEmpty", Finish |-> "DocumentRootNotSingular",
      ObjectInitial |-> "ObjectMissName", MemberDelimiter |-> "ObjectMissName",
      MemberKey |-> "ObjectMissColon",
      MemberValue |-> "ObjectMissCommaOrCurlyBracket",
      KeyValueDelimiter |-> "ValueInvalid", ArrayInitial |-> "ValueInvalid",
      ElementDelimiter |-> "ValueInvalid",
      Element |-> "ArrayMissCommaOrSquareBracket" ]

HandleError(p, src) ==
    IF p.error # "None" THEN Return(p) ELSE SetParseError(p, ErrorOf[src])

Advance(p, l, accepts) ==
    LET d == Transit(p, l, Predict(p.state, Tokenize(l)), accepts)
    IN  IF d.state = "Error" THEN HandleError(Goto(d, p.state), p.state)
        ELSE Whole(d, d.state = "Finish")

IterativeParse(p, l, accepts) ==
    CASE l = "brokenComment" -> SetParseError(p, "UnspecificSyntaxError")
      [] l \in Ends -> IF p.state = "Finish" THEN Return(p)
                       ELSE HandleError(p, p.state)
      [] OTHER -> Advance(p, l, accepts)

\* The calls of IterativeParseNext on one lexeme. Spaces before the end are
\* skipped after the test for the end: the end is then taken for a number. A
\* comment that is not closed sets the error, and the parsing goes on.
IterativeParseNext(p, l, accepts) ==
    CASE l = "brokenComment" ->
           [SetParseError(p, "UnspecificSyntaxError")
              EXCEPT !.returned = p.state = "Finish" \/ p.error # "None"]
      [] p.state = "Finish" /\ l # "brokenComment" ->
           IF l \in Ends THEN Return(p) ELSE HandleError(p, "Finish")
      [] p.state # "Finish" /\ l = "eof" ->
           HandleError([p EXCEPT !.stack = <<>>], p.state)
      [] OTHER -> Advance(p, l, accepts)

-----------------------------------------------------------------------------
(* The three side by side.                                                 *)

\* A parser that returned reads no more.
Step(p, next) ==
    IF p.returned THEN [p EXCEPT !.event = NoEvent]
    ELSE next

Quiet(p) == [p EXCEPT !.event = NoEvent]

\* The text an event stands for is the lexeme; the writers take what the
\* handler accepted.
Writes(p, w, next) ==
    IF p.event = NoEvent \/ p.error # "None" THEN [w EXCEPT !.out = <<>>] ELSE next

InBounds(l) ==
    /\ l \in {"[", "{"} => Len(recursive.frames) < MaxDepth /\ Len(pull.stack) < MaxDepth
    /\ l = "," /\ recursive.frames # <<>> => Last(recursive.frames).count < MaxCount
    /\ l = "," /\ pull.stack # <<>> => Last(pull.stack).count < MaxCount

ReadLexeme(l, accepts) ==
    /\ ~(recursive.returned /\ iterative.returned /\ pull.returned)
    /\ InBounds(l)
    /\ l = "brokenComment" => "comments" \in flags
    /\ lexeme \notin Ends
    /\ lexeme' = l /\ before' = lexeme
    /\ recursive' = Step(recursive, Parse(Quiet(recursive), l, accepts))
    /\ iterative' = Step(iterative, IterativeParse(Quiet(iterative), l, accepts))
    /\ pull' = Step(pull, IterativeParseNext(Quiet(pull), l, accepts))
    /\ writer' = Writes(recursive', writer, Write(writer, l))
    /\ pretty' = Writes(recursive', pretty,
                        PrettyWrite(pretty, l, "singleLineArray" \in flags))
    /\ UNCHANGED flags

Init ==
    /\ flags \in SUBSET ParseFlags
    /\ lexeme = "begin" /\ before = "begin"
    /\ recursive = NewRecursive
    /\ iterative = NewIterative
    /\ pull = NewIterative
    /\ writer = NewWriter /\ pretty = NewWriter

Next == \E l \in Lexemes, accepts \in BOOLEAN : ReadLexeme(l, accepts)

Spec == Init /\ [][Next]_vars

-----------------------------------------------------------------------------
(* Properties.                                                             *)

\* The three parsers deliver the same events and end in the same way, whatever
\* flags they have and whatever the handler refuses. There are three
\* exceptions: a text that begins with a delimiter is "invalid" for the
\* recursive parser and "empty" for the others, one of spaces only is "empty"
\* except for the pulled one, and a comment that is not closed does not stop
\* the pulled one.
KnownDifference(q) ==
    /\ before = "begin"
    /\ \/ lexeme \in {"]", "}", ",", ":"} /\ q.error = "DocumentEmpty"
       \/ lexeme = "spaces" /\ q = pull
SameResult(q) ==
    /\ q.event = recursive.event
    /\ q.error = recursive.error \/ KnownDifference(q)
    /\ q.returned = recursive.returned
ParsersAgree ==
    /\ SameResult(iterative)
    /\ recursive.error = "UnspecificSyntaxError" \/ SameResult(pull)

\* The handler of the recursive parser hears the events of one JSON value: what
\* JsonEvents promises to documents and writers.
Open ==
    IF recursive.error # "None" THEN <<>>
    ELSE [n \in DOMAIN recursive.frames |->
            LET f == recursive.frames[n]
            IN  [kind |-> f.kind, count |-> f.count + (IF f.read = "value" THEN 1 ELSE 0),
                 named |-> f.read \in {"name", ":"}]]
Progress ==
    CASE recursive.error # "None" -> "failed"
      [] recursive.error = "None" /\ recursive.returned -> "done"
      [] ~recursive.returned /\ ~recursive.root -> "start"
      [] ~recursive.returned /\ recursive.root ->
           IF recursive.frames = <<>> THEN "whole" ELSE "within"
Events == INSTANCE JsonEvents WITH
    Scalars <- {"Null", "Bool", "Number", "String"},
    open <- Open, progress <- Progress, event <- recursive.event
EmitsOneValue == Events!EventsSpec

\* A writer that listens writes the text it is read from: each lexeme with the
\* delimiter before it, without what a trailing comma is too much; it never
\* runs into its assertions, and all is flushed when the root is complete.
\* PrettyWriter indents each line by the level it is on.
Accepted == recursive.event # NoEvent /\ recursive.error = "None"
WithoutBlanks(out, text) ==
    \E place \in [DOMAIN text -> DOMAIN out] :
      /\ \A n \in DOMAIN text : out[place[n]] = text[n]
      /\ \A m, n \in DOMAIN text : m < n => place[m] < place[n]
      /\ \A k \in DOMAIN out :
           out[k] \notin Blanks <=> \E n \in DOMAIN text : place[n] = k
Expected ==
    IF ~Accepted THEN <<>>
    ELSE IF before \in {",", ":"} /\ lexeme \notin {"}", "]"} THEN <<before, lexeme>>
    ELSE <<lexeme>>
Depth == Len(recursive.frames) - (IF lexeme \in {"{", "["} THEN 1 ELSE 0)
WritersCopy ==
    /\ \A w \in {writer, pretty} :
         /\ WithoutBlanks(w.out, Expected)
         /\ ~w.asserted
         /\ Accepted /\ recursive.frames = <<>> => w.flushed
    /\ \A n \in DOMAIN pretty.out : pretty.out[n] = "\n" =>
         /\ Len(pretty.out) = n + indentCharCount_ * Depth + 1
         /\ \A m \in n + 1 .. Len(pretty.out) - 1 : pretty.out[m] = " "
=============================================================================
