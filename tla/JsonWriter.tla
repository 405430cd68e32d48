----------------------------- MODULE JsonWriter -----------------------------
(***************************************************************************)
(* Writer and PrettyWriter of rapidjson, handlers that turn the events of  *)
(* a reader or a document back into text. A writer is a record: the levels *)
(* it is in, whether the root has begun, what the last call put into the   *)
(* stream, whether all of it was flushed, and whether an assertion failed. *)
(***************************************************************************)
EXTENDS Naturals, Sequences, SequencesExt

CONSTANT indentCharCount_   \* the indentation of one level

ASSUME IndentAssumption == indentCharCount_ \in Nat

Level(inArray) == [valueCount |-> 0, inArray |-> inArray]
NewWriter ==
    [level_stack |-> <<>>, hasRoot |-> FALSE, out |-> <<>>, flushed |-> TRUE,
     asserted |-> FALSE]

Put(w, text) == [w EXCEPT !.out = @ \o text, !.flushed = FALSE]
WriterAssert(w, condition) == [w EXCEPT !.asserted = @ \/ ~condition]
NoValueYet(w) == Last(w.level_stack).valueCount = 0
NameNext(w) ==
    ~Last(w.level_stack).inArray /\ Last(w.level_stack).valueCount % 2 = 0

\* The value is counted in its level, or is the root, of which there is one.
CountValue(w, isString) ==
    IF w.level_stack = <<>>
    THEN [WriterAssert(w, ~w.hasRoot) EXCEPT !.hasRoot = TRUE]
    ELSE [WriterAssert(w, NameNext(w) => isString)
            EXCEPT !.level_stack[Len(w.level_stack)].valueCount = @ + 1]

DelimiterComma(w) == ","

Delimiter(w) ==
    IF Last(w.level_stack).inArray \/ NameNext(w) THEN "," ELSE ":"

Prefix(w, isString) ==
    CountValue(IF w.level_stack = <<>> \/ NoValueYet(w) THEN w
               ELSE Put(w, <<Delimiter(w)>>), isString)

WriteIndent(w) ==
    Put(w, [n \in 1 .. indentCharCount_ * Len(w.level_stack) |-> " "])

\* kFormatSingleLineArray leaves the line breaks of arrays out.
PrettyPrefix(w, isString, singleLineArray) ==
    LET delimited == IF NoValueYet(w) THEN w ELSE Put(w, <<Delimiter(w)>>)
        inArray == IF singleLineArray
                   THEN IF NoValueYet(w) THEN w ELSE Put(delimited, <<" ">>)
                   ELSE WriteIndent(Put(delimited, <<"\n">>))
        inObject == IF NameNext(w) THEN WriteIndent(Put(delimited, <<"\n">>))
                    ELSE Put(delimited, <<" ">>)
    IN  CountValue(IF w.level_stack = <<>> THEN w
                   ELSE IF Last(w.level_stack).inArray THEN inArray
                   ELSE inObject, isString)

\* The stream is flushed when the text is complete.
EndValue(w) == IF w.level_stack = <<>> THEN [w EXCEPT !.flushed = TRUE] ELSE w

Push(w, level) == [w EXCEPT !.level_stack = Append(@, level)]

\* A container ends: it must be the innermost one, without a name that waits
\* for its value.
Pop(w, inArray) ==
    LET level == Last(w.level_stack)
        sound == /\ w.level_stack # <<>>
                 /\ level.inArray = inArray
                 /\ ~inArray => level.valueCount % 2 = 0
    IN  IF sound THEN [w EXCEPT !.level_stack = Front(@)]
        ELSE WriterAssert(w, FALSE)

\* After the pop: a container with something in it is closed on its own line.
ClosePretty(w, empty, inArray, singleLineArray) ==
    IF empty \/ (inArray /\ singleLineArray) THEN w
    ELSE WriteIndent(Put(w, <<"\n">>))

Begin(w, text, prefixed) ==
    CASE text = "{" -> Put(Push(prefixed, Level(FALSE)), <<text>>)
      [] text = "[" -> Put(Push(prefixed, Level(TRUE)), <<text>>)
      [] OTHER -> EndValue(Put(prefixed, <<text>>))

\* The handler functions: text is what the event stands for, { } [ ], a name
\* or a scalar.
Write(w0, text) ==
    LET w == [w0 EXCEPT !.out = <<>>]
    IN  IF text \in {"}", "]"}
        THEN EndValue(Put(Pop(w, text = "]"), <<text>>))
        ELSE Begin(w, text, Prefix(w, text = "string"))

PrettyWrite(w0, text, singleLineArray) ==
    LET w == [w0 EXCEPT !.out = <<>>]
        closed == ClosePretty(Pop(w, text = "]"), NoValueYet(w), text = "]",
                              singleLineArray)
    IN  IF text \in {"}", "]"} THEN EndValue(Put(closed, <<text>>))
        ELSE Begin(w, text, PrettyPrefix(w, text = "string", singleLineArray))
=============================================================================
