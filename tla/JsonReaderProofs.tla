-------------------------- MODULE JsonReaderProofs --------------------------
(***************************************************************************)
(* Proofs about rapidjson's reader and writers: the iterative parsers and  *)
(* the recursive one stay in step, the handler hears one JSON value, and   *)
(* the writers know from their counts what the parsers know from what they *)
(* read.                                                                   *)
(***************************************************************************)
EXTENDS JsonReader, SequenceTheorems, TLAPS

-----------------------------------------------------------------------------
(* The invariant.                                                          *)

\* The truth values of a field, under names the provers do not look behind.
Yes == TRUE
No == FALSE

\* Parsers and writers by their fields.
Recursing(frames, root, error, event, returned) ==
    [frames |-> frames, root |-> root,
     error |-> error, event |-> event, returned |-> returned]
Iterating(state, stack, error, event, returned) ==
    [state |-> state, stack |-> stack,
     error |-> error, event |-> event, returned |-> returned]
Writing(levels, hasRoot, out, flushed, asserted) ==
    [level_stack |-> levels, hasRoot |-> hasRoot, out |-> out,
     flushed |-> flushed, asserted |-> asserted]

\* The calls the recursive parser is in: all but the innermost one have begun a
\* value, and what a call has counted agrees with what it read last.
ObjectReads == {"begin", ",", "name", ":", "value"}
ArrayReads == {"begin", ",", "value"}
Frames == [kind : {"object"}, read : ObjectReads, count : Nat]
          \cup [kind : {"array"}, read : ArrayReads, count : Nat]
CountsRight(f) ==
    /\ f.read = "begin" => f.count = 0
    /\ f.read = "," => f.count # 0
Nested(frames) ==
    /\ frames \in Seq(Frames)
    /\ \A n \in DOMAIN frames : n < Len(frames) => frames[n].read = "value"
    /\ \A n \in DOMAIN frames : CountsRight(frames[n])

\* The state of an iterative parser that has read the same text.
StateIn(kind, read) ==
    IF kind = "object"
    THEN CASE read = "begin" -> "ObjectInitial"
           [] read = "name"  -> "MemberKey"
           [] read = ":"     -> "KeyValueDelimiter"
           [] read = "value" -> "MemberValue"
           [] read = ","     -> "MemberDelimiter"
    ELSE CASE read = "begin" -> "ArrayInitial"
           [] read = "value" -> "Element"
           [] read = ","     -> "ElementDelimiter"
StateOf(frames, root) ==
    IF frames = <<>> THEN IF root THEN "Finish" ELSE "Start"
    ELSE LET f == frames[Len(frames)] IN StateIn(f.kind, f.read)

\* Its stack: the state to come back to, which is that behind a value in the
\* container around, and the same count.
After(kind) == IF kind = "object" THEN "MemberValue" ELSE "Element"
Back(frames, n) == IF n = 1 THEN "Start" ELSE After(frames[n - 1].kind)
Backs == {"Start", "MemberValue", "Element"}
Entries == [state : Backs, count : Nat]
Stacked(stack, frames) ==
    /\ stack \in Seq(Entries)
    /\ Len(stack) = Len(frames)
    /\ \A n \in 1 .. Len(frames) :
         stack[n].count = frames[n].count /\ stack[n].state = Back(frames, n)

Follows(q, frames, root, event) ==
    /\ q = Iterating(StateOf(frames, root), q.stack, "None", event, No)
    /\ Stacked(q.stack, frames)

\* The parsers read on, all have returned, or a comment that was not closed has
\* ended the first two.
Running ==
    /\ recursive = Recursing(recursive.frames, recursive.root, "None",
                             recursive.event, No)
    /\ Nested(recursive.frames) /\ recursive.root \in BOOLEAN
    /\ recursive.frames # <<>> => recursive.root
    /\ ~recursive.root => lexeme = "begin"
    /\ Follows(iterative, recursive.frames, recursive.root, recursive.event)
    /\ Follows(pull, recursive.frames, recursive.root, recursive.event)
Ended ==
    /\ recursive.returned /\ iterative.returned /\ pull.returned
    /\ ParsersAgree
Commented ==
    /\ recursive = Recursing(recursive.frames, recursive.root,
                             "UnspecificSyntaxError", NoEvent, Yes)
    /\ iterative = Iterating(iterative.state, iterative.stack,
                             "UnspecificSyntaxError", NoEvent, Yes)
ReaderInv == Running \/ Ended \/ Commented

-----------------------------------------------------------------------------
(* What parsers do with their fields.                                      *)

\* The handler's answer, and what both kinds of parsers make of a string and of
\* a value that is no container.
Answer(accepts) == IF accepts THEN "None" ELSE "Termination"
Over(goesOn) == IF goesOn THEN No ELSE Yes
EventOf(name, count) == [name |-> name, count |-> count]
IsScalar(l) == l \in DOMAIN ScalarEvent \/ l = "string"
ScalarHeard(l) ==
    IF l = "string" THEN EventOf("String", 0)
    ELSE IF IsScalar(l) THEN EventOf(ScalarEvent[l], 0) ELSE NoEvent
ScalarError(l, accepts) ==
    IF IsScalar(l) THEN Answer(accepts)
    ELSE IF l = "brokenString" THEN "StringMissQuotationMark" ELSE "ValueInvalid"
NameHeard(l, name) == IF l = "string" THEN EventOf(name, 0) ELSE NoEvent
NameError(l, accepts) ==
    IF l = "string" THEN Answer(accepts) ELSE "StringMissQuotationMark"

LEMMA ScalarLexemes == DOMAIN ScalarEvent = {"null", "true", "false", "number"}
BY DEF ScalarEvent

LEMMA RecursiveFields ==
    ASSUME NEW frames, NEW root, NEW error, NEW event, NEW returned
    PROVE  /\ Recursing(frames, root, error, event, returned).frames = frames
           /\ Recursing(frames, root, error, event, returned).root = root
           /\ Recursing(frames, root, error, event, returned).error = error
           /\ Recursing(frames, root, error, event, returned).event = event
           /\ Recursing(frames, root, error, event, returned).returned = returned
BY DEF Recursing

LEMMA RecursiveReturns ==
    ASSUME NEW frames, NEW root, NEW error, NEW event, NEW returned
    PROVE  Return(Recursing(frames, root, error, event, returned)) =
             Recursing(frames, root, error, event, Yes)
<1> DEFINE p == Recursing(frames, root, error, event, returned)
<1>1. p = Recursing(frames, root, error, event, returned)
  OBVIOUS
<1>2. Return(p) = [p EXCEPT !.returned = Yes]
  BY Zenon DEF Return, Yes
<1> HIDE DEF p
<1>3. [p EXCEPT !.returned = Yes] = Recursing(frames, root, error, event, Yes)
  BY <1>1 DEF Recursing
<1> QED
  BY <1>1, <1>2, <1>3

LEMMA RecursiveErrs ==
    ASSUME NEW frames, NEW root, NEW event, NEW returned, NEW code
    PROVE  SetParseError(Recursing(frames, root, "None", event, returned), code) =
             Recursing(frames, root, code, event, Yes)
<1> DEFINE p == Recursing(frames, root, "None", event, returned)
           q == [p EXCEPT !.error = code]
<1>1. p = Recursing(frames, root, "None", event, returned)
  OBVIOUS
<1>2. p.error = "None"
  BY RecursiveFields
<1> HIDE DEF p
<1>3. SetParseError(p, code) = Return(q)
  BY <1>2 DEF SetParseError
<1>4. q = Recursing(frames, root, code, event, returned)
  BY <1>1 DEF Recursing
<1> HIDE DEF q
<1> QED
  BY <1>1, <1>3, <1>4, RecursiveReturns

LEMMA RecursiveHears ==
    ASSUME NEW frames, NEW root, NEW error, NEW old, NEW returned, NEW event
    PROVE  [Recursing(frames, root, error, old, returned) EXCEPT !.event = event] =
             Recursing(frames, root, error, event, returned)
<1> DEFINE p == Recursing(frames, root, error, old, returned)
<1>1. p = Recursing(frames, root, error, old, returned)
  OBVIOUS
<1> HIDE DEF p
<1>2. [p EXCEPT !.event = event] = Recursing(frames, root, error, event, returned)
  BY <1>1 DEF Recursing
<1> QED
  BY <1>1, <1>2

LEMMA RecursiveHandles ==
    ASSUME NEW frames, NEW root, NEW accepts \in BOOLEAN, NEW name, NEW count
    PROVE  Handle(Recursing(frames, root, "None", NoEvent, No), name, count, accepts) =
             Recursing(frames, root, Answer(accepts), EventOf(name, count), Over(accepts))
<1> DEFINE p == Recursing(frames, root, "None", NoEvent, No)
           heard == [p EXCEPT !.event = [name |-> name, count |-> count]]
<1>1. heard = Recursing(frames, root, "None", EventOf(name, count), No)
  BY RecursiveHears DEF EventOf
<1>2. SetParseError(Recursing(frames, root, "None", EventOf(name, count), No), "Termination")
        = Recursing(frames, root, "Termination", EventOf(name, count), Yes)
  BY RecursiveErrs
<1> HIDE DEF heard
<1>3. CASE accepts
  <2>1. Handle(p, name, count, accepts) = heard
    BY <1>3 DEF Handle, heard
  <2> QED
    BY <1>1, <1>3, <2>1 DEF Answer, Over
<1>4. CASE ~accepts
  <2>1. Handle(p, name, count, accepts) = SetParseError(heard, "Termination")
    BY <1>4 DEF Handle, heard
  <2> QED
    BY <1>1, <1>2, <1>4, <2>1 DEF Answer, Over
<1> QED
  BY <1>3, <1>4

LEMMA RecursiveName ==
    ASSUME NEW frames, NEW root, NEW accepts \in BOOLEAN, NEW l, NEW name
    PROVE  ParseString(Recursing(frames, root, "None", NoEvent, No), l, name, accepts) =
             Recursing(frames, root, NameError(l, accepts), NameHeard(l, name),
                  Over(l = "string" /\ accepts))
<1>1. CASE l = "string"
  BY <1>1, RecursiveHandles DEF ParseString, NameError, NameHeard
<1>2. CASE l # "string"
  <2>1. SetParseError(Recursing(frames, root, "None", NoEvent, No), "StringMissQuotationMark")
          = Recursing(frames, root, "StringMissQuotationMark", NoEvent, Yes)
    BY RecursiveErrs
  <2> QED
    BY <1>2, <2>1 DEF ParseString, NameError, NameHeard, Over
<1> QED
  BY <1>1, <1>2

LEMMA RecursiveScalar ==
    ASSUME NEW frames, NEW root, NEW accepts \in BOOLEAN, NEW l
    PROVE  ParseScalar(Recursing(frames, root, "None", NoEvent, No), l, accepts) =
             Recursing(frames, root, ScalarError(l, accepts), ScalarHeard(l),
                  Over(IsScalar(l) /\ accepts))
<1> DEFINE p == Recursing(frames, root, "None", NoEvent, No)
<1>1. CASE l \in {"string", "brokenString"}
  <2>1. ParseScalar(p, l, accepts) = ParseString(p, l, "String", accepts)
    <3> HIDE DEF p
    <3> QED BY <1>1, ScalarLexemes DEF ParseScalar
  <2>2. ParseString(p, l, "String", accepts) =
          Recursing(frames, root, NameError(l, accepts), NameHeard(l, "String"),
               Over(l = "string" /\ accepts))
    BY RecursiveName
  <2>3. /\ IsScalar(l) <=> l = "string"
        /\ NameError(l, accepts) = ScalarError(l, accepts)
        /\ NameHeard(l, "String") = ScalarHeard(l)
    BY <1>1, ScalarLexemes DEF NameError, ScalarError, NameHeard, ScalarHeard, IsScalar
  <2> QED
    BY <2>1, <2>2, <2>3
<1>2. CASE l \notin {"string", "brokenString"} /\ IsScalar(l)
  <2>1. ParseScalar(p, l, accepts) = Handle(p, ScalarEvent[l], 0, accepts)
    BY <1>2 DEF ParseScalar, IsScalar
  <2>2. Handle(p, ScalarEvent[l], 0, accepts) =
          Recursing(frames, root, Answer(accepts), EventOf(ScalarEvent[l], 0), Over(accepts))
    BY RecursiveHandles
  <2> QED
    BY <1>2, <2>1, <2>2 DEF ScalarError, ScalarHeard
<1>3. CASE l \notin {"string", "brokenString"} /\ ~IsScalar(l)
  <2>1. ParseScalar(p, l, accepts) = SetParseError(p, "ValueInvalid")
    BY <1>3 DEF ParseScalar, IsScalar
  <2>2. SetParseError(p, "ValueInvalid") = Recursing(frames, root, "ValueInvalid", NoEvent, Yes)
    BY RecursiveErrs
  <2> QED
    BY <1>3, <2>1, <2>2 DEF ScalarError, ScalarHeard, Over
<1> QED
  BY <1>1, <1>2, <1>3

LEMMA IterativeFields ==
    ASSUME NEW state, NEW stack, NEW error, NEW event, NEW returned
    PROVE  /\ Iterating(state, stack, error, event, returned).state = state
           /\ Iterating(state, stack, error, event, returned).stack = stack
           /\ Iterating(state, stack, error, event, returned).error = error
           /\ Iterating(state, stack, error, event, returned).event = event
           /\ Iterating(state, stack, error, event, returned).returned = returned
BY DEF Iterating

LEMMA IterativeReturns ==
    ASSUME NEW state, NEW stack, NEW error, NEW event, NEW returned
    PROVE  Return(Iterating(state, stack, error, event, returned)) =
             Iterating(state, stack, error, event, Yes)
<1> DEFINE p == Iterating(state, stack, error, event, returned)
<1>1. p = Iterating(state, stack, error, event, returned)
  OBVIOUS
<1>2. Return(p) = [p EXCEPT !.returned = Yes]
  BY Zenon DEF Return, Yes
<1> HIDE DEF p
<1>3. [p EXCEPT !.returned = Yes] = Iterating(state, stack, error, event, Yes)
  BY <1>1 DEF Iterating
<1> QED
  BY <1>1, <1>2, <1>3

LEMMA IterativeErrs ==
    ASSUME NEW state, NEW stack, NEW event, NEW returned, NEW code
    PROVE  SetParseError(Iterating(state, stack, "None", event, returned), code) =
             Iterating(state, stack, code, event, Yes)
<1> DEFINE p == Iterating(state, stack, "None", event, returned)
           q == [p EXCEPT !.error = code]
<1>1. p = Iterating(state, stack, "None", event, returned)
  OBVIOUS
<1>2. p.error = "None"
  BY IterativeFields
<1> HIDE DEF p
<1>3. SetParseError(p, code) = Return(q)
  BY <1>2 DEF SetParseError
<1>4. q = Iterating(state, stack, code, event, returned)
  BY <1>1 DEF Iterating
<1> HIDE DEF q
<1> QED
  BY <1>1, <1>3, <1>4, IterativeReturns

LEMMA IterativeHears ==
    ASSUME NEW state, NEW stack, NEW error, NEW old, NEW returned, NEW event
    PROVE  [Iterating(state, stack, error, old, returned) EXCEPT !.event = event] =
             Iterating(state, stack, error, event, returned)
<1> DEFINE p == Iterating(state, stack, error, old, returned)
<1>1. p = Iterating(state, stack, error, old, returned)
  OBVIOUS
<1> HIDE DEF p
<1>2. [p EXCEPT !.event = event] = Iterating(state, stack, error, event, returned)
  BY <1>1 DEF Iterating
<1> QED
  BY <1>1, <1>2

LEMMA IterativeHandles ==
    ASSUME NEW state, NEW stack, NEW accepts \in BOOLEAN, NEW name, NEW count
    PROVE  Handle(Iterating(state, stack, "None", NoEvent, No), name, count, accepts) =
             Iterating(state, stack, Answer(accepts), EventOf(name, count), Over(accepts))
<1> DEFINE p == Iterating(state, stack, "None", NoEvent, No)
           heard == [p EXCEPT !.event = [name |-> name, count |-> count]]
<1>1. heard = Iterating(state, stack, "None", EventOf(name, count), No)
  BY IterativeHears DEF EventOf
<1>2. SetParseError(Iterating(state, stack, "None", EventOf(name, count), No), "Termination")
        = Iterating(state, stack, "Termination", EventOf(name, count), Yes)
  BY IterativeErrs
<1> HIDE DEF heard
<1>3. CASE accepts
  <2>1. Handle(p, name, count, accepts) = heard
    BY <1>3 DEF Handle, heard
  <2> QED
    BY <1>1, <1>3, <2>1 DEF Answer, Over
<1>4. CASE ~accepts
  <2>1. Handle(p, name, count, accepts) = SetParseError(heard, "Termination")
    BY <1>4 DEF Handle, heard
  <2> QED
    BY <1>1, <1>2, <1>4, <2>1 DEF Answer, Over
<1> QED
  BY <1>3, <1>4

LEMMA IterativeName ==
    ASSUME NEW state, NEW stack, NEW accepts \in BOOLEAN, NEW l, NEW name
    PROVE  ParseString(Iterating(state, stack, "None", NoEvent, No), l, name, accepts) =
             Iterating(state, stack, NameError(l, accepts), NameHeard(l, name),
                  Over(l = "string" /\ accepts))
<1>1. CASE l = "string"
  BY <1>1, IterativeHandles DEF ParseString, NameError, NameHeard
<1>2. CASE l # "string"
  <2>1. SetParseError(Iterating(state, stack, "None", NoEvent, No), "StringMissQuotationMark")
          = Iterating(state, stack, "StringMissQuotationMark", NoEvent, Yes)
    BY IterativeErrs
  <2> QED
    BY <1>2, <2>1 DEF ParseString, NameError, NameHeard, Over
<1> QED
  BY <1>1, <1>2

LEMMA IterativeScalar ==
    ASSUME NEW state, NEW stack, NEW accepts \in BOOLEAN, NEW l
    PROVE  ParseScalar(Iterating(state, stack, "None", NoEvent, No), l, accepts) =
             Iterating(state, stack, ScalarError(l, accepts), ScalarHeard(l),
                  Over(IsScalar(l) /\ accepts))
<1> DEFINE p == Iterating(state, stack, "None", NoEvent, No)
<1>1. CASE l \in {"string", "brokenString"}
  <2>1. ParseScalar(p, l, accepts) = ParseString(p, l, "String", accepts)
    <3> HIDE DEF p
    <3> QED BY <1>1, ScalarLexemes DEF ParseScalar
  <2>2. ParseString(p, l, "String", accepts) =
          Iterating(state, stack, NameError(l, accepts), NameHeard(l, "String"),
               Over(l = "string" /\ accepts))
    BY IterativeName
  <2>3. /\ IsScalar(l) <=> l = "string"
        /\ NameError(l, accepts) = ScalarError(l, accepts)
        /\ NameHeard(l, "String") = ScalarHeard(l)
    BY <1>1, ScalarLexemes DEF NameError, ScalarError, NameHeard, ScalarHeard, IsScalar
  <2> QED
    BY <2>1, <2>2, <2>3
<1>2. CASE l \notin {"string", "brokenString"} /\ IsScalar(l)
  <2>1. ParseScalar(p, l, accepts) = Handle(p, ScalarEvent[l], 0, accepts)
    BY <1>2 DEF ParseScalar, IsScalar
  <2>2. Handle(p, ScalarEvent[l], 0, accepts) =
          Iterating(state, stack, Answer(accepts), EventOf(ScalarEvent[l], 0), Over(accepts))
    BY IterativeHandles
  <2> QED
    BY <1>2, <2>1, <2>2 DEF ScalarError, ScalarHeard
<1>3. CASE l \notin {"string", "brokenString"} /\ ~IsScalar(l)
  <2>1. ParseScalar(p, l, accepts) = SetParseError(p, "ValueInvalid")
    BY <1>3 DEF ParseScalar, IsScalar
  <2>2. SetParseError(p, "ValueInvalid") = Iterating(state, stack, "ValueInvalid", NoEvent, Yes)
    BY IterativeErrs
  <2> QED
    BY <1>3, <2>1, <2>2 DEF ScalarError, ScalarHeard, Over
<1> QED
  BY <1>1, <1>2, <1>3
-----------------------------------------------------------------------------
(* The calls of the recursive parser, and the stack of an iterative one.   *)

Reading(kind, read, count) == [kind |-> kind, read |-> read, count |-> count]
Waiting(state, count) == [state |-> state, count |-> count]
Top(seq, e) == [seq EXCEPT ![Len(seq)] = e]
Pushed(seq, e) == Append(seq, e)

LEMMA ReadingFields ==
    ASSUME NEW kind, NEW read, NEW count
    PROVE  /\ Reading(kind, read, count).kind = kind
           /\ Reading(kind, read, count).read = read
           /\ Reading(kind, read, count).count = count
BY DEF Reading

LEMMA WaitingFields ==
    ASSUME NEW state, NEW count
    PROVE  Waiting(state, count).state = state /\ Waiting(state, count).count = count
BY DEF Waiting

LEMMA RecursiveNests ==
    ASSUME NEW frames, NEW root, NEW error, NEW event, NEW returned, NEW new
    PROVE  [Recursing(frames, root, error, event, returned) EXCEPT !.frames = new] =
             Recursing(new, root, error, event, returned)
<1> DEFINE p == Recursing(frames, root, error, event, returned)
<1>1. p = Recursing(frames, root, error, event, returned)
  OBVIOUS
<1> HIDE DEF p
<1>2. [p EXCEPT !.frames = new] = Recursing(new, root, error, event, returned)
  BY <1>1 DEF Recursing
<1> QED
  BY <1>1, <1>2

LEMMA IterativeStacks ==
    ASSUME NEW state, NEW stack, NEW error, NEW event, NEW returned, NEW new
    PROVE  [Iterating(state, stack, error, event, returned) EXCEPT !.stack = new] =
             Iterating(state, new, error, event, returned)
<1> DEFINE p == Iterating(state, stack, error, event, returned)
<1>1. p = Iterating(state, stack, error, event, returned)
  OBVIOUS
<1> HIDE DEF p
<1>2. [p EXCEPT !.stack = new] = Iterating(state, new, error, event, returned)
  BY <1>1 DEF Iterating
<1> QED
  BY <1>1, <1>2

LEMMA IterativeGoes ==
    ASSUME NEW state, NEW stack, NEW error, NEW event, NEW returned, NEW new
    PROVE  Goto(Iterating(state, stack, error, event, returned), new) =
             Iterating(new, stack, error, event, returned)
<1> DEFINE p == Iterating(state, stack, error, event, returned)
<1>1. p = Iterating(state, stack, error, event, returned)
  OBVIOUS
<1> HIDE DEF p
<1>2. Goto(p, new) = Iterating(new, stack, error, event, returned)
  BY <1>1 DEF Iterating, Goto
<1> QED
  BY <1>1, <1>2

LEMMA RecursiveReads ==
    ASSUME NEW frames, NEW root, NEW error, NEW event, NEW returned,
           NEW kind, NEW read, NEW count, NEW what,
           frames[Len(frames)] = Reading(kind, read, count)
    PROVE  Read(Recursing(frames, root, error, event, returned), what) =
             Recursing(Top(frames, Reading(kind, what, count)), root, error, event,
                       returned)
<1> DEFINE p == Recursing(frames, root, error, event, returned)
           f == frames[Len(frames)]
<1>1. p.frames = frames
  BY RecursiveFields
<1>2. [f EXCEPT !.read = what] = Reading(kind, what, count)
  <2> HIDE DEF f
  <2>1. f = Reading(kind, read, count)
    BY DEF f
  <2> QED
    BY <2>1 DEF Reading
<1> HIDE DEF p
<1>3. Read(p, what) = [p EXCEPT !.frames = [frames EXCEPT ![Len(frames)] =
                                              [frames[Len(frames)] EXCEPT !.read = what]]]
  BY <1>1, Zenon DEF Read
<1>4. @ = [p EXCEPT !.frames = Top(frames, Reading(kind, what, count))]
  BY <1>2, Zenon DEF Top
<1> HIDE DEF f
<1> QED
  BY <1>3, <1>4, RecursiveNests DEF p

LEMMA RecursiveCounts ==
    ASSUME NEW frames, NEW root, NEW error, NEW event, NEW returned,
           NEW kind, NEW read, NEW count,
           frames[Len(frames)] = Reading(kind, read, count)
    PROVE  Counted(Recursing(frames, root, error, event, returned)) =
             Recursing(Top(frames, Reading(kind, read, count + 1)), root, error, event,
                       returned)
<1> DEFINE p == Recursing(frames, root, error, event, returned)
           f == frames[Len(frames)]
<1>1. p.frames = frames
  BY RecursiveFields
<1>2. f.count = count /\ [f EXCEPT !.count = count + 1] = Reading(kind, read, count + 1)
  <2> DEFINE more == count + 1
  <2> HIDE DEF f, more
  <2>1. f = Reading(kind, read, count)
    BY DEF f
  <2>2. f.count = count
    BY <2>1, ReadingFields
  <2>3. [f EXCEPT !.count = more] = Reading(kind, read, more)
    BY <2>1 DEF Reading
  <2> QED
    BY <2>2, <2>3 DEF more
<1> HIDE DEF p
<1>3. Counted(p) = [p EXCEPT !.frames = [frames EXCEPT ![Len(frames)] =
             [frames[Len(frames)] EXCEPT !.count = frames[Len(frames)].count + 1]]]
  BY <1>1, Zenon DEF Counted
<1>4. @ = [p EXCEPT !.frames = Top(frames, Reading(kind, read, count + 1))]
  BY <1>2, Zenon DEF Top
<1> HIDE DEF f
<1> QED
  BY <1>3, <1>4, RecursiveNests DEF p

LEMMA IterativeCounts ==
    ASSUME NEW state, NEW stack, NEW error, NEW event, NEW returned,
           NEW back, NEW count, stack[Len(stack)] = Waiting(back, count)
    PROVE  CountTop(Iterating(state, stack, error, event, returned)) =
             Iterating(state, Top(stack, Waiting(back, count + 1)), error, event, returned)
<1> DEFINE p == Iterating(state, stack, error, event, returned)
           f == stack[Len(stack)]
<1>1. p.stack = stack
  BY IterativeFields
<1>2. f.count = count /\ [f EXCEPT !.count = count + 1] = Waiting(back, count + 1)
  <2> DEFINE more == count + 1
  <2> HIDE DEF f, more
  <2>1. f = Waiting(back, count)
    BY DEF f
  <2>2. f.count = count
    BY <2>1, WaitingFields
  <2>3. [f EXCEPT !.count = more] = Waiting(back, more)
    BY <2>1 DEF Waiting
  <2> QED
    BY <2>2, <2>3 DEF more
<1> HIDE DEF p
<1>3. CountTop(p) = [p EXCEPT !.stack = [stack EXCEPT ![Len(stack)] =
             [stack[Len(stack)] EXCEPT !.count = stack[Len(stack)].count + 1]]]
  BY <1>1, Zenon DEF CountTop
<1>4. @ = [p EXCEPT !.stack = Top(stack, Waiting(back, count + 1))]
  BY <1>2, Zenon DEF Top
<1> HIDE DEF f
<1> QED
  BY <1>3, <1>4, IterativeStacks DEF p

LEMMA RecursiveCalls ==
    ASSUME NEW frames, NEW root, NEW error, NEW event, NEW returned, NEW kind
    PROVE  Call(Recursing(frames, root, error, event, returned), kind) =
             Recursing(Pushed(frames, Reading(kind, "begin", 0)), root, error, event,
                       returned)
<1> DEFINE p == Recursing(frames, root, error, event, returned)
<1>1. p.frames = frames
  BY RecursiveFields
<1> HIDE DEF p
<1>2. Append(p.frames, Frame(kind)) = Pushed(frames, Reading(kind, "begin", 0))
  BY <1>1, Zenon DEF Frame, Reading, Pushed
<1>3. Call(p, kind) = [p EXCEPT !.frames = Pushed(frames, Reading(kind, "begin", 0))]
  BY <1>2, Zenon DEF Call
<1> QED
  BY <1>3, RecursiveNests DEF p

LEMMA RecursiveEnds ==
    ASSUME NEW frames, NEW root, NEW accepts \in BOOLEAN, NEW name, NEW count
    PROVE  EndCall(Recursing(frames, root, "None", NoEvent, No), name, count, accepts) =
             Recursing(Front(frames), root, Answer(accepts), EventOf(name, count),
                       Over(accepts))
<1> DEFINE p == Recursing(frames, root, "None", NoEvent, No)
<1>1. p.frames = frames
  BY RecursiveFields
<1> HIDE DEF p
<1>2. EndCall(p, name, count, accepts) =
        Handle([p EXCEPT !.frames = Front(frames)], name, count, accepts)
  BY <1>1, Zenon DEF EndCall
<1>3. [p EXCEPT !.frames = Front(frames)] =
        Recursing(Front(frames), root, "None", NoEvent, No)
  BY RecursiveNests DEF p
<1> QED
  BY <1>2, <1>3, RecursiveHandles DEF p

\* What begins with a bracket.
Kind(l) == IF l = "{" THEN "object" ELSE "array"
StartName(kind) == IF kind = "object" THEN "StartObject" ELSE "StartArray"
InitialOf(kind) == IF kind = "object" THEN "ObjectInitial" ELSE "ArrayInitial"

LEMMA RecursiveBegins ==
    ASSUME NEW frames, NEW root, NEW accepts \in BOOLEAN, NEW kind, NEW name
    PROVE  Handle(Call(Recursing(frames, root, "None", NoEvent, No), kind), name, 0,
                  accepts) =
             Recursing(Pushed(frames, Reading(kind, "begin", 0)), root,
                       Answer(accepts), EventOf(name, 0), Over(accepts))
<1>1. Call(Recursing(frames, root, "None", NoEvent, No), kind) =
        Recursing(Pushed(frames, Reading(kind, "begin", 0)), root, "None", NoEvent, No)
  BY RecursiveCalls
<1>2. Handle(Recursing(Pushed(frames, Reading(kind, "begin", 0)), root, "None",
                       NoEvent, No), name, 0, accepts) =
        Recursing(Pushed(frames, Reading(kind, "begin", 0)), root,
                  Answer(accepts), EventOf(name, 0), Over(accepts))
  BY RecursiveHandles
<1> QED
  BY <1>1, <1>2

LEMMA IterativeBegins ==
    ASSUME NEW state, NEW stack, NEW kind \in {"object", "array"}, NEW accepts \in BOOLEAN
    PROVE  TransitInitial(Iterating(state, stack, "None", NoEvent, No), InitialOf(kind),
                          accepts) =
             Iterating(state, Pushed(stack, Waiting(Restored(state), 0)),
                       Answer(accepts), EventOf(StartName(kind), 0), Over(accepts))
<1> DEFINE q == Iterating(state, stack, "None", NoEvent, No)
           new == Pushed(stack, Waiting(Restored(state), 0))
<1>1. q.stack = stack /\ q.state = state
  BY IterativeFields
<1>2. [q EXCEPT !.stack = new] = Iterating(state, new, "None", NoEvent, No)
  BY IterativeStacks
<1>3. Handle(Iterating(state, new, "None", NoEvent, No), StartName(kind), 0, accepts) =
        Iterating(state, new, Answer(accepts), EventOf(StartName(kind), 0), Over(accepts))
  BY IterativeHandles
<1> HIDE DEF q
<1>4. [q EXCEPT !.stack = Append(q.stack, [state |-> Restored(q.state), count |-> 0])]
        = [q EXCEPT !.stack = new]
  BY <1>1, Zenon DEF Waiting, Pushed
<1> HIDE DEF new
<1>5. (IF InitialOf(kind) = "ObjectInitial" THEN "StartObject" ELSE "StartArray") =
        StartName(kind)
  BY DEF InitialOf, StartName
<1>6. TransitInitial(q, InitialOf(kind), accepts) =
        Handle([q EXCEPT !.stack = new], StartName(kind), 0, accepts)
  BY <1>4, <1>5, Zenon DEF TransitInitial
<1> QED
  BY <1>2, <1>3, <1>6 DEF q, new

LEMMA IterativeEnds ==
    ASSUME NEW state, NEW stack, NEW name, NEW last, NEW accepts \in BOOLEAN,
           NEW back, NEW count, stack[Len(stack)] = Waiting(back, count)
    PROVE  TransitFinish(Iterating(state, stack, "None", NoEvent, No), name, last,
                         accepts) =
             Iterating(state, Front(stack), Answer(accepts),
                       EventOf(name, count + (IF state = last THEN 1 ELSE 0)),
                       Over(accepts))
<1> DEFINE q == Iterating(state, stack, "None", NoEvent, No)
           total == count + (IF state = last THEN 1 ELSE 0)
<1>1. q.stack = stack /\ q.state = state
  BY IterativeFields
<1>2. [q EXCEPT !.stack = Front(stack)] = Iterating(state, Front(stack), "None", NoEvent, No)
  BY IterativeStacks
<1>3. Handle(Iterating(state, Front(stack), "None", NoEvent, No), name, total, accepts) =
        Iterating(state, Front(stack), Answer(accepts), EventOf(name, total), Over(accepts))
  <2> HIDE DEF total
  <2> QED BY IterativeHandles
<1>4. Last(stack).count = count
  BY WaitingFields DEF Last
<1> HIDE DEF q
<1>5. TransitFinish(q, name, last, accepts) =
        Handle([q EXCEPT !.stack = Front(stack)], name, total, accepts)
  BY <1>1, <1>4, Zenon DEF TransitFinish
<1> HIDE DEF total
<1> QED
  BY <1>2, <1>3, <1>5 DEF q, total

-----------------------------------------------------------------------------
(* What reading does to the calls and to the stack.                        *)

Sound(kind, read, count) ==
    Reading(kind, read, count) \in Frames /\ CountsRight(Reading(kind, read, count))

LEMMA SoundFields ==
    ASSUME NEW kind, NEW read, NEW count
    PROVE  Sound(kind, read, count) <=>
             /\ kind \in {"object", "array"} /\ count \in Nat
             /\ kind = "object" => read \in ObjectReads
             /\ kind = "array" => read \in ArrayReads
             /\ read = "begin" => count = 0
             /\ read = "," => count # 0
BY DEF Sound, Reading, Frames, CountsRight, ObjectReads, ArrayReads

LEMMA Innermost ==
    ASSUME NEW frames, Nested(frames), frames # <<>>
    PROVE  \E kind, read, count :
             frames[Len(frames)] = Reading(kind, read, count) /\ Sound(kind, read, count)
<1> DEFINE f == frames[Len(frames)]
<1>1. f \in Frames /\ CountsRight(f)
  BY DEF Nested
<1> HIDE DEF f
<1>2. f = Reading(f.kind, f.read, f.count)
  BY <1>1 DEF Frames, Reading
<1>3. Sound(f.kind, f.read, f.count)
  BY <1>1, <1>2 DEF Sound
<1> QED
  BY <1>2, <1>3 DEF f

LEMMA NoElement ==
    ASSUME NEW S, NEW s \in Seq(S)
    PROVE  s = <<>> <=> Len(s) = 0
OBVIOUS

LEMMA TopNested ==
    ASSUME NEW frames, Nested(frames), frames # <<>>,
           NEW kind, NEW read, NEW count, Sound(kind, read, count)
    PROVE  LET new == Top(frames, Reading(kind, read, count))
           IN  /\ Nested(new) /\ new # <<>>
               /\ new[Len(new)] = Reading(kind, read, count)
<1> DEFINE f == Reading(kind, read, count)
           new == Top(frames, f)
<1>1. f \in Frames /\ CountsRight(f)
  BY DEF Sound
<1> HIDE DEF f
<1>2. frames \in Seq(Frames) /\ Len(frames) \in Nat \ {0}
  BY DEF Nested
<1>3. new \in Seq(Frames) /\ Len(new) = Len(frames)
  BY <1>1, <1>2, ExceptSeq DEF Top
<1> HIDE DEF new
<1>4. DOMAIN new = 1 .. Len(frames)
  BY <1>3
<1>5. \A n \in 1 .. Len(frames) : new[n] = IF n = Len(frames) THEN f ELSE frames[n]
  BY <1>1, <1>2 DEF Top, new
<1>6. Nested(new)
  <2>1. \A n \in 1 .. Len(frames) : CountsRight(frames[n])
    BY <1>2 DEF Nested
  <2>2. \A n \in 1 .. Len(frames) : n < Len(frames) => frames[n].read = "value"
    BY <1>2 DEF Nested
  <2>3. \A n \in 1 .. Len(frames) : CountsRight(new[n])
    BY <1>1, <1>5, <2>1
  <2>4. \A n \in 1 .. Len(frames) : n < Len(frames) => new[n].read = "value"
    BY <1>2, <1>5, <2>2
  <2> QED
    BY <1>3, <1>4, <2>3, <2>4 DEF Nested
<1>7. new # <<>> /\ new[Len(new)] = f
  <2>1. Len(frames) \in 1 .. Len(frames)
    BY <1>2
  <2> QED
    BY <1>2, <1>3, <1>5, <2>1, NoElement
<1> QED
  BY <1>6, <1>7 DEF new, f

LEMMA PushedNested ==
    ASSUME NEW frames, Nested(frames), NEW kind \in {"object", "array"},
           frames # <<>> => frames[Len(frames)].read = "value"
    PROVE  LET new == Pushed(frames, Reading(kind, "begin", 0))
           IN  /\ Nested(new) /\ new # <<>>
               /\ new[Len(new)] = Reading(kind, "begin", 0)
<1> DEFINE f == Reading(kind, "begin", 0)
           new == Pushed(frames, f)
<1>1. f \in Frames /\ CountsRight(f)
  BY DEF Reading, Frames, CountsRight, ObjectReads, ArrayReads
<1> HIDE DEF f
<1>2. frames \in Seq(Frames) /\ Len(frames) \in Nat
  BY DEF Nested
<1>3. new \in Seq(Frames) /\ Len(new) = Len(frames) + 1
  BY <1>1, <1>2 DEF Pushed
<1> HIDE DEF new
<1>4. DOMAIN new = 1 .. Len(frames) + 1
  BY <1>3
<1>5. \A n \in 1 .. Len(frames) + 1 : new[n] = IF n = Len(frames) + 1 THEN f ELSE frames[n]
  BY <1>1, <1>2 DEF Pushed, new
<1> HIDE DEF new
<1>6. Nested(new)
  <2>1. \A n \in DOMAIN new : CountsRight(new[n])
    BY <1>1, <1>2, <1>3, <1>4, <1>5 DEF Nested
  <2>2. \A n \in DOMAIN new : n < Len(new) => new[n].read = "value"
    <3> SUFFICES ASSUME NEW n \in 1 .. Len(frames) PROVE frames[n].read = "value"
      BY <1>2, <1>3, <1>4, <1>5
    <3>1. CASE n = Len(frames)
      BY <3>1, <1>2
    <3>2. CASE n < Len(frames)
      BY <3>2, <1>2 DEF Nested
    <3> QED
      BY <3>1, <3>2, <1>2
  <2> QED
    BY <1>3, <2>1, <2>2 DEF Nested
<1>7. new # <<>> /\ new[Len(new)] = f
  BY <1>2, <1>3, <1>4, <1>5, NoElement
<1> QED
  BY <1>6, <1>7 DEF new, f

LEMMA FrontNested ==
    ASSUME NEW frames, Nested(frames), frames # <<>>
    PROVE  /\ Nested(Front(frames))
           /\ Front(frames) = <<>> <=> Len(frames) = 1
           /\ Front(frames) # <<>> =>
                /\ Front(frames)[Len(Front(frames))] = frames[Len(frames) - 1]
                /\ frames[Len(frames) - 1].read = "value"
<1> DEFINE new == Front(frames)
<1>1. frames \in Seq(Frames) /\ Len(frames) \in Nat \ {0}
  BY DEF Nested
<1>2. new \in Seq(Frames) /\ Len(new) = Len(frames) - 1
  <2> DEFINE last == Len(frames) - 1
  <2>1. last \in Nat /\ \A n \in 1 .. last : frames[n] \in Frames
    BY <1>1
  <2> HIDE DEF last
  <2>2. SubSeq(frames, 1, last) \in Seq(Frames)
    BY <2>1, SubSeqProperties
  <2>3. Len(SubSeq(frames, 1, last)) = last
    BY <2>1, SubSeqProperties
  <2> QED
    BY <2>2, <2>3 DEF Front, last
<1>3. \A n \in 1 .. Len(frames) - 1 : new[n] = frames[n]
  BY <1>1 DEF Front
<1> HIDE DEF new
<1>4. DOMAIN new = 1 .. Len(frames) - 1
  BY <1>1, <1>2
<1>5. Nested(new)
  BY <1>1, <1>2, <1>3, <1>4 DEF Nested
<1>6. new = <<>> <=> Len(frames) = 1
  <2>1. new = <<>> <=> Len(new) = 0
    BY <1>2, NoElement
  <2> QED
    BY <1>1, <1>2, <2>1
<1>7. ASSUME new # <<>>
      PROVE  new[Len(new)] = frames[Len(frames) - 1] /\ frames[Len(frames) - 1].read = "value"
  <2>1. Len(frames) - 1 \in 1 .. Len(frames) - 1
    BY <1>1, <1>6, <1>7
  <2> QED
    BY <1>1, <1>2, <1>3, <2>1 DEF Nested
<1> QED
  BY <1>5, <1>6, <1>7 DEF new
LEMMA BackState ==
    ASSUME NEW frames, NEW n
    PROVE  Back(frames, n) \in Backs
BY Zenon DEF Back, After, Backs

LEMMA StackTop ==
    ASSUME NEW frames, Nested(frames), frames # <<>>, NEW stack, Stacked(stack, frames),
           NEW kind, NEW read, NEW count, frames[Len(frames)] = Reading(kind, read, count)
    PROVE  stack[Len(stack)] = Waiting(Back(frames, Len(frames)), count)
<1>1. Len(frames) \in Nat \ {0} /\ Len(stack) = Len(frames) /\ stack \in Seq(Entries)
  BY DEF Nested, Stacked
<1>2. Len(frames) \in 1 .. Len(frames)
  BY <1>1
<1> DEFINE e == stack[Len(stack)]
<1>3. e \in Entries
  BY <1>1, <1>2
<1>4. e.count = count /\ e.state = Back(frames, Len(frames))
  BY <1>1, <1>2, ReadingFields DEF Stacked
<1> HIDE DEF e
<1>5. e = Waiting(e.state, e.count)
  BY <1>3 DEF Entries, Waiting
<1> QED
  BY <1>4, <1>5 DEF e

LEMMA StackReads ==
    ASSUME NEW frames, Nested(frames), frames # <<>>, NEW stack, Stacked(stack, frames),
           NEW kind, NEW read, NEW count, frames[Len(frames)] = Reading(kind, read, count),
           Sound(kind, read, count), NEW what, Sound(kind, what, count)
    PROVE  Stacked(stack, Top(frames, Reading(kind, what, count)))
<1> DEFINE f == Reading(kind, what, count)
           new == Top(frames, f)
<1>1. frames \in Seq(Frames) /\ Len(frames) \in Nat \ {0} /\ f \in Frames
  BY DEF Nested, Sound
<1>2. f.kind = kind /\ f.count = count
      /\ frames[Len(frames)].kind = kind /\ frames[Len(frames)].count = count
  BY ReadingFields
<1> HIDE DEF f
<1>3. \A n \in 1 .. Len(frames) : new[n] = IF n = Len(frames) THEN f ELSE frames[n]
  BY <1>1 DEF Top
<1>4. Len(new) = Len(frames)
  BY <1>1, ExceptSeq DEF Top
<1> HIDE DEF new
<1>5. \A n \in 1 .. Len(frames) :
        new[n].kind = frames[n].kind /\ new[n].count = frames[n].count
  BY <1>1, <1>2, <1>3
<1>6. \A n \in 1 .. Len(frames) : Back(new, n) = Back(frames, n)
  BY <1>1, <1>5 DEF Back
<1>7. Stacked(stack, new)
  BY <1>4, <1>5, <1>6 DEF Stacked
<1> QED
  BY <1>7 DEF new, f

LEMMA StackCounts ==
    ASSUME NEW frames, Nested(frames), frames # <<>>, NEW stack, Stacked(stack, frames),
           NEW kind, NEW read, NEW count, frames[Len(frames)] = Reading(kind, read, count),
           Sound(kind, read, count),
           NEW what, NEW more \in Nat, Sound(kind, what, more)
    PROVE  Stacked(Top(stack, Waiting(Back(frames, Len(frames)), more)),
                   Top(frames, Reading(kind, what, more)))
<1> DEFINE f == Reading(kind, what, more)
           new == Top(frames, f)
           e == Waiting(Back(frames, Len(frames)), more)
           top == Top(stack, e)
<1>1. frames \in Seq(Frames) /\ Len(frames) \in Nat \ {0} /\ f \in Frames
  BY DEF Nested, Sound
<1>2. f.kind = kind /\ f.count = more /\ frames[Len(frames)].kind = kind
      /\ e.count = more /\ e.state = Back(frames, Len(frames))
  BY ReadingFields, WaitingFields
<1>3. stack \in Seq(Entries) /\ Len(stack) = Len(frames)
  BY DEF Stacked
<1>4. e \in Entries
  BY BackState DEF Waiting, Entries
<1> HIDE DEF f, e
<1>5. \A n \in 1 .. Len(frames) : new[n] = IF n = Len(frames) THEN f ELSE frames[n]
  BY <1>1 DEF Top
<1>6. \A n \in 1 .. Len(frames) : top[n] = IF n = Len(frames) THEN e ELSE stack[n]
  BY <1>1, <1>3, <1>4 DEF Top
<1>7. Len(new) = Len(frames)
  BY <1>1, ExceptSeq DEF Top
<1>8. top \in Seq(Entries) /\ Len(top) = Len(frames)
  BY <1>1, <1>3, <1>4, ExceptSeq DEF Top
<1> HIDE DEF new, top
<1>9. \A n \in 1 .. Len(frames) : new[n].kind = frames[n].kind
  BY <1>1, <1>2, <1>5
<1>10. \A n \in 1 .. Len(frames) : Back(new, n) = Back(frames, n)
  BY <1>1, <1>9 DEF Back
<1>11. \A n \in 1 .. Len(frames) :
         top[n].count = new[n].count /\ top[n].state = Back(frames, n)
  BY <1>1, <1>2, <1>5, <1>6 DEF Stacked
<1>12. Stacked(top, new)
  BY <1>7, <1>8, <1>10, <1>11 DEF Stacked
<1> QED
  BY <1>12 DEF new, f, top, e

LEMMA StackPushes ==
    ASSUME NEW frames, Nested(frames), NEW stack, Stacked(stack, frames),
           NEW kind \in {"object", "array"}
    PROVE  Stacked(Pushed(stack, Waiting(Back(frames, Len(frames) + 1), 0)),
                   Pushed(frames, Reading(kind, "begin", 0)))
<1> DEFINE f == Reading(kind, "begin", 0)
           new == Pushed(frames, f)
           e == Waiting(Back(frames, Len(frames) + 1), 0)
           top == Pushed(stack, e)
<1>1. frames \in Seq(Frames) /\ Len(frames) \in Nat
  BY DEF Nested
<1>2. f.count = 0 /\ e.count = 0 /\ e.state = Back(frames, Len(frames) + 1)
  BY ReadingFields, WaitingFields
<1>3. stack \in Seq(Entries) /\ Len(stack) = Len(frames)
  BY DEF Stacked
<1>4. e \in Entries
  BY BackState DEF Waiting, Entries
<1>5. f \in Frames
  BY DEF Reading, Frames, ObjectReads, ArrayReads
<1> HIDE DEF f, e
<1>6. \A n \in 1 .. Len(frames) + 1 : new[n] = IF n = Len(frames) + 1 THEN f ELSE frames[n]
  BY <1>1, <1>5 DEF Pushed
<1>7. \A n \in 1 .. Len(frames) + 1 : top[n] = IF n = Len(frames) + 1 THEN e ELSE stack[n]
  BY <1>1, <1>3, <1>4 DEF Pushed
<1>8. Len(new) = Len(frames) + 1
  BY <1>1, <1>5 DEF Pushed
<1>9. top \in Seq(Entries) /\ Len(top) = Len(frames) + 1
  BY <1>1, <1>3, <1>4 DEF Pushed
<1> HIDE DEF new, top
<1>10. \A n \in 1 .. Len(frames) + 1 : Back(new, n) = Back(frames, n)
  BY <1>1, <1>6 DEF Back
<1>11. \A n \in 1 .. Len(frames) + 1 :
         top[n].count = new[n].count /\ top[n].state = Back(frames, n)
  BY <1>1, <1>2, <1>6, <1>7 DEF Stacked
<1>12. Stacked(top, new)
  BY <1>8, <1>9, <1>10, <1>11 DEF Stacked
<1> QED
  BY <1>12 DEF new, f, top, e

LEMMA StackPops ==
    ASSUME NEW frames, Nested(frames), frames # <<>>, NEW stack, Stacked(stack, frames)
    PROVE  Stacked(Front(stack), Front(frames))
<1> DEFINE last == Len(frames) - 1
<1>1. frames \in Seq(Frames) /\ Len(frames) \in Nat \ {0}
  BY DEF Nested
<1>2. stack \in Seq(Entries) /\ Len(stack) = Len(frames)
  BY DEF Stacked
<1>3. last \in Nat
      /\ \A n \in 1 .. last : n \in 1 .. Len(frames) /\ frames[n] \in Frames
                              /\ stack[n] \in Entries
  BY <1>1, <1>2
<1> HIDE DEF last
<1>4. Len(SubSeq(frames, 1, last)) = last
  BY <1>3, SubSeqProperties
<1>5. SubSeq(stack, 1, last) \in Seq(Entries)
  BY <1>3, SubSeqProperties
<1>6. Len(SubSeq(stack, 1, last)) = last
  BY <1>3, SubSeqProperties
<1>7. \A n \in 1 .. last : SubSeq(frames, 1, last)[n] = frames[n]
  BY <1>3
<1>8. \A n \in 1 .. last : SubSeq(stack, 1, last)[n] = stack[n]
  BY <1>3
<1>9. Front(frames) = SubSeq(frames, 1, last) /\ Front(stack) = SubSeq(stack, 1, last)
  BY <1>2 DEF Front, last
<1> DEFINE new == Front(frames)
           top == Front(stack)
<1>10. Len(new) = last /\ Len(top) = last /\ top \in Seq(Entries)
  BY <1>4, <1>5, <1>6, <1>9
<1>11. \A n \in 1 .. last : new[n] = frames[n] /\ top[n] = stack[n]
  BY <1>7, <1>8, <1>9
<1> HIDE DEF new, top
<1>12. \A n \in 1 .. last : Back(new, n) = Back(frames, n)
  BY <1>3, <1>11 DEF Back
<1>13. \A n \in 1 .. last :
         top[n].count = new[n].count /\ top[n].state = Back(new, n)
  BY <1>3, <1>11, <1>12 DEF Stacked
<1>14. Stacked(top, new)
  BY <1>10, <1>13 DEF Stacked
<1> QED
  BY <1>14 DEF new, top

-----------------------------------------------------------------------------
(* The recursive parser and an iterative one read the same lexeme.         *)

Ongoing(frames, root, stack) ==
    /\ Nested(frames) /\ root \in BOOLEAN
    /\ frames # <<>> => root
    /\ Stacked(stack, frames)

\* Both read on, where they were together, or both have returned.
Outcome(r, q) ==
    \/ \E frames, stack, event :
         /\ r = Recursing(frames, Yes, "None", event, No)
         /\ q = Iterating(StateOf(frames, Yes), stack, "None", event, No)
         /\ Ongoing(frames, Yes, stack)
    \/ /\ r.returned = Yes /\ q.returned = Yes
       /\ q.event = r.event /\ q.error = r.error

\* With kParseStopWhenDoneFlag the root is the end.
Stop(whole, returned) == IF whole /\ "stopWhenDone" \in flags THEN Yes ELSE returned

LEMMA Truths == Yes /\ ~No /\ Yes \in BOOLEAN /\ No \in BOOLEAN
BY DEF Yes, No

LEMMA Parses ==
    ASSUME NEW p, NEW l, NEW accepts,
           NEW frames, NEW root, NEW error, NEW event, NEW returned,
           Resume(p, l, accepts) = Recursing(frames, root, error, event, returned)
    PROVE  Parse(p, l, accepts) =
             Recursing(frames, root, error, event, Stop(root /\ frames = <<>>, returned))
<1> DEFINE r == Recursing(frames, root, error, event, returned)
<1>1. r.root = root /\ r.frames = frames
  BY RecursiveFields
<1>2. Return(r) = Recursing(frames, root, error, event, Yes)
  BY RecursiveReturns
<1>3. r = Recursing(frames, root, error, event, returned)
  OBVIOUS
<1> HIDE DEF r
<1>4. Parse(p, l, accepts) = Whole(r, root /\ frames = <<>>)
  BY <1>1, <1>3, Zenon DEF Parse
<1> QED
  BY <1>2, <1>3, <1>4, Zenon DEF Whole, Stop

LEMMA Advances ==
    ASSUME NEW q, NEW l, NEW accepts, NEW s,
           q.state = s,
           NEW state, NEW stack, NEW error, NEW event, NEW returned,
           Transit(q, l, Predict(s, Tokenize(l)), accepts) =
             Iterating(state, stack, error, event, returned)
    PROVE  /\ state # "Error" =>
                Advance(q, l, accepts) =
                  Iterating(state, stack, error, event, Stop(state = "Finish", returned))
           /\ state = "Error" /\ error # "None" =>
                Advance(q, l, accepts) = Iterating(s, stack, error, event, Yes)
           /\ state = "Error" /\ error = "None" =>
                Advance(q, l, accepts) = Iterating(s, stack, ErrorOf[s], event, Yes)
<1> DEFINE d == Iterating(state, stack, error, event, returned)
           e == Iterating(s, stack, error, event, returned)
<1>1. d.state = state /\ e.error = error
  BY IterativeFields
<1>2. Return(d) = Iterating(state, stack, error, event, Yes)
  BY IterativeReturns
<1>3. Goto(d, s) = e
  BY IterativeGoes
<1>4. Return(e) = Iterating(s, stack, error, event, Yes)
  BY IterativeReturns
<1>5. error = "None" =>
        SetParseError(e, ErrorOf[s]) = Iterating(s, stack, ErrorOf[s], event, Yes)
  BY IterativeErrs
<1>6. Transit(q, l, Predict(s, Tokenize(l)), accepts) = d
  OBVIOUS
<1>7. d = Iterating(state, stack, error, event, returned)
  OBVIOUS
<1> HIDE DEF d, e
<1>8. Advance(q, l, accepts) =
        IF state = "Error" THEN HandleError(e, s) ELSE Whole(d, state = "Finish")
  BY <1>1, <1>3, <1>6, Zenon DEF Advance
<1>9. CASE state # "Error"
  BY <1>2, <1>7, <1>8, <1>9, Zenon DEF Whole, Stop
<1>10. CASE state = "Error"
  BY <1>1, <1>4, <1>5, <1>8, <1>10, Zenon DEF HandleError
<1> QED
  BY <1>9, <1>10

LEMMA Whereabouts ==
    ASSUME NEW frames, NEW root, Nested(frames)
    PROVE  /\ StateOf(frames, root) = "Finish" <=> frames = <<>> /\ root
           /\ StateOf(frames, root) # "Error"
<1>1. CASE frames = <<>>
  BY <1>1 DEF StateOf
<1>2. CASE frames # <<>>
  <2>1. PICK kind, read, count :
          frames[Len(frames)] = Reading(kind, read, count) /\ Sound(kind, read, count)
    BY <1>2, Innermost
  <2> DEFINE f == frames[Len(frames)]
  <2>2. /\ f.kind \in {"object", "array"}
        /\ f.kind = "object" => f.read \in ObjectReads
        /\ f.kind = "array" => f.read \in ArrayReads
    <3>1. /\ kind \in {"object", "array"}
          /\ kind = "object" => read \in ObjectReads
          /\ kind = "array" => read \in ArrayReads
      BY <2>1, SoundFields
    <3>2. f.kind = kind /\ f.read = read
      BY <2>1, ReadingFields
    <3> QED
      BY <3>1, <3>2
  <2>3. StateOf(frames, root) = StateIn(f.kind, f.read)
    BY <1>2 DEF StateOf
  <2> HIDE DEF f
  <2>4. StateIn(f.kind, f.read) \notin {"Finish", "Error"}
    BY <2>2 DEF StateIn, ObjectReads, ArrayReads
  <2> QED
    BY <1>2, <2>3, <2>4
<1> QED
  BY <1>1, <1>2

LEMMA Stops ==
    ASSUME NEW frames, NEW root, NEW state, NEW stack, NEW error, NEW event
    PROVE  Outcome(Recursing(frames, root, error, event, Yes),
                   Iterating(state, stack, error, event, Yes))
<1> DEFINE r == Recursing(frames, root, error, event, Yes)
           q == Iterating(state, stack, error, event, Yes)
<1>1. r.returned = Yes /\ r.event = event /\ r.error = error
  BY RecursiveFields
<1>2. q.returned = Yes /\ q.event = event /\ q.error = error
  BY IterativeFields
<1> HIDE DEF r, q
<1>3. Outcome(r, q)
  BY <1>1, <1>2, Zenon DEF Outcome
<1> QED
  BY <1>3 DEF r, q

\* What both make of a lexeme that is accepted,
LEMMA BothGoOn ==
    ASSUME NEW p, NEW q, NEW l, NEW accepts, NEW s, q.state = s,
           NEW frames, NEW stack, NEW event, Ongoing(frames, Yes, stack),
           Resume(p, l, accepts) = Recursing(frames, Yes, "None", event, No),
           Transit(q, l, Predict(s, Tokenize(l)), accepts) =
             Iterating(StateOf(frames, Yes), stack, "None", event, No)
    PROVE  Outcome(Parse(p, l, accepts), Advance(q, l, accepts))
<1> DEFINE w == StateOf(frames, Yes)
           ret == Stop(frames = <<>>, No)
<1>1. w # "Error" /\ (w = "Finish" <=> frames = <<>>)
  BY Whereabouts, Truths DEF Ongoing
<1>2. Stop(Yes /\ frames = <<>>, No) = ret /\ Stop(w = "Finish", No) = ret
  BY <1>1, Truths DEF Stop
<1>3. Parse(p, l, accepts) = Recursing(frames, Yes, "None", event, ret)
  BY <1>2, Parses
<1>4. Advance(q, l, accepts) = Iterating(w, stack, "None", event, ret)
  <2> HIDE DEF ret
  <2> QED BY <1>1, <1>2, Advances
<1>5. ret = No \/ ret = Yes
  BY DEF Stop
<1> HIDE DEF ret
<1>6. CASE ret = No
  BY <1>3, <1>4, <1>6 DEF Outcome
<1>7. CASE ret = Yes
  <2>1. Outcome(Recursing(frames, Yes, "None", event, Yes),
                Iterating(w, stack, "None", event, Yes))
    BY Stops
  <2> QED
    BY <1>3, <1>4, <1>7, <2>1
<1> QED
  BY <1>5, <1>6, <1>7

\* of one that is broken or refused,
LEMMA BothFail ==
    ASSUME NEW p, NEW q, NEW l, NEW accepts, NEW s, q.state = s,
           NEW frames, NEW root, NEW stack, NEW event, NEW error, error # "None",
           Resume(p, l, accepts) = Recursing(frames, root, error, event, Yes),
           Transit(q, l, Predict(s, Tokenize(l)), accepts) =
             Iterating("Error", stack, error, event, Yes)
    PROVE  Outcome(Parse(p, l, accepts), Advance(q, l, accepts))
<1>1. Stop(root /\ frames = <<>>, Yes) = Yes
  BY DEF Stop
<1>2. Parse(p, l, accepts) = Recursing(frames, root, error, event, Yes)
  BY <1>1, Parses
<1>3. Advance(q, l, accepts) = Iterating(s, stack, error, event, Yes)
  BY Advances
<1> QED
  BY <1>2, <1>3, Stops

\* and of one that is not expected.
LEMMA BothRefuse ==
    ASSUME NEW p, NEW q, NEW l, NEW accepts, NEW s, q.state = s,
           NEW frames, NEW root, NEW stack, NEW event,
           Resume(p, l, accepts) = Recursing(frames, root, ErrorOf[s], event, Yes),
           Transit(q, l, Predict(s, Tokenize(l)), accepts) =
             Iterating("Error", stack, "None", event, No)
    PROVE  Outcome(Parse(p, l, accepts), Advance(q, l, accepts))
<1>1. Stop(root /\ frames = <<>>, Yes) = Yes
  BY DEF Stop
<1>2. Parse(p, l, accepts) = Recursing(frames, root, ErrorOf[s], event, Yes)
  BY <1>1, Parses
<1>3. Advance(q, l, accepts) = Iterating(s, stack, ErrorOf[s], event, Yes)
  BY Advances
<1> QED
  BY <1>2, <1>3, Stops

-----------------------------------------------------------------------------
(* What the iterative parsers do on their way to a state.                  *)

Settled(error, state) == IF error = "None" THEN state ELSE "Error"

LEMMA Settles ==
    ASSUME NEW state, NEW stack, NEW error, NEW event, NEW returned, NEW dst
    PROVE  Settle(Iterating(state, stack, error, event, returned), dst) =
             Iterating(Settled(error, dst), stack, error, event, returned)
<1> DEFINE q == Iterating(state, stack, error, event, returned)
<1>1. q.error = error
  BY IterativeFields
<1>2. Goto(q, Settled(error, dst)) =
        Iterating(Settled(error, dst), stack, error, event, returned)
  BY IterativeGoes
<1> HIDE DEF q
<1>3. Settle(q, dst) = Goto(q, Settled(error, dst))
  BY <1>1, Zenon DEF Settle, Settled
<1> QED
  BY <1>2, <1>3 DEF q

LEMMA Hearings ==
    ASSUME NEW state, NEW stack, NEW error, NEW event, NEW returned, NEW dst,
           NEW accepts \in BOOLEAN
    PROVE  Heard(Iterating(state, stack, error, event, returned), dst, accepts) =
             Iterating(Settled(Answer(accepts), dst), stack, error, event, returned)
<1> DEFINE q == Iterating(state, stack, error, event, returned)
           next == Settled(Answer(accepts), dst)
<1>1. Goto(q, next) = Iterating(next, stack, error, event, returned)
  BY IterativeGoes
<1>2. next = IF accepts THEN dst ELSE "Error"
  BY DEF Settled, Answer
<1> HIDE DEF q, next
<1>3. Heard(q, dst, accepts) = Goto(q, next)
  BY <1>2, Zenon DEF Heard
<1> QED
  BY <1>1, <1>3 DEF q, next

LEMMA ScalarTransit ==
    ASSUME NEW s, NEW stack, NEW l, NEW accepts \in BOOLEAN,
           NEW dst, dst \in {"Value", "MemberValue", "Element"},
           NEW next, next = (IF dst = "Value" THEN "Finish" ELSE dst)
    PROVE  Transit(Iterating(s, stack, "None", NoEvent, No), l, dst, accepts) =
             Iterating(Settled(ScalarError(l, accepts), next), stack,
                       ScalarError(l, accepts), ScalarHeard(l),
                       Over(IsScalar(l) /\ accepts))
<1> DEFINE q == Iterating(s, stack, "None", NoEvent, No)
           over == Over(IsScalar(l) /\ accepts)
<1>1. ParseScalar(q, l, accepts) =
        Iterating(s, stack, ScalarError(l, accepts), ScalarHeard(l), over)
  BY IterativeScalar
<1> HIDE DEF q, over
<1>2. Transit(q, l, dst, accepts) = Settle(ParseScalar(q, l, accepts), next)
  BY DEF Transit
<1>3. Settle(Iterating(s, stack, ScalarError(l, accepts), ScalarHeard(l), over), next) =
        Iterating(Settled(ScalarError(l, accepts), next), stack, ScalarError(l, accepts),
                  ScalarHeard(l), over)
  BY Settles
<1> QED
  BY <1>1, <1>2, <1>3 DEF q, over

LEMMA NameTransit ==
    ASSUME NEW s, NEW stack, NEW l, NEW accepts \in BOOLEAN
    PROVE  Transit(Iterating(s, stack, "None", NoEvent, No), l, "MemberKey", accepts) =
             Iterating(Settled(NameError(l, accepts), "MemberKey"), stack,
                       NameError(l, accepts), NameHeard(l, "Key"),
                       Over(l = "string" /\ accepts))
<1> DEFINE q == Iterating(s, stack, "None", NoEvent, No)
           over == Over(l = "string" /\ accepts)
<1>1. ParseString(q, l, "Key", accepts) =
        Iterating(s, stack, NameError(l, accepts), NameHeard(l, "Key"), over)
  BY IterativeName
<1> HIDE DEF q, over
<1>2. Transit(q, l, "MemberKey", accepts) =
        Settle(ParseString(q, l, "Key", accepts), "MemberKey")
  BY DEF Transit
<1>3. Settle(Iterating(s, stack, NameError(l, accepts), NameHeard(l, "Key"), over),
             "MemberKey") =
        Iterating(Settled(NameError(l, accepts), "MemberKey"), stack,
                  NameError(l, accepts), NameHeard(l, "Key"), over)
  BY Settles
<1> QED
  BY <1>1, <1>2, <1>3 DEF q, over

LEMMA BeginTransit ==
    ASSUME NEW s, NEW stack, NEW l, NEW accepts \in BOOLEAN,
           NEW kind, kind \in {"object", "array"}
    PROVE  Transit(Iterating(s, stack, "None", NoEvent, No), l, InitialOf(kind), accepts) =
             Iterating(Settled(Answer(accepts), InitialOf(kind)),
                       Pushed(stack, Waiting(Restored(s), 0)), Answer(accepts),
                       EventOf(StartName(kind), 0), Over(accepts))
<1> DEFINE q == Iterating(s, stack, "None", NoEvent, No)
           dst == InitialOf(kind)
           new == Pushed(stack, Waiting(Restored(s), 0))
           d == Iterating(s, new, Answer(accepts), EventOf(StartName(kind), 0), Over(accepts))
<1>1. TransitInitial(q, dst, accepts) = d
  BY IterativeBegins
<1>2. Heard(d, dst, accepts) =
        Iterating(Settled(Answer(accepts), dst), new, Answer(accepts),
                  EventOf(StartName(kind), 0), Over(accepts))
  <2> HIDE DEF new, dst
  <2> QED BY Hearings
<1>3. dst \in {"ObjectInitial", "ArrayInitial"}
  BY DEF InitialOf
<1> HIDE DEF q, d, dst
<1>4. Transit(q, l, dst, accepts) = Heard(TransitInitial(q, dst, accepts), dst, accepts)
  BY <1>3 DEF Transit
<1> QED
  BY <1>1, <1>2, <1>4 DEF q, dst

LEMMA DelimiterTransit ==
    ASSUME NEW s, NEW stack, NEW l, NEW accepts \in BOOLEAN,
           NEW dst, dst \in {"MemberDelimiter", "ElementDelimiter"},
           NEW back, NEW count, stack[Len(stack)] = Waiting(back, count)
    PROVE  Transit(Iterating(s, stack, "None", NoEvent, No), l, dst, accepts) =
             Iterating(dst, Top(stack, Waiting(back, count + 1)), "None", NoEvent, No)
<1> DEFINE q == Iterating(s, stack, "None", NoEvent, No)
           new == Top(stack, Waiting(back, count + 1))
<1>1. CountTop(q) = Iterating(s, new, "None", NoEvent, No)
  BY IterativeCounts
<1>2. Goto(Iterating(s, new, "None", NoEvent, No), dst) =
        Iterating(dst, new, "None", NoEvent, No)
  <2> HIDE DEF new
  <2> QED BY IterativeGoes
<1> HIDE DEF q, new
<1>3. Transit(q, l, dst, accepts) = Goto(CountTop(q), dst)
  BY DEF Transit
<1> QED
  BY <1>1, <1>2, <1>3 DEF q, new

LEMMA GotoTransit ==
    ASSUME NEW s, NEW stack, NEW l, NEW accepts \in BOOLEAN,
           NEW dst, dst \in {"Error", "KeyValueDelimiter"}
    PROVE  Transit(Iterating(s, stack, "None", NoEvent, No), l, dst, accepts) =
             Iterating(dst, stack, "None", NoEvent, No)
<1> DEFINE q == Iterating(s, stack, "None", NoEvent, No)
<1>1. Goto(q, dst) = Iterating(dst, stack, "None", NoEvent, No)
  BY IterativeGoes
<1> HIDE DEF q
<1>2. Transit(q, l, dst, accepts) = Goto(q, dst)
  BY DEF Transit
<1> QED
  BY <1>1, <1>2 DEF q

\* A bracket closes what may be closed.
FinishOf(kind) == IF kind = "object" THEN "ObjectFinish" ELSE "ArrayFinish"
EndName(kind) == IF kind = "object" THEN "EndObject" ELSE "EndArray"
MissingAfterComma(kind) == IF kind = "object" THEN "ObjectMissName" ELSE "ValueInvalid"
Delimiters == {"MemberDelimiter", "ElementDelimiter"}
Behind(back) == IF back = "Start" THEN "Finish" ELSE back

LEMMA CloseTransit ==
    ASSUME NEW s, NEW stack, NEW l, NEW accepts \in BOOLEAN,
           NEW kind, kind \in {"object", "array"},
           NEW back, NEW count, stack[Len(stack)] = Waiting(back, count),
           s \notin Delimiters \/ "trailingCommas" \in flags
    PROVE  Transit(Iterating(s, stack, "None", NoEvent, No), l, FinishOf(kind), accepts) =
             Iterating(Settled(Answer(accepts), Behind(back)), Front(stack),
                       Answer(accepts),
                       EventOf(EndName(kind),
                               count + (IF s = After(kind) THEN 1 ELSE 0)),
                       Over(accepts))
<1> DEFINE q == Iterating(s, stack, "None", NoEvent, No)
           event == EventOf(EndName(kind), count + (IF s = After(kind) THEN 1 ELSE 0))
           d == Iterating(s, Front(stack), Answer(accepts), event, Over(accepts))
<1>1. TransitFinish(q, EndName(kind), After(kind), accepts) = d
  BY IterativeEnds
<1>2. q.state = s /\ q.stack = stack
  BY IterativeFields
<1>3. Heard(d, Behind(back), accepts) =
        Iterating(Settled(Answer(accepts), Behind(back)), Front(stack), Answer(accepts),
                  event, Over(accepts))
  <2> HIDE DEF event
  <2> QED BY Hearings
<1>4. Last(stack).state = back
  BY WaitingFields DEF Last
<1> HIDE DEF q, d, event
<1>5. StateAfterFinish(q) = Behind(back)
  BY <1>2, <1>4, Zenon DEF StateAfterFinish, Behind
<1>6. Transit(q, l, FinishOf(kind), accepts) =
        Heard(TransitFinish(q, EndName(kind), After(kind), accepts),
              StateAfterFinish(q), accepts)
  <2>1. CASE kind = "object"
    BY <1>2, <2>1 DEF Transit, FinishOf, EndName, After, Delimiters
  <2>2. CASE kind = "array"
    BY <1>2, <2>2 DEF Transit, FinishOf, EndName, After, Delimiters
  <2> QED
    BY <2>1, <2>2
<1> QED
  BY <1>1, <1>3, <1>5, <1>6 DEF q, event

LEMMA TrailingTransit ==
    ASSUME NEW s, NEW stack, NEW l, NEW accepts \in BOOLEAN,
           NEW kind, kind \in {"object", "array"},
           s \in Delimiters, "trailingCommas" \notin flags
    PROVE  Transit(Iterating(s, stack, "None", NoEvent, No), l, FinishOf(kind), accepts) =
             Iterating("Error", stack, MissingAfterComma(kind), NoEvent, Yes)
<1> DEFINE q == Iterating(s, stack, "None", NoEvent, No)
           error == MissingAfterComma(kind)
           d == Iterating(s, stack, error, NoEvent, Yes)
<1>1. SetParseError(q, error) = d
  BY IterativeErrs
<1>2. q.state = s
  BY IterativeFields
<1>3. Settle(d, FinishOf(kind)) =
        Iterating(Settled(error, FinishOf(kind)), stack, error, NoEvent, Yes)
  <2> HIDE DEF error
  <2> QED BY Settles
<1>4. Settled(error, FinishOf(kind)) = "Error"
  BY DEF Settled, MissingAfterComma
<1> HIDE DEF q, d
<1>5. Transit(q, l, FinishOf(kind), accepts) = Settle(SetParseError(q, error), FinishOf(kind))
  <2>1. CASE kind = "object"
    BY <1>2, <2>1 DEF Transit, FinishOf, MissingAfterComma, Delimiters
  <2>2. CASE kind = "array"
    BY <1>2, <2>2 DEF Transit, FinishOf, MissingAfterComma, Delimiters
  <2> QED
    BY <2>1, <2>2
<1> QED
  BY <1>1, <1>3, <1>4, <1>5 DEF q

-----------------------------------------------------------------------------
(* Step by step: where the parsers are, and what comes next.               *)

Misplaced == {"]", "}", ",", ":"}

LEMMA Tokens ==
    ASSUME NEW l
    PROVE  /\ l \in {"[", "{"} \cup Misplaced => Tokenize(l) = l
           /\ l \in {"string", "brokenString"} => Tokenize(l) = "String"
           /\ l \notin {"[", "{", "string", "brokenString"} \cup Misplaced =>
                Tokenize(l) = "Scalar"
BY DEF Tokenize, Misplaced

LEMMA Brackets ==
    ASSUME NEW l
    PROVE  /\ IsScalar(l) => l \notin {"[", "{", "brokenString"} \cup Misplaced
           /\ l \in {"[", "{"} => /\ ValueTo(l, "Value") = InitialOf(Kind(l))
                                  /\ ValueTo(l, "MemberValue") = InitialOf(Kind(l))
                                  /\ ValueTo(l, "Element") = InitialOf(Kind(l))
                                  /\ Kind(l) \in {"object", "array"}
BY ScalarLexemes DEF IsScalar, Misplaced, ValueTo, InitialOf, Kind

LEMMA Begun ==
    ASSUME NEW frames, NEW stack, Ongoing(frames, Yes, stack),
           frames # <<>> => frames[Len(frames)].read = "value",
           NEW kind \in {"object", "array"}
    PROVE  LET new == Pushed(frames, Reading(kind, "begin", 0))
           IN  /\ Ongoing(new, Yes,
                          Pushed(stack, Waiting(Back(frames, Len(frames) + 1), 0)))
               /\ StateOf(new, Yes) = InitialOf(kind)
<1> DEFINE new == Pushed(frames, Reading(kind, "begin", 0))
<1>1. Nested(new) /\ new # <<>> /\ new[Len(new)] = Reading(kind, "begin", 0)
  BY PushedNested DEF Ongoing
<1>2. Stacked(Pushed(stack, Waiting(Back(frames, Len(frames) + 1), 0)), new)
  BY StackPushes DEF Ongoing
<1> HIDE DEF new
<1>3. Ongoing(new, Yes, Pushed(stack, Waiting(Back(frames, Len(frames) + 1), 0)))
  BY <1>1, <1>2, Truths DEF Ongoing
<1>4. StateOf(new, Yes) = StateIn(kind, "begin")
  BY <1>1, ReadingFields DEF StateOf
<1>5. StateIn(kind, "begin") = InitialOf(kind)
  BY DEF StateIn, InitialOf
<1> QED
  BY <1>3, <1>4, <1>5 DEF new

\* What the recursive parser makes of a value.
LEMMA ValueParsed ==
    ASSUME NEW frames, NEW l, NEW accepts \in BOOLEAN
    PROVE  ParseValue(Recursing(frames, Yes, "None", NoEvent, No), l, accepts) =
             IF l \in {"{", "["}
             THEN Recursing(Pushed(frames, Reading(Kind(l), "begin", 0)), Yes,
                            Answer(accepts), EventOf(StartName(Kind(l)), 0), Over(accepts))
             ELSE Recursing(frames, Yes, ScalarError(l, accepts), ScalarHeard(l),
                            Over(IsScalar(l) /\ accepts))
<1> DEFINE r == Recursing(frames, Yes, "None", NoEvent, No)
           kind == Kind(l)
<1>1. Handle(Call(r, kind), StartName(kind), 0, accepts) =
        Recursing(Pushed(frames, Reading(kind, "begin", 0)), Yes,
                  Answer(accepts), EventOf(StartName(kind), 0), Over(accepts))
  <2> HIDE DEF kind
  <2> QED
    BY RecursiveBegins
<1>2. ParseScalar(r, l, accepts) =
        Recursing(frames, Yes, ScalarError(l, accepts), ScalarHeard(l),
                  Over(IsScalar(l) /\ accepts))
  BY RecursiveScalar
<1> HIDE DEF r
<1>3. ASSUME l \in {"{", "["}
      PROVE  ParseValue(r, l, accepts) = Handle(Call(r, kind), StartName(kind), 0, accepts)
  <2>1. CASE l = "{"
    BY <2>1 DEF ParseValue, Kind, StartName
  <2>2. CASE l = "["
    BY <2>2 DEF ParseValue, Kind, StartName
  <2> QED
    BY <1>3, <2>1, <2>2
<1>4. ASSUME l \notin {"{", "["}
      PROVE  ParseValue(r, l, accepts) = ParseScalar(r, l, accepts)
  BY <1>4 DEF ParseValue
<1> QED
  BY <1>1, <1>2, <1>3, <1>4 DEF r, kind

LEMMA ValueStep ==
    ASSUME NEW p, NEW l, NEW accepts \in BOOLEAN, NEW s, NEW stack, NEW frames,
           Ongoing(frames, Yes, stack),
           frames # <<>> => frames[Len(frames)].read = "value",
           Restored(s) = Back(frames, Len(frames) + 1),
           NEW dst, dst \in {"Value", "MemberValue", "Element"},
           StateOf(frames, Yes) = (IF dst = "Value" THEN "Finish" ELSE dst),
           Predict(s, Tokenize(l)) = ValueTo(Tokenize(l), dst),
           Resume(p, l, accepts) =
             ParseValue(Recursing(frames, Yes, "None", NoEvent, No), l, accepts),
           l \in Misplaced => ErrorOf[s] = "ValueInvalid"
    PROVE  Outcome(Parse(p, l, accepts),
                   Advance(Iterating(s, stack, "None", NoEvent, No), l, accepts))
<1> DEFINE q == Iterating(s, stack, "None", NoEvent, No)
<1>1. q.state = s
  BY IterativeFields
<1>2. CASE l \in {"{", "["}
  <2> DEFINE kind == Kind(l)
             new == Pushed(frames, Reading(kind, "begin", 0))
             top == Pushed(stack, Waiting(Restored(s), 0))
             event == EventOf(StartName(kind), 0)
  <2>1. kind \in {"object", "array"} /\ Predict(s, Tokenize(l)) = InitialOf(kind)
    BY <1>2, Brackets, Tokens
  <2> HIDE DEF kind
  <2>2. Ongoing(new, Yes, top) /\ StateOf(new, Yes) = InitialOf(kind)
    BY <2>1, Begun
  <2>3. Resume(p, l, accepts) = Recursing(new, Yes, Answer(accepts), event, Over(accepts))
    BY <1>2, ValueParsed DEF kind
  <2>4. Transit(q, l, InitialOf(kind), accepts) =
          Iterating(Settled(Answer(accepts), InitialOf(kind)), top, Answer(accepts),
                    event, Over(accepts))
    BY <2>1, BeginTransit
  <2> HIDE DEF q, new, top, event
  <2>5. CASE accepts
    <3>1. Answer(accepts) = "None" /\ Over(accepts) = No
          /\ Settled(Answer(accepts), InitialOf(kind)) = StateOf(new, Yes)
      BY <2>2, <2>5 DEF Answer, Over, Settled
    <3>2. Resume(p, l, accepts) = Recursing(new, Yes, "None", event, No)
      BY <2>3, <3>1
    <3>3. Transit(q, l, Predict(s, Tokenize(l)), accepts) =
            Iterating(StateOf(new, Yes), top, "None", event, No)
      BY <2>1, <2>4, <3>1
    <3> QED
      BY <1>1, <2>2, <3>2, <3>3, BothGoOn DEF q
  <2>6. CASE ~accepts
    <3>1. Answer(accepts) = "Termination" /\ Over(accepts) = Yes
          /\ Settled(Answer(accepts), InitialOf(kind)) = "Error"
      BY <2>6 DEF Answer, Over, Settled
    <3>2. Resume(p, l, accepts) = Recursing(new, Yes, "Termination", event, Yes)
      BY <2>3, <3>1
    <3>3. Transit(q, l, Predict(s, Tokenize(l)), accepts) =
            Iterating("Error", top, "Termination", event, Yes)
      BY <2>1, <2>4, <3>1
    <3> QED
      BY <1>1, <3>2, <3>3, BothFail DEF q
  <2> QED
    BY <2>5, <2>6
<1>3. CASE l \notin {"{", "["}
  <2> DEFINE error == ScalarError(l, accepts)
             event == ScalarHeard(l)
             over == Over(IsScalar(l) /\ accepts)
  <2>1. Resume(p, l, accepts) = Recursing(frames, Yes, error, event, over)
    BY <1>3, ValueParsed
  <2>2. CASE l \in Misplaced
    <3>1. Predict(s, Tokenize(l)) = "Error"
      BY <1>3, <2>2, Tokens DEF ValueTo, Misplaced
    <3>2. error = ErrorOf[s] /\ event = NoEvent /\ over = Yes
      BY <2>2, Brackets DEF ScalarError, ScalarHeard, Over, Misplaced
    <3>3. Transit(q, l, "Error", accepts) = Iterating("Error", stack, "None", NoEvent, No)
      BY GotoTransit
    <3> HIDE DEF q, error, event, over
    <3> QED
      BY <1>1, <2>1, <3>1, <3>2, <3>3, BothRefuse DEF q
  <2>3. CASE l \notin Misplaced
    <3>1. Predict(s, Tokenize(l)) = dst
      BY <1>3, <2>3, Tokens DEF ValueTo
    <3>2. Transit(q, l, dst, accepts) =
            Iterating(Settled(error, StateOf(frames, Yes)), stack, error, event, over)
      BY ScalarTransit
    <3>3. \/ error = "None" /\ over = No
          \/ error # "None" /\ over = Yes
      BY DEF ScalarError, Answer, Over
    <3> HIDE DEF q, error, event, over
    <3>4. CASE error = "None" /\ over = No
      <4>1. Settled(error, StateOf(frames, Yes)) = StateOf(frames, Yes)
        BY <3>4 DEF Settled
      <4> QED
        BY <1>1, <2>1, <3>1, <3>2, <3>4, <4>1, BothGoOn DEF q
    <3>5. CASE error # "None" /\ over = Yes
      <4>1. Settled(error, StateOf(frames, Yes)) = "Error"
        BY <3>5 DEF Settled
      <4> QED
        BY <1>1, <2>1, <3>1, <3>2, <3>5, <4>1, BothFail DEF q
    <3> QED
      BY <3>3, <3>4, <3>5
  <2> QED
    BY <2>2, <2>3
<1> QED
  BY <1>2, <1>3

\* The call that is read on in, and what it is read on with.
Within(frames, stack, kind, read, count) ==
    /\ Ongoing(frames, Yes, stack)
    /\ frames # <<>>
    /\ frames[Len(frames)] = Reading(kind, read, count)
    /\ Sound(kind, read, count)

LEMMA WithinCall ==
    ASSUME NEW frames, NEW stack, NEW kind, NEW read, NEW count,
           Within(frames, stack, kind, read, count)
    PROVE  /\ kind \in {"object", "array"} /\ count \in Nat
           /\ kind = "object" => read \in ObjectReads
           /\ kind = "array" => read \in ArrayReads
           /\ StateOf(frames, Yes) = StateIn(kind, read)
           /\ Last(frames) = Reading(kind, read, count)
<1>1. /\ kind \in {"object", "array"} /\ count \in Nat
      /\ kind = "object" => read \in ObjectReads
      /\ kind = "array" => read \in ArrayReads
  BY SoundFields DEF Within
<1>2. StateOf(frames, Yes) = StateIn(kind, read)
  BY ReadingFields DEF Within, StateOf
<1>3. Last(frames) = Reading(kind, read, count)
  BY DEF Within, Last
<1> QED
  BY <1>1, <1>2, <1>3

LEMMA ResumeWithin ==
    ASSUME NEW frames, NEW stack, NEW kind, NEW read, NEW count,
           Within(frames, stack, kind, read, count),
           NEW l, l # "brokenComment", NEW accepts
    PROVE  LET p == Recursing(frames, Yes, "None", NoEvent, No)
           IN  Resume(p, l, accepts) = IF kind = "object" THEN ParseObject(p, l, accepts)
                                       ELSE ParseArray(p, l, accepts)
<1> DEFINE p == Recursing(frames, Yes, "None", NoEvent, No)
<1>1. p.frames = frames /\ frames # <<>>
  BY RecursiveFields DEF Within
<1>2. Last(frames).kind = kind
  BY WithinCall, ReadingFields
<1> HIDE DEF p
<1>3. Resume(p, l, accepts) = IF kind = "object" THEN ParseObject(p, l, accepts)
                              ELSE ParseArray(p, l, accepts)
  BY <1>1, <1>2 DEF Resume
<1> QED
  BY <1>3 DEF p

LEMMA InCall ==
    ASSUME NEW frames, NEW stack, NEW kind, NEW read, NEW count,
           Within(frames, stack, kind, read, count)
    PROVE  LET f == Last(Recursing(frames, Yes, "None", NoEvent, No).frames)
           IN  f.read = read /\ f.count = count
<1>1. Recursing(frames, Yes, "None", NoEvent, No).frames = frames
  BY RecursiveFields
<1>2. Last(frames) = Reading(kind, read, count)
  BY WithinCall
<1> QED
  BY <1>1, <1>2, ReadingFields

\* A call has read something more.
LEMMA ReadOn ==
    ASSUME NEW frames, NEW stack, NEW kind, NEW read, NEW count,
           Within(frames, stack, kind, read, count),
           NEW what, Sound(kind, what, count)
    PROVE  LET new == Top(frames, Reading(kind, what, count))
           IN  /\ Within(new, stack, kind, what, count)
               /\ Read(Recursing(frames, Yes, "None", NoEvent, No), what) =
                    Recursing(new, Yes, "None", NoEvent, No)
<1> DEFINE new == Top(frames, Reading(kind, what, count))
<1>1. Nested(new) /\ new # <<>> /\ new[Len(new)] = Reading(kind, what, count)
  BY TopNested DEF Within, Ongoing
<1>2. Stacked(stack, new)
  BY StackReads DEF Within, Ongoing
<1>3. Read(Recursing(frames, Yes, "None", NoEvent, No), what) =
        Recursing(new, Yes, "None", NoEvent, No)
  BY RecursiveReads DEF Within
<1> HIDE DEF new
<1>4. Within(new, stack, kind, what, count)
  BY <1>1, <1>2, Truths DEF Within, Ongoing
<1> QED
  BY <1>3, <1>4 DEF new
LEMMA BackWithin ==
    ASSUME NEW frames, NEW stack, NEW kind, NEW read, NEW count,
           Within(frames, stack, kind, read, count)
    PROVE  Back(frames, Len(frames) + 1) = After(kind)
<1>1. Len(frames) \in Nat \ {0}
  BY DEF Within, Ongoing, Nested
<1>2. frames[Len(frames) + 1 - 1].kind = kind
  <2>1. Len(frames) + 1 - 1 = Len(frames)
    BY <1>1
  <2> QED
    BY <2>1, ReadingFields DEF Within
<1>3. Len(frames) + 1 # 1
  BY <1>1
<1> QED
  BY <1>1, <1>2, <1>3 DEF Back

\* A value comes next.
ValueComesNext(kind, read, l) ==
    \/ kind = "object" /\ read = ":"
    \/ kind = "array" /\ read \in {"begin", ","} /\ l # "]"

LEMMA ValueResumes ==
    ASSUME NEW frames, NEW stack, NEW kind, NEW read, NEW count,
           Within(frames, stack, kind, read, count),
           NEW l, l # "brokenComment", NEW accepts \in BOOLEAN,
           ValueComesNext(kind, read, l)
    PROVE  LET new == Top(frames, Reading(kind, "value", count))
           IN  /\ Within(new, stack, kind, "value", count)
               /\ Resume(Recursing(frames, Yes, "None", NoEvent, No), l, accepts) =
                    ParseValue(Recursing(new, Yes, "None", NoEvent, No), l, accepts)
<1> DEFINE p == Recursing(frames, Yes, "None", NoEvent, No)
           new == Top(frames, Reading(kind, "value", count))
<1>1. Sound(kind, "value", count) /\ kind \in {"object", "array"}
  BY SoundFields DEF Within, ObjectReads, ArrayReads
<1>2. Within(new, stack, kind, "value", count)
      /\ Read(p, "value") = Recursing(new, Yes, "None", NoEvent, No)
  BY <1>1, ReadOn
<1>3. Resume(p, l, accepts) = ParseValue(Read(p, "value"), l, accepts)
  <2> DEFINE f == Last(p.frames)
  <2>1. f.read = read
    BY InCall
  <2>2. Resume(p, l, accepts) = IF kind = "object" THEN ParseObject(p, l, accepts)
                                ELSE ParseArray(p, l, accepts)
    BY ResumeWithin
  <2> HIDE DEF p
  <2>3. kind = "object" => ParseObject(p, l, accepts) = ParseValue(Read(p, "value"), l, accepts)
    <3> SUFFICES ASSUME kind = "object"
                 PROVE  ParseObject(p, l, accepts) = ParseValue(Read(p, "value"), l, accepts)
      OBVIOUS
    <3>1. read = ":" /\ ~ClosesAtOnce(f, l, "}")
      BY <2>1 DEF ClosesAtOnce, ValueComesNext
    <3> HIDE DEF f
    <3> QED
      BY <2>1, <3>1 DEF ParseObject, f
  <2>4. kind = "array" => ParseArray(p, l, accepts) = ParseValue(Read(p, "value"), l, accepts)
    <3> SUFFICES ASSUME kind = "array"
                 PROVE  ParseArray(p, l, accepts) = ParseValue(Read(p, "value"), l, accepts)
      OBVIOUS
    <3>1. read \in {"begin", ","} /\ ~ClosesAtOnce(f, l, "]")
      BY DEF ClosesAtOnce, ValueComesNext
    <3> HIDE DEF f
    <3> QED
      BY <2>1, <3>1 DEF ParseArray, f
  <2> QED
    BY <1>1, <2>2, <2>3, <2>4
<1> HIDE DEF p, new
<1>4. /\ Within(new, stack, kind, "value", count)
      /\ Resume(p, l, accepts) =
           ParseValue(Recursing(new, Yes, "None", NoEvent, No), l, accepts)
  BY <1>2, <1>3
<1> QED
  BY <1>4 DEF p, new

LEMMA ValueInCall ==
    ASSUME NEW frames, NEW stack, NEW kind, NEW read, NEW count,
           Within(frames, stack, kind, read, count),
           NEW l, l # "brokenComment", NEW accepts \in BOOLEAN,
           ValueComesNext(kind, read, l)
    PROVE  Outcome(Parse(Recursing(frames, Yes, "None", NoEvent, No), l, accepts),
                   Advance(Iterating(StateIn(kind, read), stack, "None", NoEvent, No),
                           l, accepts))
<1> DEFINE p == Recursing(frames, Yes, "None", NoEvent, No)
           new == Top(frames, Reading(kind, "value", count))
           s == StateIn(kind, read)
           dst == After(kind)
<1>1. kind \in {"object", "array"}
  BY WithinCall
<1>2. Within(new, stack, kind, "value", count)
  BY ValueResumes
<1>3. Resume(p, l, accepts) =
        ParseValue(Recursing(new, Yes, "None", NoEvent, No), l, accepts)
  BY ValueResumes
<1>4. Restored(s) = dst /\ ErrorOf[s] = "ValueInvalid"
  BY DEF StateIn, Restored, After, ErrorOf, ValueComesNext
<1>5. Predict(s, Tokenize(l)) = ValueTo(Tokenize(l), dst)
  <2>1. CASE kind = "object"
    <3>1. s = "KeyValueDelimiter" /\ dst = "MemberValue"
      BY <2>1 DEF StateIn, After, ValueComesNext
    <3> QED
      BY <3>1 DEF Predict
  <2>2. CASE kind = "array"
    <3>1. s \in {"ArrayInitial", "ElementDelimiter"} /\ dst = "Element"
      BY <2>2 DEF StateIn, After, ValueComesNext
    <3>2. Tokenize(l) # "]"
      BY <2>2, Tokens DEF Misplaced, ValueComesNext
    <3> QED
      BY <3>1, <3>2 DEF Predict
  <2> QED
    BY <1>1, <2>1, <2>2
<1>6. Back(new, Len(new) + 1) = dst
  BY <1>2, BackWithin
<1>7. StateOf(new, Yes) = dst /\ dst \in {"MemberValue", "Element"}
  <2>1. StateOf(new, Yes) = StateIn(kind, "value")
    BY <1>2, WithinCall
  <2> QED
    BY <1>1, <2>1 DEF StateIn, After
<1>8. Ongoing(new, Yes, stack) /\ new[Len(new)].read = "value"
  <2>1. Ongoing(new, Yes, stack) /\ new[Len(new)] = Reading(kind, "value", count)
    BY <1>2 DEF Within
  <2>2. Reading(kind, "value", count).read = "value"
    BY DEF Reading
  <2> HIDE DEF new
  <2> QED
    BY <2>1, <2>2, Zenon
<1> HIDE DEF p, new, s, dst
<1>9. Outcome(Parse(p, l, accepts),
              Advance(Iterating(s, stack, "None", NoEvent, No), l, accepts))
  BY <1>2, <1>3, <1>4, <1>5, <1>6, <1>7, <1>8, ValueStep
<1> QED
  BY <1>9 DEF p, s

\* A name comes next, or the object ends.
NameComesNext(kind, read, l) == kind = "object" /\ read \in {"begin", ","} /\ l # "}"

LEMMA NameResumes ==
    ASSUME NEW frames, NEW stack, NEW kind, NEW read, NEW count,
           Within(frames, stack, kind, read, count),
           NEW l, l # "brokenComment", NEW accepts \in BOOLEAN,
           NameComesNext(kind, read, l)
    PROVE  LET new == Top(frames, Reading(kind, "name", count))
           IN  /\ Within(new, stack, kind, "name", count)
               /\ Resume(Recursing(frames, Yes, "None", NoEvent, No), l, accepts) =
                    IF l \in {"string", "brokenString"}
                    THEN Recursing(new, Yes, NameError(l, accepts), NameHeard(l, "Key"),
                                   Over(l = "string" /\ accepts))
                    ELSE Recursing(frames, Yes, "ObjectMissName", NoEvent, Yes)
<1> DEFINE p == Recursing(frames, Yes, "None", NoEvent, No)
           new == Top(frames, Reading(kind, "name", count))
           named == Recursing(new, Yes, NameError(l, accepts), NameHeard(l, "Key"),
                              Over(l = "string" /\ accepts))
           missing == Recursing(frames, Yes, "ObjectMissName", NoEvent, Yes)
           f == Last(p.frames)
<1>1. kind = "object" /\ Sound(kind, "name", count)
  BY SoundFields DEF Within, ObjectReads, NameComesNext
<1>2. Within(new, stack, kind, "name", count)
      /\ Read(p, "name") = Recursing(new, Yes, "None", NoEvent, No)
  BY <1>1, ReadOn
<1>3. Resume(p, l, accepts) = ParseObject(p, l, accepts)
  BY <1>1, ResumeWithin
<1>4. f.read = read
  BY InCall
<1>5. read \in {"begin", ","} /\ ~ClosesAtOnce(f, l, "}")
  BY DEF NameComesNext, ClosesAtOnce
<1>6. ParseString(Read(p, "name"), l, "Key", accepts) = named
  BY <1>2, RecursiveName
<1>7. SetParseError(p, "ObjectMissName") = missing
  BY RecursiveErrs
<1> HIDE DEF p, f, new, named, missing
<1>8. ParseObject(p, l, accepts) = IF l \in {"string", "brokenString"}
                                   THEN ParseString(Read(p, "name"), l, "Key", accepts)
                                   ELSE SetParseError(p, "ObjectMissName")
  BY <1>4, <1>5 DEF ParseObject, f
<1>9. Within(new, stack, kind, "name", count)
      /\ Resume(p, l, accepts) = IF l \in {"string", "brokenString"} THEN named ELSE missing
  BY <1>2, <1>3, <1>6, <1>7, <1>8
<1> QED
  BY <1>9 DEF p, new, named, missing

LEMMA NameInCall ==
    ASSUME NEW frames, NEW stack, NEW kind, NEW read, NEW count,
           Within(frames, stack, kind, read, count),
           NEW l, l # "brokenComment", NEW accepts \in BOOLEAN,
           NameComesNext(kind, read, l)
    PROVE  Outcome(Parse(Recursing(frames, Yes, "None", NoEvent, No), l, accepts),
                   Advance(Iterating(StateIn(kind, read), stack, "None", NoEvent, No),
                           l, accepts))
<1> DEFINE p == Recursing(frames, Yes, "None", NoEvent, No)
           s == StateIn(kind, read)
           q == Iterating(s, stack, "None", NoEvent, No)
           new == Top(frames, Reading(kind, "name", count))
<1>1. kind = "object"
  BY DEF NameComesNext
<1>2. Within(new, stack, kind, "name", count)
  BY NameResumes
<1>3. Resume(p, l, accepts) =
        IF l \in {"string", "brokenString"}
        THEN Recursing(new, Yes, NameError(l, accepts), NameHeard(l, "Key"),
                       Over(l = "string" /\ accepts))
        ELSE Recursing(frames, Yes, "ObjectMissName", NoEvent, Yes)
  BY NameResumes
<1>4. q.state = s
  BY IterativeFields
<1>5. s \in {"ObjectInitial", "MemberDelimiter"} /\ ErrorOf[s] = "ObjectMissName"
      /\ Predict(s, Tokenize(l)) = NameOrEnd(Tokenize(l))
  <2>1. s \in {"ObjectInitial", "MemberDelimiter"}
    BY DEF StateIn, NameComesNext
  <2> HIDE DEF s
  <2>2. ErrorOf[s] = "ObjectMissName"
    BY <2>1 DEF ErrorOf
  <2>3. Predict(s, Tokenize(l)) = NameOrEnd(Tokenize(l))
    BY <2>1 DEF Predict
  <2> QED
    BY <2>1, <2>2, <2>3
<1>6. StateOf(new, Yes) = "MemberKey"
  <2>1. StateOf(new, Yes) = StateIn(kind, "name")
    BY <1>2, WithinCall
  <2> QED
    BY <1>1, <2>1 DEF StateIn
<1>7. Ongoing(new, Yes, stack)
  BY <1>2 DEF Within
<1>8. CASE l \in {"string", "brokenString"}
  <2> DEFINE error == NameError(l, accepts)
             event == NameHeard(l, "Key")
             over == Over(l = "string" /\ accepts)
  <2>1. Resume(p, l, accepts) = Recursing(new, Yes, error, event, over)
    BY <1>3, <1>8
  <2>2. Predict(s, Tokenize(l)) = "MemberKey"
    BY <1>5, <1>8, Tokens DEF NameOrEnd
  <2>3. Transit(q, l, "MemberKey", accepts) =
          Iterating(Settled(error, "MemberKey"), stack, error, event, over)
    BY NameTransit
  <2>4. \/ error = "None" /\ over = No
        \/ error # "None" /\ over = Yes
    BY DEF NameError, Answer, Over
  <2> HIDE DEF p, q, s, new, error, event, over
  <2>5. CASE error = "None" /\ over = No
    <3>1. Settled(error, "MemberKey") = StateOf(new, Yes)
      BY <1>6, <2>5 DEF Settled
    <3> QED
      BY <1>4, <1>7, <2>1, <2>2, <2>3, <2>5, <3>1, BothGoOn DEF p, q, s
  <2>6. CASE error # "None" /\ over = Yes
    <3>1. Settled(error, "MemberKey") = "Error"
      BY <2>6 DEF Settled
    <3> QED
      BY <1>4, <2>1, <2>2, <2>3, <2>6, <3>1, BothFail DEF p, q, s
  <2> QED
    BY <2>4, <2>5, <2>6
<1>9. CASE l \notin {"string", "brokenString"}
  <2>1. Resume(p, l, accepts) = Recursing(frames, Yes, "ObjectMissName", NoEvent, Yes)
    BY <1>3, <1>9
  <2>2. Predict(s, Tokenize(l)) = "Error"
    <3>1. Tokenize(l) \notin {"}", "String"}
      BY <1>9, Tokens DEF NameComesNext, Misplaced
    <3> QED
      BY <1>5, <3>1 DEF NameOrEnd
  <2>3. Transit(q, l, "Error", accepts) = Iterating("Error", stack, "None", NoEvent, No)
    BY GotoTransit
  <2> HIDE DEF p, q, s
  <2> QED
    BY <1>4, <1>5, <2>1, <2>2, <2>3, BothRefuse DEF p, q, s
<1> QED
  BY <1>8, <1>9

Colon == ":"

LEMMA ColonResumes ==
    ASSUME NEW frames, NEW stack, NEW kind, NEW read, NEW count,
           Within(frames, stack, kind, read, count),
           NEW l, l # "brokenComment", NEW accepts \in BOOLEAN,
           kind = "object", read = "name"
    PROVE  LET new == Top(frames, Reading(kind, Colon, count))
           IN  /\ Within(new, stack, kind, Colon, count)
               /\ Resume(Recursing(frames, Yes, "None", NoEvent, No), l, accepts) =
                    IF l = Colon THEN Recursing(new, Yes, "None", NoEvent, No)
                    ELSE Recursing(frames, Yes, "ObjectMissColon", NoEvent, Yes)
<1> DEFINE p == Recursing(frames, Yes, "None", NoEvent, No)
           new == Top(frames, Reading(kind, Colon, count))
           f == Last(p.frames)
<1>1. Sound(kind, Colon, count)
  BY SoundFields DEF Within, ObjectReads, Colon
<1>2. f.read = "name"
  BY InCall
<1>3. Resume(p, l, accepts) = ParseObject(p, l, accepts)
  BY ResumeWithin
<1>4. ParseObject(p, l, accepts) =
        IF l = Colon THEN Read(p, Colon) ELSE SetParseError(p, "ObjectMissColon")
  <2> HIDE DEF p, f
  <2>1. ~ClosesAtOnce(f, l, "}")
    BY <1>2 DEF ClosesAtOnce
  <2> QED
    BY <1>2, <2>1 DEF ParseObject, f, Colon
<1>5. SetParseError(p, "ObjectMissColon") =
        Recursing(frames, Yes, "ObjectMissColon", NoEvent, Yes)
  BY RecursiveErrs
<1>6. Within(new, stack, kind, Colon, count)
      /\ Read(p, Colon) = Recursing(new, Yes, "None", NoEvent, No)
  BY <1>1, ReadOn
<1> HIDE DEF p, f, new
<1>7. Within(new, stack, kind, Colon, count)
      /\ Resume(p, l, accepts) =
           IF l = Colon THEN Recursing(new, Yes, "None", NoEvent, No)
           ELSE Recursing(frames, Yes, "ObjectMissColon", NoEvent, Yes)
  BY <1>3, <1>4, <1>5, <1>6
<1> QED
  BY <1>7 DEF p, new

LEMMA ColonInCall ==
    ASSUME NEW frames, NEW stack, NEW kind, NEW read, NEW count,
           Within(frames, stack, kind, read, count),
           NEW l, l # "brokenComment", NEW accepts \in BOOLEAN,
           kind = "object", read = "name"
    PROVE  Outcome(Parse(Recursing(frames, Yes, "None", NoEvent, No), l, accepts),
                   Advance(Iterating(StateIn(kind, read), stack, "None", NoEvent, No),
                           l, accepts))
<1> DEFINE p == Recursing(frames, Yes, "None", NoEvent, No)
           s == StateIn(kind, read)
           q == Iterating(s, stack, "None", NoEvent, No)
           new == Top(frames, Reading(kind, Colon, count))
<1>1. Within(new, stack, kind, Colon, count)
  BY ColonResumes
<1>2. StateIn(kind, Colon) = "KeyValueDelimiter"
  BY DEF StateIn, Colon
<1>3. s = "MemberKey"
  BY DEF StateIn
<1>4. q.state = s
  BY IterativeFields
<1>5. Resume(p, l, accepts) = IF l = Colon THEN Recursing(new, Yes, "None", NoEvent, No)
                              ELSE Recursing(frames, Yes, "ObjectMissColon", NoEvent, Yes)
  BY ColonResumes
<1>6. Predict(s, Tokenize(l)) = IF l = Colon THEN "KeyValueDelimiter" ELSE "Error"
  <2>1. Tokenize(l) = Colon <=> l = Colon
    BY Tokens DEF Misplaced, Colon
  <2> QED
    BY <1>3, <2>1 DEF Predict, Colon
<1>7. ErrorOf[s] = "ObjectMissColon"
  BY <1>3 DEF ErrorOf
<1>8. CASE l = Colon
  <2>1. StateOf(new, Yes) = "KeyValueDelimiter" /\ Ongoing(new, Yes, stack)
    <3> HIDE DEF new
    <3> QED BY <1>1, <1>2, WithinCall DEF Within
  <2>2. Transit(q, l, "KeyValueDelimiter", accepts) =
          Iterating("KeyValueDelimiter", stack, "None", NoEvent, No)
    BY GotoTransit
  <2>3. Resume(p, l, accepts) = Recursing(new, Yes, "None", NoEvent, No)
    BY <1>5, <1>8
  <2> HIDE DEF p, q, s, new
  <2> QED
    BY <1>4, <1>6, <1>8, <2>1, <2>2, <2>3, BothGoOn DEF p, q, s
<1>9. CASE l # Colon
  <2>1. Resume(p, l, accepts) = Recursing(frames, Yes, "ObjectMissColon", NoEvent, Yes)
    BY <1>5, <1>9
  <2>2. Transit(q, l, "Error", accepts) = Iterating("Error", stack, "None", NoEvent, No)
    BY GotoTransit
  <2> HIDE DEF p, q, s
  <2> QED
    BY <1>4, <1>6, <1>7, <1>9, <2>1, <2>2, BothRefuse DEF p, q, s
<1> QED
  BY <1>8, <1>9

LEMMA Closed ==
    ASSUME NEW frames, NEW stack, NEW kind, NEW read, NEW count,
           Within(frames, stack, kind, read, count)
    PROVE  /\ Ongoing(Front(frames), Yes, Front(stack))
           /\ StateOf(Front(frames), Yes) = Behind(Back(frames, Len(frames)))
           /\ stack[Len(stack)] = Waiting(Back(frames, Len(frames)), count)
<1> DEFINE outer == Front(frames)
           k == frames[Len(frames) - 1].kind
<1>1. stack[Len(stack)] = Waiting(Back(frames, Len(frames)), count)
  BY StackTop DEF Within, Ongoing
<1>2. Nested(outer) /\ Stacked(Front(stack), outer)
  BY FrontNested, StackPops DEF Within, Ongoing
<1>3. /\ outer = <<>> <=> Len(frames) = 1
      /\ outer # <<>> => /\ outer[Len(outer)] = frames[Len(frames) - 1]
                         /\ frames[Len(frames) - 1].read = "value"
  BY FrontNested DEF Within, Ongoing
<1> HIDE DEF outer
<1>4. ASSUME outer = <<>>
      PROVE  StateOf(outer, Yes) = Behind(Back(frames, Len(frames)))
  <2>1. Back(frames, Len(frames)) = "Start"
    BY <1>3, <1>4 DEF Back
  <2>2. StateOf(outer, Yes) = "Finish"
    BY <1>4, Zenon DEF StateOf, Yes
  <2> QED
    BY <2>1, <2>2, Zenon DEF Behind
<1>5. ASSUME outer # <<>>
      PROVE  StateOf(outer, Yes) = Behind(Back(frames, Len(frames)))
  <2>1. Back(frames, Len(frames)) = After(k)
    BY <1>3, <1>5, Zenon DEF Back
  <2>2. outer[Len(outer)].kind = k /\ outer[Len(outer)].read = "value"
    BY <1>3, <1>5
  <2> HIDE DEF k
  <2>3. StateOf(outer, Yes) = StateIn(k, "value")
    BY <1>5, <2>2, Zenon DEF StateOf
  <2>4. StateIn(k, "value") = After(k)
    BY DEF StateIn, After
  <2>5. Behind(After(k)) = After(k)
    BY DEF Behind, After
  <2> QED
    BY <2>1, <2>3, <2>4, <2>5
<1> QED
  BY <1>1, <1>2, <1>4, <1>5, Truths DEF outer, Ongoing

Bracket(kind) == IF kind = "object" THEN "}" ELSE "]"
MayClose(kind, read, l) ==
    /\ l = Bracket(kind)
    /\ read \in {"begin", "value"} \/ (read = "," /\ "trailingCommas" \in flags)

\* The number of values that are in a call that is over.
Total(read, count) == IF read = "value" THEN count + 1 ELSE count

LEMMA CloseResumes ==
    ASSUME NEW frames, NEW stack, NEW kind, NEW read, NEW count,
           Within(frames, stack, kind, read, count),
           NEW l, l # "brokenComment", NEW accepts \in BOOLEAN,
           MayClose(kind, read, l)
    PROVE  Resume(Recursing(frames, Yes, "None", NoEvent, No), l, accepts) =
             Recursing(Front(frames), Yes, Answer(accepts),
                       EventOf(EndName(kind), Total(read, count)), Over(accepts))
<1> DEFINE p == Recursing(frames, Yes, "None", NoEvent, No)
           f == Last(p.frames)
           total == Total(read, count)
<1>1. kind \in {"object", "array"} /\ count \in Nat
  BY WithinCall
<1>2. f.read = read /\ f.count = count
  BY InCall
<1>3. Resume(p, l, accepts) = EndCall(p, EndName(kind), total, accepts)
  <2>1. Resume(p, l, accepts) = IF kind = "object" THEN ParseObject(p, l, accepts)
                                ELSE ParseArray(p, l, accepts)
    BY ResumeWithin
  <2>2. read # "value" => ClosesAtOnce(f, l, Bracket(kind)) /\ total = count
    BY <1>2, Zenon DEF ClosesAtOnce, MayClose, Total
  <2>3. read = "value" => ~ClosesAtOnce(f, l, Bracket(kind)) /\ total = count + 1
    BY <1>2, Zenon DEF ClosesAtOnce, Total
  <2>4. read \in {"begin", "value", ","} /\ l = Bracket(kind)
    BY DEF MayClose
  <2> HIDE DEF p, f, total
  <2>5. CASE kind = "object"
    <3>1. ParseObject(p, l, accepts) = EndCall(p, "EndObject", total, accepts)
      BY <1>2, <2>2, <2>3, <2>4, <2>5 DEF ParseObject, Bracket, f
    <3> QED
      BY <2>1, <2>5, <3>1 DEF EndName
  <2>6. CASE kind = "array"
    <3>1. ParseArray(p, l, accepts) = EndCall(p, "EndArray", total, accepts)
      BY <1>2, <2>2, <2>3, <2>4, <2>6 DEF ParseArray, Bracket, f
    <3> QED
      BY <2>1, <2>6, <3>1 DEF EndName
  <2> QED
    BY <1>1, <2>5, <2>6
<1>4. EndCall(p, EndName(kind), total, accepts) =
        Recursing(Front(frames), Yes, Answer(accepts), EventOf(EndName(kind), total),
                  Over(accepts))
  <2> HIDE DEF total
  <2> QED BY RecursiveEnds
<1> HIDE DEF p, total
<1> QED
  BY <1>3, <1>4 DEF p, total

LEMMA CloseInCall ==
    ASSUME NEW frames, NEW stack, NEW kind, NEW read, NEW count,
           Within(frames, stack, kind, read, count),
           NEW l, l # "brokenComment", NEW accepts \in BOOLEAN,
           MayClose(kind, read, l)
    PROVE  Outcome(Parse(Recursing(frames, Yes, "None", NoEvent, No), l, accepts),
                   Advance(Iterating(StateIn(kind, read), stack, "None", NoEvent, No),
                           l, accepts))
<1> DEFINE p == Recursing(frames, Yes, "None", NoEvent, No)
           s == StateIn(kind, read)
           q == Iterating(s, stack, "None", NoEvent, No)
           total == Total(read, count)
           back == Back(frames, Len(frames))
           event == EventOf(EndName(kind), total)
<1>1. kind \in {"object", "array"} /\ count \in Nat
  BY WithinCall
<1>2. q.state = s
  BY IterativeFields
<1>3. Resume(p, l, accepts) =
        Recursing(Front(frames), Yes, Answer(accepts), event, Over(accepts))
  BY CloseResumes
<1>4. Predict(s, Tokenize(l)) = FinishOf(kind)
  <2>1. Tokenize(l) = Bracket(kind)
    BY Tokens DEF MayClose, Bracket, Misplaced
  <2>2. read \in {"begin", "value", ","}
    BY DEF MayClose
  <2>3. CASE kind = "object"
    <3>1. s \in {"ObjectInitial", "MemberDelimiter", "MemberValue"} /\ Tokenize(l) = "}"
      BY <2>1, <2>2, <2>3 DEF StateIn, Bracket
    <3> QED
      BY <2>3, <3>1 DEF Predict, NameOrEnd, CommaOrEnd, FinishOf
  <2>4. CASE kind = "array"
    <3>1. s \in {"ArrayInitial", "ElementDelimiter", "Element"} /\ Tokenize(l) = "]"
      BY <2>1, <2>2, <2>4 DEF StateIn, Bracket
    <3> QED
      BY <2>4, <3>1 DEF Predict, CommaOrEnd, FinishOf
  <2> QED
    BY <1>1, <2>3, <2>4
<1>5. (s = After(kind) <=> read = "value")
      /\ (s \notin Delimiters \/ "trailingCommas" \in flags)
  BY <1>1 DEF StateIn, After, Delimiters, MayClose
<1>6. stack[Len(stack)] = Waiting(back, count)
      /\ Ongoing(Front(frames), Yes, Front(stack))
      /\ StateOf(Front(frames), Yes) = Behind(back)
  BY Closed
<1> HIDE DEF back
<1>7. Transit(q, l, FinishOf(kind), accepts) =
        Iterating(Settled(Answer(accepts), Behind(back)), Front(stack), Answer(accepts),
                  EventOf(EndName(kind), count + (IF s = After(kind) THEN 1 ELSE 0)),
                  Over(accepts))
  <2> HIDE DEF s
  <2> QED BY <1>1, <1>5, <1>6, CloseTransit
<1>8. count + (IF s = After(kind) THEN 1 ELSE 0) = total
  <2> HIDE DEF s
  <2> QED BY <1>1, <1>5 DEF Total
<1> HIDE DEF p, q, s, total
<1>9. Transit(q, l, Predict(s, Tokenize(l)), accepts) =
        Iterating(Settled(Answer(accepts), Behind(back)), Front(stack), Answer(accepts),
                  event, Over(accepts))
  BY <1>4, <1>7, <1>8
<1> HIDE DEF event
<1>10. CASE accepts
  <2>1. Answer(accepts) = "None" /\ Over(accepts) = No
        /\ Settled(Answer(accepts), Behind(back)) = StateOf(Front(frames), Yes)
    BY <1>6, <1>10 DEF Answer, Over, Settled
  <2> QED
    BY <1>2, <1>3, <1>6, <1>9, <2>1, BothGoOn DEF p, q, s
<1>11. CASE ~accepts
  <2>1. Answer(accepts) = "Termination" /\ Over(accepts) = Yes
        /\ Settled(Answer(accepts), Behind(back)) = "Error"
    BY <1>11 DEF Answer, Over, Settled
  <2> QED
    BY <1>2, <1>3, <1>9, <2>1, BothFail DEF p, q, s
<1> QED
  BY <1>10, <1>11

\* A closing bracket after a comma, without kParseTrailingCommasFlag.
ClosesTooLate(kind, read, l) ==
    l = Bracket(kind) /\ read = "," /\ "trailingCommas" \notin flags

LEMMA TrailingResumes ==
    ASSUME NEW frames, NEW stack, NEW kind, NEW read, NEW count,
           Within(frames, stack, kind, read, count),
           NEW l, l # "brokenComment", NEW accepts \in BOOLEAN,
           ClosesTooLate(kind, read, l)
    PROVE  \E some : Resume(Recursing(frames, Yes, "None", NoEvent, No), l, accepts) =
                       Recursing(some, Yes, MissingAfterComma(kind), NoEvent, Yes)
<1> DEFINE p == Recursing(frames, Yes, "None", NoEvent, No)
           f == Last(p.frames)
           error == MissingAfterComma(kind)
           new == Top(frames, Reading(kind, "value", count))
<1>1. kind \in {"object", "array"}
  BY WithinCall
<1>2. f.read = read
  BY InCall
<1>3. Resume(p, l, accepts) = IF kind = "object" THEN ParseObject(p, l, accepts)
                              ELSE ParseArray(p, l, accepts)
  BY ResumeWithin
<1>4. read \in {"begin", ","} /\ ~ClosesAtOnce(f, l, Bracket(kind))
  BY <1>2, Zenon DEF ClosesAtOnce, ClosesTooLate
<1>5. \E some : Resume(p, l, accepts) = Recursing(some, Yes, error, NoEvent, Yes)
  <2>1. CASE kind = "object"
    <3>1. SetParseError(p, "ObjectMissName") =
            Recursing(frames, Yes, "ObjectMissName", NoEvent, Yes)
      BY RecursiveErrs
    <3> HIDE DEF p, f
    <3>2. ParseObject(p, l, accepts) = SetParseError(p, "ObjectMissName")
      BY <1>2, <1>4, <2>1 DEF ParseObject, f, Bracket, ClosesTooLate
    <3> QED
      BY <1>3, <2>1, <3>1, <3>2 DEF MissingAfterComma
  <2>2. CASE kind = "array"
    <3>1. Sound(kind, "value", count)
      BY <2>2, SoundFields DEF Within, ArrayReads
    <3>2. Read(p, "value") = Recursing(new, Yes, "None", NoEvent, No)
      BY <3>1, ReadOn
    <3>3. l = "]"
      BY <2>2 DEF ClosesTooLate, Bracket
    <3>4. ScalarError(l, accepts) = "ValueInvalid" /\ ScalarHeard(l) = NoEvent
          /\ Over(IsScalar(l) /\ accepts) = Yes
      BY <3>3, Brackets DEF ScalarError, ScalarHeard, Over, Misplaced
    <3> HIDE DEF p, f, new
    <3>5. ParseArray(p, l, accepts) = ParseValue(Read(p, "value"), l, accepts)
      BY <1>2, <1>4, <2>2 DEF ParseArray, f, Bracket, ClosesTooLate
    <3>6. ParseValue(Read(p, "value"), l, accepts) =
            ParseScalar(Read(p, "value"), l, accepts)
      BY <3>3 DEF ParseValue
    <3>7. ParseScalar(Recursing(new, Yes, "None", NoEvent, No), l, accepts) =
            Recursing(new, Yes, ScalarError(l, accepts), ScalarHeard(l),
                      Over(IsScalar(l) /\ accepts))
      BY RecursiveScalar
    <3>8. Resume(p, l, accepts) = Recursing(new, Yes, "ValueInvalid", NoEvent, Yes)
      BY <1>3, <2>2, <3>2, <3>4, <3>5, <3>6, <3>7
    <3> QED
      BY <2>2, <3>8 DEF MissingAfterComma
  <2> QED
    BY <1>1, <2>1, <2>2
<1> HIDE DEF p, error
<1> QED
  BY <1>5 DEF p, error

LEMMA TrailingInCall ==
    ASSUME NEW frames, NEW stack, NEW kind, NEW read, NEW count,
           Within(frames, stack, kind, read, count),
           NEW l, l # "brokenComment", NEW accepts \in BOOLEAN,
           ClosesTooLate(kind, read, l)
    PROVE  Outcome(Parse(Recursing(frames, Yes, "None", NoEvent, No), l, accepts),
                   Advance(Iterating(StateIn(kind, read), stack, "None", NoEvent, No),
                           l, accepts))
<1> DEFINE p == Recursing(frames, Yes, "None", NoEvent, No)
           s == StateIn(kind, read)
           q == Iterating(s, stack, "None", NoEvent, No)
           error == MissingAfterComma(kind)
<1>1. kind \in {"object", "array"}
  BY WithinCall
<1>2. q.state = s
  BY IterativeFields
<1>3. \E some : Resume(p, l, accepts) = Recursing(some, Yes, error, NoEvent, Yes)
  BY TrailingResumes
<1>4. Predict(s, Tokenize(l)) = FinishOf(kind) /\ s \in Delimiters
  <2>1. Tokenize(l) = Bracket(kind) /\ read = ","
    BY Tokens DEF ClosesTooLate, Bracket, Misplaced
  <2>2. CASE kind = "object"
    <3>1. s = "MemberDelimiter" /\ Tokenize(l) = "}"
      BY <2>1, <2>2 DEF StateIn, Bracket
    <3> QED
      BY <2>2, <3>1 DEF Predict, NameOrEnd, FinishOf, Delimiters
  <2>3. CASE kind = "array"
    <3>1. s = "ElementDelimiter" /\ Tokenize(l) = "]"
      BY <2>1, <2>3 DEF StateIn, Bracket
    <3> QED
      BY <2>3, <3>1 DEF Predict, FinishOf, Delimiters
  <2> QED
    BY <1>1, <2>2, <2>3
<1>5. "trailingCommas" \notin flags
  BY DEF ClosesTooLate
<1>6. Transit(q, l, FinishOf(kind), accepts) = Iterating("Error", stack, error, NoEvent, Yes)
  <2> HIDE DEF s
  <2> QED BY <1>1, <1>4, <1>5, TrailingTransit
<1>7. error # "None"
  BY DEF MissingAfterComma
<1>8. PICK some : Resume(p, l, accepts) = Recursing(some, Yes, error, NoEvent, Yes)
  BY <1>3
<1> HIDE DEF p, q, s, error
<1> QED
  BY <1>2, <1>4, <1>6, <1>7, <1>8, BothFail DEF p, q, s

LEMMA TopTop ==
    ASSUME NEW S, NEW seq \in Seq(S), NEW e, NEW new
    PROVE  Top(Top(seq, e), new) = Top(seq, new)
<1>1. Len([seq EXCEPT ![Len(seq)] = e]) = Len(seq)
  OBVIOUS
<1> QED
  BY <1>1 DEF Top

\* After a value.
Comma == ","

LEMMA CommaResumes ==
    ASSUME NEW frames, NEW stack, NEW kind, NEW read, NEW count,
           Within(frames, stack, kind, read, count),
           NEW l, NEW accepts \in BOOLEAN, read = "value", l = Comma
    PROVE  /\ Sound(kind, Comma, count + 1)
           /\ Resume(Recursing(frames, Yes, "None", NoEvent, No), l, accepts) =
                Recursing(Top(frames, Reading(kind, Comma, count + 1)), Yes, "None",
                          NoEvent, No)
<1> DEFINE p == Recursing(frames, Yes, "None", NoEvent, No)
           f == Last(p.frames)
           more == count + 1
           once == Top(frames, Reading(kind, Comma, count))
           new == Top(frames, Reading(kind, Comma, more))
<1>1. kind \in {"object", "array"} /\ count \in Nat
  BY WithinCall
<1>2. more \in Nat /\ more # 0
  BY <1>1
<1>3. Sound(kind, Comma, more)
  <2> HIDE DEF more
  <2> QED BY <1>1, <1>2, SoundFields DEF ObjectReads, ArrayReads, Comma
<1>4. f.read = read
  BY InCall
<1>5. Resume(p, l, accepts) = Counted(Read(p, Comma))
  <2>1. Resume(p, l, accepts) = IF kind = "object" THEN ParseObject(p, l, accepts)
                                ELSE ParseArray(p, l, accepts)
    <3>1. l # "brokenComment"
      BY Zenon DEF Comma
    <3> QED
      BY <3>1, ResumeWithin
  <2> HIDE DEF p, f
  <2>2. ~ClosesAtOnce(f, l, "}") /\ ~ClosesAtOnce(f, l, "]")
    BY Zenon DEF ClosesAtOnce, Comma
  <2>3. ParseObject(p, l, accepts) = Counted(Read(p, Comma))
    BY <1>4, <2>2 DEF ParseObject, f, Comma
  <2>4. ParseArray(p, l, accepts) = Counted(Read(p, Comma))
    BY <1>4, <2>2 DEF ParseArray, f, Comma
  <2> QED
    BY <2>1, <2>3, <2>4
<1>6. Read(p, Comma) = Recursing(once, Yes, "None", NoEvent, No)
  BY RecursiveReads DEF Within
<1>7. frames \in Seq(Frames) /\ Len(frames) \in Nat \ {0}
  BY DEF Within, Ongoing, Nested
<1>8. once[Len(once)] = Reading(kind, Comma, count)
  <2> DEFINE e == Reading(kind, Comma, count)
  <2> HIDE DEF e
  <2>1. Len(Top(frames, e)) = Len(frames)
    BY <1>7 DEF Top
  <2>2. Top(frames, e)[Len(frames)] = e
    BY <1>7 DEF Top
  <2> QED
    BY <2>1, <2>2 DEF e
<1>9. Counted(Recursing(once, Yes, "None", NoEvent, No)) =
         Recursing(Top(once, Reading(kind, Comma, count + 1)), Yes, "None", NoEvent, No)
  <2> HIDE DEF once
  <2> QED BY <1>8, RecursiveCounts
<1>10. Top(once, Reading(kind, Comma, more)) = new
  BY <1>7, TopTop
<1>11. Resume(p, l, accepts) = Recursing(new, Yes, "None", NoEvent, No)
  <2> HIDE DEF p, once, new
  <2> QED BY <1>5, <1>6, <1>9, <1>10 DEF more
<1> HIDE DEF p, new, more
<1>12. Sound(kind, Comma, more)
       /\ Resume(p, l, accepts) = Recursing(new, Yes, "None", NoEvent, No)
  BY <1>3, <1>11
<1> QED
  BY <1>12 DEF p, new, more

LEMMA CommaInCall ==
    ASSUME NEW frames, NEW stack, NEW kind, NEW read, NEW count,
           Within(frames, stack, kind, read, count),
           NEW l, NEW accepts \in BOOLEAN, read = "value", l = Comma
    PROVE  Outcome(Parse(Recursing(frames, Yes, "None", NoEvent, No), l, accepts),
                   Advance(Iterating(StateIn(kind, read), stack, "None", NoEvent, No),
                           l, accepts))
<1> DEFINE p == Recursing(frames, Yes, "None", NoEvent, No)
           s == StateIn(kind, read)
           q == Iterating(s, stack, "None", NoEvent, No)
           more == count + 1
           back == Back(frames, Len(frames))
           dst == StateIn(kind, Comma)
           new == Top(frames, Reading(kind, Comma, more))
           top == Top(stack, Waiting(back, more))
<1>1. kind \in {"object", "array"} /\ count \in Nat
  BY WithinCall
<1>2. more \in Nat /\ more # 0
  BY <1>1
<1>3. q.state = s
  BY IterativeFields
<1>4. Sound(kind, Comma, more)
      /\ Resume(p, l, accepts) = Recursing(new, Yes, "None", NoEvent, No)
  BY CommaResumes
<1>5. Predict(s, Tokenize(l)) = dst /\ dst \in Delimiters
  <2>1. Tokenize(l) = Comma
    BY Tokens DEF Misplaced, Comma
  <2> QED
    BY <1>1, <2>1 DEF Predict, CommaOrEnd, StateIn, Delimiters, Comma
<1>6. Nested(frames) /\ frames # <<>> /\ Stacked(stack, frames)
      /\ frames[Len(frames)] = Reading(kind, read, count) /\ Sound(kind, read, count)
  BY DEF Within, Ongoing
<1>7. stack[Len(stack)] = Waiting(back, count)
  BY <1>6, StackTop
<1>8. Transit(q, l, dst, accepts) = Iterating(dst, top, "None", NoEvent, No)
  <2> HIDE DEF dst, s, back
  <2> QED BY <1>5, <1>7, DelimiterTransit DEF Delimiters, more
<1> HIDE DEF more
<1>9. Nested(new) /\ new # <<>> /\ new[Len(new)] = Reading(kind, Comma, more)
  BY <1>4, <1>6, TopNested
<1>10. Stacked(top, new)
  BY <1>2, <1>4, <1>6, StackCounts
<1> HIDE DEF p, q, s, new, top
<1>11. Ongoing(new, Yes, top)
  BY <1>9, <1>10, Truths DEF Ongoing
<1>12. StateOf(new, Yes) = dst
  BY <1>9, ReadingFields DEF StateOf
<1> HIDE DEF dst
<1> QED
  BY <1>3, <1>4, <1>5, <1>8, <1>11, <1>12, BothGoOn DEF p, q, s

LEMMA AfterValueResumes ==
    ASSUME NEW frames, NEW stack, NEW kind, NEW read, NEW count,
           Within(frames, stack, kind, read, count),
           NEW l, l # "brokenComment", NEW accepts \in BOOLEAN,
           read = "value", l # Comma, l # Bracket(kind)
    PROVE  Resume(Recursing(frames, Yes, "None", NoEvent, No), l, accepts) =
             Recursing(frames, Yes, ErrorOf[StateIn(kind, read)], NoEvent, Yes)
<1> DEFINE p == Recursing(frames, Yes, "None", NoEvent, No)
           s == StateIn(kind, read)
           f == Last(p.frames)
<1>1. kind \in {"object", "array"}
  BY WithinCall
<1>2. f.read = read
  BY InCall
<1>3. Resume(p, l, accepts) = SetParseError(p, ErrorOf[s])
  <2>1. Resume(p, l, accepts) = IF kind = "object" THEN ParseObject(p, l, accepts)
                                ELSE ParseArray(p, l, accepts)
    BY ResumeWithin
  <2> HIDE DEF p, f
  <2>2. ~ClosesAtOnce(f, l, "}") /\ ~ClosesAtOnce(f, l, "]")
    BY <1>2, Zenon DEF ClosesAtOnce
  <2>3. CASE kind = "object"
    <3>1. s = "MemberValue"
      BY <2>3 DEF StateIn
    <3>2. ErrorOf[s] = "ObjectMissCommaOrCurlyBracket"
      BY <3>1 DEF ErrorOf
    <3>3. ParseObject(p, l, accepts) = SetParseError(p, "ObjectMissCommaOrCurlyBracket")
      BY <1>2, <2>2, <2>3 DEF ParseObject, f, Bracket, Comma
    <3> QED
      BY <2>1, <2>3, <3>2, <3>3
  <2>4. CASE kind = "array"
    <3>1. s = "Element"
      BY <2>4 DEF StateIn
    <3>2. ErrorOf[s] = "ArrayMissCommaOrSquareBracket"
      BY <3>1 DEF ErrorOf
    <3>3. ParseArray(p, l, accepts) = SetParseError(p, "ArrayMissCommaOrSquareBracket")
      BY <1>2, <2>2, <2>4 DEF ParseArray, f, Bracket, Comma
    <3> QED
      BY <2>1, <2>4, <3>2, <3>3
  <2> QED
    BY <1>1, <2>3, <2>4
<1>4. SetParseError(p, ErrorOf[s]) = Recursing(frames, Yes, ErrorOf[s], NoEvent, Yes)
  BY RecursiveErrs
<1> HIDE DEF p, s
<1> QED
  BY <1>3, <1>4 DEF p, s

LEMMA AfterValueInCall ==
    ASSUME NEW frames, NEW stack, NEW kind, NEW read, NEW count,
           Within(frames, stack, kind, read, count),
           NEW l, l # "brokenComment", NEW accepts \in BOOLEAN,
           read = "value", l # Comma, l # Bracket(kind)
    PROVE  Outcome(Parse(Recursing(frames, Yes, "None", NoEvent, No), l, accepts),
                   Advance(Iterating(StateIn(kind, read), stack, "None", NoEvent, No),
                           l, accepts))
<1> DEFINE p == Recursing(frames, Yes, "None", NoEvent, No)
           s == StateIn(kind, read)
           q == Iterating(s, stack, "None", NoEvent, No)
<1>1. kind \in {"object", "array"}
  BY WithinCall
<1>2. q.state = s
  BY IterativeFields
<1>3. Resume(p, l, accepts) = Recursing(frames, Yes, ErrorOf[s], NoEvent, Yes)
  BY AfterValueResumes
<1>4. Predict(s, Tokenize(l)) = "Error"
  <2>1. Tokenize(l) # Comma /\ Tokenize(l) # Bracket(kind)
    BY Tokens DEF Misplaced, Comma, Bracket
  <2>2. s = After(kind)
    BY <1>1 DEF StateIn, After
  <2>3. CASE kind = "object"
    BY <2>1, <2>2, <2>3 DEF Predict, CommaOrEnd, After, Comma, Bracket
  <2>4. CASE kind = "array"
    BY <2>1, <2>2, <2>4 DEF Predict, CommaOrEnd, After, Comma, Bracket
  <2> QED
    BY <1>1, <2>3, <2>4
<1>5. Transit(q, l, "Error", accepts) = Iterating("Error", stack, "None", NoEvent, No)
  BY GotoTransit
<1> HIDE DEF p, q, s
<1> QED
  BY <1>2, <1>3, <1>4, <1>5, BothRefuse DEF p, q, s

\* In a call the two stay together, whatever comes next.
LEMMA CallStep ==
    ASSUME NEW frames, NEW stack, NEW kind, NEW read, NEW count,
           Within(frames, stack, kind, read, count),
           NEW l, l # "brokenComment", NEW accepts \in BOOLEAN
    PROVE  Outcome(Parse(Recursing(frames, Yes, "None", NoEvent, No), l, accepts),
                   Advance(Iterating(StateIn(kind, read), stack, "None", NoEvent, No),
                           l, accepts))
<1>1. kind \in {"object", "array"}
      /\ (kind = "object" => read \in ObjectReads)
      /\ (kind = "array" => read \in ArrayReads)
  BY WithinCall
<1>2. \/ ValueComesNext(kind, read, l)
      \/ NameComesNext(kind, read, l)
      \/ kind = "object" /\ read = "name"
      \/ MayClose(kind, read, l)
      \/ ClosesTooLate(kind, read, l)
      \/ read = "value" /\ l = Comma
      \/ read = "value" /\ l # Comma /\ l # Bracket(kind)
  BY <1>1, Zenon DEF ValueComesNext, NameComesNext, MayClose, ClosesTooLate, ObjectReads,
     ArrayReads, Bracket
<1>3. CASE ValueComesNext(kind, read, l)
  BY <1>3, ValueInCall
<1>4. CASE NameComesNext(kind, read, l)
  BY <1>4, NameInCall
<1>5. CASE kind = "object" /\ read = "name"
  BY <1>5, ColonInCall
<1>6. CASE MayClose(kind, read, l)
  BY <1>6, CloseInCall
<1>7. CASE ClosesTooLate(kind, read, l)
  BY <1>7, TrailingInCall
<1>8. CASE read = "value" /\ l = Comma
  BY <1>8, CommaInCall
<1>9. CASE read = "value" /\ l # Comma /\ l # Bracket(kind)
  BY <1>9, AfterValueInCall
<1> QED
  BY <1>2, <1>3, <1>4, <1>5, <1>6, <1>7, <1>8, <1>9
-----------------------------------------------------------------------------
(* Before the root and behind it, and at the end of the text.              *)

LEMMA AtTheRoot ==
    ASSUME NEW root \in BOOLEAN, NEW l, l # "brokenComment", NEW accepts
    PROVE  LET p == Recursing(<<>>, root, "None", NoEvent, No)
           IN  Resume(p, l, accepts) =
                 IF root
                 THEN IF l \in Ends THEN Return(p)
                      ELSE SetParseError(p, "DocumentRootNotSingular")
                 ELSE IF l \in Ends THEN SetParseError(p, "DocumentEmpty")
                      ELSE ParseValue(Recursing(<<>>, Yes, "None", NoEvent, No), l,
                                      accepts)
<1> DEFINE none == <<>>
           p == Recursing(none, root, "None", NoEvent, No)
<1>1. p.frames = none /\ p.root = root
  BY RecursiveFields
<1>2. [p EXCEPT !.root = TRUE] = Recursing(none, Yes, "None", NoEvent, No)
  <2>1. [p EXCEPT !.root = TRUE] = [p EXCEPT !.root = Yes]
    BY Zenon DEF Yes
  <2>2. p = Recursing(none, root, "None", NoEvent, No)
    OBVIOUS
  <2> HIDE DEF p
  <2>3. [p EXCEPT !.root = Yes] = Recursing(none, Yes, "None", NoEvent, No)
    <3> HIDE DEF none
    <3> QED BY <2>2 DEF Recursing
  <2> QED
    BY <2>1, <2>3
<1> HIDE DEF p
<1>3. Resume(p, l, accepts) =
                 IF root
                 THEN IF l \in Ends THEN Return(p)
                      ELSE SetParseError(p, "DocumentRootNotSingular")
                 ELSE IF l \in Ends THEN SetParseError(p, "DocumentEmpty")
                      ELSE ParseValue(Recursing(none, Yes, "None", NoEvent, No), l, accepts)
  BY <1>1, <1>2 DEF Resume
<1> QED
  BY <1>3 DEF p

LEMMA StartStep ==
    ASSUME NEW stack, Ongoing(<<>>, No, stack),
           NEW l, l \notin Ends, l # "brokenComment", l \notin Misplaced,
           NEW accepts \in BOOLEAN
    PROVE  Outcome(Parse(Recursing(<<>>, No, "None", NoEvent, No), l, accepts),
                   Advance(Iterating("Start", stack, "None", NoEvent, No), l, accepts))
<1> DEFINE none == <<>>
           p == Recursing(none, No, "None", NoEvent, No)
<1>1. Resume(p, l, accepts) = ParseValue(Recursing(none, Yes, "None", NoEvent, No), l, accepts)
  BY AtTheRoot, Truths
<1>2. Ongoing(none, Yes, stack)
  BY Truths DEF Ongoing
<1>3. Restored("Start") = "Start" /\ Back(none, Len(none) + 1) = "Start"
  BY DEF Restored, Back
<1>4. StateOf(none, Yes) = "Finish"
  BY Zenon DEF StateOf, Yes
<1>5. Predict("Start", Tokenize(l)) = ValueTo(Tokenize(l), "Value")
  BY Zenon DEF Predict
<1>6. none = <<>>
  OBVIOUS
<1> HIDE DEF p, none
<1>7. Outcome(Parse(p, l, accepts),
              Advance(Iterating("Start", stack, "None", NoEvent, No), l, accepts))
  BY <1>1, <1>2, <1>3, <1>4, <1>5, <1>6, ValueStep
<1> QED
  BY <1>7 DEF p, none

\* A text that begins with a delimiter.
LEMMA StartsWrong ==
    ASSUME NEW stack, NEW l \in Misplaced, NEW accepts \in BOOLEAN
    PROVE  /\ \E frames : Parse(Recursing(<<>>, No, "None", NoEvent, No), l, accepts) =
                            Recursing(frames, Yes, "ValueInvalid", NoEvent, Yes)
           /\ Advance(Iterating("Start", stack, "None", NoEvent, No), l, accepts) =
                Iterating("Start", stack, "DocumentEmpty", NoEvent, Yes)
<1> DEFINE none == <<>>
           p == Recursing(none, No, "None", NoEvent, No)
           r == Recursing(none, Yes, "None", NoEvent, No)
           q == Iterating("Start", stack, "None", NoEvent, No)
<1>1. l \notin Ends /\ l # "brokenComment" /\ l \notin {"{", "["}
  BY Zenon DEF Misplaced, Ends
<1>2. Resume(p, l, accepts) = ParseValue(r, l, accepts)
  BY <1>1, AtTheRoot, Truths
<1>3. ScalarError(l, accepts) = "ValueInvalid" /\ ScalarHeard(l) = NoEvent
      /\ Over(IsScalar(l) /\ accepts) = Yes
  BY Brackets DEF ScalarError, ScalarHeard, Over, Misplaced
<1>4. ParseScalar(r, l, accepts) = Recursing(none, Yes, "ValueInvalid", NoEvent, Yes)
  BY <1>3, RecursiveScalar
<1> HIDE DEF r, none
<1>5. ParseValue(r, l, accepts) = ParseScalar(r, l, accepts)
  BY <1>1 DEF ParseValue
<1>6. Resume(p, l, accepts) = Recursing(none, Yes, "ValueInvalid", NoEvent, Yes)
  BY <1>2, <1>4, <1>5
<1>7. Stop(Yes /\ none = <<>>, Yes) = Yes
  BY DEF Stop
<1> HIDE DEF p
<1>8. Parse(p, l, accepts) = Recursing(none, Yes, "ValueInvalid", NoEvent, Yes)
  BY <1>6, <1>7, Parses
<1>9. Predict("Start", Tokenize(l)) = "Error"
  <2>1. Tokenize(l) = l
    BY Tokens
  <2> QED
    BY <2>1 DEF Predict, ValueTo, Misplaced
<1>10. Transit(q, l, "Error", accepts) = Iterating("Error", stack, "None", NoEvent, No)
  BY GotoTransit
<1>11. q.state = "Start" /\ ErrorOf["Start"] = "DocumentEmpty"
  BY IterativeFields DEF ErrorOf
<1> HIDE DEF q
<1>12. Advance(q, l, accepts) = Iterating("Start", stack, "DocumentEmpty", NoEvent, Yes)
  BY <1>9, <1>10, <1>11, Advances
<1> QED
  BY <1>8, <1>12 DEF p, q, none

LEMMA ErrorHandled ==
    ASSUME NEW s, NEW stack, NEW from
    PROVE  HandleError(Iterating(s, stack, "None", NoEvent, No), from) =
             Iterating(s, stack, ErrorOf[from], NoEvent, Yes)
<1> DEFINE q == Iterating(s, stack, "None", NoEvent, No)
<1>1. q.error = "None"
  BY IterativeFields
<1>2. SetParseError(q, ErrorOf[from]) = Iterating(s, stack, ErrorOf[from], NoEvent, Yes)
  BY IterativeErrs
<1> HIDE DEF q
<1>3. HandleError(q, from) = SetParseError(q, ErrorOf[from])
  BY <1>1, Zenon DEF HandleError
<1> QED
  BY <1>2, <1>3 DEF q

LEMMA FinishStep ==
    ASSUME NEW stack, NEW l, l \notin Ends, l # "brokenComment", NEW accepts \in BOOLEAN
    PROVE  LET p == Recursing(<<>>, Yes, "None", NoEvent, No)
               q == Iterating("Finish", stack, "None", NoEvent, No)
           IN  /\ Outcome(Parse(p, l, accepts), Advance(q, l, accepts))
               /\ Outcome(Parse(p, l, accepts), HandleError(q, "Finish"))
<1> DEFINE none == <<>>
           p == Recursing(none, Yes, "None", NoEvent, No)
           q == Iterating("Finish", stack, "None", NoEvent, No)
<1>1. Resume(p, l, accepts) = SetParseError(p, "DocumentRootNotSingular")
  BY AtTheRoot, Truths
<1>2. ErrorOf["Finish"] = "DocumentRootNotSingular"
  BY DEF ErrorOf
<1> HIDE DEF none
<1>3. Resume(p, l, accepts) = Recursing(none, Yes, ErrorOf["Finish"], NoEvent, Yes)
  BY <1>1, <1>2, RecursiveErrs
<1>4. Predict("Finish", Tokenize(l)) = "Error"
  BY Zenon DEF Predict
<1>5. Transit(q, l, "Error", accepts) = Iterating("Error", stack, "None", NoEvent, No)
  BY GotoTransit
<1>6. q.state = "Finish"
  BY IterativeFields
<1>7. HandleError(q, "Finish") = Iterating("Finish", stack, ErrorOf["Finish"], NoEvent, Yes)
  BY ErrorHandled
<1>8. Stop(Yes /\ none = <<>>, Yes) = Yes
  BY DEF Stop
<1> HIDE DEF p, q
<1>9. Outcome(Parse(p, l, accepts), Advance(q, l, accepts))
  BY <1>3, <1>4, <1>5, <1>6, BothRefuse
<1>10. Parse(p, l, accepts) = Recursing(none, Yes, ErrorOf["Finish"], NoEvent, Yes)
  BY <1>3, <1>8, Parses
<1>11. Outcome(Parse(p, l, accepts), HandleError(q, "Finish"))
  BY <1>7, <1>10, Stops
<1> QED
  BY <1>9, <1>11 DEF p, q, none

\* The end of the text at the root,
LEMMA EndStep ==
    ASSUME NEW root, root \in {Yes, No}, NEW l \in Ends, NEW accepts
    PROVE  Parse(Recursing(<<>>, root, "None", NoEvent, No), l, accepts) =
             Recursing(<<>>, root, IF root THEN "None" ELSE "DocumentEmpty", NoEvent, Yes)
<1> DEFINE none == <<>>
           p == Recursing(none, root, "None", NoEvent, No)
           error == IF root THEN "None" ELSE "DocumentEmpty"
<1>1. l # "brokenComment" /\ root \in BOOLEAN
  BY Truths DEF Ends
<1>2. Resume(p, l, accepts) = IF root THEN Return(p) ELSE SetParseError(p, "DocumentEmpty")
  BY <1>1, AtTheRoot
<1> HIDE DEF none
<1>3. Return(p) = Recursing(none, root, "None", NoEvent, Yes)
  BY RecursiveReturns
<1>4. SetParseError(p, "DocumentEmpty") = Recursing(none, root, "DocumentEmpty", NoEvent, Yes)
  BY RecursiveErrs
<1>5. Resume(p, l, accepts) = Recursing(none, root, error, NoEvent, Yes)
  <2> HIDE DEF p
  <2>1. CASE root
    BY <1>2, <1>3, <2>1, Zenon
  <2>2. CASE ~root
    BY <1>2, <1>4, <2>2, Zenon
  <2> QED
    BY <2>1, <2>2
<1>6. Stop(root /\ none = <<>>, Yes) = Yes
  BY DEF Stop
<1> HIDE DEF p, error
<1>7. Parse(p, l, accepts) = Recursing(none, root, error, NoEvent, Yes)
  BY <1>5, <1>6, Parses
<1> QED
  BY <1>7 DEF p, error, none

\* and in a call.
LEMMA EndInCall ==
    ASSUME NEW frames, NEW stack, NEW kind, NEW read, NEW count,
           Within(frames, stack, kind, read, count),
           NEW l \in Ends, NEW accepts \in BOOLEAN, NEW left
    PROVE  LET s == StateIn(kind, read)
               p == Recursing(frames, Yes, "None", NoEvent, No)
           IN  /\ Outcome(Parse(p, l, accepts),
                          Advance(Iterating(s, stack, "None", NoEvent, No), l, accepts))
               /\ Outcome(Parse(p, l, accepts),
                          Iterating(s, left, ErrorOf[s], NoEvent, Yes))
<1> DEFINE s == StateIn(kind, read)
           p == Recursing(frames, Yes, "None", NoEvent, No)
           q == Iterating(s, stack, "None", NoEvent, No)
<1>1. Outcome(Parse(p, l, accepts), Advance(q, l, accepts))
  <2>1. l # "brokenComment"
    BY DEF Ends
  <2> QED
    BY <2>1, CallStep
<1>2. kind \in {"object", "array"}
      /\ (kind = "object" => read \in ObjectReads)
      /\ (kind = "array" => read \in ArrayReads)
  BY WithinCall
<1>3. Tokenize(l) = "Scalar"
  BY Tokens DEF Ends, Misplaced
<1>4. ScalarError(l, accepts) = "ValueInvalid" /\ ScalarHeard(l) = NoEvent
      /\ Over(IsScalar(l) /\ accepts) = Yes
  <2>1. ~IsScalar(l) /\ l # "brokenString" /\ l # "string"
    BY ScalarLexemes DEF Ends, IsScalar
  <2> QED
    BY <2>1 DEF ScalarError, ScalarHeard, Over
<1>5. q.state = s
  BY IterativeFields
<1>6. Predict(s, "Scalar") = "Error"
      \/ (Predict(s, "Scalar") \in {"MemberValue", "Element"} /\ ErrorOf[s] = "ValueInvalid")
  <2>1. CASE kind = "object" /\ read = ":"
    <3>1. s = "KeyValueDelimiter"
      BY <2>1 DEF StateIn
    <3> HIDE DEF s
    <3> QED
      BY <3>1 DEF Predict, ValueTo, ErrorOf
  <2>2. CASE kind = "array" /\ read \in {"begin", ","}
    <3>1. s \in {"ArrayInitial", "ElementDelimiter"}
      BY <2>2 DEF StateIn
    <3> HIDE DEF s
    <3>2. Predict(s, "Scalar") = "Element"
      BY <3>1 DEF Predict, ValueTo
    <3>3. ErrorOf[s] = "ValueInvalid"
      BY <3>1 DEF ErrorOf
    <3> QED
      BY <3>2, <3>3
  <2>3. CASE ~(kind = "object" /\ read = ":") /\ ~(kind = "array" /\ read \in {"begin", ","})
    <3>1. s \in {"ObjectInitial", "MemberKey", "MemberValue", "MemberDelimiter", "Element"}
      BY <1>2, <2>3 DEF StateIn, ObjectReads, ArrayReads
    <3> HIDE DEF s
    <3>2. /\ Predict("ObjectInitial", "Scalar") = NameOrEnd("Scalar")
          /\ Predict("MemberDelimiter", "Scalar") = NameOrEnd("Scalar")
      BY Zenon DEF Predict
    <3>3. NameOrEnd("Scalar") = "Error"
      BY Zenon DEF NameOrEnd
    <3>4. Predict("MemberKey", "Scalar") = "Error"
      BY Zenon DEF Predict
    <3>5. Predict("MemberValue", "Scalar") =
            CommaOrEnd("Scalar", "MemberDelimiter", "}", "ObjectFinish")
      BY Zenon DEF Predict
    <3>6. Predict("Element", "Scalar") =
            CommaOrEnd("Scalar", "ElementDelimiter", "]", "ArrayFinish")
      BY Zenon DEF Predict
    <3>7. /\ CommaOrEnd("Scalar", "MemberDelimiter", "}", "ObjectFinish") = "Error"
          /\ CommaOrEnd("Scalar", "ElementDelimiter", "]", "ArrayFinish") = "Error"
      BY Zenon DEF CommaOrEnd
    <3>8. Predict("MemberValue", "Scalar") = "Error" /\ Predict("Element", "Scalar") = "Error"
      BY <3>5, <3>6, <3>7, Zenon
    <3> QED
      BY <3>1, <3>2, <3>3, <3>4, <3>8
  <2> QED
    BY <2>1, <2>2, <2>3
<1> HIDE DEF s
<1>7. Advance(q, l, accepts) = Iterating(s, stack, ErrorOf[s], NoEvent, Yes)
  <2>1. CASE Predict(s, "Scalar") = "Error"
    <3>1. Transit(q, l, "Error", accepts) = Iterating("Error", stack, "None", NoEvent, No)
      BY GotoTransit
    <3> HIDE DEF q
    <3> QED
      BY <1>3, <1>5, <2>1, <3>1, Advances
  <2>2. CASE Predict(s, "Scalar") \in {"MemberValue", "Element"}
             /\ ErrorOf[s] = "ValueInvalid"
    <3> DEFINE dst == Predict(s, "Scalar")
    <3>1. Transit(q, l, dst, accepts) =
            Iterating(Settled(ScalarError(l, accepts), dst), stack,
                      ScalarError(l, accepts), ScalarHeard(l),
                      Over(IsScalar(l) /\ accepts))
      <4>1. dst \in {"MemberValue", "Element"}
        BY <2>2
      <4> HIDE DEF dst
      <4>2. dst \in {"Value", "MemberValue", "Element"}
            /\ dst = IF dst = "Value" THEN "Finish" ELSE dst
        BY <4>1
      <4> QED
        BY <4>2, ScalarTransit
    <3>2. Settled("ValueInvalid", dst) = "Error"
      BY DEF Settled
    <3> HIDE DEF q, dst
    <3>3. Transit(q, l, dst, accepts) = Iterating("Error", stack, "ValueInvalid", NoEvent, Yes)
      BY <1>4, <3>1, <3>2
    <3> QED
      BY <1>3, <1>5, <2>2, <3>3, Advances DEF dst
  <2> QED
    BY <1>6, <2>1, <2>2
<1> DEFINE r == Parse(p, l, accepts)
           d == Iterating(s, stack, ErrorOf[s], NoEvent, Yes)
           e == Iterating(s, left, ErrorOf[s], NoEvent, Yes)
<1>8. d.returned = Yes /\ d.event = NoEvent /\ d.error = ErrorOf[s]
  BY IterativeFields
<1>9. e.returned = Yes /\ e.event = NoEvent /\ e.error = ErrorOf[s]
  BY IterativeFields
<1>10. Outcome(r, d)
  BY <1>1, <1>7
<1> HIDE DEF r, d, e
<1>11. r.returned = Yes /\ d.event = r.event /\ d.error = r.error
  <2>1. ASSUME NEW state, NEW behind, NEW event,
               d = Iterating(state, behind, "None", event, No)
        PROVE  FALSE
    <3>1. d.returned = No
      BY <2>1, IterativeFields
    <3> QED
      BY <1>8, <3>1, Truths
  <2> QED
    BY <2>1, <1>8, <1>10, Zenon DEF Outcome
<1>12. Outcome(r, e)
  BY <1>8, <1>9, <1>11, Zenon DEF Outcome
<1> QED
  BY <1>1, <1>12 DEF r, e, s

-----------------------------------------------------------------------------
(* The steps of the three.                                                 *)

\* What the recursive parser calls invalid, the iterative ones call empty.
Excused(r, q, error) ==
    /\ r.returned = Yes /\ q.returned = Yes
    /\ q.event = r.event /\ q.error = error

\* The state before the root, behind it and in a call.
LEMMA Where ==
    ASSUME NEW frames, NEW root \in BOOLEAN, NEW stack, Ongoing(frames, root, stack)
    PROVE  \/ frames = <<>> /\ root = No /\ StateOf(frames, root) = "Start"
           \/ frames = <<>> /\ root = Yes /\ StateOf(frames, root) = "Finish"
           \/ /\ root = Yes /\ StateOf(frames, root) # "Finish"
              /\ \E kind, read, count :
                   /\ Within(frames, stack, kind, read, count)
                   /\ StateOf(frames, root) = StateIn(kind, read)
<1>1. root = Yes \/ root = No
  BY Zenon DEF Yes, No
<1>2. CASE frames = <<>>
  <2>1. StateOf(frames, Yes) = "Finish" /\ StateOf(frames, No) = "Start"
    BY <1>2, Zenon DEF StateOf, Yes, No
  <2> QED
    BY <1>1, <1>2, <2>1
<1>3. CASE frames # <<>>
  <2>1. root = Yes
    BY <1>1, <1>3, Truths DEF Ongoing
  <2>2. Nested(frames)
    BY DEF Ongoing
  <2>3. StateOf(frames, root) # "Finish"
    BY <1>3, <2>2, Whereabouts
  <2>4. PICK kind, read, count :
          frames[Len(frames)] = Reading(kind, read, count) /\ Sound(kind, read, count)
    BY <1>3, <2>2, Innermost
  <2>5. Within(frames, stack, kind, read, count)
    BY <1>3, <2>1, <2>4 DEF Within
  <2>6. StateOf(frames, root) = StateIn(kind, read)
    BY <2>1, <2>5, WithinCall
  <2> QED
    BY <2>1, <2>3, <2>5, <2>6
<1> QED
  BY <1>2, <1>3

LEMMA BrokenComment ==
    ASSUME NEW frames, NEW root, NEW accepts
    PROVE  Parse(Recursing(frames, root, "None", NoEvent, No), "brokenComment", accepts) =
             Recursing(frames, root, "UnspecificSyntaxError", NoEvent, Yes)
<1> DEFINE p == Recursing(frames, root, "None", NoEvent, No)
           l == "brokenComment"
<1>1. Resume(p, l, accepts) = SetParseError(p, "UnspecificSyntaxError")
  <2> HIDE DEF p
  <2> QED
    BY Zenon DEF Resume
<1>2. SetParseError(p, "UnspecificSyntaxError") =
        Recursing(frames, root, "UnspecificSyntaxError", NoEvent, Yes)
  BY RecursiveErrs
<1>3. Stop(root /\ frames = <<>>, Yes) = Yes
  BY DEF Stop
<1> HIDE DEF p, l
<1>4. Parse(p, l, accepts) =
        Recursing(frames, root, "UnspecificSyntaxError", NoEvent,
                  Stop(root /\ frames = <<>>, Yes))
  BY <1>1, <1>2, Parses
<1> QED
  BY <1>3, <1>4 DEF p, l

LEMMA IterativeBrokenComment ==
    ASSUME NEW s, NEW stack, NEW accepts
    PROVE  IterativeParse(Iterating(s, stack, "None", NoEvent, No), "brokenComment", accepts) =
             Iterating(s, stack, "UnspecificSyntaxError", NoEvent, Yes)
<1> DEFINE i == Iterating(s, stack, "None", NoEvent, No)
<1>1. SetParseError(i, "UnspecificSyntaxError") =
        Iterating(s, stack, "UnspecificSyntaxError", NoEvent, Yes)
  BY IterativeErrs
<1> HIDE DEF i
<1>2. IterativeParse(i, "brokenComment", accepts) = SetParseError(i, "UnspecificSyntaxError")
  BY DEF IterativeParse, Ends
<1> QED
  BY <1>1, <1>2 DEF i

\* The end of the text, where an iterative parser handles the error itself.
LEMMA EndOutcome ==
    ASSUME NEW frames, NEW root \in BOOLEAN, NEW stack, Ongoing(frames, root, stack),
           NEW l \in Ends, NEW accepts \in BOOLEAN, NEW left
    PROVE  LET s == StateOf(frames, root)
               r == Parse(Recursing(frames, root, "None", NoEvent, No), l, accepts)
           IN  /\ s = "Finish" => Outcome(r, Iterating(s, left, "None", NoEvent, Yes))
               /\ s # "Finish" => Outcome(r, Iterating(s, left, ErrorOf[s], NoEvent, Yes))
<1> DEFINE s == StateOf(frames, root)
           r == Parse(Recursing(frames, root, "None", NoEvent, No), l, accepts)
<1>1. CASE frames = <<>> /\ root = No /\ s = "Start"
  <2>1. r = Recursing(frames, root, "DocumentEmpty", NoEvent, Yes)
    BY <1>1, EndStep, Truths
  <2>2. ErrorOf["Start"] = "DocumentEmpty"
    BY DEF ErrorOf
  <2> HIDE DEF r, s
  <2> QED
    BY <1>1, <2>1, <2>2, Stops DEF r, s
<1>2. CASE frames = <<>> /\ root = Yes /\ s = "Finish"
  <2>1. r = Recursing(frames, root, "None", NoEvent, Yes)
    BY <1>2, EndStep, Truths
  <2> HIDE DEF r, s
  <2> QED
    BY <1>2, <2>1, Stops DEF r, s
<1>3. CASE /\ root = Yes /\ s # "Finish"
           /\ \E kind, read, count :
                Within(frames, stack, kind, read, count) /\ s = StateIn(kind, read)
  <2>1. PICK kind, read, count :
          Within(frames, stack, kind, read, count) /\ s = StateIn(kind, read)
    BY <1>3
  <2>2. Outcome(r, Iterating(StateIn(kind, read), left, ErrorOf[StateIn(kind, read)],
                             NoEvent, Yes))
    BY <1>3, <2>1, EndInCall
  <2> HIDE DEF r, s
  <2> QED
    BY <1>3, <2>1, <2>2 DEF r, s
<1> HIDE DEF r
<1>4. \/ frames = <<>> /\ root = No /\ s = "Start"
      \/ frames = <<>> /\ root = Yes /\ s = "Finish"
      \/ /\ root = Yes /\ s # "Finish"
         /\ \E kind, read, count :
              Within(frames, stack, kind, read, count) /\ s = StateIn(kind, read)
  BY Where
<1> QED
  BY <1>1, <1>2, <1>3, <1>4 DEF r
\* A lexeme that an iterative parser takes from its state.
LEMMA AdvanceStep ==
    ASSUME NEW frames, NEW root \in BOOLEAN, NEW stack, Ongoing(frames, root, stack),
           NEW l, l \notin Ends, l # "brokenComment", NEW accepts \in BOOLEAN
    PROVE  LET r == Parse(Recursing(frames, root, "None", NoEvent, No), l, accepts)
               q == Advance(Iterating(StateOf(frames, root), stack, "None", NoEvent, No),
                            l, accepts)
           IN  \/ Outcome(r, q)
               \/ root = No /\ l \in Misplaced /\ Excused(r, q, "DocumentEmpty")
<1> DEFINE s == StateOf(frames, root)
           p == Recursing(frames, root, "None", NoEvent, No)
           q == Iterating(s, stack, "None", NoEvent, No)
           r == Parse(p, l, accepts)
           n == Advance(q, l, accepts)
<1>1. CASE frames = <<>> /\ root = No /\ s = "Start"
  <2>1. CASE l \in Misplaced
    <3>1. PICK any : r = Recursing(any, Yes, "ValueInvalid", NoEvent, Yes)
      BY <1>1, <2>1, StartsWrong
    <3>2. n = Iterating("Start", stack, "DocumentEmpty", NoEvent, Yes)
      BY <1>1, <2>1, StartsWrong
    <3>3. r.returned = Yes /\ r.event = NoEvent
      <4> HIDE DEF r
      <4> QED BY <3>1, RecursiveFields
    <3>4. n.returned = Yes /\ n.event = NoEvent /\ n.error = "DocumentEmpty"
      <4> HIDE DEF n
      <4> QED BY <3>2, IterativeFields
    <3> HIDE DEF r, n
    <3>5. Excused(r, n, "DocumentEmpty")
      BY <3>3, <3>4 DEF Excused
    <3> QED
      BY <1>1, <2>1, <3>5 DEF r, n
  <2>2. CASE l \notin Misplaced
    <3>1. Outcome(r, n)
      BY <1>1, <2>2, StartStep
    <3> HIDE DEF r, n
    <3> QED
      BY <3>1 DEF r, n
  <2> QED
    BY <2>1, <2>2
<1>2. CASE frames = <<>> /\ root = Yes /\ s = "Finish"
  <2>1. Outcome(r, n)
    BY <1>2, FinishStep
  <2> HIDE DEF r, n
  <2> QED
    BY <2>1 DEF r, n
<1>3. CASE /\ root = Yes /\ s # "Finish"
           /\ \E kind, read, count :
                Within(frames, stack, kind, read, count) /\ s = StateIn(kind, read)
  <2>1. PICK kind, read, count :
          Within(frames, stack, kind, read, count) /\ s = StateIn(kind, read)
    BY <1>3
  <2>2. Outcome(Parse(Recursing(frames, Yes, "None", NoEvent, No), l, accepts),
                Advance(Iterating(StateIn(kind, read), stack, "None", NoEvent, No), l,
                        accepts))
    BY <2>1, CallStep
  <2>3. Outcome(r, n)
    BY <1>3, <2>1, <2>2
  <2> HIDE DEF r, n
  <2> QED
    BY <2>3 DEF r, n
<1> HIDE DEF r, n
<1>4. \/ frames = <<>> /\ root = No /\ s = "Start"
      \/ frames = <<>> /\ root = Yes /\ s = "Finish"
      \/ /\ root = Yes /\ s # "Finish"
         /\ \E kind, read, count :
              Within(frames, stack, kind, read, count) /\ s = StateIn(kind, read)
  BY Where
<1> QED
  BY <1>1, <1>2, <1>3, <1>4 DEF r, n

\* One lexeme for the iterative parser. A text that begins with a delimiter is
\* refused by both, for another reason.
LEMMA IterativeStep ==
    ASSUME NEW frames, NEW root \in BOOLEAN, NEW stack, Ongoing(frames, root, stack),
           NEW l, NEW accepts \in BOOLEAN
    PROVE  LET r == Parse(Recursing(frames, root, "None", NoEvent, No), l, accepts)
               q == IterativeParse(Iterating(StateOf(frames, root), stack, "None",
                                             NoEvent, No), l, accepts)
           IN  \/ Outcome(r, q)
               \/ root = No /\ l \in Misplaced /\ Excused(r, q, "DocumentEmpty")
<1> DEFINE s == StateOf(frames, root)
           p == Recursing(frames, root, "None", NoEvent, No)
           i == Iterating(s, stack, "None", NoEvent, No)
<1>1. i.state = s
  BY IterativeFields
<1>2. CASE l = "brokenComment"
  <2>1. Parse(p, l, accepts) =
          Recursing(frames, root, "UnspecificSyntaxError", NoEvent, Yes)
    BY <1>2, BrokenComment
  <2>2. IterativeParse(i, l, accepts) =
          Iterating(s, stack, "UnspecificSyntaxError", NoEvent, Yes)
    BY <1>2, IterativeBrokenComment
  <2> HIDE DEF p, i, s
  <2>3. Outcome(Parse(p, l, accepts), IterativeParse(i, l, accepts))
    BY <2>1, <2>2, Stops
  <2> QED
    BY <2>3 DEF p, i, s
<1>3. CASE l \in Ends
  <2>1. /\ s = "Finish" => Outcome(Parse(p, l, accepts),
                                   Iterating(s, stack, "None", NoEvent, Yes))
        /\ s # "Finish" => Outcome(Parse(p, l, accepts),
                                   Iterating(s, stack, ErrorOf[s], NoEvent, Yes))
    BY <1>3, EndOutcome
  <2>2. HandleError(i, s) = Iterating(s, stack, ErrorOf[s], NoEvent, Yes)
    BY ErrorHandled
  <2>3. Return(i) = Iterating(s, stack, "None", NoEvent, Yes)
    BY IterativeReturns
  <2> HIDE DEF p, i, s
  <2>4. IterativeParse(i, l, accepts) =
          IF s = "Finish" THEN Return(i) ELSE HandleError(i, s)
    BY <1>1, <1>3 DEF IterativeParse, Ends
  <2>5. Outcome(Parse(p, l, accepts), IterativeParse(i, l, accepts))
    BY <2>1, <2>2, <2>3, <2>4
  <2> QED
    BY <2>5 DEF p, i, s
<1>4. CASE l # "brokenComment" /\ l \notin Ends
  <2>1. IterativeParse(i, l, accepts) = Advance(i, l, accepts)
    <3> HIDE DEF i
    <3> QED
      BY <1>4 DEF IterativeParse
  <2>2. \/ Outcome(Parse(p, l, accepts), Advance(i, l, accepts))
        \/ /\ root = No /\ l \in Misplaced
           /\ Excused(Parse(p, l, accepts), Advance(i, l, accepts), "DocumentEmpty")
    BY <1>4, AdvanceStep
  <2> HIDE DEF p, i, s
  <2>3. \/ Outcome(Parse(p, l, accepts), IterativeParse(i, l, accepts))
        \/ /\ root = No /\ l \in Misplaced
           /\ Excused(Parse(p, l, accepts), IterativeParse(i, l, accepts), "DocumentEmpty")
    BY <2>1, <2>2
  <2> QED
    BY <2>3 DEF p, i, s
<1> QED
  BY <1>2, <1>3, <1>4

\* One lexeme for the pulled one. It takes spaces before the end for a value.
LEMMA SpacesFirst ==
    ASSUME NEW stack, NEW accepts \in BOOLEAN
    PROVE  Advance(Iterating("Start", stack, "None", NoEvent, No), "spaces", accepts) =
             Iterating("Start", stack, "ValueInvalid", NoEvent, Yes)
<1> DEFINE l == "spaces"
           q == Iterating("Start", stack, "None", NoEvent, No)
<1>1. Tokenize(l) = "Scalar"
  BY Zenon DEF Tokenize
<1>2. Predict("Start", "Scalar") = "Value"
  BY Zenon DEF Predict, ValueTo
<1>3. ScalarError(l, accepts) = "ValueInvalid" /\ ScalarHeard(l) = NoEvent
      /\ Over(IsScalar(l) /\ accepts) = Yes
  <2>1. ~IsScalar(l) /\ l # "brokenString" /\ l # "string"
    BY ScalarLexemes DEF IsScalar
  <2> QED
    BY <2>1 DEF ScalarError, ScalarHeard, Over
<1>4. Transit(q, l, "Value", accepts) =
        Iterating(Settled(ScalarError(l, accepts), "Finish"), stack,
                  ScalarError(l, accepts), ScalarHeard(l), Over(IsScalar(l) /\ accepts))
  BY ScalarTransit
<1>5. Settled("ValueInvalid", "Finish") = "Error"
  BY DEF Settled
<1>6. q.state = "Start"
  BY IterativeFields
<1> HIDE DEF q, l
<1>7. Transit(q, l, Predict("Start", Tokenize(l)), accepts) =
        Iterating("Error", stack, "ValueInvalid", NoEvent, Yes)
  BY <1>1, <1>2, <1>3, <1>4, <1>5
<1>8. Advance(q, l, accepts) = Iterating("Start", stack, "ValueInvalid", NoEvent, Yes)
  BY <1>6, <1>7, Advances
<1> QED
  BY <1>8 DEF q, l

LEMMA PullStep ==
    ASSUME NEW frames, NEW root \in BOOLEAN, NEW stack, Ongoing(frames, root, stack),
           NEW l, l # "brokenComment", NEW accepts \in BOOLEAN
    PROVE  LET r == Parse(Recursing(frames, root, "None", NoEvent, No), l, accepts)
               q == IterativeParseNext(Iterating(StateOf(frames, root), stack, "None",
                                                 NoEvent, No), l, accepts)
           IN  \/ Outcome(r, q)
               \/ root = No /\ l \in Misplaced /\ Excused(r, q, "DocumentEmpty")
               \/ root = No /\ l = "spaces" /\ Excused(r, q, "ValueInvalid")
<1> DEFINE s == StateOf(frames, root)
           p == Recursing(frames, root, "None", NoEvent, No)
           i == Iterating(s, stack, "None", NoEvent, No)
           r == Parse(p, l, accepts)
<1>1. i.state = s
  BY IterativeFields
<1>2. \A left : /\ l \in Ends /\ s = "Finish" =>
                     Outcome(r, Iterating(s, left, "None", NoEvent, Yes))
                /\ l \in Ends /\ s # "Finish" =>
                     Outcome(r, Iterating(s, left, ErrorOf[s], NoEvent, Yes))
  BY EndOutcome
<1>3. CASE s = "Finish"
  <2>1. Return(i) = Iterating(s, stack, "None", NoEvent, Yes)
    BY IterativeReturns
  <2>2. IterativeParseNext(i, l, accepts) =
          IF l \in Ends THEN Return(i) ELSE HandleError(i, "Finish")
    <3> HIDE DEF i
    <3> QED
      BY <1>1, <1>3 DEF IterativeParseNext
  <2>3. l \notin Ends => Outcome(r, HandleError(i, "Finish"))
    <3>1. frames = <<>> /\ root = Yes
      <4>1. frames = <<>> /\ root
        BY <1>3, Whereabouts DEF Ongoing
      <4> QED
        BY <4>1, Zenon DEF Yes
    <3> QED
      BY <1>3, <3>1, FinishStep
  <2> HIDE DEF r, i, s
  <2>4. Outcome(r, IterativeParseNext(i, l, accepts))
    BY <1>2, <1>3, <2>1, <2>2, <2>3
  <2> QED
    BY <2>4 DEF r, i, s, p
<1>4. CASE s # "Finish" /\ l = "eof"
  <2>1. [i EXCEPT !.stack = <<>>] = Iterating(s, <<>>, "None", NoEvent, No)
    BY IterativeStacks
  <2>2. HandleError(Iterating(s, <<>>, "None", NoEvent, No), s) =
          Iterating(s, <<>>, ErrorOf[s], NoEvent, Yes)
    BY ErrorHandled
  <2>3. l \in Ends
    BY <1>4 DEF Ends
  <2> HIDE DEF r, i, s
  <2>4. IterativeParseNext(i, l, accepts) = HandleError([i EXCEPT !.stack = <<>>], s)
    BY <1>1, <1>4, Zenon DEF IterativeParseNext
  <2>5. Outcome(r, IterativeParseNext(i, l, accepts))
    BY <1>2, <1>4, <2>1, <2>2, <2>3, <2>4
  <2> QED
    BY <2>5 DEF r, i, s, p
<1>5. CASE s # "Finish" /\ l # "eof"
  <2>1. IterativeParseNext(i, l, accepts) = Advance(i, l, accepts)
    <3> HIDE DEF i
    <3> QED
      BY <1>1, <1>5 DEF IterativeParseNext
  <2>2. CASE l \notin Ends
    <3>1. \/ Outcome(r, Advance(i, l, accepts))
          \/ /\ root = No /\ l \in Misplaced
             /\ Excused(r, Advance(i, l, accepts), "DocumentEmpty")
      BY <2>2, AdvanceStep
    <3> HIDE DEF r, i, s
    <3> QED
      BY <2>1, <3>1 DEF r, i, s, p
  <2>3. CASE l \in Ends
    <3>1. l = "spaces"
      BY <1>5, <2>3 DEF Ends
    <3>2. CASE frames = <<>> /\ root = No /\ s = "Start"
      <4>1. r = Recursing(frames, root, "DocumentEmpty", NoEvent, Yes)
        BY <2>3, <3>2, EndStep, Truths
      <4>2. r.returned = Yes /\ r.event = NoEvent
        <5> HIDE DEF r
        <5> QED BY <4>1, RecursiveFields
      <4> DEFINE n == Advance(i, l, accepts)
      <4>3. n = Iterating("Start", stack, "ValueInvalid", NoEvent, Yes)
        BY <3>1, <3>2, SpacesFirst
      <4> HIDE DEF n
      <4>4. n.returned = Yes /\ n.event = NoEvent /\ n.error = "ValueInvalid"
        BY <4>3, IterativeFields
      <4> HIDE DEF r, i, s
      <4>5. Excused(r, n, "ValueInvalid")
        BY <4>2, <4>4 DEF Excused
      <4>6. root = No /\ l = "spaces" /\ Excused(r, IterativeParseNext(i, l, accepts), "ValueInvalid")
        BY <2>1, <3>1, <3>2, <4>5 DEF n
      <4> QED
        BY <4>6 DEF r, i, s, p
    <3>3. CASE \E kind, read, count :
                 /\ root = Yes
                 /\ Within(frames, stack, kind, read, count)
                 /\ s = StateIn(kind, read)
      <4>1. PICK kind, read, count :
                 /\ root = Yes
                 /\ Within(frames, stack, kind, read, count)
                 /\ s = StateIn(kind, read)
        BY <3>3
      <4>2. Outcome(r, Advance(i, l, accepts))
        BY <2>3, <4>1, EndInCall
      <4> HIDE DEF r, i, s
      <4> QED
        BY <2>1, <4>2 DEF r, i, s, p
    <3> HIDE DEF r, i
    <3>4. \/ frames = <<>> /\ root = No /\ s = "Start"
          \/ \E kind, read, count :
                 /\ root = Yes
                 /\ Within(frames, stack, kind, read, count)
                 /\ s = StateIn(kind, read)
      BY <1>5, Where
    <3> QED
      BY <3>2, <3>3, <3>4 DEF r, i
  <2> QED
    BY <2>2, <2>3
<1> QED
  BY <1>3, <1>4, <1>5

\* A parser that hears nothing yet.
LEMMA Quieted ==
    ASSUME NEW first, NEW second, NEW error, NEW event, NEW returned
    PROVE  /\ Quiet(Recursing(first, second, error, event, returned)) =
                Recursing(first, second, error, NoEvent, returned)
           /\ Quiet(Iterating(first, second, error, event, returned)) =
                Iterating(first, second, error, NoEvent, returned)
BY RecursiveHears, IterativeHears DEF Quiet
-----------------------------------------------------------------------------
(* What follows from the calls, one by one: the events promised so far and *)
(* the levels of the writers.                                              *)

Each(f, s) == [n \in 1 .. Len(s) |-> f[s[n]]]

LEMMA EachSeq ==
    ASSUME NEW S, NEW T, NEW f \in [S -> T], NEW s \in Seq(S)
    PROVE  /\ Each(f, s) \in Seq(T) /\ Len(Each(f, s)) = Len(s)
           /\ Each(f, s) = <<>> <=> s = <<>>
           /\ s # <<>> => Each(f, s)[Len(s)] = f[s[Len(s)]]
<1> DEFINE e == Each(f, s)
<1>1. e \in Seq(T) /\ Len(e) = Len(s)
  BY DEF Each
<1>2. e = <<>> <=> s = <<>>
  <2>1. e = <<>> <=> Len(e) = 0
    <3> HIDE DEF e
    <3> QED BY <1>1
  <2>2. s = <<>> <=> Len(s) = 0
    OBVIOUS
  <2> QED
    BY <1>1, <2>1, <2>2
<1>3. s # <<>> => e[Len(s)] = f[s[Len(s)]]
  <2>1. s # <<>> => Len(s) \in 1 .. Len(s)
    OBVIOUS
  <2> QED
    BY <2>1 DEF Each
<1> QED
  BY <1>1, <1>2, <1>3

LEMMA EachTop ==
    ASSUME NEW S, NEW T, NEW f \in [S -> T], NEW s \in Seq(S), s # <<>>, NEW e \in S
    PROVE  Each(f, Top(s, e)) = Top(Each(f, s), f[e])
<1>1. Len(Top(s, e)) = Len(s) /\ Len(s) \in Nat \ {0}
  BY DEF Top
<1>2. \A n \in 1 .. Len(s) : Top(s, e)[n] = IF n = Len(s) THEN e ELSE s[n]
  BY DEF Top
<1>3. Len(Each(f, s)) = Len(s) /\ DOMAIN Each(f, s) = 1 .. Len(s)
  BY DEF Each
<1>4. DOMAIN Top(Each(f, s), f[e]) = 1 .. Len(s)
  BY <1>3 DEF Top
<1>5. \A n \in 1 .. Len(s) :
        Top(Each(f, s), f[e])[n] = IF n = Len(s) THEN f[e] ELSE Each(f, s)[n]
  BY <1>3 DEF Top
<1>6. \A n \in 1 .. Len(s) : Each(f, Top(s, e))[n] = f[Top(s, e)[n]]
  BY <1>1 DEF Each
<1>7. \A n \in 1 .. Len(s) : Each(f, s)[n] = f[s[n]]
  BY DEF Each
<1>8. \A n \in 1 .. Len(s) : Each(f, Top(s, e))[n] = Top(Each(f, s), f[e])[n]
  BY <1>2, <1>5, <1>6, <1>7
<1>9. Each(f, Top(s, e)) = [n \in 1 .. Len(s) |-> Each(f, Top(s, e))[n]]
  BY <1>1 DEF Each
<1>10. Top(Each(f, s), f[e]) = [n \in 1 .. Len(s) |-> Top(Each(f, s), f[e])[n]]
  BY <1>4 DEF Top
<1> QED
  BY <1>8, <1>9, <1>10

LEMMA EachPushed ==
    ASSUME NEW S, NEW T, NEW f \in [S -> T], NEW s \in Seq(S), NEW e \in S
    PROVE  Each(f, Pushed(s, e)) = Pushed(Each(f, s), f[e])
<1>1. Pushed(s, e) \in Seq(S) /\ Len(Pushed(s, e)) = Len(s) + 1 /\ Len(s) \in Nat
  BY DEF Pushed
<1>2. \A n \in 1 .. Len(s) + 1 : Pushed(s, e)[n] = IF n = Len(s) + 1 THEN e ELSE s[n]
  BY DEF Pushed
<1>3. Each(f, s) \in Seq(T) /\ Len(Each(f, s)) = Len(s)
  BY DEF Each
<1>4. f[e] \in T
  OBVIOUS
<1>5. /\ Pushed(Each(f, s), f[e]) \in Seq(T)
      /\ Len(Pushed(Each(f, s), f[e])) = Len(s) + 1
  BY <1>3, <1>4 DEF Pushed
<1>6. \A n \in 1 .. Len(s) + 1 :
        Pushed(Each(f, s), f[e])[n] = IF n = Len(s) + 1 THEN f[e] ELSE Each(f, s)[n]
  <2> DEFINE m == Each(f, s)
             v == f[e]
  <2> HIDE DEF m, v
  <2>1. \A n \in 1 .. Len(m) + 1 : Pushed(m, v)[n] = IF n = Len(m) + 1 THEN v ELSE m[n]
    BY <1>3, <1>4 DEF Pushed, m, v
  <2> QED
    BY <1>3, <2>1 DEF m, v
<1>7. \A n \in 1 .. Len(s) + 1 : Each(f, Pushed(s, e))[n] = f[Pushed(s, e)[n]]
  BY <1>1 DEF Each
<1>8. \A n \in 1 .. Len(s) : Each(f, s)[n] = f[s[n]]
  BY DEF Each
<1>9. \A n \in 1 .. Len(s) + 1 : Each(f, Pushed(s, e))[n] = Pushed(Each(f, s), f[e])[n]
  BY <1>1, <1>2, <1>6, <1>7, <1>8
<1>10. Each(f, Pushed(s, e)) \in Seq(T) /\ Len(Each(f, Pushed(s, e))) = Len(s) + 1
  BY <1>1 DEF Each
<1> DEFINE a == Each(f, Pushed(s, e))
           b == Pushed(Each(f, s), f[e])
<1> HIDE DEF a, b
<1>11. a = b
  BY <1>1, <1>5, <1>9, <1>10, SeqEqual DEF a, b
<1> QED
  BY <1>11 DEF a, b

LEMMA FrontSeq ==
    ASSUME NEW S, NEW s \in Seq(S), s # <<>>
    PROVE  /\ Front(s) \in Seq(S) /\ Len(Front(s)) = Len(s) - 1 /\ Len(s) \in Nat \ {0}
           /\ \A n \in 1 .. Len(s) - 1 : Front(s)[n] = s[n]
<1> DEFINE last == Len(s) - 1
<1>1. Len(s) \in Nat \ {0} /\ last \in Nat
  OBVIOUS
<1>2. \A n \in 1 .. last : s[n] \in S
  BY <1>1
<1> HIDE DEF last
<1>3. SubSeq(s, 1, last) \in Seq(S)
  BY <1>1, <1>2, SubSeqProperties
<1>4. Len(SubSeq(s, 1, last)) = last
  BY <1>1, <1>2, SubSeqProperties
<1>5. \A n \in 1 .. last : SubSeq(s, 1, last)[n] = s[n]
  BY <1>1, <1>2 DEF last
<1> QED
  BY <1>1, <1>3, <1>4, <1>5 DEF Front, last

LEMMA EachFront ==
    ASSUME NEW S, NEW T, NEW f \in [S -> T], NEW s \in Seq(S), s # <<>>
    PROVE  Each(f, Front(s)) = Front(Each(f, s))
<1>1. Front(s) \in Seq(S) /\ Len(Front(s)) = Len(s) - 1 /\ Len(s) \in Nat \ {0}
  BY FrontSeq
<1>2. \A n \in 1 .. Len(s) - 1 : Front(s)[n] = s[n]
  BY FrontSeq
<1>3. Each(f, s) \in Seq(T) /\ Len(Each(f, s)) = Len(s)
  BY DEF Each
<1> DEFINE m == Each(f, s)
           a == Each(f, Front(s))
           b == Front(m)
<1>4. \A n \in 1 .. Len(s) - 1 : a[n] = f[s[n]]
  BY <1>1, <1>2 DEF Each
<1>5. \A n \in 1 .. Len(s) - 1 : m[n] = f[s[n]]
  BY <1>1 DEF Each
<1>6. a \in Seq(T) /\ Len(a) = Len(s) - 1
  <2> DEFINE w == Front(s)
  <2> HIDE DEF w
  <2>1. Each(f, w) \in Seq(T) /\ Len(Each(f, w)) = Len(w)
    BY <1>1 DEF Each, w
  <2> QED
    BY <1>1, <2>1 DEF w
<1> HIDE DEF m
<1>7. b \in Seq(T) /\ Len(b) = Len(s) - 1 /\ \A n \in 1 .. Len(s) - 1 : b[n] = m[n]
  <2>1. m \in Seq(T) /\ Len(m) = Len(s) /\ m # <<>>
    BY <1>1, <1>3 DEF m
  <2> QED
    BY <2>1, FrontSeq
<1> HIDE DEF a, b
<1>8. a = b
  BY <1>1, <1>4, <1>5, <1>6, <1>7, SeqEqual
<1> QED
  BY <1>8 DEF a, b, m
-----------------------------------------------------------------------------
(* What the handler of the recursive parser hears.                         *)

\* The innermost call.
Called(frames, kind, read, count) ==
    /\ frames # <<>>
    /\ frames[Len(frames)] = Reading(kind, read, count)
    /\ Sound(kind, read, count)

\* A value has begun, in the calls it is now a value of.
Takes(l, base, new, event) ==
    \/ IsScalar(l) /\ new = base /\ event = ScalarHeard(l)
    \/ /\ l \in {"{", "["}
       /\ new = Pushed(base, Reading(Kind(l), "begin", 0))
       /\ event = EventOf(StartName(Kind(l)), 0)

\* The lexemes that are heard, those that are passed over, the end, and the others.
TakesInCall(frames, l, new, event) ==
    \E kind, read, count :
      /\ Called(frames, kind, read, count) /\ ValueComesNext(kind, read, l)
      /\ Takes(l, Top(frames, Reading(kind, "value", count)), new, event)
Names(frames, l, new, event) ==
    \E kind, read, count :
      /\ Called(frames, kind, read, count) /\ NameComesNext(kind, read, l) /\ l = "string"
      /\ new = Top(frames, Reading(kind, "name", count)) /\ event = EventOf("Key", 0)
Closes(frames, l, new, event) ==
    \E kind, read, count :
      /\ Called(frames, kind, read, count) /\ MayClose(kind, read, l)
      /\ new = Front(frames) /\ event = EventOf(EndName(kind), Total(read, count))
Hears(frames, root, l, new, event) ==
    \/ frames = <<>> /\ root = No /\ Takes(l, frames, new, event)
    \/ TakesInCall(frames, l, new, event)
    \/ Names(frames, l, new, event)
    \/ Closes(frames, l, new, event)
Passes(frames, l, new) ==
    \E kind, read, count :
      /\ Called(frames, kind, read, count)
      /\ \/ /\ kind = "object" /\ read = "name" /\ l = Colon
            /\ new = Top(frames, Reading(kind, Colon, count))
         \/ /\ read = "value" /\ l = Comma
            /\ new = Top(frames, Reading(kind, Comma, count + 1))

\* What is left of the parser in each case.
Heeded(frames, root, l, accepts, r) ==
    \E new, event :
      /\ Hears(frames, root, l, new, event)
      /\ r = Recursing(new, Yes, Answer(accepts), event, Stop(new = <<>>, Over(accepts)))
Passed(frames, l, r) ==
    \E new : Passes(frames, l, new) /\ r = Recursing(new, Yes, "None", NoEvent, No)
Finished(frames, root, l, r) ==
    /\ frames = <<>> /\ root = Yes /\ l \in Ends
    /\ r = Recursing(frames, Yes, "None", NoEvent, Yes)
Failed(r) == r.error # "None" /\ r.event = NoEvent /\ r.returned = Yes

LEMMA FailsThere ==
    ASSUME NEW p, NEW l, NEW accepts, NEW frames, NEW root, NEW error, error # "None",
           Resume(p, l, accepts) = Recursing(frames, root, error, NoEvent, Yes)
    PROVE  Failed(Parse(p, l, accepts))
<1>1. Stop(root /\ frames = <<>>, Yes) = Yes
  BY DEF Stop
<1>2. Parse(p, l, accepts) = Recursing(frames, root, error, NoEvent, Yes)
  BY <1>1, Parses
<1> QED
  BY <1>2, RecursiveFields DEF Failed

LEMMA HeedsThere ==
    ASSUME NEW p, NEW l, NEW accepts, NEW new, NEW event, NEW frames, NEW root,
           Hears(frames, root, l, new, event),
           Resume(p, l, accepts) =
             Recursing(new, Yes, Answer(accepts), event, Over(accepts))
    PROVE  Heeded(frames, root, l, accepts, Parse(p, l, accepts))
<1>1. Stop(Yes /\ new = <<>>, Over(accepts)) = Stop(new = <<>>, Over(accepts))
  BY Truths DEF Stop
<1>2. Parse(p, l, accepts) =
        Recursing(new, Yes, Answer(accepts), event, Stop(new = <<>>, Over(accepts)))
  BY <1>1, Parses
<1> QED
  BY <1>2, Zenon DEF Heeded

LEMMA PassesThere ==
    ASSUME NEW p, NEW l, NEW accepts, NEW new, NEW frames, new # <<>>,
           Passes(frames, l, new),
           Resume(p, l, accepts) = Recursing(new, Yes, "None", NoEvent, No)
    PROVE  Passed(frames, l, Parse(p, l, accepts))
<1>1. Stop(Yes /\ new = <<>>, No) = No
  BY DEF Stop
<1>2. Parse(p, l, accepts) = Recursing(new, Yes, "None", NoEvent, No)
  BY <1>1, Parses
<1> QED
  BY <1>2, Zenon DEF Passed

\* A value at the root or in a call.
LEMMA TakenThere ==
    ASSUME NEW p, NEW l, NEW accepts \in BOOLEAN, NEW base, NEW frames, NEW root,
           Resume(p, l, accepts) =
             ParseValue(Recursing(base, Yes, "None", NoEvent, No), l, accepts),
           \A new, event : Takes(l, base, new, event) => Hears(frames, root, l, new, event)
    PROVE  \/ Failed(Parse(p, l, accepts))
           \/ Heeded(frames, root, l, accepts, Parse(p, l, accepts))
<1>1. CASE l \in {"{", "["}
  <2> DEFINE new == Pushed(base, Reading(Kind(l), "begin", 0))
             event == EventOf(StartName(Kind(l)), 0)
  <2>1. Resume(p, l, accepts) =
          Recursing(new, Yes, Answer(accepts), event, Over(accepts))
    BY <1>1, ValueParsed
  <2>2. Takes(l, base, new, event)
    BY <1>1, Zenon DEF Takes
  <2> HIDE DEF new, event
  <2> QED
    BY <2>1, <2>2, HeedsThere
<1>2. CASE l \notin {"{", "["} /\ IsScalar(l)
  <2>1. Resume(p, l, accepts) =
          Recursing(base, Yes, ScalarError(l, accepts), ScalarHeard(l),
                    Over(IsScalar(l) /\ accepts))
    BY <1>2, ValueParsed
  <2>2. ScalarError(l, accepts) = Answer(accepts) /\ Over(IsScalar(l) /\ accepts) = Over(accepts)
    BY <1>2 DEF ScalarError
  <2>3. Takes(l, base, base, ScalarHeard(l))
    BY <1>2, Zenon DEF Takes
  <2> QED
    BY <2>1, <2>2, <2>3, HeedsThere
<1>3. CASE l \notin {"{", "["} /\ ~IsScalar(l)
  <2>1. Resume(p, l, accepts) =
          Recursing(base, Yes, ScalarError(l, accepts), ScalarHeard(l),
                    Over(IsScalar(l) /\ accepts))
    BY <1>3, ValueParsed
  <2>2. /\ ScalarError(l, accepts) # "None" /\ ScalarHeard(l) = NoEvent
        /\ Over(IsScalar(l) /\ accepts) = Yes
    BY <1>3 DEF ScalarError, ScalarHeard, Over, IsScalar
  <2> QED
    BY <2>1, <2>2, FailsThere
<1> QED
  BY <1>1, <1>2, <1>3

LEMMA CallHears ==
    ASSUME NEW frames, NEW stack, NEW kind, NEW read, NEW count,
           Within(frames, stack, kind, read, count),
           NEW l, l # "brokenComment", NEW accepts \in BOOLEAN
    PROVE  LET r == Parse(Recursing(frames, Yes, "None", NoEvent, No), l, accepts)
           IN  Failed(r) \/ Heeded(frames, Yes, l, accepts, r) \/ Passed(frames, l, r)
<1> DEFINE p == Recursing(frames, Yes, "None", NoEvent, No)
           r == Parse(p, l, accepts)
<1>1. kind \in {"object", "array"}
      /\ (kind = "object" => read \in ObjectReads)
      /\ (kind = "array" => read \in ArrayReads)
  BY WithinCall
<1>2. Called(frames, kind, read, count)
  BY DEF Within, Called
<1>3. \/ ValueComesNext(kind, read, l)
      \/ NameComesNext(kind, read, l)
      \/ kind = "object" /\ read = "name"
      \/ MayClose(kind, read, l)
      \/ ClosesTooLate(kind, read, l)
      \/ read = "value" /\ l = Comma
      \/ read = "value" /\ l # Comma /\ l # Bracket(kind)
  BY <1>1, Zenon DEF ValueComesNext, NameComesNext, MayClose, ClosesTooLate, ObjectReads,
     ArrayReads, Bracket
<1>4. CASE ValueComesNext(kind, read, l)
  <2> DEFINE base == Top(frames, Reading(kind, "value", count))
  <2>1. Resume(p, l, accepts) =
          ParseValue(Recursing(base, Yes, "None", NoEvent, No), l, accepts)
    BY <1>4, ValueResumes
  <2>2. \A new, event : Takes(l, base, new, event) => Hears(frames, Yes, l, new, event)
    BY <1>2, <1>4, Zenon DEF Hears, TakesInCall
  <2> HIDE DEF p, base
  <2>3. Failed(r) \/ Heeded(frames, Yes, l, accepts, r)
    BY <2>1, <2>2, TakenThere
  <2> QED
    BY <2>3 DEF p
<1>5. CASE NameComesNext(kind, read, l)
  <2> DEFINE new == Top(frames, Reading(kind, "name", count))
             event == EventOf("Key", 0)
  <2>1. Resume(p, l, accepts) =
                    IF l \in {"string", "brokenString"}
                    THEN Recursing(new, Yes, NameError(l, accepts), NameHeard(l, "Key"),
                                   Over(l = "string" /\ accepts))
                    ELSE Recursing(frames, Yes, "ObjectMissName", NoEvent, Yes)
    BY <1>5, NameResumes
  <2>2. l = "string" => Hears(frames, Yes, l, new, event)
    BY <1>2, <1>5, Zenon DEF Hears, Names
  <2> HIDE DEF p, new
  <2>3. CASE l = "string"
    <3>1. Resume(p, l, accepts) = Recursing(new, Yes, Answer(accepts), event, Over(accepts))
      BY <2>1, <2>3 DEF NameError, NameHeard
    <3> HIDE DEF event
    <3>2. Heeded(frames, Yes, l, accepts, r)
      BY <2>2, <2>3, <3>1, HeedsThere
    <3> QED
      BY <3>2 DEF p
  <2>4. CASE l # "string"
    <3>1. \E some, error : error # "None"
            /\ Resume(p, l, accepts) = Recursing(some, Yes, error, NoEvent, Yes)
      BY <2>1, <2>4 DEF NameError, NameHeard, Over
    <3>2. Failed(r)
      BY <3>1, FailsThere
    <3> QED
      BY <3>2 DEF p
  <2> QED
    BY <2>3, <2>4
<1>6. CASE kind = "object" /\ read = "name"
  <2> DEFINE new == Top(frames, Reading(kind, Colon, count))
  <2>1. Within(new, stack, kind, Colon, count)
    BY <1>6, ColonResumes
  <2>2. Resume(p, l, accepts) = IF l = Colon THEN Recursing(new, Yes, "None", NoEvent, No)
                                ELSE Recursing(frames, Yes, "ObjectMissColon", NoEvent, Yes)
    BY <1>6, ColonResumes
  <2>3. l = Colon => Passes(frames, l, new)
    BY <1>2, <1>6, Zenon DEF Passes
  <2>4. new # <<>>
    <3> HIDE DEF new
    <3> QED BY <2>1 DEF Within
  <2> HIDE DEF p, new
  <2>5. Failed(r) \/ Passed(frames, l, r)
    BY <2>2, <2>3, <2>4, FailsThere, PassesThere
  <2> QED
    BY <2>5 DEF p
<1>7. CASE MayClose(kind, read, l)
  <2> DEFINE event == EventOf(EndName(kind), Total(read, count))
  <2>1. Resume(p, l, accepts) =
          Recursing(Front(frames), Yes, Answer(accepts), event, Over(accepts))
    BY <1>7, CloseResumes
  <2>2. Hears(frames, Yes, l, Front(frames), event)
    BY <1>2, <1>7, Zenon DEF Hears, Closes
  <2> HIDE DEF p, event
  <2>3. Heeded(frames, Yes, l, accepts, r)
    BY <2>1, <2>2, HeedsThere
  <2> QED
    BY <2>3 DEF p
<1>8. CASE ClosesTooLate(kind, read, l)
  <2>1. \E some : Resume(p, l, accepts) =
                    Recursing(some, Yes, MissingAfterComma(kind), NoEvent, Yes)
    BY <1>8, TrailingResumes
  <2>2. MissingAfterComma(kind) # "None"
    BY DEF MissingAfterComma
  <2> HIDE DEF p
  <2>3. Failed(r)
    BY <2>1, <2>2, FailsThere
  <2> QED
    BY <2>3 DEF p
<1>9. CASE read = "value" /\ l = Comma
  <2> DEFINE new == Top(frames, Reading(kind, Comma, count + 1))
  <2>1. Sound(kind, Comma, count + 1)
    BY <1>9, CommaResumes
  <2>2. Resume(p, l, accepts) = Recursing(new, Yes, "None", NoEvent, No)
    BY <1>9, CommaResumes
  <2>3. new # <<>>
    <3> DEFINE more == count + 1
    <3> HIDE DEF more
    <3> QED BY <2>1, TopNested DEF Within, Ongoing, more
  <2>4. Passes(frames, l, new)
    BY <1>2, <1>9, Zenon DEF Passes
  <2> HIDE DEF p, new
  <2>5. Passed(frames, l, r)
    BY <2>2, <2>3, <2>4, PassesThere
  <2> QED
    BY <2>5 DEF p
<1>10. CASE read = "value" /\ l # Comma /\ l # Bracket(kind)
  <2> DEFINE error == ErrorOf[StateIn(kind, read)]
  <2>1. Resume(p, l, accepts) = Recursing(frames, Yes, error, NoEvent, Yes)
    BY <1>10, AfterValueResumes
  <2>2. error # "None"
    <3>1. StateIn(kind, read) \in {"MemberValue", "Element"}
      BY <1>1, <1>10 DEF StateIn
    <3> QED
      BY <3>1 DEF ErrorOf
  <2> HIDE DEF p, error
  <2>3. Failed(r)
    BY <2>1, <2>2, FailsThere
  <2> QED
    BY <2>3 DEF p
<1> QED
  BY <1>3, <1>4, <1>5, <1>6, <1>7, <1>8, <1>9, <1>10

\* One lexeme for the recursive parser.
LEMMA ParserHears ==
    ASSUME NEW frames, NEW root \in BOOLEAN, NEW stack, Ongoing(frames, root, stack),
           NEW l, NEW accepts \in BOOLEAN
    PROVE  LET r == Parse(Recursing(frames, root, "None", NoEvent, No), l, accepts)
           IN  \/ Failed(r)
               \/ Heeded(frames, root, l, accepts, r)
               \/ Passed(frames, l, r)
               \/ Finished(frames, root, l, r)
<1> DEFINE p == Recursing(frames, root, "None", NoEvent, No)
           r == Parse(p, l, accepts)
           s == StateOf(frames, root)
<1>1. CASE l = "brokenComment"
  <2>1. r = Recursing(frames, root, "UnspecificSyntaxError", NoEvent, Yes)
    BY <1>1, BrokenComment
  <2> HIDE DEF r
  <2>2. Failed(r)
    BY <2>1, RecursiveFields DEF Failed
  <2> QED
    BY <2>2 DEF r
<1>2. CASE l # "brokenComment" /\ frames = <<>> /\ root = No
  <2>1. CASE l \in Ends
    <3>1. r = Recursing(frames, root, "DocumentEmpty", NoEvent, Yes)
      BY <1>2, <2>1, EndStep, Truths
    <3> HIDE DEF r
    <3>2. Failed(r)
      BY <3>1, RecursiveFields DEF Failed
    <3> QED
      BY <3>2 DEF r
  <2>2. CASE l \notin Ends
    <3>1. Resume(p, l, accepts) =
            ParseValue(Recursing(frames, Yes, "None", NoEvent, No), l, accepts)
      <4> DEFINE none == <<>>
      <4>1. Resume(Recursing(none, No, "None", NoEvent, No), l, accepts) =
              ParseValue(Recursing(none, Yes, "None", NoEvent, No), l, accepts)
        BY <1>2, <2>2, AtTheRoot, Truths
      <4> QED
        BY <1>2, <4>1, Zenon
    <3>2. \A new, event : Takes(l, frames, new, event) => Hears(frames, root, l, new, event)
      BY <1>2, Zenon DEF Hears
    <3> HIDE DEF p
    <3>3. Failed(r) \/ Heeded(frames, root, l, accepts, r)
      BY <3>1, <3>2, TakenThere
    <3> QED
      BY <3>3 DEF p
  <2> QED
    BY <2>1, <2>2
<1>3. CASE l # "brokenComment" /\ frames = <<>> /\ root = Yes
  <2>1. CASE l \in Ends
    <3>1. r = Recursing(frames, Yes, "None", NoEvent, Yes)
      BY <1>3, <2>1, EndStep, Truths
    <3> HIDE DEF r
    <3>2. Finished(frames, root, l, r)
      BY <1>3, <2>1, <3>1 DEF Finished
    <3> QED
      BY <3>2 DEF r
  <2>2. CASE l \notin Ends
    <3>1. Resume(p, l, accepts) = SetParseError(p, "DocumentRootNotSingular")
      BY <1>3, <2>2, AtTheRoot, Truths
    <3>2. SetParseError(p, "DocumentRootNotSingular") =
            Recursing(frames, root, "DocumentRootNotSingular", NoEvent, Yes)
      BY RecursiveErrs
    <3> HIDE DEF p
    <3>3. Failed(r)
      BY <3>1, <3>2, FailsThere
    <3> QED
      BY <3>3 DEF p
  <2> QED
    BY <2>1, <2>2
<1>4. CASE l # "brokenComment" /\ root = Yes
           /\ \E kind, read, count : Within(frames, stack, kind, read, count)
  <2>1. Failed(r) \/ Heeded(frames, root, l, accepts, r) \/ Passed(frames, l, r)
    BY <1>4, CallHears
  <2> HIDE DEF r
  <2> QED
    BY <2>1 DEF r
<1> HIDE DEF r
<1>5. \/ frames = <<>> /\ root = No
      \/ frames = <<>> /\ root = Yes
      \/ root = Yes /\ \E kind, read, count : Within(frames, stack, kind, read, count)
  BY Where
<1> QED
  BY <1>1, <1>2, <1>3, <1>4, <1>5 DEF r
-----------------------------------------------------------------------------
(* The invariant holds.                                                    *)

\* One parser with the answer of the other, when neither reads on.
LEMMA BothOver ==
    ASSUME NEW r, NEW q, Outcome(r, q), r.returned = Yes
    PROVE  q.returned = Yes /\ q.event = r.event /\ q.error = r.error
<1>1. ASSUME NEW frames, NEW event, r = Recursing(frames, Yes, "None", event, No)
      PROVE  FALSE
  <2>1. r.returned = No
    BY <1>1, RecursiveFields
  <2> QED
    BY <2>1, Truths
<1> QED
  BY <1>1, Zenon DEF Outcome

\* Both read on together.
LEMMA BothOn ==
    ASSUME NEW r, NEW q, Outcome(r, q), r.returned # Yes
    PROVE  /\ r = Recursing(r.frames, Yes, "None", r.event, No)
           /\ Nested(r.frames)
           /\ Follows(q, r.frames, Yes, r.event)
<1>1. PICK frames, stack, event :
         /\ r = Recursing(frames, Yes, "None", event, No)
         /\ q = Iterating(StateOf(frames, Yes), stack, "None", event, No)
         /\ Ongoing(frames, Yes, stack)
  BY Zenon DEF Outcome
<1>2. r.frames = frames /\ r.event = event
  BY <1>1, RecursiveFields
<1>3. q.stack = stack
  BY <1>1, IterativeFields
<1>4. Nested(frames) /\ Stacked(stack, frames)
  BY <1>1 DEF Ongoing
<1> QED
  BY <1>1, <1>2, <1>3, <1>4, Zenon DEF Follows

LEMMA InitRunning == ASSUME Init PROVE Running
<1> DEFINE none == <<>>
<1>1. /\ recursive = Recursing(none, No, "None", NoEvent, No)
      /\ iterative = Iterating("Start", none, "None", NoEvent, No)
      /\ pull = Iterating("Start", none, "None", NoEvent, No)
      /\ lexeme = "begin"
  BY Zenon DEF Init, NewRecursive, NewIterative, Recursing, Iterating, No
<1>2. Nested(none) /\ Stacked(none, none)
  BY DEF Nested, Stacked, Frames, Entries
<1>3. StateOf(none, No) = "Start"
  BY Zenon DEF StateOf, No
<1>4. none = <<>>
  OBVIOUS
<1> HIDE DEF none
<1>5. recursive.frames = none /\ recursive.root = No /\ recursive.event = NoEvent
  BY <1>1, RecursiveFields
<1>6. iterative.stack = none /\ pull.stack = none
  BY <1>1, IterativeFields
<1>7. /\ Follows(iterative, none, No, NoEvent)
      /\ Follows(pull, none, No, NoEvent)
  BY <1>1, <1>2, <1>3, <1>6 DEF Follows
<1> QED
  BY <1>1, <1>2, <1>4, <1>5, <1>7, Truths, Zenon DEF Running

\* While all run, a step reads the lexeme in all.
LEMMA RunningStep ==
    ASSUME Running, NEW l, NEW accepts \in BOOLEAN, ReadLexeme(l, accepts)
    PROVE  LET frames == recursive.frames
               root == recursive.root
               s == StateOf(frames, root)
           IN  /\ recursive' = Parse(Recursing(frames, root, "None", NoEvent, No), l, accepts)
               /\ iterative' = IterativeParse(Iterating(s, iterative.stack, "None",
                                                        NoEvent, No), l, accepts)
               /\ pull' = IterativeParseNext(Iterating(s, pull.stack, "None",
                                                       NoEvent, No), l, accepts)
<1> DEFINE frames == recursive.frames
           root == recursive.root
           s == StateOf(frames, root)
<1>1. /\ recursive = Recursing(frames, root, "None", recursive.event, No)
      /\ iterative = Iterating(s, iterative.stack, "None", recursive.event, No)
      /\ pull = Iterating(s, pull.stack, "None", recursive.event, No)
  BY DEF Running, Follows
<1>2. /\ Quiet(recursive) = Recursing(frames, root, "None", NoEvent, No)
      /\ Quiet(iterative) = Iterating(s, iterative.stack, "None", NoEvent, No)
      /\ Quiet(pull) = Iterating(s, pull.stack, "None", NoEvent, No)
  BY <1>1, Quieted
<1>3. recursive.returned = No /\ iterative.returned = No /\ pull.returned = No
  BY <1>1, RecursiveFields, IterativeFields
<1>4. ~recursive.returned /\ ~iterative.returned /\ ~pull.returned
  BY <1>3, Truths
<1>5. /\ recursive' = Parse(Quiet(recursive), l, accepts)
      /\ iterative' = IterativeParse(Quiet(iterative), l, accepts)
      /\ pull' = IterativeParseNext(Quiet(pull), l, accepts)
  BY <1>4, Zenon DEF ReadLexeme, Step
<1> QED
  BY <1>2, <1>5

LEMMA RunningGoesOn ==
    ASSUME Running, NEW l, NEW accepts \in BOOLEAN, ReadLexeme(l, accepts)
    PROVE  ReaderInv'
<1> DEFINE frames == recursive.frames
           root == recursive.root
           s == StateOf(frames, root)
           r == Parse(Recursing(frames, root, "None", NoEvent, No), l, accepts)
           i == IterativeParse(Iterating(s, iterative.stack, "None", NoEvent, No),
                               l, accepts)
           q == IterativeParseNext(Iterating(s, pull.stack, "None", NoEvent, No),
                                   l, accepts)
<1>1. recursive' = r /\ iterative' = i /\ pull' = q
  BY RunningStep
<1>2. lexeme' = l /\ before' = lexeme
  BY DEF ReadLexeme
<1>3. root = No => lexeme = "begin"
  BY Truths DEF Running
<1>4. /\ root \in BOOLEAN
      /\ Ongoing(frames, root, iterative.stack) /\ Ongoing(frames, root, pull.stack)
  BY DEF Running, Ongoing, Follows
<1>5. \/ Outcome(r, i)
      \/ root = No /\ l \in Misplaced /\ Excused(r, i, "DocumentEmpty")
  BY <1>4, IterativeStep
<1>6. l # "brokenComment" =>
        \/ Outcome(r, q)
        \/ root = No /\ l \in Misplaced /\ Excused(r, q, "DocumentEmpty")
        \/ root = No /\ l = "spaces" /\ Excused(r, q, "ValueInvalid")
  BY <1>4, PullStep
<1>7. l = "brokenComment" => r = Recursing(frames, root, "UnspecificSyntaxError", NoEvent, Yes)
  BY BrokenComment
<1>8. l = "brokenComment" =>
        i = Iterating(s, iterative.stack, "UnspecificSyntaxError", NoEvent, Yes)
  BY IterativeBrokenComment
<1> HIDE DEF r, i, q, s
<1>9. CASE l = "brokenComment"
  <2>1. r.frames = frames /\ r.root = root
    BY <1>7, <1>9, RecursiveFields
  <2>2. i.state = s /\ i.stack = iterative.stack
    BY <1>8, <1>9, IterativeFields
  <2>3. Commented'
    BY <1>1, <1>7, <1>8, <1>9, <2>1, <2>2, Zenon DEF Commented
  <2> QED
    BY <2>3 DEF ReaderInv
<1>10. CASE l # "brokenComment" /\ r.returned = Yes
  <2>1. /\ i.returned = Yes /\ i.event = r.event
        /\ \/ i.error = r.error
           \/ root = No /\ l \in Misplaced /\ i.error = "DocumentEmpty"
    <3>1. CASE Outcome(r, i)
      BY <1>10, <3>1, BothOver
    <3>2. CASE root = No /\ l \in Misplaced /\ Excused(r, i, "DocumentEmpty")
      BY <3>2 DEF Excused
    <3> QED
      BY <1>5, <3>1, <3>2
  <2>2. /\ q.returned = Yes /\ q.event = r.event
        /\ \/ q.error = r.error
           \/ root = No /\ l \in Misplaced /\ q.error = "DocumentEmpty"
           \/ root = No /\ l = "spaces"
    <3>1. CASE Outcome(r, q)
      BY <1>10, <3>1, BothOver
    <3>2. CASE root = No /\ l \in Misplaced /\ Excused(r, q, "DocumentEmpty")
      BY <3>2 DEF Excused
    <3>3. CASE root = No /\ l = "spaces" /\ Excused(r, q, "ValueInvalid")
      BY <3>3 DEF Excused
    <3> QED
      BY <1>6, <1>10, <3>1, <3>2, <3>3
  <2>3. SameResult(iterative)'
    <3>1. (iterative.error = recursive.error \/ KnownDifference(iterative))'
      BY <1>1, <1>2, <1>3, <2>1, Zenon DEF KnownDifference, Misplaced
    <3> QED
      BY <1>1, <1>10, <2>1, <3>1 DEF SameResult
  <2>4. SameResult(pull)'
    <3>1. (pull.error = recursive.error \/ KnownDifference(pull))'
      BY <1>1, <1>2, <1>3, <2>2, Zenon DEF KnownDifference, Misplaced
    <3> QED
      BY <1>1, <1>10, <2>2, <3>1 DEF SameResult
  <2>5. (recursive.returned /\ iterative.returned /\ pull.returned)'
    BY <1>1, <1>10, <2>1, <2>2, Truths
  <2>6. Ended'
    BY <2>3, <2>4, <2>5 DEF Ended, ParsersAgree
  <2> QED
    BY <2>6 DEF ReaderInv
<1>11. CASE l # "brokenComment" /\ r.returned # Yes
  <2>1. Outcome(r, i) /\ Outcome(r, q)
    BY <1>5, <1>6, <1>11 DEF Excused
  <2>2. /\ r = Recursing(r.frames, Yes, "None", r.event, No)
        /\ Nested(r.frames)
        /\ Follows(i, r.frames, Yes, r.event)
        /\ Follows(q, r.frames, Yes, r.event)
    BY <1>11, <2>1, BothOn
  <2>3. r.root = Yes
    BY <2>2, RecursiveFields
  <2>4. Running'
    BY <1>1, <2>2, <2>3, Truths, Zenon DEF Running
  <2> QED
    BY <2>4 DEF ReaderInv
<1> QED
  BY <1>9, <1>10, <1>11

\* After a comment that was not closed two of them read no more, and the pulled
\* one may say what it likes.
LEMMA CommentedGoesOn ==
    ASSUME Commented, NEW l, NEW accepts \in BOOLEAN, ReadLexeme(l, accepts)
    PROVE  Commented'
<1>1. recursive.returned = Yes /\ iterative.returned = Yes
  BY RecursiveFields, IterativeFields DEF Commented
<1>2. /\ recursive' = [recursive EXCEPT !.event = NoEvent]
      /\ iterative' = [iterative EXCEPT !.event = NoEvent]
  BY <1>1, Truths, Zenon DEF ReadLexeme, Step
<1>3. recursive' = recursive /\ iterative' = iterative
  BY <1>2, RecursiveHears, IterativeHears DEF Commented
<1> QED
  BY <1>3 DEF Commented

\* In each of its parts the invariant has what ParsersAgree says.
LEMMA AgreeInside == ASSUME ReaderInv PROVE ParsersAgree
<1>1. CASE Running
  <2>1. /\ recursive = Recursing(recursive.frames, recursive.root, "None",
                                 recursive.event, No)
        /\ \E s : iterative = Iterating(s, iterative.stack, "None", recursive.event, No)
        /\ \E s : pull = Iterating(s, pull.stack, "None", recursive.event, No)
    BY <1>1 DEF Running, Follows
  <2>2. recursive.error = "None" /\ recursive.returned = No
    BY <2>1, RecursiveFields
  <2>3. /\ iterative.error = "None" /\ iterative.returned = No
        /\ iterative.event = recursive.event
    BY <2>1, IterativeFields
  <2>4. /\ pull.error = "None" /\ pull.returned = No
        /\ pull.event = recursive.event
    BY <2>1, IterativeFields
  <2> QED
    BY <2>2, <2>3, <2>4 DEF ParsersAgree, SameResult
<1>2. CASE Ended
  BY <1>2 DEF Ended
<1>3. CASE Commented
  <2>1. /\ recursive.error = "UnspecificSyntaxError" /\ iterative.error = recursive.error
        /\ iterative.event = recursive.event /\ iterative.returned = recursive.returned
    BY <1>3, RecursiveFields, IterativeFields DEF Commented
  <2> QED
    BY <2>1 DEF ParsersAgree, SameResult
<1> QED
  BY <1>1, <1>2, <1>3 DEF ReaderInv

\* As long as all read, the calls, the two states and the two stacks say the
\* same; after that all have returned, or a comment was not closed.
THEOREM ReaderInvariant == Spec => []ReaderInv
<1>1. Init => ReaderInv
  BY InitRunning DEF ReaderInv
<1>2. ReaderInv /\ [Next]_vars => ReaderInv'
  <2> SUFFICES ASSUME ReaderInv, [Next]_vars PROVE ReaderInv'
    OBVIOUS
  <2>1. ASSUME NEW l \in Lexemes, NEW accepts \in BOOLEAN, ReadLexeme(l, accepts)
        PROVE  ReaderInv'
    <3>1. CASE Running
      BY <2>1, <3>1, RunningGoesOn
    <3>2. CASE Ended
      BY <2>1, <3>2 DEF Ended, ReadLexeme
    <3>3. CASE Commented
      BY <2>1, <3>3, CommentedGoesOn DEF ReaderInv
    <3> QED
      BY <3>1, <3>2, <3>3 DEF ReaderInv
  <2>2. CASE UNCHANGED vars
    <3>1. UNCHANGED <<lexeme, before, recursive, iterative, pull>>
      BY <2>2 DEF vars
    <3>2. CASE Running
      <4>1. Running'
        BY <3>1, <3>2, Zenon DEF Running, Follows
      <4> QED BY <4>1 DEF ReaderInv
    <3>3. CASE Ended
      <4>1. ParsersAgree'
        BY <3>1, <3>3, Zenon DEF Ended, ParsersAgree, SameResult, KnownDifference
      <4> QED BY <3>1, <3>3, <4>1 DEF ReaderInv, Ended
    <3>4. CASE Commented
      BY <3>1, <3>4 DEF ReaderInv, Commented
    <3> QED
      BY <3>2, <3>3, <3>4 DEF ReaderInv
  <2> QED
    BY <2>1, <2>2 DEF Next
<1> QED
  BY <1>1, <1>2, PTL DEF Spec

\* The recursive parser, the iterative one and the pulled one deliver the same
\* events, and end at the same lexeme and in the same way, but for the three
\* differences that are known.
THEOREM TheParsersAgree == Spec => []ParsersAgree
BY ReaderInvariant, AgreeInside, PTL
-----------------------------------------------------------------------------
(* The handler of the recursive parser hears one JSON value.               *)

\* What JsonEvents sees of a parser: each call is a container.
OpenedOf(f) ==
    [kind |-> f.kind, count |-> f.count + (IF f.read = "value" THEN 1 ELSE 0),
     named |-> f.read \in {"name", ":"}]
OpenOf(p) ==
    IF p.error # "None" THEN <<>> ELSE [n \in DOMAIN p.frames |-> OpenedOf(p.frames[n])]
ProgressOf(p) ==
    CASE p.error # "None" -> "failed"
      [] p.error = "None" /\ p.returned -> "done"
      [] ~p.returned /\ ~p.root -> "start"
      [] ~p.returned /\ p.root -> IF p.frames = <<>> THEN "whole" ELSE "within"

Named(read) == read \in {"name", ":"}
OpenedAs == [f \in Frames |-> OpenedOf(f)]
Containers == {OpenedOf(f) : f \in Frames}
Opened(frames) == Each(OpenedAs, frames)

LEMMA NamedReads ==
    /\ Named("name") = Yes /\ Named(Colon) = Yes
    /\ \A read \in {"begin", Comma, "value"} : Named(read) = No
<1>1. ASSUME NEW read, read \in {"name", ":"}
      PROVE  Named(read) = Yes
  BY <1>1, Zenon DEF Named, Yes
<1>2. ASSUME NEW read, read \notin {"name", ":"}
      PROVE  Named(read) = No
  <2>1. ~Named(read)
    BY <1>2, Zenon DEF Named
  <2> DEFINE names == {"name", ":"}
  <2>3. Named(read) = (read \in names)
    BY Zenon DEF Named
  <2> HIDE DEF names
  <2>2. Named(read) \in BOOLEAN
    BY <2>3
  <2> QED
    BY <2>1, <2>2, Truths
<1>3. Colon \in {"name", ":"} /\ "name" \in {"name", ":"}
  BY Zenon DEF Colon
<1>4. \A read \in {"begin", Comma, "value"} : read \notin {"name", ":"}
  BY Zenon DEF Comma
<1> QED
  BY <1>1, <1>2, <1>3, <1>4, Zenon

LEMMA OpenedFunction == OpenedAs \in [Frames -> Containers]
BY DEF OpenedAs, Containers

LEMMA OpenedReading ==
    ASSUME NEW kind, NEW read, NEW count, Sound(kind, read, count)
    PROVE  OpenedAs[Reading(kind, read, count)] =
             Events!Container(kind, Total(read, count), Named(read))
<1> DEFINE f == Reading(kind, read, count)
<1>1. f.kind = kind /\ f.read = read /\ f.count = count
  BY ReadingFields
<1>2. f \in Frames /\ count \in Nat
  BY SoundFields DEF Sound
<1> HIDE DEF f
<1>3. f.count + (IF f.read = "value" THEN 1 ELSE 0) = Total(read, count)
  BY <1>1, <1>2 DEF Total
<1>4. (f.read \in {"name", ":"}) = Named(read)
  BY <1>1, Zenon DEF Named
<1>5. OpenedOf(f) = Events!Container(kind, Total(read, count), Named(read))
  BY <1>1, <1>3, <1>4, Zenon DEF OpenedOf, Events!Container
<1>6. OpenedAs[f] = OpenedOf(f)
  BY <1>2, Zenon DEF OpenedAs
<1> QED
  BY <1>5, <1>6 DEF f

LEMMA OpenedFields ==
    ASSUME NEW kind, NEW count, NEW named
    PROVE  /\ Events!Container(kind, count, named).kind = kind
           /\ Events!Container(kind, count, named).count = count
           /\ Events!Container(kind, count, named).named = named
BY DEF Events!Container

\* A parser without an error.
LEMMA OpenNow ==
    ASSUME NEW frames, Nested(frames), NEW root, NEW event, NEW returned
    PROVE  OpenOf(Recursing(frames, root, "None", event, returned)) = Opened(frames)
<1> DEFINE p == Recursing(frames, root, "None", event, returned)
<1>1. p.frames = frames /\ p.error = "None"
  BY RecursiveFields
<1> HIDE DEF p
<1>2. OpenOf(p) = [n \in DOMAIN frames |-> OpenedOf(frames[n])]
  BY <1>1, Zenon DEF OpenOf
<1>3. DOMAIN frames = 1 .. Len(frames) /\ \A n \in 1 .. Len(frames) : frames[n] \in Frames
  BY DEF Nested
<1>4. \A n \in 1 .. Len(frames) : OpenedAs[frames[n]] = OpenedOf(frames[n])
  BY <1>3, Zenon DEF OpenedAs
<1>5. OpenOf(p) = [n \in 1 .. Len(frames) |-> OpenedAs[frames[n]]]
  BY <1>2, <1>3, <1>4
<1> QED
  BY <1>5 DEF p, Opened, Each

LEMMA OpenTop ==
    ASSUME NEW frames, Nested(frames), NEW kind, NEW read, NEW count,
           Called(frames, kind, read, count)
    PROVE  /\ Opened(frames) \in Seq(Containers) /\ Opened(frames) # <<>>
           /\ Len(Opened(frames)) = Len(frames)
           /\ Last(Opened(frames)) = Events!Container(kind, Total(read, count), Named(read))
<1>1. frames \in Seq(Frames) /\ frames # <<>>
  BY DEF Nested, Called
<1>2. OpenedAs[frames[Len(frames)]] = Events!Container(kind, Total(read, count), Named(read))
  BY OpenedReading DEF Called
<1> DEFINE os == Opened(frames)
<1>3. os \in Seq(Containers) /\ Len(os) = Len(frames)
  BY <1>1, OpenedFunction DEF Opened, Each
<1>4. os[Len(frames)] = OpenedAs[frames[Len(frames)]]
  <2>1. Len(frames) \in 1 .. Len(frames)
    BY <1>1
  <2> QED
    BY <2>1 DEF Opened, Each
<1> HIDE DEF os
<1>6. os # <<>>
  BY <1>1, <1>3
<1>5. Last(os) = os[Len(os)]
  BY DEF Last
<1> QED
  BY <1>1, <1>2, <1>3, <1>4, <1>5, <1>6 DEF os

\* What a step does to the innermost call it does to the innermost container.
LEMMA OpenedTop ==
    ASSUME NEW frames, Nested(frames), frames # <<>>,
           NEW kind, NEW read, NEW count, Sound(kind, read, count)
    PROVE  Opened(Top(frames, Reading(kind, read, count))) =
             Top(Opened(frames), Events!Container(kind, Total(read, count), Named(read)))
<1> DEFINE f == Reading(kind, read, count)
<1>1. f \in Frames /\ frames \in Seq(Frames)
  BY DEF Sound, Nested
<1>2. OpenedAs[f] = Events!Container(kind, Total(read, count), Named(read))
  BY OpenedReading
<1> HIDE DEF f
<1>3. Each(OpenedAs, Top(frames, f)) = Top(Each(OpenedAs, frames), OpenedAs[f])
  BY <1>1, OpenedFunction, EachTop
<1> QED
  BY <1>2, <1>3 DEF f, Opened

LEMMA OpenedPushed ==
    ASSUME NEW frames, frames \in Seq(Frames), NEW kind \in {"object", "array"}
    PROVE  Opened(Pushed(frames, Reading(kind, "begin", 0))) =
             Pushed(Opened(frames), Events!Container(kind, 0, No))
<1> DEFINE f == Reading(kind, "begin", 0)
<1>1. Sound(kind, "begin", 0)
  BY SoundFields DEF ObjectReads, ArrayReads
<1>2. Total("begin", 0) = 0
  BY DEF Total
<1>3. Named("begin") = No
  BY NamedReads
<1>4. f \in Frames
  BY <1>1 DEF Sound
<1>5. OpenedAs[f] = Events!Container(kind, 0, No)
  BY <1>1, <1>2, <1>3, OpenedReading
<1> HIDE DEF f
<1>6. Each(OpenedAs, Pushed(frames, f)) = Pushed(Each(OpenedAs, frames), OpenedAs[f])
  BY <1>4, OpenedFunction, EachPushed
<1> QED
  BY <1>5, <1>6 DEF f, Opened

LEMMA OpenedFront ==
    ASSUME NEW frames, Nested(frames), frames # <<>>
    PROVE  Opened(Front(frames)) = Front(Opened(frames))
<1>1. frames \in Seq(Frames)
  BY DEF Nested
<1> QED
  BY <1>1, OpenedFunction, EachFront DEF Opened

LEMMA SameTop ==
    ASSUME NEW S, NEW s \in Seq(S), s # <<>>, NEW e, Last(s) = e
    PROVE  Top(s, e) = s
<1>1. s[Len(s)] = e
  BY DEF Last
<1> QED
  BY <1>1 DEF Top

\* What JsonEvents sees before a step and after it.
LEMMA Seen ==
    /\ Open = OpenOf(recursive) /\ Progress = ProgressOf(recursive)
    /\ Open' = OpenOf(recursive') /\ Progress' = ProgressOf(recursive')
BY Zenon DEF Open, OpenOf, OpenedOf, Progress, ProgressOf

LEMMA ProgressNow ==
    ASSUME NEW p
    PROVE  /\ p.error # "None" /\ p.returned = Yes => ProgressOf(p) = "failed"
           /\ p.error = "None" /\ p.returned = Yes => ProgressOf(p) = "done"
           /\ p.error = "None" /\ p.returned = No /\ p.root = No => ProgressOf(p) = "start"
           /\ p.error = "None" /\ p.returned = No /\ p.root = Yes =>
                ProgressOf(p) = IF p.frames = <<>> THEN "whole" ELSE "within"
BY Truths DEF ProgressOf

LEMMA RunningSeen ==
    ASSUME Running
    PROVE  /\ Open = Opened(recursive.frames)
           /\ Progress = IF recursive.root = No THEN "start"
                         ELSE IF recursive.frames = <<>> THEN "whole" ELSE "within"
           /\ recursive.root = Yes \/ recursive.root = No
<1>1. recursive.error = "None" /\ recursive.returned = No
  BY RecursiveFields DEF Running
<1>2. recursive.root = Yes \/ recursive.root = No
  BY Zenon DEF Running, Yes, No
<1>3. OpenOf(recursive) = Opened(recursive.frames)
  BY OpenNow DEF Running
<1> QED
  BY <1>1, <1>2, <1>3, Seen, ProgressNow, Truths

LEMMA FailSeen ==
    ASSUME Running, Failed(recursive')
    PROVE  Events!EventsNext
<1>1. Progress' = "failed"
  BY ProgressNow, Seen DEF Failed
<1>2. Open' = <<>>
  BY Seen DEF Failed, OpenOf
<1>3. recursive'.event = Events!NoEvent
  BY DEF Failed, NoEvent, Events!NoEvent
<1>4. Progress \notin {"done", "failed"}
  BY RunningSeen
<1>5. Events!Fail
  BY <1>1, <1>2, <1>3, <1>4 DEF Events!Fail
<1> QED
  BY <1>5 DEF Events!EventsNext

\* The handler accepts an event or refuses it.
LEMMA HeardSeen ==
    ASSUME NEW new, Nested(new), NEW event, NEW accepts \in BOOLEAN,
           recursive' = Recursing(new, Yes, Answer(accepts), event,
                                  Stop(new = <<>>, Over(accepts)))
    PROVE  Events!Heard(Opened(new)) /\ recursive'.event = event
<1> DEFINE p == recursive'
           returned == Stop(new = <<>>, Over(accepts))
<1>1. p = Recursing(new, Yes, Answer(accepts), event, returned)
  OBVIOUS
<1>2. Open' = OpenOf(p) /\ Progress' = ProgressOf(p)
  BY Seen
<1>3. returned = Yes \/ (returned = No /\ accepts)
  BY DEF Stop, Over
<1>4. returned = Yes /\ accepts => new = <<>>
  BY Truths DEF Stop, Over
<1>5. Opened(new) = <<>> <=> new = <<>>
  <2>1. new \in Seq(Frames)
    BY DEF Nested
  <2> QED
    BY <2>1, OpenedFunction DEF Opened, Each
<1> HIDE DEF p, returned
<1>6. /\ p.error = Answer(accepts) /\ p.returned = returned /\ p.root = Yes
      /\ p.frames = new /\ p.event = event
  BY <1>1, RecursiveFields
<1>7. CASE ~accepts
  <2>1. p.error # "None" /\ p.returned = Yes
    BY <1>3, <1>6, <1>7 DEF Answer
  <2>2. ProgressOf(p) = "failed" /\ OpenOf(p) = <<>>
    BY <2>1, ProgressNow DEF OpenOf
  <2> QED
    BY <1>2, <1>6, <2>2 DEF Events!Heard, p
<1>8. CASE accepts
  <2>1. p.error = "None"
    BY <1>6, <1>8 DEF Answer
  <2>2. OpenOf(p) = Opened(new)
    BY <1>1, <1>8, OpenNow DEF Answer
  <2>3. ProgressOf(p) \in IF Opened(new) = <<>> THEN {"whole", "done"} ELSE {"within"}
    <3>1. CASE returned = Yes
      BY <1>4, <1>5, <1>6, <1>8, <2>1, <3>1, ProgressNow
    <3>2. CASE returned = No
      BY <1>5, <1>6, <2>1, <3>2, ProgressNow
    <3> QED
      BY <1>3, <3>1, <3>2
  <2> QED
    BY <1>2, <1>6, <2>2, <2>3 DEF Events!Heard, p
<1> QED
  BY <1>7, <1>8

\* What JsonEvents sees of the innermost call.
LEMMA CallSeen ==
    ASSUME Running, NEW kind, NEW read, NEW count,
           Called(recursive.frames, kind, read, count)
    PROVE  /\ Progress = "within" /\ Open \in Seq(Containers) /\ Open # <<>>
           /\ Last(Open) = Events!Container(kind, Total(read, count), Named(read))
           /\ Last(Open).kind = kind /\ Last(Open).count = Total(read, count)
           /\ Last(Open).named = Named(read)
<1>1. Nested(recursive.frames) /\ recursive.frames # <<>>
  BY DEF Running, Called
<1>2. recursive.root = Yes
  BY <1>1, RunningSeen, Truths DEF Running
<1>3. Progress = "within" /\ Open = Opened(recursive.frames)
  BY <1>1, <1>2, RunningSeen, Truths
<1>4. /\ Open \in Seq(Containers) /\ Open # <<>>
      /\ Last(Open) = Events!Container(kind, Total(read, count), Named(read))
  BY <1>1, <1>3, OpenTop
<1> QED
  BY <1>3, <1>4, OpenedFields

\* The innermost container with other contents.
LEMMA CountedOnce ==
    ASSUME Open # <<>>, NEW kind, NEW count, NEW named,
           Last(Open) = Events!Container(kind, count, named)
    PROVE  Events!Counted = Top(Open, Events!Container(kind, count + 1, No))
<1>1. Open[Len(Open)].kind = kind /\ Open[Len(Open)].count = count
  BY OpenedFields DEF Last
<1> QED
  BY <1>1, Zenon DEF Events!Counted, Top, No

LEMMA NamedOnce ==
    ASSUME Open # <<>>, NEW kind, NEW count, NEW named,
           Last(Open) = Events!Container(kind, count, named)
    PROVE  [Open EXCEPT ![Len(Open)] = Events!Container(@.kind, @.count, TRUE)] =
             Top(Open, Events!Container(kind, count, Yes))
<1>1. Open[Len(Open)].kind = kind /\ Open[Len(Open)].count = count
  BY OpenedFields DEF Last
<1> QED
  BY <1>1, Zenon DEF Top, Yes

LEMMA ScalarNames ==
    ASSUME NEW l, IsScalar(l)
    PROVE  \E name \in {"Null", "Bool", "Number", "String"} :
             ScalarHeard(l) = Events!Event(name, 0)
<1>1. CASE l = "string"
  <2>1. ScalarHeard(l) = Events!Event("String", 0)
    BY <1>1, Zenon DEF ScalarHeard, EventOf, Events!Event
  <2> QED
    BY <2>1
<1>2. CASE l # "string"
  <2>1. l \in {"null", "true", "false", "number"}
    BY <1>2, ScalarLexemes DEF IsScalar
  <2>2. ScalarEvent[l] \in {"Null", "Bool", "Number", "String"}
    BY <2>1 DEF ScalarEvent
  <2>3. ScalarHeard(l) = Events!Event(ScalarEvent[l], 0)
    BY <1>2, Zenon DEF ScalarHeard, EventOf, Events!Event
  <2> QED
    BY <2>2, <2>3
<1> QED
  BY <1>1, <1>2

\* A value where one may begin.
LEMMA ValueSeen ==
    ASSUME Events!ValueExpected, NEW base \in Seq(Frames), Events!Counted = Opened(base),
           NEW l, NEW new, NEW event, Takes(l, base, new, event),
           Events!Heard(Opened(new)), recursive'.event = event
    PROVE  Events!EventsNext
<1>1. CASE IsScalar(l) /\ new = base /\ event = ScalarHeard(l)
  <2>1. PICK name \in {"Null", "Bool", "Number", "String"} : event = Events!Event(name, 0)
    BY <1>1, ScalarNames
  <2>2. Events!Value(name)
    BY <1>1, <2>1 DEF Events!Value
  <2> QED
    BY <2>2, Zenon DEF Events!EventsNext
<1>2. CASE /\ l \in {"{", "["}
           /\ new = Pushed(base, Reading(Kind(l), "begin", 0))
           /\ event = EventOf(StartName(Kind(l)), 0)
  <2> DEFINE kind == Kind(l)
  <2>1. kind \in {"object", "array"}
    BY Zenon DEF Kind
  <2>2. Opened(new) = Pushed(Opened(base), Events!Container(kind, 0, No))
    BY <1>2, <2>1, OpenedPushed
  <2> HIDE DEF kind
  <2>3. Opened(new) = Append(Events!Counted, Events!Container(kind, 0, FALSE))
    BY <2>2, Zenon DEF Pushed, No
  <2>4. recursive'.event = Events!Event(StartName(kind), 0)
    BY <1>2, Zenon DEF EventOf, Events!Event, kind
  <2>5. Events!StartContainer(kind, StartName(kind))
    BY <2>3, <2>4, Zenon DEF Events!StartContainer
  <2> QED
    BY <2>1, <2>5, Zenon DEF Events!EventsNext, StartName
<1> QED
  BY <1>1, <1>2, Zenon DEF Takes

LEMMA LastSeen ==
    Events!Last(Open) = Last(Open) /\ Events!Front(Open) = Front(Open)
BY Zenon DEF Events!Last, Last, Events!Front, Front

LEMMA ValueCounts ==
    ASSUME NEW kind, NEW read, NEW count, NEW l, ValueComesNext(kind, read, l)
    PROVE  Total(read, count) = count /\ (kind = "array" \/ Named(read) = Yes)
<1>1. Total(read, count) = count
  BY Zenon DEF ValueComesNext, Total
<1>2. kind = "array" \/ Named(read) = Yes
  BY NamedReads, Zenon DEF ValueComesNext, Colon
<1> QED
  BY <1>1, <1>2

LEMMA NameCounts ==
    ASSUME NEW kind, NEW read, NEW count, NEW l, NameComesNext(kind, read, l)
    PROVE  kind = "object" /\ Total(read, count) = count /\ Named(read) = No
<1>1. kind = "object" /\ read # "value" /\ read \in {"begin", Comma, "value"}
  BY Zenon DEF NameComesNext, Comma
<1> QED
  BY <1>1, NamedReads DEF Total

LEMMA CloseCounts ==
    ASSUME NEW kind, NEW read, NEW l, MayClose(kind, read, l)
    PROVE  Named(read) = No
<1>1. read \in {"begin", Comma, "value"}
  BY Zenon DEF MayClose, Comma
<1> QED
  BY <1>1, NamedReads

LEMMA Totals ==
    ASSUME NEW count
    PROVE  /\ Total("value", count) = count + 1 /\ Total("name", count) = count
           /\ Total(Comma, count) = count /\ Total(Colon, count) = count
<1>1. Comma # "value" /\ Colon # "value"
  BY Zenon DEF Comma, Colon
<1> QED
  BY <1>1 DEF Total

\* The lexemes that are heard.
LEMMA HeededSeen ==
    ASSUME Running, NEW l, NEW accepts \in BOOLEAN,
           Heeded(recursive.frames, recursive.root, l, accepts, recursive'),
           Nested(recursive'.frames)
    PROVE  Events!EventsNext
<1> DEFINE frames == recursive.frames
<1>1. PICK new, event :
         /\ Hears(frames, recursive.root, l, new, event)
         /\ recursive' = Recursing(new, Yes, Answer(accepts), event,
                                   Stop(new = <<>>, Over(accepts)))
  BY Zenon DEF Heeded
<1>2. Nested(new)
  BY <1>1, RecursiveFields
<1>3. Events!Heard(Opened(new)) /\ recursive'.event = event
  BY <1>1, <1>2, HeardSeen
<1>4. Nested(frames) /\ frames \in Seq(Frames)
  BY DEF Running, Nested
<1>5. CASE frames = <<>> /\ recursive.root = No /\ Takes(l, frames, new, event)
  <2>1. Progress = "start" /\ Open = Opened(frames)
    BY <1>5, RunningSeen
  <2>2. Opened(frames) = <<>>
    BY <1>5 DEF Opened, Each
  <2>3. Events!ValueExpected
    BY <2>1, Zenon DEF Events!ValueExpected
  <2>4. Events!Counted = Opened(frames)
    BY <2>1, <2>2, Zenon DEF Events!Counted
  <2> QED
    BY <1>3, <1>4, <1>5, <2>3, <2>4, ValueSeen
<1>6. ASSUME NEW kind, NEW read, NEW count, Called(frames, kind, read, count),
             ValueComesNext(kind, read, l),
             Takes(l, Top(frames, Reading(kind, "value", count)), new, event)
      PROVE  Events!EventsNext
  <2> DEFINE base == Top(frames, Reading(kind, "value", count))
  <2>1. Sound(kind, "value", count) /\ frames # <<>>
    BY <1>6, SoundFields DEF Called, ObjectReads, ArrayReads
  <2>2. Nested(base)
    BY <1>4, <2>1, TopNested
  <2>3. Opened(base) = Top(Open, Events!Container(kind, count + 1, No))
    BY <1>4, <2>1, OpenedTop, RunningSeen, Totals, NamedReads
  <2>8. Total(read, count) = count /\ (kind = "array" \/ Named(read) = Yes)
    BY <1>6, ValueCounts
  <2>9. /\ Progress = "within" /\ Open \in Seq(Containers) /\ Open # <<>>
        /\ Last(Open) = Events!Container(kind, Total(read, count), Named(read))
        /\ Last(Open).kind = kind /\ Last(Open).named = Named(read)
    BY <1>6, CallSeen
  <2>4. Last(Open).kind = "array" \/ Last(Open).named
    BY <2>8, <2>9, Zenon DEF Yes
  <2>5. Events!Counted = Top(Open, Events!Container(kind, count + 1, No))
    BY <2>8, <2>9, CountedOnce
  <2>6. Events!ValueExpected
    BY <2>4, <2>9, LastSeen, Zenon DEF Events!ValueExpected
  <2> HIDE DEF base
  <2>7. base \in Seq(Frames)
    BY <2>2 DEF Nested
  <2> QED
    BY <1>3, <1>6, <2>3, <2>5, <2>6, <2>7, ValueSeen DEF base
<1>7. ASSUME NEW kind, NEW read, NEW count, Called(frames, kind, read, count),
             NameComesNext(kind, read, l),
             new = Top(frames, Reading(kind, "name", count)), event = EventOf("Key", 0)
      PROVE  Events!EventsNext
  <2>1. kind = "object" /\ Total(read, count) = count /\ Named(read) = No
    BY <1>7, NameCounts
  <2>2. Sound(kind, "name", count) /\ frames # <<>>
    BY <1>7, <2>1, SoundFields DEF Called, ObjectReads
  <2>3. Opened(new) = Top(Open, Events!Container(kind, count, Yes))
    BY <1>4, <1>7, <2>2, OpenedTop, RunningSeen, Totals, NamedReads
  <2>8. /\ Progress = "within" /\ Open \in Seq(Containers) /\ Open # <<>>
        /\ Last(Open) = Events!Container(kind, count, No)
        /\ Last(Open).kind = "object" /\ Last(Open).named = No
    BY <1>7, <2>1, CallSeen
  <2>4. ~Last(Open).named
    BY <2>8, Zenon DEF No
  <2>5. [Open EXCEPT ![Len(Open)] = Events!Container(@.kind, @.count, TRUE)] = Opened(new)
    BY <2>3, <2>8, NamedOnce
  <2>6. recursive'.event = Events!Event("Key", 0)
    BY <1>3, <1>7, Zenon DEF EventOf, Events!Event
  <2>7. Events!Key
    BY <1>3, <2>4, <2>5, <2>6, <2>8, LastSeen, Zenon DEF Events!Key
  <2> QED
    BY <2>7, Zenon DEF Events!EventsNext
<1>8. ASSUME NEW kind, NEW read, NEW count, Called(frames, kind, read, count),
             MayClose(kind, read, l),
             new = Front(frames), event = EventOf(EndName(kind), Total(read, count))
      PROVE  Events!EventsNext
  <2>1. kind \in {"object", "array"} /\ frames # <<>>
    BY <1>8, SoundFields DEF Called
  <2>2. Opened(new) = Front(Open)
    BY <1>4, <1>8, <2>1, OpenedFront, RunningSeen
  <2>6. Named(read) = No
    BY <1>8, CloseCounts
  <2>7. /\ Progress = "within" /\ Last(Open).kind = kind /\ Last(Open).named = No
        /\ Last(Open).count = Total(read, count)
    BY <1>8, <2>6, CallSeen
  <2>3. ~Last(Open).named
    BY <2>7, Zenon DEF No
  <2>4. recursive'.event = Events!Event(EndName(kind), Last(Open).count)
    BY <1>3, <1>8, <2>7, Zenon DEF EventOf, Events!Event
  <2>5. Events!EndContainer(kind, EndName(kind))
    BY <1>3, <2>2, <2>3, <2>4, <2>7, LastSeen, Zenon DEF Events!EndContainer
  <2> QED
    BY <2>1, <2>5, Zenon DEF Events!EventsNext, EndName
<1> QED
  BY <1>1, <1>5, <1>6, <1>7, <1>8, Zenon DEF Hears, TakesInCall, Names, Closes

LEMMA ColonSound ==
    ASSUME NEW kind, NEW read, NEW count, Sound(kind, read, count), kind = "object"
    PROVE  Sound(kind, Colon, count)
BY SoundFields DEF ObjectReads, Colon

LEMMA CommaSound ==
    ASSUME NEW kind, NEW read, NEW count, Sound(kind, read, count)
    PROVE  Sound(kind, Comma, count + 1)
<1> DEFINE more == count + 1
<1>1. kind \in {"object", "array"} /\ count \in Nat
  BY SoundFields
<1>2. more \in Nat /\ more # 0
  BY <1>1
<1> HIDE DEF more
<1>3. Sound(kind, Comma, more)
  BY <1>1, <1>2, SoundFields DEF ObjectReads, ArrayReads, Comma
<1> QED
  BY <1>3 DEF more

\* What was heard leaves calls in order.
LEMMA HeedsNested ==
    ASSUME NEW frames, Nested(frames), NEW root, NEW l, NEW accepts, NEW r,
           Heeded(frames, root, l, accepts, r)
    PROVE  Nested(r.frames)
<1>1. PICK new, event :
         /\ Hears(frames, root, l, new, event)
         /\ r = Recursing(new, Yes, Answer(accepts), event, Stop(new = <<>>, Over(accepts)))
  BY Zenon DEF Heeded
<1>2. r.frames = new
  BY <1>1, RecursiveFields
<1>3. ASSUME NEW base, Nested(base), base # <<>> => base[Len(base)].read = "value",
             Takes(l, base, new, event)
      PROVE  Nested(new)
  <2>1. CASE new = base
    BY <1>3, <2>1
  <2>2. CASE new = Pushed(base, Reading(Kind(l), "begin", 0))
    <3>1. Kind(l) \in {"object", "array"}
      BY Zenon DEF Kind
    <3> QED
      BY <1>3, <2>2, <3>1, PushedNested
  <2> QED
    BY <1>3, <2>1, <2>2, Zenon DEF Takes
<1>4. CASE frames = <<>> /\ root = No /\ Takes(l, frames, new, event)
  BY <1>2, <1>3, <1>4
<1>5. ASSUME NEW kind, NEW read, NEW count, Called(frames, kind, read, count),
             Takes(l, Top(frames, Reading(kind, "value", count)), new, event)
      PROVE  Nested(new)
  <2> DEFINE base == Top(frames, Reading(kind, "value", count))
  <2>1. Sound(kind, "value", count) /\ frames # <<>>
    BY <1>5, SoundFields DEF Called, ObjectReads, ArrayReads
  <2>2. Nested(base) /\ base[Len(base)] = Reading(kind, "value", count)
    BY <2>1, TopNested
  <2> HIDE DEF base
  <2>3. base[Len(base)].read = "value"
    BY <2>2, ReadingFields
  <2> QED
    BY <1>3, <1>5, <2>2, <2>3 DEF base
<1>6. ASSUME NEW kind, NEW read, NEW count, Called(frames, kind, read, count),
             NameComesNext(kind, read, l), new = Top(frames, Reading(kind, "name", count))
      PROVE  Nested(new)
  <2>1. kind = "object"
    BY <1>6, NameCounts
  <2>2. Sound(kind, "name", count) /\ frames # <<>>
    BY <1>6, <2>1, SoundFields DEF Called, ObjectReads
  <2> QED
    BY <1>6, <2>2, TopNested
<1>7. ASSUME NEW kind, NEW read, NEW count, Called(frames, kind, read, count),
             new = Front(frames)
      PROVE  Nested(new)
  BY <1>7, FrontNested DEF Called
<1>8. Nested(new)
  BY <1>1, <1>4, <1>5, <1>6, <1>7, <1>2, Zenon DEF Hears, TakesInCall, Names, Closes
<1> QED
  BY <1>2, <1>8

\* The lexemes that are passed over, and the end.
LEMMA PassedSeen ==
    ASSUME Running, NEW l, Passed(recursive.frames, l, recursive')
    PROVE  Events!EventsNext
<1> DEFINE frames == recursive.frames
<1>1. PICK new : Passes(frames, l, new)
                 /\ recursive' = Recursing(new, Yes, "None", NoEvent, No)
  BY Zenon DEF Passed
<1>2. PICK kind, read, count :
         /\ Called(frames, kind, read, count)
         /\ \/ /\ kind = "object" /\ read = "name" /\ l = Colon
               /\ new = Top(frames, Reading(kind, Colon, count))
            \/ /\ read = "value" /\ l = Comma
               /\ new = Top(frames, Reading(kind, Comma, count + 1))
  BY <1>1, Zenon DEF Passes
<1>3. Nested(frames) /\ frames # <<>>
  BY <1>2 DEF Running, Called
<1>4. /\ Progress = "within" /\ Open \in Seq(Containers) /\ Open # <<>>
      /\ Last(Open) = Events!Container(kind, Total(read, count), Named(read))
  BY <1>2, CallSeen
<1>5. Open = Opened(frames)
  BY RunningSeen
<1>6. Nested(new) /\ new # <<>> /\ Opened(new) = Open
  <2>1. ASSUME kind = "object", read = "name", new = Top(frames, Reading(kind, Colon, count))
        PROVE  Nested(new) /\ new # <<>> /\ Opened(new) = Open
    <3>1. Sound(kind, Colon, count)
      BY <1>2, <2>1, ColonSound DEF Called
    <3>2. Nested(new) /\ new # <<>>
      BY <1>3, <2>1, <3>1, TopNested
    <3>3. Opened(new) = Top(Open, Events!Container(kind, Total(Colon, count), Named(Colon)))
      BY <1>3, <1>5, <2>1, <3>1, OpenedTop
    <3>4. Total(Colon, count) = Total(read, count) /\ Named(Colon) = Named(read)
      BY <2>1, Totals, NamedReads
    <3>5. Opened(new) = Top(Open, Last(Open))
      BY <1>4, <3>3, <3>4
    <3> QED
      BY <1>4, <3>2, <3>5, SameTop
  <2>2. ASSUME read = "value", new = Top(frames, Reading(kind, Comma, count + 1))
        PROVE  Nested(new) /\ new # <<>> /\ Opened(new) = Open
    <3>1. Sound(kind, Comma, count + 1)
      BY <1>2, <2>2, CommaSound DEF Called
    <3>2. Nested(new) /\ new # <<>>
      BY <1>3, <2>2, <3>1, TopNested
    <3>3. Opened(new) =
            Top(Open, Events!Container(kind, Total(Comma, count + 1), Named(Comma)))
      BY <1>3, <1>5, <2>2, <3>1, OpenedTop
    <3>4. Total(Comma, count + 1) = Total(read, count) /\ Named(Comma) = Named(read)
      BY <2>2, Totals, NamedReads
    <3>5. Opened(new) = Top(Open, Last(Open))
      BY <1>4, <3>3, <3>4
    <3> QED
      BY <1>4, <3>2, <3>5, SameTop
  <2> QED
    BY <1>2, <2>1, <2>2
<1>7. OpenOf(recursive') = Open
  BY <1>1, <1>6, OpenNow
<1>8. ProgressOf(recursive') = "within" /\ recursive'.event = NoEvent
  <2> DEFINE p == recursive'
  <2>1. p = Recursing(new, Yes, "None", NoEvent, No)
    BY <1>1
  <2> HIDE DEF p
  <2>2. /\ p.error = "None" /\ p.returned = No /\ p.root = Yes /\ p.frames = new
        /\ p.event = NoEvent
    BY <2>1, RecursiveFields
  <2>3. ProgressOf(p) = "within"
    BY <1>6, <2>2, ProgressNow
  <2> QED
    BY <2>2, <2>3 DEF p
<1>9. Open' = Open /\ Progress' = Progress /\ recursive'.event = Events!NoEvent
  BY <1>4, <1>7, <1>8, Seen DEF NoEvent, Events!NoEvent
<1>10. Events!Silent
  BY <1>4, <1>9, Zenon DEF Events!Silent
<1> QED
  BY <1>10, Zenon DEF Events!EventsNext

LEMMA FinishSeen ==
    ASSUME Running, NEW l, Finished(recursive.frames, recursive.root, l, recursive')
    PROVE  Events!EventsNext
<1>1. /\ recursive.frames = <<>> /\ recursive.root = Yes
      /\ recursive' = Recursing(recursive.frames, Yes, "None", NoEvent, Yes)
  BY DEF Finished
<1>2. Progress = "whole" /\ Open = Opened(recursive.frames)
  BY <1>1, RunningSeen, Truths
<1>3. OpenOf(recursive') = Open
  BY <1>1, <1>2, OpenNow DEF Running
<1>4. ProgressOf(recursive') = "done" /\ recursive'.event = NoEvent
  <2> DEFINE p == recursive'
  <2>1. p = Recursing(recursive.frames, Yes, "None", NoEvent, Yes)
    BY <1>1
  <2> HIDE DEF p
  <2>2. p.error = "None" /\ p.returned = Yes /\ p.event = NoEvent
    BY <2>1, RecursiveFields
  <2>3. ProgressOf(p) = "done"
    BY <2>2, ProgressNow
  <2> QED
    BY <2>2, <2>3 DEF p
<1>5. Open' = Open /\ Progress' = "done" /\ recursive'.event = Events!NoEvent
  BY <1>3, <1>4, Seen DEF NoEvent, Events!NoEvent
<1>6. Events!Finish
  BY <1>2, <1>5, Zenon DEF Events!Finish
<1> QED
  BY <1>6, Zenon DEF Events!EventsNext

\* A step while all run is a step of JsonEvents.
LEMMA RunningHeard ==
    ASSUME Running, NEW l, NEW accepts \in BOOLEAN, ReadLexeme(l, accepts)
    PROVE  Events!EventsNext
<1>1. recursive' = Parse(Recursing(recursive.frames, recursive.root, "None", NoEvent, No),
                         l, accepts)
  BY RunningStep
<1>2. /\ recursive.root \in BOOLEAN
      /\ Ongoing(recursive.frames, recursive.root, iterative.stack)
  BY DEF Running, Ongoing, Follows
<1>3. \/ Failed(recursive')
      \/ Heeded(recursive.frames, recursive.root, l, accepts, recursive')
      \/ Passed(recursive.frames, l, recursive')
      \/ Finished(recursive.frames, recursive.root, l, recursive')
  BY <1>1, <1>2, ParserHears
<1>4. ASSUME Heeded(recursive.frames, recursive.root, l, accepts, recursive')
      PROVE  Nested(recursive'.frames)
  <2>1. Nested(recursive.frames)
    BY DEF Running
  <2> QED
    BY <1>4, <2>1, HeedsNested
<1> QED
  BY <1>3, <1>4, FailSeen, HeededSeen, PassedSeen, FinishSeen

LEMMA InitHeard == ASSUME Init PROVE Events!EventsInit
<1> DEFINE none == <<>>
<1>1. recursive = Recursing(none, No, "None", NoEvent, No)
  BY Zenon DEF Init, NewRecursive, Recursing, No
<1>2. Nested(none)
  BY DEF Nested, Frames
<1>3. Opened(none) = <<>>
  BY DEF Opened, Each
<1> HIDE DEF none
<1>4. /\ recursive.error = "None" /\ recursive.returned = No /\ recursive.root = No
      /\ recursive.event = NoEvent
  BY <1>1, RecursiveFields
<1>5. Progress = "start"
  BY <1>4, Seen, ProgressNow
<1>6. Open = <<>>
  BY <1>1, <1>2, <1>3, Seen, OpenNow
<1> QED
  BY <1>4, <1>5, <1>6 DEF Events!EventsInit, NoEvent, Events!NoEvent

\* Once all have returned, or after a comment that was not closed, nothing is heard.
LEMMA OverQuiet ==
    ASSUME Commented, NEW l, NEW accepts \in BOOLEAN, ReadLexeme(l, accepts)
    PROVE  recursive' = recursive
<1>1. recursive.returned = Yes
  BY RecursiveFields DEF Commented
<1>2. recursive' = [recursive EXCEPT !.event = NoEvent]
  BY <1>1, Truths, Zenon DEF ReadLexeme, Step
<1> QED
  BY <1>2, RecursiveHears DEF Commented

\* The recursive parser implements JsonEvents: whatever the text, the flags and
\* the handler's answers are, the handler hears the events of one JSON value,
\* each container closed with the number of what is in it.
THEOREM TheHandlerHearsOneValue == Spec => EmitsOneValue
<1>1. Init => Events!EventsInit
  BY InitHeard
<1>2. ReaderInv /\ [Next]_vars => [Events!EventsNext]_Events!evars
  <2> SUFFICES ASSUME ReaderInv, [Next]_vars
               PROVE  Events!EventsNext \/ UNCHANGED Events!evars
    OBVIOUS
  <2>1. ASSUME recursive' = recursive
        PROVE  UNCHANGED Events!evars
    BY <2>1, Seen, Zenon DEF Events!evars
  <2>2. ASSUME NEW l \in Lexemes, NEW accepts \in BOOLEAN, ReadLexeme(l, accepts)
        PROVE  Events!EventsNext \/ UNCHANGED Events!evars
    <3>1. CASE Running
      BY <2>2, <3>1, RunningHeard
    <3>2. CASE Ended
      BY <2>2, <3>2 DEF Ended, ReadLexeme
    <3>3. CASE Commented
      BY <2>1, <2>2, <3>3, OverQuiet
    <3> QED
      BY <3>1, <3>2, <3>3 DEF ReaderInv
  <2>3. CASE UNCHANGED vars
    <3>1. recursive' = recursive
      BY <2>3 DEF vars
    <3> QED
      BY <2>1, <3>1
  <2> QED
    BY <2>2, <2>3 DEF Next
<1> QED
  BY <1>1, <1>2, ReaderInvariant, PTL DEF Spec, EmitsOneValue, Events!EventsSpec
-----------------------------------------------------------------------------
(* What writers do with their fields.                                      *)

Leveled(valueCount, inArray) == [valueCount |-> valueCount, inArray |-> inArray]

LEMMA LeveledFields ==
    ASSUME NEW valueCount, NEW inArray
    PROVE  /\ Leveled(valueCount, inArray).valueCount = valueCount
           /\ Leveled(valueCount, inArray).inArray = inArray
BY DEF Leveled

LEMMA WritingFields ==
    ASSUME NEW levels, NEW hasRoot, NEW out, NEW flushed, NEW asserted
    PROVE  /\ Writing(levels, hasRoot, out, flushed, asserted).level_stack = levels
           /\ Writing(levels, hasRoot, out, flushed, asserted).hasRoot = hasRoot
           /\ Writing(levels, hasRoot, out, flushed, asserted).out = out
           /\ Writing(levels, hasRoot, out, flushed, asserted).flushed = flushed
           /\ Writing(levels, hasRoot, out, flushed, asserted).asserted = asserted
BY DEF Writing

\* A writer with one field set.
LEMMA WritingLevels ==
    ASSUME NEW levels, NEW hasRoot, NEW out, NEW flushed, NEW asserted, NEW new
    PROVE  [Writing(levels, hasRoot, out, flushed, asserted) EXCEPT !.level_stack = new] =
             Writing(new, hasRoot, out, flushed, asserted)
<1> DEFINE w == Writing(levels, hasRoot, out, flushed, asserted)
<1>1. w = Writing(levels, hasRoot, out, flushed, asserted)
  OBVIOUS
<1> HIDE DEF w
<1>2. [w EXCEPT !.level_stack = new] = Writing(new, hasRoot, out, flushed, asserted)
  BY <1>1 DEF Writing
<1> QED
  BY <1>1, <1>2

LEMMA WritingRoot ==
    ASSUME NEW levels, NEW hasRoot, NEW out, NEW flushed, NEW asserted, NEW new
    PROVE  [Writing(levels, hasRoot, out, flushed, asserted) EXCEPT !.hasRoot = new] =
             Writing(levels, new, out, flushed, asserted)
<1> DEFINE w == Writing(levels, hasRoot, out, flushed, asserted)
<1>1. w = Writing(levels, hasRoot, out, flushed, asserted)
  OBVIOUS
<1> HIDE DEF w
<1>2. [w EXCEPT !.hasRoot = new] = Writing(levels, new, out, flushed, asserted)
  BY <1>1 DEF Writing
<1> QED
  BY <1>1, <1>2

LEMMA WritingOut ==
    ASSUME NEW levels, NEW hasRoot, NEW out, NEW flushed, NEW asserted, NEW new
    PROVE  [Writing(levels, hasRoot, out, flushed, asserted) EXCEPT !.out = new] =
             Writing(levels, hasRoot, new, flushed, asserted)
<1> DEFINE w == Writing(levels, hasRoot, out, flushed, asserted)
<1>1. w = Writing(levels, hasRoot, out, flushed, asserted)
  OBVIOUS
<1> HIDE DEF w
<1>2. [w EXCEPT !.out = new] = Writing(levels, hasRoot, new, flushed, asserted)
  BY <1>1 DEF Writing
<1> QED
  BY <1>1, <1>2

LEMMA WritingFlushed ==
    ASSUME NEW levels, NEW hasRoot, NEW out, NEW flushed, NEW asserted, NEW new
    PROVE  [Writing(levels, hasRoot, out, flushed, asserted) EXCEPT !.flushed = new] =
             Writing(levels, hasRoot, out, new, asserted)
<1> DEFINE w == Writing(levels, hasRoot, out, flushed, asserted)
<1>1. w = Writing(levels, hasRoot, out, flushed, asserted)
  OBVIOUS
<1> HIDE DEF w
<1>2. [w EXCEPT !.flushed = new] = Writing(levels, hasRoot, out, new, asserted)
  BY <1>1 DEF Writing
<1> QED
  BY <1>1, <1>2

LEMMA WritingAsserted ==
    ASSUME NEW levels, NEW hasRoot, NEW out, NEW flushed, NEW asserted, NEW new
    PROVE  [Writing(levels, hasRoot, out, flushed, asserted) EXCEPT !.asserted = new] =
             Writing(levels, hasRoot, out, flushed, new)
<1> DEFINE w == Writing(levels, hasRoot, out, flushed, asserted)
<1>1. w = Writing(levels, hasRoot, out, flushed, asserted)
  OBVIOUS
<1> HIDE DEF w
<1>2. [w EXCEPT !.asserted = new] = Writing(levels, hasRoot, out, flushed, new)
  BY <1>1 DEF Writing
<1> QED
  BY <1>1, <1>2

LEMMA WritingPuts ==
    ASSUME NEW levels, NEW hasRoot, NEW out, NEW flushed, NEW text
    PROVE  Put(Writing(levels, hasRoot, out, flushed, No), text) =
             Writing(levels, hasRoot, out \o text, No, No)
<1> DEFINE w == Writing(levels, hasRoot, out, flushed, No)
           more == out \o text
<1>1. w = Writing(levels, hasRoot, out, flushed, No)
  OBVIOUS
<1>2. w.out = out
  BY WritingFields
<1> HIDE DEF w
<1>3. Put(w, text) = [[w EXCEPT !.out = more] EXCEPT !.flushed = No]
  BY <1>2, Zenon DEF Put, No
<1> HIDE DEF more
<1>4. [w EXCEPT !.out = more] = Writing(levels, hasRoot, more, flushed, No)
  BY <1>1, WritingOut
<1>5. [Writing(levels, hasRoot, more, flushed, No) EXCEPT !.flushed = No] =
        Writing(levels, hasRoot, more, No, No)
  BY WritingFlushed
<1>6. Put(w, text) = Writing(levels, hasRoot, more, No, No)
  BY <1>3, <1>4, <1>5, Zenon
<1> QED
  BY <1>1, <1>6 DEF more

\* An assertion that holds.
LEMMA WritingAsserts ==
    ASSUME NEW levels, NEW hasRoot, NEW out, NEW flushed, NEW condition \in BOOLEAN, condition
    PROVE  WriterAssert(Writing(levels, hasRoot, out, flushed, No), condition) =
             Writing(levels, hasRoot, out, flushed, No)
<1> DEFINE w == Writing(levels, hasRoot, out, flushed, No)
           failed == No \/ ~condition
<1>1. w.asserted = No
  BY WritingFields
<1> HIDE DEF w
<1>2. failed = No
  <2>1. ~failed /\ failed \in BOOLEAN
    BY Truths
  <2> HIDE DEF failed
  <2> QED
    BY <2>1, Truths
<1>3. WriterAssert(w, condition) = [w EXCEPT !.asserted = failed]
  BY <1>1, Zenon DEF WriterAssert
<1>4. WriterAssert(w, condition) = [w EXCEPT !.asserted = No]
  BY <1>2, <1>3, Zenon
<1> QED
  <2>1. w = Writing(levels, hasRoot, out, flushed, No)
    BY DEF w
  <2>2. [w EXCEPT !.asserted = No] = Writing(levels, hasRoot, out, flushed, No)
    BY <2>1 DEF Writing
  <2>3. WriterAssert(w, condition) = Writing(levels, hasRoot, out, flushed, No)
    BY <1>4, <2>2, Zenon
  <2> QED
    BY <2>3 DEF w

\* The innermost level.
Levelings == [valueCount : Nat, inArray : BOOLEAN]
Counting(levels, n, inArray) ==
    /\ levels # <<>> /\ levels \in Seq(Levelings)
    /\ n \in Nat /\ inArray \in BOOLEAN
    /\ levels[Len(levels)] = Leveled(n, inArray)

\* What a level asks of its next value: a name, or none.
Unnamed(n, inArray) == ~inArray /\ n % 2 = 0
Separator(n, inArray) == IF inArray \/ Unnamed(n, inArray) THEN Comma ELSE Colon
Separated(n, inArray) == IF n = 0 THEN <<>> ELSE <<Separator(n, inArray)>>

LEMMA WriterAsks ==
    ASSUME NEW levels, NEW n, NEW inArray, Counting(levels, n, inArray),
           NEW hasRoot, NEW out, NEW flushed
    PROVE  LET w == Writing(levels, hasRoot, out, flushed, No)
           IN  /\ w.level_stack = levels
               /\ Last(w.level_stack).inArray = inArray
               /\ NoValueYet(w) <=> n = 0
               /\ NameNext(w) <=> Unnamed(n, inArray)
               /\ Delimiter(w) = Separator(n, inArray)
<1> DEFINE w == Writing(levels, hasRoot, out, flushed, No)
<1>1. w.level_stack = levels
  BY WritingFields
<1> HIDE DEF w
<1>2. Last(w.level_stack) = Leveled(n, inArray)
  BY <1>1 DEF Counting, Last
<1>3. Last(w.level_stack).inArray = inArray /\ Last(w.level_stack).valueCount = n
  BY <1>2, LeveledFields
<1>4. NoValueYet(w) <=> n = 0
  BY <1>3 DEF NoValueYet
<1>5. NameNext(w) <=> Unnamed(n, inArray)
  BY <1>3, Zenon DEF NameNext, Unnamed
<1>6. Delimiter(w) = Separator(n, inArray)
  BY <1>3, <1>5, Zenon DEF Delimiter, Separator, Comma, Colon
<1> QED
  BY <1>1, <1>3, <1>4, <1>5, <1>6 DEF w

\* A value is counted in its level, or is the root.
LEMMA WriterCounts ==
    ASSUME NEW levels, NEW n, NEW inArray, Counting(levels, n, inArray),
           NEW hasRoot, NEW out, NEW flushed,
           NEW isString \in BOOLEAN, Unnamed(n, inArray) => isString
    PROVE  CountValue(Writing(levels, hasRoot, out, flushed, No), isString) =
             Writing(Top(levels, Leveled(n + 1, inArray)), hasRoot, out, flushed, No)
<1> DEFINE w == Writing(levels, hasRoot, out, flushed, No)
           condition == NameNext(w) => isString
           f == levels[Len(levels)]
           more == n + 1
<1>1. w.level_stack = levels /\ (NameNext(w) <=> Unnamed(n, inArray))
  BY WriterAsks
<1>2. condition /\ condition \in BOOLEAN
  <2> HIDE DEF w
  <2> QED BY <1>1
<1>3. f.valueCount = n /\ [f EXCEPT !.valueCount = more] = Leveled(more, inArray)
  <2>1. f = Leveled(n, inArray)
    BY DEF Counting
  <2> HIDE DEF f, more
  <2>2. f.valueCount = n
    BY <2>1, LeveledFields
  <2>3. [f EXCEPT !.valueCount = more] = Leveled(more, inArray)
    BY <2>1 DEF Leveled
  <2> QED
    BY <2>2, <2>3
<1> HIDE DEF condition
<1>4. WriterAssert(w, condition) = w
  BY <1>2, WritingAsserts
<1> HIDE DEF w
<1>5. levels # <<>>
  BY DEF Counting
<1>6. CountValue(w, isString) =
        [WriterAssert(w, condition) EXCEPT !.level_stack[Len(levels)].valueCount = @ + 1]
  BY <1>1, <1>5, Zenon DEF CountValue, condition
<1>7. @ = [w EXCEPT !.level_stack = [levels EXCEPT ![Len(levels)] =
             [levels[Len(levels)] EXCEPT !.valueCount = levels[Len(levels)].valueCount + 1]]]
  BY <1>1, <1>4, Zenon
<1>8. @ = [w EXCEPT !.level_stack = Top(levels, Leveled(n + 1, inArray))]
  BY <1>3, Zenon DEF Top
<1> HIDE DEF f, more
<1> QED
  BY <1>6, <1>7, <1>8, WritingLevels DEF w

LEMMA WriterRoots ==
    ASSUME NEW out, NEW flushed, NEW isString
    PROVE  CountValue(Writing(<<>>, No, out, flushed, No), isString) =
             Writing(<<>>, Yes, out, flushed, No)
<1> DEFINE w == Writing(<<>>, No, out, flushed, No)
           condition == ~w.hasRoot
<1>1. w.level_stack = <<>> /\ w.hasRoot = No
  BY WritingFields
<1>2. condition /\ condition \in BOOLEAN
  BY <1>1, Truths
<1> HIDE DEF condition
<1>3. WriterAssert(w, condition) = w
  BY <1>2, WritingAsserts
<1> HIDE DEF w
<1>4. CountValue(w, isString) = [w EXCEPT !.hasRoot = Yes]
  BY <1>1, <1>3, Zenon DEF CountValue, condition, Yes
<1> QED
  BY <1>4, WritingRoot DEF w
-----------------------------------------------------------------------------
(* What writers put out: a delimiter, blanks, and the text.                *)

\* Blanks spread after the delimiter, if there are any.
Newline == "\n"
Blank == " "
Indent(depth) == [n \in 1 .. indentCharCount_ * depth |-> Blank]
Spread(out, delimiter, depth) ==
    \/ out = delimiter
    \/ out = delimiter \o <<Blank>>
    \/ out = (delimiter \o <<Newline>>) \o Indent(depth)

\* A writer that has put out the prefix of a value in a level, or of the root.
Prefixed(w, levels, hasRoot, delimiter, depth) ==
    \E out, flushed :
      /\ w = Writing(levels, hasRoot, out, flushed, No)
      /\ Spread(out, delimiter, depth)

LEMMA WriterIndents ==
    ASSUME NEW levels, NEW hasRoot, NEW out, NEW flushed
    PROVE  WriteIndent(Put(Writing(levels, hasRoot, out, flushed, No), <<"\n">>)) =
             Writing(levels, hasRoot, (out \o <<Newline>>) \o Indent(Len(levels)), No, No)
<1> DEFINE w == Writing(levels, hasRoot, out, flushed, No)
           v == Writing(levels, hasRoot, out \o <<Newline>>, No, No)
<1>1. Put(w, <<Newline>>) = v
  BY WritingPuts
<1>2. v.level_stack = levels
  BY WritingFields
<1>3. Put(v, Indent(Len(levels))) =
        Writing(levels, hasRoot, (out \o <<Newline>>) \o Indent(Len(levels)), No, No)
  BY WritingPuts
<1> HIDE DEF w, v
<1>4. WriteIndent(v) = Put(v, Indent(Len(levels)))
  BY <1>2, Zenon DEF WriteIndent, Indent, Blank
<1>5. Put(w, <<"\n">>) = v
  BY <1>1, Zenon DEF Newline
<1> QED
  BY <1>3, <1>4, <1>5, Zenon DEF w

\* A delimiter comes before every value but the first.
LEMMA WriterDelimits ==
    ASSUME NEW levels, NEW n, NEW inArray, Counting(levels, n, inArray), NEW hasRoot,
           NEW flushed
    PROVE  LET w == Writing(levels, hasRoot, <<>>, flushed, No)
           IN  \E after :
                 (IF NoValueYet(w) THEN w ELSE Put(w, <<Delimiter(w)>>)) =
                   Writing(levels, hasRoot, Separated(n, inArray), after, No)
<1> DEFINE w == Writing(levels, hasRoot, <<>>, flushed, No)
           d == Separator(n, inArray)
<1>1. (NoValueYet(w) <=> n = 0) /\ Delimiter(w) = d
  BY WriterAsks
<1>2. Put(w, <<d>>) = Writing(levels, hasRoot, <<>> \o <<d>>, No, No)
  <2> DEFINE none == <<>>
             text == <<d>>
  <2> HIDE DEF none, text
  <2>1. Put(Writing(levels, hasRoot, none, flushed, No), text) =
          Writing(levels, hasRoot, none \o text, No, No)
    BY WritingPuts
  <2> QED
    BY <2>1, Zenon DEF none, text
<1> HIDE DEF d
<1>3. <<>> \o <<d>> = <<d>>
  OBVIOUS
<1>4. CASE n = 0
  <2>1. Separated(n, inArray) = <<>>
    BY <1>4 DEF Separated
  <2>2. (IF NoValueYet(w) THEN w ELSE Put(w, <<Delimiter(w)>>)) =
          Writing(levels, hasRoot, Separated(n, inArray), flushed, No)
    BY <1>1, <1>4, <2>1, Zenon
  <2> QED
    BY <2>2
<1>5. CASE n # 0
  <2>1. Separated(n, inArray) = <<d>>
    BY <1>5 DEF Separated, d
  <2>2. (IF NoValueYet(w) THEN w ELSE Put(w, <<Delimiter(w)>>)) =
          Writing(levels, hasRoot, Separated(n, inArray), No, No)
    BY <1>1, <1>2, <1>3, <1>5, <2>1, Zenon
  <2> QED
    BY <2>2
<1> QED
  BY <1>4, <1>5

LEMMA PrefixWrites ==
    ASSUME NEW levels, NEW n, NEW inArray, Counting(levels, n, inArray), NEW hasRoot,
           NEW flushed, NEW isString \in BOOLEAN, Unnamed(n, inArray) => isString
    PROVE  Prefixed(Prefix(Writing(levels, hasRoot, <<>>, flushed, No), isString),
                    Top(levels, Leveled(n + 1, inArray)), hasRoot,
                    Separated(n, inArray), Len(levels))
<1> DEFINE w == Writing(levels, hasRoot, <<>>, flushed, No)
           put == IF NoValueYet(w) THEN w ELSE Put(w, <<Delimiter(w)>>)
           delimiter == Separated(n, inArray)
           new == Top(levels, Leveled(n + 1, inArray))
<1>1. PICK after : put = Writing(levels, hasRoot, delimiter, after, No)
  BY WriterDelimits
<1>2. CountValue(Writing(levels, hasRoot, delimiter, after, No), isString) =
        Writing(new, hasRoot, delimiter, after, No)
  BY WriterCounts
<1>3. w.level_stack # <<>>
  BY WriterAsks DEF Counting
<1>4. Prefix(w, isString) = CountValue(put, isString)
  <2> HIDE DEF w
  <2> QED BY <1>3, Zenon DEF Prefix
<1> HIDE DEF w, put
<1>5. Prefix(w, isString) = Writing(new, hasRoot, delimiter, after, No)
  BY <1>1, <1>2, <1>4
<1> HIDE DEF new, delimiter
<1>6. Prefixed(Prefix(w, isString), new, hasRoot, delimiter, Len(levels))
  BY <1>5, Zenon DEF Prefixed, Spread
<1> QED
  BY <1>6 DEF w, new, delimiter

\* The line breaks of PrettyWriter.
LEMMA PrettyPrefixWrites ==
    ASSUME NEW levels, NEW n, NEW inArray, Counting(levels, n, inArray), NEW hasRoot,
           NEW flushed, NEW isString \in BOOLEAN, Unnamed(n, inArray) => isString,
           NEW singleLineArray
    PROVE  Prefixed(PrettyPrefix(Writing(levels, hasRoot, <<>>, flushed, No), isString,
                                 singleLineArray),
                    Top(levels, Leveled(n + 1, inArray)), hasRoot,
                    Separated(n, inArray), Len(levels))
<1> DEFINE w == Writing(levels, hasRoot, <<>>, flushed, No)
           delimited == IF NoValueYet(w) THEN w ELSE Put(w, <<Delimiter(w)>>)
           delimiter == Separated(n, inArray)
           depth == Len(levels)
           new == Top(levels, Leveled(n + 1, inArray))
           broken == WriteIndent(Put(delimited, <<"\n">>))
           spaced == Put(delimited, <<" ">>)
           p == PrettyPrefix(w, isString, singleLineArray)
<1>1. PICK after : delimited = Writing(levels, hasRoot, delimiter, after, No)
  BY WriterDelimits
<1>2. broken = Writing(levels, hasRoot, (delimiter \o <<Newline>>) \o Indent(depth), No, No)
  BY <1>1, WriterIndents
<1>3. spaced = Writing(levels, hasRoot, delimiter \o <<Blank>>, No, No)
  <2>1. Put(Writing(levels, hasRoot, delimiter, after, No), <<Blank>>) =
          Writing(levels, hasRoot, delimiter \o <<Blank>>, No, No)
    BY WritingPuts
  <2> HIDE DEF delimited, delimiter
  <2> QED
    BY <1>1, <2>1, Zenon DEF Blank
<1>4. /\ w.level_stack # <<>>
      /\ Last(w.level_stack).inArray = inArray
      /\ NoValueYet(w) <=> n = 0
  BY WriterAsks DEF Counting
<1>5. ASSUME NEW v, NEW out, NEW later, v = Writing(levels, hasRoot, out, later, No),
             Spread(out, delimiter, depth), p = CountValue(v, isString)
      PROVE  Prefixed(p, new, hasRoot, delimiter, depth)
  <2>1. CountValue(v, isString) = Writing(new, hasRoot, out, later, No)
    BY <1>5, WriterCounts
  <2> HIDE DEF p, new, delimiter, depth
  <2>2. p = Writing(new, hasRoot, out, later, No)
    BY <1>5, <2>1
  <2> QED
    BY <1>5, <2>2, Zenon DEF Prefixed
<1>6. /\ Spread(delimiter, delimiter, depth)
      /\ Spread(delimiter \o <<Blank>>, delimiter, depth)
      /\ Spread((delimiter \o <<Newline>>) \o Indent(depth), delimiter, depth)
  BY Zenon DEF Spread
<1>7. ASSUME n = 0
      PROVE  delimited = w
  BY <1>4, <1>7, Zenon
<1>8. \/ p = CountValue(w, isString) /\ n = 0
      \/ p = CountValue(spaced, isString)
      \/ p = CountValue(broken, isString)
  <2> HIDE DEF w
  <2> QED
    BY <1>4, Zenon DEF PrettyPrefix
<1> HIDE DEF w, delimited, broken, spaced, p, delimiter, new, depth
<1>9. Prefixed(p, new, hasRoot, delimiter, depth)
  <2>1. CASE p = CountValue(w, isString) /\ n = 0
    BY <1>1, <1>5, <1>6, <1>7, <2>1
  <2>2. CASE p = CountValue(spaced, isString)
    BY <1>3, <1>5, <1>6, <2>2
  <2>3. CASE p = CountValue(broken, isString)
    BY <1>2, <1>5, <1>6, <2>3
  <2> QED
    BY <1>8, <2>1, <2>2, <2>3
<1> QED
  BY <1>9 DEF w, p, delimiter, new, depth

\* The root has no delimiter.
LEMMA RootPrefixes ==
    ASSUME NEW flushed, NEW isString, NEW singleLineArray
    PROVE  LET w == Writing(<<>>, No, <<>>, flushed, No)
           IN  /\ Prefixed(Prefix(w, isString), <<>>, Yes, <<>>, 0)
               /\ Prefixed(PrettyPrefix(w, isString, singleLineArray), <<>>, Yes, <<>>, 0)
<1> DEFINE none == <<>>
           w == Writing(none, No, none, flushed, No)
           v == Writing(none, Yes, none, flushed, No)
<1>1. CountValue(w, isString) = v
  <2>1. \A out : CountValue(Writing(<<>>, No, out, flushed, No), isString) =
                   Writing(<<>>, Yes, out, flushed, No)
    BY WriterRoots
  <2> QED
    BY <2>1, Zenon
<1> HIDE DEF none
<1>2. w.level_stack = none
  BY WritingFields
<1> HIDE DEF w
<1>3. Prefix(w, isString) = v
  BY <1>1, <1>2, Zenon DEF Prefix, none
<1>4. PrettyPrefix(w, isString, singleLineArray) = v
  BY <1>1, <1>2, Zenon DEF PrettyPrefix, none
<1>5. /\ Prefixed(Prefix(w, isString), none, Yes, none, 0)
      /\ Prefixed(PrettyPrefix(w, isString, singleLineArray), none, Yes, none, 0)
  BY <1>3, <1>4, Zenon DEF Prefixed, Spread
<1> QED
  BY <1>5, Zenon DEF w, none

\* A writer that has put out a value: all is flushed when that was the root.
Written(w, levels, l, delimiter, depth) ==
    \E out, flushed :
      /\ w = Writing(levels, Yes, out \o <<l>>, flushed, No)
      /\ Spread(out, delimiter, depth)
      /\ levels = <<>> => flushed = Yes

LEMMA EndWrites ==
    ASSUME NEW levels, NEW out, NEW flushed, NEW l, NEW delimiter, NEW depth,
           Spread(out, delimiter, depth)
    PROVE  Written(EndValue(Put(Writing(levels, Yes, out, flushed, No), <<l>>)),
                   levels, l, delimiter, depth)
<1> DEFINE w == Put(Writing(levels, Yes, out, flushed, No), <<l>>)
           more == out \o <<l>>
<1>1. w = Writing(levels, Yes, more, No, No)
  BY WritingPuts
<1> HIDE DEF w, more
<1>2. w.level_stack = levels
  BY <1>1, WritingFields
<1>3. [w EXCEPT !.flushed = Yes] = Writing(levels, Yes, more, Yes, No)
  BY <1>1 DEF Writing
<1>4. CASE levels = <<>>
  <2>1. EndValue(w) = [w EXCEPT !.flushed = Yes]
    BY <1>2, <1>4, Zenon DEF EndValue, Yes
  <2>2. EndValue(w) = Writing(levels, Yes, more, Yes, No)
    BY <1>3, <2>1, Zenon
  <2> QED
    BY <2>2, Zenon DEF Written, w, more
<1>5. CASE levels # <<>>
  <2>1. EndValue(w) = Writing(levels, Yes, more, No, No)
    BY <1>1, <1>2, <1>5, Zenon DEF EndValue
  <2> QED
    BY <1>5, <2>1, Zenon DEF Written, w, more
<1> QED
  BY <1>4, <1>5

InArray(kind) == IF kind = "array" THEN Yes ELSE No

\* A container begins a level of its own.
LEMMA PushWrites ==
    ASSUME NEW levels \in Seq(Levelings), NEW inArray \in BOOLEAN, NEW out, NEW flushed,
           NEW l, NEW delimiter, NEW depth, Spread(out, delimiter, depth)
    PROVE  Written(Put(Push(Writing(levels, Yes, out, flushed, No), Level(inArray)), <<l>>),
                   Pushed(levels, Leveled(0, inArray)), l, delimiter, depth)
<1> DEFINE w == Writing(levels, Yes, out, flushed, No)
           new == Pushed(levels, Leveled(0, inArray))
           more == out \o <<l>>
<1>1. w.level_stack = levels /\ w = Writing(levels, Yes, out, flushed, No)
  BY WritingFields
<1>2. new # <<>>
  <2>1. Leveled(0, inArray) \in Levelings
    BY DEF Leveled, Levelings
  <2>2. new \in Seq(Levelings) /\ Len(new) = Len(levels) + 1
    BY <2>1 DEF Pushed
  <2> HIDE DEF new
  <2>3. Len(new) # 0
    BY <2>2
  <2> QED
    BY <2>2, <2>3
<1>3. Put(Writing(new, Yes, out, flushed, No), <<l>>) = Writing(new, Yes, more, No, No)
  BY WritingPuts
<1> HIDE DEF w, new, more
<1>4. Push(w, Level(inArray)) = [w EXCEPT !.level_stack = new]
  BY <1>1, Zenon DEF Push, Pushed, Level, Leveled, new
<1>5. [w EXCEPT !.level_stack = new] = Writing(new, Yes, out, flushed, No)
  BY <1>1 DEF Writing
<1>6. Put(Push(w, Level(inArray)), <<l>>) = Writing(new, Yes, more, No, No)
  BY <1>3, <1>4, <1>5, Zenon
<1> QED
  BY <1>2, <1>6, Zenon DEF Written, w, new, more

LEMMA BeginWrites ==
    ASSUME NEW p, NEW levels \in Seq(Levelings), NEW delimiter, NEW depth,
           Prefixed(p, levels, Yes, delimiter, depth), NEW w, NEW l
    PROVE  Written(Begin(w, l, p),
                   IF l \in {"{", "["} THEN Pushed(levels, Leveled(0, InArray(Kind(l))))
                   ELSE levels,
                   l, delimiter, depth)
<1>1. PICK out, flushed :
         /\ p = Writing(levels, Yes, out, flushed, No)
         /\ Spread(out, delimiter, depth)
  BY Zenon DEF Prefixed
<1>2. CASE l = "{"
  <2>1. Begin(w, l, p) = Put(Push(p, Level(No)), <<l>>)
    BY <1>2, Zenon DEF Begin, No
  <2>2. InArray(Kind(l)) = No /\ No \in BOOLEAN
    BY <1>2, Truths DEF InArray, Kind
  <2>3. Written(Put(Push(p, Level(No)), <<l>>), Pushed(levels, Leveled(0, No)), l,
                delimiter, depth)
    BY <1>1, <2>2, PushWrites
  <2> QED
    BY <1>2, <2>1, <2>2, <2>3, Zenon
<1>3. CASE l = "["
  <2>1. Begin(w, l, p) = Put(Push(p, Level(Yes)), <<l>>)
    BY <1>3, Zenon DEF Begin, Yes
  <2>2. InArray(Kind(l)) = Yes /\ Yes \in BOOLEAN
    BY <1>3, Truths DEF InArray, Kind
  <2>3. Written(Put(Push(p, Level(Yes)), <<l>>), Pushed(levels, Leveled(0, Yes)), l,
                delimiter, depth)
    BY <1>1, <2>2, PushWrites
  <2> QED
    BY <1>3, <2>1, <2>2, <2>3, Zenon
<1>4. CASE l \notin {"{", "["}
  <2>1. Begin(w, l, p) = EndValue(Put(p, <<l>>))
    BY <1>4 DEF Begin
  <2>2. Written(EndValue(Put(p, <<l>>)), levels, l, delimiter, depth)
    BY <1>1, EndWrites
  <2> QED
    BY <1>4, <2>1, <2>2, Zenon
<1> QED
  BY <1>2, <1>3, <1>4

\* The writers' calls, which put out what is new only.
Closing(l) == l \in {"}", "]"}

LEMMA Emptied ==
    ASSUME NEW levels, NEW hasRoot, NEW out, NEW flushed
    PROVE  [Writing(levels, hasRoot, out, flushed, No) EXCEPT !.out = <<>>] =
             Writing(levels, hasRoot, <<>>, flushed, No)
<1> DEFINE w == Writing(levels, hasRoot, out, flushed, No)
           none == <<>>
<1>1. w = Writing(levels, hasRoot, out, flushed, No)
  OBVIOUS
<1> HIDE DEF w, none
<1>2. [w EXCEPT !.out = none] = Writing(levels, hasRoot, none, flushed, No)
  BY <1>1 DEF Writing
<1> QED
  BY <1>2, Zenon DEF w, none

LEMMA ValueWrites ==
    ASSUME NEW levels, NEW n, NEW inArray, Counting(levels, n, inArray),
           NEW out, NEW flushed, NEW l, ~Closing(l),
           Unnamed(n, inArray) => l = "string", NEW singleLineArray
    PROVE  LET w == Writing(levels, Yes, out, flushed, No)
               top == Top(levels, Leveled(n + 1, inArray))
               new == IF l \in {"{", "["} THEN Pushed(top, Leveled(0, InArray(Kind(l))))
                      ELSE top
           IN  /\ Written(Write(w, l), new, l, Separated(n, inArray), Len(levels))
               /\ Written(PrettyWrite(w, l, singleLineArray), new, l,
                          Separated(n, inArray), Len(levels))
<1> DEFINE w == Writing(levels, Yes, out, flushed, No)
           v == Writing(levels, Yes, <<>>, flushed, No)
           f == Leveled(n + 1, inArray)
           top == Top(levels, f)
           isString == l = "string"
           new == IF l \in {"{", "["} THEN Pushed(top, Leveled(0, InArray(Kind(l)))) ELSE top
           delimiter == Separated(n, inArray)
           depth == Len(levels)
<1>1. top \in Seq(Levelings)
  <2>1. f \in Levelings
    BY DEF Leveled, Levelings, Counting
  <2>2. levels \in Seq(Levelings) /\ levels # <<>>
    BY DEF Counting, Levelings
  <2> HIDE DEF f
  <2>3. Len(levels) \in 1 .. Len(levels)
    BY <2>2
  <2> QED
    BY <2>1, <2>2, <2>3, ExceptSeq DEF Top
<1>2. [w EXCEPT !.out = <<>>] = v
  BY Emptied
<1>3. isString \in BOOLEAN /\ (Unnamed(n, inArray) => isString)
  OBVIOUS
<1> HIDE DEF isString
<1>4. Prefixed(Prefix(v, isString), top, Yes, delimiter, depth)
  BY <1>3, PrefixWrites
<1>5. Prefixed(PrettyPrefix(v, isString, singleLineArray), top, Yes, delimiter, depth)
  BY <1>3, PrettyPrefixWrites
<1> HIDE DEF top, delimiter, depth
<1>6. Written(Begin(v, l, Prefix(v, isString)), new, l, delimiter, depth)
  BY <1>1, <1>4, BeginWrites
<1>7. Written(Begin(v, l, PrettyPrefix(v, isString, singleLineArray)), new, l, delimiter,
              depth)
  BY <1>1, <1>5, BeginWrites
<1> HIDE DEF w, v
<1>8. Write(w, l) = Begin(v, l, Prefix(v, isString))
  BY <1>2, Zenon DEF Write, Closing, isString
<1>9. PrettyWrite(w, l, singleLineArray) =
        Begin(v, l, PrettyPrefix(v, isString, singleLineArray))
  BY <1>2, Zenon DEF PrettyWrite, Closing, isString
<1> HIDE DEF new
<1>10. /\ Written(Write(w, l), new, l, delimiter, depth)
       /\ Written(PrettyWrite(w, l, singleLineArray), new, l, delimiter, depth)
  BY <1>6, <1>7, <1>8, <1>9
<1> QED
  BY <1>10, Zenon DEF w, new, top, f, delimiter, depth

LEMMA RootWrites ==
    ASSUME NEW out, NEW flushed, NEW l, ~Closing(l), NEW singleLineArray
    PROVE  LET w == Writing(<<>>, No, out, flushed, No)
               new == IF l \in {"{", "["} THEN Pushed(<<>>, Leveled(0, InArray(Kind(l))))
                      ELSE <<>>
           IN  /\ Written(Write(w, l), new, l, <<>>, 0)
               /\ Written(PrettyWrite(w, l, singleLineArray), new, l, <<>>, 0)
<1> DEFINE none == <<>>
           w == Writing(none, No, out, flushed, No)
           v == Writing(none, No, none, flushed, No)
           isString == l = "string"
           new == IF l \in {"{", "["} THEN Pushed(none, Leveled(0, InArray(Kind(l)))) ELSE none
<1>1. none \in Seq(Levelings)
  OBVIOUS
<1>2. [w EXCEPT !.out = <<>>] = v
  BY Emptied
<1> HIDE DEF isString
<1>3. /\ Prefixed(Prefix(v, isString), none, Yes, none, 0)
      /\ Prefixed(PrettyPrefix(v, isString, singleLineArray), none, Yes, none, 0)
  BY RootPrefixes
<1> HIDE DEF none
<1>4. Written(Begin(v, l, Prefix(v, isString)), new, l, none, 0)
  BY <1>1, <1>3, BeginWrites
<1>5. Written(Begin(v, l, PrettyPrefix(v, isString, singleLineArray)), new, l, none, 0)
  BY <1>1, <1>3, BeginWrites
<1> HIDE DEF w, v
<1>6. Write(w, l) = Begin(v, l, Prefix(v, isString))
  BY <1>2, Zenon DEF Write, Closing, isString
<1>7. PrettyWrite(w, l, singleLineArray) =
        Begin(v, l, PrettyPrefix(v, isString, singleLineArray))
  BY <1>2, Zenon DEF PrettyWrite, Closing, isString
<1> HIDE DEF new
<1>8. /\ Written(Write(w, l), new, l, none, 0)
      /\ Written(PrettyWrite(w, l, singleLineArray), new, l, none, 0)
  BY <1>4, <1>5, <1>6, <1>7
<1> QED
  BY <1>8, Zenon DEF w, new, none

\* A container is closed.
LEMMA WriterPops ==
    ASSUME NEW levels, NEW n, NEW inArray, Counting(levels, n, inArray),
           NEW hasRoot, NEW out, NEW flushed,
           NEW closing \in BOOLEAN, closing = inArray, ~inArray => n % 2 = 0
    PROVE  Pop(Writing(levels, hasRoot, out, flushed, No), closing) =
             Writing(Front(levels), hasRoot, out, flushed, No)
<1> DEFINE w == Writing(levels, hasRoot, out, flushed, No)
           new == Front(levels)
<1>1. w.level_stack = levels /\ w = Writing(levels, hasRoot, out, flushed, No)
  BY WritingFields
<1> HIDE DEF w
<1>2. Last(w.level_stack) = Leveled(n, inArray)
  BY <1>1 DEF Counting, Last
<1>3. Last(w.level_stack).inArray = inArray /\ Last(w.level_stack).valueCount = n
  BY <1>2, LeveledFields
<1>4. levels # <<>>
  BY DEF Counting
<1>5. Pop(w, closing) = [w EXCEPT !.level_stack = new]
  BY <1>1, <1>3, <1>4, Zenon DEF Pop
<1> HIDE DEF new
<1>6. [w EXCEPT !.level_stack = new] = Writing(new, hasRoot, out, flushed, No)
  BY <1>1 DEF Writing
<1> QED
  BY <1>5, <1>6, Zenon DEF w, new

LEMMA CloseWrites ==
    ASSUME NEW levels, NEW n, NEW kind \in {"object", "array"},
           Counting(levels, n, InArray(kind)), kind = "object" => n % 2 = 0,
           NEW out, NEW flushed, NEW l, l = Bracket(kind), NEW singleLineArray
    PROVE  LET w == Writing(levels, Yes, out, flushed, No)
           IN  /\ Written(Write(w, l), Front(levels), l, <<>>, Len(levels) - 1)
               /\ Written(PrettyWrite(w, l, singleLineArray), Front(levels), l, <<>>,
                          Len(levels) - 1)
<1> DEFINE none == <<>>
           w == Writing(levels, Yes, out, flushed, No)
           v == Writing(levels, Yes, none, flushed, No)
           closing == l = "]"
           new == Front(levels)
           depth == Len(levels) - 1
           u == Writing(new, Yes, none, flushed, No)
           spread == (none \o <<Newline>>) \o Indent(depth)
           broken == Writing(new, Yes, spread, No, No)
<1>1. [w EXCEPT !.out = <<>>] = v
  BY Emptied
<1>2. closing = InArray(kind) /\ closing \in BOOLEAN
  <2> DEFINE square == "]"
  <2>1. closing = (l = square)
    BY Zenon
  <2>2. l = square <=> kind = "array"
    BY Zenon DEF Bracket
  <2> HIDE DEF square, closing
  <2>3. closing \in BOOLEAN
    BY <2>1
  <2>4. closing <=> kind = "array"
    BY <2>1, <2>2
  <2> QED
    BY <2>3, <2>4, Truths DEF InArray
<1>3. ~InArray(kind) => n % 2 = 0
  BY Truths DEF InArray
<1>4. Closing(l)
  BY Zenon DEF Closing, Bracket
<1>5. Len(new) = depth
  BY FrontSeq DEF Counting
<1> HIDE DEF closing, none
<1>6. Pop(v, closing) = u
  BY <1>2, <1>3, WriterPops
<1>7. WriteIndent(Put(u, <<"\n">>)) = broken
  BY <1>5, WriterIndents
<1>8. Spread(none, none, depth) /\ Spread(spread, none, depth)
  BY Zenon DEF Spread
<1>9. Written(EndValue(Put(u, <<l>>)), new, l, none, depth)
  BY <1>8, EndWrites
<1>10. Written(EndValue(Put(broken, <<l>>)), new, l, none, depth)
  BY <1>8, EndWrites
<1> HIDE DEF w, v, u, broken, spread, new, depth
<1>11. Write(w, l) = EndValue(Put(u, <<l>>))
  BY <1>1, <1>4, <1>6, Zenon DEF Write, Closing, closing, none
<1>12. \/ PrettyWrite(w, l, singleLineArray) = EndValue(Put(u, <<l>>))
       \/ PrettyWrite(w, l, singleLineArray) = EndValue(Put(broken, <<l>>))
  BY <1>1, <1>4, <1>6, <1>7, Zenon DEF PrettyWrite, ClosePretty, Closing, closing, none
<1>13. /\ Written(Write(w, l), new, l, none, depth)
       /\ Written(PrettyWrite(w, l, singleLineArray), new, l, none, depth)
  BY <1>9, <1>10, <1>11, <1>12
<1> QED
  BY <1>13, Zenon DEF w, new, none, depth
-----------------------------------------------------------------------------
(* The text and the blanks around it.                                      *)

\* Where each lexeme of a text is in an output.
Places(place, out, text) ==
    /\ \A n \in DOMAIN text : out[place[n]] = text[n]
    /\ \A m, n \in DOMAIN text : m < n => place[m] < place[n]
    /\ \A k \in DOMAIN out :
         out[k] \notin Blanks <=> \E n \in DOMAIN text : place[n] = k

LEMMA Placed ==
    ASSUME NEW S, NEW out \in Seq(S), NEW text \in Seq(S)
    PROVE  WithoutBlanks(out, text) <=>
             \E place \in [1 .. Len(text) -> 1 .. Len(out)] : Places(place, out, text)
<1>1. DOMAIN out = 1 .. Len(out) /\ DOMAIN text = 1 .. Len(text)
  OBVIOUS
<1> QED
  BY <1>1, Zenon DEF WithoutBlanks, Places

LEMMA Appended ==
    ASSUME NEW S, NEW s \in Seq(S), NEW t \in Seq(S)
    PROVE  /\ s \o t \in Seq(S) /\ Len(s \o t) = Len(s) + Len(t)
           /\ \A k \in 1 .. Len(s) : (s \o t)[k] = s[k]
           /\ \A k \in 1 .. Len(t) : (s \o t)[Len(s) + k] = t[k]
<1>1. s \o t \in Seq(S)
  OBVIOUS
<1>2. Len(s \o t) = Len(s) + Len(t)
  OBVIOUS
<1>3. \A k \in 1 .. Len(s) : (s \o t)[k] = s[k]
  OBVIOUS
<1>4. \A k \in 1 .. Len(t) : (s \o t)[Len(s) + k] = t[k]
  OBVIOUS
<1> QED
  BY <1>1, <1>2, <1>3, <1>4

LEMMA AppendedOne ==
    ASSUME NEW S, NEW s \in Seq(S), NEW x \in S
    PROVE  /\ s \o <<x>> \in Seq(S) /\ Len(s \o <<x>>) = Len(s) + 1
           /\ \A k \in 1 .. Len(s) : (s \o <<x>>)[k] = s[k]
           /\ (s \o <<x>>)[Len(s) + 1] = x
<1> DEFINE t == <<x>>
<1>1. t \in Seq(S) /\ Len(t) = 1 /\ t[1] = x
  OBVIOUS
<1> HIDE DEF t
<1>2. /\ s \o t \in Seq(S) /\ Len(s \o t) = Len(s) + 1
      /\ \A k \in 1 .. Len(s) : (s \o t)[k] = s[k]
      /\ (s \o t)[Len(s) + 1] = x
  BY <1>1, Appended
<1> QED
  BY <1>2 DEF t

LEMMA TextGrows ==
    ASSUME NEW S, NEW out \in Seq(S), NEW text \in Seq(S), WithoutBlanks(out, text),
           NEW x \in S, x \notin Blanks
    PROVE  WithoutBlanks(out \o <<x>>, text \o <<x>>)
<1> DEFINE o == Len(out)
           t == Len(text)
           new == out \o <<x>>
           more == text \o <<x>>
<1>1. o \in Nat /\ t \in Nat
  OBVIOUS
<1>2. /\ new \in Seq(S) /\ Len(new) = o + 1
      /\ \A k \in 1 .. o : new[k] = out[k]
      /\ new[o + 1] = x
  BY AppendedOne
<1>3. /\ more \in Seq(S) /\ Len(more) = t + 1
      /\ \A k \in 1 .. t : more[k] = text[k]
      /\ more[t + 1] = x
  BY AppendedOne
<1>4. PICK place \in [1 .. t -> 1 .. o] : Places(place, out, text)
  BY Placed
<1>5. DOMAIN out = 1 .. o /\ DOMAIN text = 1 .. t
  OBVIOUS
<1> HIDE DEF o, t, new, more
<1>6. DOMAIN new = 1 .. o + 1 /\ DOMAIN more = 1 .. t + 1
  BY <1>2, <1>3
<1> DEFINE next == [n \in 1 .. t + 1 |-> IF n = t + 1 THEN o + 1 ELSE place[n]]
<1>7. /\ \A n \in 1 .. t : next[n] = place[n] /\ place[n] \in 1 .. o
      /\ next[t + 1] = o + 1
      /\ next \in [1 .. t + 1 -> 1 .. o + 1]
  BY <1>1
<1> HIDE DEF next
<1>8. \A n \in DOMAIN more : new[next[n]] = more[n]
  <2> SUFFICES ASSUME NEW n \in 1 .. t + 1 PROVE new[next[n]] = more[n]
    BY <1>6
  <2>1. CASE n = t + 1
    BY <1>2, <1>3, <1>7, <2>1
  <2>2. CASE n \in 1 .. t
    <3>1. out[place[n]] = text[n]
      BY <1>4, <1>5, <2>2 DEF Places
    <3> QED
      BY <1>2, <1>3, <1>7, <2>2, <3>1
  <2> QED
    BY <1>1, <2>1, <2>2
<1>9. \A m, n \in DOMAIN more : m < n => next[m] < next[n]
  <2> SUFFICES ASSUME NEW m \in 1 .. t, NEW n \in 1 .. t + 1, m < n PROVE next[m] < next[n]
    BY <1>1, <1>6
  <2>1. CASE n = t + 1
    BY <1>1, <1>7, <2>1
  <2>2. CASE n \in 1 .. t
    BY <1>4, <1>5, <1>7, <2>2 DEF Places
  <2> QED
    BY <1>1, <2>1, <2>2
<1>10. \A k \in DOMAIN new : new[k] \notin Blanks <=> \E n \in DOMAIN more : next[n] = k
  <2> SUFFICES ASSUME NEW k \in 1 .. o + 1
               PROVE  new[k] \notin Blanks <=> \E n \in 1 .. t + 1 : next[n] = k
    BY <1>6
  <2>1. CASE k = o + 1
    BY <1>1, <1>2, <1>7, <2>1
  <2>2. CASE k \in 1 .. o
    <3>1. out[k] \notin Blanks <=> \E n \in 1 .. t : place[n] = k
      BY <1>4, <1>5, <2>2 DEF Places
    <3>2. (\E n \in 1 .. t + 1 : next[n] = k) <=> \E n \in 1 .. t : place[n] = k
      BY <1>1, <1>7, <2>2
    <3> QED
      BY <1>2, <2>2, <3>1, <3>2
  <2> QED
    BY <1>1, <2>1, <2>2
<1>11. Places(next, new, more)
  BY <1>8, <1>9, <1>10 DEF Places
<1>12. WithoutBlanks(new, more)
  BY <1>2, <1>3, <1>7, <1>11, Placed
<1> QED
  BY <1>12 DEF new, more

LEMMA BlanksGrow ==
    ASSUME NEW S, NEW out \in Seq(S), NEW text \in Seq(S), WithoutBlanks(out, text),
           NEW blanks \in Seq(S), \A n \in 1 .. Len(blanks) : blanks[n] \in Blanks
    PROVE  WithoutBlanks(out \o blanks, text)
<1> DEFINE o == Len(out)
           b == Len(blanks)
           t == Len(text)
           new == out \o blanks
<1>1. o \in Nat /\ t \in Nat /\ b \in Nat
  OBVIOUS
<1>2. /\ new \in Seq(S) /\ Len(new) = o + b
      /\ \A k \in 1 .. o : new[k] = out[k]
      /\ \A k \in 1 .. b : new[o + k] = blanks[k]
  BY Appended
<1>3. PICK place \in [1 .. t -> 1 .. o] : Places(place, out, text)
  BY Placed
<1>4. DOMAIN out = 1 .. o /\ DOMAIN text = 1 .. t
  OBVIOUS
<1> HIDE DEF o, b, t, new
<1>5. DOMAIN new = 1 .. o + b
  BY <1>2
<1>6. place \in [1 .. t -> 1 .. o + b] /\ \A n \in 1 .. t : place[n] \in 1 .. o
  BY <1>1, <1>3
<1>7. \A n \in DOMAIN text : new[place[n]] = text[n]
  BY <1>2, <1>3, <1>4, <1>6 DEF Places
<1>8. \A m, n \in DOMAIN text : m < n => place[m] < place[n]
  BY <1>3 DEF Places
<1>9. \A k \in DOMAIN new : new[k] \notin Blanks <=> \E n \in DOMAIN text : place[n] = k
  <2> SUFFICES ASSUME NEW k \in 1 .. o + b
               PROVE  new[k] \notin Blanks <=> \E n \in 1 .. t : place[n] = k
    BY <1>4, <1>5
  <2>1. CASE k \in 1 .. o
    BY <1>2, <1>3, <1>4, <2>1 DEF Places
  <2>2. CASE k \notin 1 .. o
    <3>1. k - o \in 1 .. b /\ o + (k - o) = k
      BY <1>1, <2>2
    <3>2. new[k] \in Blanks
      <4> DEFINE j == k - o
      <4>1. new[o + j] = blanks[j] /\ blanks[j] \in Blanks
        <5> HIDE DEF j
        <5>1. j \in 1 .. b
          BY <3>1 DEF j
        <5> QED
          BY <1>2, <5>1 DEF b
      <4> QED
        BY <3>1, <4>1
    <3> QED
      BY <1>6, <2>2, <3>2
  <2> QED
    BY <2>1, <2>2
<1>10. Places(place, new, text)
  BY <1>7, <1>8, <1>9 DEF Places
<1>11. Len(new) = o + b /\ new \in Seq(S)
  BY <1>2
<1>12. WithoutBlanks(new, text)
  BY <1>6, <1>10, <1>11, Placed DEF t
<1> QED
  BY <1>12 DEF new

LEMMA NoText == WithoutBlanks(<<>>, <<>>)
<1> DEFINE none == <<>>
<1>1. none \in Seq({}) /\ Len(none) = 0 /\ DOMAIN none = {}
  OBVIOUS
<1>2. none \in [1 .. 0 -> 1 .. 0]
  OBVIOUS
<1> HIDE DEF none
<1>3. Places(none, none, none)
  BY <1>1 DEF Places
<1>4. WithoutBlanks(none, none)
  BY <1>1, <1>2, <1>3, Placed
<1> QED
  BY <1>4 DEF none

\* Each line is indented by the level it is on.
Aligned(out, depth) ==
    \A n \in DOMAIN out : out[n] = Newline =>
      /\ Len(out) = n + indentCharCount_ * depth + 1
      /\ \A m \in n + 1 .. Len(out) - 1 : out[m] = Blank
Plain(out) == \A n \in 1 .. Len(out) : out[n] # Newline

LEMMA TheBlanks ==
    Blanks = {Blank, Newline} /\ Blank # Newline
    /\ Comma \notin Blanks /\ Colon \notin Blanks
BY Zenon DEF Blanks, Blank, Newline, Comma, Colon

LEMMA Width ==
    ASSUME NEW depth \in Nat
    PROVE  indentCharCount_ * depth \in Nat
BY IndentAssumption

LEMMA Indents ==
    ASSUME NEW S, Blank \in S, NEW depth \in Nat
    PROVE  /\ Indent(depth) \in Seq(S) /\ Len(Indent(depth)) = indentCharCount_ * depth
           /\ \A n \in 1 .. Len(Indent(depth)) : Indent(depth)[n] = Blank
<1> DEFINE width == indentCharCount_ * depth
           i == [n \in 1 .. width |-> Blank]
<1>1. width \in Nat
  BY Width
<1> HIDE DEF width
<1>2. i \in Seq(S) /\ Len(i) = width
  BY <1>1
<1>3. \A n \in 1 .. width : i[n] = Blank
  OBVIOUS
<1> HIDE DEF i
<1>4. Indent(depth) = i
  BY Zenon DEF Indent, i, width
<1> QED
  BY <1>2, <1>3, <1>4 DEF width

LEMMA PlainGrows ==
    ASSUME NEW S, NEW out \in Seq(S), Plain(out), NEW x \in S, x # Newline
    PROVE  Plain(out \o <<x>>)
<1> DEFINE new == out \o <<x>>
<1>1. /\ new \in Seq(S) /\ Len(new) = Len(out) + 1
      /\ \A k \in 1 .. Len(out) : new[k] = out[k]
      /\ new[Len(out) + 1] = x
  BY AppendedOne
<1>2. Len(out) \in Nat
  OBVIOUS
<1> HIDE DEF new
<1>3. Plain(new)
  <2> SUFFICES ASSUME NEW k \in 1 .. Len(out) + 1 PROVE new[k] # Newline
    BY <1>1 DEF Plain
  <2>1. CASE k = Len(out) + 1
    BY <1>1, <2>1
  <2>2. CASE k \in 1 .. Len(out)
    BY <1>1, <2>2 DEF Plain
  <2> QED
    BY <1>2, <2>1, <2>2
<1> QED
  BY <1>3 DEF new

LEMMA PlainAligned ==
    ASSUME NEW S, NEW out \in Seq(S), Plain(out), NEW depth
    PROVE  Aligned(out, depth)
<1>1. DOMAIN out = 1 .. Len(out)
  OBVIOUS
<1> QED
  BY <1>1 DEF Aligned, Plain

\* A line break, the indentation and a text.
LEMMA LineAligned ==
    ASSUME NEW S, NEW out \in Seq(S), Plain(out), Blank \in S, Newline \in S,
           NEW depth \in Nat, NEW l \in S, l # Newline
    PROVE  Aligned(((out \o <<Newline>>) \o Indent(depth)) \o <<l>>, depth)
<1> DEFINE line == out \o <<Newline>>
           i == Indent(depth)
           indented == line \o i
           new == indented \o <<l>>
           o == Len(out)
           width == indentCharCount_ * depth
<1>1. o \in Nat /\ width \in Nat
  BY Width
<1>2. /\ line \in Seq(S) /\ Len(line) = o + 1
      /\ \A k \in 1 .. o : line[k] = out[k]
      /\ line[o + 1] = Newline
  BY AppendedOne
<1>3. i \in Seq(S) /\ Len(i) = width /\ \A n \in 1 .. Len(i) : i[n] = Blank
  BY Indents
<1> HIDE DEF line, i
<1>4. /\ indented \in Seq(S) /\ Len(indented) = o + 1 + width
      /\ \A k \in 1 .. o + 1 : indented[k] = line[k]
      /\ \A k \in 1 .. width : indented[o + 1 + k] = i[k]
  <2> HIDE DEF o, width
  <2>1. line \in Seq(S) /\ i \in Seq(S)
    BY <1>2, <1>3
  <2>2. /\ indented \in Seq(S) /\ Len(indented) = Len(line) + Len(i)
        /\ \A k \in 1 .. Len(line) : indented[k] = line[k]
        /\ \A k \in 1 .. Len(i) : indented[Len(line) + k] = i[k]
    BY <2>1, Appended
  <2> HIDE DEF indented
  <2> QED
    BY <1>2, <1>3, <2>2
<1> HIDE DEF indented
<1>5. /\ new \in Seq(S) /\ Len(new) = o + 1 + width + 1
      /\ \A k \in 1 .. o + 1 + width : new[k] = indented[k]
      /\ new[o + 1 + width + 1] = l
  <2> HIDE DEF o, width
  <2> QED BY <1>4, AppendedOne
<1>6. \A n \in 1 .. o : out[n] # Newline
  BY DEF Plain
<1> HIDE DEF o, new
<1>7. DOMAIN new = 1 .. o + 1 + width + 1
  BY <1>5
<1>8. \A k \in 1 .. width : new[o + 1 + k] = Blank
  <2> SUFFICES ASSUME NEW k \in 1 .. width PROVE new[o + 1 + k] = Blank
    OBVIOUS
  <2>1. o + 1 + k \in 1 .. o + 1 + width
    <3> HIDE DEF width
    <3> QED BY <1>1
  <2> HIDE DEF width
  <2> QED
    BY <1>3, <1>4, <1>5, <2>1 DEF width
<1> HIDE DEF width
<1>9. \A k \in 1 .. o : new[k] # Newline
  <2> SUFFICES ASSUME NEW k \in 1 .. o PROVE new[k] # Newline
    OBVIOUS
  <2>1. k \in 1 .. o + 1 /\ k \in 1 .. o + 1 + width
    BY <1>1
  <2>2. new[k] = indented[k] /\ indented[k] = line[k] /\ line[k] = out[k]
    BY <1>2, <1>4, <1>5, <2>1
  <2> QED
    BY <1>6, <2>2
<1>10. ASSUME NEW n \in 1 .. o + 1 + width + 1, new[n] = Newline
       PROVE  n = o + 1
  <2>1. n # o + 1 + width + 1
    BY <1>5, <1>10
  <2>2. n \notin 1 .. o
    BY <1>9, <1>10
  <2>3. ASSUME n > o + 1
        PROVE  FALSE
    <3> DEFINE k == n - (o + 1)
    <3>1. k \in 1 .. width /\ o + 1 + k = n
      BY <1>1, <1>10, <2>1, <2>3
    <3> HIDE DEF k
    <3>2. new[n] = Blank
      BY <1>8, <3>1
    <3> QED
      BY <1>10, <3>2, TheBlanks
  <2> QED
    BY <1>1, <1>10, <2>1, <2>2, <2>3
<1>11. \A m \in o + 1 + 1 .. Len(new) - 1 : new[m] = Blank
  <2> SUFFICES ASSUME NEW m \in o + 1 + 1 .. o + 1 + width PROVE new[m] = Blank
    BY <1>1, <1>5
  <2> DEFINE k == m - (o + 1)
  <2>1. k \in 1 .. width /\ o + 1 + k = m
    BY <1>1
  <2> HIDE DEF k
  <2> QED
    BY <1>8, <2>1
<1>12. \A n \in DOMAIN new : new[n] = Newline =>
         Len(new) = n + width + 1 /\ \A m \in n + 1 .. Len(new) - 1 : new[m] = Blank
  <2> SUFFICES ASSUME NEW n \in 1 .. o + 1 + width + 1, new[n] = Newline
               PROVE  Len(new) = n + width + 1
                      /\ \A m \in n + 1 .. Len(new) - 1 : new[m] = Blank
    BY <1>7
  <2>1. n = o + 1
    BY <1>10
  <2>2. Len(new) = n + width + 1
    BY <1>1, <1>5, <2>1
  <2> QED
    BY <1>11, <2>1, <2>2
<1>13. Aligned(new, depth)
  BY <1>12 DEF Aligned, width
<1> QED
  BY <1>13 DEF new, indented, line, i

\* What a writer puts out is the text with its delimiter, but for blanks.
LEMMA SpreadCopies ==
    ASSUME NEW d, d \notin Blanks, NEW delimiter, delimiter = <<>> \/ delimiter = <<d>>,
           NEW l, l \notin Blanks, NEW depth \in Nat,
           NEW out, Spread(out, delimiter, depth)
    PROVE  /\ WithoutBlanks(out \o <<l>>, delimiter \o <<l>>)
           /\ Aligned(out \o <<l>>, depth)
<1> DEFINE S == {d, l, Blank, Newline}
<1>1. d \in S /\ l \in S /\ Blank \in S /\ Newline \in S /\ d # Newline /\ l # Newline
      /\ Blank # Newline /\ Blank \in Blanks /\ Newline \in Blanks
  BY TheBlanks
<1> HIDE DEF S
<1>2. delimiter \in Seq(S) /\ WithoutBlanks(delimiter, delimiter) /\ Plain(delimiter)
  <2> DEFINE none == <<>>
  <2>1. none \in Seq(S) /\ Plain(none)
    BY DEF Plain
  <2>2. none \o <<d>> = <<d>>
    OBVIOUS
  <2>3. WithoutBlanks(none, none)
    BY NoText
  <2>4. delimiter = none \/ delimiter = none \o <<d>>
    BY <2>2
  <2> HIDE DEF none
  <2>5. none \o <<d>> \in Seq(S)
    BY <1>1, <2>1, AppendedOne
  <2>6. WithoutBlanks(none \o <<d>>, none \o <<d>>)
    BY <1>1, <2>1, <2>3, TextGrows
  <2>7. Plain(none \o <<d>>)
    BY <1>1, <2>1, PlainGrows
  <2> QED
    BY <2>1, <2>3, <2>4, <2>5, <2>6, <2>7
<1>3. CASE out = delimiter
  <2>1. WithoutBlanks(delimiter \o <<l>>, delimiter \o <<l>>)
    BY <1>1, <1>2, TextGrows
  <2>2. delimiter \o <<l>> \in Seq(S) /\ Plain(delimiter \o <<l>>)
    BY <1>1, <1>2, AppendedOne, PlainGrows
  <2> QED
    BY <1>3, <2>1, <2>2, PlainAligned
<1>4. CASE out = delimiter \o <<Blank>>
  <2>1. out \in Seq(S) /\ Plain(out)
    BY <1>1, <1>2, <1>4, AppendedOne, PlainGrows
  <2>2. WithoutBlanks(out, delimiter)
    <3> DEFINE b == <<Blank>>
    <3>1. b \in Seq(S) /\ \A n \in 1 .. Len(b) : b[n] \in Blanks
      BY <1>1
    <3>2. out = delimiter \o b
      BY <1>4
    <3> HIDE DEF b
    <3> QED
      BY <1>2, <3>1, <3>2, BlanksGrow
  <2>3. WithoutBlanks(out \o <<l>>, delimiter \o <<l>>)
    BY <1>1, <1>2, <2>1, <2>2, TextGrows
  <2>4. out \o <<l>> \in Seq(S) /\ Plain(out \o <<l>>)
    BY <1>1, <2>1, AppendedOne, PlainGrows
  <2> QED
    BY <2>3, <2>4, PlainAligned
<1>5. CASE out = (delimiter \o <<Newline>>) \o Indent(depth)
  <2> DEFINE line == delimiter \o <<Newline>>
             i == Indent(depth)
  <2>1. line \in Seq(S)
    BY <1>1, <1>2, AppendedOne
  <2>2. WithoutBlanks(line, delimiter)
    <3> DEFINE b == <<Newline>>
    <3>1. b \in Seq(S) /\ \A n \in 1 .. Len(b) : b[n] \in Blanks
      BY <1>1
    <3>2. line = delimiter \o b
      OBVIOUS
    <3> HIDE DEF b, line
    <3> QED
      BY <1>2, <3>1, <3>2, BlanksGrow
  <2>3. i \in Seq(S) /\ \A n \in 1 .. Len(i) : i[n] \in Blanks
    <3>1. i \in Seq(S) /\ \A n \in 1 .. Len(i) : i[n] = Blank
      BY <1>1, Indents
    <3> HIDE DEF i
    <3> QED
      BY <1>1, <3>1
  <2>4. Aligned((line \o i) \o <<l>>, depth)
    BY <1>1, <1>2, LineAligned
  <2> HIDE DEF line, i
  <2>5. out = line \o i
    BY <1>5 DEF line, i
  <2>6. WithoutBlanks(out, delimiter) /\ out \in Seq(S)
    BY <1>2, <2>1, <2>2, <2>3, <2>5, BlanksGrow, Appended
  <2>7. WithoutBlanks(out \o <<l>>, delimiter \o <<l>>)
    BY <1>1, <1>2, <2>6, TextGrows
  <2> QED
    BY <2>4, <2>5, <2>7
<1> QED
  BY <1>3, <1>4, <1>5 DEF Spread
-----------------------------------------------------------------------------
(* The levels of a writer that hears what the parser reads.                *)

\* Names count in an object, values everywhere.
ValuesIn(kind, read, count) ==
    IF kind = "array" THEN Total(read, count)
    ELSE 2 * Total(read, count) + (IF Named(read) THEN 1 ELSE 0)
LevelOf(f) == Leveled(ValuesIn(f.kind, f.read, f.count), InArray(f.kind))
LevelAs == [f \in Frames |-> LevelOf(f)]
Levels(frames) == Each(LevelAs, frames)

LEMMA Counts ==
    ASSUME NEW kind, NEW read, NEW count \in Nat
    PROVE  /\ Total(read, count) \in Nat /\ ValuesIn(kind, read, count) \in Nat
           /\ InArray(kind) \in BOOLEAN
<1>1. Total(read, count) \in Nat
  BY DEF Total
<1>2. ValuesIn(kind, read, count) \in Nat
  <2> DEFINE more == IF Named(read) THEN 1 ELSE 0
  <2>1. more \in Nat
    OBVIOUS
  <2>2. ValuesIn(kind, read, count) =
          IF kind = "array" THEN Total(read, count) ELSE 2 * Total(read, count) + more
    BY Zenon DEF ValuesIn
  <2> HIDE DEF more
  <2> QED
    BY <1>1, <2>1, <2>2
<1>3. InArray(kind) \in BOOLEAN
  BY Truths DEF InArray
<1> QED
  BY <1>1, <1>2, <1>3

LEMMA LevelFunction == LevelAs \in [Frames -> Levelings]
<1> SUFFICES ASSUME NEW f \in Frames PROVE LevelOf(f) \in Levelings
  BY DEF LevelAs
<1>1. f.count \in Nat
  BY DEF Frames
<1> DEFINE n == ValuesIn(f.kind, f.read, f.count)
           a == InArray(f.kind)
<1>2. n \in Nat /\ a \in BOOLEAN
  BY <1>1, Counts
<1> HIDE DEF n, a
<1>3. Leveled(n, a) \in Levelings
  BY <1>2 DEF Leveled, Levelings
<1> QED
  BY <1>3 DEF LevelOf, n, a

LEMMA LevelReading ==
    ASSUME NEW kind, NEW read, NEW count, Sound(kind, read, count)
    PROVE  LevelAs[Reading(kind, read, count)] =
             Leveled(ValuesIn(kind, read, count), InArray(kind))
<1> DEFINE f == Reading(kind, read, count)
<1>1. f.kind = kind /\ f.read = read /\ f.count = count
  BY ReadingFields
<1>2. f \in Frames
  BY DEF Sound
<1> HIDE DEF f
<1>3. LevelAs[f] = LevelOf(f)
  BY <1>2, Zenon DEF LevelAs
<1> QED
  BY <1>1, <1>3, Zenon DEF LevelOf, f

LEMMA LevelsTop ==
    ASSUME NEW frames, Nested(frames), frames # <<>>,
           NEW kind, NEW read, NEW count, Sound(kind, read, count)
    PROVE  Levels(Top(frames, Reading(kind, read, count))) =
             Top(Levels(frames), Leveled(ValuesIn(kind, read, count), InArray(kind)))
<1> DEFINE f == Reading(kind, read, count)
<1>1. f \in Frames /\ frames \in Seq(Frames)
  BY DEF Sound, Nested
<1>2. LevelAs[f] = Leveled(ValuesIn(kind, read, count), InArray(kind))
  BY LevelReading
<1> HIDE DEF f
<1>3. Each(LevelAs, Top(frames, f)) = Top(Each(LevelAs, frames), LevelAs[f])
  BY <1>1, LevelFunction, EachTop
<1> QED
  BY <1>2, <1>3 DEF f, Levels

LEMMA LevelsPushed ==
    ASSUME NEW frames, frames \in Seq(Frames), NEW kind \in {"object", "array"}
    PROVE  Levels(Pushed(frames, Reading(kind, "begin", 0))) =
             Pushed(Levels(frames), Leveled(0, InArray(kind)))
<1> DEFINE f == Reading(kind, "begin", 0)
<1>1. Sound(kind, "begin", 0)
  BY SoundFields DEF ObjectReads, ArrayReads
<1>2. ValuesIn(kind, "begin", 0) = 0
  <2>1. Total("begin", 0) = 0 /\ ~Named("begin")
    BY NamedReads, Truths DEF Total
  <2> QED
    BY <2>1 DEF ValuesIn
<1>3. f \in Frames
  BY <1>1 DEF Sound
<1>4. LevelAs[f] = Leveled(0, InArray(kind))
  BY <1>1, <1>2, LevelReading
<1> HIDE DEF f
<1>5. Each(LevelAs, Pushed(frames, f)) = Pushed(Each(LevelAs, frames), LevelAs[f])
  BY <1>3, LevelFunction, EachPushed
<1> QED
  BY <1>4, <1>5 DEF f, Levels

LEMMA LevelsFront ==
    ASSUME NEW frames, Nested(frames), frames # <<>>
    PROVE  Levels(Front(frames)) = Front(Levels(frames))
<1>1. frames \in Seq(Frames)
  BY DEF Nested
<1> QED
  BY <1>1, LevelFunction, EachFront DEF Levels

LEMMA LevelsEmpty ==
    ASSUME NEW frames, Nested(frames)
    PROVE  /\ Levels(frames) \in Seq(Levelings) /\ Len(Levels(frames)) = Len(frames)
           /\ Levels(frames) = <<>> <=> frames = <<>>
<1>1. frames \in Seq(Frames)
  BY DEF Nested
<1>2. Levels(frames) \in Seq(Levelings) /\ Len(Levels(frames)) = Len(frames)
  BY <1>1, LevelFunction DEF Levels, Each
<1> DEFINE levels == Levels(frames)
<1> HIDE DEF levels
<1>3. levels = <<>> <=> frames = <<>>
  BY <1>1, <1>2 DEF levels
<1> QED
  BY <1>2, <1>3 DEF levels

\* The innermost level is that of the innermost call.
LEMMA LevelCounts ==
    ASSUME NEW frames, Nested(frames), NEW kind, NEW read, NEW count,
           Called(frames, kind, read, count)
    PROVE  Counting(Levels(frames), ValuesIn(kind, read, count), InArray(kind))
<1> DEFINE levels == Levels(frames)
<1>1. Sound(kind, read, count) /\ frames # <<>> /\ frames[Len(frames)] = Reading(kind, read, count)
  BY DEF Called
<1>2. count \in Nat
  BY <1>1, SoundFields
<1>3. ValuesIn(kind, read, count) \in Nat /\ InArray(kind) \in BOOLEAN
  BY <1>2, Counts
<1>4. levels \in Seq(Levelings) /\ levels # <<>> /\ Len(levels) = Len(frames)
  BY <1>1, LevelsEmpty
<1>5. levels[Len(frames)] = Leveled(ValuesIn(kind, read, count), InArray(kind))
  <2>1. Len(frames) \in 1 .. Len(frames)
    BY <1>1 DEF Nested
  <2>2. LevelAs[frames[Len(frames)]] = Leveled(ValuesIn(kind, read, count), InArray(kind))
    BY <1>1, LevelReading
  <2>3. levels[Len(frames)] = LevelAs[frames[Len(frames)]]
    BY <2>1 DEF Levels, Each
  <2> QED
    BY <2>2, <2>3
<1> HIDE DEF levels
<1>6. Counting(levels, ValuesIn(kind, read, count), InArray(kind))
  BY <1>3, <1>4, <1>5 DEF Counting
<1> QED
  BY <1>6 DEF levels

\* The delimiter a call waits behind.
Before(read) == IF read \in {Comma, Colon} THEN <<read>> ELSE <<>>

LEMMA WaitingReads ==
    ASSUME NEW kind, NEW read, NEW l
    PROVE  /\ ValueComesNext(kind, read, l) =>
                \/ kind = "object" /\ read = Colon
                \/ kind = "array" /\ read \in {"begin", Comma}
           /\ NameComesNext(kind, read, l) => kind = "object" /\ read \in {"begin", Comma}
           /\ Before("begin") = <<>> /\ Before("value") = <<>>
           /\ Before(Comma) = <<Comma>> /\ Before(Colon) = <<Colon>>
<1>1. ValueComesNext(kind, read, l) =>
        \/ kind = "object" /\ read = Colon
        \/ kind = "array" /\ read \in {"begin", Comma}
  BY Zenon DEF ValueComesNext, Comma, Colon
<1>2. NameComesNext(kind, read, l) => kind = "object" /\ read \in {"begin", Comma}
  BY Zenon DEF NameComesNext, Comma
<1>3. "begin" \notin {Comma, Colon} /\ "value" \notin {Comma, Colon}
  BY Zenon DEF Comma, Colon
<1>4. Before("begin") = <<>> /\ Before("value") = <<>>
      /\ Before(Comma) = <<Comma>> /\ Before(Colon) = <<Colon>>
  BY <1>3 DEF Before
<1> QED
  BY <1>1, <1>2, <1>4

\* It is the one the writer puts out, and the level is counted on.
LEMMA LevelsAgree ==
    ASSUME NEW kind, NEW read, NEW count, Sound(kind, read, count), NEW l,
           NEW what, \/ ValueComesNext(kind, read, l) /\ what = "value"
                     \/ NameComesNext(kind, read, l) /\ what = "name" /\ l = "string"
    PROVE  LET n == ValuesIn(kind, read, count)
               a == InArray(kind)
           IN  /\ Separated(n, a) = Before(read)
               /\ Unnamed(n, a) => l = "string"
               /\ ValuesIn(kind, what, count) = n + 1
<1> DEFINE n == ValuesIn(kind, read, count)
           a == InArray(kind)
           m == ValuesIn(kind, what, count)
<1>1. count \in Nat /\ (read = "begin" => count = 0)
  BY SoundFields
<1>2. read = Comma => count # 0
  BY SoundFields, Zenon DEF Comma
<1>3. Before("begin") = <<>> /\ Before(Comma) = <<Comma>> /\ Before(Colon) = <<Colon>>
  BY WaitingReads
<1>4. /\ Total(Comma, count) = count /\ Total(Colon, count) = count
      /\ Total("value", count) = count + 1 /\ Total("name", count) = count
      /\ Total("begin", count) = count
  BY Totals DEF Total
<1>5. /\ Named("name") /\ Named(Colon)
      /\ ~Named("begin") /\ ~Named(Comma) /\ ~Named("value")
  BY NamedReads, Truths
<1>6. ASSUME kind = "array", read \in {"begin", Comma}, what = "value"
      PROVE  Separated(n, a) = Before(read) /\ (Unnamed(n, a) => l = "string") /\ m = n + 1
  <2>1. a = Yes /\ n = count /\ m = count + 1
    BY <1>4, <1>6 DEF InArray, ValuesIn
  <2> HIDE DEF a, n, m
  <2>2. ~Unnamed(n, a) /\ Separator(n, a) = Comma
    BY <2>1, Truths DEF Unnamed, Separator
  <2>3. CASE read = "begin"
    BY <1>1, <1>3, <2>1, <2>2, <2>3 DEF Separated
  <2>4. CASE read = Comma
    BY <1>2, <1>3, <2>1, <2>2, <2>4 DEF Separated
  <2> QED
    BY <1>6, <2>3, <2>4
<1>7. ASSUME kind = "object", read = Colon, what = "value"
      PROVE  Separated(n, a) = Before(read) /\ (Unnamed(n, a) => l = "string") /\ m = n + 1
  <2>1. a = No /\ n = 2 * count + 1 /\ m = 2 * (count + 1)
    BY <1>1, <1>4, <1>5, <1>7 DEF InArray, ValuesIn
  <2> HIDE DEF a, n, m
  <2>2. n % 2 = 1 /\ n # 0 /\ m = n + 1
    BY <1>1, <2>1
  <2>3. ~Unnamed(n, a) /\ Separator(n, a) = Colon
    BY <2>1, <2>2, Truths DEF Unnamed, Separator
  <2> QED
    BY <1>3, <1>7, <2>2, <2>3 DEF Separated
<1>8. ASSUME kind = "object", read \in {"begin", Comma}, what = "name", l = "string"
      PROVE  Separated(n, a) = Before(read) /\ (Unnamed(n, a) => l = "string") /\ m = n + 1
  <2>1. a = No /\ n = 2 * count /\ m = 2 * count + 1
    BY <1>1, <1>4, <1>5, <1>8 DEF InArray, ValuesIn
  <2> HIDE DEF a, n, m
  <2>2. n % 2 = 0 /\ m = n + 1 /\ (n = 0 <=> count = 0)
    BY <1>1, <2>1
  <2>3. Separator(n, a) = Comma
    BY <2>1, <2>2, Truths DEF Unnamed, Separator
  <2>4. CASE read = "begin"
    BY <1>1, <1>3, <1>8, <2>2, <2>4 DEF Separated
  <2>5. CASE read = Comma
    BY <1>2, <1>3, <1>8, <2>2, <2>3, <2>5 DEF Separated
  <2> QED
    BY <1>8, <2>4, <2>5
<1>9. \/ kind = "object" /\ read = Colon /\ what = "value"
      \/ kind = "array" /\ read \in {"begin", Comma} /\ what = "value"
      \/ kind = "object" /\ read \in {"begin", Comma} /\ what = "name" /\ l = "string"
  BY WaitingReads
<1> QED
  BY <1>6, <1>7, <1>8, <1>9

LEMMA CloseAgrees ==
    ASSUME NEW kind, NEW read, NEW count, Sound(kind, read, count), NEW l,
           MayClose(kind, read, l), kind = "object"
    PROVE  ValuesIn(kind, read, count) % 2 = 0
<1>1. count \in Nat
  BY SoundFields
<1>2. Total(read, count) \in Nat
  BY <1>1, Counts
<1>3. ~Named(read)
  BY CloseCounts, Truths
<1>4. ValuesIn(kind, read, count) = 2 * Total(read, count)
  BY <1>2, <1>3 DEF ValuesIn
<1> DEFINE n == Total(read, count)
<1> HIDE DEF n
<1>5. (2 * n) % 2 = 0
  BY <1>2 DEF n
<1> QED
  BY <1>4, <1>5 DEF n

\* What comes before a lexeme, and the level it is on.
Delimited(frames, l) ==
    IF frames # <<>> /\ ~Closing(l) THEN Before(frames[Len(frames)].read) ELSE <<>>
Opening(l) == l \in {"{", "["}
Deep(new, l) == IF Opening(l) THEN Len(new) - 1 ELSE Len(new)
Reached(levels, l) ==
    IF Opening(l) THEN Pushed(levels, Leveled(0, InArray(Kind(l)))) ELSE levels

LEMMA TakesLevels ==
    ASSUME NEW l, NEW base, Nested(base), NEW new, NEW event, Takes(l, base, new, event)
    PROVE  /\ ~Closing(l) /\ Deep(new, l) = Len(base) /\ Len(base) \in Nat
           /\ Levels(new) = Reached(Levels(base), l)
<1>1. base \in Seq(Frames) /\ Len(base) \in Nat
  BY DEF Nested
<1>2. CASE IsScalar(l) /\ new = base
  <2>1. l \in {"null", "true", "false", "number", "string"}
    BY <1>2, ScalarLexemes DEF IsScalar
  <2>2. ~Closing(l)
    BY <2>1, Zenon DEF Closing
  <2>3. ~Opening(l)
    BY <2>1 DEF Opening
  <2>4. Deep(new, l) = Len(base)
    BY <1>2, <2>3, Zenon DEF Deep
  <2>5. Levels(new) = Reached(Levels(base), l)
    BY <1>2, <2>3, Zenon DEF Reached
  <2> QED
    BY <1>1, <2>2, <2>4, <2>5
<1>3. CASE l \in {"{", "["} /\ new = Pushed(base, Reading(Kind(l), "begin", 0))
  <2>1. ~Closing(l)
    BY <1>3, Zenon DEF Closing
  <2>2. Kind(l) \in {"object", "array"}
    BY Zenon DEF Kind
  <2>3. Levels(new) = Pushed(Levels(base), Leveled(0, InArray(Kind(l))))
    BY <1>1, <1>3, <2>2, LevelsPushed
  <2>4. Len(new) = Len(base) + 1
    <3> DEFINE f == Reading(Kind(l), "begin", 0)
    <3> HIDE DEF f
    <3>1. Len(Pushed(base, f)) = Len(base) + 1
      BY <1>1 DEF Pushed
    <3> QED
      BY <1>3, <3>1 DEF f
  <2>5. Opening(l)
    BY <1>3, Zenon DEF Opening
  <2>6. Len(new) - 1 = Len(base)
    BY <1>1, <2>4
  <2>7. Deep(new, l) = Len(base)
    BY <2>5, <2>6, Zenon DEF Deep
  <2>8. Levels(new) = Reached(Levels(base), l)
    BY <2>3, <2>5, Zenon DEF Reached
  <2> QED
    BY <1>1, <2>1, <2>7, <2>8
<1> QED
  BY <1>2, <1>3, Zenon DEF Takes

\* Both writers write what is heard, and have the levels of the calls again.
LEMMA HeardWrites ==
    ASSUME NEW frames, Nested(frames), NEW root, frames # <<>> => root = Yes,
           NEW l, NEW new, NEW event, Hears(frames, root, l, new, event),
           NEW out, NEW flushed, NEW singleLineArray
    PROVE  LET w == Writing(Levels(frames), root, out, flushed, No)
           IN  /\ Deep(new, l) \in Nat
               /\ Written(Write(w, l), Levels(new), l, Delimited(frames, l), Deep(new, l))
               /\ Written(PrettyWrite(w, l, singleLineArray), Levels(new), l,
                          Delimited(frames, l), Deep(new, l))
<1> DEFINE w == Writing(Levels(frames), root, out, flushed, No)
           Goal == /\ Deep(new, l) \in Nat
                   /\ Written(Write(w, l), Levels(new), l, Delimited(frames, l), Deep(new, l))
                   /\ Written(PrettyWrite(w, l, singleLineArray), Levels(new), l,
                              Delimited(frames, l), Deep(new, l))
<1>1. CASE frames = <<>> /\ root = No /\ Takes(l, frames, new, event)
  <2>1. Levels(frames) = <<>> /\ Delimited(frames, l) = <<>> /\ Len(frames) = 0
    BY <1>1, LevelsEmpty DEF Delimited
  <2>2. /\ ~Closing(l) /\ Deep(new, l) = Len(frames)
        /\ Levels(new) = Reached(Levels(frames), l)
    BY <1>1, TakesLevels
  <2> DEFINE none == <<>>
             v == Writing(none, No, out, flushed, No)
             next == Reached(none, l)
  <2>3. /\ Written(Write(v, l), next, l, none, 0)
        /\ Written(PrettyWrite(v, l, singleLineArray), next, l, none, 0)
    BY <2>2, RootWrites, Zenon DEF Reached, Opening
  <2>4. Levels(frames) = none /\ Delimited(frames, l) = none
    BY <2>1
  <2> HIDE DEF none
  <2>5. w = v
    BY <1>1, <2>4, Zenon
  <2>6. Levels(new) = next
    BY <2>2, <2>4, Zenon
  <2>7. Deep(new, l) = 0
    BY <2>1, <2>2
  <2> HIDE DEF w, v, next
  <2>8. Goal
    BY <2>3, <2>4, <2>5, <2>6, <2>7
  <2> QED
    BY <2>8, Zenon DEF Goal, w
<1>2. ASSUME NEW kind, NEW read, NEW count, Called(frames, kind, read, count)
      PROVE  /\ frames # <<>> /\ root = Yes /\ Sound(kind, read, count)
             /\ Counting(Levels(frames), ValuesIn(kind, read, count), InArray(kind))
             /\ Len(Levels(frames)) = Len(frames) /\ Len(frames) \in Nat
             /\ frames[Len(frames)].read = read
  <2>1. /\ frames # <<>> /\ Sound(kind, read, count)
        /\ frames[Len(frames)] = Reading(kind, read, count)
    BY <1>2 DEF Called
  <2>2. Counting(Levels(frames), ValuesIn(kind, read, count), InArray(kind))
    BY <1>2, LevelCounts
  <2>3. Len(Levels(frames)) = Len(frames) /\ Len(frames) \in Nat
    BY LevelsEmpty DEF Nested
  <2> QED
    BY <2>1, <2>2, <2>3, ReadingFields
<1>3. CASE TakesInCall(frames, l, new, event)
  <2>1. PICK kind, read, count :
          /\ Called(frames, kind, read, count) /\ ValueComesNext(kind, read, l)
          /\ Takes(l, Top(frames, Reading(kind, "value", count)), new, event)
    BY <1>3, Zenon DEF TakesInCall
  <2> DEFINE n == ValuesIn(kind, read, count)
             a == InArray(kind)
             base == Top(frames, Reading(kind, "value", count))
             top == Top(Levels(frames), Leveled(n + 1, a))
  <2>2. /\ frames # <<>> /\ root = Yes /\ Sound(kind, read, count)
        /\ Counting(Levels(frames), n, a)
        /\ Len(Levels(frames)) = Len(frames) /\ frames[Len(frames)].read = read
        /\ Len(frames) \in Nat
    BY <1>2, <2>1
  <2>3. /\ Separated(n, a) = Before(read) /\ (Unnamed(n, a) => l = "string")
        /\ ValuesIn(kind, "value", count) = n + 1
    BY <2>1, <2>2, LevelsAgree
  <2>4. Sound(kind, "value", count)
    BY <2>2, SoundFields DEF ObjectReads, ArrayReads
  <2>5. Nested(base) /\ Levels(base) = top
    BY <2>2, <2>3, <2>4, TopNested, LevelsTop
  <2>6. Len(base) = Len(frames)
    <3> DEFINE f == Reading(kind, "value", count)
    <3> HIDE DEF f
    <3>1. Len(Top(frames, f)) = Len(frames)
      BY DEF Top, Nested
    <3> QED
      BY <3>1 DEF f
  <2> HIDE DEF n, a
  <2>7. /\ ~Closing(l) /\ Deep(new, l) = Len(base)
        /\ Levels(new) = Reached(top, l)
    <3> HIDE DEF base, top
    <3>1. Takes(l, base, new, event)
      BY <2>1 DEF base
    <3> QED
      BY <2>5, <3>1, TakesLevels
  <2>8. Delimited(frames, l) = Separated(n, a)
    BY <2>2, <2>3, <2>7 DEF Delimited
  <2> DEFINE v == Writing(Levels(frames), Yes, out, flushed, No)
             next == Reached(top, l)
  <2>9. /\ Written(Write(v, l), next, l, Separated(n, a), Len(Levels(frames)))
        /\ Written(PrettyWrite(v, l, singleLineArray), next, l, Separated(n, a),
                   Len(Levels(frames)))
    BY <2>2, <2>3, <2>7, ValueWrites, Zenon DEF Reached, Opening
  <2>10. w = v
    BY <2>2, Zenon
  <2>11. Levels(new) = next
    BY <2>7, Zenon
  <2>12. Deep(new, l) = Len(Levels(frames)) /\ Deep(new, l) \in Nat
    <3> HIDE DEF top, base
    <3> QED
      BY <2>2, <2>6, <2>7
  <2> HIDE DEF w, v, next, top
  <2>13. Goal
    BY <2>8, <2>9, <2>10, <2>11, <2>12
  <2> QED
    BY <2>13, Zenon DEF Goal, w
<1>4. CASE Names(frames, l, new, event)
  <2>1. PICK kind, read, count :
          /\ Called(frames, kind, read, count) /\ NameComesNext(kind, read, l)
          /\ l = "string" /\ new = Top(frames, Reading(kind, "name", count))
    BY <1>4, Zenon DEF Names
  <2> DEFINE n == ValuesIn(kind, read, count)
             a == InArray(kind)
             top == Top(Levels(frames), Leveled(n + 1, a))
  <2>2. /\ frames # <<>> /\ root = Yes /\ Sound(kind, read, count)
        /\ Counting(Levels(frames), n, a)
        /\ Len(Levels(frames)) = Len(frames) /\ frames[Len(frames)].read = read
        /\ Len(frames) \in Nat
    BY <1>2, <2>1
  <2>3. /\ Separated(n, a) = Before(read) /\ ValuesIn(kind, "name", count) = n + 1
    BY <2>1, <2>2, LevelsAgree
  <2>4. Sound(kind, "name", count)
    <3>1. kind = "object"
      BY <2>1, NameCounts
    <3> QED
      BY <2>2, <3>1, SoundFields DEF ObjectReads
  <2>5. Levels(new) = top
    BY <2>1, <2>2, <2>3, <2>4, LevelsTop
  <2>6. Len(new) = Len(frames)
    <3> DEFINE f == Reading(kind, "name", count)
    <3> HIDE DEF f
    <3>1. Len(Top(frames, f)) = Len(frames)
      BY DEF Top, Nested
    <3> QED
      BY <2>1, <3>1 DEF f
  <2> HIDE DEF n, a
  <2>7. ~Closing(l) /\ ~Opening(l)
    BY <2>1, Zenon DEF Closing, Opening
  <2>8. Delimited(frames, l) = Separated(n, a)
    BY <2>2, <2>3, <2>7 DEF Delimited
  <2> DEFINE v == Writing(Levels(frames), Yes, out, flushed, No)
             next == Reached(top, l)
  <2>9. /\ Written(Write(v, l), next, l, Separated(n, a), Len(Levels(frames)))
        /\ Written(PrettyWrite(v, l, singleLineArray), next, l, Separated(n, a),
                   Len(Levels(frames)))
    BY <2>1, <2>2, <2>7, ValueWrites, Zenon DEF Reached, Opening
  <2>10. w = v
    BY <2>2, Zenon
  <2>11. Levels(new) = next
    BY <2>5, <2>7, Zenon DEF Reached
  <2>12. Deep(new, l) = Len(Levels(frames)) /\ Deep(new, l) \in Nat
    <3>1. Deep(new, l) = Len(new)
      BY <2>7, Zenon DEF Deep
    <3> QED
      BY <2>2, <2>6, <3>1
  <2> HIDE DEF w, v, next, top
  <2>13. Goal
    BY <2>8, <2>9, <2>10, <2>11, <2>12
  <2> QED
    BY <2>13, Zenon DEF Goal, w
<1>5. CASE Closes(frames, l, new, event)
  <2>1. PICK kind, read, count :
          /\ Called(frames, kind, read, count) /\ MayClose(kind, read, l)
          /\ new = Front(frames)
    BY <1>5, Zenon DEF Closes
  <2> DEFINE n == ValuesIn(kind, read, count)
  <2>2. /\ frames # <<>> /\ root = Yes /\ Sound(kind, read, count)
        /\ Counting(Levels(frames), n, InArray(kind))
        /\ Len(Levels(frames)) = Len(frames)
    BY <1>2, <2>1
  <2>3. kind \in {"object", "array"} /\ (kind = "object" => n % 2 = 0)
    BY <2>1, <2>2, CloseAgrees, SoundFields
  <2>4. l = Bracket(kind)
    BY <2>1 DEF MayClose
  <2>5. Levels(new) = Front(Levels(frames))
    BY <2>1, <2>2, LevelsFront
  <2>6. Len(new) = Len(frames) - 1 /\ Len(frames) \in Nat \ {0}
    BY <2>1, <2>2, FrontSeq DEF Nested
  <2>7. Closing(l) /\ ~Opening(l)
    BY <2>4, Zenon DEF Closing, Opening, Bracket
  <2> DEFINE none == <<>>
  <2>8. Delimited(frames, l) = none
    BY <2>7 DEF Delimited
  <2> HIDE DEF n
  <2> DEFINE v == Writing(Levels(frames), Yes, out, flushed, No)
             next == Front(Levels(frames))
  <2>9. /\ Written(Write(v, l), next, l, none, Len(Levels(frames)) - 1)
        /\ Written(PrettyWrite(v, l, singleLineArray), next, l, none,
                   Len(Levels(frames)) - 1)
    BY <2>2, <2>3, <2>4, CloseWrites
  <2> HIDE DEF none
  <2>10. w = v
    BY <2>2, Zenon
  <2>11. Levels(new) = next
    BY <2>5, Zenon
  <2>12. Deep(new, l) = Len(Levels(frames)) - 1 /\ Deep(new, l) \in Nat
    <3>1. Deep(new, l) = Len(new)
      BY <2>7, Zenon DEF Deep
    <3> QED
      BY <2>2, <2>6, <3>1
  <2> HIDE DEF w, v, next
  <2>13. Goal
    BY <2>8, <2>9, <2>10, <2>11, <2>12
  <2> QED
    BY <2>13, Zenon DEF Goal, w
<1> QED
  BY <1>1, <1>3, <1>4, <1>5 DEF Hears
-----------------------------------------------------------------------------
(* The writers copy the text.                                              *)

\* The text that an event stands for, with the lexeme before it.
Took(p) == p.event # NoEvent /\ p.error = "None"
TextOf(p, b, l) ==
    IF ~Took(p) THEN <<>>
    ELSE IF b \in {Comma, Colon} /\ ~Closing(l) THEN <<b, l>>
    ELSE <<l>>

\* What WritersCopy says of each writer, and of both.
Copies(w, p, text) ==
    /\ WithoutBlanks(w.out, text)
    /\ ~w.asserted
    /\ Took(p) /\ p.frames = <<>> => w.flushed
DepthOf(p, l) == Len(p.frames) - (IF l \in {"{", "["} THEN 1 ELSE 0)
Copied(w, q, p, b, l) ==
    /\ \A x \in {w, q} : Copies(x, p, TextOf(p, b, l))
    /\ Aligned(q.out, DepthOf(p, l))

\* The lexeme before is a delimiter when the innermost call has just read one.
JustRead(frames, b) ==
    \A d \in {Comma, Colon} :
      b = d <=> frames # <<>> /\ frames[Len(frames)].read = d

\* A writer that listens is in the levels of the calls, and has their counts.
Shaped(w) == w = Writing(w.level_stack, w.hasRoot, w.out, w.flushed, No)
Listens(w, p) == w = Writing(Levels(p.frames), p.root, w.out, w.flushed, No)
WriterInv ==
    /\ WritersCopy
    /\ Shaped(writer) /\ Shaped(pretty)
    /\ Running => /\ JustRead(recursive.frames, lexeme)
                  /\ Listens(writer, recursive) /\ Listens(pretty, recursive)

LEMMA CopySeen ==
    /\ WritersCopy = Copied(writer, pretty, recursive, before, lexeme)
    /\ WritersCopy' = Copied(writer', pretty', recursive', before', lexeme')
BY Zenon DEF WritersCopy, Expected, Accepted, Depth, Copied, Copies, TextOf, Took,
             DepthOf, Aligned, Closing, Comma, Colon, Newline, Blank

\* The levels and the root of a writer that listens.
LEMMA ListensFields ==
    ASSUME NEW w, NEW levels, NEW root, NEW out, NEW flushed,
           w = Writing(levels, root, out, flushed, No)
    PROVE  /\ w.level_stack = levels /\ w.hasRoot = root /\ w.out = out
           /\ w.flushed = flushed /\ w.asserted = No
           /\ Shaped(w) /\ ~w.asserted
BY WritingFields, Truths DEF Shaped

LEMMA WrittenCopies ==
    ASSUME NEW w, NEW levels, NEW l, l \notin Blanks, NEW depth \in Nat,
           NEW d, d \notin Blanks, NEW delimiter, delimiter = <<>> \/ delimiter = <<d>>,
           Written(w, levels, l, delimiter, depth)
    PROVE  /\ w = Writing(levels, Yes, w.out, w.flushed, No)
           /\ levels = <<>> => w.flushed = Yes
           /\ WithoutBlanks(w.out, delimiter \o <<l>>)
           /\ Aligned(w.out, depth)
<1>1. PICK out, flushed :
         /\ w = Writing(levels, Yes, out \o <<l>>, flushed, No)
         /\ Spread(out, delimiter, depth)
         /\ levels = <<>> => flushed = Yes
  BY Zenon DEF Written
<1>2. /\ WithoutBlanks(out \o <<l>>, delimiter \o <<l>>)
      /\ Aligned(out \o <<l>>, depth)
  BY <1>1, SpreadCopies
<1> DEFINE text == out \o <<l>>
           expected == delimiter \o <<l>>
<1> HIDE DEF text, expected
<1>3. w = Writing(levels, Yes, text, flushed, No)
  BY <1>1 DEF text
<1>4. w.out = text /\ w.flushed = flushed
  BY <1>3, WritingFields
<1>5. WithoutBlanks(w.out, expected) /\ Aligned(w.out, depth)
  BY <1>2, <1>4, Zenon DEF text, expected
<1> QED
  BY <1>1, <1>3, <1>4, <1>5, Zenon DEF expected

\* What comes before a lexeme in the calls is the lexeme that was read before it.
LEMMA DelimitedText ==
    ASSUME NEW frames, NEW b, JustRead(frames, b), NEW l, NEW p, Took(p)
    PROVE  /\ TextOf(p, b, l) = Delimited(frames, l) \o <<l>>
           /\ Delimited(frames, l) = <<>> \/ Delimited(frames, l) = <<Comma>>
              \/ Delimited(frames, l) = <<Colon>>
<1> DEFINE text == Delimited(frames, l)
<1>1. CASE b \in {Comma, Colon} /\ ~Closing(l)
  <2>1. frames # <<>> /\ frames[Len(frames)].read = b
    BY <1>1 DEF JustRead
  <2>2. text = <<b>>
    BY <1>1, <2>1 DEF Delimited, Before
  <2>3. TextOf(p, b, l) = <<b, l>>
    BY <1>1 DEF TextOf
  <2>4. <<b, l>> = <<b>> \o <<l>>
    OBVIOUS
  <2> HIDE DEF text
  <2> QED
    BY <1>1, <2>2, <2>3, <2>4 DEF text
<1>2. CASE ~(b \in {Comma, Colon} /\ ~Closing(l))
  <2>1. text = <<>>
    <3>1. CASE Closing(l)
      BY <3>1 DEF Delimited
    <3>2. CASE b \notin {Comma, Colon}
      <4>1. frames # <<>> => frames[Len(frames)].read \notin {Comma, Colon}
        BY <3>2 DEF JustRead
      <4> QED
        BY <4>1 DEF Delimited, Before
    <3> QED
      BY <1>2, <3>1, <3>2
  <2>2. TextOf(p, b, l) = <<l>>
    BY <1>2 DEF TextOf
  <2>3. <<>> \o <<l>> = <<l>>
    OBVIOUS
  <2> HIDE DEF text
  <2> QED
    BY <2>1, <2>2, <2>3 DEF text
<1> QED
  BY <1>1, <1>2

\* A lexeme that is heard is no delimiter, and leaves none behind.
LEMMA HeardBehind ==
    ASSUME NEW frames, Nested(frames), NEW root, NEW l, NEW new, NEW event,
           Hears(frames, root, l, new, event)
    PROVE  JustRead(new, l)
<1>1. l \notin {Comma, Colon}
  <2>1. ASSUME NEW base, Takes(l, base, new, event)
        PROVE  l \in {"null", "true", "false", "number", "string"} \/ l \in {"{", "["}
    BY <2>1, ScalarLexemes, Zenon DEF Takes, IsScalar
  <2>2. ASSUME Closes(frames, l, new, event)
        PROVE  l = "}" \/ l = "]"
    BY <2>2, Zenon DEF Closes, MayClose, Bracket
  <2>3. \/ l \in {"null", "true", "false", "number", "string"} \/ l \in {"{", "["}
        \/ l = "}" \/ l = "]"
    BY <2>1, <2>2, Zenon DEF Hears, TakesInCall, Names
  <2> QED
    BY <2>3, Zenon DEF Comma, Colon
<1>2. \A read \in {"begin", "value", "name"} : read \notin {Comma, Colon}
  BY Zenon DEF Comma, Colon
<1>3. ASSUME NEW base, Nested(base), Takes(l, base, new, event),
             base # <<>> => base[Len(base)].read = "value"
      PROVE  new # <<>> => new[Len(new)].read \in {"begin", "value"}
  <2>1. CASE new = base
    BY <1>3, <2>1
  <2>2. CASE new = Pushed(base, Reading(Kind(l), "begin", 0))
    <3>1. Kind(l) \in {"object", "array"}
      BY Zenon DEF Kind
    <3>2. new[Len(new)] = Reading(Kind(l), "begin", 0)
      BY <1>3, <2>2, <3>1, PushedNested
    <3> QED
      BY <3>2, ReadingFields
  <2> QED
    BY <1>3, <2>1, <2>2, Zenon DEF Takes
<1>4. new # <<>> => new[Len(new)].read \in {"begin", "value", "name"}
  <2>1. CASE frames = <<>> /\ Takes(l, frames, new, event)
    BY <1>3, <2>1
  <2>2. ASSUME NEW kind, NEW read, NEW count, Called(frames, kind, read, count),
               ValueComesNext(kind, read, l),
               Takes(l, Top(frames, Reading(kind, "value", count)), new, event)
        PROVE  new # <<>> => new[Len(new)].read \in {"begin", "value", "name"}
    <3> DEFINE base == Top(frames, Reading(kind, "value", count))
    <3>1. frames # <<>> /\ Sound(kind, "value", count)
      BY <2>2, SoundFields DEF Called, ObjectReads, ArrayReads
    <3>2. Nested(base) /\ base[Len(base)] = Reading(kind, "value", count)
      BY <3>1, TopNested
    <3> HIDE DEF base
    <3>3. base[Len(base)].read = "value"
      BY <3>2, ReadingFields
    <3>4. Takes(l, base, new, event)
      BY <2>2 DEF base
    <3> QED
      BY <1>3, <3>2, <3>3, <3>4
  <2>3. ASSUME NEW kind, NEW read, NEW count, Called(frames, kind, read, count),
               NameComesNext(kind, read, l), new = Top(frames, Reading(kind, "name", count))
        PROVE  new[Len(new)].read = "name"
    <3>1. kind = "object"
      BY <2>3, NameCounts
    <3>2. frames # <<>> /\ Sound(kind, "name", count)
      BY <2>3, <3>1, SoundFields DEF Called, ObjectReads
    <3>3. new[Len(new)] = Reading(kind, "name", count)
      BY <2>3, <3>2, TopNested
    <3> QED
      BY <3>3, ReadingFields
  <2>4. ASSUME NEW kind, NEW read, NEW count, Called(frames, kind, read, count),
               new = Front(frames), new # <<>>
        PROVE  new[Len(new)].read = "value"
    BY <2>4, FrontNested DEF Called
  <2> QED
    BY <2>1, <2>2, <2>3, <2>4, Zenon DEF Hears, TakesInCall, Names, Closes
<1> QED
  BY <1>1, <1>2, <1>4 DEF JustRead

\* A delimiter leaves the levels as they are.
LEMMA PassesKeeps ==
    ASSUME NEW frames, Nested(frames), NEW l, NEW new, Passes(frames, l, new)
    PROVE  Levels(new) = Levels(frames) /\ JustRead(new, l) /\ frames # <<>>
<1>1. PICK kind, read, count :
        /\ Called(frames, kind, read, count)
        /\ \/ /\ kind = "object" /\ read = "name" /\ l = Colon
              /\ new = Top(frames, Reading(kind, Colon, count))
           \/ /\ read = "value" /\ l = Comma
              /\ new = Top(frames, Reading(kind, Comma, count + 1))
  BY Zenon DEF Passes
<1>2. frames # <<>> /\ Sound(kind, read, count)
  BY <1>1 DEF Called
<1>3. Counting(Levels(frames), ValuesIn(kind, read, count), InArray(kind))
  BY <1>1, LevelCounts
<1>4. Top(Levels(frames), Leveled(ValuesIn(kind, read, count), InArray(kind))) = Levels(frames)
  <2> DEFINE levels == Levels(frames)
             e == Leveled(ValuesIn(kind, read, count), InArray(kind))
  <2>1. levels # <<>> /\ levels \in Seq(Levelings) /\ levels[Len(levels)] = e
    BY <1>3 DEF Counting
  <2> HIDE DEF levels, e
  <2>2. Last(levels) = e
    BY <2>1 DEF Last
  <2>3. Top(levels, e) = levels
    BY <2>1, <2>2, SameTop
  <2> QED
    BY <2>3 DEF levels, e
<1>5. ASSUME NEW next, NEW now, next \in {Comma, Colon}, l = next, Sound(kind, next, now),
             new = Top(frames, Reading(kind, next, now)),
             Total(next, now) = Total(read, count), Named(next) = Named(read)
      PROVE  Levels(new) = Levels(frames) /\ JustRead(new, l)
  <2>1. ValuesIn(kind, next, now) = ValuesIn(kind, read, count)
    BY <1>5 DEF ValuesIn
  <2>2. Levels(new) = Top(Levels(frames), Leveled(ValuesIn(kind, next, now), InArray(kind)))
    BY <1>2, <1>5, LevelsTop
  <2>3. new # <<>> /\ new[Len(new)] = Reading(kind, next, now)
    <3>1. Sound(kind, next, now) /\ new = Top(frames, Reading(kind, next, now))
      BY <1>5
    <3> QED
      BY <1>2, <3>1, TopNested
  <2>4. new[Len(new)].read = l
    BY <1>5, <2>3, ReadingFields
  <2>5. JustRead(new, l)
    BY <1>5, <2>3, <2>4 DEF JustRead
  <2> QED
    BY <1>4, <2>1, <2>2, <2>5
<1>6. ASSUME kind = "object", read = "name", l = Colon,
             new = Top(frames, Reading(kind, Colon, count))
      PROVE  Levels(new) = Levels(frames) /\ JustRead(new, l)
  <2>1. Sound(kind, Colon, count)
    BY <1>2, <1>6, ColonSound
  <2>2. Total(Colon, count) = Total(read, count) /\ Named(Colon) = Named(read)
    BY <1>6, Totals, NamedReads
  <2> QED
    BY <1>5, <1>6, <2>1, <2>2
<1>7. ASSUME read = "value", l = Comma, new = Top(frames, Reading(kind, Comma, count + 1))
      PROVE  Levels(new) = Levels(frames) /\ JustRead(new, l)
  <2> DEFINE now == count + 1
  <2>1. Sound(kind, Comma, now)
    BY <1>2, CommaSound
  <2>2. Total(Comma, now) = Total(read, count) /\ Named(Comma) = Named(read)
    BY <1>7, Totals, NamedReads
  <2> HIDE DEF now
  <2>3. new = Top(frames, Reading(kind, Comma, now))
    BY <1>7 DEF now
  <2> QED
    BY <1>5, <1>7, <2>1, <2>2, <2>3
<1> QED
  BY <1>1, <1>2, <1>6, <1>7

\* Where nothing is heard, nothing is written.
LEMMA SilentWrites ==
    ASSUME NEW levels, NEW root, NEW out, NEW flushed, NEW p, ~Took(p), NEW next
    PROVE  Writes(p, Writing(levels, root, out, flushed, No), next) =
             Writing(levels, root, <<>>, flushed, No)
<1> DEFINE w == Writing(levels, root, out, flushed, No)
<1>1. [w EXCEPT !.out = <<>>] = Writing(levels, root, <<>>, flushed, No)
  BY Emptied
<1> HIDE DEF w
<1>2. Writes(p, w, next) = [w EXCEPT !.out = <<>>]
  BY Zenon DEF Writes, Took
<1>3. Writes(p, w, next) = Writing(levels, root, <<>>, flushed, No)
  BY <1>1, <1>2, Zenon
<1> QED
  BY <1>3 DEF w

LEMMA SilentCopied ==
    ASSUME NEW w, NEW q, w.out = <<>>, q.out = <<>>, ~w.asserted, ~q.asserted,
           NEW p, ~Took(p), NEW b, NEW l
    PROVE  Copied(w, q, p, b, l)
<1> DEFINE none == <<>>
<1>1. TextOf(p, b, l) = none
  BY Zenon DEF TextOf
<1>2. WithoutBlanks(none, none)
  BY NoText
<1>3. Aligned(none, DepthOf(p, l))
  BY DEF Aligned
<1>4. w.out = none /\ q.out = none
  OBVIOUS
<1> HIDE DEF none
<1> QED
  BY <1>1, <1>2, <1>3, <1>4, Zenon DEF Copied, Copies

LEMMA SilentStep ==
    ASSUME Shaped(writer), Shaped(pretty), NEW l, NEW accepts, ReadLexeme(l, accepts),
           ~Took(recursive')
    PROVE  /\ writer' = Writing(writer.level_stack, writer.hasRoot, <<>>, writer.flushed, No)
           /\ pretty' = Writing(pretty.level_stack, pretty.hasRoot, <<>>, pretty.flushed, No)
           /\ WritersCopy' /\ Shaped(writer') /\ Shaped(pretty')
<1>1. /\ writer' = Writes(recursive', writer, Write(writer, l))
      /\ pretty' = Writes(recursive', pretty,
                          PrettyWrite(pretty, l, "singleLineArray" \in flags))
  BY Zenon DEF ReadLexeme
<1>2. writer' = Writing(writer.level_stack, writer.hasRoot, <<>>, writer.flushed, No)
  <2> DEFINE next == Write(writer, l)
  <2> HIDE DEF next
  <2>1. writer' = Writes(recursive', writer, next)
    BY <1>1 DEF next
  <2> QED
    BY <2>1, SilentWrites DEF Shaped
<1>3. pretty' = Writing(pretty.level_stack, pretty.hasRoot, <<>>, pretty.flushed, No)
  <2> DEFINE next == PrettyWrite(pretty, l, "singleLineArray" \in flags)
  <2> HIDE DEF next
  <2>1. pretty' = Writes(recursive', pretty, next)
    BY <1>1 DEF next
  <2> QED
    BY <2>1, SilentWrites DEF Shaped
<1>4. /\ writer'.out = <<>> /\ ~writer'.asserted /\ Shaped(writer')
      /\ pretty'.out = <<>> /\ ~pretty'.asserted /\ Shaped(pretty')
  <2> DEFINE none == <<>>
  <2> HIDE DEF none
  <2>1. /\ writer' = Writing(writer.level_stack, writer.hasRoot, none, writer.flushed, No)
        /\ pretty' = Writing(pretty.level_stack, pretty.hasRoot, none, pretty.flushed, No)
    BY <1>2, <1>3 DEF none
  <2>2. /\ writer'.out = none /\ ~writer'.asserted /\ Shaped(writer')
        /\ pretty'.out = none /\ ~pretty'.asserted /\ Shaped(pretty')
    BY <2>1, ListensFields
  <2> QED
    BY <2>2 DEF none
<1>5. WritersCopy'
  BY <1>4, SilentCopied, CopySeen
<1> QED
  BY <1>2, <1>3, <1>4, <1>5

\* What the recursive parser has taken was heard, and not refused.
LEMMA TookHeeded ==
    ASSUME NEW p, NEW frames, Nested(frames), NEW root, NEW l, NEW accepts \in BOOLEAN,
           Took(p),
           \/ Failed(p)
           \/ Heeded(frames, root, l, accepts, p)
           \/ Passed(frames, l, p)
           \/ Finished(frames, root, l, p)
    PROVE  \E new, event :
             /\ Hears(frames, root, l, new, event)
             /\ p.frames = new /\ p.root = Yes /\ Nested(new)
<1>1. ~Failed(p)
  BY DEF Took, Failed
<1>2. ~Passed(frames, l, p)
  <2>1. ASSUME NEW new, p = Recursing(new, Yes, "None", NoEvent, No)
        PROVE  FALSE
    <3>1. p.event = NoEvent
      BY <2>1, RecursiveFields
    <3> QED
      BY <3>1 DEF Took
  <2> QED
    BY <2>1, Zenon DEF Passed
<1>3. ~Finished(frames, root, l, p)
  <2>1. ASSUME p = Recursing(frames, Yes, "None", NoEvent, Yes)
        PROVE  FALSE
    <3>1. p.event = NoEvent
      BY <2>1, RecursiveFields
    <3> QED
      BY <3>1 DEF Took
  <2> QED
    BY <2>1, Zenon DEF Finished
<1>4. Heeded(frames, root, l, accepts, p)
  BY <1>1, <1>2, <1>3
<1>5. PICK new, event :
        /\ Hears(frames, root, l, new, event)
        /\ p = Recursing(new, Yes, Answer(accepts), event, Stop(new = <<>>, Over(accepts)))
  BY <1>4, Zenon DEF Heeded
<1>6. p.frames = new /\ p.root = Yes
  BY <1>5, RecursiveFields
<1>7. Nested(p.frames)
  BY <1>4, HeedsNested
<1> QED
  BY <1>5, <1>6, <1>7, Zenon

\* What was heard is written, with the delimiter before it and on its level.
LEMMA WrittenSeen ==
    ASSUME NEW frames, Nested(frames), NEW root, frames # <<>> => root = Yes,
           NEW b, JustRead(frames, b), NEW l \in Lexemes, NEW p, Took(p),
           NEW event, Hears(frames, root, l, p.frames, event), p.root = Yes,
           Nested(p.frames),
           NEW w, \/ \E out, flushed : w = Write(Writing(Levels(frames), root, out, flushed, No), l)
                  \/ \E out, flushed, singleLineArray :
                       w = PrettyWrite(Writing(Levels(frames), root, out, flushed, No), l,
                                       singleLineArray)
    PROVE  /\ Listens(w, p) /\ Shaped(w)
           /\ Copies(w, p, TextOf(p, b, l))
           /\ Aligned(w.out, DepthOf(p, l))
<1> DEFINE new == p.frames
           delimiter == Delimited(frames, l)
           depth == Deep(new, l)
<1>1. depth \in Nat /\ Written(w, Levels(new), l, delimiter, depth)
  BY HeardWrites, Zenon
<1>2. /\ TextOf(p, b, l) = delimiter \o <<l>>
      /\ delimiter = <<>> \/ delimiter = <<Comma>> \/ delimiter = <<Colon>>
  BY DelimitedText
<1>3. l \notin Blanks
  BY LexemesAssumption
<1>4. Nested(new)
  OBVIOUS
<1>5. DepthOf(p, l) = depth
  <2>1. Len(new) \in Nat
    BY <1>4 DEF Nested
  <2>2. CASE Opening(l)
    BY <2>2, Zenon DEF Opening, Deep, DepthOf
  <2>3. CASE ~Opening(l)
    <3>1. DepthOf(p, l) = Len(new) - 0 /\ depth = Len(new)
      BY <2>3, Zenon DEF Opening, Deep, DepthOf
    <3> HIDE DEF depth, new
    <3> QED
      BY <2>1, <3>1
  <2> QED
    BY <2>2, <2>3
<1>6. Levels(new) = <<>> <=> new = <<>>
  BY <1>4, LevelsEmpty
<1> HIDE DEF new, delimiter, depth
<1>7. /\ w = Writing(Levels(new), Yes, w.out, w.flushed, No)
      /\ Levels(new) = <<>> => w.flushed = Yes
      /\ WithoutBlanks(w.out, delimiter \o <<l>>)
      /\ Aligned(w.out, depth)
  BY <1>1, <1>2, <1>3, TheBlanks, WrittenCopies
<1>8. Shaped(w) /\ ~w.asserted
  BY <1>7, ListensFields
<1>9. Listens(w, p)
  BY <1>7, Zenon DEF Listens, new
<1>10. Copies(w, p, TextOf(p, b, l))
  BY <1>2, <1>6, <1>7, <1>8, Truths, Zenon DEF Copies, new
<1> QED
  BY <1>5, <1>7, <1>8, <1>9, <1>10

\* What is heard is an event.
LEMMA HearsSomething ==
    ASSUME NEW frames, NEW root, NEW l, NEW new, NEW event, Hears(frames, root, l, new, event)
    PROVE  event # NoEvent
<1>1. ASSUME NEW name, name # "none", NEW count
      PROVE  EventOf(name, count) # NoEvent
  <2>1. EventOf(name, count).name = name /\ NoEvent.name = "none"
    BY DEF EventOf, NoEvent
  <2> QED
    BY <1>1, <2>1
<1>2. ASSUME IsScalar(l)
      PROVE  ScalarHeard(l) # NoEvent
  <2>1. PICK name \in {"Null", "Bool", "Number", "String"} : ScalarHeard(l) = Events!Event(name, 0)
    BY <1>2, ScalarNames
  <2>2. Events!Event(name, 0) = EventOf(name, 0)
    BY Zenon DEF Events!Event, EventOf
  <2>3. name # "none"
    OBVIOUS
  <2> QED
    BY <1>1, <2>1, <2>2, <2>3
<1>3. \A kind : StartName(kind) # "none" /\ EndName(kind) # "none"
  BY DEF StartName, EndName
<1>4. ASSUME NEW base, Takes(l, base, new, event)
      PROVE  event # NoEvent
  BY <1>1, <1>2, <1>3, <1>4, Zenon DEF Takes
<1>5. EventOf("Key", 0) # NoEvent
  BY <1>1
<1> QED
  BY <1>1, <1>3, <1>4, <1>5, Zenon DEF Hears, TakesInCall, Names, Closes

\* As long as the parsers run, what was not taken was a delimiter.
LEMMA NotTaken ==
    ASSUME NEW p, NEW frames, NEW root, NEW l, NEW accepts \in BOOLEAN,
           ~Took(p), p.error = "None", p.returned = No,
           \/ Failed(p)
           \/ Heeded(frames, root, l, accepts, p)
           \/ Passed(frames, l, p)
           \/ Finished(frames, root, l, p)
    PROVE  Passes(frames, l, p.frames) /\ p.root = Yes
<1>1. p.event = NoEvent
  BY Zenon DEF Took
<1>2. ~Failed(p)
  BY DEF Failed
<1>3. ~Heeded(frames, root, l, accepts, p)
  <2>1. ASSUME NEW new, NEW event, Hears(frames, root, l, new, event),
               p = Recursing(new, Yes, Answer(accepts), event,
                             Stop(new = <<>>, Over(accepts)))
        PROVE  FALSE
    <3>1. p.event = event
      BY <2>1, RecursiveFields
    <3> QED
      BY <1>1, <2>1, <3>1, HearsSomething
  <2> QED
    BY <2>1, Zenon DEF Heeded
<1>4. ~Finished(frames, root, l, p)
  <2>1. ASSUME p = Recursing(frames, Yes, "None", NoEvent, Yes)
        PROVE  FALSE
    <3>1. p.returned = Yes
      BY <2>1, RecursiveFields
    <3> QED
      BY <3>1, Truths
  <2> QED
    BY <2>1, Zenon DEF Finished
<1>5. PICK new : Passes(frames, l, new) /\ p = Recursing(new, Yes, "None", NoEvent, No)
  BY <1>2, <1>3, <1>4, Zenon DEF Passed
<1>6. p.frames = new /\ p.root = Yes
  BY <1>5, RecursiveFields
<1> QED
  BY <1>5, <1>6

\* A step while all run.
LEMMA WriterGoesOn ==
    ASSUME Running, WriterInv, NEW l \in Lexemes, NEW accepts \in BOOLEAN,
           ReadLexeme(l, accepts)
    PROVE  WriterInv'
<1> DEFINE frames == recursive.frames
           root == recursive.root
<1>1. Nested(frames) /\ (frames # <<>> => root = Yes)
  <2>1. frames # <<>> => root
    BY DEF Running
  <2>2. root \in BOOLEAN
    BY DEF Running
  <2> QED
    BY <2>1, <2>2, Truths DEF Running
<1>2. \/ Failed(recursive')
      \/ Heeded(frames, root, l, accepts, recursive')
      \/ Passed(frames, l, recursive')
      \/ Finished(frames, root, l, recursive')
  <2>1. recursive' = Parse(Recursing(frames, root, "None", NoEvent, No), l, accepts)
    BY RunningStep
  <2>2. root \in BOOLEAN /\ Ongoing(frames, root, iterative.stack)
    BY DEF Running, Ongoing, Follows
  <2> QED
    BY <2>1, <2>2, ParserHears
<1>3. /\ JustRead(frames, lexeme)
      /\ writer = Writing(Levels(frames), root, writer.out, writer.flushed, No)
      /\ pretty = Writing(Levels(frames), root, pretty.out, pretty.flushed, No)
      /\ Shaped(writer) /\ Shaped(pretty)
  BY Zenon DEF WriterInv, Listens
<1>4. lexeme' = l /\ before' = lexeme
  BY DEF ReadLexeme
<1> HIDE DEF frames, root
<1>5. CASE Took(recursive')
  <2>1. PICK event : /\ Hears(frames, root, l, recursive'.frames, event)
                     /\ recursive'.root = Yes /\ Nested(recursive'.frames)
    BY <1>1, <1>2, <1>5, TookHeeded
  <2>2. /\ writer' = Write(writer, l)
        /\ pretty' = PrettyWrite(pretty, l, "singleLineArray" \in flags)
    BY <1>5, Zenon DEF ReadLexeme, Writes, Took
  <2>3. /\ Listens(writer', recursive') /\ Shaped(writer')
        /\ Copies(writer', recursive', TextOf(recursive', lexeme, l))
    <3>1. \E out, flushed :
            writer' = Write(Writing(Levels(frames), root, out, flushed, No), l)
      BY <1>3, <2>2, Zenon
    <3> QED
      BY <1>1, <1>3, <1>5, <2>1, <3>1, WrittenSeen
  <2>4. /\ Listens(pretty', recursive') /\ Shaped(pretty')
        /\ Copies(pretty', recursive', TextOf(recursive', lexeme, l))
        /\ Aligned(pretty'.out, DepthOf(recursive', l))
    <3>1. \E out, flushed, singleLineArray :
            pretty' = PrettyWrite(Writing(Levels(frames), root, out, flushed, No), l,
                                  singleLineArray)
      BY <1>3, <2>2, Zenon
    <3> QED
      BY <1>1, <1>3, <1>5, <2>1, <3>1, WrittenSeen
  <2>5. Copied(writer', pretty', recursive', lexeme, l)
    BY <2>3, <2>4, Zenon DEF Copied
  <2>6. WritersCopy'
    BY <1>4, <2>5, CopySeen, Zenon
  <2>7. JustRead(recursive'.frames, l)
    BY <1>1, <2>1, HeardBehind
  <2> QED
    BY <1>4, <2>3, <2>4, <2>6, <2>7, Zenon DEF WriterInv
<1>6. CASE ~Took(recursive')
  <2> DEFINE none == <<>>
  <2>1. /\ writer' = Writing(writer.level_stack, writer.hasRoot, none, writer.flushed, No)
        /\ pretty' = Writing(pretty.level_stack, pretty.hasRoot, none, pretty.flushed, No)
        /\ WritersCopy' /\ Shaped(writer') /\ Shaped(pretty')
    BY <1>3, <1>6, SilentStep
  <2> HIDE DEF none
  <2>2. /\ writer.level_stack = Levels(frames) /\ writer.hasRoot = root
        /\ pretty.level_stack = Levels(frames) /\ pretty.hasRoot = root
    BY <1>3, ListensFields
  <2>3. /\ writer' = Writing(Levels(frames), root, writer'.out, writer'.flushed, No)
        /\ pretty' = Writing(Levels(frames), root, pretty'.out, pretty'.flushed, No)
    <3>1. /\ writer'.out = none /\ writer'.flushed = writer.flushed
          /\ pretty'.out = none /\ pretty'.flushed = pretty.flushed
      BY <2>1, ListensFields
    <3> QED
      BY <2>1, <2>2, <3>1
  <2>4. ASSUME Running'
        PROVE  /\ JustRead(recursive'.frames, l)
               /\ Listens(writer', recursive') /\ Listens(pretty', recursive')
    <3>1. recursive'.error = "None" /\ recursive'.returned = No
      <4> DEFINE p == recursive'
      <4>1. p = Recursing(p.frames, p.root, "None", p.event, No)
        BY <2>4 DEF Running
      <4> HIDE DEF p
      <4>2. p.error = "None" /\ p.returned = No
        BY <4>1, RecursiveFields
      <4> QED
        BY <4>2 DEF p
    <3>2. Passes(frames, l, recursive'.frames) /\ recursive'.root = Yes
      BY <1>2, <1>6, <3>1, NotTaken
    <3>3. /\ Levels(recursive'.frames) = Levels(frames) /\ JustRead(recursive'.frames, l)
          /\ frames # <<>>
      BY <1>1, <3>2, PassesKeeps
    <3>4. recursive'.root = root
      BY <1>1, <3>2, <3>3
    <3> QED
      BY <2>3, <3>3, <3>4, Zenon DEF Listens
  <2> QED
    BY <1>4, <2>1, <2>4, Zenon DEF WriterInv
<1> QED
  BY <1>5, <1>6

\* After a comment that was not closed nothing is written.
LEMMA WriterOver ==
    ASSUME Commented, WriterInv, NEW l, NEW accepts \in BOOLEAN, ReadLexeme(l, accepts)
    PROVE  WriterInv'
<1>1. recursive' = recursive
  BY OverQuiet
<1>2. recursive.error = "UnspecificSyntaxError"
  BY RecursiveFields DEF Commented
<1>3. ~Took(recursive')
  BY <1>1, <1>2 DEF Took
<1>4. ~Running'
  <2>1. ASSUME Running'
        PROVE  recursive'.error = "None"
    <3> DEFINE p == recursive'
    <3>1. p = Recursing(p.frames, p.root, "None", p.event, No)
      BY <2>1 DEF Running
    <3> HIDE DEF p
    <3>2. p.error = "None"
      BY <3>1, RecursiveFields
    <3> QED
      BY <3>2 DEF p
  <2> QED
    BY <1>1, <1>2, <2>1
<1>5. WritersCopy' /\ Shaped(writer') /\ Shaped(pretty')
  <2>1. Shaped(writer) /\ Shaped(pretty)
    BY Zenon DEF WriterInv
  <2> QED
    BY <1>3, <2>1, SilentStep
<1> QED
  BY <1>4, <1>5, Zenon DEF WriterInv

LEMMA InitWrites == ASSUME Init PROVE WriterInv
<1> DEFINE none == <<>>
<1>1. /\ writer = Writing(none, No, none, Yes, No)
      /\ pretty = Writing(none, No, none, Yes, No)
  BY Zenon DEF Init, NewWriter, Writing, Yes, No
<1>2. recursive = Recursing(none, No, "None", NoEvent, No) /\ lexeme = "begin"
  BY Zenon DEF Init, NewRecursive, Recursing, No
<1>3. Levels(none) = none
  <2>1. Nested(none)
    BY DEF Nested, Frames
  <2> QED
    BY <2>1, LevelsEmpty
<1>4. JustRead(none, "begin")
  <2>1. "begin" \notin {Comma, Colon}
    BY Zenon DEF Comma, Colon
  <2> QED
    BY <2>1 DEF JustRead
<1>5. none = <<>>
  OBVIOUS
<1> HIDE DEF none
<1>6. /\ writer.out = none /\ writer.flushed = Yes /\ ~writer.asserted /\ Shaped(writer)
      /\ pretty.out = none /\ pretty.flushed = Yes /\ ~pretty.asserted /\ Shaped(pretty)
  BY <1>1, ListensFields
<1>7. recursive.frames = none /\ recursive.root = No /\ recursive.event = NoEvent
  BY <1>2, RecursiveFields
<1>8. ~Took(recursive)
  BY <1>7 DEF Took
<1>9. WritersCopy
  BY <1>5, <1>6, <1>8, SilentCopied, CopySeen
<1>10. Listens(writer, recursive) /\ Listens(pretty, recursive)
  BY <1>1, <1>3, <1>6, <1>7, Zenon DEF Listens
<1> QED
  BY <1>2, <1>4, <1>6, <1>7, <1>9, <1>10, Zenon DEF WriterInv

\* As long as the parsers run, both writers are in the levels of the calls, have
\* the counts of the calls, and the lexeme before is the delimiter they put out.
THEOREM WriterInvariant == Spec => []WriterInv
<1>1. Init => WriterInv
  BY InitWrites
<1>2. ReaderInv /\ WriterInv /\ [Next]_vars => WriterInv'
  <2> SUFFICES ASSUME ReaderInv, WriterInv, [Next]_vars PROVE WriterInv'
    OBVIOUS
  <2>1. ASSUME NEW l \in Lexemes, NEW accepts \in BOOLEAN, ReadLexeme(l, accepts)
        PROVE  WriterInv'
    <3>1. CASE Running
      BY <2>1, <3>1, WriterGoesOn
    <3>2. CASE Ended
      BY <2>1, <3>2 DEF Ended, ReadLexeme
    <3>3. CASE Commented
      BY <2>1, <3>3, WriterOver
    <3> QED
      BY <3>1, <3>2, <3>3 DEF ReaderInv
  <2>2. CASE UNCHANGED vars
    <3>1. UNCHANGED <<lexeme, before, recursive, iterative, pull, writer, pretty>>
      BY <2>2 DEF vars
    <3>2. WritersCopy' = WritersCopy
      BY <3>1, CopySeen
    <3>3. Running' => Running
      BY <3>1, Zenon DEF Running, Follows
    <3> QED
      BY <3>1, <3>2, <3>3, Zenon DEF WriterInv
  <2> QED
    BY <2>1, <2>2 DEF Next
<1> QED
  BY <1>1, <1>2, ReaderInvariant, PTL DEF Spec

\* Both writers, listening to the recursive parser, write the text that it
\* reads, whatever that is: no assertion of theirs fails, the stream is flushed
\* when the root is complete, and PrettyWriter indents each line by its level.
THEOREM TheWritersCopy == Spec => []WritersCopy
<1>1. WriterInv => WritersCopy
  BY Zenon DEF WriterInv
<1> QED
  BY <1>1, WriterInvariant, PTL


=============================================================================
