----------------------------- MODULE JsonEvents -----------------------------
(***************************************************************************)
(* What every reader of rapidjson promises its handler: the events of at   *)
(* most one JSON value, containers closed in the order they were opened    *)
(* and with the number of what is in them, a name before each member.      *)
(* JsonReader implements it, JsonDocument builds its values from it.       *)
(***************************************************************************)
EXTENDS Naturals, Sequences, SequencesExt

CONSTANT Scalars   \* the events of values that are no containers

VARIABLES
  open,     \* the containers begun and not ended, outermost first
  progress, \* "start", "within", "whole", "done" or "failed"
  event     \* the event of the last step

evars == <<open, progress, event>>

NoEvent == [name |-> "none", count |-> 0]
Event(name, count) == [name |-> name, count |-> count]
Container(kind, count, named) == [kind |-> kind, count |-> count, named |-> named]

EventsInit == open = <<>> /\ progress = "start" /\ event = NoEvent

\* A value may begin here: at the root, in an array, after a member's name.
ValueExpected ==
    \/ progress = "start"
    \/ progress = "within" /\ (Last(open).kind = "array" \/ Last(open).named)

\* The innermost container with one more value in it.
Counted ==
    IF open = <<>> THEN open
    ELSE [open EXCEPT ![Len(open)] = Container(@.kind, @.count + 1, FALSE)]

\* A handler may refuse an event, and a reader may leave what follows the root
\* to its caller: the reading is over then.
Heard(opened) ==
    \/ progress' = "failed" /\ open' = <<>>
    \/ /\ open' = opened
       /\ progress' \in IF opened = <<>> THEN {"whole", "done"} ELSE {"within"}

Value(name) ==
    ValueExpected /\ event' = Event(name, 0) /\ Heard(Counted)

StartContainer(kind, name) ==
    /\ ValueExpected
    /\ event' = Event(name, 0)
    /\ Heard(Append(Counted, Container(kind, 0, FALSE)))

Key ==
    /\ progress = "within" /\ Last(open).kind = "object" /\ ~Last(open).named
    /\ event' = Event("Key", 0)
    /\ Heard([open EXCEPT ![Len(open)] = Container(@.kind, @.count, TRUE)])

EndContainer(kind, name) ==
    /\ progress = "within" /\ Last(open).kind = kind /\ ~Last(open).named
    /\ event' = Event(name, Last(open).count)
    /\ Heard(Front(open))

\* Punctuation: no event.
Silent == progress = "within" /\ event' = NoEvent /\ UNCHANGED <<open, progress>>

\* The text is over, or what follows is left to the caller.
Finish ==
    progress = "whole" /\ progress' = "done" /\ event' = NoEvent /\ UNCHANGED open

\* The text is no JSON.
Fail ==
    /\ progress \notin {"done", "failed"}
    /\ progress' = "failed" /\ event' = NoEvent /\ open' = <<>>

EventsNext ==
    \/ \E name \in Scalars : Value(name)
    \/ StartContainer("object", "StartObject")
    \/ StartContainer("array", "StartArray")
    \/ Key
    \/ EndContainer("object", "EndObject")
    \/ EndContainer("array", "EndArray")
    \/ Silent \/ Finish
    \/ Fail

EventsSpec == EventsInit /\ [][EventsNext]_evars
=============================================================================
