----------------------------- MODULE JsonValues -----------------------------
(***************************************************************************)
(* What the calls of GenericValue promise, on JSON values as trees: no     *)
(* memory, no capacity, no copies. JsonDocument does the same in memory.   *)
(* A value is reached by the numbers of the children that lead to it; the  *)
(* values the program holds are the elements of one array.                 *)
(***************************************************************************)
EXTENDS Naturals, Sequences, SequencesExt

Tree(type, text, elements) == [type |-> type, text |-> text, elements |-> elements]
NullTree == Tree("null", "", <<>>)

RECURSIVE At(_, _), With(_, _, _)
At(t, path) ==
    IF path = <<>> THEN t ELSE At(t.elements[Head(path)], Tail(path))
With(t, path, x) ==
    IF path = <<>> THEN x
    ELSE [t EXCEPT !.elements[Head(path)] = With(@, Tail(path), x)]

\* Neither value is inside the other.
Disjoint(p, q) == ~IsPrefix(p, q) /\ ~IsPrefix(q, p)

WithElements(t, path, elements) ==
    With(t, path, [At(t, path) EXCEPT !.elements = elements])
Added(t, path, new) == WithElements(t, path, At(t, path).elements \o new)
Moved(t, from, to) == With(With(t, from, NullTree), to, At(t, from))

\* The members of an object: names and values in turn.
Members(o) == 1 .. Len(o.elements) \div 2
Name(o, n) == o.elements[2 * n - 1].text
Value(o, n) == o.elements[2 * n]
Named(o, name) == {n \in Members(o) : Name(o, n) = name}
FirstNamed(o, name) ==
    CHOOSE n \in Named(o, name) : \A k \in Named(o, name) : n <= k

\* A sequence without the elements from first to last.
Without(s, first, last) == SubSeq(s, 1, first - 1) \o SubSeq(s, last + 1, Len(s))

\* Without member n, in order, or with the last member in its place.
Erased(o, n) == Without(o.elements, 2 * n - 1, 2 * n)
Replaced(o, n) ==
    LET l == Len(o.elements)
    IN  SubSeq([o.elements EXCEPT ![2 * n - 1] = o.elements[l - 1],
                                  ![2 * n] = o.elements[l]], 1, l - 2)

\* The same value, whatever the order of the members.
RECURSIVE Same(_, _)
Same(s, t) ==
    /\ s.type = t.type /\ Len(s.elements) = Len(t.elements)
    /\ CASE s.type = "object" ->
              \A n \in Members(s) :
                \E k \in Members(t) : /\ Name(s, n) = Name(t, k)
                                      /\ Same(Value(s, n), Value(t, k))
         [] s.type = "array" ->
              \A n \in DOMAIN s.elements : Same(s.elements[n], t.elements[n])
         [] OTHER -> s.text = t.text

\* Every name is the name of one member.
RECURSIVE NamesDiffer(_)
NamesDiffer(t) ==
    /\ t.type = "object" => \A m, n \in Members(t) : Name(t, m) = Name(t, n) => m = n
    /\ \A n \in DOMAIN t.elements : NamesDiffer(t.elements[n])

\* A container begins and ends, everything else is one event.
RECURSIVE Events(_)
Events(t) ==
    IF t.type \notin {"array", "object"} THEN 1
    ELSE FoldLeft(LAMBDA n, e : n + Events(e), 2, t.elements)

Emptied(t, path) == WithElements(t, path, <<>>)
WithoutNamed(t, path, name, Removed(_, _)) ==
    LET o == At(t, path)
    IN  IF Named(o, name) = {} THEN t
        ELSE WithElements(t, path, Removed(o, FirstNamed(o, name)))

\* What each call leaves of the values.
Promise(t, c) ==
    LET this == At(t, c.path)
        rhs == At(t, c.rhs)
        width == IF this.type = "object" THEN 2 ELSE 1
        name == Tree("string", c.text, <<>>)
    IN  CASE c.name = "Set" -> With(t, c.path, Tree(c.text, "", <<>>))
          [] c.name \in {"SetConst", "SetCopy"} -> With(t, c.path, name)
          [] c.name = "Clear" -> Emptied(t, c.path)
          [] c.name = "Reserve" -> t
          [] c.name = "Erase" ->
               WithElements(t, c.path, SubSeq(this.elements, 1, width * (c.n - 1)))
          [] c.name = "PopBack" -> WithElements(t, c.path, Front(this.elements))
          [] c.name = "EraseMember" -> WithoutNamed(t, c.path, c.text, Erased)
          [] c.name = "RemoveMember" -> WithoutNamed(t, c.path, c.text, Replaced)
          [] c.name = "Assign" -> Moved(t, c.rhs, c.path)
          [] c.name = "Swap" -> With(With(t, c.path, rhs), c.rhs, this)
          [] c.name \in {"CopyFrom", "CopyConst"} -> With(t, c.path, rhs)
          [] c.name = "AssignContainer" ->
               With(Emptied(t, c.rhs), c.path, rhs)
          [] c.name = "PushBack" ->
               With(Added(t, c.path, <<rhs>>), c.rhs, NullTree)
          [] c.name \in {"AddMember", "AddCopied"} ->
               With(Added(t, c.path, <<name, rhs>>), c.rhs, NullTree)
          [] c.name = "Populate" ->
               IF c.n < Events(rhs) THEN t ELSE With(t, c.path, rhs)

-----------------------------------------------------------------------------
(* The values that a pointer leads to.                                     *)

IsContainer(t) == t.type \in {"array", "object"}
IsEnd(t, token) == t.type = "array" /\ token.name = "-"

\* What a token needs: an object for a name, either container for an index.
Shaped(t, token, InvalidIndex) ==
    CASE IsEnd(t, token) -> t
      [] ~IsEnd(t, token) /\ token.index = InvalidIndex ->
           IF t.type = "object" THEN t ELSE Tree("object", "", <<>>)
      [] ~IsEnd(t, token) /\ token.index # InvalidIndex ->
           IF IsContainer(t) THEN t ELSE Tree("array", "", <<>>)

\* With an element or member for the token, null if it is new, and which it is.
Widened(t, token) ==
    LET size == IF IsEnd(t, token) THEN Len(t.elements) + 1 ELSE token.index + 1
        name == Tree("string", token.name, <<>>)
    IN  IF t.type = "array"
        THEN [t EXCEPT !.elements = @ \o [n \in 1 .. size - Len(@) |-> NullTree]]
        ELSE IF Named(t, token.name) # {} THEN t
        ELSE [t EXCEPT !.elements = @ \o <<name, NullTree>>]
Child(t, token) ==
    CASE t.type = "object" -> 2 * FirstNamed(t, token.name)
      [] t.type = "array" /\ token.name = "-" -> Len(t.elements)
      [] OTHER -> token.index + 1

\* The values with one where the tokens lead to, and the path to it.
RECURSIVE Made(_, _, _)
Made(t, tokens, InvalidIndex) ==
    LET token == Head(tokens)
        wide == Widened(Shaped(t, token, InvalidIndex), token)
        child == Child(wide, token)
        below == Made(wide.elements[child], Tail(tokens), InvalidIndex)
    IN  IF tokens = <<>> THEN [tree |-> t, path |-> <<>>]
        ELSE [tree |-> [wide EXCEPT !.elements[child] = below.tree],
              path |-> <<child>> \o below.path]

\* Without the value that is there: an element, or a member with its name.
ErasedAt(t, path) ==
    LET o == At(t, Front(path))
        n == Last(path)
    IN  WithElements(t, Front(path),
                     Without(o.elements, IF o.type = "object" THEN n - 1 ELSE n, n))
=============================================================================
