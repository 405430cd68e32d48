------------------------- MODULE JsonPointerValues -------------------------
(***************************************************************************)
(* The values of a document that the tokens of a GenericPointer lead to:   *)
(* found, made with all their parents, erased.                             *)
(***************************************************************************)
EXTENDS JsonDocument

CONSTANTS
  Tokens,         \* names with their index
  InvalidIndex,   \* the index of a name that is none
  MaxTokens                    \* the length of a pointer, a bound of a run

-----------------------------------------------------------------------------
(* Create. A step from a value to the one its next token leads to.         *)

PushNull(h, l) == Append1(Grow(h, l), l, <<Null>>)

\* The value changes to an object if the token is a name only, to an array if it
\* is no container and the token is an index.
Change(h, l, token) ==
    LET d == Get(h, l)
    IN  CASE token.index = InvalidIndex /\ d.flags # "object" -> Set(h, l, Plain("object"))
          [] token.index # InvalidIndex /\ d.flags \notin {"array", "object"} ->
               Set(h, l, Plain("array"))
          [] OTHER -> h

\* Mutation of ElementsUpTo: the last one is left out.
ElementsUpToShort(h, l, index) ==
    FoldLeft(LAMBDA g, n : PushNull(g, l), Reserve(h, l, index),
             Numbers(index - Get(h, l).size))

\* Elements up to the index.
ElementsUpTo(h, l, index) ==
    FoldLeft(LAMBDA g, n : PushNull(g, l), Reserve(h, l, index + 1),
             Numbers(index + 1 - Get(h, l).size))

\* A member with a copy of the name, at the end.
NewMember(h, l, name) ==
    LET copied == CopyString(h, name)
    IN  Append1(Grow(copied.heap, l), l, <<copied.data, Null>>)

Created(h, at, exists) == [heap |-> h, at |-> at, exists |-> exists]

CreateStep(made, token) ==
    LET v == made.at
        append == Get(made.heap, v).flags = "array" /\ token.name = "-"
        h == IF append THEN PushNull(made.heap, v) ELSE Change(made.heap, v, token)
        d == Get(h, v)
        wider == ElementsUpTo(h, v, token.index)
        member == Find(h, v, ConstString(token.name))
        longer == NewMember(h, v, token.name)
    IN  CASE append -> Created(h, <<d.block, d.size>>, FALSE)
          [] ~append /\ d.flags = "array" ->
               IF token.index < d.size
               THEN Created(h, <<d.block, token.index + 1>>, made.exists)
               ELSE Created(wider, <<Get(wider, v).block, token.index + 1>>, FALSE)
          [] ~append /\ d.flags = "object" ->
               IF member # 0 THEN Created(h, <<d.block, 2 * member>>, made.exists)
               ELSE Created(longer, <<Get(longer, v).block, 2 * d.size + 2>>, FALSE)

Create(h, root, tokens) == FoldLeft(CreateStep, Created(h, root, TRUE), tokens)

-----------------------------------------------------------------------------
(* Get and Erase: a token that leads nowhere ends the search.              *)

Nowhere == <<Nil, 0>>

ResolveStep(h, v, token) ==
    LET d == Get(h, v)
        member == Find(h, v, ConstString(token.name))
    IN  CASE v # Nowhere /\ d.flags = "object" /\ member # 0 -> <<d.block, 2 * member>>
          [] v # Nowhere /\ d.flags = "array" /\ token.index < d.size ->
               <<d.block, token.index + 1>>
          [] OTHER -> Nowhere
Resolve(h, root, tokens) ==
    FoldLeft(LAMBDA v, token : ResolveStep(h, v, token), root, tokens)

ErasePointer(h, root, tokens) ==
    LET v == Resolve(h, root, Front(tokens))
        d == Get(h, v)
        last == Last(tokens)
    IN  CASE tokens # <<>> /\ v # Nowhere /\ d.flags = "object" ->
               EraseMember(h, v, last.name)
          [] tokens # <<>> /\ v # Nowhere /\ d.flags = "array" /\ last.index < d.size ->
               Erase(h, v, last.index + 1, last.index + 1)
          [] OTHER -> h

-----------------------------------------------------------------------------
(* Set, Swap and GetWithDefault, on what Create returns.                   *)

SetMoved(h, root, tokens, value) ==
    LET made == Create(h, root, tokens) IN Assign(made.heap, made.at, value)
SetCopied(h, root, tokens, value) ==
    LET made == Create(h, root, tokens) IN CopyFrom(made.heap, made.at, value, FALSE)
SwapPointer(h, root, tokens, value) ==
    LET made == Create(h, root, tokens) IN Swap(made.heap, made.at, value)
GetWithDefault(h, root, tokens, value) ==
    LET made == Create(h, root, tokens)
    IN  IF made.exists THEN made.heap ELSE CopyFrom(made.heap, made.at, value, FALSE)

-----------------------------------------------------------------------------
(* Properties.                                                             *)

Pointers == UNION {[1 .. n -> Tokens] : n \in 0 .. MaxTokens}

\* Create makes what is missing and nothing else, says whether it was there, and
\* what it made Get finds; Erase takes away what Get finds and nothing else.
MakesAndErases(p, tokens) ==
    LET root == Locate(heap, p)
        t == Tree(heap, root)
        promised == V!Made(t, tokens, InvalidIndex)
        made == Create(heap, root, tokens)
        found == Resolve(heap, root, tokens)
        erased == ErasePointer(heap, root, tokens)
        is == found # Nowhere
    IN  /\ Forest(made.heap) = V!With(Forest(heap), p, promised.tree)
        /\ made.at = Locate(made.heap, p \o promised.path)
        /\ Owned(made.heap) /\ Owned(erased)
        /\ is <=> promised.tree = t
        /\ is <=> made.exists
        /\ is => found = made.at
        /\ Forest(erased) =
             IF is /\ tokens # <<>>
             THEN V!With(Forest(heap), p, V!ErasedAt(t, promised.path)) ELSE Forest(heap)

\* The values with what Create makes, and the path to it.
Promised(t, p, tokens) ==
    LET made == V!Made(V!At(t, p), tokens, InvalidIndex)
    IN  [tree |-> V!With(t, p, made.tree), path |-> p \o made.path]

\* A value that is set by a pointer is the one it leads to; a default is only
\* for what was not there; what was moved is null, what was copied stays.
SetsValues(p, tokens, q) ==
    LET root == Locate(heap, p)
        value == Locate(heap, q)
        Moved(t, made) == V!Moved(made.tree, q, made.path)
        Copied(t, made) == V!With(made.tree, made.path, V!At(t, q))
        Swapped(t, made) == V!With(Copied(t, made), q, V!At(made.tree, made.path))
        Default(t, made) == IF Resolve(heap, root, tokens) # Nowhere THEN t
                            ELSE Copied(t, made)
        Leaves(h, Becomes(_, _)) ==
            /\ Forest(h) = Becomes(Forest(heap), Promised(Forest(heap), p, tokens))
            /\ Owned(h)
    IN  /\ Leaves(SetMoved(heap, root, tokens, value), Moved)
        /\ Leaves(SetCopied(heap, root, tokens, value), Copied)
        /\ Leaves(SwapPointer(heap, root, tokens, value), Swapped)
        /\ Leaves(GetWithDefault(heap, root, tokens, value), Default)

PointersKeepPromises ==
    \A p \in Paths(heap), tokens \in Pointers :
      /\ MakesAndErases(p, tokens)
      /\ \A q \in {q \in Paths(heap) : V!Disjoint(p, q)} : SetsValues(p, tokens, q)
=============================================================================
