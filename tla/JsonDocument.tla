---------------------------- MODULE JsonDocument ----------------------------
(***************************************************************************)
(* GenericValue and GenericDocument of rapidjson in memory: values own     *)
(* their elements, members and copied strings in blocks of an allocator    *)
(* that frees (CrtAllocator), a move leaves null behind, a copy is deep,   *)
(* and a document is built on a stack from the events of a generator.      *)
(***************************************************************************)
EXTENDS Naturals, FiniteSets, Sequences, SequencesExt

CONSTANTS
  Texts,                  \* texts of strings and names
  ShortTexts,             \* those that fit into the value itself
  kDefaultCapacity,       \* the capacity a first element makes
  Values,                 \* how many values the program holds
  MaxBlocks, MaxCells, MaxCalls   \* bounds of a run: blocks, their cells, calls

VARIABLES
  heap,   \* the blocks: cells of data. The first are the program's own
  calls   \* how many calls the program made

vars == <<heap, calls>>

V == INSTANCE JsonValues

Nil == 0
Program == 1

Data(flags, text, block, size, capacity) ==
    [flags |-> flags, text |-> text, block |-> block, size |-> size,
     capacity |-> capacity]
Plain(flags) == Data(flags, "", Nil, 0, 0)
Null == Plain("null")
Raw == Plain("raw")       \* memory nothing was written to
ConstString(text) == Data("const", text, Nil, 0, 0)

\* A member is two cells.
Width(flags) == IF flags = "object" THEN 2 ELSE 1
Cells(d) ==
    IF d.flags \in {"array", "object"} THEN Width(d.flags) * d.size ELSE 0
Numbers(n) == [k \in 1 .. n |-> k]

\* A value is <<block, cell>>.
Get(h, l) ==
    IF l[1] \in DOMAIN h /\ l[2] \in DOMAIN h[l[1]] THEN h[l[1]][l[2]] ELSE Raw
Put(h, l, d) == IF Get(h, l) = d THEN h ELSE [h EXCEPT ![l[1]][l[2]] = d]

-----------------------------------------------------------------------------
(* CrtAllocator. No memory for nothing.                                    *)

Fresh(h) == CHOOSE b \in 1 .. Cardinality(DOMAIN h) + 1 :
                b \notin DOMAIN h /\ \A c \in 1 .. b - 1 : c \in DOMAIN h
Malloc(h, cells) ==
    IF cells = <<>> THEN [heap |-> h, block |-> Nil]
    ELSE [heap |-> h @@ (Fresh(h) :> cells), block |-> Fresh(h)]
Free(h, block) == [b \in DOMAIN h \ {block} |-> h[b]]
Realloc(h, block, size) ==
    LET old == IF block = Nil THEN <<>> ELSE h[block]
    IN  Malloc(Free(h, block),
               [n \in 1 .. size |-> IF n \in DOMAIN old THEN old[n] ELSE Raw])

-----------------------------------------------------------------------------
(* Destruction, copies and moves.                                          *)

RECURSIVE Destroy(_, _)
DestroyCells(h, block, cells) ==
    FoldLeft(LAMBDA g, c : Destroy(g, <<block, c>>), h, cells)
Destroy(h, l) ==
    LET d == Get(h, l)
    IN  CASE d.flags \in {"array", "object"} ->
               Free(DestroyCells(h, d.block, Numbers(Cells(d))), d.block)
          [] d.flags = "copy" -> Free(h, d.block)
          [] OTHER -> h

\* SetStringRaw with an allocator. A block of characters is one constant text.
CopyString(h, text) ==
    LET m == Malloc(h, <<ConstString(text)>>)
    IN  IF text \in ShortTexts THEN [heap |-> h, data |-> [Plain("short") EXCEPT !.text = text]]
        ELSE [heap |-> m.heap, data |-> Data("copy", text, m.block, 0, 0)]

\* SetArrayRaw and SetObjectRaw: a container of the cells, which it takes over.
SetRaw(h, flags, cells) ==
    LET m == Malloc(h, cells)
        size == Len(cells) \div Width(flags)
    IN  [heap |-> m.heap, data |-> Data(flags, "", m.block, size, size)]

RECURSIVE Copy(_, _, _)

\* The copy constructor: a container's cells one after the other.
Copy(h, l, copyConstStrings) ==
    LET d == Get(h, l)
        made == SetRaw(h, d.flags, [n \in 1 .. Cells(d) |-> Raw])
        CopyCell(g, n) ==
            LET c == Copy(g, <<d.block, n>>, copyConstStrings)
            IN  Put(c.heap, <<made.data.block, n>>, c.data)
    IN  CASE d.flags \in {"array", "object"} ->
               [made EXCEPT !.heap = FoldLeft(CopyCell, @, Numbers(Cells(d)))]
          [] d.flags \in {"short", "copy"} \/ (d.flags = "const" /\ copyConstStrings) ->
               CopyString(h, d.text)
          [] OTHER -> [heap |-> h, data |-> d]

\* The content moves, null stays behind.
RawAssign(h, l, rhs) == Put(Put(h, l, Get(h, rhs)), rhs, Null)

\* operator=, CopyFrom, the Set functions, Swap.
Assign(h, l, rhs) == IF l = rhs THEN h ELSE RawAssign(Destroy(h, l), l, rhs)
CopyFrom(h, l, rhs, copyConstStrings) ==
    LET c == Copy(Destroy(h, l), rhs, copyConstStrings) IN Put(c.heap, l, c.data)
Set(h, l, d) == Put(Destroy(h, l), l, d)
SetString(h, l, text) ==
    LET s == CopyString(Destroy(h, l), text) IN Put(s.heap, l, s.data)
Swap(h, l, other) == Put(Put(h, l, Get(h, other)), other, Get(h, l))

\* GetArray and GetObject are values to construct from: the source stays an
\* empty container. The new value is made before the old one is destroyed.
AssignContainer(h, l, rhs) ==
    LET d == Get(h, rhs) IN Set(Put(h, rhs, Plain(d.flags)), l, d)

-----------------------------------------------------------------------------
(* Arrays and objects.                                                     *)

\* Reserve and MemberReserve: the cells move, the capacity grows.
Reserve(h, l, newCapacity) ==
    LET d == Get(h, l)
        m == Realloc(h, d.block, newCapacity * Width(d.flags))
    IN  IF newCapacity <= d.capacity THEN h
        ELSE Put(m.heap, l, [d EXCEPT !.block = m.block, !.capacity = newCapacity])

Grow(h, l) ==
    LET c == Get(h, l).capacity
    IN  IF Get(h, l).size < c THEN h
        ELSE Reserve(h, l, IF c = 0 THEN kDefaultCapacity ELSE c + (c + 1) \div 2)

\* The next cells take the content of values, which are null then.
Append1(h, l, cells) ==
    LET d == Get(h, l)
        Take(g, n) == Put(g, <<d.block, Cells(d) + n>>, cells[n])
    IN  Put(FoldLeft(Take, h, Numbers(Len(cells))), l, [d EXCEPT !.size = @ + 1])

PushBack(h, l, rhs) ==
    Put(Append1(Grow(h, l), l, <<Get(h, rhs)>>), rhs, Null)

\* The name is a constant string, or was copied for the call.
AddMember(h, l, name, rhs) ==
    Put(Append1(Grow(h, l), l, <<name, Get(h, rhs)>>), rhs, Null)

PopBack(h, l) ==
    LET d == Get(h, l)
    IN  Put(Destroy(h, <<d.block, d.size>>), l, [d EXCEPT !.size = @ - 1])

\* Clear and RemoveAllMembers: the capacity stays.
Clear(h, l) ==
    LET d == Get(h, l)
    IN  Put(DestroyCells(h, d.block, Numbers(Cells(d))), l, [d EXCEPT !.size = 0])

\* Erase and EraseMember: elements or members from first to last are destroyed
\* and those behind them moved to the front.
Erase(h, l, first, last) ==
    LET d == Get(h, l)
        w == Width(d.flags)
        gone == [n \in 1 .. w * (last - first + 1) |-> w * (first - 1) + n]
        MoveCell(g, n) == Put(g, <<d.block, n - Len(gone)>>, Get(g, <<d.block, n>>))
        behind == [n \in 1 .. Cells(d) - w * last |-> w * last + n]
    IN  Put(FoldLeft(MoveCell, DestroyCells(h, d.block, gone), behind), l,
            [d EXCEPT !.size = @ - (last - first + 1)])

StringEqualPointers(d, e) == d = e /\ d.flags = "const"

StringEqual(d, e) == d.text = e.text

NamedMembers(h, l, name) ==
    LET d == Get(h, l)
    IN  {n \in 1 .. d.size : StringEqual(name, Get(h, <<d.block, 2 * n - 1>>))}

FindLast(h, l, name) ==
    LET named == NamedMembers(h, l, name)
    IN  IF named = {} THEN 0 ELSE CHOOSE n \in named : \A k \in named : n >= k

\* The first member of this name, 0 if there is none (FindMember returns the end).
Find(h, l, name) ==
    LET named == NamedMembers(h, l, name)
    IN  IF named = {} THEN 0 ELSE CHOOSE n \in named : \A k \in named : n <= k

EraseMember(h, l, name) ==
    LET n == Find(h, l, ConstString(name)) IN IF n = 0 THEN h ELSE Erase(h, l, n, n)

\* The last member takes the place of the one that is removed.
RemoveMember(h, l, name) ==
    LET d == Get(h, l)
        n == Find(h, l, ConstString(name))
        AssignCell(g, k) == Assign(g, <<d.block, 2 * n - 2 + k>>,
                                      <<d.block, 2 * d.size - 2 + k>>)
        removed == IF n < d.size THEN FoldLeft(AssignCell, h, <<1, 2>>)
                   ELSE DestroyCells(h, d.block, <<2 * n - 1, 2 * n>>)
    IN  IF n = 0 THEN h ELSE Put(removed, l, [d EXCEPT !.size = @ - 1])

\* operator==: the members of this, each with the first of its name in rhs.
RECURSIVE Equal(_, _, _)
Equal(h, l, rhs) ==
    LET d == Get(h, l)
        e == Get(h, rhs)
        strings == {"const", "copy", "short"}
    IN  CASE d.flags \in strings -> e.flags \in strings /\ StringEqual(d, e)
          [] d.flags \in {"array", "object"} ->
               /\ e.flags = d.flags /\ e.size = d.size
               /\ \A n \in 1 .. d.size :
                    IF d.flags = "array" THEN Equal(h, <<d.block, n>>, <<e.block, n>>)
                    ELSE LET k == Find(h, rhs, Get(h, <<d.block, 2 * n - 1>>))
                         IN  k # 0 /\ Equal(h, <<d.block, 2 * n>>, <<e.block, 2 * k>>)
          [] OTHER -> d.flags = e.flags

-----------------------------------------------------------------------------
(* A document is built from events on its stack.                           *)

Event(name, text, copy, count) ==
    [name |-> name, text |-> text, copy |-> copy, count |-> count]

\* Accept: the events of a value.
RECURSIVE Accept(_, _)
Accept(h, l) ==
    LET d == Get(h, l)
        text(e) == Event("String", e.text, e.flags # "const", 0)
        cell(n) == IF d.flags = "object" /\ n % 2 = 1
                   THEN <<text(Get(h, <<d.block, n>>))>>     \* Key
                   ELSE Accept(h, <<d.block, n>>)
    IN  CASE d.flags \in {"array", "object"} ->
               <<Event("Start", d.flags, FALSE, 0)>>
               \o FlattenSeq([n \in 1 .. Cells(d) |-> cell(n)])
               \o <<Event("End", d.flags, FALSE, d.size)>>
          [] d.flags \in {"const", "copy", "short"} -> <<text(d)>>
          [] OTHER -> <<Event("Scalar", d.flags, FALSE, 0)>>

\* The handler functions: each pushes a value, the end of a container pops its
\* cells into a block of the container below them.
Handle(built, e) ==
    LET stack == built.stack
        made(m) == [heap |-> m.heap, stack |-> Append(stack, m.data)]
        rest == Len(stack) - Width(e.text) * e.count
        whole == SetRaw(built.heap, e.text, SubSeq(stack, rest + 1, Len(stack)))
    IN  CASE e.name = "String" /\ e.copy -> made(CopyString(built.heap, e.text))
          [] e.name = "String" /\ ~e.copy ->
               made([heap |-> built.heap, data |-> ConstString(e.text)])
          [] e.name \in {"Start", "Scalar"} ->
               made([heap |-> built.heap, data |-> Plain(e.text)])
          [] e.name = "End" ->
               [heap |-> whole.heap, stack |-> Append(SubSeq(stack, 1, rest - 1), whole.data)]

\* The values that are still on the stack, from its top, wherever they own blocks.
ClearStackNot(built) == built.heap

ClearStack(built) ==
    LET m == Malloc(built.heap, built.stack)
    IN  Free(DestroyCells(m.heap, m.block, Reverse(Numbers(Len(built.stack)))), m.block)

\* Populate and ParseStream: the generator delivers the events of value rhs, or
\* stops after some of them and fails.
Populate(h, l, rhs, stopped) ==
    LET events == Accept(h, rhs)
        built == FoldLeft(Handle, [heap |-> h, stack |-> <<>>],
                          IF stopped < Len(events) THEN SubSeq(events, 1, stopped)
                          ELSE events)
        root == Last(built.stack)
    IN  IF stopped < Len(events) THEN ClearStack(built)
        ELSE Put(Destroy(built.heap, l), l, root)
-----------------------------------------------------------------------------
(* The program's calls on the values it reaches. A value is given by the    *)
(* path of cells to it; of two values neither is inside the other.          *)

RECURSIVE PathsFrom(_, _), Tree(_, _)
Locate(h, path) ==
    FoldLeft(LAMBDA l, c : <<Get(h, l).block, c>>, <<Program, Head(path)>>, Tail(path))
PathsFrom(h, path) ==
    LET d == Get(h, Locate(h, path))
        below == {n \in 1 .. Cells(d) : d.flags = "array" \/ n % 2 = 0}
    IN  {path} \cup UNION {PathsFrom(h, Append(path, n)) : n \in below}
Paths(h) == UNION {PathsFrom(h, <<r>>) : r \in 1 .. Values}

Call(name, path, rhs, text, n) ==
    [name |-> name, path |-> path, rhs |-> rhs, text |-> text, n |-> n]

\* Those whose assertions hold.
CallsOn(h, p) ==
    LET d == Get(h, Locate(h, p))
        On(flags, some) == IF d.flags \in flags THEN some ELSE {}
    IN  {Call("Set", p, p, f, 0) : f \in {"null", "array", "object"}}
        \cup {Call(s, p, p, t, 0) : s \in {"SetConst", "SetCopy"}, t \in Texts}
        \cup On({"array", "object"},
                {Call("Clear", p, p, "", 0), Call("Reserve", p, p, "", MaxCells)}
                \cup {Call("Erase", p, p, "", n) : n \in 1 .. d.size})
        \cup On({"array"}, {Call("PopBack", p, p, "", 0) : n \in 1 .. d.size})
        \cup On({"object"}, {Call(f, p, p, t, 0) :
                               f \in {"EraseMember", "RemoveMember"}, t \in Texts})

CallsWith(h, p, q) ==
    LET On(path, flags, some) ==
            IF Get(h, Locate(h, path)).flags \in flags THEN some ELSE {}
    IN  {Call(f, p, q, "", 0) : f \in {"Assign", "Swap", "CopyFrom", "CopyConst"}}
        \cup On(q, {"array", "object"}, {Call("AssignContainer", p, q, "", 0)})
        \cup On(p, {"array"}, {Call("PushBack", p, q, "", 0)})
        \cup On(p, {"object"}, {Call(f, p, q, t, 0) :
                                  f \in {"AddMember", "AddCopied"}, t \in Texts})

\* The first of the program's values is a document: what a generator delivers of
\* any value, itself included, up to an event at which it fails.
CallsPopulate(h, q) ==
    {Call("Populate", <<1>>, q, "", n) : n \in 0 .. Len(Accept(h, Locate(h, q)))}

Calls(h) ==
    UNION {CallsOn(h, p) \cup CallsPopulate(h, p) : p \in Paths(h)}
    \cup UNION {CallsWith(h, pq[1], pq[2]) :
                  pq \in {pq \in Paths(h) \X Paths(h) : V!Disjoint(pq[1], pq[2])}}

Do(h, c) ==
    LET l == Locate(h, c.path)
        rhs == Locate(h, c.rhs)
        name == CopyString(h, c.text)
    IN  CASE c.name = "Set" -> Set(h, l, Plain(c.text))
          [] c.name = "SetConst" -> Set(h, l, ConstString(c.text))
          [] c.name = "SetCopy" -> SetString(h, l, c.text)
          [] c.name = "Clear" -> Clear(h, l)
          [] c.name = "Reserve" -> Reserve(h, l, c.n)
          [] c.name = "Erase" -> Erase(h, l, c.n, Get(h, l).size)
          [] c.name = "PopBack" -> PopBack(h, l)
          [] c.name = "EraseMember" -> EraseMember(h, l, c.text)
          [] c.name = "RemoveMember" -> RemoveMember(h, l, c.text)
          [] c.name = "Assign" -> Assign(h, l, rhs)
          [] c.name = "Swap" -> Swap(h, l, rhs)
          [] c.name = "CopyFrom" -> CopyFrom(h, l, rhs, FALSE)
          [] c.name = "CopyConst" -> CopyFrom(h, l, rhs, TRUE)
          [] c.name = "AssignContainer" -> AssignContainer(h, l, rhs)
          [] c.name = "PushBack" -> PushBack(h, l, rhs)
          [] c.name = "AddMember" -> AddMember(h, l, ConstString(c.text), rhs)
          [] c.name = "AddCopied" -> AddMember(name.heap, l, name.data, rhs)
          [] c.name = "Populate" -> Populate(h, l, rhs, c.n)

Init == heap = (Program :> [n \in 1 .. Values |-> Null]) /\ calls = 0

InBounds(h) ==
    /\ Cardinality(DOMAIN h) <= MaxBlocks + 1
    /\ \A b \in DOMAIN h \ {Program} : Len(h[b]) <= MaxCells

Next ==
    /\ calls < MaxCalls /\ calls' = calls + 1
    /\ \E c \in Calls(heap) : heap' = Do(heap, c) /\ InBounds(heap')

Spec == Init /\ [][Next]_vars

-----------------------------------------------------------------------------
(* Properties.                                                             *)

Tree(h, l) ==
    LET d == Get(h, l)
        type == IF d.flags \in {"const", "copy", "short"} THEN "string" ELSE d.flags
    IN  V!Tree(type, d.text, [n \in 1 .. Cells(d) |-> Tree(h, <<d.block, n>>)])
Forest(h) ==
    V!Tree("array", "", [r \in 1 .. Values |-> Tree(h, <<Program, r>>)])

\* Memory: every block is the block of exactly one value the program reaches, so
\* that none is freed twice, used after it is freed, shared or leaked; its values
\* fit into it.
RECURSIVE Reached(_, _)
Reached(h, l) ==
    {l} \cup UNION {Reached(h, <<Get(h, l).block, n>>) : n \in 1 .. Cells(Get(h, l))}
Owners(h, block) ==
    {l \in UNION {Reached(h, <<Program, r>>) : r \in 1 .. Values} :
        Get(h, l).block = block}
Owned(h) ==
    /\ \A b \in DOMAIN h \ {Program} : Cardinality(Owners(h, b)) = 1
    /\ \A l \in UNION {Reached(h, <<Program, r>>) : r \in 1 .. Values} :
         LET d == Get(h, l)
         IN  /\ d.flags # "raw" /\ d.block \in DOMAIN h \cup {Nil}
             /\ d.size <= d.capacity
             /\ d.capacity * Width(d.flags) =
                  IF d.flags \notin {"array", "object"} \/ d.block = Nil THEN 0
                  ELSE Len(h[d.block])
OwnedOnce == Owned(heap)

\* Every call does to the values what it promises, and nothing to the others,
\* whatever the moves, copies and reallocations behind it.
CallsKeepPromises ==
    calls < MaxCalls =>
      \A c \in Calls(heap) : Forest(Do(heap, c)) = V!Promise(Forest(heap), c)

\* operator== is equality up to the order of members, where no name occurs twice.
EqualityAgrees ==
    \A p, q \in Paths(heap) :
        LET s == Tree(heap, Locate(heap, p))
            t == Tree(heap, Locate(heap, q))
        IN  V!NamesDiffer(s) /\ V!NamesDiffer(t) =>
              (Equal(heap, Locate(heap, p), Locate(heap, q)) <=> V!Same(s, t))
=============================================================================
