----------------------------- MODULE JsonRegex -----------------------------
(***************************************************************************)
(* GenericRegex and GenericRegexSearch of rapidjson: a regular expression  *)
(* becomes a machine of states, which reads a text with all its states at  *)
(* once. Patterns and texts are sequences of characters. Every way to end  *)
(* the compilation is an outcome: a machine, "invalid", or "assertion".    *)
(***************************************************************************)
EXTENDS Integers, Sequences, SequencesExt, FiniteSetsExt

CONSTANTS
  CodeOf,         \* the code point of each character
  UnsignedWidth   \* the bits of an unsigned, 32: its largest value ends with a 5

RegexAssumption ==
    /\ \A c, d \in DOMAIN CodeOf : CodeOf[c] \in Nat /\ (CodeOf[c] = CodeOf[d] => c = d)
    /\ UnsignedWidth \in Nat \ {0} /\ (2 ^ UnsignedWidth - 1) % 10 = 5

Invalid == 0                                  \* kRegexInvalidState
kInfinityQuantifier == 2 ^ UnsignedWidth - 1
Digits == "0" :> 0 @@ "1" :> 1 @@ "2" :> 2 @@ "3" :> 3 @@ "4" :> 4 @@ "5" :> 5
          @@ "6" :> 6 @@ "7" :> 7 @@ "8" :> 8 @@ "9" :> 9
Escapes == {"^", "$", "|", "(", ")", "?", "*", "+", ".", "[", "]", "{", "}", "\\"}
Controls == "f" :> "\f" @@ "n" :> "\n" @@ "r" :> "\r" @@ "t" :> "\t" @@ "v" :> "vertical tab"

Peek(s) == IF s = <<>> THEN "end" ELSE Head(s)
Rest(s) == IF s = <<>> THEN <<>> ELSE Tail(s)

-----------------------------------------------------------------------------
(* States and fragments. A state reads a character of its class, or splits *)
(* (out1), or is the last one (no out). A fragment is a part of the        *)
(* machine: its start, the list of its loose ends, linked by their outs,   *)
(* and its lowest state. The compilation: rest of the pattern, states,     *)
(* operands, operators, the atoms of each open parenthesis, anchors, root. *)

Only(c) == [any |-> FALSE, negate |-> FALSE, ranges |-> <<[start |-> c, end |-> c]>>]
AnyCharacter == [any |-> TRUE, negate |-> FALSE, ranges |-> <<>>]
Nothing == [any |-> FALSE, negate |-> FALSE, ranges |-> <<>>]
State(out, out1, class) == [out |-> out, out1 |-> out1, class |-> class]
Frag(start, out, minIndex) == [start |-> start, out |-> out, minIndex |-> minIndex]

NewCompilation(pattern) ==
    [rest |-> pattern, states |-> <<>>, operands |-> <<>>, operators |-> <<>>,
     atoms |-> <<0>>, anchorBegin |-> FALSE, anchorEnd |-> FALSE,
     root |-> Invalid, outcome |-> "parsing"]

Fails(c) == [c EXCEPT !.outcome = "invalid"]
Asserts(c) == [c EXCEPT !.outcome = "assertion"]
NewState(c, out, out1, class) == [c EXCEPT !.states = Append(@, State(out, out1, class))]
StateCount(c) == Len(c.states)
Pop(s, n) == SubSeq(s, 1, Len(s) - n)
Replace(c, n, frag) == [c EXCEPT !.operands = Append(Pop(@, n), frag)]

RECURSIVE Ends(_, _)
Ends(states, l) == IF l = Invalid THEN <<>> ELSE <<l>> \o Ends(states, states[l].out)

Patch(c, l, s) ==
    LET ends == ToSet(Ends(c.states, l))
    IN  [c EXCEPT !.states = [k \in DOMAIN @ |->
                                IF k \in ends THEN [@[k] EXCEPT !.out = s] ELSE @[k]]]

\* Append: the list l1 goes on with l2.
Linked(c, l1, l2) == [c EXCEPT !.states[Last(Ends(c.states, l1))].out = l2]

Eval(c, op) ==
    LET e == Last(c.operands)
        e1 == c.operands[Len(c.operands) - 1]
        s == StateCount(c) + 1
        lowest == Min({e1.minIndex, e.minIndex})
        split == NewState(c, Invalid, e.start, Nothing)
    IN  CASE op = "concatenation" /\ Len(c.operands) < 2 -> Asserts(c)
          [] op = "concatenation" /\ Len(c.operands) >= 2 ->
               Replace(Patch(c, e1.out, e.start), 2, Frag(e1.start, e.out, lowest))
          [] op = "alternation" /\ Len(c.operands) >= 2 ->
               Replace(Linked(NewState(c, e1.start, e.start, Nothing), e1.out, e.out), 2,
                       Frag(s, e1.out, lowest))
          [] op = "zeroOrOne" /\ Len(c.operands) >= 1 ->
               Replace(Linked(split, e.out, s), 1, Frag(s, e.out, e.minIndex))
          [] op = "zeroOrMore" /\ Len(c.operands) >= 1 ->
               Replace(Patch(split, e.out, s), 1, Frag(s, s, e.minIndex))
          [] op = "oneOrMore" /\ Len(c.operands) >= 1 ->
               Replace(Patch(split, e.out, s), 1, Frag(e.start, s, e.minIndex))
          [] OTHER -> Fails(c)   \* too few operands, or an open parenthesis

\* CloneTopOperand: the states from its lowest one on, once more.
CloneTopOperandLoose(c) ==
    LET src == Last(c.operands)
        count == StateCount(c) - src.minIndex + 1
        Moved(index) == IF index = Invalid THEN Invalid ELSE index + count
        Clone(s) == [s EXCEPT !.out = Moved(@)]
    IN  [c EXCEPT !.states = @ \o [k \in 1 .. count |-> Clone(@[src.minIndex + k - 1])],
                  !.operands = Append(@, Frag(src.start + count, src.out + count,
                                              src.minIndex + count))]

CloneTopOperand(c) ==
    LET src == Last(c.operands)
        count == StateCount(c) - src.minIndex + 1
        Moved(index) == IF index = Invalid THEN Invalid ELSE index + count
        Clone(s) == [s EXCEPT !.out = Moved(@), !.out1 = Moved(@)]
    IN  [c EXCEPT !.states = @ \o [k \in 1 .. count |-> Clone(@[src.minIndex + k - 1])],
                  !.operands = Append(@, Frag(src.start + count, src.out + count,
                                              src.minIndex + count))]

RECURSIVE Clones(_, _), Concatenated(_, _)
Clones(c, n) == IF n = 0 THEN c ELSE Clones(CloneTopOperand(c), n - 1)
Concatenated(c, n) == IF n = 0 THEN c ELSE Concatenated(Eval(c, "concatenation"), n - 1)

EvalQuantifier(c, n, m) ==
    LET few == Clones(c, n - 1)
        optional == Eval(CloneTopOperand(few), "zeroOrOne")
    IN  CASE c.operands = <<>> \/ n > m -> Asserts(c)
          [] c.operands # <<>> /\ n = 0 /\ m = 0 -> Fails(c)
          [] c.operands # <<>> /\ n = 0 /\ m = kInfinityQuantifier -> Eval(c, "zeroOrMore")
          [] c.operands # <<>> /\ n = 0 /\ m \in 1 .. kInfinityQuantifier - 1 ->
               Concatenated(Clones(Eval(c, "zeroOrOne"), m - 1), m - 1)
          [] c.operands # <<>> /\ n > 0 /\ n = m -> Concatenated(few, n - 1)
          [] c.operands # <<>> /\ n > 0 /\ n < m /\ m = kInfinityQuantifier ->
               Concatenated(Eval(few, "oneOrMore"), n - 1)
          [] c.operands # <<>> /\ n > 0 /\ n < m /\ m < kInfinityQuantifier ->
               Concatenated(Concatenated(Clones(optional, m - n - 1), m - n), n - 1)

-----------------------------------------------------------------------------
(* Parse.                                                                  *)

ImplicitConcatenation(c) ==
    [c EXCEPT !.operators = IF Last(c.atoms) > 0 THEN Append(@, "concatenation") ELSE @,
              !.atoms[Len(c.atoms)] = @ + 1]

Operand(c, class) ==
    LET s == StateCount(c) + 1
    IN  ImplicitConcatenation([NewState(c, Invalid, Invalid, class) EXCEPT
                                  !.operands = Append(@, Frag(s, s, s))])

\* The operators on the top that are in set, as long as they succeed.
RECURSIVE EvalAll(_, _)
EvalAll(c, set) ==
    IF c.outcome # "parsing" \/ c.operators = <<>> THEN c
    ELSE IF Last(c.operators) \notin set THEN c
    ELSE EvalAll(Eval([c EXCEPT !.operators = Pop(@, 1)], Last(c.operators)), set)

Alternative(c) ==
    LET g == EvalAll(c, {"concatenation"})
    IN  IF g.outcome # "parsing" THEN g
        ELSE [g EXCEPT !.operators = Append(@, "alternation"), !.atoms[Len(g.atoms)] = 0]

OpenGroup(c) ==
    [c EXCEPT !.operators = Append(@, "leftParenthesis"), !.atoms = Append(@, 0)]
CloseGroup(c) ==
    LET g == EvalAll(c, {"concatenation", "alternation"})
    IN  IF g.outcome # "parsing" THEN g
        ELSE IF g.operators = <<>> THEN Fails(g)
        ELSE ImplicitConcatenation([g EXCEPT !.operators = Pop(@, 1), !.atoms = Pop(@, 1)])

\* ParseUnsigned: an overflow is noticed at the last digit only.
RECURSIVE ParseUnsigned(_, _)
ParseUnsigned(s, r) ==
    CASE Peek(s) \notin DOMAIN Digits -> [ok |-> TRUE, value |-> r, rest |-> s]
      [] Peek(s) \in DOMAIN Digits /\ r >= kInfinityQuantifier \div 10 /\ Digits[Peek(s)] > 5 ->
           [ok |-> FALSE, value |-> r, rest |-> s]
      [] OTHER -> ParseUnsigned(Tail(s), (r * 10 + Digits[Head(s)]) % 2 ^ UnsignedWidth)
Unsigned(s) ==
    IF Peek(s) \in DOMAIN Digits THEN ParseUnsigned(s, 0)
    ELSE [ok |-> FALSE, value |-> 0, rest |-> s]

Quantifier(c) ==
    LET n == Unsigned(c.rest)
        m == Unsigned(Rest(n.rest))
        bound == CASE Peek(n.rest) # "," -> n
                   [] Peek(n.rest) = "," /\ Peek(Rest(n.rest)) = "}" ->
                        [ok |-> TRUE, value |-> kInfinityQuantifier, rest |-> Rest(n.rest)]
                   [] OTHER -> m
        g == EvalQuantifier([c EXCEPT !.rest = Rest(bound.rest)], n.value, bound.value)
    IN  IF ~n.ok \/ ~bound.ok \/ bound.value < n.value THEN Fails(c)
        ELSE IF g.outcome # "parsing" \/ Peek(bound.rest) = "}" THEN g ELSE Fails(g)

\* CharacterEscape: the character meant, "none" if there is no such escape.
CharacterEscape(ch) ==
    IF ch \in Escapes THEN ch
    ELSE IF ch \in DOMAIN Controls THEN Controls[ch] ELSE "none"

\* ParseRange: the ranges so far, and whether a hyphen would begin or end one.
RECURSIVE ParseRange(_, _, _, _)
ParseRange(s, negate, ranges, step) ==
    LET single == Peek(s) # "\\"
        ch == IF single THEN Peek(s)
              ELSE IF Peek(Tail(s)) = "b" THEN "backspace" ELSE CharacterEscape(Peek(Tail(s)))
        rest == IF single THEN Rest(s) ELSE Rest(Rest(s))
        New(c) == Append(ranges, [start |-> c, end |-> c])
    IN  CASE s = <<>> \/ (~single /\ ch = "none") \/ (ranges = <<>> /\ Peek(s) = "]") ->
               [ok |-> FALSE, class |-> Nothing, rest |-> s]
          [] Peek(s) = "]" /\ ranges # <<>> ->
               [ok |-> TRUE, rest |-> rest,
                class |-> [any |-> FALSE, negate |-> negate,
                           ranges |-> IF step = 2 THEN New("-") ELSE ranges]]
          [] OTHER ->
               IF step = 1 /\ ch = "-" THEN ParseRange(rest, negate, ranges, 2)
               ELSE IF step = 2
               THEN ParseRange(rest, negate, [ranges EXCEPT ![Len(ranges)].end = ch], 0)
               ELSE ParseRange(rest, negate, New(ch), 1)

Class(c) ==
    LET negate == Peek(c.rest) = "^"
        g == ParseRange(IF negate THEN Tail(c.rest) ELSE c.rest, negate, <<>>, 0)
    IN  IF g.ok THEN Operand([c EXCEPT !.rest = g.rest], g.class) ELSE Fails(c)

Escape(c) ==
    LET ch == CharacterEscape(Peek(c.rest))
    IN  IF ch = "none" THEN Fails(c) ELSE Operand([c EXCEPT !.rest = Rest(@)], Only(ch))

Character(c, ch) ==
    CASE ch = "^" -> [c EXCEPT !.anchorBegin = TRUE]
      [] ch = "$" -> [c EXCEPT !.anchorEnd = TRUE]
      [] ch = "|" -> Alternative(c)
      [] ch = "(" -> OpenGroup(c)
      [] ch = ")" -> CloseGroup(c)
      [] ch = "?" -> Eval(c, "zeroOrOne")
      [] ch = "*" -> Eval(c, "zeroOrMore")
      [] ch = "+" -> Eval(c, "oneOrMore")
      [] ch = "{" -> Quantifier(c)
      [] ch = "." -> Operand(c, AnyCharacter)
      [] ch = "[" -> Class(c)
      [] ch = "\\" -> Escape(c)
      [] OTHER -> Operand(c, Only(ch))

\* What remains in the end: one operand, which leads to the last state.
Finish(c) ==
    LET g == EvalAll(c, {"concatenation", "alternation", "leftParenthesis"})
        e == Last(g.operands)
    IN  IF g.outcome # "parsing" THEN g
        ELSE IF Len(g.operands) # 1 THEN Fails(g)
        ELSE [Patch(NewState(g, Invalid, Invalid, Nothing), e.out, StateCount(g) + 1)
                EXCEPT !.root = e.start, !.outcome = "valid"]

RECURSIVE Parse(_)
Parse(c) ==
    IF c.outcome # "parsing" THEN c
    ELSE IF c.rest = <<>> THEN Finish(c)
    ELSE Parse(Character([c EXCEPT !.rest = Tail(@)], Head(c.rest)))

Compile(pattern) == Parse(NewCompilation(pattern))

-----------------------------------------------------------------------------
(* The search. AddState follows the splits; a state may lead back to       *)
(* itself by splits alone, and then it has no end.                         *)

Splits(regex, k) ==
    LET s == regex.states[k] IN IF s.out1 = Invalid THEN {} ELSE {s.out, s.out1}

RECURSIVE SplitsFrom(_, _)
SplitsFrom(regex, set) ==
    LET more == set \cup UNION {Splits(regex, k) : k \in set}
    IN  IF more = set THEN set ELSE SplitsFrom(regex, more)
Endless(regex) ==
    \E k \in DOMAIN regex.states : k \in SplitsFrom(regex, Splits(regex, k))

AddState(regex, k) ==
    {s \in SplitsFrom(regex, {k}) : regex.states[s].out1 = Invalid}
IsMatch(regex, k) == \E s \in AddState(regex, k) : regex.states[s].out = Invalid

MatchRange(class, ch) ==
    LET within == \E k \in DOMAIN class.ranges :
            CodeOf[ch] \in CodeOf[class.ranges[k].start] .. CodeOf[class.ranges[k].end]
    IN  class.any \/ (class.ranges # <<>> /\ within # class.negate)

RECURSIVE Run(_, _, _, _, _, _)
Run(regex, current, matched, text, anchorBegin, anchorEnd) ==
    LET hit == {s \in current : MatchRange(regex.states[s].class, Head(text))}
        outs == {regex.states[s].out : s \in hit}
        again == IF anchorBegin THEN {} ELSE {regex.root}
        next == UNION {AddState(regex, k) : k \in outs \cup again}
        nowMatched == \E k \in outs : IsMatch(regex, k)
    IN  IF current = {} \/ text = <<>> THEN matched
        ELSE IF ~anchorEnd /\ nowMatched THEN TRUE
        ELSE Run(regex, next, nowMatched, Tail(text), anchorBegin, anchorEnd)

SearchWithAnchoring(regex, text, anchorBegin, anchorEnd) ==
    Run(regex, AddState(regex, regex.root), IsMatch(regex, regex.root), text,
        anchorBegin, anchorEnd)
Match(regex, text) == SearchWithAnchoring(regex, text, TRUE, TRUE)
Search(regex, text) ==
    SearchWithAnchoring(regex, text, regex.anchorBegin, regex.anchorEnd)

-----------------------------------------------------------------------------
(* What the syntax in the class's comment means, as sets of texts, found   *)
(* by cutting the pattern and not by reading it from left to right. Texts  *)
(* are the members of some set that has all the parts of its members.      *)

IsAtom(t) == t \notin {<<"(">>, <<")">>, <<"|">>} /\ t[1] \notin {"?", "*", "+", "{"}
AtMost == kInfinityQuantifier
Bounds(t) ==
    CASE t[1] = "?" -> 0 .. 1
      [] t[1] = "*" -> 0 .. AtMost
      [] t[1] = "+" -> 1 .. AtMost
      [] t[1] = "{" /\ Len(t) = 3 -> {Digits[t[2]]}
      [] t[1] = "{" /\ Len(t) = 4 -> Digits[t[2]] .. AtMost
      [] t[1] = "{" /\ Len(t) = 5 -> Digits[t[2]] .. Digits[t[4]]
IsQuantifier(t) == t[1] \in {"?", "*", "+", "{"}

\* The characters of a class whose text, without brackets, is units.
RECURSIVE Members(_)
Members(units) ==
    CASE units = <<>> -> {}
      [] Len(units) >= 3 /\ units[2] = "-" ->
           {c \in DOMAIN CodeOf : CodeOf[c] \in CodeOf[units[1]] .. CodeOf[units[3]]}
           \cup Members(SubSeq(units, 4, Len(units)))
      [] OTHER -> {units[1]} \cup Members(Tail(units))
Meant(negate, units) == IF negate THEN DOMAIN CodeOf \ Members(units) ELSE Members(units)

Characters(t) ==
    CASE t = <<".">> -> DOMAIN CodeOf
      [] t[1] = "[" -> LET negate == t[2] = "^"
                       IN  Meant(negate, SubSeq(t, IF negate THEN 3 ELSE 2, Len(t) - 1))
      [] t[1] = "\\" -> {CharacterEscape(t[2])}
      [] OTHER -> {t[1]}

Depth(p, k) ==
    Cardinality({j \in 1 .. k : p[j] = <<"(">>}) - Cardinality({j \in 1 .. k : p[j] = <<")">>})
Balanced(p) == Depth(p, Len(p)) = 0 /\ \A k \in DOMAIN p : Depth(p, k) >= 0
Bars(p) == {k \in DOMAIN p : p[k] = <<"|">> /\ Depth(p, k) = 0}
Cuts(p) == {k \in 1 .. Len(p) - 1 : Depth(p, k) = 0 /\ ~IsQuantifier(p[k + 1])}
Before(p, k) == SubSeq(p, 1, k)
After(p, k) == SubSeq(p, k + 1, Len(p))

RECURSIVE Formed(_)
Formed(p) ==
    /\ p # <<>> /\ Balanced(p)
    /\ CASE Bars(p) # {} -> Formed(Before(p, Min(Bars(p)) - 1)) /\ Formed(After(p, Min(Bars(p))))
         [] Bars(p) = {} /\ Cuts(p) # {} ->
              Formed(Before(p, Min(Cuts(p)))) /\ Formed(After(p, Min(Cuts(p))))
         [] OTHER -> CASE IsQuantifier(Last(p)) -> Formed(Front(p)) /\ Bounds(Last(p)) # {0}
                       [] p[1] = <<"(">> -> Formed(SubSeq(p, 2, Len(p) - 1))
                       [] OTHER -> IsAtom(p[1])

RECURSIVE Powers(_, _, _)
Powers(L, n, texts) ==   \* n texts of L, one after the other, within texts
    IF n = 0 THEN {<<>>}
    ELSE {u \o v : u \in L, v \in Powers(L, n - 1, texts)} \cap texts
Repeated(L, bounds, texts) ==
    LET enough == Min(bounds) + Max({Len(w) : w \in texts})
    IN  UNION {Powers(L, n, texts) : n \in {n \in bounds : n <= enough}}

\* The texts that a pattern stands for, and whether it repeats an empty one.
RECURSIVE Language(_, _)
Language(p, texts) ==
    CASE Bars(p) # {} ->
           Language(Before(p, Min(Bars(p)) - 1), texts) \cup Language(After(p, Min(Bars(p))), texts)
      [] Bars(p) = {} /\ Cuts(p) # {} ->
           {u \o v : u \in Language(Before(p, Min(Cuts(p))), texts),
                     v \in Language(After(p, Min(Cuts(p))), texts)} \cap texts
      [] OTHER -> CASE IsQuantifier(Last(p)) ->
                         Repeated(Language(Front(p), texts), Bounds(Last(p)), texts)
                    [] p[1] = <<"(">> -> Language(SubSeq(p, 2, Len(p) - 1), texts)
                    [] OTHER -> {<<c>> : c \in Characters(p[1])} \cap texts

RepeatsEmpty(p) ==
    \E k, n \in DOMAIN p :
        /\ k < n /\ IsQuantifier(p[n]) /\ AtMost \in Bounds(p[n])
        /\ Formed(SubSeq(p, k, n - 1)) /\ Bars(SubSeq(p, k, n - 1)) = {}
        /\ Cuts(SubSeq(p, k, n - 1)) = {}
        /\ <<>> \in Language(SubSeq(p, k, n - 1), {<<>>})

\* The code takes a quantifier behind ( or | for one of what stands before it.
Misplaced(p) ==
    \E k \in 1 .. Len(p) - 1 : p[k] \in {<<"(">>, <<"|">>} /\ IsQuantifier(p[k + 1])

PartsAt(w, begin, end) ==
    {SubSeq(w, i, j) : i \in IF begin THEN {1} ELSE 1 .. Len(w) + 1,
                       j \in IF end THEN {Len(w)} ELSE 0 .. Len(w)}

\* A pattern, as its tokens, is compiled if it is well formed, and then reads
\* the texts it stands for and finds them in others (regex.h). Left out: what
\* repeats an empty text, for which AddState has no end; and to find an empty
\* text within another, which the search forgets at its first character.
RegexMeans(tokens, texts) ==
    LET regex == Compile(FlattenSeq(tokens))
        p == SelectSeq(tokens, LAMBDA t : t \notin {<<"^">>, <<"$">>})
        language == Language(p, texts)
    IN  /\ Formed(p) => regex.outcome = "valid"
        /\ regex.outcome = "valid" /\ ~Misplaced(p) => Formed(p)
        /\ Formed(p) => (Endless(regex) <=> RepeatsEmpty(p))
        /\ Formed(p) /\ ~Endless(regex) =>
             \A w \in texts :
                /\ Match(regex, w) <=> w \in language
                /\ <<>> \notin language \/ (regex.anchorBegin /\ regex.anchorEnd) =>
                     (Search(regex, w) <=>
                        PartsAt(w, regex.anchorBegin, regex.anchorEnd) \cap language # {})

\* A class reads the characters between its brackets, one by one or from one to
\* another (regex.h). Units are characters, escaped or not.
ClassMeans(units, texts) ==
    LET Char(u) == CASE u = <<"\\", "b">> -> "backspace"
                     [] Len(u) = 2 /\ u[2] # "b" -> CharacterEscape(u[2])
                     [] Len(u) = 1 -> u[1]
        negate == units # <<>> /\ Head(units \o <<<<>>>>) = <<"^">>
        plain == IF negate THEN Tail(units) ELSE units
        members == Meant(negate, [k \in DOMAIN plain |-> Char(plain[k])])
        regex == Compile(<<"[">> \o FlattenSeq(units) \o <<"]">>)
    IN  IF plain = <<>> THEN regex.outcome = "invalid"
        ELSE /\ regex.outcome = "valid"
             /\ \A w \in texts : Match(regex, w) <=> \E c \in members : w = <<c>>
=============================================================================
