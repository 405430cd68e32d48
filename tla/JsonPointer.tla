---------------------------- MODULE JsonPointer ----------------------------
(***************************************************************************)
(* GenericPointer of rapidjson: the path to a value as a text, plain or as *)
(* the fragment of a URI, and as tokens, each a name and, if the name is   *)
(* one, an index. Texts and names are sequences of UTF-8 units.            *)
(***************************************************************************)
EXTENDS JsonEncodings

CONSTANT SizeWidth      \* the bits of SizeType, 32
SizeHasBits == SizeWidth \in Nat \ {0}

Slash == 47
Hash == 35
Percent == 37
Tilde == 126
Digits == 48 .. 57
HexDigits == Digits \cup (65 .. 70) \cup (97 .. 102)
Unreserved == Digits \cup (65 .. 90) \cup (97 .. 122) \cup {45, 46, 95, Tilde}
NeedPercentEncode(c) == c \notin Unreserved

InvalidIndex == 2 ^ SizeWidth - 1
Token(name, index) == [name |-> name, index |-> index]

-----------------------------------------------------------------------------
(* Parse. What is left of the text, the tokens so far, the name of the     *)
(* token it is in, the error.                                              *)

Start(text) == [rest |-> text, tokens |-> <<>>, name |-> <<>>, error |-> "none"]
Fail(p, error) == [p EXCEPT !.error = error]
Named(p, units, rest) == [p EXCEPT !.name = @ \o units, !.rest = rest]

HexValue(c) == IF c \in Digits THEN c - 48 ELSE ((c - 1) % 32) + 10

\* PercentDecodeStream: the bytes of the triplets a text begins with.
RECURSIVE PercentDecode(_)
PercentDecode(s) ==
    IF Len(s) >= 3 /\ s[1] = Percent /\ s[2] \in HexDigits /\ s[3] \in HexDigits
    THEN <<HexValue(s[2]) * 16 + HexValue(s[3])>>
         \o PercentDecode(SubSeq(s, 4, Len(s)))
    ELSE <<>>

\* ~0 and ~1. The tilde may have been encoded, what follows it may not.
Unescape(p, rest) ==
    CASE Peek(rest) = 48 -> Named(p, <<Tilde>>, Rest(rest))
      [] Peek(rest) = 49 -> Named(p, <<Slash>>, Rest(rest))
      [] OTHER -> [Fail(p, "InvalidEscape") EXCEPT !.rest = rest]
OneUnit(p, c, rest) == IF c = Tilde THEN Unescape(p, rest) ELSE Named(p, <<c>>, rest)

\* One character that is encoded, of as many triplets as UTF-8 has bytes.
DecodeOneUnchecked(p) ==
    LET bytes == PercentDecode(p.rest)
    IN  IF bytes = <<>> THEN Fail(p, "InvalidPercentEncoding")
        ELSE OneUnit(p, bytes[1], SubSeq(p.rest, 4, Len(p.rest)))

DecodeOne(p) ==
    LET bytes == PercentDecode(p.rest)
        g == UTF8Validate(bytes)
        rest == SubSeq(p.rest, 3 * Len(g.value) + 1, Len(p.rest))
    IN  CASE ~g.ok \/ Len(g.value) > Len(bytes) -> Fail(p, "InvalidPercentEncoding")
          [] g.ok /\ Len(g.value) = 1 /\ bytes # <<>> -> OneUnit(p, bytes[1], rest)
          [] OTHER -> Named(p, g.value, rest)

Character(p, uriFragment) ==
    LET c == Head(p.rest)
    IN  CASE uriFragment /\ c = Percent -> DecodeOne(p)
          [] uriFragment /\ c # Percent /\ NeedPercentEncode(c) ->
               Fail(p, "CharacterMustPercentEncode")
          [] OTHER -> OneUnit(p, c, Tail(p.rest))

\* A number without leading zero; it is none if it grows smaller by a digit.
Index(name) ==
    LET Add(r, c) ==
            LET m == (r.n * 10 + (c - 48)) % 2 ^ SizeWidth
            IN  IF r.overflow \/ m < r.n THEN [r EXCEPT !.overflow = TRUE]
                ELSE [r EXCEPT !.n = m]
        number == FoldLeft(Add, [n |-> 0, overflow |-> FALSE], name)
        digits == /\ name # <<>> /\ \A k \in DOMAIN name : name[k] \in Digits
                  /\ Len(name) > 1 => name[1] # 48
    IN  IF ~digits THEN InvalidIndex
        ELSE IF number.overflow THEN InvalidIndex ELSE number.n

EndToken(p) ==
    [p EXCEPT !.tokens = Append(@, Token(p.name, Index(p.name))), !.name = <<>>]

RECURSIVE ParseTokens(_, _)
ParseTokens(p, uriFragment) ==
    CASE p.error # "none" -> p
      [] p.error = "none" /\ p.rest = <<>> -> EndToken(p)
      [] p.error = "none" /\ p.rest # <<>> /\ Head(p.rest) = Slash ->
           ParseTokens([EndToken(p) EXCEPT !.rest = Tail(@)], uriFragment)
      [] OTHER -> ParseTokens(Character(p, uriFragment), uriFragment)

\* A pointer that is not valid has no tokens, but an offset.
Pointer(tokens, error, offset) == [tokens |-> tokens, error |-> error, offset |-> offset]
Parse(text) ==
    LET uriFragment == Peek(text) = Hash
        s == IF uriFragment THEN Tail(text) ELSE text
        p == ParseTokens(Start(Tail(s)), uriFragment)
    IN  CASE s = <<>> -> Pointer(<<>>, "none", 0)
          [] s # <<>> /\ Head(s) # Slash ->
               Pointer(<<>>, "TokenMustBeginWithSolidus", Len(text) - Len(s))
          [] OTHER -> IF p.error = "none" THEN Pointer(p.tokens, "none", 0)
                      ELSE Pointer(<<>>, p.error, Len(text) - Len(p.rest))

-----------------------------------------------------------------------------
(* Stringify. A name that is no UTF-8 has no fragment.                     *)

UpperHex(n) == IF n < 10 THEN 48 + n ELSE 55 + n
PercentEncode(units) ==
    FlattenSeq([k \in DOMAIN units |->
                  <<Percent, UpperHex(units[k] \div 16), UpperHex(units[k] % 16)>>])

RECURSIVE StringifyName(_, _)
StringifyName(name, uriFragment) ==
    LET c == Head(name)
        g == UTF8Validate(name)
        encode == uriFragment /\ NeedPercentEncode(c) /\ c # Slash
        one == CASE c = Tilde -> <<Tilde, 48>>
                 [] c = Slash -> <<Tilde, 49>>
                 [] OTHER -> IF encode THEN PercentEncode(g.value) ELSE <<c>>
        after == StringifyName(IF encode THEN g.rest ELSE Tail(name), uriFragment)
    IN  CASE name = <<>> -> [text |-> <<>>, ok |-> TRUE]
          [] name # <<>> /\ encode /\ ~g.ok -> [text |-> <<>>, ok |-> FALSE]
          [] OTHER -> [text |-> one \o after.text, ok |-> after.ok]

Stringify(tokens, uriFragment) ==
    LET names == [n \in DOMAIN tokens |-> StringifyName(tokens[n].name, uriFragment)]
    IN  [text |-> (IF uriFragment THEN <<Hash>> ELSE <<>>)
                  \o FlattenSeq([n \in DOMAIN names |-> <<Slash>> \o names[n].text]),
         ok |-> \A n \in DOMAIN names : names[n].ok]

-----------------------------------------------------------------------------
(* Comparison.                                                             *)

Equal(p, q) == p.error = "none" /\ q.error = "none" /\ p.tokens = q.tokens

\* By index, length, and then the units.
LessName(s, t) ==
    \E n \in DOMAIN s : s[n] < t[n] /\ SubSeq(s, 1, n - 1) = SubSeq(t, 1, n - 1)
LessToken(s, t) ==
    CASE s.index # t.index -> s.index < t.index
      [] s.index = t.index /\ Len(s.name) # Len(t.name) -> Len(s.name) < Len(t.name)
      [] OTHER -> LessName(s.name, t.name)
Less(p, q) ==
    CASE p.error # "none" \/ q.error # "none" -> p.error = "none"
      [] p.error = "none" /\ q.error = "none" /\ Len(p.tokens) # Len(q.tokens) ->
           Len(p.tokens) < Len(q.tokens)
      [] OTHER -> \E n \in DOMAIN p.tokens :
                     /\ SubSeq(p.tokens, 1, n - 1) = SubSeq(q.tokens, 1, n - 1)
                     /\ LessToken(p.tokens[n], q.tokens[n])

\* Append: a token by its name is no index.
AppendName(p, name) == Append(p.tokens, Token(name, InvalidIndex))

-----------------------------------------------------------------------------
(* Properties.                                                             *)

\* The tokens of a text by its definition: between slashes, unescaped.
Value(name) == LET Add(v, c) == v * 10 + (c - 48) IN FoldLeft(Add, 0, name)
IsNumber(name) ==
    /\ name # <<>> /\ \A k \in DOMAIN name : name[k] \in Digits
    /\ Len(name) = 1 \/ name[1] # 48

\* A pointer that is valid is found again in what it was turned into, as a text
\* and as a fragment; only names that are no UTF-8 have no fragment. The text
\* of a pointer is the one that was parsed, and no other has as many tokens as
\* slashes. Errors are where their character is.
TextsOfPointers(text) ==
    LET p == Parse(text)
        plain == Stringify(p.tokens, FALSE)
        fragment == Stringify(p.tokens, TRUE)
        slashes == {n \in DOMAIN text : text[n] = Slash}
    IN  /\ p.error = "none" =>
             /\ Len(p.tokens) = Cardinality(slashes)
             /\ plain.ok /\ Parse(plain.text) = p
             /\ Peek(text) # Hash => plain.text = text
             /\ fragment.ok => Parse(fragment.text) = p
             /\ Peek(text) = Hash => fragment.ok
        /\ p.error # "none" => p.offset \in 0 .. Len(text)
        /\ p.error = "InvalidPercentEncoding" => text[p.offset + 1] = Percent
        /\ p.error = "CharacterMustPercentEncode" => text[p.offset + 1] \notin Unreserved
        /\ p.error = "InvalidEscape" /\ p.offset < Len(text) =>
             text[p.offset + 1] \notin {48, 49}

\* A token is an index if it is a number, the number its digits are, as long as
\* SizeType holds it. (Of what is larger the comment in Token promises more than
\* Index does.)
IndicesOfPointers(text) ==
    \A n \in DOMAIN Parse(text).tokens :
        LET t == Parse(text).tokens[n]
        IN  /\ ~IsNumber(t.name) => t.index = InvalidIndex
            /\ IsNumber(t.name) /\ Value(t.name) < 2 ^ SizeWidth => t.index = Value(t.name)

\* The comparison is a total order, the one == belongs to.
PointersAreOrdered(texts) ==
    LET ps == {Parse(t) : t \in texts}
    IN  \A p, q, r \in ps :
          /\ Less(p, q) /\ Less(q, r) => Less(p, r)
          /\ p.error = "none" /\ q.error = "none" =>
               /\ Equal(p, q) <=> ~Less(p, q) /\ ~Less(q, p)
               /\ ~(Less(p, q) /\ Less(q, p))
=============================================================================
