---------------------------- MODULE JsonStrings ----------------------------
(***************************************************************************)
(* Strings of JSON texts: how the reader turns what stands between quotes  *)
(* into the units of its target encoding, in a buffer of its own or over   *)
(* the text itself, and how the writer puts units between quotes. The      *)
(* units of a text are numbers; a zero ends it.                            *)
(***************************************************************************)
EXTENDS JsonScan, JsonEncodings

Quote == 34
Backslash == 92
LetterU == 117
Apostrophe == 39
HexDigits == (48 .. 57) \cup (65 .. 70) \cup (97 .. 102)

\* The table escape of ParseStringToStream, and that of WriteString.
Unescaped ==
    Quote :> Quote @@ 47 :> 47 @@ Backslash :> Backslash @@ 98 :> 8 @@ 102 :> 12
    @@ 110 :> 10 @@ 114 :> 13 @@ 116 :> 9
Escaped ==
    8 :> 98 @@ 9 :> 116 @@ 10 :> 110 @@ 12 :> 102 @@ 13 :> 114
    @@ Quote :> Quote @@ Backslash :> Backslash
    @@ [c \in (0 .. 31) \ {8, 9, 10, 12, 13} |-> LetterU]

-----------------------------------------------------------------------------
(* The reader. A parse is a record: the text, how much of it is read, what *)
(* was put out, where an error was found, whether the quote was reached.   *)
(* How is a record too: source and target encoding, inSitu, validate,      *)
(* apostrophe, simd with the address of the text, or "none".               *)

Opened(text) == [text |-> text, src |-> 1, out |-> <<>>, error |-> "none", at |-> 0, done |-> FALSE]
Fail(p, error, at) == [p EXCEPT !.error = error, !.at = at]
Next1(p) == At(p.text, p.src)
Left(p) == SubSeq(p.text, p.src + 1, Len(p.text))
Advance(p, n) == [p EXCEPT !.src = @ + n]

\* StackStream and the in-situ stream, which puts over the text.
PutInto(how, p, units) ==
    LET dst == 1 + Len(p.out)
    IN  [p EXCEPT !.out = @ \o units,
                  !.text = IF ~how.inSitu THEN @
                           ELSE [k \in DOMAIN @ |-> IF k - dst \in DOMAIN units
                                                    THEN units[k - dst] ELSE @[k]]]

\* n units as they are: loaded together, then put.
CopyUnits(how, p, n) ==
    Advance(PutInto(how, p, [k \in 1 .. n |-> At(p.text, p.src + k - 1)]), n)

\* SkipUnescapedString: while the text is written over itself nothing moves.
SkipUnescaped(how, p) ==
    LET end == ScanAligned(how.simd, p.text, p.src, how.address, Special)
    IN  [p EXCEPT !.src = end, !.out = @ \o SubSeq(p.text, p.src + 1, end)]

\* ScanCopyUnescapedString: unit by unit up to an aligned address, then blocks.
RECURSIVE ScanCopy(_, _)
ScanCopy(how, p) ==
    LET first == First(how.simd, p.text, p.src, Special)
    IN  IF how.inSitu /\ p.src = 1 + Len(p.out) THEN SkipUnescaped(how, p)
        ELSE IF NextAligned(p.src, how.address) # p.src
        THEN IF Next1(p) \in Special THEN p ELSE ScanCopy(how, CopyUnits(how, p, 1))
        ELSE IF first = BlockWidth THEN ScanCopy(how, CopyUnits(how, p, BlockWidth))
        ELSE CopyUnits(how, p, first)

HexValue(c) ==
    CASE c \in 48 .. 57 -> c - 48
      [] c \in 65 .. 70 -> c - 55
      [] c \in 97 .. 102 -> c - 87

\* ParseHex4: the error is reported at the backslash.
ParseHex4(p, escapeOffset) ==
    LET digits == [k \in 1 .. 4 |-> At(p.text, p.src + k - 1)]
        Add(c, k) == c * 16 + HexValue(digits[k])
    IN  IF \A k \in 1 .. 4 : digits[k] \in HexDigits
        THEN [code |-> FoldLeft(Add, 0, <<1, 2, 3, 4>>), next |-> Advance(p, 4)]
        ELSE [code |-> 0, next |-> Fail(p, "UnicodeEscapeInvalidHex", escapeOffset)]

\* \uXXXX: a high surrogate asks for a low one; a low one alone does not.
SecondOfPairUnchecked(code) == TRUE
SecondOfPair(code) == code \in LowSurrogates

UnicodeEscape(how, p, escapeOffset) ==
    LET one == ParseHex4(Advance(p, 2), escapeOffset)
        two == ParseHex4(Advance(one.next, 2), escapeOffset)
        paired == Next1(one.next) = Backslash /\ Next1(Advance(one.next, 1)) = LetterU
        code == (one.code % 1024) * 1024 + (two.code % 1024) + 65536
    IN  CASE one.next.error # "none" -> one.next
          [] one.next.error = "none" /\ one.code \notin HighSurrogates ->
               PutInto(how, one.next, Encode(how.target, one.code))
          [] one.next.error = "none" /\ one.code \in HighSurrogates ->
               IF ~paired THEN Fail(one.next, "UnicodeSurrogateInvalid", escapeOffset)
               ELSE IF two.next.error # "none" THEN two.next
               ELSE IF ~SecondOfPair(two.code)
                    THEN Fail(two.next, "UnicodeSurrogateInvalid", escapeOffset)
               ELSE PutInto(how, two.next, Encode(how.target, code))

Escape(how, p) ==
    LET e == Next1(Advance(p, 1))
    IN  CASE e \in DOMAIN Unescaped -> PutInto(how, Advance(p, 2), <<Unescaped[e]>>)
          [] e = Apostrophe /\ how.apostrophe -> PutInto(how, Advance(p, 2), <<e>>)
          [] e = LetterU -> UnicodeEscape(how, p, p.src)
          [] OTHER -> Fail(p, "EscapeInvalid", p.src)

\* A character that stands for itself, converted or validated.
Plain(how, p) ==
    LET g == IF how.validate /\ how.source = how.target
             THEN Validate(how.source, Left(p))
             ELSE Transcode(how.source, how.target, Left(p))
        next == PutInto(how, [p EXCEPT !.src = Len(p.text) - Len(g.rest)], g.value)
    IN  IF g.ok THEN next ELSE Fail(next, "InvalidEncoding", p.src)

RECURSIVE ParseStringToStream(_, _)
ParseStringToStream(how, q) ==
    LET p == IF how.simd = "none" THEN q ELSE ScanCopy(how, q)
        c == Next1(p)
    IN  IF q.error # "none" \/ q.done THEN q
        ELSE CASE c = Backslash -> ParseStringToStream(how, Escape(how, p))
               [] c = Quote -> [PutInto(how, Advance(p, 1), <<0>>) EXCEPT !.done = TRUE]
               [] c = 0 -> Fail(p, "MissQuotationMark", p.src)
               [] c \in 1 .. 31 -> Fail(p, "InvalidEncoding", p.src)
               [] OTHER -> ParseStringToStream(how, Plain(how, p))

\* ParseString: what the handler gets, without the terminator, from the buffer
\* or from the text that was written over.
ParseString(how, text) ==
    LET p == ParseStringToStream(how, Opened(text))
        length == Len(p.out) - 1
    IN  [str |-> CASE ~p.done -> <<>>
                   [] p.done /\ how.inSitu -> SubSeq(p.text, 2, length + 1)
                   [] p.done /\ ~how.inSitu -> SubSeq(p.out, 1, length),
         error |-> p.error, at |-> p.at, src |-> p.src]

-----------------------------------------------------------------------------
(* The writer.                                                             *)

HexDigit(n) == IF n < 10 THEN 48 + n ELSE 55 + n
Hex4(c) ==
    <<Backslash, LetterU, HexDigit(c \div 4096), HexDigit((c \div 256) % 16),
      HexDigit((c \div 16) % 16), HexDigit(c % 16)>>

\* One character: escaped as \uXXXX, or as a pair of them, for a target that
\* has no Unicode; escaped as the table says; or as it is.
WriteChar(how, s) ==
    LET c == Peek(s)
        d == Decode(how.source, s)
        pair == UTF16Encode(d.value)
        short == IF Escaped[c] = LetterU
                 THEN <<48, 48, HexDigit(c \div 16), HexDigit(c % 16)>> ELSE <<>>
    IN  CASE how.target = ASCII /\ c >= 128 ->
               Got(IF d.ok THEN FlattenSeq([k \in DOMAIN pair |-> Hex4(pair[k])]) ELSE <<>>,
                   d.ok, d.rest)
          [] (how.target # ASCII \/ c < 128) /\ c \in DOMAIN Escaped ->
               Got(<<Backslash, Escaped[c]>> \o short, TRUE, Rest(s))
          [] OTHER -> IF how.validate /\ how.source = how.target
                      THEN Validate(how.source, s)
                      ELSE Transcode(how.source, how.target, s)

\* From a position on; what the vector instructions copy comes first.
RECURSIVE WriteFrom(_, _, _)
WriteFrom(how, s, p) ==
    LET q == IF how.simd = "none" THEN p
             ELSE ScanWriteUnescapedString(how.simd, s, p, how.address)
        g == WriteChar(how, SubSeq(s, q + 1, Len(s)))
        after == IF g.ok THEN WriteFrom(how, s, Len(s) - Len(g.rest))
                 ELSE [out |-> <<>>, ok |-> FALSE]
    IN  IF q = Len(s) THEN [out |-> SubSeq(s, p + 1, q), ok |-> TRUE]
        ELSE [out |-> SubSeq(s, p + 1, q) \o g.value \o after.out, ok |-> after.ok]

WriteString(how, s) ==
    LET w == WriteFrom(how, s, 0)
    IN  [out |-> <<Quote>> \o w.out \o (IF w.ok THEN <<Quote>> ELSE <<>>), ok |-> w.ok]

-----------------------------------------------------------------------------
(* Properties.                                                             *)

Ways(source, target) ==
    {[source |-> source, target |-> target, inSitu |-> i, validate |-> v,
      apostrophe |-> FALSE, simd |-> d, address |-> a] :
        i \in IF source = target THEN BOOLEAN ELSE {FALSE}, v \in BOOLEAN,
        d \in IF source = UTF8 /\ target = UTF8 THEN {"none", "SSE", "NEON"} ELSE {"none"},
        a \in 0 .. BlockWidth - 1}
Sensible(how) ==
    /\ how.simd # "none" => ~how.validate
    /\ how.simd = "none" => how.address = 0

\* A text of code points that is written in any encoding, plain or in blocks,
\* is read again as it was, in a buffer or in place, up to its closing quote.
StringsRoundTrip(text) ==
    \A e \in {UTF8, UTF16LE}, f \in {UTF8, UTF16LE, ASCII} :
      \A writing \in {h \in Ways(e, f) : Sensible(h) /\ ~h.inSitu} :
        LET units == EncodeAll(e, text)
            written == WriteString(writing, units)
        IN  /\ written.ok
            /\ \A reading \in {h \in Ways(f, e) : Sensible(h)} :
                 ParseString(reading, written.out) =
                   [str |-> units, error |-> "none", at |-> 0, src |-> Len(written.out)]

\* Of any units behind a quote: in place and in a buffer, in blocks and one by
\* one, the reader finds the same string or the same error at the same place;
\* validated it finds no other string, if any, and one that other encodings can
\* express; and what it accepts it reads again when it was written.
StringsAgree(units) ==
    LET text == <<Quote>> \o units
        plain == [source |-> UTF8, target |-> UTF8, inSitu |-> FALSE, validate |-> FALSE,
                  apostrophe |-> FALSE, simd |-> "none", address |-> 0]
        read == ParseString(plain, text)
        validated == ParseString([plain EXCEPT !.validate = TRUE], text)
    IN  /\ \A how \in {h \in Ways(UTF8, UTF8) : Sensible(h)} :
             ParseString(how, text) = IF how.validate THEN validated ELSE read
        /\ validated.error = "none" => validated = read
        /\ read.error = "none" =>
             ParseString(plain, WriteString(plain, read.str).out).str = read.str
        /\ validated.error = "none" =>
             ParseString([plain EXCEPT !.target = UTF16LE], text).error = "none"

\* Escapes read into UTF-16 are the units they say; a high surrogate that no low
\* one follows at once is refused.
EscapesRead(units) ==
    LET text == <<Quote>> \o FlattenSeq([k \in DOMAIN units |-> Hex4(units[k])]) \o <<Quote>>
        read == ParseString([source |-> UTF8, target |-> UTF16LE, inSitu |-> FALSE,
                             validate |-> FALSE, apostrophe |-> FALSE, simd |-> "none",
                             address |-> 0], text)
        Low(k) == k \in DOMAIN units /\ units[k] \in LowSurrogates
    IN  IF \A k \in DOMAIN units : units[k] \in HighSurrogates => Low(k + 1)
        THEN read.error = "none" /\ read.str = units
        ELSE read.error = "UnicodeSurrogateInvalid"
=============================================================================
