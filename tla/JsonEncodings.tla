--------------------------- MODULE JsonEncodings ---------------------------
(***************************************************************************)
(* The encodings of rapidjson: code points to code units and back, units   *)
(* to bytes and back, byte order marks, and the detection of an encoding   *)
(* from the first bytes of a text. A stream is the sequence of what is     *)
(* left in it; behind its end it gives zeros.                              *)
(***************************************************************************)
EXTENDS Naturals, Sequences, SequencesExt, FiniteSets

CodePoints == 0 .. 1114111               \* 0x10FFFF
HighSurrogates == 55296 .. 56319         \* 0xD800 .. 0xDBFF
LowSurrogates == 56320 .. 57343          \* 0xDC00 .. 0xDFFF
Surrogates == HighSurrogates \cup LowSurrogates

Peek(s) == IF s = <<>> THEN 0 ELSE Head(s)
Rest(s) == IF s = <<>> THEN s ELSE Tail(s)

\* What a function that reads leaves: its result, its verdict, the stream.
Got(value, ok, s) == [value |-> value, ok |-> ok, rest |-> s]

-----------------------------------------------------------------------------
(* UTF-8.                                                                  *)

UTF8Encode(c) ==
    CASE c <= 127 -> <<c>>
      [] c \in 128 .. 2047 -> <<192 + c \div 64, 128 + (c % 64)>>
      [] c \in 2048 .. 65535 ->
           <<224 + c \div 4096, 128 + ((c \div 64) % 64), 128 + (c % 64)>>
      [] c > 65535 ->
           <<240 + c \div 262144, 128 + ((c \div 4096) % 64),
             128 + ((c \div 64) % 64), 128 + (c % 64)>>

\* GetRange: the type of a byte. Bytes that continue a sequence are of three
\* types, each a bit of its own.
GetRange(byte) ==
    CASE byte < 128 -> 0
      [] byte \in 128 .. 143 -> 16
      [] byte \in 144 .. 159 -> 64
      [] byte \in 160 .. 191 -> 32
      [] byte \in 194 .. 223 -> 2
      [] byte = 224 -> 10
      [] byte \in (225 .. 239) \ {237} -> 3
      [] byte = 237 -> 4
      [] byte = 240 -> 11
      [] byte \in 241 .. 243 -> 6
      [] byte = 244 -> 5
      [] OTHER -> 8

Tail3 == {16, 32, 64}    \* RAPIDJSON_TAIL: mask 0x70

\* The types the bytes after a byte of each type must have.
FollowersLoose ==
    2 :> <<Tail3>> @@ 3 :> <<Tail3, Tail3>> @@ 4 :> <<Tail3, Tail3>>
    @@ 5 :> <<Tail3, Tail3, Tail3>> @@ 6 :> <<Tail3, Tail3, Tail3>>
    @@ 10 :> <<Tail3, Tail3>> @@ 11 :> <<Tail3, Tail3, Tail3>>

Followers ==
    2 :> <<Tail3>> @@ 3 :> <<Tail3, Tail3>> @@ 4 :> <<{16, 64}, Tail3>>
    @@ 5 :> <<{16}, Tail3, Tail3>> @@ 6 :> <<Tail3, Tail3, Tail3>>
    @@ 10 :> <<{32}, Tail3>> @@ 11 :> <<{32, 64}, Tail3, Tail3>>

\* The bits of the first byte that its type leaves to the code point.
LeadBits(byte) == IF GetRange(byte) > 8 THEN 0 ELSE byte % 2 ^ (8 - GetRange(byte))

\* Every follower is taken, whatever the verdict on the ones before it.
UTF8Decode(s) ==
    LET types == Followers[GetRange(s[1])]
        byte(n) == IF n \in DOMAIN s THEN s[n] ELSE 0
        Add(c, n) == c * 64 + (byte(n) % 64)
    IN  CASE Peek(s) < 128 -> Got(Peek(s), TRUE, Rest(s))
          [] GetRange(Peek(s)) \in DOMAIN Followers ->
               Got(FoldLeft(Add, LeadBits(s[1]), [n \in DOMAIN types |-> n + 1]),
                   \A n \in DOMAIN types : GetRange(byte(n + 1)) \in types[n],
                   SubSeq(s, Len(types) + 2, Len(s)))
          [] OTHER -> Got(0, FALSE, Rest(s))

\* The same way through the bytes, which are copied.
UTF8Validate(s) ==
    LET types == IF GetRange(Peek(s)) \in DOMAIN Followers
                 THEN Followers[GetRange(Peek(s))] ELSE <<>>
        byte(n) == IF n \in DOMAIN s THEN s[n] ELSE 0
    IN  Got([n \in 1 .. Len(types) + 1 |-> byte(n)],
            /\ Peek(s) < 128 \/ types # <<>>
            /\ \A n \in DOMAIN types : GetRange(byte(n + 1)) \in types[n],
            SubSeq(s, Len(types) + 2, Len(s)))

-----------------------------------------------------------------------------
(* UTF-16, UTF-32 and ASCII.                                               *)

UTF16Encode(c) ==
    IF c <= 65535 THEN <<c>>
    ELSE LET v == c - 65536 IN <<55296 + v \div 1024, 56320 + (v % 1024)>>

UTF16Decode(s) ==
    LET c == Peek(s)
        d == Peek(Rest(s))
    IN  CASE c \notin Surrogates -> Got(c, TRUE, Rest(s))
          [] c \in HighSurrogates ->
               Got((c % 1024) * 1024 + (d % 1024) + 65536, d \in LowSurrogates,
                   Rest(Rest(s)))
          [] c \in LowSurrogates -> Got(0, FALSE, Rest(s))

UTF16Validate(s) ==
    LET c == Peek(s)
        d == Peek(Rest(s))
    IN  IF c \in HighSurrogates THEN Got(<<c, d>>, d \in LowSurrogates, Rest(Rest(s)))
        ELSE Got(<<c>>, c \notin LowSurrogates, Rest(s))

\* Encode, Decode and Validate: a unit is a code point.
UTF32Encode(c) == <<c>>
UTF32Decode(s) == Got(Peek(s), Peek(s) \in CodePoints, Rest(s))
UTF32Validate(s) == Got(<<Peek(s)>>, Peek(s) \in CodePoints, Rest(s))

ASCIIEncode(c) == <<c>>
ASCIIDecode(s) == Got(Peek(s), Peek(s) <= 127, Rest(s))
ASCIIValidate(s) == Got(<<Peek(s)>>, Peek(s) <= 127, Rest(s))

-----------------------------------------------------------------------------
(* Units in bytes. An encoding has units of some bytes, the lowest first   *)
(* or last, and a byte order mark.                                         *)

UTF8 == [form |-> "UTF8", width |-> 1, lowFirst |-> TRUE, bom |-> <<239, 187, 191>>]
UTF16LE == [form |-> "UTF16", width |-> 2, lowFirst |-> TRUE, bom |-> <<255, 254>>]
UTF16BE == [form |-> "UTF16", width |-> 2, lowFirst |-> FALSE, bom |-> <<254, 255>>]
UTF32LE == [form |-> "UTF32", width |-> 4, lowFirst |-> TRUE, bom |-> <<255, 254, 0, 0>>]
UTF32BE == [form |-> "UTF32", width |-> 4, lowFirst |-> FALSE, bom |-> <<0, 0, 254, 255>>]
ASCII == [form |-> "ASCII", width |-> 1, lowFirst |-> TRUE, bom |-> <<>>]

\* AutoUTF and the encodings themselves: the functions of an encoding.
Encode(e, c) ==
    CASE e.form = "UTF8" -> UTF8Encode(c)
      [] e.form = "UTF16" -> UTF16Encode(c)
      [] e.form = "UTF32" -> UTF32Encode(c)
      [] e.form = "ASCII" -> ASCIIEncode(c)
Decode(e, s) ==
    CASE e.form = "UTF8" -> UTF8Decode(s)
      [] e.form = "UTF16" -> UTF16Decode(s)
      [] e.form = "UTF32" -> UTF32Decode(s)
      [] e.form = "ASCII" -> ASCIIDecode(s)
Validate(e, s) ==
    CASE e.form = "UTF8" -> UTF8Validate(s)
      [] e.form = "UTF16" -> UTF16Validate(s)
      [] e.form = "UTF32" -> UTF32Validate(s)
      [] e.form = "ASCII" -> ASCIIValidate(s)

\* Transcode between two encodings, and within one, where it copies a unit.
Transcode(e, f, s) ==
    LET d == Decode(e, s)
    IN  IF e = f THEN Got(<<Peek(s)>>, TRUE, Rest(s))
        ELSE Got(IF d.ok THEN Encode(f, d.value) ELSE <<>>, d.ok, d.rest)

Byte(e, n) == IF e.lowFirst THEN n - 1 ELSE e.width - n
Put(e, unit) == [n \in 1 .. e.width |-> (unit \div 256 ^ Byte(e, n)) % 256]
Take(e, s) ==
    LET Add(c, n) == c + Peek(SubSeq(s, n, n)) * 256 ^ Byte(e, n)
    IN  Got(FoldLeft(Add, 0, [n \in 1 .. e.width |-> n]), TRUE,
            SubSeq(s, e.width + 1, Len(s)))

\* A unit after the mark; of a mark that is not whole UTF-8 loses what there is.
TakeBOM(e, s) ==
    LET whole == Len(e.bom)
        after == SubSeq(s, whole + 1, Len(s))
        wrong == CHOOSE n \in 1 .. whole :
                   Peek(SubSeq(s, n, n)) # e.bom[n] /\ IsPrefix(SubSeq(e.bom, 1, n - 1), s)
    IN  CASE e.bom = <<>> -> Take(e, s)
          [] e.bom # <<>> /\ IsPrefix(e.bom, s) -> Take(e, after)
          [] e.bom # <<>> /\ ~IsPrefix(e.bom, s) ->
               IF e.form = "UTF8" THEN Take(e, SubSeq(s, wrong, Len(s))) ELSE Take(e, s)

-----------------------------------------------------------------------------
(* Streams of units over streams of bytes.                                 *)

\* EncodedInputStream: one unit ahead, the first after a mark.
RECURSIVE Units(_, _)
Units(e, s) ==
    IF s = <<>> THEN <<>> ELSE <<Take(e, s).value>> \o Units(e, Take(e, s).rest)
EncodedInput(e, s) ==
    LET first == TakeBOM(e, s) IN <<first.value>> \o Units(e, first.rest)

\* The one for UTF-8 in memory skips the bytes of the mark one by one.
EncodedMemory(s) ==
    LET Skip(t, byte) == IF Peek(t) = byte THEN Rest(t) ELSE t
    IN  FoldLeft(Skip, s, UTF8.bom)

EncodedOutput(e, units, putBOM) ==
    (IF putBOM THEN e.bom ELSE <<>>)
    \o FlattenSeq([n \in DOMAIN units |-> Put(e, units[n])])

\* DetectType: by the mark, the longer marks first, or else by the zeros of the
\* first four bytes; without four bytes, or another pattern of zeros, it is the
\* caller's.
Marked(s) ==
    LET Is(e) == IsPrefix(e.bom, s)
    IN  CASE Is(UTF32BE) -> UTF32BE
          [] Is(UTF32LE) -> UTF32LE
          [] Is(UTF16BE) -> UTF16BE
          [] Is(UTF16LE) /\ ~Is(UTF32LE) -> UTF16LE
          [] Is(UTF8) -> UTF8
          [] OTHER -> ASCII      \* none
DetectByMark(s, type) == IF Len(s) < 4 \/ Marked(s) = ASCII THEN type ELSE Marked(s)

DetectType(s, type) ==
    LET zeros == {n \in 1 .. 4 : s[n] = 0}
    IN  CASE Len(s) < 4 -> type
          [] Len(s) >= 4 /\ Marked(s) # ASCII -> Marked(s)
          [] Len(s) >= 4 /\ Marked(s) = ASCII ->
               CASE zeros = {1, 2, 3} -> UTF32BE
                 [] zeros = {1, 3} -> UTF16BE
                 [] zeros = {2, 3, 4} -> UTF32LE
                 [] zeros = {2, 4} -> UTF16LE
                 [] zeros = {} -> UTF8
                 [] OTHER -> type

\* AutoUTFInputStream: the units after the mark, in the encoding detected.
AutoInput(s, e) ==
    LET marked == Len(s) >= 4 /\ Marked(s) # ASCII
    IN  Units(e, IF marked THEN SubSeq(s, Len(e.bom) + 1, Len(s)) ELSE s)

-----------------------------------------------------------------------------
(* Properties, of a text of code points and of bytes.                      *)

Unicode == {UTF8, UTF16LE, UTF16BE, UTF32LE, UTF32BE}
RECURSIVE DecodeAll(_, _)
DecodeAll(e, units) ==
    IF units = <<>> THEN <<>>
    ELSE LET d == Decode(e, units) IN <<[value |-> d.value, ok |-> d.ok]>> \o DecodeAll(e, d.rest)
EncodeAll(e, text) == FlattenSeq([n \in DOMAIN text |-> Encode(e, text[n])])

\* What an encoding encodes it decodes and validates; bytes it accepts are
\* those it would have written: no overlong form, no surrogate, nothing above
\* the last code point, and what it validates it decodes.
EncodingsInvert(text, bytes) ==
    /\ \A e \in Unicode :
         DecodeAll(e, EncodeAll(e, text)) =
           [n \in DOMAIN text |-> [value |-> text[n], ok |-> TRUE]]
    /\ \A e \in Unicode, n \in DOMAIN text :
         LET v == Validate(e, Encode(e, text[n])) IN v.ok /\ v.value = Encode(e, text[n])
    /\ \A e \in {UTF8, ASCII} :
         LET d == Decode(e, bytes)
             v == Validate(e, bytes)
         IN  /\ v.ok = d.ok /\ v.rest = d.rest
             /\ d.ok => /\ d.value \in CodePoints /\ d.value \notin Surrogates
                        /\ v.value = Encode(e, d.value)
                        /\ \A f \in Unicode \ {e} : Transcode(e, f, bytes).value = Encode(f, d.value)

\* A text that is written with its mark is read in its encoding, whatever the
\* reader was told; without a mark it is if it begins with two ASCII characters,
\* as every JSON text of two characters or more does.
IsASCII(n) == n \in 1 .. 127
DetectsEncoding(text) ==
    \A e \in Unicode, told \in Unicode, putBOM \in BOOLEAN :
        LET units == EncodeAll(e, text)
            bytes == EncodedOutput(e, units, putBOM)
        IN  Len(bytes) >= 4 /\ Len(text) >= 2 /\ (putBOM \/ (IsASCII(text[1]) /\ IsASCII(text[2]))) =>
              /\ \/ DetectType(bytes, told) = e /\ AutoInput(bytes, e) = units
                 \/ e = UTF16LE /\ putBOM /\ text[1] = 0
              /\ EncodedInput(e, bytes) = units
              /\ e = UTF8 => EncodedMemory(bytes) = units
=============================================================================
