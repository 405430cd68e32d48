------------------------------ MODULE JsonScan ------------------------------
(***************************************************************************)
(* How the reader and the writer of rapidjson skip over what needs no      *)
(* attention: spaces, comments, characters that are copied as they are.    *)
(* Built with vector instructions they test a block of characters at once, *)
(* from an aligned address on. Positions in a text count from 0; behind    *)
(* its end there are zeros.                                                *)
(***************************************************************************)
EXTENDS Naturals, Sequences, FiniteSetsExt

CONSTANT BlockWidth     \* the characters of a block: 16, even

Bytes == 0 .. 255
Spaces == {32, 10, 13, 9}
Special == {34, 92} \cup 0 .. 31       \* " \ and what must be escaped
Slash == 47
Star == 42

At(s, p) == IF p + 1 \in DOMAIN s THEN s[p + 1] ELSE 0
Found(s, p, q, stops) == {k \in p .. q - 1 : At(s, k) \in stops}

\* One character after the other, to a character of stops or to the end.
ScanTo(s, p, end, stops) == Min(Found(s, p, end, stops) \cup {end})

\* SSE2 and SSE4.2: the first bit of the mask of a block, BlockWidth if none is set.
FirstInLow(s, p, stops) ==
    Min({k - p : k \in Found(s, p, p + BlockWidth \div 2, stops)} \cup {BlockWidth})

FirstInBlock(s, p, stops) ==
    Min({k - p : k \in Found(s, p, p + BlockWidth, stops)} \cup {BlockWidth})

\* NEON: the leading zeros of the low and of the high half.
FirstInHalves(s, p, stops) ==
    LET half == BlockWidth \div 2
        low == Found(s, p, p + half, stops)
        high == Found(s, p + half, p + BlockWidth, stops)
    IN  CASE low # {} -> Min(low) - p
          [] low = {} /\ high # {} -> half + (Min(high) - (p + half))
          [] low = {} /\ high = {} -> BlockWidth

First(simd, s, p, stops) ==
    IF simd = "NEON" THEN FirstInHalves(s, p, stops) ELSE FirstInBlock(s, p, stops)

\* Blocks up to end, from one that holds a stop on character by character.
RECURSIVE ScanBlocks(_, _, _, _, _)
ScanBlocks(simd, s, p, end, stops) ==
    LET first == First(simd, s, p, stops)
    IN  IF p + BlockWidth > end THEN p
        ELSE IF first # BlockWidth THEN p + first
        ELSE ScanBlocks(simd, s, p + BlockWidth, end, stops)

\* The next aligned address, seen from the text at address.
NextAligned(p, address) ==
    ((address + p + BlockWidth - 1) \div BlockWidth) * BlockWidth - address

\* There is a zero, which is a stop, at the latest behind the text.
ScanAligned(simd, s, p, address, stops) ==
    LET next == NextAligned(p, address)
        found == ScanTo(s, p, next, stops)
    IN  IF found # next THEN found
        ELSE ScanBlocks(simd, s, next, Len(s) + 2 * BlockWidth, stops)

-----------------------------------------------------------------------------
(* The reader.                                                             *)

SkipWhitespace(s, p, end) == ScanTo(s, p, end, Bytes \ Spaces)

\* SkipWhitespace_SIMD of a text that ends with a zero, and of one with an end.
SkipWhitespaceSIMD(simd, s, p, address) ==
    IF At(s, p) \notin Spaces THEN p
    ELSE ScanAligned(simd, s, p + 1, address, Bytes \ Spaces)

SkipWhitespaceToEnd(simd, s, p, end) ==
    LET q == ScanBlocks(simd, s, p + 1, end, Bytes \ Spaces)
    IN  IF p = end \/ At(s, p) \notin Spaces THEN p
        ELSE SkipWhitespace(s, q, end)

\* SkipWhitespaceAndComments: the position behind, or that of the error.
RECURSIVE SkipComment(_, _), SkipWhitespaceAndComments(_, _)
SkipComment(s, p) ==
    CASE At(s, p) = 0 -> [at |-> p, ok |-> FALSE]
      [] At(s, p) = Star /\ At(s, p + 1) = Slash -> [at |-> p + 2, ok |-> TRUE]
      [] OTHER -> SkipComment(s, p + 1)
SkipLine(s, p) == Min({Len(s)} \cup {k + 1 : k \in {k \in p .. Len(s) : At(s, k) = 10}})

SkipWhitespaceAndComments(s, p) ==
    LET at == SkipWhitespace(s, p, Len(s))
        comment == SkipComment(s, at + 2)
    IN  CASE At(s, at) # Slash -> [at |-> at, ok |-> TRUE]
          [] At(s, at) = Slash /\ At(s, at + 1) = Star ->
               IF comment.ok THEN SkipWhitespaceAndComments(s, comment.at) ELSE comment
          [] At(s, at) = Slash /\ At(s, at + 1) = Slash ->
               SkipWhitespaceAndComments(s, SkipLine(s, at + 2))
          [] OTHER -> [at |-> at + 1, ok |-> FALSE]

-----------------------------------------------------------------------------
(* The writer.                                                             *)

\* ScanWriteUnescapedString: how far the string is copied as it is. Up to the
\* first aligned address plain chars are compared, which are signed with SSE.
ScanWriteUnescapedString(simd, s, p, address) ==
    LET end == Len(s)
        next == NextAligned(p, address)
        endAligned == ((address + end) \div BlockWidth) * BlockWidth - address
        signed == IF simd = "SSE" THEN 128 .. 255 ELSE {}
        found == ScanTo(s, p, next, Special \cup signed)
    IN  IF end < BlockWidth \/ next > end THEN p
        ELSE IF found # next THEN found
        ELSE ScanBlocks(simd, s, next, endAligned, Special)

-----------------------------------------------------------------------------
(* Properties.                                                             *)

\* Spaces end where they end character by character,
\* whatever the instructions and the address of the text.
ReaderScans(s, p, simd, address) ==
    LET end == Len(s)
    IN  /\ SkipWhitespaceSIMD(simd, s, p, address) = SkipWhitespace(s, p, end)
        /\ SkipWhitespaceToEnd(simd, s, p, end) = SkipWhitespace(s, p, end)

\* The writer may stop early, but copies nothing that it must escape.
WriterScans(s, p, simd, address) ==
    LET q == ScanWriteUnescapedString(simd, s, p, address)
    IN  q \in p .. Len(s) /\ Found(s, p, q, Special) = {}

\* Without a slash there is no comment; a block comment ends with the first
\* closing mark that starts behind its opening one, and is an error without.
CommentsEnd(s) ==
    LET after == SkipWhitespaceAndComments(s, 0)
        opened == SkipWhitespace(s, 0, Len(s))
        closings == {k \in opened + 2 .. Len(s) - 2 :
                       At(s, k) = Star /\ At(s, k + 1) = Slash}
    IN  /\ Slash \notin {s[n] : n \in DOMAIN s} =>
             after = [at |-> opened, ok |-> TRUE]
        /\ At(s, opened) = Slash /\ At(s, opened + 1) = Star =>
             after = IF closings = {} THEN [at |-> Len(s), ok |-> FALSE]
                     ELSE SkipWhitespaceAndComments(s, Min(closings) + 2)

ScansAgree(s) ==
    /\ \A p \in 0 .. Len(s), simd \in {"SSE", "NEON"}, address \in 0 .. BlockWidth - 1 :
         ReaderScans(s, p, simd, address) /\ WriterScans(s, p, simd, address)
    /\ CommentsEnd(s)
=============================================================================
