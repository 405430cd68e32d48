------------------------------- MODULE MCJson -------------------------------
(***************************************************************************)
(* JSON texts, lexeme by lexeme and piece by piece. About the lexemes the  *)
(* machines of JsonReader step; about the pieces (of strings, comments,    *)
(* encodings, pointers, numbers) every text of a few of them is one state, *)
(* and what its conversions give is checked when it is complete.           *)
(***************************************************************************)
EXTENDS JsonReader

VARIABLES topic, pieces

Strings == INSTANCE JsonStrings WITH BlockWidth <- 4
Pointers == INSTANCE JsonPointer WITH SizeWidth <- 8
Numbers == INSTANCE JsonNumbers
    WITH IntWidth <- 5, Int64Width <- 14, FastWidth <- 6, MaxDigits <- 3,
         MaxExponent <- 25, MaxInt <- 1023, MaxPower <- 5, IntegralPlaces <- 6,
         SmallPlaces <- 3, Radix <- 2
Integers64 == INSTANCE JsonBigInteger
    WITH kTypeBit <- 10, kMaxDigitPerIteration <- 3, WidePower <- 4, NarrowPower <- 2

MCCode ==
    "a" :> 97 @@ "b" :> 98 @@ "c" :> 99 @@ "-" :> 45 @@ "]" :> 93 @@ "^" :> 94
    @@ "\n" :> 10 @@ "backspace" :> 8 @@ "}" :> 125 @@ "2" :> 50 @@ "." :> 46
Regexes == INSTANCE JsonRegex WITH CodeOf <- MCCode, UnsignedWidth <- 4

ASSUME Limits ==
    /\ Pointers!SizeHasBits /\ Numbers!NumberLimits /\ Integers64!WordLimits
    /\ Regexes!RegexAssumption

MCLexemes == {"[", "]", "{", "}", ",", ":", "string", "number", "brokenString",
              "garbage", "brokenComment", "eof", "spaces"}
MCFlags == {"trailingCommas", "stopWhenDone", "comments", "singleLineArray"}

Units(set) == {<<c>> : c \in set}

\* The tokens of regular expressions, a quantifier or a class one token, and a
\* group; and the characters of classes.
Tokens ==
    Units(Units({"a", "b", ".", "|", "(", ")", "*", "?", "+", "^", "$"}))
    \cup Units({<<"{", "2", "}">>, <<"{", "0", "}">>, <<"{", "1", ",", "}">>,
               <<"{", "0", ",", "2", "}">>, <<"[", "^", "a", "]">>})
    \cup {<<<<"(">>, <<"a">>, <<"|">>, <<"b">>, <<")">>>>}
ClassTokens ==
    Units(Units({"a", "c", "-", "^"}) \cup {<<"\\", c>> : c \in {"]", "n", "b"}})

\* The pieces of each topic and how many a text has at most. Code points and
\* bytes are those next to the limits of each length and of the surrogates; the
\* pieces of strings, escapes whole and broken; of numbers, the digits at which
\* the limits lie.
Pieces ==
    [text |-> Units({0, 65, 127, 128, 2047, 2048, 55295, 57344, 65279, 65535, 65536, 1114111}),
     bytes |-> Units({65, 127, 128, 143, 144, 159, 160, 191, 193, 194, 223, 224, 225,
                      237, 239, 240, 241, 244, 245}),
     scan |-> Units({32, 65, 34, 200}),
     comment |-> Units({47, 42, 10, 32, 65}),
     write |-> Units({0, 8, 31, 34, 92, 65, 233, 65536}),
     read |-> {<<92, 117, 68, 56, 48, 48>>, <<92, 117, 68, 67, 48, 48>>,
               <<92, 117, 48, 48, 52, 49>>, <<92, 117, 68>>, <<92>>, <<34>>, <<92, 110>>,
               <<65>>, <<65, 66, 67, 68, 69>>, <<195, 169>>, <<237>>, <<1>>, <<0>>},
     escapes |-> Units({8, 65, 55296, 56319, 56320, 57343, 65535}),
     pointer |-> Units({47, 35, 126, 48, 49, 97, 32, 195})
                 \cup {<<37, 55, 69>>, <<37, 67, 51>>, <<37, 65, 57>>, <<37, 50, 102>>,
                       <<37, 52>>, <<50, 53>>, <<195, 169>>},
     number |-> Units({48, 51, 55, 45, 46, 101, 105})
                \cup {<<57, 57, 57>>, <<48, 48>>, <<101, 50>>, <<101, 45, 49>>,
                      <<101, 51, 57>>, Numbers!NaN, Numbers!Inf, SubSeq(Numbers!Infinity, 4, 8)},
     integer |-> {<<0, 0, 0, 0>>, <<0, 0, 0, 1>>, <<1, 0, 0, 0>>, <<1, 1, 1, 1>>,
                  <<0, 1, 1, 0>>, <<1>>},
     regex |-> Tokens,
     class |-> ClassTokens,
     double |-> Units({48, 49, 57}),
     decimals |-> Units({0, 1, 2, 4, 7, 9})]
Longest ==
    [text |-> 3, bytes |-> 4, scan |-> 6, comment |-> 5, write |-> 3, read |-> 3,
     escapes |-> 4, regex |-> 4, class |-> 5, pointer |-> 4, number |-> 5, integer |-> 4, double |-> 3,
     decimals |-> 5]

MaxNumber == 8   \* characters of a number, so that its value is one of TLC's

input == FlattenSeq(pieces)

MCInit ==
    /\ Init /\ pieces = <<>>
    /\ topic = "lexemes" \/ (topic \in DOMAIN Pieces /\ flags = {})

Words(letters, n) == UNION {[1 .. k -> letters] : k \in 0 .. n}
TextsRead == Words({"a", "b", "c"}, 2) \cup Words({"a", "b"}, 3) \cup {<<"a", "b", "a", "b">>}
ReadByClasses == {<<>>, <<"a", "a">>} \cup Units(DOMAIN MCCode)

\* A text grows by a piece, or it is complete and is converted.
Grow ==
    /\ topic \in DOMAIN Pieces /\ Len(pieces) < Longest[topic]
    /\ \E piece \in Pieces[topic] :
          /\ topic = "number" => Len(input \o piece) <= MaxNumber
          /\ pieces' = Append(pieces, piece)
    /\ UNCHANGED <<vars, topic>>
Convert ==
    /\ topic \in DOMAIN Pieces
    /\ topic' = "converted" /\ pieces' = <<>>
    /\ UNCHANGED vars

MCNext ==
    \/ topic = "lexemes" /\ Next /\ UNCHANGED <<topic, pieces>>
    \/ Grow \/ Convert

MCSpec == MCInit /\ [][MCNext]_<<vars, topic, pieces>>

-----------------------------------------------------------------------------

SomePointers ==
    {<<47>>, <<47, 48>>, <<47, 49>>, <<47, 97, 98>>, <<47, 98, 97>>, <<47, 47>>,
     <<47, 49, 47, 98>>, <<48>>}

TextConverts ==
    /\ topic = "text" => /\ Strings!EncodingsInvert(input, <<>>)
                         /\ Strings!DetectsEncoding(input)
    /\ topic = "bytes" => Strings!EncodingsInvert(<<>>, input)
    /\ topic \in {"scan", "comment"} => Strings!ScansAgree(input)
    /\ topic = "write" => Strings!StringsRoundTrip(input)
    /\ topic = "read" => Strings!StringsAgree(input)
    /\ topic = "escapes" => Strings!EscapesRead(input)
    /\ topic = "regex" => Regexes!RegexMeans(input, TextsRead)
    /\ topic = "class" => Regexes!ClassMeans(input, ReadByClasses)
    /\ topic = "pointer" =>
         /\ Pointers!TextsOfPointers(input) /\ Pointers!IndicesOfPointers(input)
         /\ Len(pieces) < 4 => Pointers!PointersAreOrdered(SomePointers \cup {input})

\* Texts are what they were after they were encoded, escaped, scanned in blocks
\* or taken apart, every way of reading one finds the same, and a regular expression
\* finds what it says (JsonEncodings, JsonScan, JsonStrings, JsonPointer, JsonRegex).
TextsConvert == [][topic' = "converted" => TextConverts]_topic

Others ==
    {<<0>>, <<1>>, <<1, 0, 2, 3>>, <<1, 0, 2, 4>>, <<2, 0, 4, 7>>, <<9, 9, 9, 9, 9, 9>>,
     <<1, 0, 4, 7, 5, 5, 2>>}

NumberConverts ==
    /\ topic = "number" => Numbers!NumbersRead(input)
    /\ topic = "integer" => Numbers!IntegersWritten(Numbers!IntegerOf(input))
    /\ topic = "double" /\ input # <<>> /\ Head(input \o <<0>>) # 48 =>
         \A k \in -9 .. 8, places \in {1, 2, 4, 20} : Numbers!DoublesWritten(input, k, places)
    /\ topic = "decimals" /\ input # <<>> =>
         /\ Integers64!IntegersExact(input, Others, {0, 1, 2, 31, 32, 500, 992, 1023})
         /\ Len(input) < 4 => Integers64!RoundsToNearest(input, 8 .. 15, -3 .. 3)

\* Numbers are what their digits say, read and written, and the wide integers
\* that decide the rounding are exact (JsonNumbers, JsonBigInteger).
NumbersConvert == [][topic' = "converted" => NumberConverts]_topic
=============================================================================
