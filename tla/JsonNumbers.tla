---------------------------- MODULE JsonNumbers ----------------------------
(***************************************************************************)
(* Numbers of JSON texts: how the reader finds the narrowest type that     *)
(* holds one, how integers and doubles are written. A double is an integer *)
(* and a power of ten: what binary rounding adds to it is left out. The    *)
(* widths, limits and numbers of digits of the code are parameters, so     *)
(* that small texts reach all of them.                                     *)
(***************************************************************************)
EXTENDS Integers, Sequences, SequencesExt, FiniteSets

CONSTANTS
    IntWidth,        \* 32
    Int64Width,      \* 64
    FastWidth,       \* 53: the bits of a double's significand
    MaxDigits,       \* 17: fraction digits are dropped behind so many
    MaxExponent,     \* 308
    MaxInt,          \* 2^31 - 1
    MaxPower,        \* 22: powers of ten that a double holds exactly
    IntegralPlaces,  \* 21: doubles are written without exponent up to here
    SmallPlaces,     \* 6: and from 10^-6 on
    Radix            \* 10: that of the integers written, in pairs of digits

NumberLimits ==
    /\ {IntWidth, Int64Width, FastWidth, MaxDigits, MaxExponent, MaxInt, MaxPower,
        IntegralPlaces, SmallPlaces, Radix} \subseteq Nat \ {0}
    /\ IntWidth < Int64Width /\ FastWidth < Int64Width /\ Radix > 1
    /\ 2 ^ FastWidth < 10 ^ (MaxDigits - 1)

Zero == 48
Digits == 48 .. 57
Minus == 45
Plus == 43
Dot == 46
Exp == {101, 69}

MaxOf(neg, width) == IF neg THEN 2 ^ (width - 1) ELSE 2 ^ width - 1
MinInt == -(MaxInt + 1)

-----------------------------------------------------------------------------
(* ParseNumber. A parse is a record: the text and how much of it is read,  *)
(* the sign, the type so far, the integer v with its power, the digits     *)
(* that count, the exponent, and where an error was found. How: whether    *)
(* NaN and Inf are read, whether the processor has 64 bits, whether all    *)
(* digits are kept, whether numbers are passed on as strings.              *)

Ch(p) == IF p.src + 1 \in DOMAIN p.s THEN p.s[p.src + 1] ELSE 0
DigitNext(p) == Ch(p) \in Digits
Skip(p, n) == [p EXCEPT !.src = @ + n]
AddDigit(p) == [Skip(p, 1) EXCEPT !.v = @ * 10 + (Ch(p) - Zero)]
Error(p, what, at) == [p EXCEPT !.error = what, !.at = at]
Consumed(p, word) == IsPrefix(word, SubSeq(p.s, p.src + 1, Len(p.s)))

\* Digits as long as the result fits, the first of them is not counted.
FitsLoose(p, max) == p.v <= max \div 10
Fits(p, max) ==
    p.v < max \div 10 \/ (p.v = max \div 10 /\ Ch(p) - Zero <= max % 10)

RECURSIVE DigitsUpTo(_, _)
DigitsUpTo(p, max) ==
    IF DigitNext(p) /\ Fits(p, max)
    THEN DigitsUpTo([AddDigit(p) EXCEPT !.significandDigit = @ + 1], max) ELSE p
RECURSIVE AllDigits(_)
AllDigits(p) == IF DigitNext(p) THEN AllDigits(AddDigit(p)) ELSE p

\* The integer part: in 32 bits, then in 64, then as a double.
IntegerPart(p) ==
    LET one == DigitsUpTo(AddDigit(p), MaxOf(p.neg, IntWidth))
        two == DigitsUpTo([one EXCEPT !.type = "Int64"], MaxOf(p.neg, Int64Width))
    IN  IF Ch(p) = Zero THEN Skip(p, 1)
        ELSE IF ~DigitNext(one) THEN one
        ELSE IF ~DigitNext(two) THEN two
        ELSE AllDigits([two EXCEPT !.type = "Double"])

\* NaN, Inf and Infinity; in another word the error is behind what was right.
NaN == <<78, 97, 78>>
Inf == <<73, 110, 102>>
Infinity == Inf \o <<105, 110, 105, 116, 121>>

Matched(p, word) ==
    LET right == {n \in 0 .. Len(word) : Consumed(p, SubSeq(word, 1, n))}
    IN  CHOOSE n \in right : \A k \in right : k <= n
NanOrInf(p) ==
    CASE Consumed(p, NaN) -> [Skip(p, 3) EXCEPT !.type = "NaN"]
      [] Consumed(p, Infinity) -> [Skip(p, 8) EXCEPT !.type = "Inf"]
      [] Consumed(p, Inf) /\ ~Consumed(p, SubSeq(Infinity, 1, 4)) ->
           [Skip(p, 3) EXCEPT !.type = "Inf"]
      [] OTHER ->
           LET word == IF Ch(p) = NaN[1] THEN NaN ELSE Infinity
           IN  Error(p, "ValueInvalid", p.src + Matched(p, word))

\* The fraction: up to 2^53 in an integer where there are 64 bits, then as long
\* as digits count.
RECURSIVE FastDigits(_), SlowDigits(_)
FastDigits(p) ==
    LET q == AddDigit(p)
    IN  IF DigitNext(p) /\ p.v < 2 ^ FastWidth
        THEN FastDigits([q EXCEPT !.expFrac = @ - 1,
                                  !.significandDigit = @ + (IF q.v > 0 THEN 1 ELSE 0)])
        ELSE p
SlowDigits(p) ==
    LET q == AddDigit(p)
    IN  IF ~DigitNext(p) THEN p
        ELSE IF p.significandDigit >= MaxDigits THEN SlowDigits(Skip(p, 1))
        ELSE SlowDigits([q EXCEPT !.expFrac = @ - 1,
                                  !.significandDigit = @ + (IF q.v > 0 THEN 1 ELSE 0)])

Fraction(is64, p) ==
    LET q == Skip(p, 1)
    IN  IF Ch(p) # Dot THEN p
        ELSE IF ~DigitNext(q) THEN Error(q, "MissFraction", q.src)
        ELSE SlowDigits([(IF is64 /\ q.type # "Double" THEN FastDigits(q) ELSE q)
                            EXCEPT !.type = "Double"])

\* The exponent: one too large is an error, of one too small the rest is skipped.
RECURSIVE ExponentDigits(_, _)
ExponentDigits(p, max) ==
    LET q == [Skip(p, 1) EXCEPT !.exp = @ * 10 + (Ch(p) - Zero)]
    IN  IF ~DigitNext(p) \/ p.exp > max THEN p ELSE ExponentDigits(q, max)
RECURSIVE SkipDigits(_)
SkipDigits(p) == IF DigitNext(p) THEN SkipDigits(Skip(p, 1)) ELSE p

LastExponent(p, negative) ==
    IF negative THEN (p.expFrac + (MaxInt - 8)) \div 10 ELSE MaxExponent - p.expFrac

Exponent(p) ==
    LET negative == Ch(Skip(p, 1)) = Minus
        signed == Skip(p, IF Ch(Skip(p, 1)) \in {Minus, Plus} THEN 2 ELSE 1)
        first == [Skip(signed, 1) EXCEPT !.exp = Ch(signed) - Zero, !.type = "Double"]
        q == ExponentDigits(first, LastExponent(p, negative))
    IN  CASE Ch(p) \notin Exp -> p
          [] Ch(p) \in Exp /\ ~DigitNext(signed) -> Error(signed, "MissExponent", signed.src)
          [] Ch(p) \in Exp /\ DigitNext(signed) ->
               IF negative THEN SkipDigits([q EXCEPT !.exp = -@])
               ELSE IF q # first /\ q.exp > LastExponent(p, FALSE) THEN Error(q, "TooBig", 0)
               ELSE q

DigitsOf(v) == IF v = 0 THEN 0 ELSE CHOOSE n \in 1 .. 10 : 10 ^ (n - 1) <= v /\ v \div 10 ^ (n - 1) < 10
RECURSIVE Scaled(_, _)
Scaled(v, power) ==
    CASE v = 0 -> [v |-> 0, power |-> 0]
      [] v > 0 /\ v % 10 = 0 -> Scaled(v \div 10, power + 1)
      [] v > 0 /\ v % 10 # 0 -> [v |-> v, power |-> power]

\* StrtodNormalPrecision: of a number below 10^-616 nothing is left.
NormalPrecision(p) ==
    IF p.exp + p.expFrac < -2 * MaxExponent THEN Scaled(0, 0)
    ELSE Scaled(p.v, p.exp + p.expFrac)

\* StrtodFullPrecision, from all digits. The digits are trimmed on both sides.
FullPrecision(p, mantissa) ==
    LET ds == SelectSeq(mantissa, LAMBDA c : c \in Digits)
        dots == {k \in DOMAIN mantissa : mantissa[k] = Dot}
        dExpAdjust == IF dots = {} THEN 0
                      ELSE Len(mantissa) - (CHOOSE k \in dots : TRUE)
        power == p.exp + p.expFrac
        Add(v, d) == v * 10 + (d - Zero)
        exact == Scaled(FoldLeft(Add, 0, ds), p.exp - dExpAdjust)
        top == DigitsOf(exact.v) + exact.power
    IN  IF power \in -MaxPower .. MaxPower /\ p.v < 2 ^ FastWidth
        THEN Scaled(p.v, power)
        ELSE IF top <= -(MaxExponent + 16) THEN Scaled(0, 0) ELSE exact

\* The value, if a double can hold it.
Finish(how, p, mantissa) ==
    LET d == IF how.full THEN FullPrecision(p, mantissa) ELSE NormalPrecision(p)
    IN  CASE p.error # "none" -> p
          [] p.error = "none" /\ p.type = "Double" ->
               IF DigitsOf(d.v) + d.power > MaxExponent + 1 THEN Error(p, "TooBig", 0)
               ELSE [p EXCEPT !.v = d.v, !.expFrac = d.power]
          [] OTHER -> p

\* What is read before the value is made: NaN and Inf may be followed by a
\* fraction or an exponent, and are zero then.
ScanNumber(how, s) ==
    LET start == [s |-> s, src |-> IF IsPrefix(<<Minus>>, s) THEN 1 ELSE 0,
                  neg |-> IsPrefix(<<Minus>>, s), type |-> "Int", v |-> 0, expFrac |-> 0,
                  exp |-> 0, significandDigit |-> 0, error |-> "none", at |-> 0]
        integer == CASE DigitNext(start) -> IntegerPart(start)
                     [] ~DigitNext(start) /\ how.nan /\ Ch(start) \in {NaN[1], Inf[1]} ->
                          NanOrInf(start)
                     [] OTHER -> Error(start, "ValueInvalid", start.src)
        fraction == IF integer.error = "none" THEN Fraction(how.is64, integer) ELSE integer
    IN  [p |-> IF fraction.error = "none" THEN Exponent(fraction) ELSE fraction,
         mantissa |-> SubSeq(s, start.src + 1, fraction.src)]

\* ParseNumber: the type the handler is told, the value, or the error.
ParseNumber(how, s) ==
    LET scan == ScanNumber(how, s)
    IN  IF how.strings /\ scan.p.error = "none" THEN [scan.p EXCEPT !.type = "RawNumber"]
        ELSE Finish(how, scan.p, scan.mantissa)

-----------------------------------------------------------------------------
(* itoa: groups of digits, looked up in pairs, without the leading zeros.  *)

Pair(n) == <<n \div Radix, n % Radix>>
Group4(n) == Pair(n \div Radix ^ 2) \o Pair(n % Radix ^ 2)
Group8(n) == Group4(n \div Radix ^ 4) \o Group4(n % Radix ^ 4)

\* A digit is written if the value reaches its place; the last one always is.
Significant(ds, value) ==
    LET places == {k \in 1 .. Len(ds) - 1 : value >= Radix ^ k}
    IN  SubSeq(ds, Len(ds) - Cardinality(places), Len(ds))

u32toa(value) ==
    LET a == value \div Radix ^ 8
    IN  CASE value < Radix ^ 4 -> Significant(Group4(value), value)
          [] value \in Radix ^ 4 .. Radix ^ 8 - 1 -> Significant(Group8(value), value)
          [] value >= Radix ^ 8 ->
               (IF a >= Radix THEN Pair(a) ELSE <<a>>) \o Group8(value % Radix ^ 8)

u64toa(value) ==
    LET a == value \div Radix ^ 16
        rest == value % Radix ^ 16
        high == CASE a < Radix -> <<a>>
                  [] a \in Radix .. Radix ^ 2 - 1 -> Pair(a)
                  [] a \in Radix ^ 2 .. Radix ^ 3 - 1 -> <<a \div Radix ^ 2>> \o Pair(a % Radix ^ 2)
                  [] a >= Radix ^ 3 -> Pair(a \div Radix ^ 2) \o Pair(a % Radix ^ 2)
    IN  CASE value < Radix ^ 4 -> Significant(Group4(value), value)
          [] value \in Radix ^ 4 .. Radix ^ 8 - 1 -> Significant(Group8(value), value)
          [] value \in Radix ^ 8 .. Radix ^ 16 - 1 ->
               Significant(Group8(value \div Radix ^ 8) \o Group8(value % Radix ^ 8), value)
          [] value >= Radix ^ 16 ->
               high \o Group8(rest \div Radix ^ 8) \o Group8(rest % Radix ^ 8)

-----------------------------------------------------------------------------
(* dtoa: the digits of a double and their power of ten as Grisu2 gives     *)
(* them, turned into text.                                                 *)

Zeros(n) == [k \in 1 .. n |-> Zero]

WriteExponent(K) ==
    LET n == IF K < 0 THEN -K ELSE K
        ds == CASE n >= 100 -> <<n \div 100, (n \div 10) % 10, n % 10>>
                [] n \in 10 .. 99 -> <<n \div 10, n % 10>>
                [] n < 10 -> <<n>>
    IN  (IF K < 0 THEN <<Minus>> ELSE <<>>) \o [k \in DOMAIN ds |-> Zero + ds[k]]

\* Decimals cut to a number of places, without the zeros at the end but one.
Cut(decimals, places) ==
    LET kept == {k \in 2 .. places : decimals[k] # Zero} \cup {1}
    IN  SubSeq(decimals, 1, CHOOSE k \in kept : \A n \in kept : n <= k)

Prettify(digits, k, maxDecimalPlaces) ==
    LET length == Len(digits)
        kk == length + k
        Decimals(ds) == IF Len(ds) > maxDecimalPlaces THEN Cut(ds, maxDecimalPlaces) ELSE ds
        rest == IF length = 1 THEN <<>> ELSE <<Dot>> \o Tail(digits)
    IN  CASE k >= 0 /\ kk <= IntegralPlaces -> digits \o Zeros(k) \o <<Dot, Zero>>
          [] k < 0 /\ kk \in 1 .. IntegralPlaces ->
               SubSeq(digits, 1, kk) \o <<Dot>> \o Decimals(SubSeq(digits, kk + 1, length))
          [] kk \in 1 - SmallPlaces .. 0 -> <<Zero, Dot>> \o Decimals(Zeros(-kk) \o digits)
          [] OTHER -> IF kk < -maxDecimalPlaces THEN <<Zero, Dot, Zero>>
                      ELSE <<digits[1]>> \o rest \o <<101>> \o WriteExponent(kk - 1)

dtoa(neg, digits, k, maxDecimalPlaces) ==
    (IF neg THEN <<Minus>> ELSE <<>>)
    \o (IF digits = <<>> THEN <<Zero, Dot, Zero>> ELSE Prettify(digits, k, maxDecimalPlaces))

-----------------------------------------------------------------------------
(* Properties.                                                             *)

\* The grammar: where the parts of a number end, and what it is worth.
RunEnd(s, at) == CHOOSE n \in at .. Len(s) :
    /\ \A k \in at + 1 .. n : s[k] \in Digits
    /\ n = Len(s) \/ s[n + 1] \notin Digits
Is(s, at, set) == at < Len(s) /\ s[at + 1] \in set

Parts(s) ==
    LET int == IF Is(s, 0, {Minus}) THEN 1 ELSE 0
        intEnd == IF Is(s, int, {Zero}) THEN int + 1 ELSE RunEnd(s, int)
        hasFraction == Is(s, intEnd, {Dot})
        fractionEnd == IF hasFraction THEN RunEnd(s, intEnd + 1) ELSE intEnd
        hasExponent == Is(s, fractionEnd, Exp)
        exponent == IF Is(s, fractionEnd + 1, {Plus, Minus}) THEN fractionEnd + 2
                    ELSE fractionEnd + 1
        Add(v, c) == IF c = Dot THEN v ELSE v * 10 + (c - Zero)
        size == FoldLeft(Add, 0, SubSeq(s, exponent + 1, RunEnd(s, exponent)))
    IN  [good |-> CASE ~Is(s, int, Digits) -> "ValueInvalid"
                    [] Is(s, int, Digits) /\ hasFraction /\ fractionEnd = intEnd + 1 -> "MissFraction"
                    [] OTHER -> IF hasExponent /\ ~Is(s, exponent, Digits) THEN "MissExponent"
                                ELSE "none",
         at |-> CASE ~Is(s, int, Digits) -> int
                  [] Is(s, int, Digits) /\ hasFraction /\ fractionEnd = intEnd + 1 -> intEnd + 1
                  [] OTHER -> exponent,
         end |-> IF hasExponent THEN RunEnd(s, exponent) ELSE fractionEnd,
         integral |-> ~hasFraction /\ ~hasExponent,
         v |-> FoldLeft(Add, 0, SubSeq(s, int + 1, fractionEnd)),
         places |-> IF hasFraction THEN fractionEnd - intEnd - 1 ELSE 0,
         exp |-> CASE ~hasExponent -> 0
                   [] hasExponent /\ Is(s, fractionEnd + 1, {Minus}) -> -size
                   [] OTHER -> size]

How(is64, full, strings) == [is64 |-> is64, full |-> full, strings |-> strings, nan |-> FALSE]

TypeOf(neg, v) ==
    CASE v <= MaxOf(neg, IntWidth) -> "Int"
      [] v > MaxOf(neg, IntWidth) /\ v <= MaxOf(neg, Int64Width) -> "Int64"
      [] v > MaxOf(neg, Int64Width) -> "Double"

\* With the flag, NaN, Inf and Infinity are read as a whole, and nothing else
\* that begins like them; what may follow is left open.
NanAndInfRead(s) ==
    LET p == ParseNumber([How(TRUE, FALSE, FALSE) EXCEPT !.nan = TRUE], s)
        int == IF Is(s, 0, {Minus}) THEN 1 ELSE 0
        After(w) == int + Len(w)
        words == {w \in {NaN, Inf, Infinity} :
                    /\ IsPrefix(w, SubSeq(s, int + 1, Len(s)))
                    /\ w = Inf => ~Is(s, After(w), {Infinity[4]})}
    IN  /\ Is(s, int, {NaN[1], Inf[1]}) /\ words = {} => p.error = "ValueInvalid"
        /\ \A w \in words : ~Is(s, After(w), {Dot} \cup Exp) =>
             p.error = "none" /\ p.src = After(w) /\ p.type \in {"NaN", "Inf"}

\* A number is what the grammar says, up to its end, or the error is where the
\* grammar says; an integer comes in the narrowest type, exact; a double is
\* exact, or with too many digits a little below; only what is too large for a
\* double is refused, and what is too small becomes zero.
Worth(p, g) ==
    LET exact == Scaled(g.v, g.exp - g.places)
        below == g.v - p.v * 10 ^ (p.expFrac - (g.exp - g.places))
    IN  \/ p.v = exact.v /\ p.expFrac = exact.power
        \/ p.v = 0 /\ DigitsOf(exact.v) + exact.power <= -(MaxExponent + 16)
        \/ p.v # 0 /\ below \in 0 .. g.v /\ below * 10 ^ (MaxDigits - 1) <= g.v

NumbersRead(s) ==
    /\ NanAndInfRead(s)
    /\ \A is64, full \in BOOLEAN :
        LET p == ParseNumber(How(is64, full, FALSE), s)
            raw == ParseNumber(How(is64, full, TRUE), s)
            scan == ScanNumber(How(is64, full, FALSE), s).p
            g == Parts(s)
            top == DigitsOf(g.v) + g.exp - g.places
        IN  /\ g.good # "none" => p.error = g.good /\ p.at = g.at /\ raw = p
            /\ g.good = "none" /\ p.error = "none" =>
                 /\ p.src = g.end /\ raw.src = g.end
                 /\ IF g.integral THEN p.type = TypeOf(p.neg, g.v) ELSE p.type = "Double"
                 /\ p.type # "Double" => p.v = g.v
                 /\ p.type = "Double" => /\ Worth(p, g)
                                         /\ full => p.v \in {0, Scaled(g.v, 0).v}
                 /\ scan.exp + scan.expFrac \in MinInt .. MaxExponent
            /\ g.good = "none" /\ p.error # "none" => p.error = "TooBig"
            /\ g.good = "none" /\ g.v # 0 =>
                 (p.error = "TooBig" <=> top > MaxExponent + 1)

\* Integers are written with the digits of their value, no zero in front, and
\* doubles so that they are read again as they were, or cut towards zero to the
\* places the writer was set to.
IntegerOf(ds) == LET Add(v, d) == v * Radix + d IN FoldLeft(Add, 0, ds)
IntegersWritten(v) ==
    \A ds \in {u32toa(v), u64toa(v)} :
        IntegerOf(ds) = v /\ (ds[1] = 0 => ds = <<0>>)

DoublesWritten(digits, k, places) ==
    LET text == dtoa(TRUE, digits, k, places)
        p == ParseNumber(How(TRUE, FALSE, FALSE), text)
        Add(v, c) == v * 10 + (c - Zero)
        v == FoldLeft(Add, 0, digits)
        kk == Len(digits) + k
        exponent == \E c \in Exp : c \in {text[n] : n \in DOMAIN text}
        cut == ~exponent /\ -k > places
    IN  /\ p.error = "none" /\ p.src = Len(text) /\ p.neg /\ p.type = "Double"
        /\ ~cut => [v |-> p.v, power |-> p.expFrac] = Scaled(v, k)
        /\ cut => [v |-> p.v, power |-> p.expFrac] = Scaled(v \div 10 ^ (-k - places), -places)
=============================================================================
