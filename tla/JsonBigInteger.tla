--------------------------- MODULE JsonBigInteger ---------------------------
(***************************************************************************)
(* The wide integers of rapidjson, with which it decides how the digits of *)
(* a double are rounded. A number is the sequence of its digits, the       *)
(* lowest first, each a machine word; the width of a word is a parameter,  *)
(* and so is what follows from it.                                         *)
(***************************************************************************)
EXTENDS Integers, Sequences, SequencesExt

CONSTANTS
    kTypeBit,               \* 64
    kMaxDigitPerIteration,  \* 19: decimal digits that fit into a word
    WidePower,              \* 27: 5 ^ 27 fits into a word
    NarrowPower             \* 13: 5 ^ 13 fits into half a word

WordLimits ==
    /\ {kTypeBit, kMaxDigitPerIteration, WidePower, NarrowPower} \subseteq Nat \ {0}
    /\ kTypeBit % 2 = 0 /\ NarrowPower < WidePower
    /\ 10 ^ kMaxDigitPerIteration <= 2 ^ kTypeBit
    /\ 5 ^ WidePower < 2 ^ kTypeBit /\ 5 ^ NarrowPower < 2 ^ (kTypeBit \div 2)

Base == 2 ^ kTypeBit
Half == 2 ^ (kTypeBit \div 2)
IsZero(b) == b = <<0>>

\* += : a word that wrapped carries into the next one.
RECURSIVE Carry(_, _)
Carry(b, i) ==
    LET c == [b EXCEPT ![i + 1] = (@ + 1) % Base]
    IN  IF i = Len(b) THEN Append(b, 1)
        ELSE IF c[i + 1] >= b[i + 1] THEN c ELSE Carry(c, i + 1)
Plus(b, u) ==
    LET c == [b EXCEPT ![1] = (@ + u) % Base]
    IN  IF c[1] >= b[1] THEN c ELSE Carry(c, 1)

\* MulAdd64 from half words: the low word of a * b + k, and the high one.
MulAdd64(a, b, k) ==
    LET x0 == (a % Half) * (b % Half)
        x1 == ((a % Half) * (b \div Half) + x0 \div Half) % Base
        x2 == (a \div Half) * (b % Half)
        sum == (x1 + x2) % Base
        x3 == (a \div Half) * (b \div Half) + (IF sum < x2 THEN Half ELSE 0)
        low == (((sum * Half) % Base) + (x0 % Half) + k) % Base
    IN  [low |-> low, high |-> x3 + sum \div Half + (IF low < k THEN 1 ELSE 0)]

\* *= by half a word.
MulAdd32(a, u, k) ==
    LET p0 == u * (a % Half) + k
        p1 == u * (a \div Half) + p0 \div Half
    IN  [low |-> (p0 % Half) + (p1 % Half) * Half, high |-> p1 \div Half]

Multiplied(b, u, wide) ==
    LET Next(s, digit) ==
            LET r == IF wide THEN MulAdd64(digit, u, s.k) ELSE MulAdd32(digit, u, s.k)
            IN  [digits |-> Append(s.digits, r.low), k |-> r.high]
        all == FoldLeft(Next, [digits |-> <<>>, k |-> 0], b)
    IN  IF all.k > 0 THEN Append(all.digits, all.k) ELSE all.digits
TimesBy(b, u, wide) ==
    CASE u = 0 -> <<0>> [] u = 1 -> b [] u > 1 /\ b = <<1>> -> <<u>>
      [] OTHER -> Multiplied(b, u, wide)
Times(b, u) == TimesBy(b, u, TRUE)
TimesHalf(b, u) == TimesBy(b, u, FALSE)

ShiftLeft(b, shift) ==
    LET zeros == [k \in 1 .. shift \div kTypeBit |-> 0]
        inter == shift % kTypeBit
        Digit(i) == (IF i <= Len(b) THEN (b[i] * 2 ^ inter) % Base ELSE 0)
                    + (IF i > 1 THEN b[i - 1] \div 2 ^ (kTypeBit - inter) ELSE 0)
        moved == [i \in 1 .. Len(b) + 1 |-> Digit(i)]
    IN  CASE IsZero(b) \/ shift = 0 -> b
          [] ~IsZero(b) /\ shift # 0 /\ inter = 0 -> zeros \o b
          [] OTHER -> zeros \o (IF Last(moved) = 0 THEN Front(moved) ELSE moved)

RECURSIVE MultiplyPow5(_, _)
MultiplyPow5(b, exp) ==
    CASE exp = 0 -> b
      [] exp >= WidePower -> MultiplyPow5(Times(b, 5 ^ WidePower), exp - WidePower)
      [] exp \in NarrowPower .. WidePower - 1 ->
           MultiplyPow5(TimesHalf(b, 5 ^ NarrowPower), exp - NarrowPower)
      [] exp \in 1 .. NarrowPower - 1 -> TimesHalf(b, 5 ^ exp)

\* From decimals, as many at once as a word holds.
ParseUint64(decimals) ==
    LET Add(v, d) == v * 10 + d IN FoldLeft(Add, 0, decimals)
AppendDecimal64(b, decimals) ==
    LET n == Len(decimals)
    IN  IF IsZero(b) THEN <<ParseUint64(decimals)>>
        ELSE Plus(ShiftLeft(MultiplyPow5(b, n), n), ParseUint64(decimals))
RECURSIVE AppendDecimals(_, _)
AppendDecimals(b, decimals) ==
    LET n == kMaxDigitPerIteration
    IN  CASE decimals = <<>> -> b
          [] decimals # <<>> /\ Len(decimals) < n -> AppendDecimal64(b, decimals)
          [] Len(decimals) >= n ->
               AppendDecimals(AppendDecimal64(b, SubSeq(decimals, 1, n)),
                              SubSeq(decimals, n + 1, Len(decimals)))
FromDecimals(decimals) == AppendDecimals(<<0>>, decimals)

Compare(a, b) ==
    LET n == CHOOSE i \in 1 .. Len(a) :
               a[i] # b[i] /\ \A j \in i + 1 .. Len(a) : a[j] = b[j]
    IN  CASE Len(a) # Len(b) -> IF Len(a) < Len(b) THEN -1 ELSE 1
          [] a = b -> 0
          [] OTHER -> IF a[n] < b[n] THEN -1 ELSE 1

\* Difference: a word borrows from the next if it grew.
Difference(x, y) ==
    LET a == IF Compare(x, y) < 0 THEN y ELSE x
        b == IF Compare(x, y) < 0 THEN x ELSE y
        Next(s, digit) ==
            LET i == Len(s.digits) + 1
                d == (digit - s.borrow - (IF i <= Len(b) THEN b[i] ELSE 0)) % Base
            IN  [digits |-> Append(s.digits, d), borrow |-> IF d > digit THEN 1 ELSE 0,
                 count |-> IF d # 0 THEN i ELSE s.count]
        all == FoldLeft(Next, [digits |-> <<>>, borrow |-> 0, count |-> 1], a)
    IN  SubSeq(all.digits, 1, all.count)

\* DiyFp: the upper word of a product, rounded, from half words and from the
\* whole product.
DiyFpTimes(f, g) ==
    LET ad == (f \div Half) * (g % Half)
        bc == (f % Half) * (g \div Half)
        tmp == ((f % Half) * (g % Half)) \div Half + (ad % Half) + (bc % Half) + Half \div 2
    IN  (f \div Half) * (g \div Half) + ad \div Half + bc \div Half + tmp \div Half
DiyFpTimesWide(f, g) ==
    (f * g) \div Base + (IF (f * g) % Base >= Base \div 2 THEN 1 ELSE 0)

\* CheckWithinHalfULP: decimals d * 10 ^ dExp against the double b * 2 ^ bExp:
\* negative, 0 or positive if they are less than, just or more than half of the
\* double's last bit apart. All three are scaled to integers.
Above(n) == IF n > 0 THEN n ELSE 0
CheckWithinHalfULP(b, bExp, d, dExp) ==
    LET hExp == bExp - 1
        hExp2 == Above(-dExp) + Above(-bExp) + Above(hExp)
        bExp2 == Above(-dExp) + Above(bExp) + Above(-hExp)
        dExp2 == Above(dExp) + Above(-bExp) + Above(-hExp)
        common == CHOOSE n \in {hExp2, bExp2, dExp2} : n <= hExp2 /\ n <= bExp2 /\ n <= dExp2
        dS == ShiftLeft(MultiplyPow5(d, Above(dExp)), dExp2 - common)
        bS == ShiftLeft(MultiplyPow5(<<b>>, Above(-dExp)), bExp2 - common)
        hS == ShiftLeft(MultiplyPow5(<<1>>, Above(-dExp)), hExp2 - common)
    IN  Compare(Difference(dS, bS), hS)

\* StrtodBigInteger: the approximation or the double after it.
StrtodBigInteger(b, bExp, d, dExp) ==
    LET cmp == CheckWithinHalfULP(b, bExp, d, dExp)
    IN  IF cmp < 0 \/ (cmp = 0 /\ b % 2 = 0) THEN b ELSE b + 1

-----------------------------------------------------------------------------
(* Properties.                                                             *)

Value(b) == LET Add(v, d) == v * Base + d IN FoldLeft(Add, 0, Reverse(b))
Canonical(b) == b = <<0>> \/ Last(b) # 0

\* A word of the smaller number that has all its bits set loses the borrow that
\* reaches it, see Difference.
BorrowSafe(x, y) ==
    \A b \in {x, y} : \A i \in 2 .. Len(b) : b[i] # Base - 1

\* Every operation gives the integer it stands for, without leading zero words,
\* whatever carries from word to word.
IntegersExact(decimals, others, words) ==
    LET b == FromDecimals(decimals)
        v == ParseUint64(decimals)
        Is(c, value) == Value(c) = value /\ Canonical(c)
    IN  /\ Is(b, v)
        /\ \A u \in words : /\ Is(Plus(b, u), v + u)
                            /\ Is(Times(b, u), v * u)
                            /\ u < Half => Is(TimesHalf(b, u), v * u)
        /\ \A n \in 0 .. kTypeBit + 1 : Is(ShiftLeft(b, n), v * 2 ^ n)
        /\ \A n \in 0 .. WidePower + NarrowPower : Is(MultiplyPow5(b, n), v * 5 ^ n)
        /\ \A other \in others :
             LET c == FromDecimals(other)
                 w == ParseUint64(other)
             IN  /\ Compare(b, c) = (CASE v < w -> -1 [] v = w -> 0 [] v > w -> 1)
                 /\ v # w /\ BorrowSafe(b, c) => Is(Difference(b, c), IF v < w THEN w - v ELSE v - w)
        /\ \A f, g \in words : DiyFpTimes(f, g) = DiyFpTimesWide(f, g)

\* The rounding is to the nearest double, to the even one half way: of a double
\* and the next one, of which the decimals lie between.
RoundsToNearest(decimals, significands, exponents) ==
    \A b \in significands, bExp, dExp \in exponents :
        LET v == ParseUint64(decimals)
            exact == v * 10 ^ Above(dExp) * 2 ^ Above(-bExp)
            low == b * 2 ^ Above(bExp) * 10 ^ Above(-dExp)
            high == (b + 1) * 2 ^ Above(bExp) * 10 ^ Above(-dExp)
        IN  v > 0 /\ exact > low /\ exact < high =>
              StrtodBigInteger(b, bExp, FromDecimals(decimals), dExp) =
                CASE exact - low < high - exact -> b
                  [] exact - low > high - exact -> b + 1
                  [] exact - low = high - exact -> IF b % 2 = 0 THEN b ELSE b + 1
=============================================================================
