-------------------------- MODULE DataItemsProofs --------------------------
(***************************************************************************)
(* What the proofs about the gateway need to know of data: induction over  *)
(* the natural numbers, and the functions it defines, for sets instead of  *)
(* predicates; sums; sequences made of pieces; bytes and registers.        *)
(***************************************************************************)
EXTENDS DataItems, Integers, WellFoundedInduction, SequenceTheorems, TLAPS

-----------------------------------------------------------------------------
(* Recursion.                                                              *)

\* A set of natural numbers that is not empty has a least element.
LEMMA LeastNatural ==
    ASSUME NEW T \in SUBSET Nat, T # {}
    PROVE  \E m \in T : \A n \in T : m <= n
<1> DEFINE R == {pair \in Nat \X Nat : pair[1] < pair[2]}
<1>1. IsWellFoundedOn(R, Nat)
  BY NatLessThanWellFounded DEF OpToRel
<1>2. PICK x \in T : \A y \in T : <<y, x>> \notin R
  <2> HIDE DEF R
  <2> QED
    BY <1>1, WFMin
<1>3. \A y \in T : x <= y
  <2> SUFFICES ASSUME NEW y \in T PROVE x <= y
    OBVIOUS
  <2>1. <<y, x>> \in Nat \X Nat
    OBVIOUS
  <2>2. ~(y < x)
    BY <1>2, <2>1
  <2> QED
    BY <2>2
<1> QED
  BY <1>3

\* A set with 0 and the successor of each of its numbers has all of them.
LEMMA SetInduction ==
    ASSUME NEW T, 0 \in T, \A n \in Nat : n \in T => n + 1 \in T
    PROVE  \A n \in Nat : n \in T
<1> SUFFICES ASSUME Nat \ T # {} PROVE FALSE
  OBVIOUS
<1>1. PICK m \in Nat \ T : \A n \in Nat \ T : m <= n
  BY LeastNatural
<1>2. m # 0 /\ m - 1 \in Nat
  OBVIOUS
<1>3. m - 1 \in T
  BY <1>1, <1>2
<1> QED
  BY <1>2, <1>3

\* The first n values of the function that begins with c and goes on by step.
Begins(g, n, S, c, step) ==
    /\ g \in [0 .. n -> S]
    /\ g[0] = c
    /\ \A k \in 1 .. n : g[k] = step[k][g[k - 1]]

LEMMA BeginningsAgree ==
    ASSUME NEW S, NEW c, NEW step, NEW m \in Nat, NEW n \in Nat, NEW g, NEW h,
           Begins(g, m, S, c, step), Begins(h, n, S, c, step)
    PROVE  \A k \in Nat : k <= m /\ k <= n => g[k] = h[k]
<1> DEFINE T == {k \in Nat : k <= m /\ k <= n => g[k] = h[k]}
<1>1. 0 \in T
  BY DEF Begins
<1>2. \A k \in Nat : k \in T => k + 1 \in T
  <2> SUFFICES ASSUME NEW k \in Nat, k \in T, k + 1 <= m, k + 1 <= n
               PROVE  g[k + 1] = h[k + 1]
    OBVIOUS
  <2>1. /\ g[k + 1] = step[k + 1][g[k + 1 - 1]]
        /\ h[k + 1] = step[k + 1][h[k + 1 - 1]]
    BY DEF Begins
  <2>2. k + 1 - 1 = k /\ g[k] = h[k]
    OBVIOUS
  <2> QED
    BY <2>1, <2>2
<1>3. \A k \in Nat : k \in T
  <2> HIDE DEF T
  <2> QED
    BY <1>1, <1>2, SetInduction
<1> QED
  BY <1>3

LEMMA BeginningsExist ==
    ASSUME NEW S, NEW c \in S, NEW step \in [Nat -> [S -> S]]
    PROVE  \A n \in Nat : \E g : Begins(g, n, S, c, step)
<1> DEFINE T == {n \in Nat : \E g : Begins(g, n, S, c, step)}
<1>1. 0 \in T
  <2>1. Begins([k \in 0 .. 0 |-> c], 0, S, c, step)
    BY DEF Begins
  <2> QED
    BY <2>1
<1>2. \A n \in Nat : n \in T => n + 1 \in T
  <2> SUFFICES ASSUME NEW n \in Nat, NEW g, Begins(g, n, S, c, step)
               PROVE  \E h : Begins(h, n + 1, S, c, step)
    OBVIOUS
  <2> DEFINE h == [k \in 0 .. n + 1 |-> IF k = n + 1 THEN step[k][g[n]] ELSE g[k]]
  <2>0. g \in [0 .. n -> S]
    BY DEF Begins
  <2>1. \A k \in 0 .. n : h[k] = g[k] /\ g[k] \in S
    BY <2>0
  <2>2. h[n + 1] = step[n + 1][g[n]] /\ h[n + 1] \in S
    <3>0. n \in 0 .. n
      OBVIOUS
    <3>1. g[n] \in S
      BY <2>0, <3>0
    <3>2. step[n + 1] \in [S -> S]
      OBVIOUS
    <3>3. step[n + 1][g[n]] \in S
      BY <3>1, <3>2
    <3>4. h[n + 1] = step[n + 1][g[n]]
      OBVIOUS
    <3> QED
      BY <3>3, <3>4
  <2>3. h \in [0 .. n + 1 -> S]
    <3>1. \A k \in 0 .. n + 1 : k = n + 1 \/ k \in 0 .. n
      OBVIOUS
    <3>2. \A k \in 0 .. n + 1 : h[k] \in S
      <4> HIDE DEF h
      <4> QED
        BY <2>1, <2>2, <3>1
    <3> QED
      BY <3>2
  <2>4. \A k \in 1 .. n + 1 : h[k] = step[k][h[k - 1]]
    <3> SUFFICES ASSUME NEW k \in 1 .. n + 1 PROVE h[k] = step[k][h[k - 1]]
      OBVIOUS
    <3>1. CASE k = n + 1
      <4>1. k - 1 = n
        BY <3>1
      <4> QED
        BY <2>1, <2>2, <3>1, <4>1
    <3>2. CASE k \in 1 .. n
      <4>1. k \in 0 .. n /\ k - 1 \in 0 .. n
        BY <3>2
      <4>2. g[k] = step[k][g[k - 1]]
        BY <3>2 DEF Begins
      <4> QED
        BY <2>1, <4>1, <4>2
    <3> QED
      BY <3>1, <3>2
  <2>5. h[0] = c
    BY DEF Begins
  <2> QED
    BY <2>3, <2>4, <2>5 DEF Begins
<1>3. \A n \in Nat : n \in T
  <2> HIDE DEF T
  <2> QED
    BY <1>1, <1>2, SetInduction
<1> QED
  BY <1>3

\* The function on all natural numbers that begins with c and goes on by step.
Recurs(f, S, c, step) ==
    /\ f \in [Nat -> S]
    /\ f[0] = c
    /\ \A k \in Nat \ {0} : f[k] = step[k][f[k - 1]]

\* It exists: what a recursive definition needs to mean what it says.
LEMMA PrimitiveRecursion ==
    ASSUME NEW S, NEW c \in S, NEW step \in [Nat -> [S -> S]]
    PROVE  \E f : Recurs(f, S, c, step)
<1> DEFINE B(g, n) == Begins(g, n, S, c, step)
           begin == [n \in Nat |-> CHOOSE g : B(g, n)]
           f == [n \in Nat |-> begin[n][n]]
<1>1. \A n \in Nat : B(begin[n], n)
  BY BeginningsExist
<1>2. \A n \in Nat : begin[n] \in [0 .. n -> S] /\ begin[n][n] \in S
  <2> HIDE DEF begin
  <2> QED
    BY <1>1 DEF Begins
<1>3. f[0] = c
  <2> HIDE DEF begin
  <2> QED
    BY <1>1 DEF Begins
<1>4. ASSUME NEW k \in Nat \ {0} PROVE f[k] = step[k][f[k - 1]]
  <2>1. k - 1 \in Nat /\ k - 1 <= k /\ k \in 1 .. k
    OBVIOUS
  <2>2. begin[k][k] = step[k][begin[k][k - 1]]
    <3> HIDE DEF begin
    <3> QED
      BY <1>1, <2>1 DEF Begins
  <2>3. begin[k][k - 1] = begin[k - 1][k - 1]
    <3>1. PICK j \in Nat : j = k - 1
      BY <2>1
    <3>2. Begins(begin[k], k, S, c, step) /\ Begins(begin[j], j, S, c, step)
      BY <1>1, <3>1
    <3> HIDE DEF begin
    <3>3. k \in Nat /\ j <= k
      BY <3>1
    <3>4. begin[k][j] = begin[j][j]
      <4>1. \A m \in Nat, n \in Nat : \A g, h :
              Begins(g, m, S, c, step) /\ Begins(h, n, S, c, step) =>
                \A i \in Nat : i <= m /\ i <= n => g[i] = h[i]
        BY BeginningsAgree
      <4>2. j <= j
        OBVIOUS
      <4> QED
        BY <3>2, <3>3, <4>1, <4>2
    <3> QED
      BY <3>1, <3>4
  <2> QED
    BY <2>1, <2>2, <2>3
<1> QED
  <2>1. f \in [Nat -> S]
    BY <1>2
  <2>2. Recurs(f, S, c, step)
    <3> HIDE DEF f
    <3> QED
      BY <1>3, <1>4, <2>1 DEF Recurs
  <2> QED
    BY <2>2

-----------------------------------------------------------------------------
(* Sums.                                                                   *)

\* A sum that is defined by recursion exists, whatever its terms.
LEMMA SumExists ==
    ASSUME NEW term, \A k \in Nat : term[k] \in Nat
    PROVE  \E f \in [Nat -> Nat] :
             /\ f[0] = 0
             /\ \A k \in Nat : f[k + 1] = f[k] + term[k + 1]
<1> DEFINE step == [k \in Nat |-> [m \in Nat |-> m + term[k]]]
<1>1. step \in [Nat -> [Nat -> Nat]]
  OBVIOUS
<1>2. PICK f : Recurs(f, Nat, 0, step)
  <2>1. 0 \in Nat
    OBVIOUS
  <2> HIDE DEF step
  <2> QED
    BY <1>1, <2>1, PrimitiveRecursion
<1>3. ASSUME NEW k \in Nat PROVE f[k + 1] = f[k] + term[k + 1]
  <2>1. k + 1 \in Nat \ {0} /\ k + 1 - 1 = k /\ f[k] \in Nat
    BY <1>2 DEF Recurs
  <2> HIDE DEF step
  <2>2. f[k + 1] = step[k + 1][f[k + 1 - 1]]
    BY <1>2, <2>1 DEF Recurs
  <2> USE DEF step
  <2> QED
    BY <2>1, <2>2
<1>4. f \in [Nat -> Nat] /\ f[0] = 0
  BY <1>2 DEF Recurs
<1> QED
  BY <1>3, <1>4

\* The offsets of consecutive pieces, of which the k-th has bytes[k]: the first
\* one lies at 0.
IsOffsets(g, bytes) ==
    g = [k \in Nat |-> IF k <= 1 THEN 0 ELSE g[k - 1] + bytes[k - 1]]

LEMMA OffsetsExist ==
    ASSUME NEW bytes, \A k \in Nat : bytes[k] \in Nat
    PROVE  \E g : IsOffsets(g, bytes)
<1> DEFINE term == [k \in Nat |-> IF k <= 1 THEN 0 ELSE bytes[k - 1]]
<1>1. \A k \in Nat : term[k] \in Nat
  OBVIOUS
<1>2. PICK f \in [Nat -> Nat] :
        f[0] = 0 /\ \A k \in Nat : f[k + 1] = f[k] + term[k + 1]
  <2> HIDE DEF term
  <2> QED
    BY <1>1, SumExists
<1>3. ASSUME NEW k \in Nat, k > 1 PROVE f[k] = f[k - 1] + bytes[k - 1]
  <2>1. PICK j \in Nat : k = j + 1 /\ j = k - 1 /\ j + 1 > 1
    <3>1. k - 1 \in Nat /\ k = (k - 1) + 1
      BY <1>3
    <3> QED
      BY <1>3, <3>1
  <2>2. f[j + 1] = f[j] + term[j + 1]
    BY <1>2
  <2>3. term[j + 1] = bytes[j + 1 - 1] /\ j + 1 - 1 = j
    BY <2>1
  <2> QED
    BY <2>1, <2>2, <2>3
<1>4. f[1] = 0
  <2>1. term[1] = 0
    OBVIOUS
  <2> HIDE DEF term
  <2>2. f[0 + 1] = f[0] + term[0 + 1]
    BY <1>2
  <2> QED
    BY <1>2, <2>1, <2>2
<1>5. IsOffsets(f, bytes)
  <2>1. f = [k \in Nat |-> f[k]] /\ \A k \in Nat : k <= 1 => k = 0 \/ k = 1
    OBVIOUS
  <2> QED
    BY <1>2, <1>3, <1>4, <2>1 DEF IsOffsets
<1> QED
  BY <1>5

LEMMA OffsetsRounds ==
    ASSUME NEW bytes, \A k \in Nat : bytes[k] \in Nat, NEW g, IsOffsets(g, bytes)
    PROVE  /\ g[1] = 0
           /\ \A k \in Nat \ {0} : g[k] \in Nat /\ g[k + 1] = g[k] + bytes[k]
<1>1. g[1] = 0
  BY DEF IsOffsets
<1>2. ASSUME NEW k \in Nat \ {0} PROVE g[k + 1] = g[k] + bytes[k]
  <2>1. k + 1 \in Nat /\ ~(k + 1 <= 1) /\ k + 1 - 1 = k
    OBVIOUS
  <2> QED
    BY <2>1 DEF IsOffsets
<1>3. \A k \in Nat : g[k + 1] \in Nat
  <2> DEFINE T == {k \in Nat : g[k + 1] \in Nat}
  <2>1. 0 \in T
    BY <1>1
  <2>2. \A k \in Nat : k \in T => k + 1 \in T
    BY <1>2
  <2>3. \A k \in Nat : k \in T
    <3> HIDE DEF T
    <3> QED
      BY <2>1, <2>2, SetInduction
  <2> QED
    BY <2>3
<1>4. ASSUME NEW k \in Nat \ {0} PROVE g[k] \in Nat
  <2>1. k - 1 \in Nat /\ (k - 1) + 1 = k
    OBVIOUS
  <2> QED
    BY <1>3, <2>1
<1> QED
  BY <1>1, <1>2, <1>4

-----------------------------------------------------------------------------
(* One sequence after the other.                                           *)

\* The first j pieces in their places.
PiecesPlaced(whole, j, S, seqs, off) ==
    /\ whole \in Seq(S) /\ Len(whole) = off[j + 1]
    /\ \A n \in 1 .. j :
         /\ off[n] \in Nat /\ off[n + 1] = off[n] + Len(seqs[n])
         /\ off[n + 1] <= off[j + 1]
         /\ \A k \in 1 .. Len(seqs[n]) : whole[off[n] + k] = seqs[n][k]


\* One piece more.
LEMMA PieceAppended ==
    ASSUME NEW S, NEW seqs \in Seq(Seq(S)), NEW off, NEW j \in Nat,
           j + 1 \in 1 .. Len(seqs), off[j + 2] = off[j + 1] + Len(seqs[j + 1]),
           NEW whole, PiecesPlaced(whole, j, S, seqs, off), off[1] = 0
    PROVE  PiecesPlaced(whole \o seqs[j + 1], j + 1, S, seqs, off)
<1>1. PICK piece \in Seq(S) : piece = seqs[j + 1]
  OBVIOUS
<1>2. whole \in Seq(S) /\ Len(whole) = off[j + 1] /\ Len(whole) \in Nat
  BY DEF PiecesPlaced
<1>3. PICK m \in Nat : m = Len(whole)
  BY <1>2
<1>4. PICK l \in Nat : l = Len(piece)
  BY <1>1
<1>5. /\ whole \o piece \in Seq(S) /\ Len(whole \o piece) = m + l
      /\ \A k \in 1 .. m : (whole \o piece)[k] = whole[k]
      /\ \A k \in 1 .. l : (whole \o piece)[m + k] = piece[k]
  <2>1. whole \o piece \in Seq(S) /\ Len(whole \o piece) = m + l
    BY <1>2, <1>3, <1>4, ConcatProperties
  <2>2. /\ \A k \in 1 .. m : (whole \o piece)[k] = whole[k]
        /\ \A k \in 1 .. l : (whole \o piece)[m + k] = piece[k]
    <3>1. whole \in Seq(S) /\ piece \in Seq(S)
      BY <1>2
    <3>2. ASSUME NEW k \in 1 .. Len(whole) PROVE (whole \o piece)[k] = whole[k]
      BY <3>1
    <3>3. ASSUME NEW k \in 1 .. Len(piece)
          PROVE  (whole \o piece)[Len(whole) + k] = piece[k]
      BY <3>1
    <3> QED
      BY <1>3, <1>4, <3>2, <3>3
  <2> QED
    BY <2>1, <2>2
<1>6. off[j + 1] = m /\ off[j + 1 + 1] = m + l
  BY <1>1, <1>2, <1>3, <1>4
<1>7. ASSUME NEW n \in 1 .. j + 1
      PROVE  /\ off[n] \in Nat /\ off[n + 1] = off[n] + Len(seqs[n])
             /\ off[n + 1] <= off[j + 1 + 1]
             /\ \A k \in 1 .. Len(seqs[n]) : (whole \o piece)[off[n] + k] = seqs[n][k]
  <2>1. CASE n = j + 1
    <3>1. off[n] = m /\ off[n + 1] = m + l /\ seqs[n] = piece /\ Len(seqs[n]) = l
      BY <1>1, <1>4, <1>6, <2>1
    <3>2. \A k \in 1 .. l : (whole \o piece)[m + k] = piece[k]
      BY <1>5
    <3>3. m \in Nat /\ m + l <= m + l
      OBVIOUS
    <3> QED
      BY <1>6, <3>1, <3>2, <3>3
  <2>2. CASE n # j + 1
    <3>1. n \in 1 .. j
      BY <2>2
    <3>2. /\ off[n] \in Nat /\ off[n + 1] = off[n] + Len(seqs[n])
          /\ off[n + 1] <= m
          /\ \A k \in 1 .. Len(seqs[n]) : whole[off[n] + k] = seqs[n][k]
      BY <1>6, <3>1 DEF PiecesPlaced
    <3>3. PICK o \in Nat : o = off[n]
      BY <3>2
    <3>4. PICK s \in Nat : s = Len(seqs[n]) /\ o + s <= m
      <4>1. n \in DOMAIN seqs
        BY <3>1
      <4>2. seqs[n] \in Seq(S)
        BY <4>1
      <4> QED
        BY <3>2, <3>3, <4>2
    <3>5. \A k \in 1 .. s : o + k \in 1 .. m
      BY <3>4
    <3>6. \A k \in 1 .. s : (whole \o piece)[o + k] = seqs[n][k]
      BY <1>5, <3>2, <3>3, <3>4, <3>5
    <3>7. off[n + 1] <= m + l
      BY <3>2, <3>3, <3>4
    <3> QED
      BY <1>6, <3>2, <3>3, <3>4, <3>6, <3>7
  <2> QED
    BY <2>1, <2>2
<1> QED
  BY <1>1, <1>5, <1>6, <1>7 DEF PiecesPlaced

\* FlattenSeq puts all the pieces in their places.
LEMMA FlattenPlaces ==
    ASSUME NEW S, NEW seqs \in Seq(Seq(S)), NEW off, off[1] = 0,
           \A k \in 1 .. Len(seqs) : off[k + 1] = off[k] + Len(seqs[k])
    PROVE  PiecesPlaced(FlattenSeq(seqs), Len(seqs), S, seqs, off)
<1>1. PICK N \in Nat : N = Len(seqs)
  OBVIOUS
<1>2. CASE N = 0
  <2>1. FlattenSeq(seqs) = <<>>
    <3>1. Len(seqs) = 0 /\ seqs = <<>>
      BY <1>1, <1>2, EmptySeq
    <3> QED
      BY <3>1, Zenon DEF FlattenSeq
  <2>2. <<>> \in Seq(S) /\ Len(<<>>) = 0 /\ off[0 + 1] = 0 /\ 1 .. 0 = {}
    OBVIOUS
  <2> QED
    BY <1>1, <1>2, <2>1, <2>2 DEF PiecesPlaced
<1>3. CASE N # 0
  <2> DEFINE G(g) == g = [i \in 1 .. N |->
                            IF i = 1 THEN seqs[i] ELSE g[i - 1] \o seqs[i]]
             step == [k \in Nat |-> [s \in Seq(S) |->
                        IF k \in 1 .. N THEN s \o seqs[k] ELSE s]]
             flatten == CHOOSE g : G(g)
  <2>1. \A k \in 1 .. N : seqs[k] \in Seq(S)
    BY <1>1
  <2>2. \E g : G(g)
    <3>1. <<>> \in Seq(S)
      OBVIOUS
    <3>2. step \in [Nat -> [Seq(S) -> Seq(S)]]
      <4>1. ASSUME NEW k \in Nat, NEW s \in Seq(S)
            PROVE  (IF k \in 1 .. N THEN s \o seqs[k] ELSE s) \in Seq(S)
        <5>1. CASE k \in 1 .. N
          BY <2>1, <5>1, ConcatProperties
        <5>2. CASE k \notin 1 .. N
          BY <5>2
        <5> QED
          BY <5>1, <5>2
      <4> QED
        BY <4>1
    <3>3. PICK f : Recurs(f, Seq(S), <<>>, step)
      <4> HIDE DEF step
      <4> QED
        BY <3>1, <3>2, PrimitiveRecursion
    <3>4. ASSUME NEW k \in 1 .. N PROVE f[k] = f[k - 1] \o seqs[k]
      <4>1. k \in Nat \ {0} /\ k - 1 \in Nat
        OBVIOUS
      <4>2. f[k] = step[k][f[k - 1]] /\ f[k - 1] \in Seq(S)
        <5> HIDE DEF step
        <5> QED
          BY <3>3, <4>1 DEF Recurs
      <4> QED
        BY <4>1, <4>2
    <3>5. f[1] = seqs[1]
      <4>1. 1 \in 1 .. N /\ 1 - 1 = 0
        BY <1>3
      <4>2. f[0] = <<>>
        BY <3>3 DEF Recurs
      <4>3. f[1] = <<>> \o seqs[1] /\ seqs[1] \in Seq(S)
        BY <2>1, <3>4, <4>1, <4>2
      <4> QED
        BY <4>3, ConcatEmptySeq
    <3> DEFINE g == [i \in 1 .. N |-> f[i]]
    <3>6. ASSUME NEW i \in 1 .. N
          PROVE  g[i] = IF i = 1 THEN seqs[i] ELSE g[i - 1] \o seqs[i]
      <4>1. i # 1 => i - 1 \in 1 .. N
        OBVIOUS
      <4> QED
        BY <3>4, <3>5, <4>1
    <3>7. g = [i \in 1 .. N |-> g[i]]
      OBVIOUS
    <3>8. G(g)
      <4> HIDE DEF g
      <4> QED
        BY <3>6, <3>7
    <3> QED
      BY <3>8
  <2>3. G(flatten)
    <3> HIDE DEF G
    <3> QED
      BY <2>2
  <2>4. FlattenSeq(seqs) = flatten[N]
    BY <1>1, <1>3 DEF FlattenSeq
  <2> HIDE DEF flatten
  <2> DEFINE P(j) == PiecesPlaced(flatten[j + 1], j + 1, S, seqs, off)
             T == {j \in Nat : j + 1 \in 1 .. N => P(j)}
  <2>5. 0 \in T
    <3> SUFFICES ASSUME 1 \in 1 .. N PROVE P(0)
      OBVIOUS
    <3>1. flatten[1] = seqs[1] /\ seqs[1] \in Seq(S)
      BY <2>1, <2>3
    <3>2. PiecesPlaced(<<>>, 0, S, seqs, off)
      <4>1. <<>> \in Seq(S) /\ Len(<<>>) = 0 /\ off[0 + 1] = 0 /\ 1 .. 0 = {}
        OBVIOUS
      <4> QED
        BY <4>1 DEF PiecesPlaced
    <3>3. 0 + 1 \in 1 .. Len(seqs) /\ off[0 + 2] = off[0 + 1] + Len(seqs[0 + 1])
      BY <1>1
    <3>4. PiecesPlaced(<<>> \o seqs[0 + 1], 0 + 1, S, seqs, off)
      BY <3>2, <3>3, PieceAppended
    <3>5. <<>> \o seqs[1] = seqs[1]
      BY <3>1, ConcatEmptySeq
    <3> QED
      BY <3>1, <3>4, <3>5
  <2>6. \A j \in Nat : j \in T => j + 1 \in T
    <3> SUFFICES ASSUME NEW j \in Nat, j + 1 + 1 \in 1 .. N, j + 1 \in 1 .. N => P(j)
                 PROVE  P(j + 1)
      OBVIOUS
    <3>1. PICK i \in Nat : i = j + 1 /\ i \in 1 .. N /\ i + 1 \in 1 .. N
      OBVIOUS
    <3>2. flatten[i + 1] = flatten[i] \o seqs[i + 1]
      <4>1. PICK m \in 1 .. N : m = i + 1 /\ m # 1 /\ m - 1 = i
        BY <3>1
      <4>2. flatten[m] = flatten[m - 1] \o seqs[m]
        BY <2>3, <4>1
      <4> QED
        BY <4>1, <4>2
    <3>3. PiecesPlaced(flatten[i], i, S, seqs, off)
      BY <3>1
    <3>4. off[i + 2] = off[i + 1] + Len(seqs[i + 1]) /\ i + 1 \in 1 .. Len(seqs)
      BY <1>1, <3>1
    <3>5. PiecesPlaced(flatten[i] \o seqs[i + 1], i + 1, S, seqs, off)
      BY <3>3, <3>4, PieceAppended
    <3> QED
      BY <3>1, <3>2, <3>5
  <2>7. \A j \in Nat : j \in T
    <3> HIDE DEF T
    <3> QED
      BY <2>5, <2>6, SetInduction
  <2>8. N - 1 \in Nat /\ (N - 1) + 1 = N /\ N \in 1 .. N
    BY <1>3
  <2>9. P(N - 1)
    BY <2>7, <2>8
  <2> QED
    BY <1>1, <2>4, <2>8, <2>9
<1> QED
  BY <1>2, <1>3

-----------------------------------------------------------------------------
(* Pieces of bytes.                                                        *)

LEMMA ZerosAreZero ==
    ASSUME NEW n \in Nat
    PROVE  /\ Zeros(n) \in Value /\ Len(Zeros(n)) = n
           /\ \A k \in 1 .. n : Zeros(n)[k] = 0
<1>1. PICK z \in [1 .. n -> Byte] : z = Zeros(n) /\ z = [k \in 1 .. n |-> 0]
  <2>1. 0 \in Byte
    BY DEF Byte
  <2>2. [k \in 1 .. n |-> 0] \in [1 .. n -> Byte]
    BY <2>1
  <2> QED
    BY <2>2 DEF Zeros
<1>2. z \in Seq(Byte) /\ Len(z) = n
  BY <1>1
<1> QED
  BY <1>1, <1>2 DEF Value

\* A bit of some bytes is a bit.
LEMMA BitType ==
    ASSUME NEW bytes \in Value, NEW n \in Nat \ {0}, n <= 8 * Len(bytes)
    PROVE  Bit(bytes, n) \in {0, 1}
<1>1. PICK k \in Nat : k = (n - 1) \div 8 + 1
  <2>1. (n - 1) \div 8 \in Nat
    OBVIOUS
  <2> QED
    BY <2>1
<1>2. k \in 1 .. Len(bytes)
  <2>1. PICK l \in Nat : l = Len(bytes)
    BY DEF Value
  <2>2. n <= 8 * l
    BY <2>1
  <2>3. (n - 1) \div 8 + 1 <= l /\ (n - 1) \div 8 + 1 >= 1
    BY <2>2
  <2> QED
    BY <1>1, <2>1, <2>3
<1>3. PICK b \in Byte : b = bytes[k]
  <2>1. bytes[k] \in Byte
    BY <1>2 DEF Value
  <2> QED
    BY <2>1
<1>4. PICK e \in 0 .. 7 : e = (n - 1) % 8
  OBVIOUS
<1>5. (b \div (2 ^ e)) % 2 \in {0, 1}
  <2>1. b \in Nat
    BY DEF Byte
  <2> QED
    BY <2>1
<1> QED
  BY <1>1, <1>3, <1>4, <1>5 DEF Bit

\* A piece of some bytes is bytes.
LEMMA PieceType ==
    ASSUME NEW data \in Value, NEW m \in Nat, NEW n \in Nat, n <= Len(data), m <= n
    PROVE  /\ SubSeq(data, m + 1, n) \in Value
           /\ Len(SubSeq(data, m + 1, n)) = n - m
           /\ \A k \in 1 .. n - m : SubSeq(data, m + 1, n)[k] = data[m + k]
<1>1. data \in Seq(Byte) /\ Len(data) \in Nat /\ \A k \in 1 .. Len(data) : data[k] \in Byte
  BY DEF Value
<1>2. n - m \in Nat /\ n - (m + 1) + 1 = n - m
  OBVIOUS
<1>3. /\ Len(SubSeq(data, m + 1, n)) = n - m
      /\ SubSeq(data, m + 1, n) \in Seq(Byte)
  BY <1>1, <1>2
<1>4. \A k \in 1 .. n - m : SubSeq(data, m + 1, n)[k] = data[m + k]
  BY <1>1, <1>2
<1> QED
  BY <1>3, <1>4 DEF Value

\* The first of some bytes.
LEMMA FirstBytes ==
    ASSUME NEW data \in Value, NEW m \in Nat, m <= Len(data)
    PROVE  /\ SubSeq(data, 1, m) \in Value /\ Len(SubSeq(data, 1, m)) = m
           /\ \A k \in 1 .. m : SubSeq(data, 1, m)[k] = data[k]
<1>1. 0 <= m /\ m - 0 = m /\ 0 + 1 = 1
  OBVIOUS
<1>2. /\ SubSeq(data, 0 + 1, m) \in Value /\ Len(SubSeq(data, 0 + 1, m)) = m - 0
      /\ \A k \in 1 .. m - 0 : SubSeq(data, 0 + 1, m)[k] = data[0 + k]
  BY <1>1, PieceType
<1>3. \A k \in 1 .. m : SubSeq(data, 1, m)[k] = data[0 + k]
  BY <1>1, <1>2
<1>4. \A k \in 1 .. m : 0 + k = k
  OBVIOUS
<1> QED
  BY <1>1, <1>2, <1>3, <1>4

\* What has been put into a sequence is found there.
LEMMA OverwriteRead ==
    ASSUME NEW S, NEW seq \in Seq(S), NEW new \in Seq(S), NEW place \in Nat,
           NEW end \in Nat, end = place + Len(new), end <= Len(seq)
    PROVE  /\ Overwrite(seq, place, new) \in Seq(S)
           /\ Len(Overwrite(seq, place, new)) = Len(seq)
           /\ SubSeq(Overwrite(seq, place, new), place + 1, end) = new
<1>1. PICK old \in Seq(S) : old = Overwrite(seq, place, new) /\ Len(old) = Len(seq)
  <2>1. Overwrite(seq, place, new) \in [1 .. Len(seq) -> S]
    BY DEF Overwrite
  <2> QED
    BY <2>1
<1>2. PICK m \in Nat : m = Len(new) /\ end = place + m /\ DOMAIN new = 1 .. m
  OBVIOUS
<1>3. ASSUME NEW k \in 1 .. m PROVE old[place + k] = new[k]
  <2>1. place + k \in 1 .. Len(seq) /\ place + k - place = k
    BY <1>2
  <2> QED
    BY <1>1, <1>2, <2>1 DEF Overwrite
<1>4. PICK piece \in Seq(S) : /\ piece = SubSeq(old, place + 1, end) /\ Len(piece) = m
                              /\ \A k \in 1 .. m : piece[k] = old[place + k]
  <2>1. CASE m = 0
    <3>1. SubSeq(old, place + 1, end) = <<>> /\ 1 .. m = {}
      BY <1>2, <2>1
    <3>2. <<>> \in Seq(S) /\ Len(<<>>) = 0
      OBVIOUS
    <3> QED
      BY <2>1, <3>1, <3>2
  <2>2. CASE m # 0
    <3>1. end - (place + 1) + 1 = m
      BY <1>2
    <3>2. /\ SubSeq(old, place + 1, end) \in Seq(S)
          /\ Len(SubSeq(old, place + 1, end)) = m
      BY <1>1, <1>2, <2>2, <3>1
    <3>3. \A k \in 1 .. m : SubSeq(old, place + 1, end)[k] = old[place + k]
      BY <1>1, <1>2, <2>2, <3>1
    <3> QED
      BY <3>2, <3>3
  <2> QED
    BY <2>1, <2>2
<1>5. piece = new
  <2>1. PICK other \in Seq(S) : other = new
    OBVIOUS
  <2>2. Len(other) = m /\ \A k \in 1 .. m : piece[k] = other[k]
    BY <1>2, <1>3, <1>4, <2>1
  <2>3. piece \in Seq(S) /\ Len(piece) = m /\ m \in Nat
    BY <1>2, <1>4
  <2>4. piece = other
    BY <2>1, <2>2, <2>3
  <2> QED
    BY <2>1, <2>4
<1> QED
  BY <1>1, <1>4, <1>5

\* A piece of overwritten bytes is a piece of the new ones or, outside of them, of
\* the old ones.
Piece(bytes, from, to) == SubSeq(bytes, from + 1, to)
PieceOverwritten(old, new, place, from, to) ==
    LET now == Piece(Overwrite(old, place, new), from, to)
    IN  /\ place <= from /\ to <= place + Len(new) =>
             now = Piece(new, from - place, to - place)
        /\ to <= place \/ place + Len(new) <= from => now = Piece(old, from, to)

LEMMA OverwrittenPiece ==
    ASSUME NEW old \in Value, NEW new \in Value, NEW place \in Nat,
           NEW from \in Nat, NEW to \in Nat, from <= to, to <= Len(old)
    PROVE  PieceOverwritten(old, new, place, from, to)
<1>1. PICK image \in Value : /\ image = Overwrite(old, place, new)
                             /\ Len(image) = Len(old)
  <2>1. old \in Seq(Byte) /\ new \in Seq(Byte)
    BY DEF Value
  <2>2. Overwrite(old, place, new) \in [1 .. Len(old) -> Byte]
    BY <2>1 DEF Overwrite
  <2>3. PICK image \in Seq(Byte) :
          image = Overwrite(old, place, new) /\ Len(image) = Len(old)
    BY <2>1, <2>2
  <2> QED
    BY <2>3 DEF Value
<1>2. PICK m \in Nat : m = to - from
  OBVIOUS
<1>3. PICK piece \in Seq(Byte) :
        /\ piece = Piece(image, from, to) /\ Len(piece) = m
        /\ \A k \in 1 .. m : piece[k] = image[from + k]
  <2>1. /\ SubSeq(image, from + 1, to) \in Value
        /\ Len(SubSeq(image, from + 1, to)) = to - from
        /\ \A k \in 1 .. to - from : SubSeq(image, from + 1, to)[k] = image[from + k]
    BY <1>1, PieceType
  <2> QED
    BY <1>2, <2>1 DEF Piece, Value
<1>4. \A k \in 1 .. m : from + k \in 1 .. Len(old)
  <2>1. Len(old) \in Nat
    BY DEF Value
  <2> QED
    BY <1>2, <2>1
<1>5. \A k \in 1 .. m :
        piece[k] = IF from + k - place \in 1 .. Len(new)
                   THEN new[from + k - place] ELSE old[from + k]
  <2>1. DOMAIN old = 1 .. Len(old) /\ DOMAIN new = 1 .. Len(new)
    BY DEF Value
  <2>2. \A x \in 1 .. Len(old) :
          image[x] = IF x - place \in 1 .. Len(new) THEN new[x - place] ELSE old[x]
    BY <1>1, <2>1 DEF Overwrite
  <2>3. ASSUME NEW k \in 1 .. m
        PROVE  piece[k] = IF from + k - place \in 1 .. Len(new)
                          THEN new[from + k - place] ELSE old[from + k]
    <3>1. PICK x \in 1 .. Len(old) : x = from + k
      BY <1>4
    <3>2. piece[k] = image[x]
      BY <1>3, <3>1
    <3> QED
      BY <2>2, <3>1, <3>2
  <2> QED
    BY <2>3
<1>6. ASSUME place <= from, to <= place + Len(new)
      PROVE  piece = Piece(new, from - place, to - place)
  <2>1. PICK f \in Nat, t \in Nat : f = from - place /\ t = to - place
    BY <1>6
  <2>2. f <= t /\ t <= Len(new) /\ t - f = m
    <3>1. Len(new) \in Nat
      BY DEF Value
    <3> QED
      BY <1>2, <1>6, <2>1, <3>1
  <2>3. /\ SubSeq(new, f + 1, t) \in Value /\ Len(SubSeq(new, f + 1, t)) = t - f
        /\ \A k \in 1 .. t - f : SubSeq(new, f + 1, t)[k] = new[f + k]
    BY <2>2, PieceType
  <2>4. PICK other \in Seq(Byte) :
          /\ other = Piece(new, f, t) /\ Len(other) = m
          /\ \A k \in 1 .. m : other[k] = new[f + k]
    BY <2>2, <2>3 DEF Piece, Value
  <2>5. \A k \in 1 .. m : from + k - place = f + k /\ f + k \in 1 .. Len(new)
    <3>1. Len(new) \in Nat
      BY DEF Value
    <3> QED
      BY <2>1, <2>2, <3>1
  <2>6. ASSUME NEW k \in 1 .. m PROVE piece[k] = other[k]
    <3>1. PICK x : x = from + k - place
      OBVIOUS
    <3>2. x = f + k /\ x \in 1 .. Len(new)
      BY <2>5, <3>1
    <3>3. piece[k] = new[x]
      BY <1>5, <3>1, <3>2
    <3> QED
      BY <2>4, <3>2, <3>3
  <2>7. piece = other
    BY <1>3, <2>4, <2>6
  <2> QED
    BY <2>1, <2>4, <2>7
<1>7. ASSUME to <= place \/ place + Len(new) <= from
      PROVE  piece = Piece(old, from, to)
  <2>1. /\ SubSeq(old, from + 1, to) \in Value
        /\ Len(SubSeq(old, from + 1, to)) = to - from
        /\ \A k \in 1 .. to - from : SubSeq(old, from + 1, to)[k] = old[from + k]
    BY PieceType
  <2>2. PICK other \in Seq(Byte) :
          /\ other = Piece(old, from, to) /\ Len(other) = m
          /\ \A k \in 1 .. m : other[k] = old[from + k]
    BY <1>2, <2>1 DEF Piece, Value
  <2>3. \A k \in 1 .. m : from + k - place \notin 1 .. Len(new)
    <3>1. Len(new) \in Nat
      BY DEF Value
    <3> QED
      BY <1>2, <1>7, <3>1
  <2>4. \A k \in 1 .. m : piece[k] = other[k]
    BY <1>5, <2>2, <2>3
  <2> QED
    BY <1>3, <2>2, <2>4
<1> QED
  BY <1>1, <1>3, <1>6, <1>7 DEF PieceOverwritten

-----------------------------------------------------------------------------
(* Registers.                                                              *)

\* Turning the pairs of some bytes round keeps them bytes.
LEMMA SwapPairsType ==
    ASSUME NEW bytes \in Value, NEW c \in Nat, Len(bytes) = 2 * c
    PROVE  /\ SwapPairs(bytes) \in Value /\ DOMAIN SwapPairs(bytes) = 1 .. 2 * c
           /\ Len(SwapPairs(bytes)) = 2 * c
           /\ \A k \in 1 .. 2 * c : (IF k % 2 = 1 THEN k + 1 ELSE k - 1) \in 1 .. 2 * c
<1>1. bytes \in Seq(Byte) /\ DOMAIN bytes = 1 .. 2 * c
  BY DEF Value
<1>2. ASSUME NEW k \in 1 .. 2 * c
      PROVE  (IF k % 2 = 1 THEN k + 1 ELSE k - 1) \in 1 .. 2 * c
  OBVIOUS
<1>3. \A k \in 1 .. 2 * c : bytes[k] \in Byte
  BY <1>1
<1>4. \A k \in 1 .. 2 * c : bytes[IF k % 2 = 1 THEN k + 1 ELSE k - 1] \in Byte
  BY <1>2, <1>3
<1>5. PICK w \in [1 .. 2 * c -> Byte] : w = SwapPairs(bytes)
  BY <1>1, <1>4 DEF SwapPairs
<1>6. w \in Seq(Byte) /\ Len(w) = 2 * c
  BY <1>5
<1> QED
  BY <1>2, <1>5, <1>6 DEF Value

\* `piece' is that of e registers in `bytes', those of c, behind the first d.
PieceAt(piece, e, bytes, c, d) ==
    /\ bytes \in Value /\ c \in Nat /\ Len(bytes) = 2 * c
    /\ piece \in Value /\ e \in Nat /\ Len(piece) = 2 * e
    /\ d \in Nat /\ d + e <= c
    /\ \A k \in 1 .. 2 * e : piece[k] = bytes[2 * d + k]

PieceSwapped(piece, e, bytes, d) ==
    SwapPairs(piece) = SubSeq(SwapPairs(bytes), 2 * d + 1, 2 * d + 2 * e)

\* Turning the pairs of some bytes round turns those of each such piece round.
LEMMA SwappedPiece ==
    ASSUME NEW bytes, NEW c, NEW piece, NEW e, NEW d, PieceAt(piece, e, bytes, c, d)
    PROVE  PieceSwapped(piece, e, bytes, d)
<1> USE DEF PieceAt
<1> DEFINE other(k) == IF k % 2 = 1 THEN k + 1 ELSE k - 1
<1>1. /\ SwapPairs(bytes) \in Value /\ Len(SwapPairs(bytes)) = 2 * c
      /\ SwapPairs(piece) \in Value /\ Len(SwapPairs(piece)) = 2 * e
  BY SwapPairsType
<1>2. PICK m \in Nat, n \in Nat : m = 2 * d /\ n = 2 * d + 2 * e /\ n <= 2 * c /\ m <= n
                                 /\ n - m = 2 * e
  OBVIOUS
<1>3. PICK slice \in Value :
        /\ slice = SubSeq(SwapPairs(bytes), m + 1, n) /\ Len(slice) = 2 * e
        /\ \A k \in 1 .. 2 * e : slice[k] = SwapPairs(bytes)[m + k]
  <2>1. PICK swapped \in Value : swapped = SwapPairs(bytes) /\ Len(swapped) = 2 * c
    BY <1>1
  <2>2. /\ SubSeq(swapped, m + 1, n) \in Value
        /\ Len(SubSeq(swapped, m + 1, n)) = n - m
        /\ \A k \in 1 .. n - m : SubSeq(swapped, m + 1, n)[k] = swapped[m + k]
    BY <1>2, <2>1, PieceType
  <2> QED
    BY <1>2, <2>1, <2>2
<1>4. ASSUME NEW k \in 1 .. 2 * e PROVE slice[k] = SwapPairs(piece)[k]
  <2>1. /\ other(k) \in 1 .. 2 * e /\ other(m + k) = m + other(k)
        /\ m + k \in 1 .. 2 * c
    BY <1>2
  <2>2. SwapPairs(piece)[k] = piece[other(k)]
    BY DEF SwapPairs, Value
  <2>3. SwapPairs(bytes)[m + k] = bytes[other(m + k)]
    BY <2>1 DEF SwapPairs, Value
  <2>4. piece[other(k)] = bytes[m + other(k)]
    BY <1>2, <2>1
  <2> QED
    BY <1>3, <2>1, <2>2, <2>3, <2>4
<1>5. slice = SwapPairs(piece)
  <2>1. PICK w \in Seq(Byte) : w = SwapPairs(piece) /\ Len(w) = 2 * e
    BY <1>1 DEF Value
  <2>2. slice \in Seq(Byte)
    BY DEF Value
  <2> QED
    BY <1>3, <1>4, <2>1, <2>2
<1> QED
  BY <1>2, <1>3, <1>5 DEF PieceSwapped

\* Such a piece is found where it is.
LEMMA PieceFound ==
    ASSUME NEW bytes, NEW c, NEW piece, NEW e, NEW d, PieceAt(piece, e, bytes, c, d)
    PROVE  Piece(bytes, 2 * d, 2 * d + 2 * e) = piece
<1> USE DEF PieceAt
<1>1. PICK m \in Nat, n \in Nat :
        /\ m = 2 * d /\ n = 2 * d + 2 * e /\ n <= Len(bytes) /\ m <= n
        /\ n - m = 2 * e
  <2>1. 2 * d + 2 * e <= 2 * c
    OBVIOUS
  <2> QED
    BY <2>1
<1>2. /\ SubSeq(bytes, m + 1, n) \in Value
      /\ Len(SubSeq(bytes, m + 1, n)) = n - m
      /\ \A k \in 1 .. n - m : SubSeq(bytes, m + 1, n)[k] = bytes[m + k]
  BY <1>1, PieceType
<1>3. PICK found \in Seq(Byte) : /\ found = Piece(bytes, m, n) /\ Len(found) = 2 * e
                                 /\ \A k \in 1 .. 2 * e : found[k] = bytes[m + k]
  BY <1>1, <1>2 DEF Piece, Value
<1>4. found = piece
  <2>1. piece \in Seq(Byte)
    BY DEF Value
  <2> QED
    BY <1>1, <1>3, <2>1
<1> QED
  BY <1>1, <1>3, <1>4

=============================================================================
