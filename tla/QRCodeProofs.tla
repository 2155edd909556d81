---------------------------- MODULE QRCodeProofs ----------------------------
(***************************************************************************)
(* The choices QRCode makes, for all calls, masks and bounds: the smallest *)
(* symbol with room for the segments, and the mask with the lowest         *)
(* penalty. That the patterns of all forty versions lie inside the symbol  *)
(* and that the penalty does not overflow are lemmas on the way.           *)
(***************************************************************************)
EXTENDS QRCode, FiniteSetTheorems, TLAPS

-----------------------------------------------------------------------------
(***************************************************************************)
(* Counting the modules, and the range of the penalty.                     *)
(***************************************************************************)

(* A set of natural numbers has a smallest element.                         *)
LEMMA MinExists ==
  ASSUME NEW S \in SUBSET Nat, S # {}
  PROVE  Min(S) \in S /\ \A y \in S : Min(S) <= y
<1> DEFINE R == {ss \in Nat \X Nat : ss[1] < ss[2]}
<1>1. IsWellFoundedOn(R, Nat)
  BY NatLessThanWellFounded DEF OpToRel
<1>2. PICK m \in S : \A l \in S : ~(<<l, m>> \in R)
  BY <1>1, WFMin
<1>3. \A l \in S : m <= l
  <2> SUFFICES ASSUME NEW l \in S, l < m PROVE FALSE
    OBVIOUS
  <2>1. <<l, m>> \in R
    OBVIOUS
  <2> QED BY <1>2, <2>1
<1> QED BY <1>3 DEF Min

(* An interval as long as two sides of the largest symbol is finite.        *)
LEMMA IntervalCard ==
  ASSUME NEW a \in Int, NEW b \in Int, b - a + 1 <= 354
  PROVE  IsFiniteSet(a..b) /\ Cardinality(a..b) \in Nat /\ Cardinality(a..b) <= 354
<1>1. IsFiniteSet(a..b) /\ Cardinality(a..b) = IF a > b THEN 0 ELSE b - a + 1
  BY FS_Interval
<1>2. CASE a > b
  BY <1>1, <1>2
<1>3. CASE ~(a > b)
  BY <1>1, <1>3
<1> QED
  BY <1>2, <1>3

(* A set of pairs of such numbers is finite, and its size is bounded.       *)
LEMMA CellBound ==
  ASSUME NEW A, NEW B, IsFiniteSet(A), IsFiniteSet(B),
         Cardinality(A) \in Nat, Cardinality(A) <= 354,
         Cardinality(B) \in Nat, Cardinality(B) <= 354,
         NEW S, S \subseteq A \X B
  PROVE  IsFiniteSet(S) /\ Cardinality(S) \in Nat /\ Cardinality(S) <= 354 * 354
<1>1. IsFiniteSet(A \X B) /\ Cardinality(A \X B) = Cardinality(A) * Cardinality(B)
  BY FS_Product
<1>2. IsFiniteSet(S) /\ Cardinality(S) <= Cardinality(A \X B)
  BY <1>1, FS_Subset
<1>3. Cardinality(S) \in Nat
  BY <1>2, FS_CardinalityType
<1>4. \A x, y, z \in Nat : x <= 354 /\ y <= 354 /\ z <= x * y => z <= 354 * 354
  <2> SUFFICES ASSUME NEW x \in Nat, NEW y \in Nat, x <= 354, y <= 354
               PROVE  x * y <= 354 * 354
    OBVIOUS
  <2>1. x * y <= 354 * y
    OBVIOUS
  <2> QED BY <2>1
<1> QED
  BY <1>1, <1>2, <1>3, <1>4

(* A symbol has size * size modules.                                        *)
LEMMA GridCard ==
  ASSUME NEW size \in 1..177
  PROVE  IsFiniteSet(Grid(size)) /\ Cardinality(Grid(size)) = size * size
<1>1. IsFiniteSet(0..(size - 1)) /\ Cardinality(0..(size - 1)) = size
  BY FS_Interval
<1> QED
  BY <1>1, FS_Product DEF Grid

(* The black modules of a symbol are no more than it has modules.           *)
LEMMA BlackCount ==
  ASSUME NEW f, NEW b, NEW size \in 1..177,
         DOMAIN f \subseteq Grid(size), DOMAIN b \subseteq Grid(size) \ DOMAIN f
  PROVE  Cardinality({p \in DOMAIN f : f[p] = 1}) + Cardinality({p \in DOMAIN b : b[p] = 1})
           \in 0..(size * size)
<1> DEFINE A == {p \in DOMAIN f : f[p] = 1}
           B == {p \in DOMAIN b : b[p] = 1}
<1>1. A \subseteq Grid(size) /\ B \subseteq Grid(size) /\ A \cap B = {}
  OBVIOUS
<1>2. A \cup B \subseteq Grid(size)
  BY <1>1
<1> HIDE DEF A, B
<1>3. IsFiniteSet(A) /\ IsFiniteSet(B) /\ IsFiniteSet(A \cup B)
      /\ Cardinality(A \cup B) <= size * size
  BY <1>1, <1>2, GridCard, FS_Subset
<1>4. Cardinality(A) \in Nat /\ Cardinality(B) \in Nat
  BY <1>3, FS_CardinalityType
<1>5. Cardinality(A \cup B) = Cardinality(A) + Cardinality(B)
  <2>1. Cardinality(A \cup B) = Cardinality(A) + Cardinality(B) - Cardinality(A \cap B)
    BY <1>3, FS_Union
  <2>2. Cardinality(A \cap B) = 0
    BY <1>1, FS_EmptySet
  <2> QED BY <2>1, <2>2, <1>4
<1>6. Cardinality(A) + Cardinality(B) \in 0..(size * size)
  BY <1>3, <1>4, <1>5
<1> QED
  BY <1>6 DEF A, B

(* The search for k4 ends: nine steps of the balance always suffice.        *)
LEMMA BalanceStep ==
  ASSUME NEW total \in Nat, NEW black \in 0..total
  PROVE  Min({k \in 0..9 : /\ black * 20 >= (9 - k) * total
                           /\ black * 20 <= (11 + k) * total}) \in 0..9
<1> DEFINE S == {k \in 0..9 : /\ black * 20 >= (9 - k) * total
                           /\ black * 20 <= (11 + k) * total}
<1>1. 9 \in S
  OBVIOUS
<1>2. S \subseteq 0..9
  OBVIOUS
<1> HIDE DEF S
<1>4. Min(S) \in S
  BY <1>1, <1>2, MinExists
<1>5. Min(S) \in 0..9
  BY <1>2, <1>4
<1> QED
  BY <1>5 DEF S

(* The five terms of the penalty stay far below INT32_MAX.                  *)
LEMMA PenaltySum ==
  ASSUME NEW a \in Nat, NEW b \in Nat, NEW c \in Nat, NEW d \in Nat, NEW k \in 0..9,
         b <= 354 * 354, c <= 354 * 354, d <= 354 * 354, a <= b
  PROVE  LET p == 3 * a + (b - a) + 3 * c + 40 * d + 10 * k
         IN  p \in Nat /\ p < NoPenalty
BY SMT DEF NoPenalty

(* The penalty of a symbol is a number below INT32_MAX, for every content   *)
(* of its modules: the sum does not overflow, and the first mask tried      *)
(* becomes the best one so far (getPenaltyScore).                           *)
LEMMA PenaltyRange ==
  ASSUME NEW f, NEW b, NEW size \in 1..177,
         DOMAIN f \subseteq Grid(size), DOMAIN b \subseteq Grid(size) \ DOMAIN f
  PROVE  getPenaltyScore(f, b, size) \in Nat /\ getPenaltyScore(f, b, size) < NoPenalty
<1> DEFINE side  == 1..size
           rows  == Evaluated([y \in side |->
                       Evaluated([x \in side |-> getModule(f, b, <<x - 1, y - 1>>)])])
           lines == rows \o [x \in side |-> Evaluated([y \in side |-> rows[y][x]])]
           Same(l, i) == \A j \in 1..4 : l[i - j] = l[i]
           runs  == {e \in (1..(2 * size)) \X (5..size) : Same(lines[e[1]], e[2])}
           fives == {e \in runs : e[2] = 5 \/ lines[e[1]][e[2] - 5] # lines[e[1]][e[2]]}
           Even(x, y) == /\ rows[y][x] = rows[y][x + 1] /\ rows[y][x] = rows[y + 1][x]
                         /\ rows[y][x] = rows[y + 1][x + 1]
           blocks == {p \in (1..(size - 1)) \X (1..(size - 1)) : Even(p[1], p[2])}
           Shows(l, i, bits) == \A j \in 0..10 : l[i - j] = Bit(bits, j)
           finders == {e \in (1..(2 * size)) \X (11..size) :
                         \E bits \in {93, 1488} : Shows(lines[e[1]], e[2], bits)}
           black == Cardinality({p \in DOMAIN f : f[p] = 1})
                      + Cardinality({p \in DOMAIN b : b[p] = 1})
           total == size * size
           k4    == Min({k \in 0..9 : /\ black * 20 >= (9 - k) * total
                                      /\ black * 20 <= (11 + k) * total})
<1>1. getPenaltyScore(f, b, size)
        = PENALTY_N1 * Cardinality(fives) + (Cardinality(runs) - Cardinality(fives))
            + PENALTY_N2 * Cardinality(blocks) + PENALTY_N3 * Cardinality(finders)
            + PENALTY_N4 * k4
  BY Zenon DEF getPenaltyScore
<1>2. k4 \in 0..9
  <2>1. black \in 0..total
    BY BlackCount
  <2>2. total \in Nat
    OBVIOUS
  <2> HIDE DEF black, total
  <2> QED BY <2>1, <2>2, BalanceStep
<1>3. runs \subseteq (1..(2 * size)) \X (5..size)
  BY Zenon
<1>4. fives \subseteq runs
  BY Zenon
<1>5. blocks \subseteq (1..(size - 1)) \X (1..(size - 1))
  BY Zenon
<1>6. finders \subseteq (1..(2 * size)) \X (11..size)
  <2> HIDE DEF lines, Shows
  <2> QED OBVIOUS
<1> HIDE DEF k4, runs, fives, blocks, finders
<1>7. /\ IsFiniteSet(1..(2 * size)) /\ Cardinality(1..(2 * size)) \in Nat
      /\ Cardinality(1..(2 * size)) <= 354
  BY 2 * size \in Int, 2 * size - 1 + 1 <= 354, IntervalCard
<1>8. /\ IsFiniteSet(5..size) /\ Cardinality(5..size) \in Nat
      /\ Cardinality(5..size) <= 354
  BY size \in Int, size - 5 + 1 <= 354, IntervalCard
<1>9. /\ IsFiniteSet(11..size) /\ Cardinality(11..size) \in Nat
      /\ Cardinality(11..size) <= 354
  BY size \in Int, size - 11 + 1 <= 354, IntervalCard
<1>10. /\ IsFiniteSet(1..(size - 1)) /\ Cardinality(1..(size - 1)) \in Nat
       /\ Cardinality(1..(size - 1)) <= 354
  BY size - 1 \in Int, size - 1 - 1 + 1 <= 354, IntervalCard
<1>11. IsFiniteSet(runs) /\ Cardinality(runs) \in Nat /\ Cardinality(runs) <= 354 * 354
  BY <1>3, <1>7, <1>8, CellBound
<1>12. IsFiniteSet(blocks) /\ Cardinality(blocks) \in Nat /\ Cardinality(blocks) <= 354 * 354
  BY <1>5, <1>10, CellBound
<1>13. IsFiniteSet(finders) /\ Cardinality(finders) \in Nat /\ Cardinality(finders) <= 354 * 354
  BY <1>6, <1>7, <1>9, CellBound
<1>14. IsFiniteSet(fives) /\ Cardinality(fives) <= Cardinality(runs)
  BY <1>4, <1>11, FS_Subset
<1>15. Cardinality(fives) \in Nat
  BY <1>14, FS_CardinalityType
<1> DEFINE a == Cardinality(fives)
           r == Cardinality(runs)
           c == Cardinality(blocks)
           d == Cardinality(finders)
<1>16. /\ a \in Nat /\ r \in Nat /\ c \in Nat /\ d \in Nat
       /\ r <= 354 * 354 /\ c <= 354 * 354 /\ d <= 354 * 354 /\ a <= r
  BY <1>11, <1>12, <1>13, <1>14, <1>15, Zenon
<1>17. getPenaltyScore(f, b, size) = 3 * a + (r - a) + 3 * c + 40 * d + 10 * k4
  BY <1>1, Zenon DEF PENALTY_N1, PENALTY_N2, PENALTY_N3, PENALTY_N4
<1> HIDE DEF a, r, c, d
<1>18. LET p == 3 * a + (r - a) + 3 * c + 40 * d + 10 * k4
       IN  p \in Nat /\ p < NoPenalty
  BY <1>2, <1>16, PenaltySum
<1> QED
  BY <1>17, <1>18

-----------------------------------------------------------------------------
(***************************************************************************)
(* The function patterns and the mask.                                     *)
(***************************************************************************)

(* The modules that show the format bits.                                   *)
FormatCells(size) == (UNION {FormatAt(size, i) : i \in 0..14}) \cup {<<8, size - 8>>}

(* They do not depend on the level and the mask.                            *)
LEMMA FormatDomain ==
  ASSUME NEW size, NEW ecl, NEW m
  PROVE  DOMAIN FormatPattern(size, ecl, m) = FormatCells(size)
BY Zenon DEF FormatPattern, FormatCells

(* The modules of one pattern over another.                                 *)
LEMMA OverDomain ==
  ASSUME NEW f, NEW g
  PROVE  DOMAIN Over(f, g) = DOMAIN f \cup DOMAIN g
BY Zenon DEF Over

(* A pattern covers another one of the same modules completely.             *)
LEMMA OverOver ==
  ASSUME NEW f, NEW g, NEW h, DOMAIN f = DOMAIN g
  PROVE  Over(f, Over(g, h)) = Over(f, h)
<1>1. DOMAIN Over(g, h) = DOMAIN g \cup DOMAIN h
  BY OverDomain
<1>2. DOMAIN f \cup DOMAIN Over(g, h) = DOMAIN f \cup DOMAIN h
  BY <1>1
<1>3. \A p \in DOMAIN f \cup DOMAIN h :
        (IF p \in DOMAIN f THEN f[p] ELSE Over(g, h)[p])
          = (IF p \in DOMAIN f THEN f[p] ELSE h[p])
  <2> SUFFICES ASSUME NEW p \in DOMAIN h, p \notin DOMAIN f
               PROVE  Over(g, h)[p] = h[p]
    OBVIOUS
  <2> QED BY DEF Over
<1> DEFINE A == Over(g, h)
           D == DOMAIN f \cup DOMAIN h
<1>4. Over(f, A) = [p \in D |-> IF p \in DOMAIN f THEN f[p] ELSE A[p]]
  BY <1>2 DEF Over
<1>5. Over(f, h) = [p \in D |-> IF p \in DOMAIN f THEN f[p] ELSE h[p]]
  BY DEF Over
<1> HIDE DEF A, D
<1> QED
  BY <1>3, <1>4, <1>5 DEF A, D

(* Drawing the format bits again adds no module.                            *)
LEMMA FormatDomainKept ==
  ASSUME NEW f, NEW v, NEW l, NEW m, FormatCells(Size(v)) \subseteq DOMAIN f
  PROVE  DOMAIN drawFormatBits(f, v, l, m) = DOMAIN f
<1>1. DOMAIN drawFormatBits(f, v, l, m) = FormatCells(Size(v)) \cup DOMAIN f
  BY FormatDomain, OverDomain DEF drawFormatBits
<1> QED BY <1>1

(* Of the format bits drawn one after the other, the last ones remain.      *)
LEMMA FormatRedrawn ==
  ASSUME NEW f, NEW v, NEW l, NEW s, NEW m
  PROVE  drawFormatBits(drawFormatBits(f, v, l, s), v, l, m) = drawFormatBits(f, v, l, m)
<1>1. DOMAIN FormatPattern(Size(v), l, s) = DOMAIN FormatPattern(Size(v), l, m)
  BY FormatDomain
<1> QED
  BY <1>1, OverOver DEF drawFormatBits

(* Masking keeps the modules black or white.                                *)
LEMMA MaskType ==
  ASSUME NEW D, NEW b \in [D -> {0, 1}], NEW m
  PROVE  applyMask(b, m) \in [D -> {0, 1}]
BY DEF applyMask

(* A mask applied twice is undone.                                          *)
LEMMA MaskTwice ==
  ASSUME NEW D, NEW b \in [D -> {0, 1}], NEW m
  PROVE  applyMask(applyMask(b, m), m) = b
<1> DEFINE c == applyMask(b, m)
<1>1. c \in [D -> {0, 1}]
  BY MaskType
<1>2. applyMask(c, m) \in [D -> {0, 1}]
  BY <1>1, MaskType
<1>3. ASSUME NEW p \in D PROVE applyMask(c, m)[p] = b[p]
  <2>1. b[p] \in {0, 1}
    OBVIOUS
  <2>2. c[p] = IF Inverts(m, p[1], p[2]) THEN 1 - b[p] ELSE b[p]
    BY DEF applyMask
  <2>3. applyMask(c, m)[p] = IF Inverts(m, p[1], p[2]) THEN 1 - c[p] ELSE c[p]
    <3> HIDE DEF c
    <3> QED BY <1>1 DEF applyMask
  <2> HIDE DEF c
  <2> QED BY <2>1, <2>2, <2>3
<1> HIDE DEF c
<1>4. applyMask(c, m) = b
  BY <1>2, <1>3
<1> QED BY <1>4 DEF c

(* The sizes of the forty versions.                                         *)
LEMMA SizeRange ==
  ASSUME NEW v \in 1..40
  PROVE  Size(v) \in 21..177 /\ Size(v) \in 1..177
BY DEF Size

(* The format bits lie inside the symbol,                                   *)
LEMMA FormatInside ==
  ASSUME NEW size \in 21..177
  PROVE  FormatCells(size) \subseteq Grid(size)
<1>1. ASSUME NEW i \in 0..14, NEW p \in FormatAt(size, i)
      PROVE  p \in Grid(size)
  <2>1. CASE p = IF i <= 5 THEN <<8, i>>
                 ELSE IF i \in {6, 7} THEN <<8, i + 1>>
                 ELSE IF i = 8 THEN <<7, 8>> ELSE <<14 - i, 8>>
    BY <2>1 DEF Grid
  <2>2. CASE p = IF i <= 7 THEN <<size - 1 - i, 8>> ELSE <<8, size - 15 + i>>
    BY <2>2 DEF Grid
  <2> QED BY <1>1, <2>1, <2>2, Zenon DEF FormatAt
<1>2. <<8, size - 8>> \in Grid(size)
  BY DEF Grid
<1> HIDE DEF FormatCells
<1>3. ASSUME NEW p \in FormatCells(size)
      PROVE  p = <<8, size - 8>> \/ \E i \in 0..14 : p \in FormatAt(size, i)
  BY <1>3, Zenon DEF FormatCells
<1> QED
  BY <1>1, <1>2, <1>3, Zenon

(* and so do the timing lines,                                              *)
LEMMA TimingInside ==
  ASSUME NEW size
  PROVE  DOMAIN TimingPattern(size) \subseteq Grid(size)
BY Zenon DEF TimingPattern

(* the finders, which are cut off at the edge,                              *)
LEMMA FinderInside ==
  ASSUME NEW size
  PROVE  DOMAIN drawFinderPattern(size) \subseteq Grid(size)
<1> DEFINE S == UNION {Square(c, 4) : c \in {<<3, 3>>, <<size - 4, 3>>, <<3, size - 4>>}}
<1>1. DOMAIN drawFinderPattern(size) = S \cap Grid(size)
  BY DEF drawFinderPattern
<1> HIDE DEF S
<1> QED BY <1>1

(* the two copies of the version,                                           *)
LEMMA VersionInside ==
  ASSUME NEW v \in 1..40
  PROVE  DOMAIN drawVersion(v) \subseteq Grid(Size(v))
<1> DEFINE a(i) == Size(v) - 11 + (i % 3)
           At(i) == {<<a(i), i \div 3>>, <<i \div 3, a(i)>>}
<1>1. DOMAIN drawVersion(v) = IF v < 7 THEN {} ELSE UNION {At(i) : i \in 0..17}
  BY Zenon DEF drawVersion
<1>2. ASSUME NEW i \in 0..17 PROVE At(i) \subseteq Grid(Size(v))
  <2>1. i % 3 \in 0..2 /\ i \div 3 \in 0..5
    OBVIOUS
  <2>2. Size(v) \in 21..177
    BY SizeRange
  <2>3. a(i) \in 0..(Size(v) - 1)
    BY <2>1, <2>2
  <2>4. i \div 3 \in 0..(Size(v) - 1)
    BY <2>1, <2>2
  <2> HIDE DEF a
  <2> QED BY <2>3, <2>4 DEF Grid
<1> HIDE DEF At
<1> QED BY <1>1, <1>2

(* A smaller multiple of a step is within the bound of a larger one.        *)
LEMMA ScaledDown ==
  ASSUME NEW step \in Nat, NEW j \in Nat, NEW k \in 0..j, NEW bound \in Int, j * step <= bound
  PROVE  k * step \in Nat /\ k * step <= bound
<1>1. (j - k) * step \in Nat
  <2>1. j - k \in Nat
    OBVIOUS
  <2> QED BY <2>1
<1>2. j * step = k * step + (j - k) * step
  OBVIOUS
<1>3. k * step \in Nat
  OBVIOUS
<1> QED
  BY <1>1, <1>2, <1>3

(* The distance of the alignment patterns.                                  *)
AlignStep(v) == IF v = 32 THEN 26
                ELSE 2 * ((4 * v + 2 * numAlign(v) + 1) \div (2 * numAlign(v) - 2))

(* The patterns between the first and the last one, spaced evenly, end      *)
(* before the first one is reached.                                         *)
LEMMA StepBound ==
  ASSUME NEW v \in 2..40, NEW n \in 2..7, v >= 7 * (n - 2), v <= 7 * (n - 2) + 6,
         NEW step, step = 2 * ((4 * v + 2 * n + 1) \div (2 * n - 2))
  PROVE  step \in Nat /\ (n - 2) * step <= 4 * v + 8
<1>1. CASE n = 2
  <2>1. (4 * v + 2 * n + 1) \div (2 * n - 2) = (4 * v + 5) \div 2
    BY <1>1
  <2>2. (4 * v + 5) \div 2 \in Nat /\ 2 * ((4 * v + 5) \div 2) <= 4 * v + 5
    OBVIOUS
  <2> QED BY <1>1, <2>1, <2>2
<1>2. CASE n = 3
  <2>1. (4 * v + 2 * n + 1) \div (2 * n - 2) = (4 * v + 7) \div 4
    BY <1>2
  <2>2. (4 * v + 7) \div 4 \in Nat /\ 4 * ((4 * v + 7) \div 4) <= 4 * v + 7
    OBVIOUS
  <2> QED BY <1>2, <2>1, <2>2
<1>3. CASE n = 4
  <2>1. (4 * v + 2 * n + 1) \div (2 * n - 2) = (4 * v + 9) \div 6
    BY <1>3
  <2>2. (4 * v + 9) \div 6 \in Nat /\ 6 * ((4 * v + 9) \div 6) <= 4 * v + 9
    OBVIOUS
  <2> QED BY <1>3, <2>1, <2>2
<1>4. CASE n = 5
  <2>1. (4 * v + 2 * n + 1) \div (2 * n - 2) = (4 * v + 11) \div 8
    BY <1>4
  <2>2. (4 * v + 11) \div 8 \in Nat /\ 8 * ((4 * v + 11) \div 8) <= 4 * v + 11
    OBVIOUS
  <2> QED BY <1>4, <2>1, <2>2
<1>5. CASE n = 6
  <2>1. (4 * v + 2 * n + 1) \div (2 * n - 2) = (4 * v + 13) \div 10
    BY <1>5
  <2>2. (4 * v + 13) \div 10 \in Nat /\ 10 * ((4 * v + 13) \div 10) <= 4 * v + 13
    OBVIOUS
  <2> QED BY <1>5, <2>1, <2>2
<1>6. CASE n = 7
  <2>1. (4 * v + 2 * n + 1) \div (2 * n - 2) = (4 * v + 15) \div 12
    BY <1>6
  <2>2. (4 * v + 15) \div 12 \in Nat /\ 12 * ((4 * v + 15) \div 12) <= 4 * v + 15
    OBVIOUS
  <2> QED BY <1>6, <2>1, <2>2
<1> QED
  BY <1>1, <1>2, <1>3, <1>4, <1>5, <1>6

(* The same with version 32, whose step is an exception.                    *)
LEMMA AlignSpan ==
  ASSUME NEW v \in 2..40
  PROVE  /\ numAlign(v) \in 2..7
         /\ AlignStep(v) \in Nat
         /\ (numAlign(v) - 2) * AlignStep(v) <= 4 * v + 8
<1>1. /\ numAlign(v) \in 2..7
      /\ v >= 7 * (numAlign(v) - 2) /\ v <= 7 * (numAlign(v) - 2) + 6
  BY DEF numAlign
<1>2. CASE v = 32
  BY <1>2 DEF AlignStep, numAlign
<1>3. CASE v # 32
  <2>1. AlignStep(v) = 2 * ((4 * v + 2 * numAlign(v) + 1) \div (2 * numAlign(v) - 2))
    BY <1>3 DEF AlignStep
  <2> QED BY <1>1, <2>1, StepBound
<1> QED BY <1>2, <1>3

(* The positions of the alignment patterns keep two modules from the edge.  *)
LEMMA AlignPositions ==
  ASSUME NEW v \in 1..40
  PROVE  /\ Len(getAlignmentPatternPositions(v)) \in Nat
         /\ \A i \in 1..Len(getAlignmentPatternPositions(v)) :
              getAlignmentPatternPositions(v)[i] \in 2..(Size(v) - 3)
<1>1. CASE v = 1
  <2>1. getAlignmentPatternPositions(v) = <<>>
    BY <1>1, Zenon DEF getAlignmentPatternPositions
  <2> QED BY <2>1
<1>2. CASE v # 1
  <2>0. v \in 2..40
    BY <1>2
  <2> DEFINE n == numAlign(v)
             step == AlignStep(v)
  <2>1. n \in 2..7 /\ step \in Nat /\ (n - 2) * step <= 4 * v + 8
    BY <2>0, AlignSpan
  <2>2. getAlignmentPatternPositions(v)
          = [i \in 1..n |-> IF i = 1 THEN 6 ELSE Size(v) - 7 - (n - i) * step]
    BY <1>2, Zenon DEF getAlignmentPatternPositions, AlignStep
  <2> HIDE DEF n, step
  <2>3. Len(getAlignmentPatternPositions(v)) = n
    BY <2>1, <2>2
  <2>4. ASSUME NEW i \in 1..n
        PROVE  getAlignmentPatternPositions(v)[i] \in 2..(Size(v) - 3)
    <3>1. CASE i = 1
      <4>1. getAlignmentPatternPositions(v)[i] = 6
        BY <2>2, <3>1
      <4>2. Size(v) \in 21..177
        BY SizeRange
      <4> QED BY <4>1, <4>2
    <3>2. CASE i # 1
      <4>1. getAlignmentPatternPositions(v)[i] = Size(v) - 7 - (n - i) * step
        BY <2>2, <3>2
      <4>2. n - i \in 0..(n - 2) /\ n - 2 \in Nat
        BY <2>1, <3>2
      <4>3. 4 * v + 8 \in Int
        OBVIOUS
      <4>4. (n - i) * step \in Nat /\ (n - i) * step <= 4 * v + 8
        BY <2>1, <4>2, <4>3, ScaledDown
      <4> DEFINE w == (n - i) * step
      <4>5. w \in Nat /\ w <= 4 * v + 8 /\ getAlignmentPatternPositions(v)[i] = Size(v) - 7 - w
        BY <4>1, <4>4
      <4> HIDE DEF w
      <4> QED BY <4>5 DEF Size
    <3> QED BY <3>1, <3>2
  <2> QED BY <2>1, <2>3, <2>4
<1> QED BY <1>1, <1>2

(* and the alignment patterns.                                              *)
LEMMA AlignmentInside ==
  ASSUME NEW v \in 1..40
  PROVE  DOMAIN drawAlignmentPattern(v) \subseteq Grid(Size(v))
<1> DEFINE pos == getAlignmentPatternPositions(v)
           n   == Len(pos)
           centres == AlignmentCentres(v)
<1>1. DOMAIN drawAlignmentPattern(v) = UNION {Square(c, 2) : c \in centres}
  BY Zenon DEF drawAlignmentPattern
<1>2. ASSUME NEW c \in centres
      PROVE  c[1] \in 2..(Size(v) - 3) /\ c[2] \in 2..(Size(v) - 3)
  <2>1. PICK d \in (1..n) \X (1..n) : c = <<pos[d[1]], pos[d[2]]>>
    BY <1>2 DEF AlignmentCentres
  <2>2. d[1] \in 1..n /\ d[2] \in 1..n
    BY <2>1
  <2>3. pos[d[1]] \in 2..(Size(v) - 3) /\ pos[d[2]] \in 2..(Size(v) - 3)
    BY <2>2, AlignPositions
  <2> HIDE DEF pos, n
  <2> QED BY <2>1, <2>3
<1> HIDE DEF centres
<1>3. ASSUME NEW c \in centres, NEW p \in Square(c, 2)
      PROVE  p \in Grid(Size(v))
  <2>1. Size(v) \in 21..177
    BY SizeRange
  <2> DEFINE x == c[1]
             y == c[2]
  <2>2. x \in 2..(Size(v) - 3) /\ y \in 2..(Size(v) - 3)
    BY <1>2
  <2>3. p \in ((x - 2)..(x + 2)) \X ((y - 2)..(y + 2))
    BY <1>3 DEF Square
  <2> HIDE DEF x, y
  <2> QED BY <2>1, <2>2, <2>3 DEF Grid
<1>4. ASSUME NEW p \in DOMAIN drawAlignmentPattern(v)
      PROVE  \E c \in centres : p \in Square(c, 2)
  BY <1>1, <1>4, Zenon
<1> QED
  BY <1>3, <1>4, Zenon

(* The function patterns of every version lie inside the symbol, and the    *)
(* format bits are among them (drawFunctionPatterns).                       *)
LEMMA FunctionPatterns ==
  ASSUME NEW v \in 1..40, NEW l
  PROVE  /\ DOMAIN drawFunctionPatterns(v, l) \subseteq Grid(Size(v))
         /\ FormatCells(Size(v)) \subseteq DOMAIN drawFunctionPatterns(v, l)
<1> DEFINE size == Size(v)
           A == DOMAIN drawVersion(v)
           B == DOMAIN drawAlignmentPattern(v)
           C == DOMAIN drawFinderPattern(size)
           D == DOMAIN TimingPattern(size)
           F == FormatCells(size)
<1>1. size \in 21..177
  BY SizeRange
<1>2. DOMAIN drawFunctionPatterns(v, l) = A \cup (F \cup (B \cup (C \cup D)))
  <2> DEFINE below == Over(drawFinderPattern(size), TimingPattern(size))
             lower == Over(drawAlignmentPattern(v), below)
             upper == drawFormatBits(lower, v, l, 0)
  <2>1. DOMAIN below = C \cup D
    BY OverDomain
  <2>2. DOMAIN lower = B \cup DOMAIN below
    BY OverDomain
  <2>3. DOMAIN upper = F \cup DOMAIN lower
    <3> HIDE DEF lower
    <3>1. upper = Over(FormatPattern(size, l, 0), lower)
      BY DEF drawFormatBits
    <3>2. DOMAIN FormatPattern(size, l, 0) = F
      BY FormatDomain
    <3> HIDE DEF upper, F
    <3> QED BY <3>1, <3>2, OverDomain
  <2>4. drawFunctionPatterns(v, l) = Over(drawVersion(v), upper)
    BY Zenon DEF drawFunctionPatterns
  <2>5. DOMAIN Over(drawVersion(v), upper) = A \cup DOMAIN upper
    BY OverDomain
  <2> HIDE DEF below, lower, upper, A, B, C, D, F
  <2> QED BY <2>1, <2>2, <2>3, <2>4, <2>5
<1>3. A \subseteq Grid(size) /\ B \subseteq Grid(size) /\ C \subseteq Grid(size)
      /\ D \subseteq Grid(size) /\ F \subseteq Grid(size)
  BY <1>1, VersionInside, AlignmentInside, FinderInside, TimingInside, FormatInside, Zenon
<1> HIDE DEF A, B, C, D, F
<1>4. /\ DOMAIN drawFunctionPatterns(v, l) \subseteq Grid(size)
      /\ F \subseteq DOMAIN drawFunctionPatterns(v, l)
  BY <1>2, <1>3
<1> QED BY <1>4 DEF F

-----------------------------------------------------------------------------
(***************************************************************************)
(* The mask with the lowest penalty. The loop leaves the symbol with the   *)
(* format bits of the mask it tried last, so that the argument needs what  *)
(* redrawing them does, that a mask undoes itself, and that every penalty  *)
(* is below the value the loop starts from.                                *)
(***************************************************************************)

(* The penalty of a symbol drawn with mask m.                               *)
ScoreOf(f, b, v, l, m) ==
    getPenaltyScore(drawFormatBits(f, v, l, m), applyMask(b, m), Size(v))

(* The function modules are inside the symbol and include the format bits.  *)
Patterns(f, v) == DOMAIN f \subseteq Grid(Size(v)) /\ FormatCells(Size(v)) \subseteq DOMAIN f

(* The other modules are black or white.                                    *)
Bodies(f, v) == [Grid(Size(v)) \ DOMAIN f -> {0, 1}]

(* The loop over the masks: the best one so far is one of those tried, its  *)
(* penalty is remembered, and none of those tried has a lower one.          *)
Searching ==
    /\ tried \in 0..8
    /\ tried = 0 => mask = -1 /\ minPenalty = NoPenalty
    /\ tried > 0 => /\ mask \in 0..(tried - 1)
                    /\ minPenalty = ScoreOf(func, body, version, level, mask)
    /\ \A t \in 0..7 : t < tried => minPenalty <= ScoreOf(func, body, version, level, t)

(* No mask has a lower penalty than the one applied, which is undone first. *)
Chosen ==
    LET unmasked == applyMask(body, mask) IN
    \A t \in 0..7 : getPenaltyScore(func, body, Size(version))
                      <= ScoreOf(func, unmasked, version, level, t)

(* The constructor is called with a version and a mask that exist, and what *)
(* the loop starts from is untouched until then.                            *)
InRange == /\ pc = "search" /\ ValidCall => version \in 1..40
           /\ pc \in {"chosen", "functions", "masking", "done"} =>
                version \in 1..40 /\ asked \in -1..7
           /\ pc \in {"search", "chosen", "functions"} =>
                asked = call.mask /\ mask = -1 /\ tried = 0 /\ minPenalty = NoPenalty

(* What is drawn when.                                                      *)
ModulesDrawn == /\ pc \in {"functions", "masking", "done"} => Patterns(func, version)
                /\ pc \in {"masking", "done"} => body \in Bodies(func, version)

(* What the loop over the masks knows, and what it leaves behind. A mask of *)
(* 0..7 is what the assertion of handleConstructorMasking asks for.         *)
MasksTried == /\ pc = "masking" /\ asked = -1 => Searching
              /\ pc = "done" => mask \in 0..7 /\ (asked = -1 => Chosen)

(* The inductive invariant.                                                 *)
MaskInv == call \in Calls /\ InRange /\ ModulesDrawn /\ MasksTried

(* The penalty is a number below INT32_MAX whatever the mask.               *)
LEMMA ScoreRange ==
  ASSUME NEW v \in 1..40, NEW f, Patterns(f, v), NEW b \in Bodies(f, v), NEW l, NEW m
  PROVE  ScoreOf(f, b, v, l, m) \in Nat /\ ScoreOf(f, b, v, l, m) < NoPenalty
<1> DEFINE g == drawFormatBits(f, v, l, m)
           c == applyMask(b, m)
<1>1. DOMAIN g = DOMAIN f
  BY FormatDomainKept DEF Patterns
<1>2. DOMAIN c = DOMAIN b /\ DOMAIN b = Grid(Size(v)) \ DOMAIN f
  BY DEF applyMask, Bodies
<1>3. DOMAIN g \subseteq Grid(Size(v)) /\ DOMAIN c \subseteq Grid(Size(v)) \ DOMAIN g
  BY <1>1, <1>2 DEF Patterns
<1>4. Size(v) \in 1..177
  BY SizeRange
<1> HIDE DEF g, c
<1>5. getPenaltyScore(g, c, Size(v)) \in Nat /\ getPenaltyScore(g, c, Size(v)) < NoPenalty
  BY <1>3, <1>4, PenaltyRange
<1> QED BY <1>5, Zenon DEF ScoreOf, g, c

(* The format bits left by an earlier round do not change the penalty.      *)
LEMMA ScoreRedrawn ==
  ASSUME NEW f, NEW b, NEW v, NEW l, NEW s, NEW m
  PROVE  ScoreOf(drawFormatBits(f, v, l, s), b, v, l, m) = ScoreOf(f, b, v, l, m)
BY FormatRedrawn DEF ScoreOf

(* Nor do they change which modules are function modules.                   *)
LEMMA PatternsRedrawn ==
  ASSUME NEW f, NEW v, NEW l, NEW m, Patterns(f, v)
  PROVE  /\ DOMAIN drawFormatBits(f, v, l, m) = DOMAIN f
         /\ Patterns(drawFormatBits(f, v, l, m), v)
         /\ Bodies(drawFormatBits(f, v, l, m), v) = Bodies(f, v)
<1>1. DOMAIN drawFormatBits(f, v, l, m) = DOMAIN f
  BY FormatDomainKept DEF Patterns
<1> QED BY <1>1, Zenon DEF Patterns, Bodies

(* drawCodewords makes every other module black or white.                   *)
LEMMA CodewordsType ==
  ASSUME NEW data, NEW f, NEW v
  PROVE  drawCodewords(data, f, Size(v)) \in Bodies(f, v)
<1> DEFINE D == Grid(Size(v)) \ DOMAIN f
           Free(p) == p \notin DOMAIN f
           order   == SelectSeq(Scan(Size(v)), Free)
           index   == [p \in D |-> CHOOSE i \in DOMAIN order : order[i] = p]
           Black(p) == LET i == index[p] - 1 IN
                       i < 8 * Len(data) /\ Bit(data[(i \div 8) + 1], 7 - (i % 8)) # 0
<1>1. drawCodewords(data, f, Size(v)) = [p \in DOMAIN index |-> Colour(Black(p))]
  BY Zenon DEF drawCodewords
<1>2. DOMAIN index = D
  OBVIOUS
<1>3. \A p \in D : Colour(Black(p)) \in {0, 1}
  BY DEF Colour
<1> HIDE DEF index, Black, D
<1>4. drawCodewords(data, f, Size(v)) \in [D -> {0, 1}]
  BY <1>1, <1>2, <1>3
<1> QED BY <1>4 DEF D, Bodies

(* What the invariant says once the function patterns are drawn.            *)
LEMMA Drawing ==
  ASSUME MaskInv
  PROVE  /\ pc \in {"functions", "masking", "done"} => version \in 1..40 /\ Patterns(func, version)
         /\ pc \in {"masking", "done"} => asked \in -1..7 /\ body \in Bodies(func, version)
         /\ call \in Calls
<1>1. call \in Calls /\ InRange /\ ModulesDrawn
  BY Zenon DEF MaskInv
<1>2. pc \in {"functions", "masking", "done"} => version \in 1..40 /\ Patterns(func, version)
  <2>1. pc \in {"functions", "masking", "done"} => version \in 1..40
    BY <1>1 DEF InRange
  <2>2. pc \in {"functions", "masking", "done"} => Patterns(func, version)
    BY <1>1, Zenon DEF ModulesDrawn
  <2> QED BY <2>1, <2>2, Zenon
<1>3. pc \in {"masking", "done"} => asked \in -1..7 /\ body \in Bodies(func, version)
  <2>1. pc \in {"masking", "done"} => asked \in -1..7
    BY <1>1 DEF InRange
  <2>2. pc \in {"masking", "done"} => body \in Bodies(func, version)
    BY <1>1, Zenon DEF ModulesDrawn
  <2> QED BY <2>1, <2>2, Zenon
<1> QED BY <1>1, <1>2, <1>3, Zenon

(* It holds at first,                                                       *)
LEMMA MaskInvInit == Init => MaskInv
<1> SUFFICES ASSUME Init PROVE MaskInv
  OBVIOUS
<1>1. call \in Calls /\ pc = "search" /\ version = call.minVersion
      /\ asked = call.mask /\ mask = -1 /\ tried = 0 /\ minPenalty = NoPenalty
  BY Zenon DEF Init
<1>2. call.minVersion \in Int /\ call.maxVersion \in Int
  BY <1>1, CallsAssumption
<1>3. ValidCall => version \in 1..40
  BY <1>1, <1>2 DEF ValidCall
<1>4. InRange
  BY <1>1, <1>3 DEF InRange
<1>5. ModulesDrawn /\ MasksTried
  BY <1>1 DEF ModulesDrawn, MasksTried
<1> QED
  BY <1>1, <1>4, <1>5 DEF MaskInv

(* a round of the loop keeps it: the penalty of the new mask is compared    *)
(* with the lowest one, and the format bits left behind change no other     *)
(* penalty;                                                                 *)
LEMMA MaskInvTryMask ==
  ASSUME MaskInv, TryMask PROVE MaskInv'
<1>1. /\ pc = "masking" /\ asked = -1 /\ tried < 8 /\ tried' = tried + 1
      /\ pc' = pc /\ call' = call /\ version' = version /\ level' = level
      /\ body' = body /\ asked' = asked
  BY DEF TryMask, symbol, masking
<1> DEFINE score == ScoreOf(func, body, version, level, tried)
<1>2. /\ func' = drawFormatBits(func, version, level, tried)
      /\ mask' = IF score < minPenalty THEN tried ELSE mask
      /\ minPenalty' = Min({score, minPenalty})
  BY DEF TryMask, ScoreOf
<1>3. /\ call \in Calls /\ version \in 1..40 /\ asked \in -1..7
      /\ Patterns(func, version) /\ body \in Bodies(func, version) /\ Searching
  <2>1. Searching
    BY <1>1, Zenon DEF MaskInv, MasksTried
  <2> QED BY <1>1, <2>1, Drawing, Zenon
<1>4. score \in Nat /\ score < NoPenalty
  BY <1>3, ScoreRange
<1>5. \A t : ScoreOf(func', body', version', level', t) = ScoreOf(func, body, version, level, t)
  BY <1>1, <1>2, ScoreRedrawn
<1>6. Patterns(func', version') /\ body' \in Bodies(func', version')
  BY <1>1, <1>2, <1>3, PatternsRedrawn
<1>7. minPenalty \in Nat
  <2>1. NoPenalty \in Nat
    BY SMT DEF NoPenalty
  <2>2. CASE tried = 0
    BY <1>3, <2>1, <2>2 DEF Searching
  <2>3. CASE tried # 0
    <3>1. minPenalty = ScoreOf(func, body, version, level, mask)
      BY <1>3, <2>3 DEF Searching
    <3> QED BY <1>3, <3>1, ScoreRange
  <2> QED BY <2>2, <2>3
<1>8. /\ minPenalty' = IF score < minPenalty THEN score ELSE minPenalty
  <2> HIDE DEF score
  <2>1. {score, minPenalty} \in SUBSET Nat /\ {score, minPenalty} # {}
    BY <1>4, <1>7
  <2>2. Min({score, minPenalty}) \in {score, minPenalty}
        /\ \A y \in {score, minPenalty} : Min({score, minPenalty}) <= y
    BY <2>1, MinExists
  <2> QED BY <1>2, <1>4, <1>7, <2>2
<1>9. tried \in 0..7 /\ tried' \in 0..8 /\ tried' # 0 /\ tried' - 1 = tried
  BY <1>1, <1>3 DEF Searching
<1>10. mask' \in 0..tried /\ minPenalty' = ScoreOf(func, body, version, level, mask')
  <2>1. CASE score < minPenalty
    BY <1>2, <1>8, <1>9, <2>1
  <2>2. CASE ~(score < minPenalty)
    <3>1. tried # 0
      BY <1>3, <1>4, <2>2 DEF Searching
    <3>2. mask \in 0..(tried - 1) /\ minPenalty = ScoreOf(func, body, version, level, mask)
      BY <1>3, <1>9, <3>1 DEF Searching
    <3>3. mask' = mask /\ minPenalty' = minPenalty
      BY <1>2, <1>8, <2>2
    <3> QED BY <1>9, <3>2, <3>3
  <2> QED BY <2>1, <2>2
<1>11. ASSUME NEW t \in 0..7, t < tried'
       PROVE  minPenalty' <= ScoreOf(func, body, version, level, t)
  <2>1. minPenalty' <= score /\ minPenalty' <= minPenalty /\ minPenalty' \in Nat
    BY <1>4, <1>7, <1>8
  <2>2. CASE t = tried
    BY <2>1, <2>2
  <2>3. CASE t # tried
    <3>1. t < tried
      BY <1>1, <1>9, <1>11, <2>3
    <3>2. minPenalty <= ScoreOf(func, body, version, level, t)
      BY <1>3, <3>1 DEF Searching
    <3>3. ScoreOf(func, body, version, level, t) \in Nat
      BY <1>3, ScoreRange
    <3> DEFINE u == ScoreOf(func, body, version, level, t)
    <3>4. u \in Nat /\ minPenalty <= u
      BY <3>2, <3>3
    <3> HIDE DEF u
    <3>5. minPenalty' <= u
      BY <1>7, <2>1, <3>4
    <3> QED BY <3>5 DEF u
  <2> QED BY <2>2, <2>3
<1> HIDE DEF score
<1>12. Searching'
  <2>1. tried' > 0 => mask' \in 0..(tried' - 1)
    BY <1>9, <1>10
  <2>2. minPenalty' = ScoreOf(func', body', version', level', mask')
    BY <1>5, <1>10
  <2>3. \A t \in 0..7 : t < tried' => minPenalty' <= ScoreOf(func', body', version', level', t)
    BY <1>5, <1>11
  <2> QED BY <1>9, <2>1, <2>2, <2>3, Zenon DEF Searching
<1>13. InRange'
  BY <1>1, <1>3 DEF InRange
<1>14. ModulesDrawn'
  BY <1>6 DEF ModulesDrawn
<1>15. MasksTried'
  BY <1>1, <1>12 DEF MasksTried
<1> QED
  BY <1>1, <1>3, <1>13, <1>14, <1>15 DEF MaskInv

(* the mask chosen is applied to the symbol the penalties were computed     *)
(* for;                                                                     *)
LEMMA MaskInvApplyMask ==
  ASSUME MaskInv, ApplyMask PROVE MaskInv'
<1> DEFINE m == IF asked = -1 THEN mask ELSE asked
<1>1. /\ pc = "masking" /\ (asked = -1 => tried = 8) /\ pc' = "done"
      /\ call' = call /\ version' = version /\ level' = level /\ asked' = asked
      /\ func' = drawFormatBits(func, version, level, m)
      /\ body' = applyMask(body, m) /\ mask' = m
  BY DEF ApplyMask
<1>2. /\ call \in Calls /\ version \in 1..40 /\ asked \in -1..7
      /\ Patterns(func, version) /\ body \in Bodies(func, version)
      /\ asked = -1 => Searching
  <2>1. asked = -1 => Searching
    BY <1>1, Zenon DEF MaskInv, MasksTried
  <2> QED BY <1>1, <2>1, Drawing, Zenon
<1>3. m \in 0..7
  <2>1. CASE asked = -1
    BY <1>1, <1>2, <2>1 DEF Searching
  <2>2. CASE asked # -1
    BY <1>2, <2>2
  <2> QED BY <2>1, <2>2
<1>4. Patterns(func', version') /\ Bodies(func', version') = Bodies(func, version)
  BY <1>1, <1>2, PatternsRedrawn
<1>5. body' \in Bodies(func', version') /\ applyMask(body', m) = body
  <2> HIDE DEF m
  <2> QED BY <1>1, <1>2, <1>4, MaskType, MaskTwice DEF Bodies
<1>6. ASSUME asked = -1 PROVE Chosen'
  <2>1. /\ tried = 8 /\ m = mask /\ minPenalty = ScoreOf(func, body, version, level, mask)
        /\ \A t \in 0..7 : t < tried => minPenalty <= ScoreOf(func, body, version, level, t)
    BY <1>1, <1>2, <1>6 DEF Searching
  <2>2. getPenaltyScore(func', body', Size(version')) = ScoreOf(func, body, version, level, mask)
    BY <1>1, <2>1 DEF ScoreOf
  <2>3. ASSUME NEW t \in 0..7
        PROVE  getPenaltyScore(func', body', Size(version'))
                 <= ScoreOf(func', applyMask(body', mask'), version', level', t)
    <3>1. minPenalty <= ScoreOf(func, body, version, level, t)
      BY <2>1
    <3>2. ScoreOf(func', applyMask(body', mask'), version', level', t)
            = ScoreOf(func, body, version, level, t)
      BY <1>1, <1>5, ScoreRedrawn
    <3> QED BY <2>1, <2>2, <3>1, <3>2, Zenon
  <2> QED BY <2>3, Zenon DEF Chosen
<1> HIDE DEF m
<1>7. InRange'
  BY <1>1, <1>2 DEF InRange
<1>8. ModulesDrawn'
  BY <1>4, <1>5 DEF ModulesDrawn
<1>9. MasksTried'
  BY <1>1, <1>3, <1>6 DEF MasksTried
<1> QED
  BY <1>1, <1>2, <1>7, <1>8, <1>9 DEF MaskInv

(* a copy undoes the mask and starts over;                                  *)
LEMMA MaskInvCopy ==
  ASSUME MaskInv, NEW m \in CopyMasks, Copy(m) PROVE MaskInv'
<1>1. /\ pc = "done" /\ pc' = "masking" /\ body' = applyMask(body, mask)
      /\ asked' = m /\ mask' = -1 /\ tried' = 0 /\ minPenalty' = NoPenalty
      /\ call' = call /\ version' = version /\ level' = level /\ func' = func
  BY DEF Copy
<1>2. /\ call \in Calls /\ version \in 1..40
      /\ Patterns(func, version) /\ body \in Bodies(func, version)
  BY <1>1, Drawing, Zenon
<1>3. m \in -1..7
  BY CopyMasksAssumption
<1>4. body' \in Bodies(func', version')
  BY <1>1, <1>2, MaskType DEF Bodies
<1>5. InRange'
  BY <1>1, <1>2, <1>3 DEF InRange
<1>6. ModulesDrawn'
  BY <1>1, <1>2, <1>4 DEF ModulesDrawn
<1>7. MasksTried'
  BY <1>1 DEF MasksTried, Searching
<1> QED
  BY <1>1, <1>2, <1>5, <1>6, <1>7 DEF MaskInv

(* and every step keeps it.                                                 *)
LEMMA MaskInvStep ==
  MaskInv /\ [Next]_vars => MaskInv'
<1> SUFFICES ASSUME MaskInv, [Next]_vars PROVE MaskInv'
  OBVIOUS
<1>1. CASE Reject
  BY <1>1 DEF Reject, MaskInv, InRange, ModulesDrawn, MasksTried, symbol, masking
<1>2. CASE Search
  <2>1. /\ pc = "search" /\ ValidCall /\ call' = call /\ call \in Calls
        /\ asked' = asked /\ mask' = mask /\ tried' = tried /\ minPenalty' = minPenalty
        /\ version \in 1..40
    BY <1>2 DEF Search, MaskInv, InRange, symbol, masking
  <2>2. call.maxVersion \in Int /\ call.maxVersion <= 40 /\ call.mask \in -1..7
    BY <2>1, CallsAssumption DEF ValidCall
  <2>3. \/ pc' = "chosen" /\ version' = version
        \/ pc' = "thrown"
        \/ pc' = "search" /\ version' = version + 1 /\ version < call.maxVersion
    BY <1>2, <2>1 DEF Search
  <2>4. asked = call.mask /\ mask = -1 /\ tried = 0 /\ minPenalty = NoPenalty
    BY <2>1 DEF MaskInv, InRange
  <2>5. InRange'
    <3>1. CASE pc' = "chosen" /\ version' = version
      BY <2>1, <2>2, <2>4, <3>1 DEF InRange
    <3>2. CASE pc' = "thrown"
      BY <3>2 DEF InRange
    <3>3. CASE pc' = "search" /\ version' = version + 1 /\ version < call.maxVersion
      <4>1. version' \in 1..40
        BY <2>1, <2>2, <3>3
      <4> QED BY <2>1, <2>4, <3>3, <4>1 DEF InRange
    <3> QED BY <2>3, <3>1, <3>2, <3>3
  <2>6. ModulesDrawn' /\ MasksTried'
    BY <2>3 DEF ModulesDrawn, MasksTried
  <2> QED BY <2>1, <2>5, <2>6 DEF MaskInv
<1>3. CASE DrawFunctionPatterns
  <2>1. /\ pc = "chosen" /\ pc' = "functions" /\ func' = drawFunctionPatterns(version, level)
        /\ call' = call /\ version' = version
        /\ asked' = asked /\ mask' = mask /\ tried' = tried /\ minPenalty' = minPenalty
    BY <1>3 DEF DrawFunctionPatterns, masking
  <2>2. InRange' /\ MasksTried'
    BY <2>1 DEF MaskInv, InRange, MasksTried
  <2>3. version \in 1..40
    BY <2>1 DEF MaskInv, InRange
  <2>4. Patterns(func', version')
    BY <2>1, <2>3, FunctionPatterns DEF Patterns
  <2>5. ModulesDrawn'
    BY <2>1, <2>4 DEF ModulesDrawn
  <2> QED BY <2>1, <2>2, <2>5 DEF MaskInv
<1>4. CASE DrawCodewords
  <2>1. /\ pc = "functions" /\ pc' = "masking"
        /\ call' = call /\ version' = version /\ func' = func
        /\ asked' = asked /\ mask' = mask /\ tried' = tried /\ minPenalty' = minPenalty
    BY <1>4 DEF DrawCodewords, masking
  <2>2. PICK data : body' = drawCodewords(data, func, Size(version))
    BY <1>4 DEF DrawCodewords
  <2>3. InRange'
    BY <2>1 DEF MaskInv, InRange
  <2>4. Patterns(func', version') /\ body' \in Bodies(func', version')
    <3>1. Patterns(func, version)
      BY <2>1, Drawing, Zenon
    <3>2. body' \in Bodies(func, version)
      BY <2>2, CodewordsType
    <3> QED BY <2>1, <3>1, <3>2, Zenon
  <2>5. ModulesDrawn'
    BY <2>4 DEF ModulesDrawn
  <2>6. MasksTried'
    BY <2>1 DEF MaskInv, InRange, MasksTried, Searching
  <2> QED BY <2>1, <2>3, <2>5, <2>6 DEF MaskInv
<1>5. CASE TryMask
  BY <1>5, MaskInvTryMask
<1>6. CASE ApplyMask
  BY <1>6, MaskInvApplyMask
<1>7. ASSUME NEW m \in CopyMasks, Copy(m) PROVE MaskInv'
  BY <1>7, MaskInvCopy
<1>8. CASE UNCHANGED vars
  BY <1>8 DEF vars, symbol, masking, MaskInv, InRange, ModulesDrawn, MasksTried, Searching, Chosen,
              ValidCall
<1> QED
  BY <1>1, <1>2, <1>3, <1>4, <1>5, <1>6, <1>7, <1>8 DEF Next

(* For every text, version, level and sequence of copies, the mask the      *)
(* constructor chooses has the lowest penalty of the eight symbols the text *)
(* can be drawn as (handleConstructorMasking).                              *)
THEOREM ChoosesBestMask == Spec => []BestMask
<1>1. MaskInv => BestMask
  <2> SUFFICES ASSUME MaskInv, pc = "done", asked = -1 PROVE BestMask
    BY DEF BestMask
  <2>1. Chosen
    BY DEF MaskInv, MasksTried
  <2> QED BY <2>1, Zenon DEF BestMask, Chosen, ScoreOf
<1> QED
  BY <1>1, MaskInvInit, MaskInvStep, PTL DEF Spec

-----------------------------------------------------------------------------
(***************************************************************************)
(* The smallest symbol. getTotalBits adds up the segments with a recursive *)
(* function: that it is defined and a number for every list of segments is *)
(* shown by way of the smallest counterexample.                            *)
(***************************************************************************)

(* g adds up the first numbers of w.                                        *)
PartialSums(g, w, n) ==
    /\ g \in [0..n -> Nat] /\ g[0] = 0
    /\ \A i \in 1..n : g[i] = g[i - 1] + w[i]

(* Every sequence of numbers has partial sums: the shortest one without     *)
(* them would have those of its predecessor and one more.                   *)
LEMMA SumsExist ==
  ASSUME NEW n \in Nat, NEW w \in [1..n -> Nat]
  PROVE  \E g : PartialSums(g, w, n)
<1> DEFINE S == {k \in 0..n : ~(\E g : PartialSums(g, w, k))}
<1>1. SUFFICES ASSUME S # {} PROVE FALSE
  <2>1. n \in 0..n
    OBVIOUS
  <2> QED BY <2>1, Zenon
<1>2. S \in SUBSET Nat
  OBVIOUS
<1> DEFINE m == Min(S)
<1>3. m \in S /\ \A y \in S : m <= y
  <2> HIDE DEF S
  <2> QED BY <1>1, <1>2, MinExists
<1>4. m \in 0..n /\ ~(\E g : PartialSums(g, w, m))
  BY <1>3, Zenon
<1> HIDE DEF m, S
<1>5. CASE m = 0
  <2> DEFINE z == [i \in 0..0 |-> 0]
  <2>1. PartialSums(z, w, 0)
    BY DEF PartialSums
  <2> QED BY <1>4, <1>5, <2>1
<1>6. CASE m # 0
  <2>1. m - 1 \in 0..n /\ ~(m <= m - 1) /\ m \in 1..n
    BY <1>4, <1>6
  <2>2. m - 1 \notin S
    BY <1>3, <2>1
  <2>3. PICK g : PartialSums(g, w, m - 1)
    BY <2>1, <2>2 DEF S
  <2> DEFINE h == [i \in 0..m |-> IF i = m THEN g[m - 1] + w[m] ELSE g[i]]
  <2>4. g \in [0..(m - 1) -> Nat] /\ g[0] = 0 /\ \A i \in 1..(m - 1) : g[i] = g[i - 1] + w[i]
    BY <2>3 DEF PartialSums
  <2>5. g[m - 1] \in Nat /\ w[m] \in Nat
    BY <2>1, <2>4
  <2>6. h \in [0..m -> Nat]
    <3>1. ASSUME NEW i \in 0..m, i # m PROVE g[i] \in Nat
      <4>1. i \in 0..(m - 1)
        BY <2>1, <3>1
      <4> QED BY <2>4, <4>1
    <3> QED BY <2>5, <3>1
  <2>7. h[0] = 0
    BY <2>1, <2>4
  <2>8. ASSUME NEW i \in 1..m PROVE h[i] = h[i - 1] + w[i]
    <3>1. i \in 0..m /\ i - 1 \in 0..m /\ i - 1 # m
      BY <2>1
    <3>2. h[i - 1] = g[i - 1]
      BY <3>1
    <3>3. CASE i = m
      BY <3>1, <3>2, <3>3
    <3>4. CASE i # m
      <4>1. i \in 1..(m - 1)
        BY <2>1, <3>4
      <4>2. h[i] = g[i]
        BY <3>1, <3>4
      <4> QED BY <2>4, <3>2, <4>1, <4>2
    <3> QED BY <3>3, <3>4
  <2> HIDE DEF h
  <2>9. PartialSums(h, w, m)
    BY <2>6, <2>7, <2>8 DEF PartialSums
  <2> QED BY <1>4, <2>9
<1> QED BY <1>5, <1>6

(* A function that adds up numbers stays a number, by the same argument.    *)
LEMMA SumsAreNat ==
  ASSUME NEW n \in Nat, NEW w \in [1..n -> Nat], NEW s,
         s[0] = 0, \A i \in 1..n : s[i - 1] \in Nat => s[i] = s[i - 1] + w[i]
  PROVE  s[n] \in Nat
<1> DEFINE S == {k \in 0..n : s[k] \notin Nat}
<1>1. SUFFICES ASSUME S # {} PROVE FALSE
  <2>1. n \in 0..n
    OBVIOUS
  <2> QED BY <2>1, Zenon
<1>2. S \in SUBSET Nat
  OBVIOUS
<1> DEFINE m == Min(S)
<1>3. m \in S /\ \A y \in S : m <= y
  <2> HIDE DEF S
  <2> QED BY <1>1, <1>2, MinExists
<1>4. m \in 0..n /\ s[m] \notin Nat
  BY <1>3, Zenon
<1> HIDE DEF m, S
<1>5. m # 0
  BY <1>4
<1>6. m - 1 \in 0..n /\ ~(m <= m - 1) /\ m \in 1..n
  BY <1>4, <1>5
<1>7. s[m - 1] \in Nat
  BY <1>3, <1>6 DEF S
<1>8. s[m] = s[m - 1] + w[m] /\ w[m] \in Nat
  BY <1>6, <1>7
<1> QED BY <1>4, <1>7, <1>8

(* The field for the number of characters has a length in every mode.       *)
LEMMA CountBits ==
  ASSUME NEW mode \in DOMAIN Mode, NEW v \in Int
  PROVE  numCharCountBits(mode, v) \in Nat
<1>1. mode \in {"NUMERIC", "ALPHANUMERIC", "BYTE"}
  BY DEF Mode
<1>2. (IF v <= 9 THEN 1 ELSE IF v <= 26 THEN 2 ELSE 3) \in 1..3
  OBVIOUS
<1>3. \A k \in 1..3 : Mode[mode].cc[k] \in Nat
  BY <1>1 DEF Mode
<1> QED BY <1>2, <1>3 DEF numCharCountBits

(* The segments of a call take a number of bits, or -1 (getTotalBits).      *)
LEMMA TotalBits ==
  ASSUME NEW c \in Calls, NEW v \in Int
  PROVE  getTotalBits(c.segs, v) \in Nat \cup {-1}
<1> DEFINE segs == c.segs
           n == Len(segs)
           cc(i) == numCharCountBits(segs[i].mode, v)
           sum[i \in 0..n] ==
              IF i = 0 THEN 0 ELSE sum[i - 1] + 4 + cc(i) + segs[i].bitLength
           w == [i \in 1..n |-> 4 + cc(i) + segs[i].bitLength]
<1>1. n \in Nat /\ DOMAIN segs = 1..n
  BY CallsAssumption
<1>2. \A i \in 1..n : cc(i) \in Nat /\ segs[i].bitLength \in Nat
  BY <1>1, CallsAssumption, CountBits
<1>3. getTotalBits(segs, v) = IF \E i \in DOMAIN segs : segs[i].numChars >= 2^cc(i) THEN -1
                              ELSE sum[n]
  BY DEF getTotalBits
<1> HIDE DEF n, cc
<1> DEFINE E(g, i) == IF i = 0 THEN 0 ELSE g[i - 1] + 4 + cc(i) + segs[i].bitLength
<1>4. \E g : g = [i \in 0..n |-> E(g, i)]
  <2>1. w \in [1..n -> Nat]
    BY <1>2
  <2>2. PICK g : PartialSums(g, w, n)
    <3> HIDE DEF w
    <3> QED BY <1>1, <2>1, SumsExist
  <2>3. g \in [0..n -> Nat] /\ g[0] = 0 /\ \A i \in 1..n : g[i] = g[i - 1] + w[i]
    <3> HIDE DEF w
    <3> QED BY <2>2 DEF PartialSums
  <2>4. ASSUME NEW i \in 0..n PROVE g[i] = E(g, i)
    <3>1. CASE i = 0
      BY <2>3, <3>1
    <3>2. CASE i # 0
      <4>1. i \in 1..n /\ i - 1 \in 0..n
        BY <1>1, <3>2
      <4>2. g[i] = g[i - 1] + (4 + cc(i) + segs[i].bitLength)
        BY <2>3, <4>1
      <4>3. g[i - 1] \in Nat /\ cc(i) \in Nat /\ segs[i].bitLength \in Nat
        BY <1>2, <2>3, <4>1
      <4> QED BY <3>2, <4>2, <4>3
    <3> QED BY <3>1, <3>2
  <2> HIDE DEF E
  <2>5. g = [i \in 0..n |-> E(g, i)]
    BY <2>3, <2>4
  <2> QED BY <2>5
<1>5. sum = [i \in 0..n |-> E(sum, i)]
  BY <1>4
<1> HIDE DEF sum
<1>6. sum[0] = 0
  BY <1>1, <1>5
<1>7. ASSUME NEW i \in 1..n, sum[i - 1] \in Nat PROVE sum[i] = sum[i - 1] + w[i]
  <2>1. i \in 0..n /\ i # 0
    BY <1>1
  <2>2. sum[i] = E(sum, i)
    <3> HIDE DEF E
    <3> QED BY <1>5, <2>1
  <2>3. sum[i] = sum[i - 1] + 4 + cc(i) + segs[i].bitLength
    BY <2>1, <2>2
  <2>4. cc(i) \in Nat /\ segs[i].bitLength \in Nat
    BY <1>2
  <2>5. w[i] = 4 + cc(i) + segs[i].bitLength
    OBVIOUS
  <2> HIDE DEF w, segs
  <2> QED BY <1>7, <2>3, <2>4, <2>5
<1>8. w \in [1..n -> Nat]
  BY <1>2
<1> HIDE DEF w, E
<1>9. sum[n] \in Nat
  BY <1>1, <1>6, <1>7, <1>8, SumsAreNat
<1> QED BY <1>3, <1>9

(* The table has an entry for every level and version,                      *)
LEMMA CodewordTable ==
  ASSUME NEW l \in Ecc, NEW v \in 1..40
  PROVE  NUM_ERROR_CORRECTION_CODEWORDS[l + 1][v] \in Nat
<1>1. CASE l = 0
  BY <1>1, SMT DEF NUM_ERROR_CORRECTION_CODEWORDS
<1>2. CASE l = 1
  BY <1>2, SMT DEF NUM_ERROR_CORRECTION_CODEWORDS
<1>3. CASE l = 2
  BY <1>3, SMT DEF NUM_ERROR_CORRECTION_CODEWORDS
<1>4. CASE l = 3
  BY <1>4, SMT DEF NUM_ERROR_CORRECTION_CODEWORDS
<1> QED BY <1>1, <1>2, <1>3, <1>4 DEF Ecc

(* so that the capacity is a number.                                        *)
LEMMA DataCodewordsType ==
  ASSUME NEW l \in Ecc, NEW v \in 1..40
  PROVE  getNumDataCodewords(v, l) \in Int
<1>1. numAlign(v) \in Int
  BY DEF numAlign
<1>2. getNumRawDataModules(v) \in Int
  BY <1>1, SMT DEF getNumRawDataModules
<1>3. getNumRawDataModules(v) \div 8 \in Int
  BY <1>2
<1> QED BY <1>3, CodewordTable, SMT DEF getNumDataCodewords

(* The bits of the call have room in this symbol.                           *)
Holds(c, v, l) == getTotalBits(c.segs, v) \in 0..(8 * getNumDataCodewords(v, l))

(* The test of the search loop says whether they have.                      *)
LEMMA FitsIsHolds ==
  ASSUME call \in Calls, NEW l \in Ecc, NEW v \in 1..40
  PROVE  Fits(v, l) <=> Holds(call, v, l)
<1> DEFINE used == getTotalBits(call.segs, v)
           room == getNumDataCodewords(v, l)
<1>1. used \in Nat \cup {-1}
  BY TotalBits
<1>2. room \in Int
  BY DataCodewordsType
<1>3. Fits(v, l) <=> (used # -1 /\ used <= 8 * room)
  BY DEF Fits
<1>4. Holds(call, v, l) <=> used \in 0..(8 * room)
  BY DEF Holds
<1> HIDE DEF used, room
<1>5. (used # -1 /\ used <= 8 * room) <=> used \in 0..(8 * room)
  BY <1>1, <1>2
<1> QED BY <1>3, <1>4, <1>5, Zenon

(* A set of levels has a highest one.                                       *)
LEMMA MaxLevel ==
  ASSUME NEW S \in SUBSET (1..3), S # {}
  PROVE  Max(S) \in S /\ \A y \in S : y <= Max(S)
<1>1. \E x \in S : \A y \in S : x >= y
  <2>1. \A y \in S : y = 1 \/ y = 2 \/ y = 3
    OBVIOUS
  <2>2. CASE 3 \in S
    BY <2>1, <2>2
  <2>3. CASE 3 \notin S /\ 2 \in S
    BY <2>1, <2>3
  <2>4. CASE 3 \notin S /\ 2 \notin S
    <3>1. PICK x \in S : x = 1
      BY <2>1, <2>4
    <3> QED BY <2>1, <2>4, <3>1
  <2> QED BY <2>2, <2>3, <2>4
<1>2. Max(S) \in S /\ \A y \in S : Max(S) >= y
  BY <1>1 DEF Max
<1> QED BY <1>2

(* The parameters encodeSegments accepts.                                   *)
Valid(c) == /\ 1 <= c.minVersion /\ c.minVersion <= c.maxVersion
            /\ c.maxVersion <= 40
            /\ c.mask \in -1..7

(* The versions a call allows.                                              *)
Versions(c) == c.minVersion..c.maxVersion

(* The versions below v are too small at the level asked for.               *)
TooSmall(c, v) == \A u \in Versions(c) : u < v => ~Holds(c, u, c.ecl)

(* Version v and level l are what the call has to get.                      *)
Settled(c, v, l) ==
    /\ v \in Versions(c) /\ l \in Ecc /\ l >= c.ecl
    /\ Holds(c, v, l) /\ TooSmall(c, v)
    /\ IF c.boostEcl THEN \A k \in Ecc : k > l => ~Holds(c, v, k) ELSE l = c.ecl

(* The inductive invariant: the search has ruled out the versions before    *)
(* the one it is at.                                                        *)
FitsInv ==
    /\ call \in Calls
    /\ pc = "search" => version \in Int /\ TooSmall(call, version)
                        /\ (Valid(call) => version \in Versions(call))
    /\ pc \notin {"search", "thrown"} => Settled(call, version, level)
    /\ pc = "thrown" /\ Valid(call) => \A u \in Versions(call) : ~Holds(call, u, call.ecl)

(* The versions of an accepted call exist.                                  *)
LEMMA ValidVersions ==
  ASSUME NEW c \in Calls, Valid(c)
  PROVE  Versions(c) \subseteq 1..40
<1>1. c.minVersion \in Int /\ c.maxVersion \in Int
  BY CallsAssumption
<1> QED BY <1>1 DEF Valid, Versions

(* boostEcl finds the highest level that fits, which is not below the one   *)
(* asked for.                                                               *)
LEMMA BoostedLevel ==
  ASSUME call \in Calls, version \in 1..40, Holds(call, version, call.ecl),
         NEW b, b = Boosted
  PROVE  /\ b \in Ecc /\ b >= call.ecl /\ Holds(call, version, b)
         /\ IF call.boostEcl THEN \A l \in Ecc : l > b => ~Holds(call, version, l)
            ELSE b = call.ecl
<1> DEFINE S == {ecl \in 1..3 : Fits(version, ecl)}
<1>1. b = IF call.boostEcl /\ S # {} THEN Max(S) ELSE call.ecl
  BY DEF Boosted
<1>2. call.ecl \in Ecc /\ call.boostEcl \in BOOLEAN
  BY CallsAssumption
<1>3. S \in SUBSET (1..3) /\ \A l \in 1..3 : l \in S <=> Holds(call, version, l)
  <2>1. \A l \in 1..3 : l \in Ecc
    BY DEF Ecc
  <2>2. \A l \in 1..3 : Fits(version, l) <=> Holds(call, version, l)
    BY <2>1, FitsIsHolds
  <2> QED BY <2>2
<1> HIDE DEF S
<1>4. CASE call.boostEcl /\ S # {}
  <2>1. b = Max(S)
    BY <1>1, <1>4
  <2>2. Max(S) \in S /\ \A y \in S : y <= Max(S)
    BY <1>3, <1>4, MaxLevel
  <2>3. b \in 1..3 /\ b \in S /\ \A y \in S : y <= b
    BY <1>3, <2>1, <2>2
  <2>4. Holds(call, version, b)
    BY <1>3, <2>3
  <2>5. b >= call.ecl
    <3>1. CASE call.ecl = 0
      BY <2>3, <3>1
    <3>2. CASE call.ecl # 0
      <4>1. call.ecl \in 1..3
        BY <1>2, <3>2 DEF Ecc
      <4>2. call.ecl \in S
        BY <1>3, <4>1
      <4> QED BY <2>3, <4>1, <4>2
    <3> QED BY <3>1, <3>2
  <2>6. ASSUME NEW l \in Ecc, l > b PROVE ~Holds(call, version, l)
    <3>1. l \in 1..3 /\ ~(l <= b)
      BY <2>3, <2>6 DEF Ecc
    <3> QED BY <1>3, <2>3, <3>1
  <2>7. b \in Ecc
    BY <2>3 DEF Ecc
  <2> QED BY <1>4, <2>4, <2>5, <2>6, <2>7
<1>5. CASE ~(call.boostEcl /\ S # {})
  <2>1. b = call.ecl
    BY <1>1, <1>5
  <2>2. ASSUME call.boostEcl, NEW l \in Ecc, l > b PROVE ~Holds(call, version, l)
    <3>1. S = {}
      BY <1>5, <2>2
    <3>2. l \in 1..3
      BY <1>2, <2>1, <2>2 DEF Ecc
    <3> QED BY <1>3, <3>1, <3>2
  <2>3. b >= call.ecl
    BY <1>2, <2>1 DEF Ecc
  <2> QED BY <1>2, <2>1, <2>2, <2>3
<1> QED BY <1>4, <1>5

(* A round of the search keeps the invariant,                               *)
LEMMA FitsInvSearch ==
  ASSUME FitsInv, Search PROVE FitsInv'
<1>1. call \in Calls /\ pc = "search" /\ call' = call /\ Valid(call)
  BY DEF FitsInv, Search, ValidCall, Valid
<1>2. version \in Int /\ TooSmall(call, version) /\ version \in Versions(call)
  BY <1>1, Zenon DEF FitsInv
<1>3. call.minVersion \in Int /\ call.maxVersion \in Int /\ call.ecl \in Ecc
  BY <1>1, CallsAssumption
<1>4. version \in 1..40
  BY <1>1, <1>2, ValidVersions
<1>5. Fits(version, call.ecl) <=> Holds(call, version, call.ecl)
  BY <1>1, <1>3, <1>4, FitsIsHolds
<1>6. CASE Fits(version, call.ecl) /\ pc' = "chosen" /\ level' = Boosted /\ version' = version
  <2>1. /\ level' \in Ecc /\ level' >= call.ecl /\ Holds(call, version, level')
        /\ IF call.boostEcl THEN \A l \in Ecc : l > level' => ~Holds(call, version, l)
           ELSE level' = call.ecl
    BY <1>1, <1>4, <1>5, <1>6, BoostedLevel
  <2>2. Settled(call, version, level')
    BY <1>2, <2>1, Zenon DEF Settled
  <2>3. Settled(call', version', level')
    BY <1>1, <1>6, <2>2
  <2> QED BY <1>1, <1>6, <2>3 DEF FitsInv
<1>7. CASE ~Fits(version, call.ecl) /\ version >= call.maxVersion /\ pc' = "thrown"
  <2>1. ASSUME NEW u \in Versions(call) PROVE ~Holds(call, u, call.ecl)
    <3>1. u = version \/ u < version
      BY <1>2, <1>3, <1>7 DEF Versions
    <3> QED BY <1>2, <1>5, <1>7, <3>1 DEF TooSmall
  <2> QED BY <1>1, <1>7, <2>1 DEF FitsInv
<1>8. CASE ~Fits(version, call.ecl) /\ version < call.maxVersion /\ version' = version + 1
           /\ pc' = pc
  <2>1. ASSUME NEW u \in Versions(call), u < version + 1 PROVE ~Holds(call, u, call.ecl)
    <3>1. u = version \/ u < version
      BY <1>2, <1>3, <2>1 DEF Versions
    <3> QED BY <1>2, <1>5, <1>8, <3>1 DEF TooSmall
  <2>2. version' \in Int /\ version' \in Versions(call')
    BY <1>1, <1>2, <1>3, <1>8 DEF Versions
  <2>3. TooSmall(call', version')
    BY <1>1, <1>8, <2>1 DEF TooSmall
  <2> QED BY <1>1, <1>8, <2>2, <2>3 DEF FitsInv
<1> QED BY <1>6, <1>7, <1>8 DEF Search

(* and so does every other step.                                            *)
LEMMA FitsInvStep ==
  FitsInv /\ [Next]_vars => FitsInv'
<1> SUFFICES ASSUME FitsInv, [Next]_vars PROVE FitsInv'
  OBVIOUS
<1>1. call \in Calls /\ call' = call
  BY DEF FitsInv, Next, Reject, Search, DrawFunctionPatterns, DrawCodewords, TryMask, ApplyMask,
         Copy, vars
<1>2. CASE Reject
  <2>1. pc' = "thrown" /\ ~Valid(call)
    BY <1>2 DEF Reject, ValidCall, Valid
  <2> QED BY <1>1, <2>1 DEF FitsInv
<1>3. CASE Search
  BY <1>3, FitsInvSearch
<1>4. CASE \/ DrawFunctionPatterns \/ DrawCodewords \/ TryMask \/ ApplyMask
           \/ \E m \in CopyMasks : Copy(m)
  <2>1. /\ pc \notin {"search", "thrown"} /\ pc' \notin {"search", "thrown"}
        /\ version' = version /\ level' = level
    BY <1>4 DEF DrawFunctionPatterns, DrawCodewords, TryMask, ApplyMask, Copy
  <2>2. Settled(call', version', level')
    BY <1>1, <2>1 DEF FitsInv
  <2> QED BY <1>1, <2>1, <2>2 DEF FitsInv
<1>5. CASE UNCHANGED vars
  BY <1>1, <1>5 DEF vars, FitsInv
<1> QED
  BY <1>2, <1>3, <1>4, <1>5 DEF Next

(* Nothing is ruled out at first.                                           *)
LEMMA FitsInvInit == Init => FitsInv
<1> SUFFICES ASSUME Init PROVE FitsInv
  OBVIOUS
<1>1. call \in Calls /\ pc = "search" /\ version = call.minVersion
  BY Zenon DEF Init
<1>2. call.minVersion \in Int /\ call.maxVersion \in Int
  BY <1>1, CallsAssumption
<1>3. version \in Int /\ TooSmall(call, version)
  BY <1>1, <1>2 DEF TooSmall, Versions
<1>4. Valid(call) => version \in Versions(call)
  BY <1>1, <1>2 DEF Valid, Versions
<1> QED BY <1>1, <1>3, <1>4 DEF FitsInv

(* For every call, encodeSegments takes the smallest version of the range   *)
(* the segments fit in and the highest level they fit in there, and gives   *)
(* up an accepted call only when they fit in none of the range.             *)
THEOREM TakesSmallestSymbol == Spec => []FitsTightly
<1>1. FitsInv => FitsTightly
  <2> SUFFICES ASSUME FitsInv PROVE FitsTightly
    OBVIOUS
  <2>1. ASSUME pc \notin {"search", "thrown"} PROVE Settled(call, version, level)
    BY <2>1 DEF FitsInv
  <2>2. ASSUME pc = "thrown", ValidCall
        PROVE  \A v \in Versions(call) : ~Holds(call, v, call.ecl)
    <3>1. Valid(call)
      BY <2>2 DEF Valid, ValidCall
    <3> QED BY <2>2, <3>1, Zenon DEF FitsInv
  <2> QED BY <2>1, <2>2, Zenon DEF FitsTightly, Settled, TooSmall, Versions, Holds
<1> QED
  BY <1>1, FitsInvInit, FitsInvStep, PTL DEF Spec
=============================================================================
