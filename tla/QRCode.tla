------------------------------- MODULE QRCode -------------------------------
(***************************************************************************)
(* QrCode of src/recovery/libs/QRCode: how BootManager's address becomes   *)
(* the picture that Utility::printQrCode shows on the console.             *)
(*                                                                         *)
(* encodeSegments looks for the smallest version the segments fit in,      *)
(* raises the error correction level as far as they still fit, and the     *)
(* constructor draws the function patterns, the codewords with their error *)
(* correction, and the mask with the lowest penalty. A symbol is           *)
(*    func   the function modules, a function from <<x, y>> to 0 or 1      *)
(*           (its domain is isFunction),                                   *)
(*    body   the modules that carry codewords, likewise.                   *)
(*                                                                         *)
(* The exceptions of encodeSegments are the outcome "thrown". The          *)
(* assertions on sizes further down ("Assertion error") are not steps: the *)
(* run's properties and the lemmas of QRCodeProofs imply them.             *)
(***************************************************************************)
EXTENDS QRSegment, FiniteSets, FiniteSetsExt

CONSTANTS
    Calls,          \* the calls of encodeSegments that are made
    CopyMasks,      \* the masks a finished symbol is copied with
    DrawUpTo        \* symbols of higher versions stop after the function patterns

VARIABLES
    pc,             \* "search", "chosen", "functions", "masking", "done", "thrown"
    call,           \* the parameters of encodeSegments
    version, level, \* version and errorCorrectionLevel
    func, body,     \* the modules
    asked,          \* the mask the constructor is called with, -1 for the best one
    mask,           \* the best one so far, or the one that is applied
    tried,          \* the masks tried so far
    minPenalty,     \* the lowest penalty so far
    copied          \* the symbol is a copy of another one

symbol == <<func, body>>
masking == <<asked, mask, tried, minPenalty>>
vars == <<pc, call, version, level, symbol, masking, copied>>

Ecc == 0..3         \* LOW, MEDIUM, QUARTILE, HIGH

\* The types of the parameters of encodeSegments; what they may be, it checks itself.
ASSUME CallsAssumption ==
    \A c \in Calls : /\ c.ecl \in Ecc /\ c.boostEcl \in BOOLEAN
                     /\ c.minVersion \in Int /\ c.maxVersion \in Int /\ c.mask \in Int
                     /\ Len(c.segs) \in Nat /\ DOMAIN c.segs = 1..Len(c.segs)
                     /\ \A i \in DOMAIN c.segs : /\ c.segs[i].mode \in DOMAIN Mode
                                                 /\ c.segs[i].bitLength \in Nat

ASSUME CopyMasksAssumption == CopyMasks \subseteq -1..7  \* the constructor refuses others

formatBits(ecl) == <<1, 0, 3, 2>>[ecl + 1]

\* encodeText and encodeBinary are encodeSegments with the default parameters.
encodeSegments(text, segs, ecl, minVersion, maxVersion, m, boostEcl) ==
    [text |-> text, segs |-> segs, ecl |-> ecl, minVersion |-> minVersion,
     maxVersion |-> maxVersion, mask |-> m, boostEcl |-> boostEcl]

encodeText(text, ecl) == encodeSegments(text, makeSegments(text), ecl, 1, 40, -1, TRUE)

encodeBinary(data, ecl) == encodeSegments(data, <<makeBytes(data)>>, ecl, 1, 40, -1, TRUE)

-----------------------------------------------------------------------------
(* The tables and the sizes computed from them.                            *)

NUM_ERROR_CORRECTION_CODEWORDS ==
  <<<<7, 10, 15, 20, 26, 36, 40, 48, 60, 72, 80, 96, 104, 120, 132, 144, 168, 180, 196, 224,
      224, 252, 270, 300, 312, 336, 360, 390, 420, 450, 480, 510, 540, 570, 570, 600, 630,
      660, 720, 750>>,
    <<10, 16, 26, 36, 48, 64, 72, 88, 110, 130, 150, 176, 198, 216, 240, 280, 308, 338, 364,
      416, 442, 476, 504, 560, 588, 644, 700, 728, 784, 812, 868, 924, 980, 1036, 1064, 1120,
      1204, 1260, 1316, 1372>>,
    <<13, 22, 36, 52, 72, 96, 108, 132, 160, 192, 224, 260, 288, 320, 360, 408, 448, 504, 546,
      600, 644, 690, 750, 810, 870, 952, 1020, 1050, 1140, 1200, 1290, 1350, 1440, 1530, 1590,
      1680, 1770, 1860, 1950, 2040>>,
    <<17, 28, 44, 64, 88, 112, 130, 156, 192, 224, 264, 308, 352, 384, 432, 480, 532, 588, 650,
      700, 750, 816, 900, 960, 1050, 1110, 1200, 1260, 1350, 1440, 1530, 1620, 1710, 1800,
      1890, 1980, 2100, 2220, 2310, 2430>>>>

NUM_ERROR_CORRECTION_BLOCKS ==
  <<<<1, 1, 1, 1, 1, 2, 2, 2, 2, 4, 4, 4, 4, 4, 6, 6, 6, 6, 7, 8, 8, 9, 9, 10, 12, 12, 12, 13,
      14, 15, 16, 17, 18, 19, 19, 20, 21, 22, 24, 25>>,
    <<1, 1, 1, 2, 2, 4, 4, 4, 5, 5, 5, 8, 9, 9, 10, 10, 11, 13, 14, 16, 17, 17, 18, 20, 21, 23,
      25, 26, 28, 29, 31, 33, 35, 37, 38, 40, 43, 45, 47, 49>>,
    <<1, 1, 2, 2, 4, 4, 6, 6, 8, 8, 8, 10, 12, 16, 12, 17, 16, 18, 21, 20, 23, 23, 25, 27, 29,
      34, 34, 35, 38, 40, 43, 45, 48, 51, 53, 56, 59, 62, 65, 68>>,
    <<1, 1, 2, 4, 4, 4, 5, 6, 8, 8, 11, 11, 16, 16, 18, 16, 19, 21, 25, 25, 25, 34, 30, 32, 35,
      37, 40, 42, 45, 48, 51, 54, 57, 60, 63, 66, 70, 74, 77, 81>>>>

Size(ver) == 4 * ver + 17

numAlign(ver) == (ver \div 7) + 2

\* The positions of the alignment patterns on both axes, in ascending order.
getAlignmentPatternPositions(ver) ==
    LET n    == numAlign(ver)
        step == IF ver = 32 THEN 26
                ELSE 2 * ((4 * ver + 2 * n + 1) \div (2 * n - 2))
    IN  IF ver = 1 THEN <<>>
        ELSE [i \in 1..n |-> IF i = 1 THEN 6 ELSE Size(ver) - 7 - (n - i) * step]

getNumRawDataModules(ver) ==
    LET n == numAlign(ver) IN
    (16 * ver + 128) * ver + 64
      - (IF ver >= 2 THEN (25 * n - 10) * n - 55 ELSE 0)
      - (IF ver >= 7 THEN 18 * 2 ELSE 0)

getNumDataCodewords(ver, ecl) ==
    (getNumRawDataModules(ver) \div 8) - NUM_ERROR_CORRECTION_CODEWORDS[ecl + 1][ver]

-----------------------------------------------------------------------------
(* The function patterns, each a function from its modules to their colour *)
(* (1 is black).                                                           *)

Grid(size) == (0..(size - 1)) \X (0..(size - 1))

Square(c, r) == ((c[1] - r)..(c[1] + r)) \X ((c[2] - r)..(c[2] + r))

Abs(n) == IF n < 0 THEN -n ELSE n

\* The Chebyshev distance.
Dist(p, c) == Max({Abs(p[1] - c[1]), Abs(p[2] - c[2])})

Colour(black) == IF black THEN 1 ELSE 0

TimingPattern(size) ==
    [p \in {p \in Grid(size) : p[1] = 6 \/ p[2] = 6} |->
        Colour((IF p[1] = 6 THEN p[2] ELSE p[1]) % 2 = 0)]

drawFinderPattern(size) ==
    LET centres == {<<3, 3>>, <<size - 4, 3>>, <<3, size - 4>>} IN
    [p \in (UNION {Square(c, 4) : c \in centres}) \cap Grid(size) |->
        Colour(Dist(p, CHOOSE c \in centres : Dist(p, c) <= 4) \notin {2, 4})]

\* Mutant: a pattern is drawn over one of the finders as well.
AlignmentCentres_TwoCorners(ver) ==
    LET pos == getAlignmentPatternPositions(ver)
        n   == Len(pos)
    IN  {<<pos[c[1]], pos[c[2]]>> : c \in ((1..n) \X (1..n)) \ {<<1, 1>>, <<1, n>>}}

\* The centres of the alignment patterns: all pairs but those at the three finders.
AlignmentCentres(ver) ==
    LET pos == getAlignmentPatternPositions(ver)
        n   == Len(pos)
    IN  {<<pos[c[1]], pos[c[2]]>> :
            c \in ((1..n) \X (1..n)) \ {<<1, 1>>, <<1, n>>, <<n, 1>>}}

drawAlignmentPattern(ver) ==
    LET centres == AlignmentCentres(ver) IN
    [p \in UNION {Square(c, 2) : c \in centres} |->
        Colour(Dist(p, CHOOSE c \in centres : Dist(p, c) <= 2) # 1)]

\* a ^ b, for numbers of up to sixteen bits.
Xor(a, b) ==
    LET x[i \in 0..16] ==
          IF i = 0 THEN 0 ELSE x[i - 1] + 2^(i - 1) * ((Bit(a, i - 1) + Bit(b, i - 1)) % 2)
    IN  x[16]

\* The format bits: level and mask, ten bits of error correction, a fixed pattern.
FormatData(ecl, m) ==
    LET data == 8 * formatBits(ecl) + m
        Shift(r) == Xor(2 * r, (r \div 512) * 1335)     \* 0x537
        rem[i \in 0..10] == IF i = 0 THEN data ELSE Shift(rem[i - 1])
    IN  Xor(1024 * data + rem[10], 21522)     \* 0x5412

\* The two modules that show bit i of the format.
FormatAt(size, i) ==
    {IF i <= 5 THEN <<8, i>>
     ELSE IF i \in {6, 7} THEN <<8, i + 1>>
     ELSE IF i = 8 THEN <<7, 8>> ELSE <<14 - i, 8>>,
     IF i <= 7 THEN <<size - 1 - i, 8>> ELSE <<8, size - 15 + i>>}

FormatPattern(size, ecl, m) ==
    LET data == FormatData(ecl, m)
        dark == <<8, size - 8>>
    IN  [p \in (UNION {FormatAt(size, i) : i \in 0..14}) \cup {dark} |->
            IF p = dark THEN 1
            ELSE Bit(data, CHOOSE i \in 0..14 : p \in FormatAt(size, i))]

\* The version and twelve bits of error correction, in versions from seven on.
VersionData(ver) ==
    LET Shift(r) == Xor(2 * r, (r \div 2048) * 7973)     \* 0x1F25
        rem[i \in 0..12] == IF i = 0 THEN ver ELSE Shift(rem[i - 1])
    IN  4096 * ver + rem[12]

drawVersion(ver) ==
    LET data == VersionData(ver)
        a(i) == Size(ver) - 11 + (i % 3)
        At(i) == {<<a(i), i \div 3>>, <<i \div 3, a(i)>>}
    IN  [p \in IF ver < 7 THEN {} ELSE UNION {At(i) : i \in 0..17} |->
            Bit(data, CHOOSE i \in 0..17 : p \in At(i))]

\* One pattern over another.
Over(upper, lower) ==
    [p \in DOMAIN upper \cup DOMAIN lower |->
        IF p \in DOMAIN upper THEN upper[p] ELSE lower[p]]

drawFormatBits(f, ver, ecl, m) == Over(FormatPattern(Size(ver), ecl, m), f)

drawFunctionPatterns(ver, ecl) ==
    LET size == Size(ver) IN
    Over(drawVersion(ver),
      drawFormatBits(
        Over(drawAlignmentPattern(ver), Over(drawFinderPattern(size), TimingPattern(size))),
        ver, ecl, 0))

-----------------------------------------------------------------------------
(* Reed-Solomon codes over GF(2^8), modulo x^8 + x^4 + x^3 + x^2 + 1.      *)

Byte == 0..255

XorTable == [x \in Byte |-> [y \in Byte |-> Xor(x, y)]]

\* (z << 1) ^ ((z >> 7) * 0x11D).
Double(z) == IF z < 128 THEN 2 * z ELSE XorTable[2 * z - 256][29]      \* 0x1D

multiply(x, y) ==
    LET z[i \in 0..8] ==
          IF i = 8 THEN 0
          ELSE IF Bit(y, i) = 1 THEN XorTable[Double(z[i + 1])][x] ELSE Double(z[i + 1])
    IN  z[0]

Product == [x \in Byte |-> [y \in Byte |-> multiply(x, y)]]

\* The coefficients of the generator polynomial without the highest one.
ReedSolomonGenerator(degree) ==
    LET root[i \in Nat] == IF i = 0 THEN 1 ELSE Double(root[i - 1])
        coefficients[i \in 0..degree] ==
          IF i = 0 THEN [j \in 1..degree |-> IF j = degree THEN 1 ELSE 0]
          ELSE LET c == coefficients[i - 1]
                   r == root[i - 1]
               IN  Evaluated([j \in 1..degree |->
                      IF j < degree THEN XorTable[Product[c[j]][r]][c[j + 1]]
                      ELSE Product[c[j]][r]])
    IN  coefficients[degree]

getRemainder(coefficients, data) ==
    LET n == Len(coefficients)
        result[i \in 0..Len(data)] ==
          IF i = 0 THEN [j \in 1..n |-> 0]
          ELSE LET r      == result[i - 1]
                   factor == XorTable[data[i]][r[1]]
               IN  Evaluated([j \in 1..n |->
                      XorTable[IF j < n THEN r[j + 1] ELSE 0][Product[coefficients[j]][factor]]])
    IN  result[Len(data)]

\* The data in blocks, each with its error correction, and the blocks interleaved;
\* the short blocks are padded with a byte that is left out again.
appendErrorCorrection(data, ver, ecl) ==
    LET numBlocks      == NUM_ERROR_CORRECTION_BLOCKS[ecl + 1][ver]
        blockEccLen    == NUM_ERROR_CORRECTION_CODEWORDS[ecl + 1][ver] \div numBlocks
        rawCodewords   == getNumRawDataModules(ver) \div 8
        numShortBlocks == numBlocks - (rawCodewords % numBlocks)
        shortBlockLen  == rawCodewords \div numBlocks
        shortDataLen   == shortBlockLen - blockEccLen
        generator      == ReedSolomonGenerator(blockEccLen)
        First(i) == i * shortDataLen + Max({0, i - numShortBlocks})
        Dat(i)   == SubSeq(data, First(i) + 1, First(i + 1))
        blocks   == Evaluated([i \in 1..numBlocks |->
                       Dat(i - 1) \o (IF i <= numShortBlocks THEN <<0>> ELSE <<>>)
                                  \o getRemainder(generator, Dat(i - 1))])
        cells    == [n \in 1..(numBlocks * (shortBlockLen + 1)) |->
                       <<(n - 1) % numBlocks, (n - 1) \div numBlocks>>]
        NotPadding(c) == c[2] # shortDataLen \/ c[1] >= numShortBlocks
        kept     == SelectSeq(cells, NotPadding)
    IN  Evaluated([n \in DOMAIN kept |-> blocks[kept[n][1] + 1][kept[n][2] + 1]])

-----------------------------------------------------------------------------
(* The codewords and the mask.                                             *)

\* The bit string of encodeSegments: the segments, the terminator, zeros up to a
\* byte, and the two padding bytes in turn up to the capacity.
DataCodewords(segs, ver, ecl) ==
    LET capacity   == 8 * getNumDataCodewords(ver, ecl)
        bits       == FlattenSeq([i \in DOMAIN segs |-> SegmentBits(segs[i], ver)])
        terminated == Len(bits) + Min({4, capacity - Len(bits)})
        used       == (terminated + 7) \div 8
        BitAt(i)   == IF i <= Len(bits) THEN bits[i] ELSE 0
        ByteAt(k)  == LET v[i \in 0..8] == IF i = 0 THEN 0
                                           ELSE 2 * v[i - 1] + BitAt(8 * (k - 1) + i)
                      IN  v[8]
    IN  Evaluated([k \in 1..(capacity \div 8) |->
            IF k <= used THEN ByteAt(k)
            ELSE IF (k - used) % 2 = 1 THEN 236 ELSE 17])    \* 0xEC, 0x11

\* The zigzag scan: pairs of columns from the right, column 6 skipped.
Scan(size) ==
    [n \in 1..(size * (size - 1)) |->
        LET r     == size - 1 - 2 * ((n - 1) \div (2 * size))
            right == IF r <= 6 THEN r - 1 ELSE r
            vert  == ((n - 1) % (2 * size)) \div 2
            x     == right - ((n - 1) % 2)
            upwards == ((right \div 2) % 2 = 0) # (x < 6)
        IN  <<x, IF upwards THEN size - 1 - vert ELSE vert>>]

\* What is left over after the codewords stays white.
drawCodewords(data, f, size) ==
    LET Free(p) == p \notin DOMAIN f
        order   == SelectSeq(Scan(size), Free)
        index   == [p \in Grid(size) \ DOMAIN f |-> CHOOSE i \in DOMAIN order : order[i] = p]
    IN  [p \in DOMAIN index |->
            LET i == index[p] - 1 IN
            Colour(i < 8 * Len(data) /\ Bit(data[(i \div 8) + 1], 7 - (i % 8)) # 0)]

Inverts(m, x, y) ==
    CASE m = 0 -> (x + y) % 2 = 0
      [] m = 1 -> y % 2 = 0
      [] m = 2 -> x % 3 = 0
      [] m = 3 -> (x + y) % 3 = 0
      [] m = 4 -> ((x \div 3) + (y \div 2)) % 2 = 0
      [] m = 5 -> ((x * y) % 2) + ((x * y) % 3) = 0
      [] m = 6 -> (((x * y) % 2) + ((x * y) % 3)) % 2 = 0
      [] m = 7 -> (((x + y) % 2) + ((x * y) % 3)) % 2 = 0

\* The function modules are not in the domain of b, and are not masked.
applyMask(b, m) ==
    [p \in DOMAIN b |-> IF Inverts(m, p[1], p[2]) THEN 1 - b[p] ELSE b[p]]

\* Black is 1; around the symbol everything is white.
getModule(f, b, p) == IF p \in DOMAIN f THEN f[p]
                      ELSE IF p \in DOMAIN b THEN b[p] ELSE 0

PENALTY_N1 == 3
PENALTY_N2 == 3
PENALTY_N3 == 40
PENALTY_N4 == 10

getPenaltyScore(f, b, size) ==
    LET side  == 1..size
        rows  == Evaluated([y \in side |->
                    Evaluated([x \in side |-> getModule(f, b, <<x - 1, y - 1>>)])])
        lines == rows \o [x \in side |-> Evaluated([y \in side |-> rows[y][x]])]
        \* the ends of five modules of one colour, and of those with no sixth before them
        Same(l, i) == \A j \in 1..4 : l[i - j] = l[i]
        runs  == {e \in (1..(2 * size)) \X (5..size) : Same(lines[e[1]], e[2])}
        fives == {e \in runs : e[2] = 5 \/ lines[e[1]][e[2] - 5] # lines[e[1]][e[2]]}
        Even(x, y) == /\ rows[y][x] = rows[y][x + 1] /\ rows[y][x] = rows[y + 1][x]
                      /\ rows[y][x] = rows[y + 1][x + 1]
        blocks == {p \in (1..(size - 1)) \X (1..(size - 1)) : Even(p[1], p[2])}
        Shows(l, i, bits) == \A j \in 0..10 : l[i - j] = Bit(bits, j)
        finders == {e \in (1..(2 * size)) \X (11..size) :     \* 0x05D, 0x5D0
                      \E bits \in {93, 1488} : Shows(lines[e[1]], e[2], bits)}
        black == Cardinality({p \in DOMAIN f : f[p] = 1}) + Cardinality({p \in DOMAIN b : b[p] = 1})
        total == size * size
        k4    == Min({k \in 0..9 : /\ black * 20 >= (9 - k) * total
                                   /\ black * 20 <= (11 + k) * total})
    IN  PENALTY_N1 * Cardinality(fives) + (Cardinality(runs) - Cardinality(fives))
          + PENALTY_N2 * Cardinality(blocks) + PENALTY_N3 * Cardinality(finders)
          + PENALTY_N4 * k4

\* What Utility::printQrCode shows: the symbol in a white border of four modules.
printQrCode(f, b, size) ==
    [p \in ((-4)..(size + 3)) \X ((-4)..(size + 3)) |-> getModule(f, b, p)]

-----------------------------------------------------------------------------
NoPenalty == 2147483647     \* INT32_MAX

Init ==
    /\ call \in Calls
    /\ pc = "search"
    /\ version = call.minVersion /\ level = call.ecl
    /\ func = <<>> /\ body = <<>>
    /\ asked = call.mask /\ mask = -1 /\ tried = 0 /\ minPenalty = NoPenalty
    /\ copied = FALSE

ValidCall == /\ 1 <= call.minVersion /\ call.minVersion <= call.maxVersion
             /\ call.maxVersion <= 40
             /\ call.mask \in -1..7

\* Mutant: a symbol that would be filled to the last bit is taken for too small.
Fits_Strictly(ver, ecl) ==
    LET used == getTotalBits(call.segs, ver) IN
    used # -1 /\ used < 8 * getNumDataCodewords(ver, ecl)

Fits(ver, ecl) ==
    LET used == getTotalBits(call.segs, ver) IN
    used # -1 /\ used <= 8 * getNumDataCodewords(ver, ecl)

\* The level after boostEcl: each one the data fit in replaces the one before.
Boosted ==
    LET fitting == {ecl \in 1..3 : Fits(version, ecl)} IN
    IF call.boostEcl /\ fitting # {} THEN Max(fitting) ELSE call.ecl

\* encodeSegments refuses its parameters.
Reject ==
    /\ pc = "search" /\ ~ValidCall
    /\ pc' = "thrown"
    /\ UNCHANGED <<call, version, level, symbol, masking, copied>>

\* A round of the search for the smallest version; the last one raises the level.
Search ==
    /\ pc = "search" /\ ValidCall
    /\ \/ /\ Fits(version, call.ecl)
          /\ pc' = "chosen" /\ level' = Boosted
          /\ UNCHANGED version
       \/ /\ ~Fits(version, call.ecl) /\ version >= call.maxVersion
          /\ pc' = "thrown"
          /\ UNCHANGED <<version, level>>
       \/ /\ ~Fits(version, call.ecl) /\ version < call.maxVersion
          /\ version' = version + 1
          /\ UNCHANGED <<pc, level>>
    /\ UNCHANGED <<call, symbol, masking, copied>>

\* The constructor draws the function patterns,
DrawFunctionPatterns ==
    /\ pc = "chosen"
    /\ func' = drawFunctionPatterns(version, level)
    /\ pc' = "functions"
    /\ UNCHANGED <<call, version, level, body, masking, copied>>

\* then the codewords,
DrawCodewords ==
    /\ pc = "functions" /\ version <= DrawUpTo
    /\ LET data == DataCodewords(call.segs, version, level) IN
       body' = drawCodewords(appendErrorCorrection(data, version, level), func, Size(version))
    /\ pc' = "masking"
    /\ UNCHANGED <<call, version, level, func, masking, copied>>

\* Mutant: a mask is judged with the format bits of the one before.
TryMask_OldFormat ==
    /\ pc = "masking" /\ asked = -1 /\ tried < 8
    /\ LET f == drawFormatBits(func, version, level, tried)
           penalty == getPenaltyScore(func, applyMask(body, tried), Size(version))
       IN  /\ func' = f
           /\ mask' = IF penalty < minPenalty THEN tried ELSE mask
           /\ minPenalty' = Min({penalty, minPenalty})
    /\ tried' = tried + 1
    /\ UNCHANGED <<pc, call, version, level, body, asked, copied>>

\* then handleConstructorMasking looks for the best mask. A round leaves the symbol
\* with the format bits of the mask it tried and without the mask itself.
TryMask ==
    /\ pc = "masking" /\ asked = -1 /\ tried < 8
    /\ LET f == drawFormatBits(func, version, level, tried)
           penalty == getPenaltyScore(f, applyMask(body, tried), Size(version))
       IN  /\ func' = f
           /\ mask' = IF penalty < minPenalty THEN tried ELSE mask
           /\ minPenalty' = Min({penalty, minPenalty})
    /\ tried' = tried + 1
    /\ UNCHANGED <<pc, call, version, level, body, asked, copied>>

\* The mask found, or the one that was asked for, is drawn for good.
ApplyMask ==
    /\ pc = "masking" /\ (asked = -1 => tried = 8)
    /\ LET m == IF asked = -1 THEN mask ELSE asked IN
       /\ func' = drawFormatBits(func, version, level, m)
       /\ body' = applyMask(body, m)
       /\ mask' = m
    /\ pc' = "done"
    /\ UNCHANGED <<call, version, level, asked, tried, minPenalty, copied>>

\* Mutant: the old mask stays below the new one.
Copy_KeepsMask(m) ==
    /\ pc = "done" /\ ~copied
    /\ asked' = m /\ mask' = -1 /\ tried' = 0 /\ minPenalty' = NoPenalty
    /\ copied' = TRUE
    /\ pc' = "masking"
    /\ UNCHANGED <<call, version, level, symbol>>

\* The constructor that copies a symbol with another mask undoes the old one first.
Copy(m) ==
    /\ pc = "done" /\ ~copied
    /\ body' = applyMask(body, mask)
    /\ asked' = m /\ mask' = -1 /\ tried' = 0 /\ minPenalty' = NoPenalty
    /\ copied' = TRUE
    /\ pc' = "masking"
    /\ UNCHANGED <<call, version, level, func>>

Next == \/ Reject \/ Search \/ DrawFunctionPatterns \/ DrawCodewords
        \/ TryMask \/ ApplyMask
        \/ \E m \in CopyMasks : Copy(m)

Spec == Init /\ [][Next]_vars

-----------------------------------------------------------------------------
(* Properties.                                                             *)

\* encodeSegments takes the smallest version of the range the segments fit in and,
\* when it may raise the level, the highest level they fit in there, which is never
\* below the one asked for; a call it accepts is given up only when they fit in none
\* of the range (the search loop, boostEcl and the capacity tables).
FitsTightly ==
    LET Holds(v, l) == getTotalBits(call.segs, v) \in 0..(8 * getNumDataCodewords(v, l))
        range == call.minVersion..call.maxVersion
    IN  /\ pc \notin {"search", "thrown"} =>
             /\ version \in range /\ level >= call.ecl /\ Holds(version, level)
             /\ \A v \in range : v < version => ~Holds(v, call.ecl)
             /\ IF call.boostEcl THEN \A l \in Ecc : l > level => ~Holds(version, l)
                ELSE level = call.ecl
        /\ pc = "thrown" /\ ValidCall => \A v \in range : ~Holds(v, call.ecl)

\* The mask handleConstructorMasking chooses has the lowest penalty of the eight
\* symbols the text can be drawn as.
BestMask ==
    pc = "done" /\ asked = -1 =>
      LET size == Size(version) IN
      \A m \in 0..7 :
        getPenaltyScore(func, body, size)
          <= getPenaltyScore(drawFormatBits(func, version, level, m),
                             applyMask(applyMask(body, mask), m), size)
=============================================================================
