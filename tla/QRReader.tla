------------------------------ MODULE QRReader ------------------------------
(***************************************************************************)
(* What a camera makes of the picture: the reference the symbols of QRCode *)
(* are compared with. Written from the structure of a QR Code (version 1   *)
(* to 40, model 2), not from the code that draws it: it takes the picture, *)
(* finds version, level and mask in it, checks every error correcting code *)
(* and returns the text.                                                   *)
(***************************************************************************)
EXTENDS Integers, Sequences, SequencesExt, FiniteSets

\* The sequence s itself; TLC computes its elements once, here.
Known(s) == SelectSeq(s, LAMBDA e : TRUE)

\* A polynomial over GF(2) is the sequence of its coefficients, the highest first.
Divisible(bits, divisor) ==
    LET n == Len(divisor)
        Step(rest, i) == IF rest[i] = 0 THEN rest
                         ELSE Known([j \in DOMAIN rest |->
                                 IF j \in i..(i + n - 1)
                                 THEN (rest[j] + divisor[j - i + 1]) % 2 ELSE rest[j]])
        rest[i \in 0..(Len(bits) - n + 1)] ==
            IF i = 0 THEN bits ELSE Step(rest[i - 1], i)
        last == rest[Len(bits) - n + 1]
    IN  \A j \in DOMAIN last : last[j] = 0

FormatGenerator  == <<1, 0, 1, 0, 0, 1, 1, 0, 1, 1, 1>>
VersionGenerator == <<1, 1, 1, 1, 1, 0, 0, 1, 0, 0, 1, 0, 1>>
FormatFixed      == <<1, 0, 1, 0, 1, 0, 0, 0, 0, 0, 1, 0, 0, 1, 0>>

Value(bits) == LET v[i \in 0..Len(bits)] == IF i = 0 THEN 0 ELSE 2 * v[i - 1] + bits[i]
               IN  v[Len(bits)]

\* The format beside the upper left finder, highest bit first, and its second
\* half beside the other two.
FormatNear == <<<<0, 8>>, <<1, 8>>, <<2, 8>>, <<3, 8>>, <<4, 8>>, <<5, 8>>, <<7, 8>>, <<8, 8>>,
                <<8, 7>>, <<8, 5>>, <<8, 4>>, <<8, 3>>, <<8, 2>>, <<8, 1>>, <<8, 0>>>>
FormatFar(n) == [i \in 1..15 |-> IF i <= 7 THEN <<8, n - i>> ELSE <<n - 16 + i, 8>>]

Unfixed(bits) == [i \in 1..15 |-> (bits[i] + FormatFixed[i]) % 2]

\* The powers of the generator element of GF(2^8), and multiplication with them.
Power ==
    LET Flip(x, b) == IF (x \div b) % 2 = 1 THEN x - b ELSE x + b
        \* x^8 is x^4 + x^3 + x^2 + 1
        Twice(x) == IF x < 128 THEN 2 * x
                   ELSE Flip(Flip(Flip(Flip(2 * x - 256, 16), 8), 4), 1)
        p[i \in 0..254] == IF i = 0 THEN 1 ELSE Twice(p[i - 1])
    IN  [i \in 0..254 |-> p[i]]

Log == [x \in 1..255 |-> CHOOSE i \in 0..254 : Power[i] = x]

Times(x, y) == IF x = 0 \/ y = 0 THEN 0 ELSE Power[(Log[x] + Log[y]) % 255]

\* A block is a codeword of the code with n check bytes: its polynomial is zero
\* at the first n powers, that is, every bit is set in an even number of terms.
IsCodeword(block, n) ==
    \A k \in 0..(n - 1) :
        LET term == Known([i \in DOMAIN block |->
                        Times(block[i], Power[(k * (Len(block) - i)) % 255])])
        IN  \A b \in 0..7 :
                Cardinality({i \in DOMAIN term : (term[i] \div 2^b) % 2 = 1}) % 2 = 0

Masked(m, x, y) ==
    CASE m = 0 -> (x + y) % 2 = 0
      [] m = 1 -> y % 2 = 0
      [] m = 2 -> x % 3 = 0
      [] m = 3 -> (x + y) % 3 = 0
      [] m = 4 -> ((y \div 2) + (x \div 3)) % 2 = 0
      [] m = 5 -> (x * y) % 6 = 0
      [] m = 6 -> (x * y) % 6 \in {0, 1, 2}
      [] m = 7 -> (((x + y) % 2) + ((x * y) % 3)) % 2 = 0

\* The modules that carry no codewords in a symbol with alignment patterns at these places.
Reserved(n, p, places) ==
    LET x == p[1]
        y == p[2]
    IN  \/ x = 6 \/ y = 6
        \/ x <= 8 /\ y <= 8
        \/ x <= 8 /\ y >= n - 8
        \/ x >= n - 8 /\ y <= 8
        \/ n >= 45 /\ ((x <= 5 /\ y >= n - 11) \/ (y <= 5 /\ x >= n - 11))
        \/ \E c \in places : x - c[1] \in -2..2 /\ y - c[2] \in -2..2

\* The alignment patterns of the versions up to seven.
Places(n) ==
    IF n = 21 THEN {}
    ELSE IF n < 45 THEN {<<n - 7, n - 7>>}
    ELSE ({6, 22, 38} \X {6, 22, 38}) \ {<<6, 6>>, <<6, 38>>, <<38, 6>>}

\* Two columns at a time from the right, upwards first, the right one of the two
\* first; the columns left of the timing line move up by one.
Order(n) ==
    LET half == (n - 1) \div 2
        At(i) == LET pair == i \div (2 * n)
                     row  == (i % (2 * n)) \div 2
                     c    == n - 1 - 2 * pair - (i % 2)
                 IN  <<IF c <= 6 THEN c - 1 ELSE c,
                       IF pair % 2 = 0 THEN n - 1 - row ELSE row>>
    IN  [i \in 1..(2 * n * half) |-> At(i - 1)]

Group(bits, at, len) == Value(SubSeq(bits, at, at + len - 1))

Alphabet == [i \in 0..44 |-> IF i < 10 THEN 48 + i ELSE IF i < 36 THEN 55 + i
                             ELSE <<32, 36, 37, 42, 43, 45, 46, 47, 58>>[i - 35]]

\* The text of one segment that starts behind its header.
SegmentText(bits, at, kind, count) ==
    CASE kind = 1 ->
           [i \in 1..count |->
              LET g    == (i - 1) \div 3
                  here == IF 3 * g + 3 <= count THEN 3 ELSE count - 3 * g
                  v    == Group(bits, at + 10 * g, 3 * here + 1)
              IN  48 + ((v \div 10^(here - 1 - ((i - 1) % 3))) % 10)]
      [] kind = 2 ->
           [i \in 1..count |->
              LET g == (i - 1) \div 2
                  v == Group(bits, at + 11 * g, IF 2 * g + 2 <= count THEN 11 ELSE 6)
              IN  Alphabet[IF 2 * g + 2 <= count
                           THEN IF i % 2 = 1 THEN v \div 45 ELSE v % 45 ELSE v]]
      [] kind = 4 -> [i \in 1..count |-> Group(bits, at + 8 * (i - 1), 8)]

\* The header of a segment up to version nine, and the length of its data.
CountBits(kind) == CASE kind = 1 -> 10 [] kind = 2 -> 9 [] kind = 4 -> 8
DataBits(kind, count) ==
    CASE kind = 1 -> 10 * (count \div 3) + <<0, 4, 7>>[(count % 3) + 1]
      [] kind = 2 -> 11 * (count \div 2) + 6 * (count % 2)
      [] kind = 4 -> 8 * count

\* The text of all segments, up to the terminator or the end.
Text(bits) ==
    LET text[at \in Nat] ==
          IF Len(bits) - at + 1 < 4 \/ Group(bits, at, 4) = 0 THEN <<>>
          ELSE LET kind  == Group(bits, at, 4)
                   count == Group(bits, at + 4, CountBits(kind))
                   from  == at + 4 + CountBits(kind)
               IN  SegmentText(bits, from, kind, count) \o text[from + DataBits(kind, count)]
    IN  text[1]

\* The text a picture shows, for a picture with an even quiet zone of four modules.
\* The conditions a reader checks on the way are conjuncts of ReadsAs. The numbers of
\* check bytes and of blocks, by level and version, are those of the standard's table.
ReadsAs(picture, n, text, eccTotal, eccBlocks) ==
    LET At(p)   == picture[p]
        near    == Known([i \in 1..15 |-> At(FormatNear[i])])
        far     == [i \in 1..15 |-> At(FormatFar(n)[i])]
        format  == Known(Unfixed(near))
        level   == <<1, 0, 3, 2>>[Value(SubSeq(format, 1, 2)) + 1]
        m       == Value(SubSeq(format, 3, 5))
        version == (n - 17) \div 4
        below   == [i \in 1..18 |-> At(<<5 - ((i - 1) \div 3), n - 9 - ((i - 1) % 3)>>)]
        beside  == [i \in 1..18 |-> At(<<n - 9 - ((i - 1) % 3), 5 - ((i - 1) \div 3)>>)]
        Carries(p) == ~Reserved(n, p, Places(n))
        carriers == SelectSeq(Order(n), Carries)
        bit     == Known([i \in DOMAIN carriers |->
                      LET p == carriers[i] IN
                      IF Masked(m, p[1], p[2]) THEN 1 - At(p) ELSE At(p)])
        total   == Len(bit) \div 8
        word    == Known([k \in 1..total |-> Group(bit, 8 * k - 7, 8)])
        blocks  == eccBlocks[level + 1][version]
        check   == eccTotal[level + 1][version] \div blocks
        long    == total % blocks
        short   == (total \div blocks) - check      \* data bytes of a short block
        \* byte i of block b (from 0): the data of all, the extra byte of the long
        \* ones (which come last), then the check bytes of all
        DataLen(b) == IF b >= blocks - long THEN short + 1 ELSE short
        Word(b, i) == IF i < short THEN word[i * blocks + b + 1]
                      ELSE IF i < DataLen(b) THEN word[short * blocks + b - (blocks - long) + 1]
                      ELSE word[short * blocks + long + (i - DataLen(b)) * blocks + b + 1]
        Block(b) == Known([i \in 1..(DataLen(b) + check) |-> Word(b, i - 1)])
        data    == FlattenSeq([b \in 1..blocks |-> SubSeq(Block(b - 1), 1, DataLen(b - 1))])
        bits    == Known([i \in 1..(8 * Len(data)) |->
                      (data[((i - 1) \div 8) + 1] \div 2^(7 - ((i - 1) % 8))) % 2])
    IN  /\ \A p \in DOMAIN picture : p \notin (0..(n - 1)) \X (0..(n - 1)) => At(p) = 0
        /\ near = far /\ Divisible(format, FormatGenerator)
        /\ n >= 45 => /\ below = beside /\ Divisible(below, VersionGenerator)
                      /\ Value(SubSeq(below, 1, 6)) = version
        /\ \A b \in 0..(blocks - 1) : IsCodeword(Block(b), check)
        /\ Text(bits) = text
=============================================================================
