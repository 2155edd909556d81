----------------------------- MODULE QRSegment -----------------------------
(***************************************************************************)
(* QrSegment and BitBuffer of src/recovery/libs/QRCode: the text that is   *)
(* to be shown becomes a list of segments, and a segment a string of bits. *)
(*                                                                         *)
(* A text is a sequence of character codes. A BitBuffer is the sequence of *)
(* its bits; a segment keeps the calls of appendBits that filled its       *)
(* buffer, <<value, length>> each, and the length they add up to.          *)
(***************************************************************************)
EXTENDS Integers, Sequences, SequencesExt

\* The sequence s itself; TLC computes its elements once, here.
Evaluated(s) == SelectSeq(s, LAMBDA e : TRUE)

\* (val >> i) & 1.
Bit(val, i) == (val \div 2^i) % 2

\* The bits appendBits adds to a buffer, the highest first.
appendBits(val, len) == [i \in 1..len |-> Bit(val, len - i)]

Mode == [NUMERIC      |-> [modeBits |-> 1, cc |-> <<10, 12, 14>>],
         ALPHANUMERIC |-> [modeBits |-> 2, cc |-> << 9, 11, 13>>],
         BYTE         |-> [modeBits |-> 4, cc |-> << 8, 16, 16>>]]

numCharCountBits(mode, ver) ==
    Mode[mode].cc[IF ver <= 9 THEN 1 ELSE IF ver <= 26 THEN 2 ELSE 3]

\* What stands for the characters ' ' to 'Z', -1 for those that have no code.
ALPHANUMERIC_ENCODING_TABLE ==
    <<36, -1, -1, -1, 37, 38, -1, -1, -1, -1, 39, 40, -1, 41, 42, 43,
       0,  1,  2,  3,  4,  5,  6,  7,  8,  9, 44, -1, -1, -1, -1, -1, -1,
      10, 11, 12, 13, 14, 15, 16, 17, 18, 19, 20, 21, 22, 23, 24, 25, 26,
      27, 28, 29, 30, 31, 32, 33, 34, 35>>

AlphanumericCode(c) == ALPHANUMERIC_ENCODING_TABLE[c - 31]

isNumeric(text) == \A i \in DOMAIN text : text[i] \in 48..57

isAlphanumeric(text) ==
    \A i \in DOMAIN text : text[i] \in 32..90 /\ AlphanumericCode(text[i]) # -1

\* The constructor.
QrSegment(mode, numChars, appends, bitLength) ==
    [mode |-> mode, numChars |-> numChars, appends |-> appends,
     bitLength |-> bitLength]

makeBytes(data) ==
    QrSegment("BYTE", Len(data), [i \in DOMAIN data |-> <<data[i], 8>>], 8 * Len(data))

\* The digits in threes of ten bits; one digit left takes four, two seven.
makeNumeric(digits) ==
    LET n    == Len(digits)
        rest == n % 3
        Value(a, b) == LET v[i \in (a - 1)..b] ==
                             IF i < a THEN 0 ELSE 10 * v[i - 1] + digits[i] - 48
                       IN  v[b]
        full == [g \in 1..(n \div 3) |-> <<Value(3 * g - 2, 3 * g), 10>>]
    IN  QrSegment("NUMERIC", n,
                  IF rest = 0 THEN full
                  ELSE Append(full, <<Value(n - rest + 1, n), 3 * rest + 1>>),
                  10 * (n \div 3) + (IF rest = 0 THEN 0 ELSE 3 * rest + 1))

\* The characters in pairs of eleven bits; the last one of an odd number takes six.
makeAlphanumeric(text) ==
    LET n     == Len(text)
        pairs == [g \in 1..(n \div 2) |->
                    <<45 * AlphanumericCode(text[2 * g - 1]) + AlphanumericCode(text[2 * g]), 11>>]
    IN  QrSegment("ALPHANUMERIC", n,
                  IF n % 2 = 0 THEN pairs
                  ELSE Append(pairs, <<AlphanumericCode(text[n]), 6>>),
                  11 * (n \div 2) + 6 * (n % 2))

makeSegments(text) ==
    IF text = <<>> THEN <<>>
    ELSE IF isNumeric(text) THEN <<makeNumeric(text)>>
    ELSE IF isAlphanumeric(text) THEN <<makeAlphanumeric(text)>>
    ELSE <<makeBytes(text)>>

\* The bits the segments take in a symbol of this version, -1 if the number of
\* characters of one of them cannot be written in its field.
getTotalBits(segs, version) ==
    LET cc(i)  == numCharCountBits(segs[i].mode, version)
        sum[i \in 0..Len(segs)] ==
            IF i = 0 THEN 0 ELSE sum[i - 1] + 4 + cc(i) + segs[i].bitLength
    IN  IF \E i \in DOMAIN segs : segs[i].numChars >= 2^cc(i) THEN -1
        ELSE sum[Len(segs)]

\* What BitBuffer.appendData copies, with the mode and the count in front of it.
SegmentBits(seg, version) ==
    appendBits(Mode[seg.mode].modeBits, 4)
      \o appendBits(seg.numChars, numCharCountBits(seg.mode, version))
      \o FlattenSeq([i \in DOMAIN seg.appends |->
                        appendBits(seg.appends[i][1], seg.appends[i][2])])
=============================================================================
