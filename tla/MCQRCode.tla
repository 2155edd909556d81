------------------------------ MODULE MCQRCode ------------------------------
(***************************************************************************)
(* QRCode on calls chosen at its boundaries: texts of every mode, texts    *)
(* that fill a symbol to the last bit, texts at the end of the largest     *)
(* symbol, one symbol of every version, blocks of two lengths, several     *)
(* segments, fixed masks and copies.                                       *)
(***************************************************************************)
EXTENDS QRCode, QRReader

MCDrawUpTo == 7

Digits(n) == [i \in 1..n |-> 48 + ((7 * i) % 10)]
Upper(n)  == [i \in 1..n |-> 65 + ((5 * i) % 26)]
Bytes(n)  == [i \in 1..n |-> (97 + 37 * i) % 256]

\* "192.168.1.20", what BootManager::printNetworkInfo encodes.
Address == <<49, 57, 50, 46, 49, 54, 56, 46, 49, 46, 50, 48>>

\* Drawn: 34 digits fill version 1 at level MEDIUM to the last bit, 41 leave one
\* bit for the terminator at LOW, and 60 bytes take two short and two long blocks.
Drawn ==
    {encodeText(t, 0) : t \in {<<>>, Address, Digits(1), Digits(34), Digits(41), Upper(25)}}
      \cup {encodeBinary(Bytes(60), 2),
            encodeSegments(Digits(5) \o Bytes(3), <<makeNumeric(Digits(5)), makeBytes(Bytes(3))>>,
                           3, 1, 40, -1, FALSE),
            encodeSegments(Upper(3), makeSegments(Upper(3)), 1, 7, 7, -1, FALSE)}

\* One of every version, those that are drawn at every level.
EveryVersion ==
    {encodeSegments(Digits(9), makeSegments(Digits(9)), l, v, v, (v + l) % 8, FALSE) :
        v \in 1..MCDrawUpTo, l \in Ecc}
      \cup {encodeSegments(Digits(9), makeSegments(Digits(9)), v % 4, v, v, 0, FALSE) :
                v \in (MCDrawUpTo + 1)..40}

\* The ends of the field for the number of characters and of the largest symbol.
Longest ==
    {encodeText(Digits(n), 0) : n \in {552, 553, 3283, 3284, 7089, 7090}}
      \cup {encodeText(Upper(n), 3) : n \in {1852, 1853}}
      \cup {encodeBinary(Bytes(n), 1) : n \in {180, 181, 2331, 2332}}

Refused == {encodeSegments(<<>>, <<>>, 0, 5, 4, -1, TRUE),
            encodeSegments(Bytes(60), <<makeBytes(Bytes(60))>>, 0, 1, 3, -1, TRUE)}

MCCalls == Drawn \cup EveryVersion \cup Longest \cup Refused

MCCopyMasks == -1..7

-----------------------------------------------------------------------------
(* Properties.                                                             *)

\* The function patterns of a version lie inside the symbol and do not damage each
\* other (alignment patterns agree with the timing lines they cross), and leave
\* exactly the modules getNumRawDataModules counts, which the blocks of
\* appendErrorCorrection divide up without a remainder, at every level.
RoomIsExact ==
    pc = "functions" =>
      LET size   == Size(version)
          finder == drawFinderPattern(size)
          align  == drawAlignmentPattern(version)
          timing == TimingPattern(size)
          config == {DOMAIN FormatPattern(size, level, 0), DOMAIN drawVersion(version)}
          Blocks(l) == NUM_ERROR_CORRECTION_BLOCKS[l + 1][version]
          Check(l)  == NUM_ERROR_CORRECTION_CODEWORDS[l + 1][version]
      IN  /\ DOMAIN func \subseteq Grid(size)
          /\ DOMAIN finder \cap DOMAIN align = {}
          /\ \A c \in config : c \cap (DOMAIN finder \cup DOMAIN align \cup DOMAIN timing) = {}
          /\ \A p \in DOMAIN timing \cap DOMAIN align : timing[p] = align[p]
          /\ size * size - Cardinality(DOMAIN func) = getNumRawDataModules(version)
          /\ \A l \in Ecc : Check(l) % Blocks(l) = 0 /\ Check(l) \div Blocks(l) <= 255

\* What printQrCode shows of a finished symbol, or of its copy with another mask,
\* reads as the text that was encoded: both copies of the format and version bits,
\* the mask, the order of the modules, the interleaved blocks and their error
\* correction, and the segments.
ShowsText ==
    pc = "done" => ReadsAs(printQrCode(func, body, Size(version)), Size(version), call.text,
                            NUM_ERROR_CORRECTION_CODEWORDS, NUM_ERROR_CORRECTION_BLOCKS)

(* A symbol carries its text: the patterns leave the room the codewords     *)
(* need, and what is printed of it can be read again (drawFunctionPatterns, *)
(* appendErrorCorrection, drawCodewords, applyMask, printQrCode).           *)
ReadsBack == RoomIsExact /\ ShowsText
=============================================================================
