------------------------------ MODULE WebProofs ------------------------------
(***************************************************************************)
(* Lemmas about receiving an HTTP message, for every message, buffer size  *)
(* and division of the message into reads.                                 *)
(***************************************************************************)
EXTENDS Web, SequenceTheorems, WellFoundedInduction, TLAPS

-----------------------------------------------------------------------------
(***************************************************************************)
(* Smallest and largest elements                                           *)
(***************************************************************************)
(* A set of natural numbers has a smallest element.                         *)
LEMMA MinExists ==
  ASSUME NEW S \in SUBSET Nat, S # {}
  PROVE  Min(S) \in S /\ \A y \in S : Min(S) <= y
<1> DEFINE R == {ss \in Nat \X Nat : ss[1] < ss[2]}
<1>1. IsWellFoundedOn(R, Nat)
  BY NatLessThanWellFounded DEF OpToRel
<1>2. PICK m \in S : \A l \in S : ~(<<l, m>> \in R)
  BY <1>1, WFMin
<1>3. \A l \in S : m <= l
  <2> SUFFICES ASSUME NEW l \in S, l < m PROVE FALSE
    OBVIOUS
  <2>1. <<l, m>> \in R
    OBVIOUS
  <2> QED BY <1>2, <2>1
<1> QED BY <1>3 DEF Min

(* A set of natural numbers up to n has a largest element.                  *)
LEMMA MaxExists ==
  ASSUME NEW n \in Nat, NEW S \in SUBSET (0..n), S # {}
  PROVE  Max(S) \in S
<1> DEFINE T == {m \in 0..n : n - m \in S}
<1>1. \A k \in S : k \in 0..n /\ n - k \in T
  OBVIOUS
<1>2. T \in SUBSET Nat /\ T # {}
  <2>1. T \in SUBSET Nat
    OBVIOUS
  <2> HIDE DEF T
  <2> QED BY <1>1, <2>1
<1>3. Min(T) \in T /\ \A y \in T : Min(T) <= y
  <2> HIDE DEF T
  <2> QED BY <1>2, MinExists
<1>4. Min(T) \in 0..n /\ n - Min(T) \in S
  BY <1>3
<1>5. \A k \in S : n - Min(T) >= k
  <2> HIDE DEF T
  <2> QED BY <1>1, <1>3, <1>4
<1> HIDE DEF T
<1> QED BY <1>4, <1>5 DEF Max

(* The least of two numbers.                                                *)
LEMMA MinOfTwo ==
  ASSUME NEW a \in Nat, NEW b \in Nat
  PROVE  LET m == Min({a, b})
         IN m \in {a, b} /\ m <= a /\ m <= b
BY {a, b} \in SUBSET Nat, {a, b} # {}, MinExists

-----------------------------------------------------------------------------
(***************************************************************************)
(* Headers                                                                 *)
(***************************************************************************)
(* The units a receiver of m may hold: those of m, what follows a full      *)
(* buffer, and the LF parseBodyLine appends.                                *)
Units(m) == Range(m) \cup {Stray, LF}

(* raw is what was made of the first n units of m: stray bytes may have     *)
(* come between them, but not in front.                                     *)
Came(raw, m, n) ==
  /\ raw = <<>> <=> n = 0
  /\ raw # <<>> => raw[1] = m[1]
  /\ \A i \in 2..Len(raw) : raw[i] # Stray => \E j \in 2..n : raw[i] = m[j]

(* A message is a sequence of its units.                                    *)
LEMMA MessageType ==
  ASSUME NEW m, Message(m)
  PROVE  /\ m \in Seq(Units(m)) /\ Len(m) \in Nat /\ Len(m) >= 1
         /\ \A i \in 1..Len(m) : m[i] # Stray
<1>1. /\ m \in Seq(Range(m)) /\ m # <<>> /\ Stray \notin Range(m)
      /\ Range(m) \subseteq Units(m)
  BY DEF Message, Units
<1>2. \A i \in 1..Len(m) : m[i] \in Range(m)
  BY <1>1
<1>3. m \in Seq(Units(m))
  BY <1>1, SeqMonotonic, Zenon
<1> QED BY <1>1, <1>2, <1>3

(* Where a header ends: at a CR behind the first line.                      *)
LEMMA EndOfHeaderType ==
  ASSUME NEW S, NEW raw \in Seq(S)
  PROVE  LET end == EndOfHeader(raw)
         IN /\ end # 0 => end \in 2..Len(raw) /\ raw[end] = CR
            /\ \A i \in 2..Len(raw) : raw[i] = CR /\ StartsLine(raw, i) =>
                 end # 0 /\ end <= i
<1> DEFINE ends == {i \in 2..Len(raw) : raw[i] = CR /\ StartsLine(raw, i)}
<1>1. Len(raw) \in Nat /\ ends \in SUBSET Nat
  OBVIOUS
<1>2. EndOfHeader(raw) = IF ends = {} THEN 0 ELSE Min(ends)
  BY DEF EndOfHeader
<1>3. ends # {} => Min(ends) \in ends /\ \A i \in ends : Min(ends) <= i
  <2> HIDE DEF ends
  <2> QED BY <1>1, MinExists
<1>4. \A i \in ends : i \in 2..Len(raw) /\ raw[i] = CR
  OBVIOUS
<1>5. \A i \in 2..Len(raw) : raw[i] = CR /\ StartsLine(raw, i) => i \in ends
  OBVIOUS
<1> HIDE DEF ends
<1>6. EndOfHeader(raw) # 0 => EndOfHeader(raw) \in ends
  BY <1>2, <1>3
<1>7. \A i \in ends : EndOfHeader(raw) # 0 /\ EndOfHeader(raw) <= i
  BY <1>1, <1>2, <1>3, <1>4
<1> QED BY <1>4, <1>5, <1>6, <1>7

(* A header that ends in what came of a message ends in that part of it.    *)
LEMMA HeaderEndCame ==
  ASSUME NEW m, Message(m), NEW n \in 0..Len(m),
         NEW raw \in Seq(Units(m)), Came(raw, m, n), EndOfHeader(raw) # 0
  PROVE  /\ EndOfHeader(m) \in 1..n
         /\ raw # <<>> /\ raw[1] = m[1]
<1> DEFINE i == EndOfHeader(raw)
<1>1. i \in 2..Len(raw) /\ raw[i] = CR
  BY EndOfHeaderType
<1>2. CR # Stray
  BY DEF CR, Stray
<1>3. PICK j \in 2..n : m[j] = CR
  BY <1>1, <1>2 DEF Came
<1>4. j \in 2..Len(m) /\ StartsLine(m, j)
  BY MessageType DEF StartsLine
<1>5. /\ EndOfHeader(m) # 0 /\ EndOfHeader(m) <= j
      /\ EndOfHeader(m) \in 2..Len(m)
  BY <1>3, <1>4, MessageType, EndOfHeaderType
<1>6. raw # <<>>
  BY <1>1
<1> QED BY <1>5, <1>6 DEF Came

(* A field that is found is one of the message.                             *)
LEMMA ContentLengthType ==
  ASSUME NEW m, Message(m), NEW n \in 0..Len(m), NEW r,
         r.raw \in Seq(Units(m)), Came(r.raw, m, n), EndOfHeader(r.raw) # 0
  PROVE  ContentLength(r) \in Int \cup {Junk, NoField}
<1> DEFINE raw == r.raw
           end == EndOfHeader(raw)
           lines == {i \in 2..(end - 1) : /\ raw[i][1] = "field"
                                          /\ raw[i][2] = "Content-Length"
                                          /\ StartsLine(raw, i)}
<1>1. Len(raw) \in Nat /\ end \in 2..Len(raw)
  BY EndOfHeaderType
<1>2. lines \in SUBSET (0..Len(raw))
  BY <1>1
<1>3. ContentLength(r) = IF lines = {} THEN NoField ELSE raw[Max(lines)][3]
  BY DEF ContentLength, parseHeaderLine
<1>4. CASE lines # {}
  <2>1. Max(lines) \in lines
    <3> HIDE DEF lines
    <3> QED BY <1>1, <1>2, <1>4, MaxExists
  <2>2. PICK i \in 2..Len(raw) : /\ i = Max(lines)
                                 /\ raw[i][1] = "field" /\ raw[i][2] = "Content-Length"
    <3>1. Max(lines) \in 2..(end - 1)
      BY <2>1
    <3>2. raw[Max(lines)][1] = "field" /\ raw[Max(lines)][2] = "Content-Length"
      BY <2>1
    <3> HIDE DEF lines, end
    <3> QED BY <1>1, <3>1, <3>2
  <2>3. Stray[1] # "field"
    BY DEF Stray
  <2>4. PICK j \in 2..n : raw[i] = m[j]
    BY <2>2, <2>3 DEF Came
  <2>5. m[j][3] \in Int \cup {Junk}
    BY <2>2, <2>4, MessageType DEF Message
  <2> HIDE DEF lines, raw
  <2> QED BY <1>3, <1>4, <2>2, <2>4, <2>5
<1> QED BY <1>3, <1>4

-----------------------------------------------------------------------------
(***************************************************************************)
(* Receivers                                                               *)
(***************************************************************************)
Receivers(m) ==
  [verdict : {"reading", "received", "failed", "thrown"}, more : BOOLEAN,
   raw : Seq(Units(m)), bytes : Int, size : Nat \cup {-1},
   line : {NoField, m[1][2]}, reboot : BOOLEAN, body : Seq(Units(m))]

(* r receives m and has read n units of it. Behind the first readReceive    *)
(* the whole header is read.                                                *)
ReceiverInv(r, m, n) ==
  /\ r \in Receivers(m)
  /\ r.verdict # "failed" => r.bytes = n
  /\ r.verdict = "reading" /\ ~r.more => Came(r.raw, m, n)
  /\ r.more => EndOfHeader(m) \in 1..n /\ r.line = m[1][2]
  /\ r.verdict = "received" => r.more

(* r has read all of m before the first readReceive returned: it waits for  *)
(* bytes a wrong Content-Length promises, or has the whole body.            *)
Whole(r, m) ==
  \/ r.verdict = "reading" /\ r.size # -1 /\ Len(m) < r.size
  \/ r.size = -1 /\ r.raw = <<>> /\ r.body = BodyOf(m)

(* A receiver that has read nothing.                                        *)
LEMMA NewReceiverInv ==
  ASSUME NEW m, Message(m)
  PROVE  /\ ReceiverInv(NewReceiver, m, 0)
         /\ NewReceiver.raw = SubSeq(m, 1, 0)
         /\ NewReceiver.verdict = "reading" /\ NewReceiver.more = FALSE
<1>1. <<>> \in Seq(Units(m)) /\ 0 \in Int /\ -1 \in Nat \cup {-1}
  OBVIOUS
<1>2. NewReceiver \in Receivers(m)
  BY <1>1 DEF NewReceiver, Receivers
<1>3. NewReceiver.raw = SubSeq(m, 1, 0)
  BY MessageType DEF NewReceiver
<1>4. Came(<<>>, m, 0)
  BY DEF Came
<1>5. /\ NewReceiver.verdict = "reading" /\ NewReceiver.more = FALSE
      /\ NewReceiver.raw = <<>> /\ NewReceiver.bytes = 0
  BY DEF NewReceiver
<1> QED BY <1>2, <1>3, <1>4, <1>5 DEF ReceiverInv

(* What append may find behind the buffer.                                  *)
Behind == {<<>>, <<Stray>>}

(* What append makes of what is there and what was read.                    *)
LEMMA Appended ==
  ASSUME NEW S, NEW old \in Seq(S), NEW text \in Seq(S),
         NEW behind \in Behind, Stray \in S
  PROVE  LET raw == old \o text \o behind
         IN /\ raw \in Seq(S) /\ Len(raw) \in Nat
            /\ Len(raw) >= Len(old) + Len(text)
            /\ behind = <<>> => Len(raw) = Len(old) + Len(text)
            /\ \A i \in 1..Len(raw) :
                 raw[i] = IF i <= Len(old) THEN old[i]
                          ELSE IF i <= Len(old) + Len(text) THEN text[i - Len(old)]
                          ELSE Stray
<1> DEFINE a == old \o text
           raw == a \o behind
<1>1. Len(old) \in Nat /\ Len(text) \in Nat
  OBVIOUS
<1>2. /\ a \in Seq(S) /\ Len(a) = Len(old) + Len(text)
      /\ \A i \in 1..(Len(old) + Len(text)) :
           a[i] = IF i <= Len(old) THEN old[i] ELSE text[i - Len(old)]
  BY ConcatProperties
<1> HIDE DEF a
<1>3. CASE behind = <<>>
  <2>1. raw = a
    BY <1>2, <1>3, ConcatEmptySeq
  <2> QED BY <1>1, <1>2, <1>3, <2>1 DEF a
<1>4. CASE behind = <<Stray>>
  <2>1. behind \in Seq(S) /\ Len(behind) = 1 /\ behind[1] = Stray
    BY <1>4
  <2>2. /\ raw \in Seq(S) /\ Len(raw) = Len(a) + 1
        /\ \A i \in 1..(Len(a) + 1) : raw[i] = IF i <= Len(a) THEN a[i]
                                                              ELSE behind[i - Len(a)]
    <3>1. a \in Seq(S) /\ behind \in Seq(S)
      BY <1>2, <2>1
    <3>2. /\ raw \in Seq(S) /\ Len(raw) = Len(a) + Len(behind)
          /\ \A i \in 1..(Len(a) + Len(behind)) :
               raw[i] = IF i <= Len(a) THEN a[i] ELSE behind[i - Len(a)]
      BY <3>1, ConcatProperties
    <3> QED BY <2>1, <3>2
  <2>3. behind # <<>>
    BY <1>4
  <2> HIDE DEF raw
  <2>4. raw[Len(a) + 1] = Stray
    <3>1. Len(a) \in Nat /\ (Len(a) + 1) - Len(a) = 1
      BY <1>1, <1>2
    <3> QED BY <2>1, <2>2, <3>1
  <2>5. \A i \in 1..Len(raw) : i > Len(a) => i = Len(a) + 1
    <3>1. Len(a) \in Nat /\ Len(raw) = Len(a) + 1
      BY <1>1, <1>2, <2>2
    <3> QED BY <3>1
  <2>6. \A i \in 1..Len(raw) : i <= Len(a) =>
          raw[i] = IF i <= Len(old) THEN old[i] ELSE text[i - Len(old)]
    BY <1>1, <1>2, <2>2
  <2>7. \A i \in 1..Len(raw) :
          raw[i] = IF i <= Len(old) THEN old[i]
                   ELSE IF i <= Len(old) + Len(text) THEN text[i - Len(old)]
                   ELSE Stray
    BY <1>1, <1>2, <2>4, <2>5, <2>6
  <2>8. Len(raw) \in Nat /\ Len(raw) >= Len(old) + Len(text)
    BY <1>1, <1>2, <2>2
  <2> QED BY <2>2, <2>3, <2>7, <2>8 DEF raw, a
<1> QED BY <1>3, <1>4 DEF Behind

(* The next k units of m, and perhaps a stray byte, behind its first n.     *)
LEMMA CameMore ==
  ASSUME NEW m, Message(m), NEW n \in Nat, NEW k \in Nat \ {0}, n + k <= Len(m),
         NEW old \in Seq(Units(m)), NEW behind \in Behind
  PROVE  LET raw == old \o SubSeq(m, n + 1, n + k) \o behind
         IN /\ raw \in Seq(Units(m))
            /\ Came(old, m, n) => Came(raw, m, n + k)
            /\ old = SubSeq(m, 1, n) /\ behind = <<>> => raw = SubSeq(m, 1, n + k)
<1> DEFINE text == SubSeq(m, n + 1, n + k)
           raw == old \o text \o behind
<1>1. \A i \in 1..(n + k) : m[i] \in Units(m)
  BY MessageType, ElementOfSeq
<1>2. /\ text \in Seq(Units(m)) /\ Len(text) = k
      /\ \A i \in 1..k : text[i] = m[n + i]
  <2>1. n + 1 \in Int /\ n + k \in Int /\ \A i \in (n + 1)..(n + k) : m[i] \in Units(m)
    BY <1>1
  <2>2. /\ text \in Seq(Units(m))
        /\ Len(text) = IF n + 1 <= n + k THEN (n + k) - (n + 1) + 1 ELSE 0
        /\ \A i \in 1..((n + k) - (n + 1) + 1) : text[i] = m[(n + 1) + i - 1]
    BY <2>1, SubSeqProperties
  <2>3. (n + k) - (n + 1) + 1 = k /\ \A i \in 1..k : (n + 1) + i - 1 = n + i
    OBVIOUS
  <2> QED BY <2>2, <2>3
<1>3. Len(old) \in Nat /\ Stray \in Units(m)
  BY DEF Units
<1> HIDE DEF text
<1>4. /\ raw \in Seq(Units(m)) /\ Len(raw) \in Nat
      /\ Len(raw) >= Len(old) + k
      /\ behind = <<>> => Len(raw) = Len(old) + k
      /\ \A i \in 1..Len(raw) :
           raw[i] = IF i <= Len(old) THEN old[i]
                    ELSE IF i <= Len(old) + k THEN text[i - Len(old)]
                    ELSE Stray
  <2>1. /\ raw \in Seq(Units(m)) /\ Len(raw) \in Nat
        /\ Len(raw) >= Len(old) + Len(text)
        /\ behind = <<>> => Len(raw) = Len(old) + Len(text)
        /\ \A i \in 1..Len(raw) :
             raw[i] = IF i <= Len(old) THEN old[i]
                      ELSE IF i <= Len(old) + Len(text) THEN text[i - Len(old)]
                      ELSE Stray
    <3>1. text \in Seq(Units(m)) /\ Stray \in Units(m)
      BY <1>2, <1>3
    <3> QED BY <3>1, Appended
  <2> QED BY <1>2, <2>1
<1> HIDE DEF raw
<1>5. \A i \in 1..Len(raw) : i > Len(old) /\ i <= Len(old) + k =>
        i - Len(old) \in 1..k /\ raw[i] = m[n + (i - Len(old))]
  BY <1>2, <1>3, <1>4
<1>6. ASSUME Came(old, m, n) PROVE Came(raw, m, n + k)
  <2>1. Len(old) = 0 <=> n = 0
    BY <1>6 DEF Came
  <2>2. raw # <<>> /\ 1 \in 1..Len(raw)
    BY <1>3, <1>4
  <2>3. raw[1] = m[1]
    <3>1. CASE Len(old) = 0
      <4>1. raw[1] = m[n + (1 - Len(old))]
        BY <1>5, <2>2, <3>1
      <4> QED BY <2>1, <3>1, <4>1
    <3>2. CASE Len(old) >= 1
      <4>1. raw[1] = old[1] /\ old # <<>>
        BY <1>3, <1>4, <2>2, <3>2
      <4> QED BY <1>6, <4>1 DEF Came
    <3> QED BY <1>3, <3>1, <3>2
  <2>4. ASSUME NEW i \in 2..Len(raw), raw[i] # Stray
        PROVE  \E j \in 2..(n + k) : raw[i] = m[j]
    <3>1. CASE i <= Len(old)
      <4>1. raw[i] = old[i] /\ i \in 2..Len(old)
        <5>1. i \in 1..Len(raw) /\ i \in 2..Len(old)
          BY <1>3, <1>4, <3>1
        <5> QED BY <1>4, <3>1, <5>1
      <4>2. PICK j \in 2..n : raw[i] = m[j]
        BY <1>6, <2>4, <4>1 DEF Came
      <4>3. j \in 2..(n + k)
        OBVIOUS
      <4> QED BY <4>2, <4>3
    <3>2. CASE i > Len(old)
      <4> DEFINE j == n + (i - Len(old))
      <4>1. i <= Len(old) + k
        BY <1>3, <1>4, <2>4, <3>2
      <4>2. i - Len(old) \in 1..k /\ raw[i] = m[j]
        BY <1>3, <1>4, <1>5, <3>2, <4>1
      <4>3. j \in 2..(n + k)
        BY <1>3, <2>1, <4>2
      <4> QED BY <4>2, <4>3
    <3> QED BY <1>3, <3>1, <3>2
  <2> QED BY <2>2, <2>3, <2>4 DEF Came
<1>7. ASSUME old = SubSeq(m, 1, n), behind = <<>> PROVE raw = SubSeq(m, 1, n + k)
  <2>1. Len(old) = n /\ \A i \in 1..n : old[i] = m[i]
    BY <1>1, <1>7, SubSeqProperties
  <2>2. /\ SubSeq(m, 1, n + k) \in Seq(Units(m)) /\ Len(SubSeq(m, 1, n + k)) = n + k
        /\ \A i \in 1..(n + k) : SubSeq(m, 1, n + k)[i] = m[i]
    BY <1>1, SubSeqProperties
  <2>3. Len(raw) = n + k
    BY <1>4, <1>7, <2>1
  <2>4. \A i \in 1..(n + k) : raw[i] = m[i]
    BY <1>4, <1>5, <2>1, <2>3
  <2> QED BY <1>4, <2>2, <2>3, <2>4, SeqEqual
<1> QED BY <1>4, <1>6, <1>7 DEF raw, text

(* What one round of readReceive does: the next k units of m are read, and  *)
(* nothing is added to them unless they fill the buffer.                    *)
LEMMA ReadRoundInv ==
  ASSUME NEW m, Message(m), NEW n \in Nat, NEW k \in Nat \ {0}, n + k <= Len(m),
         NEW r, ReceiverInv(r, m, n), r.verdict = "reading",
         NEW s \in ReadRound(r, SubSeq(m, n + 1, n + k))
  PROVE  /\ ReceiverInv(s, m, n + k)
         /\ s.verdict = "reading" /\ s.more = r.more
         /\ r.raw = SubSeq(m, 1, n) /\ k # BufferSize => s.raw = SubSeq(m, 1, n + k)
<1> DEFINE text == SubSeq(m, n + 1, n + k)
<1>1. /\ r \in Receivers(m) /\ r.raw \in Seq(Units(m)) /\ r.bytes = n
      /\ ~r.more => Came(r.raw, m, n)
      /\ r.more => EndOfHeader(m) \in 1..n /\ r.line = m[1][2]
  BY DEF ReceiverInv, Receivers
<1>2. Len(text) = k
  <2>1. \A i \in (n + 1)..(n + k) : m[i] \in Units(m)
    BY MessageType, ElementOfSeq
  <2> QED BY <2>1, SubSeqProperties
<1>3. s \in ReadRound(r, text)
  OBVIOUS
<1>4. /\ \A behind \in Behind : r.raw \o text \o behind \in Seq(Units(m))
      /\ ~r.more => \A behind \in Behind : Came(r.raw \o text \o behind, m, n + k)
      /\ r.raw = SubSeq(m, 1, n) => r.raw \o text \o <<>> = SubSeq(m, 1, n + k)
  <2>1. ASSUME NEW behind \in Behind
        PROVE  /\ r.raw \o text \o behind \in Seq(Units(m))
               /\ Came(r.raw, m, n) => Came(r.raw \o text \o behind, m, n + k)
               /\ r.raw = SubSeq(m, 1, n) /\ behind = <<>> =>
                    r.raw \o text \o behind = SubSeq(m, 1, n + k)
    <3> DEFINE old == r.raw
    <3>1. old \in Seq(Units(m))
      BY <1>1
    <3> HIDE DEF old
    <3>2. /\ old \o text \o behind \in Seq(Units(m))
          /\ Came(old, m, n) => Came(old \o text \o behind, m, n + k)
          /\ old = SubSeq(m, 1, n) /\ behind = <<>> =>
               old \o text \o behind = SubSeq(m, 1, n + k)
      BY <3>1, CameMore
    <3> QED BY <3>2 DEF old
  <2> QED BY <1>1, <2>1 DEF Behind
<1> HIDE DEF text
<1>5. PICK behind \in Behind :
        /\ k # BufferSize => behind = <<>>
        /\ s = [r EXCEPT !.raw = r.raw \o text \o behind, !.bytes = n + k]
  <2>1. PICK behind \in IF k = BufferSize THEN {<<>>, <<Stray>>} ELSE {<<>>} :
          s = [r EXCEPT !.raw = r.raw \o text \o behind, !.bytes = n + k]
    BY <1>1, <1>2, <1>3, Zenon DEF ReadRound
  <2> QED BY <2>1 DEF Behind
<1> DEFINE raw == r.raw \o text \o behind
<1>6. /\ raw \in Seq(Units(m)) /\ (~r.more => Came(raw, m, n + k))
      /\ r.raw = SubSeq(m, 1, n) /\ k # BufferSize => raw = SubSeq(m, 1, n + k)
      /\ s = [r EXCEPT !.raw = raw, !.bytes = n + k]
  BY <1>4, <1>5
<1> HIDE DEF raw
<1>7. /\ s.raw = raw /\ s.bytes = n + k /\ s.verdict = "reading" /\ s.more = r.more
      /\ s.line = r.line
  BY <1>1, <1>6 DEF Receivers
<1>8. s \in Receivers(m)
  <2>1. n + k \in Int
    OBVIOUS
  <2> QED BY <1>1, <1>6, <2>1 DEF Receivers
<1> QED BY <1>1, <1>6, <1>7, <1>8 DEF ReceiverInv

(* The bodies a receiver of m builds are made of its units.                 *)
LEMMA BodyType ==
  ASSUME NEW m, NEW raw \in Seq(Units(m)), NEW end \in 0..Len(raw), NEW body \in Seq(Units(m))
  PROVE  /\ BehindHeader(raw, end) \in Seq(Units(m))
         /\ parseBodyLine(body, raw) \in Seq(Units(m))
         /\ parseBodyLine(body, <<>>) = body
         /\ body # <<>> => SubSeq(body, 1, Len(body) - 1) \in Seq(Units(m))
<1>1. /\ Len(raw) \in Nat /\ Len(body) \in Nat
      /\ \A i \in 1..Len(raw) : raw[i] \in Units(m)
      /\ \A i \in 1..Len(body) : body[i] \in Units(m)
  BY ElementOfSeq
<1>2. ASSUME NEW from \in {end + 1, end + 2}
      PROVE  SubSeq(raw, from, Len(raw)) \in Seq(Units(m))
  <2>1. from \in Int /\ \A i \in from..Len(raw) : raw[i] \in Units(m)
    BY <1>1
  <2> QED BY <1>1, <2>1, SubSeqProperties
<1>3. BehindHeader(raw, end) \in Seq(Units(m))
  BY <1>2 DEF BehindHeader
<1>4. parseBodyLine(body, raw) \in Seq(Units(m))
  <2>1. /\ <<LF>> \in Seq(Units(m)) /\ <<>> \in Seq(Units(m))
        /\ body \o raw \in Seq(Units(m))
    BY DEF Units
  <2>2. body \o raw \o <<LF>> \in Seq(Units(m)) /\ body \o raw \o <<>> \in Seq(Units(m))
    BY <2>1
  <2> QED BY <2>2 DEF parseBodyLine
<1>5. parseBodyLine(body, <<>>) = body
  BY DEF parseBodyLine
<1>6. body # <<>> => SubSeq(body, 1, Len(body) - 1) \in Seq(Units(m))
  BY <1>1, SubSeqProperties
<1> QED BY <1>3, <1>4, <1>5, <1>6

(* The three ways on from the first readReceive.                            *)
LEMMA AfterFirstReadCases ==
  ASSUME NEW r
  PROVE  LET end == EndOfHeader(r.raw)
         IN /\ end = 0 => AfterFirstRead(r) = [r EXCEPT !.verdict = "failed"]
            /\ end # 0 /\ ContentLength(r) = Junk =>
                 AfterFirstRead(r) = [ParsedHeader(r) EXCEPT !.verdict = "thrown"]
            /\ end # 0 /\ ContentLength(r) # Junk =>
                 \E verdict \in {"reading", "received"} :
                   /\ Short(r) => verdict = "reading"
                   /\ AfterFirstRead(r) =
                        [ParsedHeader(r) EXCEPT
                           !.verdict = verdict, !.more = TRUE, !.raw = <<>>,
                           !.size = IF Short(r) THEN ContentLength(r) ELSE -1,
                           !.body = IF Short(r) /\ BodyOf(r.raw) # <<>>
                                    THEN SubSeq(BodyOf(r.raw), 1, Len(BodyOf(r.raw)) - 1)
                                    ELSE BodyOf(r.raw)]
BY Zenon DEF AfterFirstRead

(* The first readReceive has returned. If all of m was read by then, and    *)
(* nothing else, the receiver fails only if m has no header.                *)
LEMMA AfterFirstReadInv ==
  ASSUME NEW m, Message(m), NEW n \in 0..Len(m),
         NEW r, ReceiverInv(r, m, n), r.verdict = "reading", r.more = FALSE
  PROVE  LET s == AfterFirstRead(r)
         IN /\ ReceiverInv(s, m, n)
            /\ s.verdict = "reading" => s.more
            /\ s.verdict = "failed" => s.more = FALSE
            /\ r.raw = m /\ n = Len(m) =>
                 /\ s.verdict = "failed" => EndOfHeader(m) = 0
                 /\ s.more => Whole(s, m)
<1> DEFINE s == AfterFirstRead(r)
           end == EndOfHeader(r.raw)
<1>1. /\ r \in Receivers(m) /\ r.raw \in Seq(Units(m)) /\ r.bytes = n
      /\ Came(r.raw, m, n) /\ Len(m) \in Nat
  BY MessageType DEF ReceiverInv, Receivers
<1>2. CASE end = 0
  <2>1. s = [r EXCEPT !.verdict = "failed"]
    BY <1>2, AfterFirstReadCases
  <2>2. s.verdict = "failed" /\ s.more = FALSE
    BY <1>1, <2>1 DEF Receivers
  <2>3. s \in Receivers(m)
    BY <1>1, <2>1 DEF Receivers
  <2> HIDE DEF s
  <2> QED BY <1>2, <2>2, <2>3 DEF ReceiverInv, s
<1>3. ASSUME end # 0
      PROVE  /\ EndOfHeader(m) \in 1..n /\ r.raw[1][2] = m[1][2]
             /\ ParsedHeader(r) \in Receivers(m)
             /\ ParsedHeader(r).line = m[1][2] /\ ParsedHeader(r).bytes = n
             /\ ParsedHeader(r).more = FALSE
             /\ BodyOf(r.raw) \in Seq(Units(m))
             /\ ContentLength(r) \in Int \cup {Junk, NoField}
  <2>1. EndOfHeader(m) \in 1..n /\ r.raw[1] = m[1]
    BY <1>1, <1>3, HeaderEndCame
  <2>2. ParsedHeader(r) \in Receivers(m)
    <3>1. (parseHeaderLine(r.raw, end, "AutoReboot") # NoField) \in BOOLEAN
      BY Zenon
    <3> QED BY <1>1, <2>1, <3>1, Zenon DEF ParsedHeader, Receivers
  <2>3. /\ ParsedHeader(r).line = m[1][2] /\ ParsedHeader(r).bytes = n
        /\ ParsedHeader(r).more = FALSE
    BY <1>1, <2>1 DEF ParsedHeader, Receivers
  <2>4. BodyOf(r.raw) \in Seq(Units(m))
    <3>1. end \in 0..Len(r.raw) /\ <<>> \in Seq(Units(m))
      BY <1>1, <1>3, EndOfHeaderType
    <3>2. BehindHeader(r.raw, end) \in Seq(Units(m)) /\ Len(BehindHeader(r.raw, end)) \in Nat
      BY <1>1, <3>1, BodyType
    <3>3. 0 \in 0..Len(BehindHeader(r.raw, end))
      BY <3>2
    <3> QED BY <3>1, <3>2, <3>3, BodyType DEF BodyOf
  <2> QED BY <1>1, <1>3, <2>1, <2>2, <2>3, <2>4, ContentLengthType
<1>4. CASE end # 0 /\ ContentLength(r) = Junk
  <2>1. s = [ParsedHeader(r) EXCEPT !.verdict = "thrown"]
    BY <1>4, AfterFirstReadCases
  <2>2. s.verdict = "thrown" /\ s.more = FALSE /\ s.bytes = n
    BY <1>3, <1>4, <2>1 DEF Receivers
  <2>3. s \in Receivers(m)
    BY <1>3, <1>4, <2>1 DEF Receivers
  <2> HIDE DEF s
  <2> QED BY <2>2, <2>3 DEF ReceiverInv, s
<1>5. CASE end # 0 /\ ContentLength(r) # Junk
  <2> DEFINE body == IF Short(r) /\ BodyOf(r.raw) # <<>>
                     THEN SubSeq(BodyOf(r.raw), 1, Len(BodyOf(r.raw)) - 1)
                     ELSE BodyOf(r.raw)
             size == IF Short(r) THEN ContentLength(r) ELSE -1
  <2>1. PICK verdict \in {"reading", "received"} :
          /\ Short(r) => verdict = "reading"
          /\ s = [ParsedHeader(r) EXCEPT !.verdict = verdict, !.more = TRUE,
                                         !.raw = <<>>, !.size = size, !.body = body]
    BY <1>5, AfterFirstReadCases, Zenon
  <2>2. /\ size \in Nat \cup {-1}
        /\ Short(r) => size > n /\ size # -1
        /\ ~Short(r) => size = -1
    BY <1>1, <1>3, <1>5 DEF Short
  <2>3. body \in Seq(Units(m)) /\ (~Short(r) => body = BodyOf(r.raw))
    BY <1>1, <1>3, <1>5, BodyType
  <2> HIDE DEF body, size, s
  <2>4. /\ s.verdict = verdict /\ s.more = TRUE /\ s.raw = <<>> /\ s.size = size
        /\ s.body = body /\ s.line = m[1][2] /\ s.bytes = n
    BY <1>3, <1>5, <2>1 DEF Receivers
  <2>5. s \in Receivers(m)
    <3>1. <<>> \in Seq(Units(m)) /\ TRUE \in BOOLEAN
      OBVIOUS
    <3> QED BY <1>3, <1>5, <2>1, <2>2, <2>3, <3>1, Zenon DEF Receivers
  <2>6. ReceiverInv(s, m, n)
    BY <1>3, <1>5, <2>4, <2>5 DEF ReceiverInv
  <2>7. r.raw = m /\ n = Len(m) => Whole(s, m)
    BY <1>1, <2>1, <2>2, <2>3, <2>4 DEF Whole
  <2> QED BY <2>1, <2>4, <2>6, <2>7 DEF s
<1> QED BY <1>2, <1>4, <1>5

(* readReceive has returned in the loop of the continued read.              *)
LEMMA AfterNextReadInv ==
  ASSUME NEW m, Message(m), NEW n \in 0..Len(m),
         NEW r, ReceiverInv(r, m, n), r.verdict = "reading", r.more = TRUE
  PROVE  LET s == AfterNextRead(r)
         IN /\ ReceiverInv(s, m, n)
            /\ s.verdict \in {"reading", "received"} /\ s.more = TRUE
            /\ Whole(r, m) /\ n = Len(m) => Whole(s, m)
<1> DEFINE s == AfterNextRead(r)
<1>1. /\ r \in Receivers(m) /\ r.raw \in Seq(Units(m)) /\ r.body \in Seq(Units(m))
      /\ r.bytes = n /\ EndOfHeader(m) \in 1..n /\ r.line = m[1][2] /\ Len(m) \in Nat
      /\ r.size \in Nat \cup {-1}
  BY MessageType DEF ReceiverInv, Receivers
<1>2. CASE r.size # -1 /\ r.bytes < r.size
  <2>1. s = r
    BY <1>2 DEF AfterNextRead
  <2> QED BY <2>1
<1>3. CASE ~(r.size # -1 /\ r.bytes < r.size)
  <2> DEFINE body == parseBodyLine(r.body, r.raw)
  <2>1. s = [r EXCEPT !.verdict = "received", !.raw = <<>>, !.body = body]
    BY <1>3 DEF AfterNextRead
  <2>2. body \in Seq(Units(m)) /\ (r.raw = <<>> => body = r.body)
    <3>1. 0 \in 0..Len(r.raw)
      BY <1>1
    <3> QED BY <1>1, <3>1, BodyType
  <2> HIDE DEF body, s
  <2>3. /\ s.verdict = "received" /\ s.more = TRUE /\ s.raw = <<>> /\ s.size = r.size
        /\ s.body = body /\ s.line = m[1][2] /\ s.bytes = n
    BY <1>1, <2>1 DEF Receivers
  <2>4. s \in Receivers(m)
    <3>1. <<>> \in Seq(Units(m))
      OBVIOUS
    <3> QED BY <1>1, <2>1, <2>2, <3>1 DEF Receivers
  <2>5. ReceiverInv(s, m, n)
    BY <1>1, <2>3, <2>4 DEF ReceiverInv
  <2>6. Whole(r, m) /\ n = Len(m) => Whole(s, m)
    BY <1>1, <1>3, <2>2, <2>3 DEF Whole
  <2> QED BY <2>3, <2>5, <2>6 DEF s
<1> QED BY <1>2, <1>3

(* readReceive has returned. A message that has come whole and unspoiled    *)
(* when its first readReceive returns stays whole.                          *)
LEMMA AfterReadInv ==
  ASSUME NEW m, Message(m), NEW n \in 0..Len(m),
         NEW r, ReceiverInv(r, m, n), r.verdict = "reading"
  PROVE  LET s == AfterRead(r)
         IN /\ ReceiverInv(s, m, n)
            /\ s.verdict = "reading" => s.more
            /\ r.more => s.verdict \in {"reading", "received"}
            /\ n = Len(m) =>
                 /\ ~r.more /\ r.raw = m =>
                      /\ s.verdict = "failed" => EndOfHeader(m) = 0
                      /\ s.more => Whole(s, m)
                 /\ r.more /\ Whole(r, m) => Whole(s, m)
<1>1. r.more \in BOOLEAN
  BY DEF ReceiverInv, Receivers
<1>2. CASE r.more = TRUE
  BY <1>2, AfterNextReadInv DEF AfterRead
<1>3. CASE r.more = FALSE
  BY <1>3, AfterFirstReadInv DEF AfterRead
<1> QED BY <1>1, <1>2, <1>3

(* select or read has failed.                                               *)
LEMMA ReadFailedInv ==
  ASSUME NEW m, NEW n, NEW r, ReceiverInv(r, m, n)
  PROVE  ReadFailed(r) \in Receivers(m) /\ ReadFailed(r).verdict = "failed"
<1>1. r \in Receivers(m) /\ r.bytes \in Int /\ r.bytes - 1 \in Int
  BY DEF ReceiverInv, Receivers
<1> QED BY <1>1 DEF ReadFailed, Receivers

-----------------------------------------------------------------------------
(***************************************************************************)
(* Reads                                                                   *)
(***************************************************************************)
(* What is sent and not yet read when b units of m are sent and a are read, *)
(* and how much of it one read takes.                                       *)
Waiting(m, a, b) == SubSeq(m, a + 1, b)
Taken(m, a, b) == Min({BufferSize, Len(Waiting(m, a, b))})

(* A read takes the next units of the message.                              *)
LEMMA ReadPart ==
  ASSUME NEW m, Message(m), NEW a \in Nat, NEW b \in Nat, a <= b, b <= Len(m)
  PROVE  /\ Waiting(m, a, b) = <<>> <=> a = b
         /\ Waiting(m, a, b) # <<>> =>
              /\ Taken(m, a, b) \in Nat \ {0} /\ a + Taken(m, a, b) <= b
              /\ SubSeq(Waiting(m, a, b), 1, Taken(m, a, b)) =
                   SubSeq(m, a + 1, a + Taken(m, a, b))
<1> DEFINE unread == Waiting(m, a, b)
           n == Taken(m, a, b)
<1>1. \A i \in 1..Len(m) : m[i] \in Units(m)
  BY MessageType, ElementOfSeq
<1>2. /\ unread \in Seq(Units(m)) /\ Len(unread) = b - a
      /\ \A i \in 1..(b - a) : unread[i] = m[a + i]
  <2>1. a + 1 \in Int /\ b \in Int /\ \A i \in (a + 1)..b : m[i] \in Units(m)
    BY <1>1
  <2>2. /\ unread \in Seq(Units(m))
        /\ Len(unread) = IF a + 1 <= b THEN b - (a + 1) + 1 ELSE 0
        /\ \A i \in 1..(b - (a + 1) + 1) : unread[i] = m[(a + 1) + i - 1]
    BY <2>1, SubSeqProperties DEF Waiting
  <2>3. b - (a + 1) + 1 = b - a /\ \A i \in 1..(b - a) : (a + 1) + i - 1 = a + i
    OBVIOUS
  <2> QED BY <2>2, <2>3
<1> HIDE DEF unread
<1>3. unread = <<>> <=> a = b
  BY <1>2, EmptySeq
<1>4. ASSUME unread # <<>>
      PROVE  /\ n \in Nat \ {0} /\ a + n <= b
             /\ SubSeq(unread, 1, n) = SubSeq(m, a + 1, a + n)
  <2>1. Len(unread) \in Nat \ {0} /\ BufferSize \in Nat \ {0}
    BY <1>2, <1>4, EmptySeq, BufferSizeAssumption
  <2>2. n \in Nat \ {0} /\ n <= Len(unread)
    BY <2>1, MinOfTwo DEF Taken, unread
  <2> HIDE DEF n
  <2>3. a + n <= b
    BY <1>2, <2>1, <2>2
  <2>4. /\ SubSeq(unread, 1, n) \in Seq(Units(m)) /\ Len(SubSeq(unread, 1, n)) = n
        /\ \A i \in 1..n : SubSeq(unread, 1, n)[i] = unread[i]
    <3>1. \A i \in 1..n : unread[i] \in Units(m)
      BY <1>2, <2>2, ElementOfSeq
    <3> QED BY <2>2, <3>1, SubSeqProperties
  <2>5. /\ SubSeq(m, a + 1, a + n) \in Seq(Units(m)) /\ Len(SubSeq(m, a + 1, a + n)) = n
        /\ \A i \in 1..n : SubSeq(m, a + 1, a + n)[i] = m[a + i]
    <3>1. a + 1 \in Int /\ a + n \in Int /\ \A i \in (a + 1)..(a + n) : m[i] \in Units(m)
      BY <1>1, <2>2, <2>3, MessageType
    <3>2. /\ SubSeq(m, a + 1, a + n) \in Seq(Units(m))
          /\ Len(SubSeq(m, a + 1, a + n)) =
               IF a + 1 <= a + n THEN (a + n) - (a + 1) + 1 ELSE 0
          /\ \A i \in 1..((a + n) - (a + 1) + 1) :
               SubSeq(m, a + 1, a + n)[i] = m[(a + 1) + i - 1]
      BY <3>1, SubSeqProperties
    <3>3. (a + n) - (a + 1) + 1 = n /\ \A i \in 1..n : (a + 1) + i - 1 = a + i
      BY <2>2
    <3> QED BY <2>2, <3>2, <3>3
  <2>6. \A i \in 1..n : i \in 1..(b - a)
    BY <2>2, <2>3
  <2>7. \A i \in 1..n : SubSeq(unread, 1, n)[i] = SubSeq(m, a + 1, a + n)[i]
    BY <1>2, <2>4, <2>5, <2>6
  <2> QED BY <2>2, <2>3, <2>4, <2>5, <2>7, SeqEqual
<1> QED BY <1>3, <1>4 DEF unread

(* All of m as a part of it.                                                *)
LEMMA WholePart ==
  ASSUME NEW m, Message(m)
  PROVE  SubSeq(m, 1, Len(m)) = m
<1>1. m \in Seq(Units(m)) /\ Len(m) \in Nat /\ \A i \in 1..Len(m) : m[i] \in Units(m)
  BY MessageType, ElementOfSeq
<1>2. /\ SubSeq(m, 1, Len(m)) \in Seq(Units(m)) /\ Len(SubSeq(m, 1, Len(m))) = Len(m)
      /\ \A i \in 1..Len(m) : SubSeq(m, 1, Len(m))[i] = m[i]
  BY <1>1, SubSeqProperties
<1> QED BY <1>1, <1>2, SeqEqual
=============================================================================
