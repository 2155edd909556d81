--------------------------------- MODULE Web ---------------------------------
(***************************************************************************)
(* Receiving an HTTP message (class Web::Web), used by the server for      *)
(* requests and by the client for responses.                               *)
(*                                                                         *)
(* A message is a sequence of units: the first line, header lines, the     *)
(* blank line (its CR and its LF are units of their own, since a read may  *)
(* end between them) and the bytes of the body. A unit counts as one byte. *)
(* A receiver is a record; the operators give the record after one round   *)
(* of readReceive's loop, and after readReceive has returned.              *)
(***************************************************************************)
EXTENDS Integers, Sequences, FiniteSetsExt

CONSTANTS
  BufferSize,   \* BUFFER_SIZE
  Junk,         \* a Content-Length or a status code that is no number
  NoField       \* a header field that is not there

ASSUME BufferSizeAssumption == BufferSize \in Nat \ {0}

First(line) == <<"first", line>>                \* request or status line
Field(key, value) == <<"field", key, value>>    \* "key: value\r\n"
NoColon == <<"nocolon">>                        \* a line without a colon
CR == <<"\r">>
LF == <<"\n">>
X  == <<"x">>                                   \* any other byte of a body
Stray == <<"stray">>                            \* what follows the buffer

(* What a peer sends: it begins with a line, and stoi makes an integer of   *)
(* its Content-Length or throws.                                            *)
Message(m) ==
  /\ m \in Seq(Range(m)) /\ m # <<>>
  /\ Stray \notin Range(m)
  /\ \A i \in 2..Len(m) : m[i][1] = "field" /\ m[i][2] = "Content-Length"
                          => m[i][3] \in Int \cup {Junk}

(***************************************************************************)
(* parseReceive                                                            *)
(***************************************************************************)
(* Stray bytes become part of the line behind them.                         *)
StartsLine(raw, i) == raw[i - 1] # Stray

(* The line that consists of '\r' ends the header, 0 if there is none.      *)
EndOfHeader(raw) ==
  LET ends == {i \in 2..Len(raw) : raw[i] = CR /\ StartsLine(raw, i)}
  IN IF ends = {} THEN 0 ELSE Min(ends)

(* header[key] = value: a later line replaces an earlier one, a line with   *)
(* no colon is ignored.                                                     *)
parseHeaderLine(raw, end, key) ==
  LET lines == {i \in 2..(end - 1) : /\ raw[i][1] = "field"
                                     /\ raw[i][2] = key
                                     /\ StartsLine(raw, i)}
  IN IF lines = {} THEN NoField ELSE raw[Max(lines)][3]

(* getline drops the '\n' of each line and parseBodyLine appends one, also  *)
(* to a last line that had none.                                            *)
parseBodyLine(body, text) ==
  IF text = <<>> THEN body
  ELSE body \o text \o (IF text[Len(text)] = LF THEN <<>> ELSE <<LF>>)

(* What is left of raw behind the line that ends the header.                *)
BehindHeader(raw, end) ==
  LET blank == end < Len(raw) /\ raw[end + 1] = LF
  IN SubSeq(raw, IF blank THEN end + 2 ELSE end + 1, Len(raw))

(***************************************************************************)
(* receive                                                                 *)
(***************************************************************************)
(* A receiver. verdict is "reading" until receive returns; then it is       *)
(* "received", "failed", or "thrown" when stoi throws.                      *)
NewReceiver ==
  [verdict |-> "reading",
   more    |-> FALSE,      \* is this the continued read?
   raw     |-> <<>>,       \* bufferString
   bytes   |-> 0,          \* _bytesRead
   size    |-> -1,         \* messageSize
   line    |-> NoField,    \* headerLine
   reboot  |-> FALSE,      \* is there an AutoReboot field?
   body    |-> <<>>]

(* One round of readReceive that reads text. A full buffer has no          *)
(* terminating zero, so append may go on behind it.                         *)
ReadRound(r, text) ==
  {[r EXCEPT !.raw = @ \o text \o behind, !.bytes = @ + Len(text)] :
     behind \in IF Len(text) = BufferSize THEN {<<>>, <<Stray>>} ELSE {<<>>}}

(* select or read failed: readReceive returns false.                        *)
ReadFailed(r) == [r EXCEPT !.verdict = "failed", !.bytes = @ - 1]

(* Is the 100 Continue sent when the first readReceive has returned?        *)
SendsContinue(r) ==
  LET end == EndOfHeader(r.raw)
  IN ~r.more /\ end # 0 /\ parseHeaderLine(r.raw, end, "Expect") = "100-continue"

(* What parseReceive finds when the first readReceive has returned true.    *)
ContentLength(r) == parseHeaderLine(r.raw, EndOfHeader(r.raw), "Content-Length")
ParsedHeader(r) ==
  [r EXCEPT !.line = r.raw[1][2],
            !.reboot = parseHeaderLine(r.raw, EndOfHeader(r.raw), "AutoReboot") # NoField]
BodyOf(raw) == parseBodyLine(<<>>, BehindHeader(raw, EndOfHeader(raw)))

(* Is there more to come than what was read, counting the header?           *)
Short(r) == ContentLength(r) # NoField /\ ContentLength(r) > r.bytes

(* receive goes on behind the first readReceive. The last line of the body  *)
(* of a message that is not yet complete may go on: its LF is taken back.   *)
AfterFirstRead(r) ==
  CASE EndOfHeader(r.raw) = 0 -> [r EXCEPT !.verdict = "failed"]
    [] EndOfHeader(r.raw) # 0 /\ ContentLength(r) = Junk ->
         [ParsedHeader(r) EXCEPT !.verdict = "thrown"]
    [] OTHER ->
         [ParsedHeader(r) EXCEPT
            !.verdict = IF Short(r) \/ SendsContinue(r) THEN "reading" ELSE "received",
            !.more    = TRUE,
            !.raw     = <<>>,
            !.size    = IF Short(r) THEN ContentLength(r) ELSE -1,
            !.body    = IF Short(r) /\ BodyOf(r.raw) # <<>>
                        THEN SubSeq(BodyOf(r.raw), 1, Len(BodyOf(r.raw)) - 1)
                        ELSE BodyOf(r.raw)]

(* Mutant: the loop ends only at exactly Content-Length bytes.              *)
AfterNextRead_Exact(r) ==
  IF r.size # -1 /\ r.bytes # r.size
  THEN r
  ELSE [r EXCEPT !.verdict = "received", !.raw = <<>>, !.body = parseBodyLine(@, r.raw)]

(* readReceive has returned true in the loop of the continued read.         *)
AfterNextRead(r) ==
  IF r.size # -1 /\ r.bytes < r.size
  THEN r
  ELSE [r EXCEPT !.verdict = "received", !.raw = <<>>, !.body = parseBodyLine(@, r.raw)]

(* Mutant: the line break parseBodyLine has appended is always taken back.   *)
AfterRead_Popped(r) ==
  LET after == IF r.more THEN AfterNextRead(r) ELSE AfterFirstRead(r)
  IN IF after.body = <<>> THEN after
     ELSE [after EXCEPT !.body = SubSeq(@, 1, Len(@) - 1)]

(* readReceive has returned true.                                           *)
AfterRead(r) == IF r.more THEN AfterNextRead(r) ELSE AfterFirstRead(r)
=============================================================================
