--------------------------- MODULE WebServerProofs ---------------------------
(***************************************************************************)
(* Proofs about WebServer, for every set of clients, whatever they send    *)
(* and in whatever pieces, and for every buffer size.                      *)
(***************************************************************************)
EXTENDS WebServer, WebProofs, FiniteSetTheorems

-----------------------------------------------------------------------------
(***************************************************************************)
(* The inductive invariant                                                 *)
(***************************************************************************)
Codes == {100, 200, 400, 404, 500}

Connections == [up : BOOLEAN, sent : Nat, read : Nat,
                gone : {"no", "closed", "reset", "served"}]

(* The types the proofs need; TypeOK follows.                               *)
TypeInv ==
  /\ world \in Worlds
  /\ pc \in {"start", "accept", "read", "route", "install", "reboot", "respond",
             "close", "stopped", "rebooted", "dead", "crashed"}
  /\ queue \in Seq(Clients) /\ cur \in Clients
  /\ rcv \in Receivers(Request[cur])
  /\ code \in {200, 400, 404, 500}
  /\ conn \in [Clients -> Connections]
  /\ \A c \in Clients : conn[c].read <= conn[c].sent /\ conn[c].sent <= Len(Request[c])
  /\ got \in [Clients -> Seq(Codes)]
  /\ DOMAIN handled = Clients
  /\ \A c \in Clients : handled[c] \in Seq(Receivers(Request[c])) /\ Len(handled[c]) <= 1
  /\ marred \subseteq Clients

(* The server works on the connection cur.                                  *)
Serving == pc \in {"read", "route", "install", "reboot", "respond", "close"}

(* Nothing has happened on the connection of c yet.                         *)
Untouched(c) == got[c] = <<>> /\ handled[c] = <<>> /\ conn[c].read = 0

(* A connection is accepted once: it is not yet there, waits in the queue   *)
(* in one place, is served, or is closed for good.                          *)
QueueInv ==
  /\ \A c \in Clients : ~conn[c].up /\ conn[c].gone = "no" =>
       Untouched(c) /\ c \notin Range(queue) /\ (Serving => c # cur)
  /\ \A i \in DOMAIN queue : Untouched(queue[i]) /\ conn[queue[i]].up
  /\ \A i, j \in DOMAIN queue : queue[i] = queue[j] => i = j
  /\ Serving => conn[cur].up /\ cur \notin Range(queue)

(* The request on cur while it is received.                                 *)
ReadInv ==
  pc \in {"read", "route"} =>
    /\ ReceiverInv(rcv, Request[cur], conn[cur].read)
    /\ rcv.verdict = IF pc = "read" THEN "reading" ELSE "received"
    /\ handled[cur] = <<>> /\ Final(cur) = {}
    /\ ~rcv.more => got[cur] = <<>>

(* What a request that is not marred has become: it was read whole, or its  *)
(* client has closed before it sent everything.                             *)
CutOff(c) == ~Sent(c) /\ conn[c].gone # "no"

WholeInv ==
  /\ pc = "read" /\ ~rcv.more /\ cur \notin marred =>
       rcv.raw = SubSeq(Request[cur], 1, conn[cur].read)
  /\ pc \in {"read", "route"} /\ rcv.more /\ cur \notin marred =>
       CutOff(cur) \/ (conn[cur].read = Len(Request[cur]) /\ Whole(rcv, Request[cur]))
  /\ \A c \in Clients : Was(c) /\ c \notin marred =>
       CutOff(c) \/ handled[c][1].body = WholeBody(c)

(* What a handler was given.                                                *)
HandledInv ==
  \A c \in Clients : Was(c) => /\ HeaderEnd(c) \in 1..conn[c].read
                              /\ handled[c][1].line = Request[c][1][2]

(* An installation has begun, and has not answered yet.                     *)
InstallInv ==
  pc \in {"install", "crashed"} =>
    handled[cur] = <<rcv>> /\ rcv.line.path = "/os" /\ Final(cur) = {}

(* The number of answers, and who may be answered without a handler.        *)
AnswerInv ==
  /\ pc = "reboot" => Was(cur) /\ Reboots(cur) /\ Cardinality(Final(cur)) <= 1
  /\ pc \in {"reboot", "respond"} => \A i \in Final(cur) : got[cur][i] = code
  /\ pc = "respond" =>
       /\ Final(cur) = {} \/ (Was(cur) /\ Reboots(cur) /\ Cardinality(Final(cur)) <= 1)
       /\ ~Was(cur) /\ Routable(cur) /\ conn[cur].gone = "no" => cur \in marred
  /\ \A c \in Clients : Final(c) # {} /\ ~Was(c) /\ Routable(c) => c \in marred
  /\ AnsweredOnce

IInv == TypeInv /\ QueueInv /\ ReadInv /\ WholeInv /\ HandledInv /\ InstallInv
        /\ AnswerInv /\ EndsOnlyByRequest

-----------------------------------------------------------------------------
(***************************************************************************)
(* What one step does to the connections                                   *)
(***************************************************************************)
(* What a client sends is a message.                                        *)
LEMMA RequestFacts ==
  ASSUME TypeInv, NEW c \in Clients
  PROVE  /\ Message(Request[c]) /\ Len(Request[c]) \in Nat
         /\ conn[c] \in Connections /\ conn[c].read \in Nat /\ conn[c].sent \in Nat
         /\ conn[c].read <= conn[c].sent /\ conn[c].sent <= Len(Request[c])
<1>1. world \in Worlds /\ conn[c] \in Connections
  BY DEF TypeInv
<1>2. Message(Request[c])
  BY <1>1, ServerAssumption DEF Request
<1> QED BY <1>1, <1>2, MessageType DEF TypeInv, Connections

(* A message written to cur arrives at a live client, and is lost           *)
(* otherwise: the program may end then.                                     *)
LEMMA WriteEffect ==
  ASSUME TypeInv, NEW message, NEW next, Write(cur, message, next)
  PROVE  /\ conn' \in [Clients -> Connections]
         /\ \A c \in Clients : /\ conn'[c].up = conn[c].up /\ conn'[c].sent = conn[c].sent
                               /\ conn'[c].read = conn[c].read
                               /\ conn'[c].gone = "no" <=> conn[c].gone = "no"
                               /\ Lost(c) => conn'[c].gone \in {"closed", "reset"}
         /\ \/ /\ conn[cur].gone = "no" /\ pc' = next
               /\ got' = [got EXCEPT ![cur] = Append(got[cur], message)]
            \/ /\ conn[cur].gone # "no" /\ pc' \in {next, "dead"}
               /\ got' = got
               /\ pc' = "dead" => conn'[cur].gone = "reset"
<1>1. cur \in Clients /\ conn \in [Clients -> Connections]
  BY DEF TypeInv
<1>2. CASE conn[cur].gone = "no"
  BY <1>1, <1>2 DEF Write, Lost
<1>3. CASE conn[cur].gone = "closed"
  BY <1>1, <1>3 DEF Write, Lost, Connections
<1>4. CASE conn[cur].gone = "reset"
  BY <1>1, <1>4 DEF Write, Lost
<1> QED BY <1>2, <1>3, <1>4 DEF Write

(* Which steps write to cur.                                                *)
WriteSteps == \/ ReadEnds \/ InstallReturns \/ RebootToDefaultPartition \/ ExitToShell
              \/ SendResponse

(* A step of a client, and what it leaves alone.                            *)
ClientStep(c) == Connect(c) \/ Send(c) \/ Close(c) \/ Abort(c)

(* What a read takes from the connection.                                   *)
LEMMA ReadDataEffect ==
  ASSUME TypeInv, ReadData
  PROVE  \E n \in Nat \ {0} :
           /\ conn[cur].read + n <= conn[cur].sent
           /\ rcv' \in ReadRound(rcv, SubSeq(Request[cur], conn[cur].read + 1,
                                             conn[cur].read + n))
           /\ conn' = [conn EXCEPT ![cur].read = conn[cur].read + n]
           /\ marred' = IF n = BufferSize THEN marred \cup {cur} ELSE marred
<1> DEFINE m == Request[cur]
           a == conn[cur].read
           b == conn[cur].sent
           unread == Waiting(m, a, b)
           n == Taken(m, a, b)
<1>1. Message(m) /\ a \in Nat /\ b \in Nat /\ a <= b /\ b <= Len(m)
  BY RequestFacts DEF TypeInv
<1>2. /\ unread # <<>>
      /\ rcv' \in ReadRound(rcv, SubSeq(unread, 1, n))
      /\ conn' = [conn EXCEPT ![cur].read = a + n]
      /\ marred' = IF n = BufferSize THEN marred \cup {cur} ELSE marred
  BY DEF ReadData, Unread, Waiting, Taken
<1> HIDE DEF m, a, b
<1>3. /\ n \in Nat \ {0} /\ a + n <= b
      /\ SubSeq(unread, 1, n) = SubSeq(m, a + 1, a + n)
  BY <1>1, <1>2, ReadPart
<1> HIDE DEF n, unread
<1> QED BY <1>2, <1>3 DEF m, a, b

(* How the connections change: what was sent and read only grows, and a     *)
(* client that has given up sends no more.                                  *)
LEMMA ConnSteps ==
  ASSUME TypeInv, [Next]_vars
  PROVE  /\ world' = world
         /\ conn' \in [Clients -> Connections]
         /\ \A c \in Clients :
              /\ conn[c].read <= conn'[c].read /\ conn[c].sent <= conn'[c].sent
              /\ conn'[c].read <= conn'[c].sent /\ conn'[c].sent <= Len(Request[c])
              /\ conn[c].gone # "no" => conn'[c].gone # "no" /\ conn'[c].sent = conn[c].sent
              /\ conn'[c].read = conn[c].read \/ (ReadData /\ c = cur)
              /\ conn'[c].up = conn[c].up \/ Connect(c) \/ (CloseConnection /\ c = cur)
<1> DEFINE Grows(c) ==
             /\ conn[c].read <= conn'[c].read /\ conn[c].sent <= conn'[c].sent
             /\ conn'[c].read <= conn'[c].sent /\ conn'[c].sent <= Len(Request[c])
             /\ conn[c].gone # "no" => conn'[c].gone # "no" /\ conn'[c].sent = conn[c].sent
             /\ conn'[c].read = conn[c].read \/ (ReadData /\ c = cur)
             /\ conn'[c].up = conn[c].up \/ Connect(c) \/ (CloseConnection /\ c = cur)
           Goal == conn' \in [Clients -> Connections] /\ \A c \in Clients : Grows(c)
<1>1. cur \in Clients /\ conn \in [Clients -> Connections]
  BY DEF TypeInv
<1>2. \A c \in Clients :
        /\ Len(Request[c]) \in Nat /\ conn[c] \in Connections
        /\ conn[c].read \in Nat /\ conn[c].sent \in Nat
        /\ conn[c].read <= conn[c].sent /\ conn[c].sent <= Len(Request[c])
  BY RequestFacts
<1>3. world' = world
  BY DEF Next, vars
<1> SUFFICES Goal
  BY <1>3
<1>4. \A c \in Clients : conn'[c] = conn[c] => Grows(c)
  BY <1>2
<1>5. ASSUME conn' = conn PROVE Goal
  BY <1>1, <1>4, <1>5
<1> HIDE DEF Grows
<1>6. ASSUME NEW c \in Clients, NEW v \in Connections,
             conn' = [conn EXCEPT ![c] = v], Grows(c)
      PROVE  Goal
  <2>1. conn' \in [Clients -> Connections] /\ \A d \in Clients \ {c} : conn'[d] = conn[d]
    BY <1>1, <1>6
  <2> QED BY <1>4, <1>6, <2>1
<1> HIDE DEF Goal
<1>7. ASSUME NEW c \in Clients, Connect(c) \/ Close(c) \/ Abort(c) PROVE Goal
  <2>1. conn[c].gone = "no" /\ conn[c] \in Connections
    BY <1>2, <1>7 DEF Connect, Close, Abort
  <2>2. PICK v \in Connections :
          /\ conn' = [conn EXCEPT ![c] = v]
          /\ v.read = conn[c].read /\ v.sent = conn[c].sent
          /\ v.up = conn[c].up \/ Connect(c)
    <3>1. CASE Connect(c)
      <4>1. conn' = [conn EXCEPT ![c] = [conn[c] EXCEPT !.up = TRUE]]
        BY <3>1 DEF Connect
      <4>2. [conn[c] EXCEPT !.up = TRUE] \in Connections
        BY <2>1 DEF Connections
      <4> QED BY <2>1, <3>1, <4>1, <4>2 DEF Connections
    <3>2. ASSUME NEW how \in {"closed", "reset"},
                 conn' = [conn EXCEPT ![c].gone = how]
          PROVE  \E v \in Connections : /\ conn' = [conn EXCEPT ![c] = v]
                                        /\ v.read = conn[c].read /\ v.sent = conn[c].sent
                                        /\ v.up = conn[c].up
      <4>1. [conn[c] EXCEPT !.gone = how] \in Connections
        BY <2>1 DEF Connections
      <4> QED BY <2>1, <3>2, <4>1 DEF Connections
    <3> QED BY <1>7, <3>1, <3>2 DEF Close, Abort
  <2>3. conn'[c] = v
    BY <1>1, <2>2
  <2>4. Grows(c)
    BY <1>2, <2>1, <2>2, <2>3 DEF Grows
  <2> QED BY <1>6, <2>2, <2>4
<1>8. ASSUME NEW c \in Clients, Send(c) PROVE Goal
  <2>1. PICK n \in 1..(Len(Request[c]) - conn[c].sent) :
          conn[c].gone = "no" /\ conn' = [conn EXCEPT ![c].sent = conn[c].sent + n]
    BY <1>8 DEF Send
  <2>2. conn[c].sent + n \in Nat /\ conn[c].sent + n <= Len(Request[c]) /\ n >= 1
    BY <1>2, <2>1
  <2> DEFINE v == [conn[c] EXCEPT !.sent = conn[c].sent + n]
  <2>3. v \in Connections /\ v.sent = conn[c].sent + n /\ v.read = conn[c].read
        /\ v.up = conn[c].up
    BY <1>2, <2>2 DEF Connections
  <2>4. conn' = [conn EXCEPT ![c] = v]
    BY <2>1
  <2> HIDE DEF v
  <2>5. conn'[c] = v
    BY <1>1, <2>4
  <2>6. Grows(c)
    BY <1>2, <2>1, <2>2, <2>3, <2>5 DEF Grows
  <2> QED BY <1>6, <2>3, <2>4, <2>6
<1>9. CASE ReadData
  <2>1. PICK n \in Nat \ {0} :
          /\ conn[cur].read + n <= conn[cur].sent
          /\ conn' = [conn EXCEPT ![cur].read = conn[cur].read + n]
    BY <1>9, ReadDataEffect
  <2> DEFINE v == [conn[cur] EXCEPT !.read = conn[cur].read + n]
  <2>2. conn[cur].read + n \in Nat
    BY <1>1, <1>2
  <2>3. /\ v \in Connections /\ v.sent = conn[cur].sent /\ v.read = conn[cur].read + n
        /\ v.gone = conn[cur].gone /\ v.up = conn[cur].up
    BY <1>1, <1>2, <2>2 DEF Connections
  <2>4. conn' = [conn EXCEPT ![cur] = v]
    BY <2>1
  <2> HIDE DEF v
  <2>5. conn'[cur] = v
    BY <1>1, <2>4
  <2>6. Grows(cur)
    BY <1>1, <1>2, <1>9, <2>1, <2>2, <2>3, <2>5 DEF Grows
  <2> QED BY <1>1, <1>6, <2>3, <2>4, <2>6
<1>10. ASSUME NEW message, NEW next, Write(cur, message, next) PROVE Goal
  <2>1. conn' \in [Clients -> Connections]
    BY <1>10, WriteEffect
  <2>2. \A c \in Clients : /\ conn'[c].sent = conn[c].sent /\ conn'[c].read = conn[c].read
                           /\ conn'[c].up = conn[c].up
                           /\ conn'[c].gone = "no" <=> conn[c].gone = "no"
    BY <1>10, WriteEffect
  <2>3. \A c \in Clients : Grows(c)
    BY <1>2, <2>2 DEF Grows
  <2> QED BY <2>1, <2>3 DEF Goal
<1>11. CASE CloseConnection
  <2> DEFINE v == [conn[cur] EXCEPT !.up = FALSE, !.gone = "served"]
  <2>1. conn' = [conn EXCEPT ![cur] = v]
    BY <1>1, <1>11 DEF CloseConnection
  <2>2. /\ v \in Connections /\ v.sent = conn[cur].sent /\ v.read = conn[cur].read
        /\ v.gone = "served"
    BY <1>1, <1>2 DEF Connections
  <2> HIDE DEF v
  <2>3. conn'[cur] = v
    BY <1>1, <2>1
  <2>4. Grows(cur)
    BY <1>1, <1>2, <1>11, <2>2, <2>3 DEF Grows
  <2> QED BY <1>1, <1>6, <2>1, <2>2, <2>4
<1>12. CASE WriteSteps
  BY <1>5, <1>10, <1>12
  DEF WriteSteps, ReadEnds, InstallReturns, RebootToDefaultPartition, ExitToShell, SendResponse
<1>13. CASE \/ UNCHANGED vars \/ Listen \/ Accept \/ ReadError \/ Refuse
            \/ InstallOS \/ InstallEndsProgram \/ SetDefaultBootPartition
            \/ BootIntoPartition
  BY <1>5, <1>13 DEF vars, net, Listen, Accept, ReadError, Refuse, InstallOS,
                     InstallEndsProgram, SetDefaultBootPartition, BootIntoPartition
<1> QED
  BY <1>7, <1>8, <1>9, <1>11, <1>12, <1>13
  DEF Next, Server, Receive, Serve, WriteSteps

-----------------------------------------------------------------------------
(***************************************************************************)
(* What one step does to the other variables                               *)
(***************************************************************************)
USE DEF Next, Server, Receive, Serve, vars, net, Goto,
        Connect, Send, Close, Abort, Listen, Accept, ReadData, ReadError, ReadEnds,
        Refuse, Called, InstallOS, InstallReturns, InstallEndsProgram,
        SetDefaultBootPartition, RebootToDefaultPartition, ExitToShell,
        BootIntoPartition, SendResponse, CloseConnection

(* Only Accept and Connect touch the queue, and only Accept changes cur.    *)
LEMMA QueueSteps ==
  ASSUME [Next]_vars
  PROVE  /\ cur' = cur \/ Accept
         /\ queue' = queue \/ Accept \/ \E c \in Clients : Connect(c)
OBVIOUS

(* The receiver is made by Accept and works while the request is read.      *)
LEMMA RcvSteps ==
  ASSUME [Next]_vars
  PROVE  /\ rcv' = rcv \/ Accept \/ ReadData \/ ReadError \/ ReadEnds
         /\ marred' = marred \/ ReadData \/ ReadEnds
OBVIOUS

(* The status codes.                                                        *)
LEMMA CodeSteps ==
  ASSUME [Next]_vars
  PROVE  code' \in {code, 200, 400, 404, 500}
OBVIOUS

(* A handler is called with the receiver of cur, where it was routed.       *)
LEMMA HandledSteps ==
  ASSUME [Next]_vars
  PROVE  \/ handled' = handled
         \/ /\ pc = "route" /\ rcv.line.good
            /\ \E i \in DOMAIN Routes : Matches(Routes[i], rcv.line)
            /\ handled' = [handled EXCEPT ![cur] = Append(handled[cur], rcv)]
            /\ rcv' = rcv /\ cur' = cur /\ marred' = marred
OBVIOUS

(* What is written to a connection, and when.                               *)
LEMMA GotSteps ==
  ASSUME TypeInv, [Next]_vars
  PROVE  \/ got' = got
         \/ /\ conn[cur].gone = "no" /\ cur' = cur
            /\ \/ /\ ReadEnds /\ SendsContinue(rcv)
                  /\ got' = [got EXCEPT ![cur] = Append(got[cur], 100)]
               \/ /\ pc \in {"route", "install"} /\ pc' \in {"reboot", "stopped"}
                  /\ code' = 200
                  /\ got' = [got EXCEPT ![cur] = Append(got[cur], 200)]
               \/ /\ SendResponse /\ pc' = "close"
                  /\ got' = [got EXCEPT ![cur] = Append(got[cur], code)]
<1>1. CASE WriteSteps
  BY <1>1, WriteEffect DEF WriteSteps
<1>2. CASE ~WriteSteps
  BY <1>2 DEF WriteSteps
<1> QED BY <1>1, <1>2

(* The answers in what was written to a client; see Final.                  *)
AnswersIn(messages) == {i \in DOMAIN messages : messages[i] # 100}

(* How they grow.                                                           *)
LEMMA AnswersAppend ==
  ASSUME NEW s \in Seq(Codes), NEW message \in Codes
  PROVE  LET t == Append(s, message)
         IN /\ Cardinality(AnswersIn(s)) \in Nat
            /\ AnswersIn(s) = {} => Cardinality(AnswersIn(s)) = 0
            /\ message = 100 => AnswersIn(t) = AnswersIn(s)
            /\ message # 100 =>
                 /\ AnswersIn(t) # {}
                 /\ Cardinality(AnswersIn(t)) = Cardinality(AnswersIn(s)) + 1
<1> DEFINE t == Append(s, message)
           n == Len(s)
<1>1. /\ n \in Nat /\ DOMAIN s = 1..n
      /\ DOMAIN t = 1..(n + 1) /\ t[n + 1] = message /\ \A i \in 1..n : t[i] = s[i]
  OBVIOUS
<1>2. IsFiniteSet(AnswersIn(s)) /\ n + 1 \notin AnswersIn(s)
  <2>1. AnswersIn(s) \in SUBSET (1..n)
    BY <1>1 DEF AnswersIn
  <2>2. IsFiniteSet(1..n)
    BY <1>1, FS_Interval
  <2> QED BY <1>1, <2>1, <2>2, FS_Subset
<1> HIDE DEF t, n
<1>3. message = 100 => AnswersIn(t) = AnswersIn(s)
  BY <1>1 DEF AnswersIn
<1>4. message # 100 => AnswersIn(t) = AnswersIn(s) \cup {n + 1}
  BY <1>1 DEF AnswersIn
<1>5. Cardinality(AnswersIn(s)) \in Nat /\ (AnswersIn(s) = {} => Cardinality(AnswersIn(s)) = 0)
  BY <1>2, FS_CardinalityType, FS_EmptySet
<1>6. Cardinality(AnswersIn(s) \cup {n + 1}) = Cardinality(AnswersIn(s)) + 1
  BY <1>2, FS_AddElement
<1> QED BY <1>3, <1>4, <1>5, <1>6 DEF t

(* Where the server goes on behind a read.                                  *)
LEMMA ResumeCases ==
  ASSUME NEW r, r.verdict \in {"reading", "received", "failed", "thrown"}
  PROVE  /\ Resume(r) \in {"read", "route", "respond", "dead"}
         /\ Resume(r) = "read" <=> r.verdict = "reading"
         /\ Resume(r) = "route" <=> r.verdict = "received"
         /\ Resume(r) = "respond" <=> r.verdict = "failed"
         /\ Resume(r) = "dead" <=> r.verdict = "thrown"
BY DEF Resume

(* The request on cur when a read begins or ends.                           *)
LEMMA ReadingFacts ==
  ASSUME IInv, pc = "read"
  PROVE  /\ cur \in Clients /\ Message(Request[cur])
         /\ conn[cur].read \in 0..Len(Request[cur])
         /\ ReceiverInv(rcv, Request[cur], conn[cur].read)
         /\ rcv.verdict = "reading" /\ rcv.more \in BOOLEAN
         /\ handled[cur] = <<>> /\ Final(cur) = {} /\ (~rcv.more => got[cur] = <<>>)
         /\ conn[cur].up
<1>1. TypeInv /\ cur \in Clients
  BY DEF IInv, TypeInv
<1>2. /\ Message(Request[cur]) /\ conn[cur].read \in 0..Len(Request[cur])
  BY <1>1, RequestFacts
<1>3. /\ ReceiverInv(rcv, Request[cur], conn[cur].read)
      /\ rcv.verdict = "reading"
      /\ handled[cur] = <<>> /\ Final(cur) = {} /\ (~rcv.more => got[cur] = <<>>)
  BY DEF IInv, ReadInv
<1>4. conn[cur].up
  BY DEF IInv, QueueInv, Serving
<1> QED BY <1>1, <1>2, <1>3, <1>4 DEF ReceiverInv, Receivers

(* A round of readReceive.                                                  *)
LEMMA ReadDataInv ==
  ASSUME IInv, ReadData
  PROVE  /\ ReceiverInv(rcv', Request[cur], conn'[cur].read)
         /\ rcv'.verdict = "reading" /\ rcv'.more = rcv.more
         /\ conn[cur].read < conn[cur].sent /\ marred \subseteq marred' /\ marred' \subseteq Clients
         /\ /\ rcv.raw = SubSeq(Request[cur], 1, conn[cur].read)
            /\ cur \notin marred'
            => rcv'.raw = SubSeq(Request[cur], 1, conn'[cur].read)
<1>1. TypeInv /\ cur \in Clients /\ conn \in [Clients -> Connections] /\ marred \subseteq Clients
  BY DEF IInv, TypeInv
<1>2. PICK n \in Nat \ {0} :
        /\ conn[cur].read + n <= conn[cur].sent
        /\ rcv' \in ReadRound(rcv, SubSeq(Request[cur], conn[cur].read + 1,
                                          conn[cur].read + n))
        /\ conn' = [conn EXCEPT ![cur].read = conn[cur].read + n]
        /\ marred' = IF n = BufferSize THEN marred \cup {cur} ELSE marred
  BY <1>1, ReadDataEffect
<1> DEFINE m == Request[cur]
           a == conn[cur].read
<1>3. Message(m) /\ a \in Nat /\ conn[cur].sent \in Nat /\ conn[cur].sent <= Len(m)
      /\ Len(m) \in Nat /\ conn[cur] \in Connections
  BY <1>1, RequestFacts
<1>4. ReceiverInv(rcv, m, a) /\ rcv.verdict = "reading"
  BY ReadingFacts
<1>5. a + n <= Len(m) /\ a < conn[cur].sent
  BY <1>2, <1>3
<1>6. conn'[cur].read = a + n
  BY <1>1, <1>2, <1>3 DEF Connections
<1>7. rcv' \in ReadRound(rcv, SubSeq(m, a + 1, a + n))
  BY <1>2
<1> HIDE DEF m, a
<1>8. /\ ReceiverInv(rcv', m, a + n)
      /\ rcv'.verdict = "reading" /\ rcv'.more = rcv.more
      /\ rcv.raw = SubSeq(m, 1, a) /\ n # BufferSize => rcv'.raw = SubSeq(m, 1, a + n)
  BY <1>3, <1>4, <1>5, <1>7, ReadRoundInv
<1>9. marred \subseteq marred' /\ marred' \subseteq Clients /\ (cur \notin marred' => n # BufferSize)
  BY <1>1, <1>2
<1> QED BY <1>5, <1>6, <1>8, <1>9 DEF m, a

(* readReceive has returned.                                                *)
LEMMA ReadEndsInv ==
  ASSUME IInv, ReadEnds
  PROVE  LET m == Request[cur]
             n == conn[cur].read
         IN /\ conn[cur].read = conn[cur].sent
            /\ ReceiverInv(rcv', m, n)
            /\ rcv'.verdict \in {"reading", "received", "failed", "thrown"}
            /\ rcv'.verdict = "reading" => rcv'.more
            /\ rcv.more => rcv'.verdict \in {"reading", "received"}
            /\ n = Len(m) =>
                 /\ ~rcv.more /\ rcv.raw = m =>
                      /\ rcv'.verdict = "failed" => EndOfHeader(m) = 0
                      /\ rcv'.more => Whole(rcv', m)
                 /\ rcv.more /\ Whole(rcv, m) => Whole(rcv', m)
            /\ pc' \in {Resume(rcv'), "dead"}
            /\ pc' = "dead" => rcv'.verdict = "thrown" \/ conn'[cur].gone = "reset"
<1>1. TypeInv /\ cur \in Clients
  BY DEF IInv, TypeInv
<1> DEFINE m == Request[cur]
           n == conn[cur].read
<1>2. /\ Message(m) /\ n \in 0..Len(m) /\ ReceiverInv(rcv, m, n)
      /\ rcv.verdict = "reading" /\ rcv' = AfterRead(rcv)
  BY ReadingFacts
<1>3. n = conn[cur].sent
  <2>1. Waiting(m, n, conn[cur].sent) = <<>>
    BY DEF Unread, Waiting
  <2>2. /\ n \in Nat /\ conn[cur].sent \in Nat /\ n <= conn[cur].sent
        /\ conn[cur].sent <= Len(m)
    BY <1>1, RequestFacts
  <2> HIDE DEF m, n
  <2> QED BY <1>2, <2>1, <2>2, ReadPart
<1> HIDE DEF m, n
<1>4. /\ ReceiverInv(rcv', m, n)
      /\ rcv'.verdict = "reading" => rcv'.more
      /\ rcv.more => rcv'.verdict \in {"reading", "received"}
      /\ n = Len(m) =>
           /\ ~rcv.more /\ rcv.raw = m =>
                /\ rcv'.verdict = "failed" => EndOfHeader(m) = 0
                /\ rcv'.more => Whole(rcv', m)
           /\ rcv.more /\ Whole(rcv, m) => Whole(rcv', m)
  BY <1>2, AfterReadInv
<1>5. rcv'.verdict \in {"reading", "received", "failed", "thrown"}
  BY <1>4 DEF ReceiverInv, Receivers
<1>6. /\ pc' \in {Resume(rcv'), "dead"}
      /\ pc' = "dead" => rcv'.verdict = "thrown" \/ conn'[cur].gone = "reset"
  <2>1. CASE SendsContinue(rcv)
    <3>1. Write(cur, 100, Resume(rcv'))
      BY <2>1
    <3> QED BY <1>1, <1>5, <3>1, WriteEffect, ResumeCases
  <2>2. CASE ~SendsContinue(rcv)
    BY <1>5, <2>2, ResumeCases
  <2> QED BY <2>1, <2>2
<1> QED BY <1>3, <1>4, <1>5, <1>6 DEF m, n

(* Nothing happens to what is being served.                                 *)
Quiet == UNCHANGED <<pc, cur, rcv, code, got, handled, marred>>

(* How the server gets where it is.                                         *)
LEMMA PcSteps ==
  ASSUME IInv, [Next]_vars
  PROVE  /\ pc' = "read" => Quiet \/ Accept \/ ReadData \/ ReadEnds
         /\ pc' = "route" => Quiet \/ ReadEnds
         /\ pc' = "install" => Quiet \/ InstallOS
         /\ pc' = "crashed" => Quiet \/ InstallEndsProgram
         /\ pc' = "reboot" => Quiet \/ InstallReturns \/ RebootToDefaultPartition
         /\ pc' = "respond" =>
              Quiet \/ ReadError \/ ReadEnds \/ Refuse \/ InstallReturns
                    \/ SetDefaultBootPartition \/ BootIntoPartition
         /\ pc' = "close" => Quiet \/ SendResponse
         /\ pc' \in {"start", "accept", "read", "route", "install", "reboot", "respond",
                     "close", "stopped", "rebooted", "dead", "crashed"}
<1>1. TypeInv
  BY DEF IInv
<1>2. CASE ReadEnds
  BY <1>2, ReadEndsInv, ResumeCases
<1>3. CASE WriteSteps /\ ~ReadEnds
  BY <1>1, <1>3, WriteEffect DEF WriteSteps
<1>4. CASE ~WriteSteps
  BY <1>1, <1>4 DEF WriteSteps, Quiet, TypeInv
<1> QED BY <1>2, <1>3, <1>4

HIDE DEF Next, Server, Receive, Serve, vars, net, Goto,
         Connect, Send, Close, Abort, Listen, Accept, ReadData, ReadError, ReadEnds,
         Refuse, Called, InstallOS, InstallReturns, InstallEndsProgram,
         SetDefaultBootPartition, RebootToDefaultPartition, ExitToShell,
         BootIntoPartition, SendResponse, CloseConnection

-----------------------------------------------------------------------------
(***************************************************************************)
(* The invariant is inductive                                              *)
(***************************************************************************)
(* Types.                                                                   *)
LEMMA TypeStep == IInv /\ [Next]_vars => TypeInv'
<1> SUFFICES ASSUME IInv, [Next]_vars PROVE TypeInv'
  OBVIOUS
<1>1. TypeInv
  BY DEF IInv
<1>2. /\ world' = world /\ world' \in Worlds /\ conn' \in [Clients -> Connections]
      /\ \A c \in Clients : conn'[c].read <= conn'[c].sent /\ conn'[c].sent <= Len(Request[c])
  BY <1>1, ConnSteps DEF TypeInv
<1>3. /\ pc' \in {"start", "accept", "read", "route", "install", "reboot", "respond",
                  "close", "stopped", "rebooted", "dead", "crashed"}
      /\ code' \in {200, 400, 404, 500}
  BY <1>1, PcSteps, CodeSteps DEF TypeInv
<1>4. queue' \in Seq(Clients) /\ cur' \in Clients
  <2>1. CASE Accept
    <3>1. queue # <<>> /\ cur' = Head(queue) /\ queue' = Tail(queue) /\ queue \in Seq(Clients)
      BY <1>1, <2>1 DEF Accept, TypeInv
    <3> QED BY <3>1
  <2>2. ASSUME NEW c \in Clients, Connect(c) PROVE queue' \in Seq(Clients)
    <3>1. queue' = Append(queue, c) /\ queue \in Seq(Clients)
      BY <1>1, <2>2 DEF Connect, TypeInv
    <3> QED BY <3>1
  <2> QED BY <1>1, <2>1, <2>2, QueueSteps DEF TypeInv
<1>5. rcv' \in Receivers(Request[cur'])
  <2>1. CASE Accept
    <3>1. rcv' = NewReceiver /\ Message(Request[cur'])
      BY <1>1, <1>4, <2>1, RequestFacts DEF Accept
    <3> QED BY <3>1, NewReceiverInv DEF ReceiverInv
  <2>2. CASE ReadData
    BY <2>2, ReadDataInv DEF ReceiverInv, ReadData
  <2>3. CASE ReadEnds
    BY <2>3, ReadEndsInv DEF ReceiverInv, ReadEnds
  <2>4. CASE ReadError
    <3>1. rcv' = ReadFailed(rcv) /\ cur' = cur /\ pc = "read"
      BY <2>4 DEF ReadError, Goto
    <3>2. ReceiverInv(rcv, Request[cur], conn[cur].read)
      BY <3>1, ReadingFacts
    <3> QED BY <3>1, <3>2, ReadFailedInv
  <2>5. CASE rcv' = rcv /\ cur' = cur
    BY <1>1, <2>5 DEF TypeInv
  <2> QED BY <2>1, <2>2, <2>3, <2>4, <2>5, RcvSteps, QueueSteps
<1>6. got' \in [Clients -> Seq(Codes)]
  <2>1. ASSUME NEW message \in Codes, got' = [got EXCEPT ![cur] = Append(got[cur], message)]
        PROVE  got' \in [Clients -> Seq(Codes)]
    <3>1. cur \in Clients /\ got \in [Clients -> Seq(Codes)] /\ got[cur] \in Seq(Codes)
      BY <1>1 DEF TypeInv
    <3>2. Append(got[cur], message) \in Seq(Codes)
      BY <3>1
    <3> QED BY <2>1, <3>1, <3>2
  <2>2. code \in Codes /\ 100 \in Codes /\ 200 \in Codes
    BY <1>1 DEF TypeInv, Codes
  <2>3. \/ got' = got
        \/ \E message \in Codes : got' = [got EXCEPT ![cur] = Append(got[cur], message)]
    BY <1>1, <2>2, GotSteps
  <2>4. got \in [Clients -> Seq(Codes)]
    BY <1>1 DEF TypeInv
  <2> QED BY <2>1, <2>3, <2>4
<1>7. /\ DOMAIN handled' = Clients
      /\ \A c \in Clients :
           handled'[c] \in Seq(Receivers(Request[c])) /\ Len(handled'[c]) <= 1
  <2>1. CASE handled' = handled
    BY <1>1, <2>1 DEF TypeInv
  <2>2. CASE /\ pc = "route"
             /\ handled' = [handled EXCEPT ![cur] = Append(handled[cur], rcv)]
    <3>1. /\ cur \in Clients /\ DOMAIN handled = Clients /\ handled[cur] = <<>>
          /\ rcv \in Receivers(Request[cur])
      BY <1>1, <2>2 DEF TypeInv, IInv, ReadInv
    <3>2. handled'[cur] = <<rcv>> /\ \A c \in Clients \ {cur} : handled'[c] = handled[c]
      BY <2>2, <3>1
    <3>3. <<rcv>> \in Seq(Receivers(Request[cur])) /\ Len(<<rcv>>) = 1
      BY <3>1
    <3>4. DOMAIN handled' = Clients
      BY <2>2, <3>1
    <3>5. \A c \in Clients :
            handled[c] \in Seq(Receivers(Request[c])) /\ Len(handled[c]) <= 1
      BY <1>1 DEF TypeInv
    <3>6. handled'[cur] \in Seq(Receivers(Request[cur])) /\ Len(handled'[cur]) <= 1
      BY <3>2, <3>3
    <3> QED BY <3>1, <3>2, <3>4, <3>5, <3>6
  <2> QED BY <2>1, <2>2, HandledSteps
<1>8. marred' \subseteq Clients
  BY <1>1, RcvSteps, ReadDataInv DEF TypeInv, ReadEnds
<1> QED BY <1>2, <1>3, <1>4, <1>5, <1>6, <1>7, <1>8 DEF TypeInv, Request

(* Connections and queue.                                                   *)
LEMMA QueueStep == IInv /\ [Next]_vars => QueueInv'
<1> SUFFICES ASSUME IInv, [Next]_vars PROVE QueueInv'
  OBVIOUS
<1>1. /\ TypeInv /\ cur \in Clients /\ queue \in Seq(Clients)
      /\ \A i \in DOMAIN queue : queue[i] \in Clients
  BY DEF IInv, TypeInv
<1>2. \A c \in Clients :
        /\ conn'[c].gone = "no" => conn[c].gone = "no"
        /\ conn'[c].read = conn[c].read \/ (ReadData /\ c = cur)
        /\ conn'[c].up = conn[c].up \/ Connect(c) \/ (CloseConnection /\ c = cur)
  BY <1>1, ConnSteps
<1>3. ASSUME NEW c \in Clients, Untouched(c), Serving => c # cur
      PROVE  Untouched(c)'
  <2>1. conn'[c].read = conn[c].read
    BY <1>2, <1>3 DEF Serving, ReadData
  <2>2. got'[c] = got[c]
    BY <1>1, <1>3, GotSteps DEF Serving, ReadEnds, SendResponse, TypeInv
  <2>3. handled'[c] = handled[c]
    BY <1>1, <1>3, HandledSteps DEF Serving, TypeInv
  <2> QED BY <1>3, <2>1, <2>2, <2>3 DEF Untouched
<1>4. Serving' => Serving \/ Accept
  BY PcSteps
  DEF Serving, Quiet, ReadData, ReadEnds, ReadError, Refuse, InstallOS, InstallReturns, Called,
      Goto, SetDefaultBootPartition, RebootToDefaultPartition, BootIntoPartition, SendResponse
<1>5. /\ \A c \in Clients : ~conn[c].up /\ conn[c].gone = "no" =>
           Untouched(c) /\ c \notin Range(queue) /\ (Serving => c # cur)
      /\ \A i \in DOMAIN queue : Untouched(queue[i]) /\ conn[queue[i]].up
      /\ \A i, j \in DOMAIN queue : queue[i] = queue[j] => i = j
      /\ Serving => conn[cur].up /\ cur \notin Range(queue)
  BY DEF IInv, QueueInv
<1>6. CASE Accept
  <2>1. /\ queue # <<>> /\ cur' = Head(queue) /\ queue' = Tail(queue)
        /\ UNCHANGED <<conn, got, handled>> /\ ~Serving
    BY <1>6 DEF Accept, Goto, Serving
  <2>2. /\ cur' = queue[1] /\ 1 \in DOMAIN queue
        /\ \A i \in DOMAIN queue' : i + 1 \in DOMAIN queue /\ queue'[i] = queue[i + 1]
        /\ \A i \in DOMAIN queue' : i \in Nat /\ i # 0
    BY <1>1, <2>1
  <2>3. Range(queue') \subseteq Range(queue) /\ cur' \notin Range(queue')
    BY <1>5, <2>2 DEF Range
  <2>4. \A c \in Clients : Untouched(c) => Untouched(c)'
    BY <2>1 DEF Untouched
  <2>5. \A c \in Clients : ~conn'[c].up /\ conn'[c].gone = "no" =>
           Untouched(c)' /\ c \notin Range(queue') /\ c # cur'
    BY <1>5, <2>1, <2>2, <2>3, <2>4
  <2>6. \A i \in DOMAIN queue' : Untouched(queue[i])' /\ conn'[queue'[i]].up
    BY <1>5, <2>1, <2>2 DEF Untouched
  <2>7. \A i, j \in DOMAIN queue' : queue'[i] = queue'[j] => i = j
    BY <1>5, <2>2
  <2>8. conn'[cur'].up
    BY <1>5, <2>1, <2>2
  <2> QED BY <2>3, <2>5, <2>6, <2>7, <2>8 DEF QueueInv
<1>7. ASSUME NEW c \in Clients, Connect(c) PROVE QueueInv'
  <2>1. /\ queue' = Append(queue, c) /\ ~conn[c].up /\ conn[c].gone = "no"
        /\ UNCHANGED <<pc, cur, got, handled>>
        /\ conn' = [conn EXCEPT ![c].up = TRUE]
    BY <1>7 DEF Connect
  <2>2. /\ Untouched(c) /\ c \notin Range(queue) /\ (Serving => c # cur)
    BY <1>5, <2>1
  <2>3. /\ conn'[c].up /\ conn'[c].read = conn[c].read
        /\ \A d \in Clients \ {c} : conn'[d] = conn[d]
    BY <1>1, <2>1 DEF TypeInv, Connections
  <2>4. \A d \in Clients : Untouched(d) => Untouched(d)'
    BY <2>1, <2>3 DEF Untouched
  <2>5. /\ DOMAIN queue = 1..Len(queue) /\ Len(queue) \in Nat
        /\ DOMAIN queue' = 1..(Len(queue) + 1) /\ queue'[Len(queue) + 1] = c
        /\ \A i \in DOMAIN queue : queue'[i] = queue[i]
    BY <1>1, <2>1
  <2>6. Range(queue') = Range(queue) \cup {c}
    BY <2>5 DEF Range
  <2>7. \A d \in Clients : ~conn'[d].up /\ conn'[d].gone = "no" =>
           Untouched(d)' /\ d \notin Range(queue') /\ (Serving' => d # cur')
    BY <1>5, <2>1, <2>3, <2>4, <2>6 DEF Serving
  <2>8. \A i \in DOMAIN queue' :
          \/ i = Len(queue) + 1 /\ queue'[i] = c
          \/ i \in DOMAIN queue /\ queue'[i] = queue[i]
    BY <2>5
  <2>9. \A i \in DOMAIN queue' : Untouched(queue[i])' /\ conn'[queue'[i]].up
    BY <1>1, <1>5, <2>1, <2>2, <2>3, <2>8 DEF Untouched
  <2>10. \A i, j \in DOMAIN queue' : queue'[i] = queue'[j] => i = j
    BY <1>5, <2>2, <2>8 DEF Range
  <2>11. Serving' => conn'[cur'].up /\ cur' \notin Range(queue')
    BY <1>1, <1>5, <2>1, <2>2, <2>3, <2>6 DEF Serving
  <2> QED BY <2>7, <2>9, <2>10, <2>11 DEF QueueInv
<1>8. CASE ~Accept /\ ~\E c \in Clients : Connect(c)
  <2>1. cur' = cur /\ queue' = queue /\ (Serving' => Serving)
    BY <1>4, <1>8, QueueSteps
  <2>2. CloseConnection => ~Serving' /\ Serving /\ conn'[cur].gone = "served"
    BY <1>1 DEF CloseConnection, Goto, Serving, TypeInv, Connections
  <2>3. \A c \in Clients : ~conn'[c].up /\ conn'[c].gone = "no" =>
           ~conn[c].up /\ conn[c].gone = "no"
    BY <1>2, <1>8, <2>2
  <2>4. \A c \in Clients : ~conn'[c].up /\ conn'[c].gone = "no" =>
           Untouched(c)' /\ c \notin Range(queue') /\ (Serving' => c # cur')
    BY <1>3, <1>5, <2>1, <2>3
  <2>5. \A i \in DOMAIN queue' : Untouched(queue[i])' /\ conn'[queue'[i]].up
    <3> SUFFICES ASSUME NEW i \in DOMAIN queue
                 PROVE  Untouched(queue[i])' /\ conn'[queue[i]].up
      BY <2>1
    <3>1. queue[i] \in Clients /\ queue[i] \in Range(queue) /\ (Serving => queue[i] # cur)
      BY <1>1, <1>5 DEF Range
    <3>2. Untouched(queue[i]) /\ conn[queue[i]].up
      BY <1>5
    <3>3. conn'[queue[i]].up = conn[queue[i]].up
      BY <1>2, <1>8, <2>2, <3>1
    <3>4. \A c \in Clients : Untouched(c) /\ (Serving => c # cur) => Untouched(c)'
      BY <1>3
    <3> QED BY <2>1, <3>1, <3>2, <3>3, <3>4 DEF Untouched
  <2>6. Serving' => conn'[cur'].up /\ cur' \notin Range(queue')
    BY <1>1, <1>2, <1>5, <1>8, <2>1, <2>2
  <2> QED BY <1>5, <2>1, <2>4, <2>5, <2>6 DEF QueueInv
<1> QED BY <1>6, <1>7, <1>8

(* What is being received.                                                  *)
LEMMA ReadStep == IInv /\ [Next]_vars => ReadInv'
<1> SUFFICES ASSUME IInv, [Next]_vars PROVE ReadInv'
  OBVIOUS
<1> SUFFICES ASSUME pc' \in {"read", "route"}
             PROVE  /\ ReceiverInv(rcv', Request[cur'], conn'[cur'].read)
                    /\ rcv'.verdict = IF pc' = "read" THEN "reading" ELSE "received"
                    /\ handled'[cur'] = <<>> /\ Final(cur)' = {}
                    /\ ~rcv'.more => got'[cur'] = <<>>
  <2>1. world' = world
    BY ConnSteps DEF IInv
  <2> QED BY <2>1 DEF ReadInv, Request
<1>1. TypeInv /\ cur \in Clients
  BY DEF IInv, TypeInv
<1>2. \A c \in Clients : conn'[c].read = conn[c].read \/ (ReadData /\ c = cur)
  BY <1>1, ConnSteps
<1>3. CASE Quiet /\ ~ReadData
  BY <1>1, <1>2, <1>3 DEF Quiet, IInv, ReadInv, Final
<1>4. CASE Accept
  <2>1. /\ cur' = Head(queue) /\ queue # <<>> /\ rcv' = NewReceiver /\ pc' = "read"
        /\ UNCHANGED <<conn, got, handled>>
    BY <1>4 DEF Accept, Goto
  <2>2. /\ queue[1] = Head(queue) /\ Untouched(queue[1]) /\ Head(queue) \in Clients
    BY <1>1, <2>1 DEF IInv, QueueInv, TypeInv
  <2>3. Message(Request[cur'])
    BY <1>1, <2>1, <2>2, RequestFacts
  <2>4. /\ ReceiverInv(NewReceiver, Request[cur'], 0) /\ NewReceiver.verdict = "reading"
    BY <2>3, NewReceiverInv
  <2>5. Final(cur)' = {}
    BY <2>1, <2>2 DEF Final, Untouched
  <2> QED BY <2>1, <2>2, <2>4, <2>5 DEF Untouched
<1>5. CASE ReadData
  <2>1. pc = "read" /\ pc' = "read" /\ cur' = cur /\ got' = got /\ handled' = handled
    BY <1>5 DEF ReadData
  <2> QED BY <1>5, <2>1, ReadDataInv, ReadingFacts DEF Final
<1>6. CASE ReadEnds
  <2>1. pc = "read" /\ cur' = cur /\ handled' = handled
    BY <1>6 DEF ReadEnds
  <2>2. /\ ReceiverInv(rcv', Request[cur], conn'[cur].read)
        /\ rcv'.verdict = IF pc' = "read" THEN "reading" ELSE "received"
        /\ rcv'.more
    <3>1. conn'[cur].read = conn[cur].read
      BY <1>1, <1>2, <1>6 DEF ReadData, ReadEnds
    <3>2. /\ ReceiverInv(rcv', Request[cur], conn[cur].read)
          /\ pc' = Resume(rcv')
          /\ rcv'.verdict \in {"reading", "received", "failed", "thrown"}
          /\ rcv'.verdict = "reading" => rcv'.more
      BY <1>6, ReadEndsInv
    <3>3. rcv'.verdict = IF pc' = "read" THEN "reading" ELSE "received"
      BY <3>2, ResumeCases
    <3> QED BY <3>1, <3>2, <3>3 DEF ReceiverInv
  <2>3. Final(cur)' = {}
    <3>1. CASE got' = got
      BY <2>1, <3>1, ReadingFacts DEF Final
    <3>2. CASE got' = [got EXCEPT ![cur] = Append(got[cur], 100)]
      <4>1. got'[cur] = Append(got[cur], 100) /\ got[cur] \in Seq(Codes)
        BY <1>1, <3>2 DEF TypeInv
      <4>2. AnswersIn(got'[cur]) = AnswersIn(got[cur])
        BY <4>1, AnswersAppend DEF Codes
      <4>3. AnswersIn(got[cur]) = {}
        BY <2>1, ReadingFacts DEF Final, AnswersIn
      <4> QED BY <2>1, <4>2, <4>3 DEF Final, AnswersIn
    <3> QED BY <1>1, <1>6, <2>1, <3>1, <3>2, GotSteps DEF SendResponse
  <2> QED BY <2>1, <2>2, <2>3, ReadingFacts
<1> QED BY <1>3, <1>4, <1>5, <1>6, PcSteps

(* A client that has closed before it sent everything stays so.             *)
LEMMA CutOffKept ==
  ASSUME TypeInv, [Next]_vars, NEW c \in Clients, CutOff(c)
  PROVE  CutOff(c)'
<1>1. /\ world' = world /\ conn[c].gone # "no" /\ conn[c].sent # Len(Request[c])
      /\ conn'[c].gone # "no" /\ conn'[c].sent = conn[c].sent
  BY ConnSteps DEF CutOff, Sent
<1> QED BY <1>1 DEF CutOff, Sent, Request

(* A marred request stays marred.                                           *)
LEMMA MarredKept ==
  ASSUME IInv, [Next]_vars
  PROVE  marred \subseteq marred'
BY RcvSteps, ReadDataInv DEF ReadEnds

(* A handler is called once for a request, with a receiver that has read    *)
(* the whole header.                                                        *)
LEMMA HandledEffect ==
  ASSUME IInv, [Next]_vars, NEW c \in Clients
  PROVE  \/ handled'[c] = handled[c]
         \/ /\ c = cur /\ pc = "route" /\ handled[c] = <<>> /\ handled'[c] = <<rcv>>
            /\ rcv.verdict = "received" /\ rcv.more
            /\ HeaderEnd(c) \in 1..conn[c].read /\ rcv.line = Request[c][1][2]
<1>1. TypeInv /\ cur \in Clients /\ DOMAIN handled = Clients
  BY DEF IInv, TypeInv
<1>2. CASE handled' = handled
  BY <1>2
<1>3. CASE /\ pc = "route"
           /\ handled' = [handled EXCEPT ![cur] = Append(handled[cur], rcv)]
  <2>1. /\ ReceiverInv(rcv, Request[cur], conn[cur].read)
        /\ rcv.verdict = "received" /\ handled[cur] = <<>>
    BY <1>3 DEF IInv, ReadInv
  <2>2. rcv.more /\ HeaderEnd(cur) \in 1..conn[cur].read /\ rcv.line = Request[cur][1][2]
    BY <2>1 DEF ReceiverInv, HeaderEnd
  <2>3. handled'[cur] = <<rcv>> /\ (c # cur => handled'[c] = handled[c])
    BY <1>1, <1>3, <2>1
  <2> QED BY <1>3, <2>1, <2>2, <2>3
<1> QED BY <1>2, <1>3, HandledSteps

(* What becomes of a request that is not marred.                            *)
LEMMA WholeStep == IInv /\ [Next]_vars => WholeInv'
<1> SUFFICES ASSUME IInv, [Next]_vars PROVE WholeInv'
  OBVIOUS
<1>1. TypeInv /\ cur \in Clients
  BY DEF IInv, TypeInv
<1>2. /\ world' = world /\ marred \subseteq marred'
      /\ \A c \in Clients : /\ conn'[c].read = conn[c].read \/ (ReadData /\ c = cur)
                            /\ CutOff(c) => CutOff(c)'
  BY <1>1, ConnSteps, MarredKept, CutOffKept
<1>3. /\ pc = "read" /\ ~rcv.more /\ cur \notin marred =>
           rcv.raw = SubSeq(Request[cur], 1, conn[cur].read)
      /\ pc \in {"read", "route"} /\ rcv.more /\ cur \notin marred =>
           CutOff(cur) \/ (conn[cur].read = Len(Request[cur]) /\ Whole(rcv, Request[cur]))
      /\ \A c \in Clients : Was(c) /\ c \notin marred =>
           CutOff(c) \/ handled[c][1].body = WholeBody(c)
  BY DEF IInv, WholeInv
<1>4. ASSUME Accept
      PROVE  /\ rcv'.more = FALSE
             /\ rcv'.raw = SubSeq(Request[cur'], 1, conn'[cur'].read)
  <2>1. /\ cur' = Head(queue) /\ queue # <<>> /\ rcv' = NewReceiver /\ conn' = conn
    BY <1>4 DEF Accept, Goto
  <2>2. /\ queue[1] = Head(queue) /\ Untouched(queue[1]) /\ Head(queue) \in Clients
    BY <1>1, <2>1 DEF IInv, QueueInv, TypeInv
  <2>3. Message(Request[cur'])
    BY <1>1, <2>1, <2>2, RequestFacts
  <2>4. NewReceiver.raw = SubSeq(Request[cur'], 1, 0) /\ NewReceiver.more = FALSE
    BY <2>3, NewReceiverInv
  <2> QED BY <2>1, <2>2, <2>4 DEF Untouched
<1>5. ASSUME ReadEnds, pc' \in {"read", "route"}
      PROVE  /\ pc = "read" /\ cur' = cur /\ conn'[cur].read = conn[cur].read
             /\ rcv'.more
  <2>1. pc = "read" /\ cur' = cur
    BY <1>5 DEF ReadEnds
  <2>2. conn'[cur].read = conn[cur].read
    BY <1>1, <1>2, <1>5 DEF ReadData, ReadEnds
  <2>3. /\ pc' = Resume(rcv') /\ ReceiverInv(rcv', Request[cur], conn[cur].read)
        /\ rcv'.verdict \in {"reading", "received", "failed", "thrown"}
        /\ rcv'.verdict = "reading" => rcv'.more
    BY <1>5, ReadEndsInv
  <2>4. rcv'.verdict \in {"reading", "received"}
    BY <1>5, <2>3, ResumeCases
  <2> QED BY <2>1, <2>2, <2>3, <2>4 DEF ReceiverInv
<1>6. ASSUME pc' = "read", ~rcv'.more, cur' \notin marred'
      PROVE  rcv'.raw = SubSeq(Request[cur'], 1, conn'[cur'].read)
  <2>1. CASE Accept
    BY <1>4, <2>1
  <2>2. CASE ReadData
    <3>1. pc = "read" /\ cur' = cur /\ rcv'.more = rcv.more
      BY <2>2, ReadDataInv DEF ReadData
    <3> QED BY <1>2, <1>3, <1>6, <2>2, <3>1, ReadDataInv
  <2>3. CASE ReadEnds
    BY <1>5, <1>6, <2>3
  <2>4. CASE Quiet /\ ~ReadData
    BY <1>1, <1>2, <1>3, <1>6, <2>4 DEF Quiet
  <2> QED BY <1>6, <2>1, <2>2, <2>3, <2>4, PcSteps
<1>7. ASSUME pc' \in {"read", "route"}, rcv'.more, cur' \notin marred'
      PROVE  \/ CutOff(cur)'
             \/ conn'[cur'].read = Len(Request[cur']) /\ Whole(rcv', Request[cur'])
  <2>1. CASE Accept
    BY <1>4, <1>7, <2>1
  <2>2. CASE ReadData
    <3>1. pc = "read" /\ cur' = cur /\ rcv.more /\ conn[cur].read < conn[cur].sent
      BY <1>7, <2>2, ReadDataInv DEF ReadData
    <3>2. conn[cur].read # Len(Request[cur])
      BY <1>1, <3>1, RequestFacts
    <3>3. CutOff(cur) /\ CutOff(cur)'
      BY <1>1, <1>2, <1>3, <1>7, <3>1, <3>2
    <3> QED BY <3>3
  <2>3. CASE ReadEnds
    <3>1. /\ pc = "read" /\ cur' = cur /\ cur \notin marred
          /\ conn'[cur].read = conn[cur].read
      BY <1>2, <1>5, <1>7, <2>3
    <3>2. Sent(cur) \/ (~Sent(cur) /\ conn[cur].gone = "closed")
      BY <1>7, <2>3, <3>1 DEF ReadEnds
    <3>3. CASE Sent(cur)
      <4> DEFINE m == Request[cur]
      <4>1. Message(m) /\ conn[cur].read = Len(m)
        BY <1>1, <2>3, <3>3, ReadEndsInv, RequestFacts DEF Sent
      <4>2. ~rcv.more => rcv.raw = m
        BY <1>3, <3>1, <4>1, WholePart
      <4>3. rcv.more => Whole(rcv, m)
        BY <1>3, <3>1, <3>3 DEF CutOff
      <4>4. Whole(rcv', m)
        BY <1>7, <2>3, <4>1, <4>2, <4>3, ReadEndsInv
      <4> QED BY <3>1, <4>1, <4>4
    <3>4. CASE ~Sent(cur) /\ conn[cur].gone = "closed"
      <4>1. CutOff(cur)
        BY <3>4 DEF CutOff
      <4> QED BY <1>1, <1>2, <3>1, <4>1 DEF CutOff, Sent
    <3> QED BY <3>2, <3>3, <3>4
  <2>4. CASE Quiet /\ ~ReadData
    <3>1. /\ pc' = pc /\ cur' = cur /\ rcv' = rcv /\ marred' = marred
          /\ conn'[cur].read = conn[cur].read
      BY <1>1, <1>2, <2>4 DEF Quiet
    <3>2. CASE CutOff(cur)
      BY <1>1, <1>2, <3>1, <3>2 DEF CutOff, Sent
    <3> QED BY <1>3, <1>7, <3>1, <3>2
  <2> QED BY <1>7, <2>1, <2>2, <2>3, <2>4, PcSteps
<1>8. ASSUME NEW c \in Clients, Was(c)', c \notin marred'
      PROVE  CutOff(c)' \/ handled'[c][1].body = WholeBody(c)'
  <2>1. WholeBody(c)' = WholeBody(c) /\ c \notin marred
    BY <1>2, <1>8 DEF WholeBody, Request
  <2>2. CASE handled'[c] = handled[c]
    <3>1. CutOff(c) \/ handled[c][1].body = WholeBody(c)
      BY <1>3, <1>8, <2>1, <2>2 DEF Was
    <3> QED BY <1>2, <2>1, <2>2, <3>1
  <2>3. CASE /\ c = cur /\ pc = "route" /\ handled'[c] = <<rcv>>
             /\ rcv.verdict = "received" /\ rcv.more
    <3>1. CutOff(c) \/ Whole(rcv, Request[c])
      BY <1>3, <2>1, <2>3
    <3>2. Whole(rcv, Request[c]) => rcv.body = WholeBody(c)
      BY <2>3 DEF Whole, WholeBody
    <3>3. handled'[c][1] = rcv
      BY <2>3
    <3> QED BY <1>2, <2>1, <3>1, <3>2, <3>3
  <2> QED BY <2>2, <2>3, HandledEffect
<1> QED BY <1>2, <1>6, <1>7, <1>8 DEF WholeInv, Request

(* What a handler was given.                                                *)
LEMMA HandledStep == IInv /\ [Next]_vars => HandledInv'
<1> SUFFICES ASSUME IInv, [Next]_vars, NEW c \in Clients, Was(c)'
             PROVE  /\ HeaderEnd(c) \in 1..conn'[c].read
                    /\ handled'[c][1].line = Request[c][1][2]
  <2> SUFFICES ASSUME IInv, [Next]_vars PROVE HandledInv'
    OBVIOUS
  <2>1. world' = world
    BY ConnSteps DEF IInv
  <2> QED BY <2>1 DEF HandledInv, HeaderEnd, Request
<1>1. TypeInv
  BY DEF IInv
<1>2. /\ conn[c].read \in Nat /\ conn'[c].read \in Nat
      /\ conn[c].read <= conn'[c].read
  BY <1>1, RequestFacts, ConnSteps DEF Connections
<1>3. HeaderEnd(c) \in 1..conn[c].read => HeaderEnd(c) \in 1..conn'[c].read
  BY <1>2
<1>4. CASE handled'[c] = handled[c]
  <2>1. Was(c)
    BY <1>4 DEF Was
  <2> QED BY <1>3, <1>4, <2>1 DEF IInv, HandledInv
<1>5. CASE /\ handled'[c] = <<rcv>>
           /\ HeaderEnd(c) \in 1..conn[c].read /\ rcv.line = Request[c][1][2]
  BY <1>3, <1>5
<1> QED BY <1>4, <1>5, HandledEffect

(* What is written to a client, and what becomes of its answers.            *)
LEMMA FinalEffect ==
  ASSUME IInv, [Next]_vars, NEW c \in Clients
  PROVE  /\ Cardinality(Final(c)) \in Nat
         /\ \/ got'[c] = got[c] /\ Final(c)' = Final(c)
            \/ /\ c = cur /\ cur' = cur /\ ReadEnds
               /\ got'[c] = <<100>> /\ Final(c)' = Final(c)
            \/ /\ c = cur /\ cur' = cur /\ conn[c].gone = "no"
               /\ \/ pc \in {"route", "install"} /\ Final(c) = {} /\ Was(c)'
                  \/ SendResponse
               /\ \A i \in Final(c)' :
                    got'[c][i] = code' \/ (i \in Final(c) /\ got'[c][i] = got[c][i])
               /\ Final(c)' # {} /\ Cardinality(Final(c)') = Cardinality(Final(c)) + 1
               /\ \A i \in DOMAIN got'[c] : got'[c][i] = 100 =>
                    i \in DOMAIN got[c] /\ got[c][i] = 100
<1>1. /\ TypeInv /\ cur \in Clients /\ got \in [Clients -> Seq(Codes)]
      /\ got[c] \in Seq(Codes) /\ code \in Codes \ {100} /\ DOMAIN handled = Clients
  BY DEF IInv, TypeInv, Codes
<1>2. Final(c) = AnswersIn(got[c]) /\ Final(c)' = AnswersIn(got'[c])
  BY DEF Final, AnswersIn
<1>3. Cardinality(Final(c)) \in Nat
  BY <1>1, <1>2, AnswersAppend DEF Codes
<1>4. ASSUME NEW message \in Codes \ {100},
             got' = [got EXCEPT ![cur] = Append(got[cur], message)], c = cur
      PROVE  /\ Final(c)' # {} /\ Cardinality(Final(c)') = Cardinality(Final(c)) + 1
             /\ \A i \in DOMAIN got'[c] : got'[c][i] = 100 =>
                  i \in DOMAIN got[c] /\ got[c][i] = 100
             /\ \A i \in Final(c)' :
                  got'[c][i] = message \/ (i \in Final(c) /\ got'[c][i] = got[c][i])
  <2>1. got'[c] = Append(got[c], message)
    BY <1>1, <1>4
  <2>2. /\ Final(c)' # {} /\ Cardinality(Final(c)') = Cardinality(Final(c)) + 1
    BY <1>1, <1>2, <2>1, AnswersAppend
  <2>3. /\ Len(got[c]) \in Nat /\ DOMAIN got[c] = 1..Len(got[c])
        /\ DOMAIN got'[c] = 1..(Len(got[c]) + 1) /\ got'[c][Len(got[c]) + 1] = message
        /\ \A i \in 1..Len(got[c]) : got'[c][i] = got[c][i]
    BY <1>1, <2>1
  <2>4. \A i \in Final(c)' :
          got'[c][i] = message \/ (i \in Final(c) /\ got'[c][i] = got[c][i])
    BY <2>3 DEF Final
  <2> QED BY <2>2, <2>3, <2>4
<1>5. CASE got'[c] = got[c]
  BY <1>2, <1>3, <1>5
<1>6. CASE ReadEnds /\ SendsContinue(rcv) /\ cur' = cur /\ c = cur
           /\ got' = [got EXCEPT ![cur] = Append(got[cur], 100)]
  <2>1. got[c] = <<>>
    BY <1>6, ReadingFacts DEF SendsContinue, ReadEnds
  <2>2. got'[c] = Append(got[c], 100)
    BY <1>1, <1>6
  <2>3. Final(c)' = Final(c)
    BY <1>1, <1>2, <2>2, AnswersAppend DEF Codes
  <2> QED BY <1>3, <1>6, <2>1, <2>2, <2>3
<1>7. CASE /\ pc \in {"route", "install"} /\ pc' \in {"reboot", "stopped"}
           /\ code' = 200 /\ c = cur /\ cur' = cur /\ conn[cur].gone = "no"
           /\ got' = [got EXCEPT ![cur] = Append(got[cur], 200)]
  <2>1. Final(c) = {} /\ (pc = "route" => handled[c] = <<>>)
        /\ (pc = "install" => handled[c] = <<rcv>>)
    BY <1>7 DEF IInv, ReadInv, InstallInv
  <2>2. IF pc = "route" THEN handled' = [handled EXCEPT ![cur] = Append(handled[cur], rcv)]
                        ELSE handled' = handled
    BY <1>7, PcSteps
    DEF Next, Server, Receive, Serve, vars, net, Goto, Connect, Send, Close, Abort, Listen,
        Accept, ReadData, ReadError, ReadEnds, Refuse, Called, InstallOS, InstallReturns,
        InstallEndsProgram, BootIntoPartition, SetDefaultBootPartition,
        RebootToDefaultPartition, ExitToShell, SendResponse, CloseConnection
  <2>3. handled'[c] = <<rcv>>
    BY <1>1, <1>7, <2>1, <2>2
  <2>4. Was(c)'
    BY <2>3 DEF Was
  <2>5. 200 \in Codes \ {100}
    BY DEF Codes
  <2>6. /\ Final(c)' # {} /\ Cardinality(Final(c)') = Cardinality(Final(c)) + 1
        /\ \A i \in DOMAIN got'[c] : got'[c][i] = 100 =>
             i \in DOMAIN got[c] /\ got[c][i] = 100
        /\ \A i \in Final(c)' :
             got'[c][i] = 200 \/ (i \in Final(c) /\ got'[c][i] = got[c][i])
    <3>1. c = cur /\ got' = [got EXCEPT ![cur] = Append(got[cur], 200)]
      BY <1>7
    <3> QED BY <1>4, <2>5, <3>1
  <2>7. code' = 200
    BY <1>7
  <2> QED BY <1>3, <1>7, <2>1, <2>4, <2>6, <2>7
<1>8. CASE /\ SendResponse /\ c = cur /\ cur' = cur /\ conn[cur].gone = "no"
           /\ got' = [got EXCEPT ![cur] = Append(got[cur], code)]
  <2>1. code' = code
    BY <1>8 DEF SendResponse
  <2> QED BY <1>1, <1>3, <1>4, <1>8, <2>1
<1> QED BY <1>1, <1>5, <1>6, <1>7, <1>8, GotSteps

(* An installation.                                                         *)
LEMMA InstallStep == IInv /\ [Next]_vars => InstallInv'
<1> SUFFICES ASSUME IInv, [Next]_vars, pc' \in {"install", "crashed"}
             PROVE  handled'[cur'] = <<rcv'>> /\ rcv'.line.path = "/os" /\ Final(cur)' = {}
  BY DEF InstallInv
<1>1. cur \in Clients /\ DOMAIN handled = Clients
  BY DEF IInv, TypeInv
<1>2. CASE Quiet
  <2>1. pc \in {"install", "crashed"}
    BY <1>2 DEF Quiet
  <2> QED BY <1>2, <2>1 DEF Quiet, IInv, InstallInv, Final
<1>3. CASE InstallOS
  <2>1. /\ pc = "route" /\ cur' = cur /\ rcv' = rcv /\ got' = got /\ rcv.line.path = "/os"
        /\ handled' = [handled EXCEPT ![cur] = Append(handled[cur], rcv)]
    BY <1>3 DEF InstallOS, Called, Matches
  <2>2. handled[cur] = <<>> /\ Final(cur) = {}
    BY <2>1 DEF IInv, ReadInv
  <2>3. handled'[cur] = <<rcv>>
    BY <1>1, <2>1, <2>2
  <2> QED BY <2>1, <2>2, <2>3 DEF Final
<1>4. CASE InstallEndsProgram
  BY <1>4 DEF InstallEndsProgram, Goto, IInv, InstallInv, Final
<1> QED BY <1>2, <1>3, <1>4, PcSteps

(* Answers.                                                                 *)
LEMMA AnswerStep == IInv /\ [Next]_vars => AnswerInv'
<1> SUFFICES ASSUME IInv, [Next]_vars PROVE AnswerInv'
  OBVIOUS
<1>1. /\ TypeInv /\ cur \in Clients /\ DOMAIN handled = Clients
  BY DEF IInv, TypeInv
<1>2. /\ world' = world /\ marred \subseteq marred'
      /\ \A c \in Clients : conn'[c].gone = "no" => conn[c].gone = "no"
  BY <1>1, ConnSteps, MarredKept
<1>3. /\ pc = "reboot" => Was(cur) /\ Reboots(cur) /\ Cardinality(Final(cur)) <= 1
      /\ pc \in {"reboot", "respond"} => \A i \in Final(cur) : got[cur][i] = code
      /\ pc = "respond" =>
           /\ Final(cur) = {} \/ (Was(cur) /\ Reboots(cur) /\ Cardinality(Final(cur)) <= 1)
           /\ ~Was(cur) /\ Routable(cur) /\ conn[cur].gone = "no" => cur \in marred
      /\ \A c \in Clients : Final(c) # {} /\ ~Was(c) /\ Routable(c) => c \in marred
      /\ AnsweredOnce
  BY DEF IInv, AnswerInv
<1>4. \A c \in Clients : /\ Was(c) => Was(c)'
                         /\ Was(c) /\ Reboots(c) => Reboots(c)'
                         /\ Routable(c)' = Routable(c)
  BY <1>2, HandledEffect DEF Was, Reboots, Routable, Request, HeaderEnd
<1>5. ASSUME Quiet
      PROVE  /\ pc' = pc /\ cur' = cur /\ marred' = marred /\ Final(cur)' = Final(cur)
             /\ Was(cur)' = Was(cur) /\ Reboots(cur)' = Reboots(cur)
  BY <1>2, <1>5 DEF Quiet, Final, Was, Reboots, Request
<1>6. ASSUME pc = "route"
      PROVE  /\ Final(cur) = {} /\ handled[cur] = <<>> /\ rcv.line = Request[cur][1][2]
  <2>1. /\ ReceiverInv(rcv, Request[cur], conn[cur].read) /\ rcv.verdict = "received"
        /\ Final(cur) = {} /\ handled[cur] = <<>>
    BY <1>6 DEF IInv, ReadInv
  <2> QED BY <2>1 DEF ReceiverInv
<1>7. ASSUME NEW path, Called(path)
      PROVE  /\ pc = "route" /\ cur' = cur /\ rcv.line.path = path
             /\ handled'[cur] = <<rcv>> /\ Was(cur)'
  <2>1. /\ pc = "route" /\ cur' = cur /\ rcv.line.path = path
        /\ handled' = [handled EXCEPT ![cur] = Append(handled[cur], rcv)]
    BY <1>7 DEF Called, Matches
  <2>2. handled'[cur] = <<rcv>>
    BY <1>1, <1>6, <2>1
  <2> QED BY <2>1, <2>2 DEF Was
<1>8. ASSUME pc' = "reboot"
      PROVE  /\ Was(cur)' /\ Reboots(cur)' /\ Cardinality(Final(cur)') <= 1
             /\ \A i \in Final(cur)' : got'[cur'][i] = code'
  <2>1. CASE Quiet
    <3>1. got' = got /\ code' = code
      BY <2>1 DEF Quiet
    <3> QED BY <1>3, <1>5, <1>8, <2>1, <3>1
  <2>2. CASE InstallReturns \/ RebootToDefaultPartition
    <3>1. /\ cur' = cur /\ handled'[cur] = <<rcv>> /\ Was(cur)' /\ Final(cur) = {}
          /\ rcv.reboot \/ Request[cur][1][2].path = "/reboot"
      <4>1. CASE RebootToDefaultPartition
        BY <1>6, <1>7, <4>1 DEF RebootToDefaultPartition
      <4>2. CASE InstallReturns
        <5>1. pc = "install" /\ cur' = cur /\ handled' = handled /\ rcv.reboot
          BY <1>8, <4>2 DEF InstallReturns
        <5>2. handled[cur] = <<rcv>> /\ Final(cur) = {}
          BY <5>1 DEF IInv, InstallInv
        <5> QED BY <5>1, <5>2 DEF Was
      <4> QED BY <2>2, <4>1, <4>2
    <3>2. Reboots(cur)'
      BY <1>2, <3>1 DEF Reboots, Request
    <3>3. Cardinality(Final(cur)) = 0
      BY <3>1, FS_EmptySet
    <3>4. /\ Cardinality(Final(cur)') <= 1
          /\ \A i \in Final(cur)' : got'[cur][i] = code'
      BY <1>1, <3>1, <3>3, FinalEffect
    <3> QED BY <3>1, <3>2, <3>4
  <2> QED BY <1>8, <2>1, <2>2, PcSteps
<1>9. ASSUME pc' = "respond"
      PROVE  /\ Final(cur)' = {} \/ (Was(cur)' /\ Reboots(cur)' /\ Cardinality(Final(cur)') <= 1)
             /\ \A i \in Final(cur)' : got'[cur'][i] = code'
             /\ ~Was(cur)' /\ Routable(cur)' /\ conn'[cur'].gone = "no" => cur' \in marred'
  <2>1. CASE Quiet
    <3>1. got' = got /\ code' = code
      BY <2>1 DEF Quiet
    <3> QED BY <1>1, <1>2, <1>3, <1>4, <1>5, <1>9, <2>1, <3>1
  <2>2. CASE ReadError
    <3>1. pc = "read" /\ cur' = cur /\ conn[cur].gone = "reset" /\ got' = got /\ conn' = conn
      BY <2>2 DEF ReadError, Goto, net
    <3>2. Final(cur)' = {}
      BY <3>1, ReadingFacts DEF Final
    <3> QED BY <3>1, <3>2
  <2>3. CASE ReadEnds
    <3>1. pc = "read" /\ cur' = cur
      BY <2>3 DEF ReadEnds
    <3>2. Final(cur)' = {}
      <4>1. Final(cur) = {}
        BY <3>1, ReadingFacts
      <4>2. Final(cur)' = Final(cur)
        BY <1>1, <3>1, FinalEffect DEF SendResponse
      <4> QED BY <4>1, <4>2
    <3>3. rcv'.verdict = "failed" /\ ~rcv.more
      BY <1>9, <2>3, ReadEndsInv, ResumeCases
    <3>4. ASSUME conn'[cur].gone = "no", cur \notin marred' PROVE ~Routable(cur)
      <4>1. cur \notin marred /\ Sent(cur)
        BY <1>1, <1>2, <2>3, <3>4 DEF ReadEnds
      <4>2. Message(Request[cur]) /\ conn[cur].read = Len(Request[cur])
        BY <1>1, <2>3, <4>1, ReadEndsInv, RequestFacts DEF Sent
      <4>3. rcv.raw = Request[cur]
        BY <3>1, <3>3, <4>1, <4>2, WholePart DEF IInv, WholeInv
      <4>4. EndOfHeader(Request[cur]) = 0
        BY <2>3, <3>3, <4>2, <4>3, ReadEndsInv
      <4> QED BY <4>4 DEF Routable, HeaderEnd
    <3> QED BY <1>1, <1>4, <3>1, <3>2, <3>4
  <2>4. CASE Refuse
    <3>1. /\ pc = "route" /\ cur' = cur /\ got' = got
          /\ ~(rcv.line.good /\ \E i \in DOMAIN Routes : Matches(Routes[i], rcv.line))
      BY <2>4 DEF Refuse, Goto
    <3>2. Final(cur)' = {} /\ ~Routable(cur)
      BY <1>6, <3>1 DEF Final, Routable
    <3> QED BY <1>1, <1>4, <3>1, <3>2
  <2>5. CASE InstallReturns \/ SetDefaultBootPartition
    <3>1. cur' = cur /\ Was(cur)' /\ Final(cur) = {}
      <4>1. CASE SetDefaultBootPartition
        BY <1>6, <1>7, <4>1 DEF SetDefaultBootPartition
      <4>2. CASE InstallReturns
        <5>1. pc = "install" /\ cur' = cur /\ handled' = handled
          BY <4>2 DEF InstallReturns
        <5>2. handled[cur] = <<rcv>> /\ Final(cur) = {}
          BY <5>1 DEF IInv, InstallInv
        <5> QED BY <5>1, <5>2 DEF Was
      <4> QED BY <2>5, <4>1, <4>2
    <3>2. got' = got
      <4>1. ASSUME InstallReturns, Write(cur, 200, "reboot") PROVE FALSE
        BY <1>1, <1>9, <4>1, WriteEffect
      <4> QED BY <2>5, <4>1 DEF InstallReturns, SetDefaultBootPartition
    <3> QED BY <3>1, <3>2 DEF Final
  <2>6. CASE BootIntoPartition
    <3>1. pc = "reboot" /\ cur' = cur /\ got' = got /\ handled' = handled /\ code' = code
      BY <2>6 DEF BootIntoPartition
    <3>2. Final(cur)' = Final(cur) /\ Was(cur)' /\ Reboots(cur)'
      BY <1>1, <1>3, <1>4, <3>1 DEF Final, Was, Reboots, Request
    <3> QED BY <1>3, <3>1, <3>2
  <2> QED BY <1>9, <2>1, <2>2, <2>3, <2>4, <2>5, <2>6, PcSteps
<1>10. ASSUME NEW c \in Clients, Final(c)' # {}, ~Was(c)', Routable(c)' PROVE c \in marred'
  <2>1. ~Was(c) /\ Routable(c)
    BY <1>4, <1>10
  <2>2. CASE Final(c)' = Final(c)
    BY <1>2, <1>3, <1>10, <2>1, <2>2
  <2>3. CASE SendResponse /\ c = cur /\ conn[c].gone = "no"
    BY <1>2, <1>3, <2>1, <2>3 DEF SendResponse
  <2> QED BY <1>10, <2>2, <2>3, FinalEffect
<1>11. ASSUME NEW c \in Clients
       PROVE  /\ Len(handled'[c]) <= 1
              /\ Cardinality(Final(c)') <= IF Was(c)' /\ Reboots(c)' THEN 2 ELSE 1
              /\ \A i, j \in Final(c)' : got'[c][i] = got'[c][j]
              /\ \A i \in DOMAIN got'[c] : got'[c][i] = 100 => i = 1
  <2>1. Len(handled'[c]) <= 1
    BY TypeStep DEF TypeInv
  <2>2. /\ Cardinality(Final(c)) <= IF Was(c) /\ Reboots(c) THEN 2 ELSE 1
        /\ \A i, j \in Final(c) : got[c][i] = got[c][j]
        /\ \A i \in DOMAIN got[c] : got[c][i] = 100 => i = 1
    BY <1>3 DEF AnsweredOnce
  <2>3. Was(c) /\ Reboots(c) => Was(c)' /\ Reboots(c)'
    BY <1>4
  <2>4. Cardinality(Final(c)) \in Nat
    BY FinalEffect
  <2>5. CASE got'[c] = got[c] /\ Final(c)' = Final(c)
    BY <2>1, <2>2, <2>3, <2>4, <2>5
  <2>6. CASE got'[c] = <<100>> /\ Final(c)' = Final(c)
    <3>1. Final(c)' = {}
      BY <2>6 DEF Final
    <3> QED BY <2>1, <2>2, <2>3, <2>4, <2>6, <3>1
  <2>7. CASE /\ Final(c) = {}
             /\ \A i \in Final(c)' : got'[c][i] = code'
             /\ Cardinality(Final(c)') = Cardinality(Final(c)) + 1
             /\ \A i \in DOMAIN got'[c] : got'[c][i] = 100 =>
                  i \in DOMAIN got[c] /\ got[c][i] = 100
    <3>1. Cardinality(Final(c)) = 0
      BY <2>7, FS_EmptySet
    <3> QED BY <2>1, <2>2, <2>7, <3>1
  <2>8. CASE /\ SendResponse /\ c = cur
             /\ \A i \in Final(c)' :
                  got'[c][i] = code' \/ (i \in Final(c) /\ got'[c][i] = got[c][i])
             /\ Cardinality(Final(c)') = Cardinality(Final(c)) + 1
             /\ \A i \in DOMAIN got'[c] : got'[c][i] = 100 =>
                  i \in DOMAIN got[c] /\ got[c][i] = 100
    <3>1. Final(c) = {} \/ (Was(c) /\ Reboots(c) /\ Cardinality(Final(c)) <= 1)
      BY <1>3, <2>8 DEF SendResponse
    <3>2. \A i \in Final(c)' : got'[c][i] = code'
      BY <1>3, <2>8 DEF SendResponse
    <3>3. CASE Was(c) /\ Reboots(c) /\ Cardinality(Final(c)) <= 1
      BY <2>1, <2>2, <2>3, <2>4, <2>8, <3>2, <3>3
    <3> QED BY <2>7, <2>8, <3>1, <3>2, <3>3
  <2> QED BY <2>5, <2>6, <2>7, <2>8, FinalEffect
<1> QED BY <1>8, <1>9, <1>10, <1>11 DEF AnswerInv, AnsweredOnce

(* What ends the server.                                                    *)
LEMMA EndsStep == IInv /\ [Next]_vars => EndsOnlyByRequest'
<1> SUFFICES ASSUME IInv, [Next]_vars PROVE EndsOnlyByRequest'
  OBVIOUS
<1>1. /\ TypeInv /\ cur \in Clients /\ conn \in [Clients -> Connections]
  BY DEF IInv, TypeInv
<1>2. ASSUME pc' = "dead" PROVE Lost(cur)' \/ rcv'.verdict = "thrown"
  <2> USE DEF Next, Server, Receive, Serve, vars, net, Goto, Connect, Send, Close, Abort,
              Listen, Accept, ReadData, ReadError, Refuse, Called, InstallOS,
              InstallReturns, InstallEndsProgram, SetDefaultBootPartition,
              RebootToDefaultPartition, ExitToShell, BootIntoPartition, SendResponse,
              CloseConnection
  <2>1. CASE ReadEnds
    BY <1>2, <2>1, ReadEndsInv DEF ReadEnds, Lost
  <2>2. CASE WriteSteps /\ ~ReadEnds
    BY <1>1, <1>2, <2>2, WriteEffect DEF WriteSteps, Lost
  <2>3. CASE ~WriteSteps /\ pc = "dead"
    <3>1. cur' = cur /\ rcv' = rcv
      BY <2>3 DEF WriteSteps, ReadEnds
    <3>2. Lost(cur) \/ rcv.verdict = "thrown"
      BY <2>3 DEF IInv, EndsOnlyByRequest
    <3>3. conn' = conn \/ \E c \in Clients : conn[c].gone = "no" /\ ClientStep(c)
      BY <2>3 DEF WriteSteps, ReadEnds, ClientStep
    <3>4. Lost(cur) => Lost(cur)'
      BY <1>1, <3>1, <3>3 DEF Lost, ClientStep
    <3> QED BY <3>1, <3>2, <3>4
  <2>4. CASE ~WriteSteps /\ pc # "dead"
    BY <1>2, <2>4 DEF WriteSteps
  <2> QED BY <2>1, <2>2, <2>3, <2>4
<1>3. ASSUME pc' = "crashed"
      PROVE  Was(cur)' /\ handled'[cur'][1].line.path = "/os" /\ Final(cur)' = {}
  BY <1>3, InstallStep DEF InstallInv, Was
<1> QED BY <1>2, <1>3 DEF EndsOnlyByRequest

(* The initial states.                                                      *)
LEMMA InitInv == Init => IInv
<1> SUFFICES ASSUME Init PROVE IInv
  OBVIOUS
<1>1. /\ world \in Worlds /\ pc = "start" /\ queue = <<>> /\ rcv = NewReceiver /\ code = 200
      /\ conn = [c \in Clients |-> [up |-> FALSE, sent |-> 0, read |-> 0, gone |-> "no"]]
      /\ got = [c \in Clients |-> <<>>] /\ handled = [c \in Clients |-> <<>>]
      /\ marred = {}
  BY DEF Init
<1>2. cur \in Clients
  BY ServerAssumption DEF Init
<1>3. \A c \in Clients : /\ conn[c] \in Connections /\ got[c] = <<>> /\ handled[c] = <<>>
                         /\ conn[c].read = 0 /\ conn[c].sent = 0
  BY <1>1 DEF Connections
<1>4. \A c \in Clients : Message(Request[c]) /\ Len(Request[c]) \in Nat
  BY <1>1, ServerAssumption, MessageType DEF Request
<1>5. \A c \in Clients : Final(c) = {} /\ Cardinality(Final(c)) = 0 /\ ~Was(c)
  <2>1. \A c \in Clients : Final(c) = {}
    BY <1>3 DEF Final
  <2> QED BY <1>3, <2>1, FS_EmptySet DEF Was
<1>6. TypeInv
  <2>1. rcv \in Receivers(Request[cur])
    BY <1>1, <1>2, <1>4, NewReceiverInv DEF ReceiverInv
  <2>2. \A c \in Clients : conn[c].read <= conn[c].sent /\ conn[c].sent <= Len(Request[c])
    BY <1>3, <1>4
  <2>3. ASSUME NEW c \in Clients
        PROVE  handled[c] \in Seq(Receivers(Request[c])) /\ Len(handled[c]) <= 1
    <3>1. handled[c] = <<>>
      BY <1>3
    <3>2. \A S : <<>> \in Seq(S)
      OBVIOUS
    <3>3. Len(<<>>) <= 1
      OBVIOUS
    <3> QED BY <3>1, <3>2, <3>3
  <2>4. conn \in [Clients -> Connections] /\ got \in [Clients -> Seq(Codes)]
        /\ DOMAIN handled = Clients
    BY <1>1, <1>3
  <2>5. queue \in Seq(Clients) /\ marred \subseteq Clients
    BY <1>1
  <2> QED BY <1>1, <1>2, <2>1, <2>2, <2>3, <2>4, <2>5 DEF TypeInv
<1>7. QueueInv
  <2>1. Range(queue) = {} /\ DOMAIN queue = {}
    BY <1>1 DEF Range
  <2> QED BY <1>1, <1>3, <2>1 DEF QueueInv, Untouched, Serving
<1>8. ReadInv /\ WholeInv /\ HandledInv /\ InstallInv /\ EndsOnlyByRequest
  BY <1>1, <1>5 DEF ReadInv, WholeInv, HandledInv, InstallInv, EndsOnlyByRequest
<1>9. AnswerInv
  <2>1. \A c \in Clients : Len(handled[c]) <= 1 /\ DOMAIN got[c] = {}
    BY <1>3
  <2>2. AnsweredOnce
    BY <1>5, <2>1 DEF AnsweredOnce
  <2> QED BY <1>1, <1>5, <2>2 DEF AnswerInv
<1> QED BY <1>6, <1>7, <1>8, <1>9 DEF IInv

(* The invariant holds in every reachable state.                            *)
LEMMA Invariance == Spec => []IInv
<1>1. Init => IInv
  BY InitInv
<1>2. IInv /\ [Next]_vars => IInv'
  BY TypeStep, QueueStep, ReadStep, WholeStep, HandledStep, InstallStep, AnswerStep, EndsStep
  DEF IInv
<1> QED BY <1>1, <1>2, PTL DEF Spec

-----------------------------------------------------------------------------
(***************************************************************************)
(* What the server promises                                                *)
(***************************************************************************)
(* The state part of HandledAsSent follows from the invariant: what was     *)
(* sent whole was not cut off, and an answer without a handler goes to a    *)
(* marred or unroutable request.                                            *)
LEMMA InvImpliesHandledAsSent == IInv => HandledAsSent
<1> SUFFICES ASSUME IInv PROVE HandledAsSent
  OBVIOUS
<1>1. TypeInv /\ cur \in Clients
  BY DEF IInv, TypeInv
<1>2. TypeOK
  <2>1. rcv \in Receivers(Request[cur])
    BY <1>1 DEF TypeInv
  <2>2. rcv.line \in Lines \cup {NoField}
    BY <1>1, <2>1 DEF Receivers, Lines
  <2>3. /\ rcv.verdict \in {"reading", "received", "failed", "thrown"}
        /\ rcv.size \in Nat \cup {-1} /\ rcv.bytes \in Int
        /\ rcv.more \in BOOLEAN /\ rcv.reboot \in BOOLEAN
    BY <2>1 DEF Receivers
  <2>4. \A c \in Clients :
          /\ conn[c].up \in BOOLEAN
          /\ conn[c].gone \in {"no", "closed", "reset", "served"}
    BY <1>1, RequestFacts DEF Connections
  <2>5. \A c \in Clients :
          conn[c].read \in 0..conn[c].sent /\ conn[c].sent \in 0..Len(Request[c])
    BY <1>1, RequestFacts
  <2>6. \A c \in Clients : got[c] \in Seq({100, 200, 400, 404, 500})
    BY <1>1 DEF TypeInv, Codes
  <2> QED BY <1>1, <2>2, <2>3, <2>4, <2>5, <2>6 DEF TypeOK, TypeInv
<1>3. HeaderNeverTruncated
  BY DEF IInv, HandledInv, HeaderNeverTruncated
<1>4. WholeBodyUnlessMarred
  BY DEF IInv, WholeInv, CutOff, WholeBodyUnlessMarred
<1>5. ServedUnlessMarred
  BY DEF IInv, AnswerInv, ServedUnlessMarred
<1> QED BY <1>2, <1>3, <1>4, <1>5 DEF HandledAsSent

(* However the bytes of a request arrive, for any requests of any number of *)
(* clients and any buffer size: a handler runs only with the whole header   *)
(* and the request line that was sent, with the whole body unless the       *)
(* request was interrupted, cut off or filled the buffer; and a routable    *)
(* request that was not is handled (receiveRequest, receive, matchRoute).   *)
THEOREM RequestsHandledAsSent == Spec => []HandledAsSent
BY Invariance, InvImpliesHandledAsSent, PTL

(* A request is handled at most once and answered once, twice only when a   *)
(* reboot returns and then with the same answer; the server is ended only   *)
(* by a client that gives up, a Content-Length that is no number, or an     *)
(* installation whose client has had no answer (start, sendResponse,        *)
(* receive, installOSREST).                                                 *)
THEOREM AnswersOnceAndStays == Spec => []AnswersAndStays
<1>1. IInv => AnswersAndStays
  BY DEF IInv, AnswerInv, AnswersAndStays
<1> QED BY <1>1, Invariance, PTL
=============================================================================
