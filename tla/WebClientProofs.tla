--------------------------- MODULE WebClientProofs ---------------------------
(***************************************************************************)
(* Proofs about WebClient, for all responses, every buffer size and any    *)
(* number of refused connections.                                          *)
(***************************************************************************)
EXTENDS WebClient, WebProofs

-----------------------------------------------------------------------------
(***************************************************************************)
(* The inductive invariant                                                 *)
(***************************************************************************)
Remotes == [response : Responses \cup {<<>>}, sent : Nat, read : Nat,
            gone : {"no", "closed", "reset"}]

TypeInv ==
  /\ pc \in {"idle", "open", "send", "read", "dead"}
  /\ url \in Urls
  /\ rcv.verdict \in {"reading", "received", "failed", "thrown"}
  /\ rcv.line \in Lines \cup {NoField}
  /\ remote \in Remotes
  /\ remote.read <= remote.sent /\ remote.sent <= Len(remote.response)
  /\ sockets \in Nat /\ refused \in 0..MaxSockets /\ marred \in BOOLEAN

(* The download that goes on.                                               *)
ReadInv ==
  /\ pc = "open" => rcv = NewReceiver /\ remote = NoRemote /\ refused < MaxSockets
  /\ pc = "send" => rcv = NewReceiver /\ remote.read = 0
  /\ pc \in {"send", "read"} => remote.response \in Responses
  /\ pc = "read" => /\ ReceiverInv(rcv, remote.response, remote.read)
                    /\ rcv.verdict = "reading"

(* The server has hung up before it sent everything.                        *)
CutOff == ~Sent /\ remote.gone # "no"

(* What a download that is not marred has become: it was read whole, or the *)
(* server has cut it off.                                                   *)
WholeInv ==
  /\ pc = "read" /\ ~rcv.more /\ ~marred =>
       rcv.raw = SubSeq(remote.response, 1, remote.read)
  /\ pc = "read" /\ rcv.more /\ ~marred =>
       \/ CutOff
       \/ remote.read = Len(remote.response) /\ Whole(rcv, remote.response)
  /\ pc = "idle" /\ result # Empty /\ ~marred =>
       CutOff \/ result = BodyOf(remote.response)

IInv == TypeInv /\ ReadInv /\ WholeInv /\ SocketsAccounted

-----------------------------------------------------------------------------
(***************************************************************************)
(* The steps of a download                                                 *)
(***************************************************************************)
(* The response that is read.                                               *)
LEMMA ReadingFacts ==
  ASSUME IInv, pc = "read"
  PROVE  /\ Message(remote.response) /\ Len(remote.response) \in Nat
         /\ remote.response \in Responses /\ remote.response # <<>>
         /\ remote.read \in Nat /\ remote.sent \in Nat /\ remote.read <= remote.sent
         /\ remote.sent <= Len(remote.response) /\ remote.read \in 0..Len(remote.response)
         /\ ReceiverInv(rcv, remote.response, remote.read)
         /\ rcv.verdict = "reading" /\ rcv.more \in BOOLEAN
<1>1. /\ remote.response \in Responses /\ ReceiverInv(rcv, remote.response, remote.read)
      /\ rcv.verdict = "reading"
  BY DEF IInv, ReadInv
<1>2. Message(remote.response) /\ Len(remote.response) \in Nat /\ remote.response # <<>>
  BY <1>1, ClientAssumption, MessageType DEF Message
<1>3. /\ remote.read \in Nat /\ remote.sent \in Nat /\ remote.read <= remote.sent
      /\ remote.sent <= Len(remote.response)
  BY DEF IInv, TypeInv, Remotes
<1>4. remote.read \in 0..Len(remote.response)
  BY <1>2, <1>3
<1> QED BY <1>1, <1>2, <1>3, <1>4 DEF ReceiverInv, Receivers

(* A receiver of a response has a status line one of them has.              *)
LEMMA LineType ==
  ASSUME NEW m \in Responses, NEW r \in Receivers(m)
  PROVE  /\ r.line \in Lines \cup {NoField}
         /\ r.verdict \in {"reading", "received", "failed", "thrown"}
BY DEF Receivers, Lines

(* A round of readReceive.                                                  *)
LEMMA ReadDataInv ==
  ASSUME IInv, ReadData
  PROVE  /\ remote' \in Remotes /\ remote'.response = remote.response
         /\ remote'.sent = remote.sent /\ remote'.gone = remote.gone
         /\ remote'.read <= remote.sent /\ remote.read < remote.sent
         /\ ReceiverInv(rcv', remote.response, remote'.read)
         /\ rcv'.verdict = "reading" /\ rcv'.more = rcv.more
         /\ marred' \in BOOLEAN /\ (marred => marred')
         /\ rcv.raw = SubSeq(remote.response, 1, remote.read) /\ ~marred' =>
              rcv'.raw = SubSeq(remote.response, 1, remote'.read)
<1> DEFINE m == remote.response
           a == remote.read
           b == remote.sent
           unread == Waiting(m, a, b)
           n == Taken(m, a, b)
<1>1. /\ Message(m) /\ a \in Nat /\ b \in Nat /\ a <= b /\ b <= Len(m) /\ Len(m) \in Nat
      /\ ReceiverInv(rcv, m, a) /\ rcv.verdict = "reading"
  BY ReadingFacts DEF ReadData
<1>2. /\ unread # <<>>
      /\ rcv' \in ReadRound(rcv, SubSeq(unread, 1, n))
      /\ remote' = [remote EXCEPT !.read = a + n]
      /\ marred' = (marred \/ n = BufferSize)
  BY DEF ReadData, Unread, Waiting, Taken
<1>3. remote \in Remotes /\ marred \in BOOLEAN
  BY DEF IInv, TypeInv
<1> HIDE DEF m, a, b
<1>4. /\ n \in Nat \ {0} /\ a + n <= b
      /\ SubSeq(unread, 1, n) = SubSeq(m, a + 1, a + n)
  BY <1>1, <1>2, ReadPart
<1> HIDE DEF n, unread
<1>5. a + n \in Nat /\ a + n <= Len(m) /\ a < b
  BY <1>1, <1>4
<1>6. rcv' \in ReadRound(rcv, SubSeq(m, a + 1, a + n))
  BY <1>2, <1>4
<1>7. /\ ReceiverInv(rcv', m, a + n)
      /\ rcv'.verdict = "reading" /\ rcv'.more = rcv.more
      /\ rcv.raw = SubSeq(m, 1, a) /\ n # BufferSize => rcv'.raw = SubSeq(m, 1, a + n)
  BY <1>1, <1>4, <1>5, <1>6, ReadRoundInv
<1>8. /\ remote' \in Remotes /\ remote'.response = remote.response
      /\ remote'.sent = remote.sent /\ remote'.gone = remote.gone /\ remote'.read = a + n
  BY <1>2, <1>3, <1>5 DEF Remotes
<1>9. marred' \in BOOLEAN /\ (marred => marred') /\ (~marred' => n # BufferSize)
  BY <1>2, <1>3
<1> QED BY <1>4, <1>5, <1>7, <1>8, <1>9 DEF m, a, b

(* readReceive has returned.                                                *)
LEMMA ReadEndsInv ==
  ASSUME IInv, ReadEnds
  PROVE  LET m == remote.response
             n == remote.read
         IN /\ n = remote.sent /\ remote' = remote
            /\ ReceiverInv(rcv', m, n)
            /\ rcv'.verdict = "reading" => rcv'.more
            /\ marred' \in BOOLEAN
            /\ ~marred' => ~marred /\ (Sent \/ CutOff)
            /\ ~marred' /\ Sent =>
                 n = Len(m) /\ (rcv'.more => Whole(rcv', m))
<1> DEFINE m == remote.response
           n == remote.read
<1>1. /\ Message(m) /\ n \in Nat /\ remote.sent \in Nat /\ n <= remote.sent
      /\ remote.sent <= Len(m) /\ n \in 0..Len(m)
      /\ ReceiverInv(rcv, m, n) /\ rcv.verdict = "reading" /\ rcv.more \in BOOLEAN
  BY ReadingFacts DEF ReadEnds
<1>2. /\ rcv' = AfterRead(rcv) /\ remote' = remote
      /\ Waiting(m, n, remote.sent) = <<>>
      /\ marred' = (marred \/ (~Sent /\ remote.gone = "no"))
  BY DEF ReadEnds, Unread, Waiting
<1>3. marred' \in BOOLEAN /\ (~marred' => ~marred /\ (Sent \/ CutOff))
  BY <1>2 DEF IInv, TypeInv, CutOff
<1>4. pc = "read"
  BY DEF ReadEnds
<1>5. ~rcv.more /\ ~marred /\ n = Len(m) => rcv.raw = m
  BY <1>1, <1>4, WholePart DEF IInv, WholeInv
<1>6. rcv.more /\ ~marred /\ Sent => Whole(rcv, m)
  BY <1>4 DEF IInv, WholeInv, CutOff
<1>7. Sent => remote.sent = Len(m)
  BY DEF Sent
<1> HIDE DEF m, n
<1>8. n = remote.sent
  BY <1>1, <1>2, ReadPart
<1>9. /\ ReceiverInv(rcv', m, n)
      /\ rcv'.verdict = "reading" => rcv'.more
      /\ n = Len(m) =>
           /\ ~rcv.more /\ rcv.raw = m => (rcv'.more => Whole(rcv', m))
           /\ rcv.more /\ Whole(rcv, m) => Whole(rcv', m)
  BY <1>1, <1>2, AfterReadInv
<1>10. ~marred' /\ Sent => n = Len(m) /\ (rcv'.more => Whole(rcv', m))
  BY <1>3, <1>5, <1>6, <1>7, <1>8, <1>9
<1> QED BY <1>2, <1>3, <1>8, <1>9, <1>10 DEF m, n

-----------------------------------------------------------------------------
(***************************************************************************)
(* The invariant is inductive                                              *)
(***************************************************************************)
(* The receiver of a new download.                                          *)
LEMMA NewReceiverType ==
  /\ NewReceiver.verdict \in {"reading", "received", "failed", "thrown"}
  /\ NewReceiver.line \in Lines \cup {NoField} /\ NewReceiver.more = FALSE
BY DEF NewReceiver

(* No connection yet.                                                       *)
LEMMA NoRemoteType ==
  /\ NoRemote \in Remotes /\ NoRemote.read = 0 /\ NoRemote.sent = 0
  /\ NoRemote.read <= NoRemote.sent /\ NoRemote.sent <= Len(NoRemote.response)
<1>1. NoRemote.response = <<>> /\ Len(<<>>) = 0
  BY DEF NoRemote
<1>2. NoRemote \in Remotes /\ NoRemote.read = 0 /\ NoRemote.sent = 0
  BY DEF NoRemote, Remotes
<1> QED BY <1>1, <1>2

(* get begins: a new receiver, and no connection.                           *)
LEMMA GetStep ==
  ASSUME IInv, NEW u \in Urls, Get(u)
  PROVE  IInv'
<1>1. /\ pc = "idle" /\ refused < MaxSockets /\ refused' = refused /\ sockets' = sockets
      /\ rcv' = NewReceiver /\ remote' = NoRemote /\ marred' = FALSE /\ url' = u
      /\ pc' \in {"idle", "open", "dead"} /\ (pc' = "idle" => result' = Empty)
  BY DEF Get, Return
<1>2. TypeInv'
  BY <1>1, NewReceiverType, NoRemoteType DEF IInv, TypeInv, Lines
<1>3. ReadInv'
  BY <1>1 DEF ReadInv
<1>4. WholeInv'
  BY <1>1 DEF WholeInv
<1>5. SocketsAccounted'
  BY <1>1 DEF IInv, SocketsAccounted
<1> QED BY <1>2, <1>3, <1>4, <1>5 DEF IInv

(* openSocket connects, or get returns; a refused connect leaves a socket.  *)
LEMMA OpenSocketStep ==
  ASSUME IInv, OpenSocket
  PROVE  IInv'
<1>1. /\ pc = "open" /\ rcv = NewReceiver /\ remote = NoRemote /\ refused < MaxSockets
      /\ UNCHANGED <<url, rcv, marred>> /\ sockets = refused
      /\ sockets \in Nat /\ refused \in 0..MaxSockets
  BY DEF OpenSocket, IInv, TypeInv, ReadInv, SocketsAccounted
<1>2. \/ /\ pc' = "idle" /\ result' = Empty /\ remote' = remote
         /\ \/ sockets' = sockets /\ refused' = refused
            \/ sockets' = sockets + 1 /\ refused' = refused + 1
      \/ /\ pc' = "send" /\ sockets' = sockets + 1 /\ refused' = refused
         /\ \E r \in Responses : remote' = [NoRemote EXCEPT !.response = r]
  BY DEF OpenSocket, Return
<1>3. /\ remote' \in Remotes /\ remote'.read = 0 /\ remote'.sent = 0
      /\ 0 <= Len(remote'.response)
      /\ pc' = "send" => remote'.response \in Responses
  <2>1. CASE pc' = "idle"
    BY <1>1, <1>2, <2>1, NoRemoteType
  <2>2. ASSUME NEW r \in Responses, remote' = [NoRemote EXCEPT !.response = r]
        PROVE  /\ remote' \in Remotes /\ remote'.read = 0 /\ remote'.sent = 0
               /\ remote'.response \in Responses /\ 0 <= Len(remote'.response)
    <3>1. Len(r) \in Nat
      BY ClientAssumption, MessageType
    <3>2. /\ remote' \in Remotes /\ remote'.read = 0 /\ remote'.sent = 0
          /\ remote'.response = r
      BY <2>2 DEF NoRemote, Remotes
    <3> QED BY <3>1, <3>2
  <2> QED BY <1>2, <2>1, <2>2
<1>4. sockets' \in Nat /\ refused' \in 0..MaxSockets
  BY <1>1, <1>2, ClientAssumption
<1>5. TypeInv'
  BY <1>1, <1>2, <1>3, <1>4, NewReceiverType DEF IInv, TypeInv, Lines
<1>6. ReadInv'
  BY <1>1, <1>2, <1>3 DEF ReadInv
<1>7. WholeInv'
  BY <1>2 DEF WholeInv
<1>8. SocketsAccounted'
  BY <1>1, <1>2 DEF SocketsAccounted
<1> QED BY <1>5, <1>6, <1>7, <1>8 DEF IInv

(* sendRequest.                                                             *)
LEMMA SendRequestStep ==
  ASSUME IInv, SendRequest
  PROVE  IInv'
<1>1. /\ pc = "send" /\ rcv = NewReceiver /\ remote.read = 0
      /\ remote.response \in Responses /\ pc' \in {"dead", "read"}
      /\ UNCHANGED <<url, rcv, remote, sockets, refused, marred, result>>
  BY DEF SendRequest, IInv, ReadInv
<1>2. Message(remote.response) /\ remote.response # <<>>
  BY <1>1, ClientAssumption DEF Message
<1>3. /\ ReceiverInv(rcv, remote.response, 0) /\ rcv.verdict = "reading"
      /\ rcv.raw = SubSeq(remote.response, 1, 0) /\ rcv.more = FALSE
  BY <1>1, <1>2, NewReceiverInv
<1>4. TypeInv'
  BY <1>1 DEF IInv, TypeInv, Lines
<1>5. ReadInv'
  BY <1>1, <1>3 DEF ReadInv
<1>6. WholeInv'
  BY <1>1, <1>3 DEF WholeInv
<1>7. SocketsAccounted'
  BY <1>1, <1>2 DEF IInv, SocketsAccounted, NoRemote
<1> QED BY <1>4, <1>5, <1>6, <1>7 DEF IInv

(* A part of the response is read.                                          *)
LEMMA ReadDataStep ==
  ASSUME IInv, ReadData
  PROVE  IInv'
<1>1. pc = "read" /\ pc' = "read" /\ UNCHANGED <<url, sockets, refused, result>>
  BY DEF ReadData
<1>2. /\ remote.response \in Responses /\ remote.read \in Nat /\ remote.sent \in Nat
      /\ remote.sent <= Len(remote.response) /\ Len(remote.response) \in Nat
  BY <1>1, ReadingFacts
<1>3. /\ remote' \in Remotes /\ remote'.response = remote.response
      /\ remote'.sent = remote.sent /\ remote'.gone = remote.gone
      /\ remote'.read <= remote.sent /\ remote.read < remote.sent
      /\ ReceiverInv(rcv', remote.response, remote'.read)
      /\ rcv'.verdict = "reading" /\ rcv'.more = rcv.more
      /\ marred' \in BOOLEAN /\ (marred => marred')
      /\ rcv.raw = SubSeq(remote.response, 1, remote.read) /\ ~marred' =>
           rcv'.raw = SubSeq(remote.response, 1, remote'.read)
  BY ReadDataInv
<1>4. rcv'.line \in Lines \cup {NoField}
  BY <1>2, <1>3, LineType DEF ReceiverInv
<1>5. TypeInv'
  BY <1>1, <1>2, <1>3, <1>4 DEF IInv, TypeInv, Lines
<1>6. ReadInv'
  BY <1>1, <1>2, <1>3 DEF ReadInv
<1>7. WholeInv'
  <2>1. ~rcv'.more /\ ~marred' => rcv'.raw = SubSeq(remote'.response, 1, remote'.read)
    BY <1>1, <1>3 DEF IInv, WholeInv
  <2>2. remote.read # Len(remote.response)
    BY <1>2, <1>3
  <2>3. rcv'.more /\ ~marred' => CutOff
    BY <1>1, <1>3, <2>2 DEF IInv, WholeInv
  <2>4. CutOff => CutOff'
    BY <1>3 DEF CutOff, Sent
  <2> QED BY <1>1, <2>1, <2>3, <2>4 DEF WholeInv
<1>8. SocketsAccounted'
  BY <1>1 DEF IInv, SocketsAccounted
<1> QED BY <1>5, <1>6, <1>7, <1>8 DEF IInv

(* A read or select fails: get returns nothing.                             *)
LEMMA ReadErrorStep ==
  ASSUME IInv, ReadError
  PROVE  IInv'
<1>1. /\ pc = "read" /\ pc' = "idle" /\ result' = Empty /\ sockets' = sockets - 1
      /\ rcv' = ReadFailed(rcv) /\ UNCHANGED <<url, remote, refused, marred>>
  BY DEF ReadError, Return
<1>2. remote.response \in Responses /\ ReceiverInv(rcv, remote.response, remote.read)
  BY <1>1, ReadingFacts
<1>3. rcv' \in Receivers(remote.response)
  BY <1>1, <1>2, ReadFailedInv
<1>4. /\ sockets = refused + 1 /\ refused \in Nat
  BY <1>1, ClientAssumption DEF IInv, SocketsAccounted, TypeInv
<1>5. TypeInv'
  <2>1. /\ rcv'.line \in Lines \cup {NoField}
        /\ rcv'.verdict \in {"reading", "received", "failed", "thrown"}
    BY <1>2, <1>3, LineType
  <2> QED BY <1>1, <1>4, <2>1 DEF IInv, TypeInv, Lines
<1>6. ReadInv' /\ WholeInv'
  BY <1>1 DEF ReadInv, WholeInv
<1>7. SocketsAccounted'
  BY <1>1, <1>4 DEF SocketsAccounted
<1> QED BY <1>5, <1>6, <1>7 DEF IInv

(* readReceive has returned: get goes on reading, returns or dies.          *)
LEMMA ReadEndsStep ==
  ASSUME IInv, ReadEnds
  PROVE  IInv'
<1>1. /\ pc = "read" /\ UNCHANGED <<url, remote, refused>>
      /\ \/ rcv'.verdict = "reading" /\ pc' = "read" /\ sockets' = sockets
         \/ rcv'.verdict = "failed" /\ pc' = "idle" /\ result' = Empty /\ sockets' = sockets - 1
         \/ /\ rcv'.verdict \in {"thrown", "received"} /\ pc' = "dead"
            /\ sockets' = sockets
         \/ /\ rcv'.verdict = "received" /\ pc' = "idle" /\ sockets' = sockets - 1
            /\ result' \in {rcv'.body, Empty}
  BY DEF ReadEnds, Return
<1>2. remote.response \in Responses /\ remote.response # <<>>
  BY <1>1, ReadingFacts
<1>3. /\ ReceiverInv(rcv', remote.response, remote.read)
      /\ rcv'.verdict = "reading" => rcv'.more
      /\ marred' \in BOOLEAN
      /\ ~marred' => ~marred /\ (Sent \/ CutOff)
      /\ ~marred' /\ Sent => /\ remote.read = Len(remote.response)
                             /\ rcv'.more => Whole(rcv', remote.response)
  BY ReadEndsInv
<1>4. sockets = refused + 1 /\ refused \in Nat
  BY <1>1, ClientAssumption DEF IInv, SocketsAccounted, TypeInv
<1>5. TypeInv'
  <2>1. /\ rcv'.line \in Lines \cup {NoField}
        /\ rcv'.verdict \in {"reading", "received", "failed", "thrown"}
    BY <1>2, <1>3, LineType DEF ReceiverInv
  <2>2. sockets' \in Nat
    BY <1>1, <1>4
  <2> QED BY <1>1, <1>3, <2>1, <2>2 DEF IInv, TypeInv, Lines
<1>6. ReadInv'
  BY <1>1, <1>2, <1>3 DEF ReadInv
<1>7. WholeInv'
  <2>1. CutOff' = CutOff /\ remote' = remote
    BY <1>1 DEF CutOff, Sent
  <2>2. ASSUME ~marred', rcv'.verdict = "received"
        PROVE  CutOff \/ rcv'.body = BodyOf(remote.response)
    <3>1. rcv'.more
      BY <1>3, <2>2 DEF ReceiverInv
    <3>2. Sent => Whole(rcv', remote.response)
      BY <1>3, <2>2, <3>1
    <3> QED BY <1>3, <2>2, <3>2 DEF Whole
  <2>3. pc' = "read" => rcv'.verdict = "reading" /\ rcv'.more
    BY <1>1, <1>3
  <2>4. pc' = "read" /\ ~marred' =>
          CutOff \/ (remote.read = Len(remote.response) /\ Whole(rcv', remote.response))
    BY <1>3, <2>3
  <2>5. pc' = "idle" /\ result' # Empty /\ ~marred' =>
          CutOff \/ result' = BodyOf(remote.response)
    BY <1>1, <2>2
  <2> QED BY <2>1, <2>3, <2>4, <2>5 DEF WholeInv
<1>8. SocketsAccounted'
  BY <1>1, <1>2, <1>4 DEF SocketsAccounted, NoRemote
<1> QED BY <1>5, <1>6, <1>7, <1>8 DEF IInv

(* The server sends more of its answer, or hangs up.                        *)
LEMMA ServerStep ==
  ASSUME IInv, Answer \/ Hangup
  PROVE  IInv'
<1>1. /\ pc \in {"send", "read"} /\ remote.gone = "no"
      /\ UNCHANGED <<pc, url, rcv, sockets, refused, marred, result>>
  BY DEF Answer, Hangup
<1>2. /\ remote \in Remotes /\ remote.response \in Responses
      /\ remote.read \in Nat /\ remote.sent \in Nat
      /\ remote.read <= remote.sent /\ remote.sent <= Len(remote.response)
      /\ Len(remote.response) \in Nat
  BY <1>1, ClientAssumption, MessageType DEF IInv, TypeInv, ReadInv, Remotes
<1>3. /\ remote' \in Remotes /\ remote'.response = remote.response
      /\ remote'.read = remote.read /\ remote'.read <= remote'.sent
      /\ remote'.sent <= Len(remote.response)
  <2>1. CASE Answer
    <3>1. PICK n \in 1..(Len(remote.response) - remote.sent) :
            remote' = [remote EXCEPT !.sent = remote.sent + n]
      BY <2>1 DEF Answer
    <3>2. /\ remote.sent + n \in Nat /\ remote.sent + n <= Len(remote.response)
          /\ remote.read <= remote.sent + n
      BY <1>2, <3>1
    <3> QED BY <1>2, <3>1, <3>2 DEF Remotes
  <2>2. CASE Hangup
    BY <1>2, <2>2 DEF Hangup, Remotes
  <2> QED BY <2>1, <2>2
<1>4. TypeInv'
  BY <1>1, <1>3 DEF IInv, TypeInv, Lines
<1>5. ReadInv'
  BY <1>1, <1>3 DEF IInv, ReadInv
<1>6. WholeInv'
  <2>1. ~CutOff
    BY <1>1 DEF CutOff
  <2> QED BY <1>1, <1>3, <2>1 DEF IInv, WholeInv
<1>7. SocketsAccounted'
  BY <1>1 DEF IInv, SocketsAccounted
<1> QED BY <1>4, <1>5, <1>6, <1>7 DEF IInv

(* The invariant holds in every reachable state.                            *)
LEMMA Invariance == Spec => []IInv
<1>1. Init => IInv
  <2> SUFFICES ASSUME Init PROVE IInv
    OBVIOUS
  <2>1. TypeInv
    <3>1. /\ pc = "idle" /\ url \in Urls /\ rcv = NewReceiver /\ remote = NoRemote
          /\ sockets = 0 /\ refused = 0 /\ marred = FALSE
      BY DEF Init
    <3>2. sockets \in Nat /\ refused \in 0..MaxSockets
      BY <3>1, ClientAssumption
    <3> QED BY <3>1, <3>2, NewReceiverType, NoRemoteType DEF TypeInv
  <2>2. ReadInv /\ WholeInv /\ SocketsAccounted
    BY DEF Init, ReadInv, WholeInv, SocketsAccounted
  <2> QED BY <2>1, <2>2 DEF IInv
<1>2. IInv /\ [Next]_vars => IInv'
  <2> SUFFICES ASSUME IInv, [Next]_vars PROVE IInv'
    OBVIOUS
  <2>1. CASE UNCHANGED vars
    BY <2>1 DEF vars, IInv, TypeInv, ReadInv, WholeInv, SocketsAccounted, CutOff, Sent, Lines
  <2> QED
    BY <2>1, GetStep, OpenSocketStep, SendRequestStep, ReadDataStep, ReadErrorStep,
       ReadEndsStep, ServerStep
    DEF Next, Client
<1> QED BY <1>1, <1>2, PTL DEF Spec

(* In whatever pieces a response comes, for any response and any buffer     *)
(* size: a download that was not interrupted, cut off or marred by a full   *)
(* buffer returns the whole body, and every socket but that of a refused    *)
(* connect is closed (get, openSocket, receive).                            *)
THEOREM Downloads == Spec => []DownloadsWhole
<1>1. IInv => DownloadsWhole
  <2> SUFFICES ASSUME IInv PROVE DownloadsWhole
    OBVIOUS
  <2>1. /\ remote.sent \in Nat /\ remote.read \in Nat
        /\ remote.response \in Responses \cup {<<>>}
        /\ remote.gone \in {"no", "closed", "reset"}
        /\ remote.read <= remote.sent /\ remote.sent <= Len(remote.response)
    BY DEF IInv, TypeInv, Remotes
  <2>2. Len(remote.response) \in Nat
    <3>1. remote.response = <<>> => Len(remote.response) = 0
      OBVIOUS
    <3> QED BY <2>1, <3>1, ClientAssumption, MessageType
  <2>3. remote.sent \in 0..Len(remote.response) /\ remote.read \in 0..remote.sent
    BY <2>1, <2>2
  <2>4. TypeOK
    BY <2>1, <2>3 DEF IInv, TypeInv, TypeOK
  <2>5. WholeUnlessMarred
    BY DEF IInv, WholeInv, CutOff, WholeUnlessMarred
  <2> QED BY <2>4, <2>5 DEF IInv, DownloadsWhole
<1> QED BY <1>1, Invariance, PTL
=============================================================================
