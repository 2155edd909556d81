------------------------------ MODULE WebServer ------------------------------
(***************************************************************************)
(* The REST server: one thread accepts a connection, receives a request,   *)
(* runs the handler of its route, answers and closes. Clients connect,     *)
(* send their request in pieces, pause, close early or abort.              *)
(***************************************************************************)
EXTENDS Web

CONSTANTS
  Clients,       \* each sends one request
  Worlds         \* [request, fickle]: what each client sends (a sequence of
                 \* units), and who may close or abort before it is answered

ASSUME ServerAssumption ==
  /\ Clients # {}
  /\ \A w \in Worlds : /\ DOMAIN w.request = Clients /\ w.fickle \subseteq Clients
                       /\ \A c \in Clients : Message(w.request[c])

(* A request line, split at its spaces. good: it has three words and the    *)
(* last one is "HTTP/1.1\r".                                                *)
RequestLine(method, path, good) == [method |-> method, path |-> path, good |-> good]

(* The routes BootManager::run registers, in the order of addRoute.         *)
Routes == <<[path |-> "/os",            method |-> "POST"],
            [path |-> "/bootPartition", method |-> "POST"],
            [path |-> "/reboot",        method |-> "POST"],
            [path |-> "/exit",          method |-> "POST"]>>

VARIABLES
  world,   \* one of Worlds; it never changes
  pc,      \* where the server stands
  queue,   \* connections waiting to be accepted
  cur,     \* the connection accepted last
  rcv,     \* the receiver (Request object) of that connection
  code,    \* status code of its Response object
  conn,    \* client -> [up, sent, read, gone]: is the connection up? units
           \* sent and read; gone is "no", "closed" or "reset"
  got,     \* client -> the status codes written to its connection
  handled, \* client -> the receivers a handler was called with for it
  marred   \* clients whose request was interrupted by a read timeout, or a
           \* part of which filled the buffer to its last byte

net  == <<queue, conn>>
vars == <<world, pc, queue, cur, rcv, code, conn, got, handled, marred>>

Init ==
  /\ world \in Worlds
  /\ pc = "start"
  /\ queue = <<>> /\ cur = (CHOOSE c \in Clients : TRUE) /\ rcv = NewReceiver /\ code = 200
  /\ conn = [c \in Clients |-> [up |-> FALSE, sent |-> 0, read |-> 0, gone |-> "no"]]
  /\ got = [c \in Clients |-> <<>>]
  /\ handled = [c \in Clients |-> <<>>]
  /\ marred = {}

Request   == world.request
Sent(c)   == conn[c].sent = Len(Request[c])
Unread(c) == SubSeq(Request[c], conn[c].read + 1, conn[c].sent)

(***************************************************************************)
(* Clients                                                                 *)
(***************************************************************************)
Connect(c) ==
  /\ ~conn[c].up /\ conn[c].gone = "no"
  /\ conn' = [conn EXCEPT ![c].up = TRUE]
  /\ queue' = Append(queue, c)
  /\ UNCHANGED <<pc, cur, rcv, code, got, handled, marred>>

Send(c) ==
  /\ conn[c].up /\ conn[c].gone = "no"
  /\ \E n \in 1..(Len(Request[c]) - conn[c].sent) :
       conn' = [conn EXCEPT ![c].sent = @ + n]
  /\ UNCHANGED <<pc, queue, cur, rcv, code, got, handled, marred>>

(* A client that gives up, before or after it has sent everything: its       *)
(* network fails, or the installation takes it too long.                    *)
Close(c) ==
  /\ c \in world.fickle
  /\ conn[c].up /\ conn[c].gone = "no"
  /\ conn' = [conn EXCEPT ![c].gone = "closed"]
  /\ UNCHANGED <<pc, queue, cur, rcv, code, got, handled, marred>>

Abort(c) ==
  /\ c \in world.fickle
  /\ conn[c].up /\ conn[c].gone = "no"
  /\ conn' = [conn EXCEPT ![c].gone = "reset"]
  /\ UNCHANGED <<pc, queue, cur, rcv, code, got, handled, marred>>

(***************************************************************************)
(* start                                                                   *)
(***************************************************************************)
Goto(from, to) == pc = from /\ pc' = to

(* socket, bind and listen; without them start returns.                     *)
Listen ==
  /\ pc = "start"
  /\ pc' \in {"accept", "stopped"}
  /\ UNCHANGED <<net, cur, rcv, code, got, handled, marred>>

Accept ==
  /\ Goto("accept", "read")
  /\ queue # <<>>
  /\ cur' = Head(queue)
  /\ queue' = Tail(queue)
  /\ rcv' = NewReceiver
  /\ code' = 200
  /\ UNCHANGED <<conn, got, handled, marred>>

(***************************************************************************)
(* receiveRequest                                                          *)
(***************************************************************************)
(* select says there is something to read.                                  *)
ReadData ==
  /\ pc = "read"
  /\ Unread(cur) # <<>>
  /\ LET n == Min({BufferSize, Len(Unread(cur))})
     IN /\ rcv' \in ReadRound(rcv, SubSeq(Unread(cur), 1, n))
        /\ conn' = [conn EXCEPT ![cur].read = @ + n]
        /\ marred' = IF n = BufferSize THEN marred \cup {cur} ELSE marred
  /\ UNCHANGED <<pc, queue, cur, code, got, handled>>

ReadError ==
  /\ Goto("read", "respond")
  /\ Unread(cur) = <<>> /\ conn[cur].gone = "reset"
  /\ rcv' = ReadFailed(rcv)
  /\ code' = 400
  /\ UNCHANGED <<net, cur, got, handled, marred>>

(* The write of a message to c: to a live client it arrives, to a closed    *)
(* one it is lost and answered by a reset, which the second write of send   *)
(* may already meet; after a reset a write raises SIGPIPE. next is where    *)
(* the program goes on if it survives.                                      *)
Write(c, message, next) ==
  \/ /\ conn[c].gone = "no"
     /\ got' = [got EXCEPT ![c] = Append(@, message)]
     /\ pc' = next
     /\ UNCHANGED conn
  \/ /\ conn[c].gone = "closed"
     /\ conn' = [conn EXCEPT ![c].gone = "reset"]
     /\ pc' \in {next, "dead"}
     /\ UNCHANGED got
  \/ /\ conn[c].gone = "reset"
     /\ pc' = "dead"
     /\ UNCHANGED <<conn, got>>

(* Where the server stands once readReceive has returned true.              *)
Resume(r) ==
  CASE r.verdict = "reading"  -> "read"
    [] r.verdict = "received" -> "route"
    [] r.verdict = "failed"   -> "respond"
    [] r.verdict = "thrown"   -> "dead"

(* readReceive's loop ends: nothing came for a second, or read returned 0   *)
(* since the client has closed.                                             *)
ReadEnds ==
  /\ pc = "read"
  /\ Unread(cur) = <<>> /\ conn[cur].gone # "reset"
  /\ rcv' = AfterRead(rcv)
  /\ code' = IF rcv'.verdict = "failed" THEN 400 ELSE code
  /\ IF SendsContinue(rcv)
     THEN Write(cur, 100, Resume(rcv'))
     ELSE pc' = Resume(rcv') /\ UNCHANGED <<conn, got>>
  /\ marred' = IF Sent(cur) \/ conn[cur].gone = "closed" THEN marred
                                                         ELSE marred \cup {cur}
  /\ UNCHANGED <<queue, cur, handled>>

(***************************************************************************)
(* matchRoute and the handlers                                             *)
(***************************************************************************)
Matches(route, line) ==
  /\ route.path = line.path
  /\ route.method = line.method \/ route.method = "ALL"

(* The request line is refused by receiveRequest (400) or by matchRoute     *)
(* (404): no handler runs.                                                  *)
Refuse ==
  /\ Goto("route", "respond")
  /\ \/ /\ ~rcv.line.good
        /\ code' = 400
     \/ /\ rcv.line.good
        /\ \A i \in DOMAIN Routes : ~Matches(Routes[i], rcv.line)
        /\ code' = 404
  /\ UNCHANGED <<net, cur, rcv, got, handled, marred>>

(* The handler of path is called.                                           *)
Called(path) ==
  /\ pc = "route"
  /\ rcv.line.good
  /\ \E i \in DOMAIN Routes : Routes[i].path = path /\ Matches(Routes[i], rcv.line)
  /\ handled' = [handled EXCEPT ![cur] = Append(@, rcv)]
  /\ UNCHANGED <<queue, cur, rcv, marred>>

(* installOSREST begins: OSInfo downloads what the request names, then      *)
(* InstallManager writes the card with the output of wget.                  *)
InstallOS ==
  /\ Called("/os")
  /\ pc' = "install"
  /\ UNCHANGED <<conn, code, got>>

(* It returns. With an AutoReboot field the handler answers a success       *)
(* itself and goes on to bootIntoPartition.                                 *)
InstallReturns ==
  /\ pc = "install"
  /\ \/ /\ code' \in {400, 500} \cup (IF rcv.reboot THEN {} ELSE {200})
        /\ pc' = "respond"
        /\ UNCHANGED <<conn, got>>
     \/ /\ rcv.reboot
        /\ code' = 200
        /\ Write(cur, 200, "reboot")
  /\ UNCHANGED <<queue, cur, rcv, handled, marred>>

(* One of its downloads ends the program (see WebClient: an URL without a   *)
(* path, a status line or a length without a number, SIGPIPE).              *)
InstallEndsProgram ==
  /\ Goto("install", "crashed")
  /\ UNCHANGED <<net, cur, rcv, code, got, handled, marred>>

(* setDefaultBootPartitionREST                                              *)
SetDefaultBootPartition ==
  /\ Called("/bootPartition")
  /\ code' \in {200, 400}
  /\ pc' = "respond"
  /\ UNCHANGED <<conn, got>>

(* rebootToDefaultPartition and exitToShell answer themselves.              *)
RebootToDefaultPartition ==
  /\ Called("/reboot")
  /\ code' = 200
  /\ Write(cur, 200, "reboot")

(* Mutant: the handler returns instead of leaving the program.              *)
ExitToShell_Returns ==
  /\ Called("/exit")
  /\ code' = 200
  /\ Write(cur, 200, "respond")

ExitToShell ==
  /\ Called("/exit")
  /\ code' = 200
  /\ Write(cur, 200, "stopped")

(* bootIntoPartition restarts the device, or returns to the handler.        *)
BootIntoPartition ==
  /\ pc = "reboot"
  /\ pc' \in {"rebooted", "respond"}
  /\ UNCHANGED <<net, cur, rcv, code, got, handled, marred>>

(* sendResponse; whether it fails or not, the connection is closed next.    *)
SendResponse ==
  /\ pc = "respond"
  /\ Write(cur, code, "close")
  /\ UNCHANGED <<queue, cur, rcv, code, handled, marred>>

CloseConnection ==
  /\ Goto("close", "accept")
  /\ conn' = [conn EXCEPT ![cur].up = FALSE, ![cur].gone = "served"]
  /\ UNCHANGED <<queue, cur, rcv, code, got, handled, marred>>

Receive == ReadData \/ ReadError \/ ReadEnds
Serve   == \/ Refuse \/ InstallOS \/ InstallReturns \/ InstallEndsProgram
           \/ SetDefaultBootPartition
           \/ RebootToDefaultPartition \/ ExitToShell
Server  == Listen \/ Accept \/ Receive \/ Serve \/ BootIntoPartition
           \/ SendResponse \/ CloseConnection

Next ==
  /\ Server \/ \E c \in Clients : Connect(c) \/ Send(c) \/ Close(c) \/ Abort(c)
  /\ UNCHANGED world

Spec == Init /\ [][Next]_vars

(* The server never rests while it can go on, and a client that stays sends *)
(* the rest of its request. Nothing is assumed of an installation: wget has *)
(* --tries=inf, and WebClient's loop may wait for a server for ever.        *)
FairSpec ==
  /\ Spec
  /\ WF_vars(pc # "install" /\ Server /\ UNCHANGED world)
  /\ \A c \in Clients : WF_vars(Send(c) /\ UNCHANGED world)

(***************************************************************************)
(* Properties                                                              *)
(***************************************************************************)
Lines == {r[1][2] : r \in {Request[c] : c \in Clients}}

(* Every variable has its type.                                             *)
TypeOK ==
  /\ pc \in {"start", "accept", "read", "route", "install", "reboot", "respond",
             "close", "stopped", "rebooted", "dead", "crashed"}
  /\ queue \in Seq(Clients) /\ cur \in Clients
  /\ rcv.verdict \in {"reading", "received", "failed", "thrown"}
  /\ rcv.line \in Lines \cup {NoField} /\ rcv.size \in Nat \cup {-1}
  /\ rcv.more \in BOOLEAN /\ rcv.reboot \in BOOLEAN /\ rcv.bytes \in Int
  /\ code \in {200, 400, 404, 500}
  /\ \A c \in Clients :
       /\ conn[c].up \in BOOLEAN
       /\ conn[c].read \in 0..conn[c].sent /\ conn[c].sent \in 0..Len(Request[c])
       /\ conn[c].gone \in {"no", "closed", "reset", "served"}
       /\ got[c] \in Seq({100, 200, 400, 404, 500})
  /\ marred \subseteq Clients

HeaderEnd(c) == EndOfHeader(Request[c])

(* What the handler of c should be given: its body, the last line ended.    *)
WholeBody(c) == BodyOf(Request[c])

Was(c) == handled[c] # <<>>

(* However the bytes of a request arrive, a handler runs only when the whole *)
(* header was read, and with the request line the client sent               *)
(* (parseReceive refuses a header that does not end).                       *)
HeaderNeverTruncated ==
  \A c \in Clients : Was(c) => /\ HeaderEnd(c) \in 1..conn[c].read
                              /\ handled[c][1].line = Request[c][1][2]

(* A request that comes without a pause of a second, no part of which fills *)
(* the buffer, reaches its handler whole and with nothing added, in         *)
(* whatever pieces it comes (receive, readReceive).                         *)
WholeBodyUnlessMarred ==
  \A c \in Clients : Was(c) /\ c \notin marred /\ Sent(c)
                      => handled[c][1].body = WholeBody(c)

(* The answers among the messages written to c.                             *)
Final(c) == {i \in DOMAIN got[c] : got[c][i] # 100}

Routable(c) ==
  LET line == Request[c][1][2]
  IN /\ HeaderEnd(c) # 0
     /\ line.good /\ \E i \in DOMAIN Routes : Matches(Routes[i], line)

(* A request with a whole header and a known route that comes in this way   *)
(* is not refused: the client's answer comes from its handler               *)
(* (receiveRequest, matchRoute).                                            *)
ServedUnlessMarred ==
  \A c \in Clients :
    Final(c) # {} /\ c \notin marred /\ Sent(c) /\ Routable(c) => Was(c)

Reboots(c) == Request[c][1][2].path = "/reboot" \/ handled[c][1].reboot

(* A request is handled and answered once: a second answer is written only  *)
(* to a request for a reboot, where bootIntoPartition may return, and it    *)
(* never takes back the first; 100 Continue is written at most once and     *)
(* before the answer (start, receive, installOSREST,                        *)
(* rebootToDefaultPartition).                                               *)
AnsweredOnce ==
  \A c \in Clients :
    /\ Len(handled[c]) <= 1
    /\ Cardinality(Final(c)) <= IF Was(c) /\ Reboots(c) THEN 2 ELSE 1
    /\ \A i, j \in Final(c) : got[c][i] = got[c][j]
    /\ \A i \in DOMAIN got[c] : got[c][i] = 100 => i = 1

Lost(c) == conn[c].gone \in {"closed", "reset"}

(* What the server may wait for without an end: an installation, whose      *)
(* downloads have no time limit, and the rest of the request of a client    *)
(* that has closed its connection (receive's loop gets 0 bytes for ever).   *)
Hangs == pc = "install" \/ (pc = "read" /\ conn[cur].gone = "closed")

(* A client that stays connected is answered, or the program ends, unless   *)
(* the server hangs in one of these two ways: nothing else ever keeps it    *)
(* (the loop of start, the timeout of readReceive).                         *)
EveryClientAnswered ==
  \A c \in Clients :
    \/ conn[c].up ~> \/ Final(c) # {} \/ Lost(c)
                    \/ pc \in {"stopped", "rebooted", "dead", "crashed"}
    \/ <>[]Hangs

(* The server is ended by a client that gives up, by one whose              *)
(* Content-Length is no number (stoi throws in receive, SIGPIPE in send),   *)
(* or by an installation, which its client is then not told of; by nothing  *)
(* else.                                                                    *)
EndsOnlyByRequest ==
  /\ pc = "dead" => Lost(cur) \/ rcv.verdict = "thrown"
  /\ pc = "crashed" => /\ Was(cur) /\ handled[cur][1].line.path = "/os"
                       /\ Final(cur) = {}

(* However its bytes arrive, a request is handled as it was sent or not at  *)
(* all, and handled if it comes without a pause (receive, matchRoute).      *)
HandledAsSent ==
  TypeOK /\ HeaderNeverTruncated /\ WholeBodyUnlessMarred /\ ServedUnlessMarred

(* One answer to each request, and an end of the server only where a        *)
(* request causes it (start, receive, send, installOSREST).                 *)
AnswersAndStays == AnsweredOnce /\ EndsOnlyByRequest
=============================================================================
