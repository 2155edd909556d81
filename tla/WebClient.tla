------------------------------ MODULE WebClient ------------------------------
(***************************************************************************)
(* WebClient::get: the download of a resource named by a URL, over and     *)
(* over, from a server that answers in pieces, pauses, or closes early.    *)
(***************************************************************************)
EXTENDS Web

CONSTANTS
  Responses,     \* sequences of units the server may answer with
  Urls,          \* see UrlKinds
  MaxSockets     \* bound: sockets leaked before the model stops downloading

UrlKinds == {"http",     \* "http://host/path" or "host/path"
             "https",    \* "https://..."
             "hostonly"} \* a URL without a slash behind the host

ASSUME ClientAssumption ==
  /\ Urls \subseteq UrlKinds
  /\ MaxSockets \in Nat
  /\ \A r \in Responses : Message(r)

(* A status line, split at its spaces: three: it has three words; version:  *)
(* the first one is "HTTP/1.1"; code: the second one, a number or Junk.     *)
StatusLine(code, three, version) == [code |-> code, three |-> three, version |-> version]

Empty == <<>>    \* what get returns when it fails

VARIABLES
  pc,       \* where get stands, "idle" outside of it
  url,      \* its argument
  rcv,      \* the receiver (Response object)
  remote,   \* the server: [response, sent, read, gone]
  sockets,  \* open sockets
  refused,  \* connects that failed so far
  marred,   \* was the response interrupted by a read timeout, or did a part
            \* of it fill the buffer to its last byte?
  result    \* what the last get returned

vars == <<pc, url, rcv, remote, sockets, refused, marred, result>>

NoRemote == [response |-> <<>>, sent |-> 0, read |-> 0, gone |-> "no"]

Init ==
  /\ pc = "idle"
  /\ url \in Urls
  /\ rcv = NewReceiver /\ remote = NoRemote
  /\ sockets = 0 /\ refused = 0 /\ marred = FALSE
  /\ result = Empty

Unread == SubSeq(remote.response, remote.read + 1, remote.sent)
Sent   == remote.sent = Len(remote.response)

(* get returns value, after close(socket) if closes.                        *)
Return(value, closes) ==
  /\ pc' = "idle"
  /\ result' = value
  /\ sockets' = IF closes THEN sockets - 1 ELSE sockets

(***************************************************************************)
(* get                                                                     *)
(***************************************************************************)
(* The URL is taken apart. urlVector[1] of a URL without a slash is outside *)
(* of the vector: the program dies or asks for some other path.             *)
Get(u) ==
  /\ pc = "idle" /\ refused < MaxSockets
  /\ url' = u
  /\ rcv' = NewReceiver /\ remote' = NoRemote /\ marred' = FALSE
  /\ \/ /\ u = "https"
        /\ Return(Empty, FALSE)
     \/ /\ u = "http"
        /\ pc' = "open"
        /\ UNCHANGED <<result, sockets>>
     \/ /\ u = "hostonly"
        /\ pc' \in {"dead", "open"}
        /\ UNCHANGED <<result, sockets>>
  /\ UNCHANGED refused

(* openSocket. When connect fails the socket stays open.                    *)
OpenSocket ==
  /\ pc = "open"
  /\ \/ /\ Return(Empty, FALSE)          \* gethostbyname or socket failed
        /\ UNCHANGED <<remote, refused>>
     \/ /\ pc' = "idle"                  \* connect failed
        /\ result' = Empty
        /\ sockets' = sockets + 1
        /\ refused' = refused + 1
        /\ UNCHANGED remote
     \/ /\ pc' = "send"
        /\ sockets' = sockets + 1
        /\ \E r \in Responses : remote' = [NoRemote EXCEPT !.response = r]
        /\ UNCHANGED <<result, refused>>
  /\ UNCHANGED <<url, rcv, marred>>

(* sendRequest: the write succeeds, or fails and raises SIGPIPE.            *)
SendRequest ==
  /\ pc = "send"
  /\ pc' = IF remote.gone = "reset" THEN "dead" ELSE "read"
  /\ UNCHANGED <<url, rcv, remote, sockets, refused, marred, result>>

ReadData ==
  /\ pc = "read"
  /\ Unread # <<>>
  /\ LET n == Min({BufferSize, Len(Unread)})
     IN /\ rcv' \in ReadRound(rcv, SubSeq(Unread, 1, n))
        /\ remote' = [remote EXCEPT !.read = @ + n]
        /\ marred' = (marred \/ n = BufferSize)
  /\ UNCHANGED <<pc, url, sockets, refused, result>>

ReadError ==
  /\ pc = "read"
  /\ Unread = <<>> /\ remote.gone = "reset"
  /\ rcv' = ReadFailed(rcv)
  /\ Return(Empty, TRUE)
  /\ UNCHANGED <<url, remote, refused, marred>>

(* receiveResponse has received a message: its status line must have three  *)
(* words and the right version, then its code is read with stoi, which      *)
(* throws for a word that is no number. Nobody asks for the code.           *)
receiveResponse(r) ==
  CASE ~(r.line.three /\ r.line.version)                     -> "refused"
    [] r.line.three /\ r.line.version /\ r.line.code = Junk  -> "thrown"
    [] r.line.three /\ r.line.version /\ r.line.code # Junk  -> "accepted"

(* readReceive's loop ends: nothing came for a second, or the server has    *)
(* closed. A server does not ask for 100 Continue.                          *)
ReadEnds ==
  /\ pc = "read"
  /\ Unread = <<>> /\ remote.gone # "reset"
  /\ rcv' = AfterRead(rcv)
  /\ marred' = (marred \/ (~Sent /\ remote.gone = "no"))
  /\ \/ /\ rcv'.verdict = "reading"
        /\ UNCHANGED <<pc, result, sockets>>
     \/ /\ rcv'.verdict = "failed"
        /\ Return(Empty, TRUE)
     \/ /\ \/ rcv'.verdict = "thrown"
           \/ rcv'.verdict = "received" /\ receiveResponse(rcv') = "thrown"
        /\ pc' = "dead"
        /\ UNCHANGED <<result, sockets>>
     \/ /\ rcv'.verdict = "received"
        /\ \/ receiveResponse(rcv') = "refused" /\ Return(Empty, TRUE)
           \/ receiveResponse(rcv') = "accepted" /\ Return(rcv'.body, TRUE)
  /\ UNCHANGED <<url, remote, refused>>

(***************************************************************************)
(* The server                                                              *)
(***************************************************************************)
Answer ==
  /\ pc = "read" /\ remote.gone = "no"
  /\ \E n \in 1..(Len(remote.response) - remote.sent) :
       remote' = [remote EXCEPT !.sent = @ + n]
  /\ UNCHANGED <<pc, url, rcv, sockets, refused, marred, result>>

(* A server closes when it has answered, or early, or the connection is     *)
(* reset.                                                                   *)
Hangup ==
  /\ pc \in {"send", "read"} /\ remote.gone = "no"
  /\ \E how \in {"closed", "reset"} : remote' = [remote EXCEPT !.gone = how]
  /\ UNCHANGED <<pc, url, rcv, sockets, refused, marred, result>>

Client == OpenSocket \/ SendRequest \/ ReadData \/ ReadError \/ ReadEnds
Next == Client \/ Answer \/ Hangup \/ \E u \in Urls : Get(u)

Spec == Init /\ [][Next]_vars

(* The client never rests while it can go on, and a server that does not    *)
(* hang up answers to the end.                                              *)
FairSpec == Spec /\ WF_vars(Client) /\ WF_vars(Answer)

(***************************************************************************)
(* Properties                                                              *)
(***************************************************************************)
Lines == {r[1][2] : r \in Responses}

(* Every variable has its type.                                             *)
TypeOK ==
  /\ pc \in {"idle", "open", "send", "read", "dead"}
  /\ url \in Urls
  /\ rcv.verdict \in {"reading", "received", "failed", "thrown"}
  /\ rcv.line \in Lines \cup {NoField}
  /\ remote.response \in Responses \cup {<<>>}
  /\ remote.sent \in 0..Len(remote.response) /\ remote.read \in 0..remote.sent
  /\ remote.gone \in {"no", "closed", "reset"}
  /\ sockets \in Nat /\ refused \in 0..MaxSockets /\ marred \in BOOLEAN

(* get closes every socket it opens, except one whose connect failed (get,  *)
(* openSocket): leaked sockets and failed connects are the same number.     *)
SocketsAccounted ==
  sockets = refused + IF pc \in {"send", "read"} \/ (pc = "dead" /\ remote # NoRemote)
                      THEN 1 ELSE 0

(* A download that was neither interrupted by a pause nor cut off, and no   *)
(* part of which filled the buffer, returns the whole body, in whatever     *)
(* pieces it came (get, receive).                                           *)
WholeUnlessMarred ==
  pc = "idle" /\ result # Empty /\ ~marred /\ Sent => result = BodyOf(remote.response)

(* A get that was called returns, unless the program dies or the server     *)
(* hangs up before it has sent everything: a server that is merely slow     *)
(* never keeps it waiting for ever (receive, get).                          *)
GetReturns ==
  pc = "open" ~> \/ pc \in {"idle", "dead"}
                 \/ remote.gone # "no" /\ ~Sent

(* A download is whole, and leaves no socket open but a refused one (get).  *)
DownloadsWhole == TypeOK /\ WholeUnlessMarred /\ SocketsAccounted
=============================================================================
