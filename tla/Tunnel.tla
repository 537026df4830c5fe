------------------------------ MODULE Tunnel ------------------------------
(***************************************************************************)
(* One request's bytes (src/pkg/core/context.go: Direct, ProxyUp,          *)
(* PipeTransport, SendRequest, copyToRemote, copyFromRemote;               *)
(* src/pkg/netutil/flushcopy.go): the goroutine that serves the request    *)
(* copies from the remote to the client, another one from the client to    *)
(* the remote, and a third flushes a ResponseWriter.                       *)
(*                                                                         *)
(* What is sent is a sequence of pieces.  A client sends the head of its   *)
(* request, a POST also a body, and then more; a remote sends data,        *)
(* after ok or refused if it is a proxy asked to connect.                  *)
(***************************************************************************)
EXTENDS Naturals, Sequences, FiniteSets, Functions

CONSTANTS
  Kinds,        \* the requests served: method, via and sink
  HalfCloses,   \* the client may end its own direction first
  Eager,        \* the client sends more before it gets an answer
  MaxMore,      \* bound on the pieces a client sends after its request
  MaxData       \* bound on the pieces a remote sends

Methods == {"CONNECT", "UPGRADE", "GET", "POST"}
Vias == {"direct", "exist", "transport"}
Sinks == {"writer", "response"}   \* c.Writer, or c.ResponseWriter without it

ASSUME TunnelAssumption ==
  /\ Kinds \subseteq [method : Methods, via : Vias, sink : Sinks]
  /\ HalfCloses \in BOOLEAN /\ Eager \in BOOLEAN
  /\ MaxMore \in Nat /\ MaxData \in Nat

VARIABLES
  kind,       \* the request
  client,     \* open, half (sends no more), gone
  cin,        \* what the client sent and nobody read
  cmore,      \* how much more it has sent
  got,        \* what the client was sent
  main,       \* the serving goroutine: new, dispatch, head, roundtrip, copy,
              \*   stop, returned
  send,       \* the goroutine that sends: none, request, body, copy, close,
              \*   transport, done
  upFailed,   \* a write to the remote failed
  ours,       \* our end of the connection: none, open, closed
  remote,     \* the remote's: none, open, closed
  up,         \* what the remote was sent
  down,       \* what the remote sent and nobody read
  said,       \* how much data it has sent
  flush       \* flushLoop: none, run, flushing, ended

clientVars == <<client, cin, cmore>>
remoteVars == <<remote, down, said>>
vars == <<kind, clientVars, got, main, send, upFailed, ours, remoteVars, up, flush>>

Connect == kind.method \in {"CONNECT", "UPGRADE"}

TypeOK ==
  /\ kind \in Kinds
  /\ client \in {"open", "half", "gone"}
  /\ cin \in Seq({"body", "more"}) /\ cmore \in 0 .. MaxMore
  /\ got \in Seq({"ok", "refused", "data", "err"})
  /\ main \in {"new", "dispatch", "head", "roundtrip", "copy", "stop", "returned"}
  /\ send \in {"none", "request", "body", "copy", "close", "transport", "done"}
  /\ upFailed \in BOOLEAN
  /\ ours \in {"none", "open", "closed"} /\ remote \in {"none", "open", "closed"}
  /\ up \in Seq({"head", "body", "more"})
  /\ down \in Seq({"ok", "refused", "data"}) /\ said \in 0 .. MaxData
  /\ flush \in {"none", "run", "flushing", "ended"}

Init ==
  /\ kind \in Kinds
  /\ client = "open" /\ cin = <<>> /\ cmore = 0 /\ got = <<>>
  /\ main = "new" /\ send = "none" /\ upFailed = FALSE
  /\ ours = "none" /\ remote = "none"
  /\ up = <<>> /\ down = <<>> /\ said = 0
  /\ flush = "none"

---------------------------------------------------------------------------
(* The client, which has sent the head of its request.                     *)
BodySent == kind.method = "POST" /\ ("body" \in Range(cin) \/ "body" \in Range(up))

ClientSends ==
  /\ client = "open" /\ main # "returned"
  /\ \/ /\ kind.method = "POST" /\ ~BodySent
        /\ cin' = Append(cin, "body")
        /\ UNCHANGED cmore
     \/ /\ kind.method = "POST" => BodySent
        /\ cmore < MaxMore
        /\ Eager \/ got # <<>>
        /\ cin' = Append(cin, "more")
        /\ cmore' = cmore + 1
  /\ UNCHANGED <<kind, client, got, main, send, upFailed, ours, remoteVars, up, flush>>

ClientCloses ==
  /\ main # "returned"
  /\ \/ HalfCloses /\ client = "open" /\ client' = "half"
     \/ client # "gone" /\ client' = "gone"
  /\ UNCHANGED <<kind, cin, cmore, got, main, send, upFailed, ours, remoteVars, up, flush>>

(* Node.proxy closes the connection, and http2 the body, once the request  *)
(* has been served.                                                        *)
ClientEOF == cin = <<>> /\ (client # "open" \/ main = "returned")

(* The remote; a proxy answers once it has the head of the request.        *)
Answers ==
  IF kind.via = "direct" \/ ~Connect \/ said > 0 \/ down # <<>> \/ got # <<>>
  THEN {"data"} ELSE {"ok", "refused"}

RemoteSends ==
  /\ remote = "open" /\ ours = "open"
  /\ kind.via # "direct" => "head" \in Range(up)
  /\ \E a \in Answers :
       /\ a = "data" => said < MaxData
       /\ said' = IF a = "data" THEN said + 1 ELSE said
       /\ down' = Append(down, a)
  /\ UNCHANGED <<kind, clientVars, got, main, send, upFailed, ours, remote, up, flush>>

RemoteCloses ==
  /\ remote = "open"
  /\ remote' = "closed"
  /\ UNCHANGED <<kind, clientVars, got, main, send, upFailed, ours, down, said, up, flush>>

---------------------------------------------------------------------------
(* The serving goroutine.                                                  *)

(* NewContextWithConn reads the request through a bufio.Reader and keeps   *)
(* the connection itself for what follows: what the reader holds by then   *)
(* is lost, but for the body, which is read through it.                    *)
NewContext ==
  /\ main = "new"
  /\ \E n \in 0 .. Len(cin) :
       /\ n > 0 => kind.sink = "writer" /\ kind.method # "POST"
       /\ cin' = SubSeq(cin, n + 1, Len(cin))
  /\ main' = "dispatch"
  /\ UNCHANGED <<kind, client, cmore, got, send, upFailed, ours, remoteVars, up, flush>>

(* Answer s as far as there is somebody to read it.                        *)
Write(s) == got' = IF client = "gone" THEN got ELSE got \o s

ReturnErr_Late ==
  /\ main' = "returned"
  /\ Write(<<"ok", "err">>)
  /\ ours' = IF ours = "open" THEN "closed" ELSE ours

(* Context.proxy: an error of Do becomes an answer.                        *)
ReturnErr ==
  /\ main' = "returned"
  /\ Write(<<"err">>)
  /\ ours' = IF ours = "open" THEN "closed" ELSE ours

(* CopyBufferFlush flushes a ResponseWriter at intervals, for CONNECT.     *)
StartCopy ==
  /\ main' = "copy"
  /\ flush' = IF Connect /\ kind.sink = "response" THEN "run" ELSE "none"

(* A plain request that came by http2 is left to httputil.ReverseProxy.    *)
ReverseToResponse ==
  /\ main = "dispatch"
  /\ ~Connect /\ kind.sink = "response"
  /\ main' = "returned"
  /\ UNCHANGED <<kind, clientVars, got, send, upFailed, ours, remoteVars, up, flush>>

DialFails ==
  /\ main = "dispatch"
  /\ Connect \/ kind.sink = "writer"
  /\ ReturnErr
  /\ UNCHANGED <<kind, clientVars, send, upFailed, remoteVars, up, flush>>

Dialled ==
  /\ main = "dispatch"
  /\ Connect \/ kind.sink = "writer"
  /\ ours' = "open" /\ remote' = "open"
  /\ UNCHANGED <<kind, clientVars, upFailed, down, said>>

Direct ==
  /\ kind.via = "direct" /\ Dialled
  /\ StartCopy
  /\ IF Connect THEN send' = "copy" /\ Write(<<"ok">>)
                ELSE send' = "request" /\ UNCHANGED got
  /\ UNCHANGED up

ProxyUp ==
  /\ kind.via = "exist" /\ Dialled
  /\ send' = "request"
  /\ IF Connect /\ kind.sink = "response"
     THEN main' = "head" /\ UNCHANGED flush
     ELSE StartCopy
  /\ UNCHANGED <<got, up>>

(* The transport of PipeTransport sends the request itself; http2 sends no *)
(* Upgrade header.                                                         *)
PipeTransport ==
  /\ kind.via = "transport" /\ kind.method # "UPGRADE" /\ Dialled
  /\ main' = "roundtrip"
  /\ send' = "transport"
  /\ up' = <<"head">>
  /\ UNCHANGED <<got, flush>>

Refused ==
  \/ down # <<>> /\ Head(down) = "refused"
  \/ down = <<>> /\ remote = "closed"
  \/ ours = "closed"

ReadResponse_DropsBuffered ==
  /\ main = "head"
  /\ \/ /\ Refused /\ ReturnErr
        /\ UNCHANGED <<flush, down>>
     \/ /\ ours = "open" /\ down # <<>> /\ Head(down) = "ok"
        /\ \E n \in 1 .. Len(down) :
             /\ Write(<<"ok">>)
             /\ down' = SubSeq(down, n + 1, Len(down))
        /\ StartCopy
        /\ UNCHANGED ours
  /\ UNCHANGED <<kind, clientVars, send, upFailed, remote, said, up>>

(* ProxyUp reads the proxy's answer through a bufio.Reader too, and passes *)
(* on what that holds.                                                     *)
ReadResponse ==
  /\ main = "head"
  /\ \/ /\ Refused /\ ReturnErr
        /\ UNCHANGED <<flush, down>>
     \/ /\ ours = "open" /\ down # <<>> /\ Head(down) = "ok"
        /\ \E n \in 1 .. Len(down) :
             /\ Write(SubSeq(down, 1, n))
             /\ down' = SubSeq(down, n + 1, Len(down))
        /\ StartCopy
        /\ UNCHANGED ours
  /\ UNCHANGED <<kind, clientVars, send, upFailed, remote, said, up>>

RoundTrip ==
  /\ main = "roundtrip"
  /\ \/ /\ Refused /\ ReturnErr
        /\ UNCHANGED <<flush, down>>
     \/ /\ ours = "open" /\ down # <<>> /\ Head(down) # "refused"
        /\ IF Connect THEN Write(<<"ok">>) /\ down' = Tail(down)
                      ELSE UNCHANGED <<got, down>>
        /\ StartCopy
        /\ UNCHANGED ours
  /\ UNCHANGED <<kind, clientVars, send, upFailed, remote, said, up>>

(* copyFromRemote; the writer's mutex is flushLoop's while it flushes.     *)
CopyFromRemote ==
  /\ main = "copy" /\ flush # "flushing"
  /\ ours = "open" /\ down # <<>>
  /\ Write(<<Head(down)>>)
  /\ down' = Tail(down)
  /\ main' = IF client = "gone" THEN "stop" ELSE "copy"
  /\ UNCHANGED <<kind, clientVars, send, upFailed, ours, remote, said, up, flush>>

CopyFromRemoteEnds ==
  /\ main = "copy"
  /\ ours = "closed" \/ (down = <<>> /\ remote = "closed")
  /\ main' = "stop"
  /\ UNCHANGED <<kind, clientVars, got, send, upFailed, ours, remoteVars, up, flush>>

Return_NoWait ==
  /\ main = "stop"
  /\ main' = "returned" /\ ours' = "closed"
  /\ UNCHANGED <<kind, clientVars, got, send, upFailed, remoteVars, up, flush>>

(* maxLatencyWriter.stop waits for flushLoop to receive; the deferred      *)
(* Close of the connection or of the response's body comes last.           *)
Return ==
  /\ main = "stop" /\ flush # "flushing"
  /\ flush' = IF flush = "run" THEN "ended" ELSE flush
  /\ main' = "returned" /\ ours' = "closed"
  /\ UNCHANGED <<kind, clientVars, got, send, upFailed, remoteVars, up>>

FlushLoop ==
  /\ \/ flush = "run" /\ flush' = "flushing"
     \/ flush = "flushing" /\ flush' = "run"
  /\ UNCHANGED <<kind, clientVars, got, main, send, upFailed, ours, remoteVars, up>>

---------------------------------------------------------------------------
(* The goroutine that sends.                                               *)
WriteFails == ours = "closed" \/ remote = "closed"

(* The request has a body of its own: a POST's, and the http2 stream of a  *)
(* CONNECT.                                                                *)
HasBody == kind.method = "POST" \/ (kind.method = "CONNECT" /\ kind.sink = "response")

(* SendRequest: an error leaves the connection open.  After a body, which  *)
(* has been read to its end, copyToRemote finds nothing and closes the     *)
(* connection.                                                             *)
SendHead ==
  /\ send = "request"
  /\ \/ /\ ours = "open"
        /\ up' = Append(up, "head")
        /\ send' = IF HasBody THEN "body" ELSE "copy"
        /\ UNCHANGED upFailed
     \/ WriteFails /\ upFailed' = TRUE /\ send' = "done" /\ UNCHANGED up
  /\ UNCHANGED <<kind, clientVars, got, main, ours, remoteVars, flush>>

SendBody ==
  /\ send = "body"
  /\ \/ /\ cin # <<>> /\ ours = "open"
        /\ up' = Append(up, Head(cin)) /\ cin' = Tail(cin)
        /\ send' = IF Connect THEN "body" ELSE "close"
        /\ UNCHANGED upFailed
     \/ /\ cin # <<>> /\ WriteFails
        /\ upFailed' = TRUE /\ send' = "done" /\ UNCHANGED <<up, cin>>
     \/ /\ ClientEOF
        /\ send' = IF Connect /\ client = "half" THEN "close" ELSE "done"
        /\ UNCHANGED <<up, cin, upFailed>>
  /\ UNCHANGED <<kind, client, cmore, got, main, ours, remoteVars, flush>>

CopyToRemote_ShortWrite ==
  /\ send = "copy"
  /\ \/ /\ cin # <<>> /\ ours = "open"
        /\ up' = Append(up, Head(cin)) /\ cin' = <<>>
        /\ UNCHANGED <<send, upFailed>>
     \/ /\ cin # <<>> /\ WriteFails
        /\ cin' = Tail(cin) /\ upFailed' = TRUE /\ send' = "close"
        /\ UNCHANGED up
     \/ ClientEOF /\ send' = "close" /\ UNCHANGED <<up, cin, upFailed>>
  /\ UNCHANGED <<kind, client, cmore, got, main, ours, remoteVars, flush>>

CopyToRemote ==
  /\ send = "copy"
  /\ \/ /\ cin # <<>> /\ ours = "open"
        /\ up' = Append(up, Head(cin)) /\ cin' = Tail(cin)
        /\ UNCHANGED <<send, upFailed>>
     \/ /\ cin # <<>> /\ WriteFails
        /\ cin' = Tail(cin) /\ upFailed' = TRUE /\ send' = "close"
        /\ UNCHANGED up
     \/ ClientEOF /\ send' = "close" /\ UNCHANGED <<up, cin, upFailed>>
  /\ UNCHANGED <<kind, client, cmore, got, main, ours, remoteVars, flush>>

CloseRemote_Not ==
  /\ send = "close"
  /\ send' = "done"
  /\ UNCHANGED <<kind, clientVars, got, main, upFailed, ours, remoteVars, up, flush>>

CloseRemote ==
  /\ send = "close"
  /\ ours' = "closed" /\ send' = "done"
  /\ UNCHANGED <<kind, clientVars, got, main, upFailed, remoteVars, up, flush>>

(* The transport: it ends its own direction without closing the stream,    *)
(* and resets the stream when the client's fails.                          *)
TransportSends ==
  /\ send = "transport"
  /\ \/ /\ Connect \/ kind.method = "POST"
        /\ cin # <<>> /\ ours = "open" /\ remote = "open"
        /\ up' = Append(up, Head(cin)) /\ cin' = Tail(cin)
        /\ send' = IF Connect THEN send ELSE "done"
        /\ UNCHANGED ours
     \/ /\ \/ kind.method = "GET" \/ ours = "closed" \/ remote = "closed"
           \/ ClientEOF /\ client = "half"
        /\ send' = "done" /\ UNCHANGED <<ours, up, cin>>
     \/ /\ ClientEOF /\ client # "half" /\ kind.method # "GET"
        /\ ours' = "closed"
        /\ send' = "done" /\ UNCHANGED <<up, cin>>
  /\ UNCHANGED <<kind, client, cmore, got, main, upFailed, remoteVars, flush>>

---------------------------------------------------------------------------
MainStep ==
  \/ NewContext \/ ReverseToResponse \/ DialFails
  \/ Direct \/ ProxyUp \/ PipeTransport
  \/ ReadResponse \/ RoundTrip
  \/ CopyFromRemote \/ CopyFromRemoteEnds \/ Return

SendStep == SendHead \/ SendBody \/ CopyToRemote \/ CloseRemote \/ TransportSends

Next ==
  \/ MainStep \/ SendStep \/ FlushLoop
  \/ ClientSends \/ ClientCloses \/ RemoteSends \/ RemoteCloses

Spec == Init /\ [][Next]_vars

(* The goroutines run; a flush that keeps coming back does not keep the    *)
(* copier from its mutex for ever.  Client and remote need not do anything.*)
Fairness == SF_vars(MainStep) /\ WF_vars(SendStep) /\ WF_vars(flush = "flushing" /\ FlushLoop)

FairSpec == Spec /\ Fairness

---------------------------------------------------------------------------
Count(s, p) == Cardinality({i \in DOMAIN s : s[i] = p})

(* A client that keeps its connection open has been sent everything the    *)
(* remote said when the request has been served, and that is after the     *)
(* remote closed; unless sending to the remote failed.  Not so for a body, *)
(* after which SendRequest closes the connection (Direct, ProxyUp,         *)
(* PipeTransport).                                                         *)
ResponseWhole ==
  main = "returned" /\ ours = "closed" /\ client = "open" /\ ~upFailed
  /\ "err" \notin Range(got) /\ (kind.method = "POST" => kind.via = "transport") =>
    remote = "closed" /\ Count(got, "data") = said

(* What a client sends, waiting for the answer to its request before it    *)
(* sends more, reaches the remote piece by piece (copyToRemote).           *)
UpWhole == ~upFailed => Count(up, "more") + Count(cin, "more") = cmore

(* A client that asked to connect is answered once, and before any data    *)
(* (writeConncectOK, ReadResponse, HttpErr).                               *)
AnsweredFirst ==
  Connect /\ got # <<>> =>
    /\ Head(got) # "data"
    /\ \A i \in 2 .. Len(got) : got[i] = "data"

(* The ResponseWriter is not flushed once its handler has returned         *)
(* (maxLatencyWriter.stop).                                                *)
FlushInHandler == flush = "flushing" => main # "returned"

(* Somebody still reads from the client and sees it leave: not so while a  *)
(* body is sent, nor once a transport has sent all there is to send.       *)
Noticed ==
  /\ HasBody => kind.method # "POST" /\ kind.via # "exist"
  /\ kind.via = "transport" => Connect /\ send # "done"

(* When either end closes, both goroutines end (copyToRemote's Close, the  *)
(* deferred Close of the remote).                                          *)
TunnelEnds ==
  (remote = "closed" \/ (client = "gone" /\ Noticed)) ~>
    (main = "returned" /\ send \in {"none", "done"})

(* Direct "waits for remote close", its comment says.                      *)
WaitsForRemote ==
  main = "returned" /\ kind.via = "direct" /\ ours = "closed" /\ client = "open" /\ ~upFailed =>
    remote = "closed"

(* Direct does "SendRequest to remote", its comment says: what the remote  *)
(* gets of anything but a CONNECT begins with the request.                 *)
RequestIsSent ==
  kind.via = "direct" /\ kind.method # "CONNECT" /\ up # <<>> => Head(up) = "head"

(* SendRequest "write Request to remote, nothing more", its comment says.  *)
NothingMore == ~Connect => "more" \notin Range(up)
===========================================================================
