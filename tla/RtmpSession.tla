---------------------------- MODULE RtmpSession -----------------------------
(***************************************************************************)
(* The conversation of librtmp (rtmp.c) with a server, as the output uses  *)
(* it: RTMP_Init, RTMP_AddStream with one stream, RTMP_Connect,            *)
(* RTMP_ConnectStream, then media until RTMP_Close.  A server that wants a *)
(* publisher to log in rejects the connect, and RTMP_ConnectStream is      *)
(* called again from inside the handler of that rejection.                 *)
(*                                                                         *)
(* Every function of rtmp.c that sends is an operator from a state of the  *)
(* structure RTMP to the next one.  A send can fail; then WriteN has       *)
(* closed the connection under the function that called it.                *)
(***************************************************************************)
EXTENDS Integers, Sequences, FiniteSets

CONSTANTS
    MaxAttempts,     \* times try_connect is called
    MaxConnections,  \* connections, those for a login included
    MaxExtra,        \* messages on a connection that the server is not asked for
    MaxMedia,        \* media messages on a connection
    Window,          \* messages received between two acknowledgements: m_nClientBW / 10 bytes
    HasCredentials   \* pubUser and pubPasswd are set

ASSUME ConstantsAssumption ==
    /\ MaxAttempts \in Nat \ {0} /\ MaxConnections \in Nat \ {0}
    /\ MaxExtra \in Nat /\ MaxMedia \in Nat /\ Window \in Nat /\ HasCredentials \in BOOLEAN

VARIABLES
    client,      \* where the thread of the output is
    nested,      \* calls of RTMP_ConnectStream that wait for the one that runs
    rtmp,        \* struct RTMP, with what it has sent on this connection
    attempts,
    connection,  \* number of the connection
    silent,      \* the last RTMP_ConnectStream was left because the server said nothing
    heard,       \* messages of rtmp.sent that the server has dealt with
    toClient,    \* messages on their way to the client
    server       \* the server's side of this connection

clientVars == <<client, nested, rtmp, attempts, connection, silent>>
serverVars == <<heard, toClient, server>>
vars == <<clientVars, serverVars>>

NoId == -1
Never == -1
Missing == -1

-----------------------------------------------------------------------------
\* struct RTMP

\* The application that the connect names, and what a login has added to it
App(stage) == [stage |-> stage]

(* RTMP_Init.  sent and failedAt record what happens; credit is the number of
   sends that succeed before one fails. *)
Fresh ==
    [socket |-> "closed", nStreams |-> 0, curStreamIdx |-> 0, id |-> 0,
     calls |-> <<>>, invokes |-> 0, playing |-> FALSE, bwChecks |-> 0, unacked |-> 0,
     flags |-> {}, app |-> App("none"),
     sent |-> <<>>, failedAt |-> Never, credit |-> Never]

\* RTMP_SetupURL takes the application from the URL.
SetupURL(s) == [s EXCEPT !.app = App("plain")]

AddStream(s) == [s EXCEPT !.id = NoId, !.nStreams = @ + 1]

\* The end of RTMP_Close: everything of the connection is forgotten.
Forget(s) ==
    LET clean == "CLEAN" \in s.flags IN
    [s EXCEPT !.socket = "closed", !.id = NoId, !.calls = <<>>, !.invokes = 0,
              !.playing = FALSE, !.bwChecks = 0, !.unacked = 0,
              !.nStreams = IF clean THEN 0 ELSE @,
              !.curStreamIdx = IF clean THEN 0 ELSE @,
              !.app = IF clean /\ "ALLOC" \in s.flags THEN App("freed") ELSE @]

\* A message that gets out if the socket is usable.
Put(s, m) ==
    IF s.socket = "open" THEN [s EXCEPT !.sent = Append(@, m), !.credit = @ - 1] ELSE s

FCUnpublish == [kind |-> "FCUnpublish"]
DeleteStream(id) == [kind |-> "deleteStream", stream |-> id]

(* RTMP_Close: a stream that the server has numbered is unpublished and
   deleted first.  Say is how its messages are sent. *)
CloseSaying(Say(_, _), s) ==
    Forget(IF s.socket # "closed" /\ s.nStreams > 0 /\ s.id > 0
           THEN Say(Say([s EXCEPT !.id = 0], FCUnpublish), DeleteStream(s.id))
           ELSE s)

\* Mutant: the socket is left to RTMP_Close.
AbortGently(s) == CloseSaying(Put, [s EXCEPT !.failedAt = Len(s.sent)])

(* WriteN on an error: the socket is closed at once, so that what RTMP_Close
   says next is not sent. *)
Abort(s) == CloseSaying(Put, [s EXCEPT !.socket = "shut", !.failedAt = Len(s.sent)])

\* RTMP_SendPacket of a message that is one write
Send(s, m) == IF s.socket = "open" /\ s.credit = 0 THEN Abort(s) ELSE Put(s, m)

\* A command carries the next number; RTMP_SendPacket keeps those it waits for.
Invoke(s, m) ==
    LET t == Send(s, [m EXCEPT !.txn = s.invokes + 1])
    IN  IF t.socket = "open" THEN [t EXCEPT !.invokes = @ + 1] ELSE t

InvokeQueued(s, m) ==
    LET t == Invoke(s, m)
    IN  IF t.socket = "open"
        THEN [t EXCEPT !.calls = Append(@, [name |-> m.kind, txn |-> t.invokes])]
        ELSE t

Close(s) == CloseSaying(Send, s)

-----------------------------------------------------------------------------
\* What the client says

Command(kind) == [kind |-> kind, txn |-> 0]
ChunkSize == [kind |-> "chunkSize"]
Connect(s) == [kind |-> "connect", txn |-> 0, app |-> s.app]
Publish(s) == [kind |-> "publish", txn |-> 0, stream |-> s.id]
BytesReceived == [kind |-> "ack"]
Media(kind, s) == [kind |-> kind, stream |-> s.id]

\* SendConnectPacket
SendConnectPacket(s) ==
    LET t == Send(s, ChunkSize) IN IF t.socket = "open" THEN InvokeQueued(t, Connect(t)) ELSE t

\* One command for each stream: there is one, unless RTMP_Close has freed it.
ForStreams(Op(_), s) == IF s.nStreams > 0 THEN Op(s) ELSE s

SendReleaseStream(s) == Invoke(s, Command("releaseStream"))
SendFCPublish(s) == Invoke(s, Command("FCPublish"))
SendCreateStream(s) == InvokeQueued(s, Command("createStream"))
SendPublish(s) == InvokeQueued(s, Publish(s))
SendCheckBW(s) == Invoke(s, Command("_checkbw"))
SendCheckBWResult(s) ==
    LET t == Send(s, [kind |-> "_result"])
    IN  IF t.socket = "open" THEN [t EXCEPT !.bwChecks = @ + 1] ELSE t
SendPong(s) == Send(s, [kind |-> "pong"])

\* Mutant: acknowledges one message late.
CountLate(s) ==
    IF s.unacked > Window THEN Send([s EXCEPT !.unacked = 0], BytesReceived)
    ELSE [s EXCEPT !.unacked = @ + 1]

\* ReadN counts what it reads, and acknowledges it from time to time.
Count(s) ==
    IF s.unacked + 1 > Window THEN Send([s EXCEPT !.unacked = 0], BytesReceived)
    ELSE [s EXCEPT !.unacked = @ + 1]

-----------------------------------------------------------------------------
\* What the client does with what the server says: HandleInvoke and its callers

Matches(s, txn) == {i \in DOMAIN s.calls : s.calls[i].txn = txn}
Named(s, name) == {i \in DOMAIN s.calls : s.calls[i].name = name}
Least(I) == CHOOSE i \in I : \A j \in I : i <= j
EraseAt(s, i) ==
    [s EXCEPT !.calls = SubSeq(@, 1, i - 1) \o SubSeq(@, i + 1, Len(@))]
Erase(s, I) == IF I = {} THEN s ELSE EraseAt(s, Least(I))
Call(s, txn) ==
    IF Matches(s, txn) = {} THEN "none" ELSE s.calls[Least(Matches(s, txn))].name

\* The connect has been accepted.
Connected(s) ==
    ForStreams(SendCreateStream, ForStreams(SendFCPublish, ForStreams(SendReleaseStream, s)))

\* The stream has been created, and has a number.
StreamCreated(s, id) ==
    LET t == SendPublish([s EXCEPT !.id = IF s.curStreamIdx = 0 THEN id ELSE @])
    IN  [t EXCEPT !.curStreamIdx = @ + 1]

HandleResult(s, m) ==
    LET t == Erase(s, Matches(s, m.txn)) IN
    CASE Call(s, m.txn) = "connect"      -> Connected(t)
      [] Call(s, m.txn) = "createStream" -> StreamCreated(t, m.id)
      [] Call(s, m.txn) = "publish"      -> [t EXCEPT !.playing = TRUE]
      [] OTHER                           -> t

\* A rejection whose description has nothing to do with a login
Unrelated == [mode |-> "other", what |-> "unrelated"]

\* The scheme a server wants is part of its description of the rejection.
Modes == {"adobe", "llnw"}
Names(app, mode) == app.stage \in {"named", "answered"} /\ app.mode = mode

\* Asked for a name: the name is added to the application, once.
AddsName(s, d) == d.what = "need auth" /\ ~Names(s.app, d.mode) /\ HasCredentials
AddName(s, d) ==
    [s EXCEPT !.flags = @ \cup {"NAME", "ALLOC"}, !.app = [stage |-> "named", mode |-> d.mode]]

(* Given a challenge, the response is added.  A response is a digest, encoded:
   it stands here for what it is computed from. *)
AdobeResponse(d) ==
    [salt |-> d.salt, nonce |-> IF d.opaque # Missing THEN d.opaque ELSE d.challenge]
LlnwResponse(d) == [realm |-> "live", method |-> "publish", app |-> "plain", nonce |-> d.nonce]
Response(d) == IF d.mode = "adobe" THEN AdobeResponse(d) ELSE LlnwResponse(d)

Answer(s, d) ==
    [s EXCEPT !.flags = @ \cup {"RESP", "CLATE", "ALLOC"},
              !.app = [stage |-> "answered", mode |-> d.mode, response |-> Response(d)]]

AuthSucceeds(s, d) == d.mode \in Modes /\ (AddsName(s, d) \/ d.what = "challenge")

PublisherAuth(s, d) ==
    IF d.mode \notin Modes THEN s
    ELSE CASE AddsName(s, d)       -> AddName(s, d)
           [] d.what = "challenge" -> Answer(s, d)
           [] OTHER                -> [s EXCEPT !.flags = @ \cup {"CLEAN"}]

\* Mutant: marked first.
CleanEarly(s) ==
    Close(IF "CLATE" \in s.flags THEN [s EXCEPT !.flags = @ \cup {"CLEAN"}] ELSE s)

\* The connection is closed before it is marked that the next close cleans up.
CloseForLogin(s) ==
    LET t == Close(s)
    IN  IF "CLATE" \in t.flags THEN [t EXCEPT !.flags = @ \cup {"CLEAN"}] ELSE t

LogsIn(s, m) ==
    /\ m.kind = "_error" /\ Call(s, m.txn) = "connect" /\ AuthSucceeds(s, m.reason)

HandleError(s, m) ==
    LET t == Erase(s, Matches(s, m.txn)) IN
    IF Call(s, m.txn) # "connect" THEN t
    ELSE IF LogsIn(s, m) THEN CloseForLogin(PublisherAuth(t, m.reason))
    ELSE PublisherAuth(t, m.reason)

HandleStatus(s, code) ==
    CASE code \in {"Failed", "Publish.BadName", "Play.Complete"} -> Close(s)
      [] code = "Publish.Start" -> Erase([s EXCEPT !.playing = TRUE], Named(s, "publish"))
      [] OTHER -> s

HandleInvoke(s, m) ==
    CASE m.kind = "_result"    -> HandleResult(s, m)
      [] m.kind = "_error"     -> HandleError(s, m)
      [] m.kind = "onStatus"   -> HandleStatus(s, m.code)
      [] m.kind = "onBWDone"   -> IF s.bwChecks = 0 THEN SendCheckBW(s) ELSE s
      [] m.kind = "_onbwcheck" -> SendCheckBWResult(s)
      [] m.kind = "_onbwdone"  -> Erase(s, Named(s, "_checkbw"))
      [] m.kind = "ping"       -> SendPong(s)
      [] m.kind \in {"close", "onFCUnsubscribe"} -> Close(s)
      [] OTHER                 -> s

\* RTMP_ClientPacket; before the stream is published media is ignored.
ClientPacket(s, m) ==
    CASE m.kind = "media"   -> s
      [] m.kind = "control" -> SendPong(s)
      [] OTHER              -> HandleInvoke(s, m)

-----------------------------------------------------------------------------
\* The output: try_connect, RTMP_Connect and RTMP_ConnectStream

Init ==
    /\ client = "idle" /\ nested = 0 /\ rtmp = Fresh /\ attempts = 0
    /\ connection = 0 /\ silent = FALSE /\ heard = 0 /\ toClient = <<>>
    /\ server = [challenge |-> Unrelated, assigned |-> NoId, accepted |-> FALSE, extra |-> 0,
                 gone |-> FALSE]

\* The sends of a step succeed, or one of them is the first to fail.
MostSends == 4
Trying(s) == {[s EXCEPT !.credit = n] : n \in 0 .. MostSends}
Settled(s) == [s EXCEPT !.credit = Never]

NewServer ==
    /\ heard' = 0 /\ toClient' = <<>>
    /\ server' = [server EXCEPT !.assigned = NoId, !.accepted = FALSE, !.extra = 0,
                                !.gone = FALSE]

TryConnect ==
    /\ client = "idle" /\ attempts < MaxAttempts
    /\ attempts' = attempts + 1
    /\ rtmp' = AddStream(SetupURL(Fresh))
    /\ client' = "dialling" /\ nested' = 0 /\ silent' = FALSE
    /\ NewServer
    /\ UNCHANGED connection

(* RTMP_ConnectStream returns, or its loop goes on.  When it was called from
   the handler of a rejection the loop around it looks at the same two things. *)
Proceed(s) ==
    IF s.playing THEN client' = "starting" /\ nested' = 0
    ELSE IF s.socket = "closed" THEN client' = "idle" /\ nested' = 0
    ELSE client' = "reading" /\ UNCHANGED nested

\* RTMP_Connect: the race of the connections, RTMP_Connect0
Dial ==
    /\ client = "dialling" /\ connection < MaxConnections
    /\ connection' = connection + 1
    /\ rtmp' = [rtmp EXCEPT !.socket = "open", !.sent = <<>>, !.failedAt = Never]
    /\ client' = "handshake"
    /\ NewServer
    /\ UNCHANGED <<nested, attempts, silent>>

DialFails ==
    /\ client = "dialling"
    /\ rtmp' = Close(rtmp)
    /\ Proceed(rtmp')
    /\ UNCHANGED <<attempts, connection, silent, serverVars>>

\* RTMP_Connect1: the handshake, then the command that connects
HandShake ==
    /\ client = "handshake"
    /\ \E s \in Trying(rtmp) : rtmp' = Settled(SendConnectPacket(s))
    /\ Proceed(rtmp')
    /\ UNCHANGED <<attempts, connection, silent, serverVars>>

\* Mutant: no RTMP_Close on this path.
ForgetToClose ==
    /\ client = "handshake"
    /\ rtmp' = rtmp
    /\ client' = "idle" /\ nested' = 0
    /\ UNCHANGED <<attempts, connection, silent, serverVars>>

\* The server closes, answers nothing, or the connection is lost in the handshake.
HandShakeFails ==
    /\ client = "handshake"
    /\ rtmp' = Close(rtmp)
    /\ Proceed(rtmp')
    /\ UNCHANGED <<attempts, connection, silent, serverVars>>

\* The loop of RTMP_ConnectStream reads a message and handles it.
Read ==
    /\ client = "reading" /\ toClient # <<>>
    /\ toClient' = Tail(toClient)
    /\ LET m == Head(toClient) IN
       \E s \in Trying(rtmp) :
          LET counted == Count(s)
              handled == ClientPacket(counted, m)
          IN  IF counted.socket = "open" /\ LogsIn(counted, m)
              THEN rtmp' = Settled(handled) /\ client' = "dialling" /\ nested' = nested + 1
              ELSE /\ rtmp' = Settled(IF counted.socket = "open" THEN handled ELSE counted)
                   /\ Proceed(rtmp')
    /\ UNCHANGED <<attempts, connection, silent, heard, server>>

\* Reading fails: the server has closed, and so does the client.
ReadEnds ==
    /\ client = "reading" /\ toClient = <<>> /\ server.gone
    /\ \E s \in Trying(rtmp) : rtmp' = Settled(Close(s))
    /\ Proceed(rtmp')
    /\ UNCHANGED <<attempts, connection, silent, serverVars>>

(* Nothing comes for the whole of receiveTimeout: the loop ends, and the one
   around it, if there is one, goes on. *)
ReadTimesOut ==
    /\ client = "reading" /\ toClient = <<>> /\ ~server.gone
    /\ IF nested > 0 THEN nested' = nested - 1 /\ UNCHANGED <<client, silent>>
       ELSE client' = "idle" /\ silent' = TRUE /\ UNCHANGED nested
    /\ UNCHANGED <<rtmp, attempts, connection, serverVars>>

-----------------------------------------------------------------------------
\* The output while it streams: init_send, the send thread

\* init_send: the metadata; on an error the connection is closed.
InitSend ==
    /\ client = "starting"
    /\ \E s \in Trying(rtmp) :
          LET t == Send(s, Media("metadata", s)) IN
          /\ rtmp' = Settled(t)
          /\ client' = IF t.socket = "open" THEN "streaming" ELSE "idle"
    /\ UNCHANGED <<nested, attempts, connection, silent, serverVars>>

InitSendFails ==
    /\ client = "starting"
    /\ \E s \in Trying(rtmp) : rtmp' = Settled(Close(s))
    /\ client' = "idle"
    /\ UNCHANGED <<nested, attempts, connection, silent, serverVars>>

MediaSent == Cardinality({i \in DOMAIN rtmp.sent : rtmp.sent[i].kind = "media"})

(* send_packet: one message is read if there is any, and thrown away, then the
   packet is written.  An error ends the thread, which calls RTMP_Close. *)
SendMedia ==
    /\ client = "streaming" /\ MediaSent < MaxMedia
    /\ toClient' = IF toClient = <<>> THEN <<>> ELSE Tail(toClient)
    /\ \E s \in Trying(rtmp) :
          LET read == IF toClient = <<>> THEN s ELSE Count(s)
              t == Send(read, Media("media", read))
          IN  /\ rtmp' = Settled(t)
              /\ client' = IF t.socket = "open" THEN "streaming" ELSE "idle"
    /\ UNCHANGED <<nested, attempts, connection, silent, heard, server>>

\* The send thread has been told to stop, or has read the end of the connection.
EndStream ==
    /\ client = "streaming"
    /\ \E s \in Trying(rtmp) : rtmp' = Settled(Close(s))
    /\ client' = "idle"
    /\ UNCHANGED <<nested, attempts, connection, silent, serverVars>>

-----------------------------------------------------------------------------
\* The server

Tell(ms) == toClient' = toClient \o ms

(* The rejections a server may answer a connect with.  It challenges at most
   once in a login, with a nonce that it has not used. *)
Wants(mode, what) == [mode |-> mode, what |-> what]
Challenges(mode, nonce) ==
    IF mode = "llnw" THEN {[mode |-> mode, what |-> "challenge", nonce |-> nonce]}
    ELSE {[mode |-> mode, what |-> "challenge", salt |-> nonce, opaque |-> o,
           challenge |-> IF o = Missing THEN nonce ELSE Missing] : o \in {nonce, Missing}}
Reasons(app, nonce) ==
    CASE app.stage = "plain" -> {Wants(mode, "need auth") : mode \in Modes} \cup {Unrelated}
      [] app.stage = "named" -> {Wants(app.mode, "need auth")} \cup Challenges(app.mode, nonce)
      [] OTHER               -> {Wants(app.mode, "failed")}

Result(m) == [kind |-> "_result", txn |-> m.txn, id |-> connection]
Refusal(m, reason) == [kind |-> "_error", txn |-> m.txn, reason |-> reason]
Status(code) == [kind |-> "onStatus", code |-> code]

ServerAnswer ==
    /\ rtmp.socket = "open" /\ ~server.gone /\ heard < Len(rtmp.sent)
    /\ heard' = heard + 1
    /\ LET m == rtmp.sent[heard + 1] IN
       CASE m.kind = "connect" ->
               \/ Tell(<<Result(m)>>) /\ UNCHANGED server
               \/ \E reason \in Reasons(m.app, connection) :
                     /\ Tell(<<Refusal(m, reason)>>)
                     /\ server' = [server EXCEPT !.challenge =
                                      IF reason.what = "challenge" THEN reason ELSE @]
         [] m.kind \in {"releaseStream", "FCPublish"} ->
               /\ Tell(<<>>) \/ Tell(<<Refusal(m, Unrelated)>>)
               /\ UNCHANGED server
         [] m.kind = "createStream" ->
               \/ Tell(<<Result(m)>>) /\ server' = [server EXCEPT !.assigned = connection]
               \/ Tell(<<Refusal(m, Unrelated)>>) /\ UNCHANGED server
         [] m.kind = "publish" ->
               \/ /\ Tell(<<Status("Publish.Start")>>) \/ Tell(<<Result(m)>>)
                  /\ server' = [server EXCEPT !.accepted = TRUE]
               \/ Tell(<<Status("Publish.BadName")>>) /\ UNCHANGED server
         [] OTHER -> UNCHANGED <<toClient, server>>
    /\ UNCHANGED clientVars

Unasked ==
    {[kind |-> k] : k \in {"onBWDone", "_onbwcheck", "_onbwdone", "ping", "control", "media",
                           "close", "onFCUnsubscribe"}}
        \cup {Status("Failed"), Status("Other")}

ServerSpeak ==
    /\ rtmp.socket = "open" /\ client # "handshake" /\ ~server.gone /\ server.extra < MaxExtra
    /\ \E m \in Unasked : Tell(<<m>>)
    /\ server' = [server EXCEPT !.extra = @ + 1]
    /\ UNCHANGED <<clientVars, heard>>

ServerCloses ==
    /\ rtmp.socket = "open" /\ client # "handshake" /\ ~server.gone
    /\ server' = [server EXCEPT !.gone = TRUE]
    /\ UNCHANGED <<clientVars, heard, toClient>>

ClientNext ==
    \/ TryConnect \/ Dial \/ DialFails \/ HandShake \/ HandShakeFails
    \/ Read \/ ReadEnds \/ ReadTimesOut
    \/ InitSend \/ InitSendFails \/ SendMedia \/ EndStream

Next == ClientNext \/ ServerAnswer \/ ServerSpeak \/ ServerCloses

Spec == Init /\ [][Next]_vars

-----------------------------------------------------------------------------
\* Properties

TypeOK ==
    /\ client \in {"idle", "dialling", "handshake", "reading", "starting", "streaming"}
    /\ nested \in 0 .. MaxConnections /\ silent \in BOOLEAN
    /\ attempts \in 0 .. MaxAttempts /\ connection \in 0 .. MaxConnections
    /\ rtmp.socket \in {"open", "closed"} /\ rtmp.nStreams \in 0 .. 1
    /\ rtmp.curStreamIdx \in 0 .. 1 /\ rtmp.id \in {NoId} \cup 0 .. MaxConnections
    /\ rtmp.unacked \in 0 .. Window /\ rtmp.credit = Never
    /\ rtmp.flags \subseteq {"NAME", "RESP", "ALLOC", "CLEAN", "CLATE"}
    /\ rtmp.app.stage \in {"none", "plain", "named", "answered", "freed"}
    /\ heard \in 0 .. Len(rtmp.sent)

\* The messages of a conversation in their order.  Only media comes more than once.
Order == <<"chunkSize", "connect", "releaseStream", "FCPublish", "createStream", "publish",
           "metadata", "media", "FCUnpublish", "deleteStream">>
FirstOf(n) == {Order[k] : k \in 1 .. n}

\* What has been said before the i-th message, and what must have been before one of this kind
SaidBefore(q, i) == {q[j].kind : j \in 1 .. i - 1} \cap FirstOf(10)
Preludes(kind) ==
    CASE kind = "media"        -> {FirstOf(7), FirstOf(8)}
      [] kind = "FCUnpublish"  -> {FirstOf(n) : n \in 6 .. 8}
      [] kind = "deleteStream" -> {FirstOf(n) \cup {"FCUnpublish"} : n \in 6 .. 8}
      [] OTHER                 -> {FirstOf(n - 1) : n \in {k \in 1 .. 7 : Order[k] = kind}}
Said(kind) == \E i \in DOMAIN rtmp.sent : rtmp.sent[i].kind = kind

\* The response that a server accepts
Expected(d) ==
    IF d.mode = "llnw"
    THEN [realm |-> "live", method |-> "publish", app |-> "plain", nonce |-> d.nonce]
    ELSE [salt |-> d.salt, nonce |-> CHOOSE n \in {d.opaque, d.challenge} : n # Missing]

(* What a server hears on one connection is a conversation: it is told the
   chunk size, then connected to with an application that still exists, then
   asked for a stream, which is published under the number it gave on this very
   connection; metadata and media come once it has accepted that, and the
   farewell comes last and names the same stream.  A connect that logs in
   answers the challenge that came with the last rejection.  Nothing is left out and
   nothing is said twice, however many connections a login took. *)
ConversationLegal ==
    \A i \in DOMAIN rtmp.sent :
        LET m == rtmp.sent[i] IN
        /\ m.kind \in FirstOf(10) => SaidBefore(rtmp.sent, i) \in Preludes(m.kind)
        /\ m.kind = "connect" =>
              /\ m.app.stage # "freed"
              /\ m.app.stage = "answered" => m.app.response = Expected(server.challenge)
        /\ m.kind \in {"publish", "metadata", "media", "deleteStream"} =>
              m.stream = server.assigned
        /\ m.kind = "metadata" => server.accepted

(* A connection that ends while a stream is published ends in one of two ways.
   In an orderly end the server is told that the stream is unpublished and
   deleted.  After a send that failed nothing more is said: a farewell would
   look like an orderly end (the comment in WriteN). *)
EndIsTold ==
    rtmp.socket = "closed" /\ Said("publish") =>
        IF rtmp.failedAt = Never THEN Said("FCUnpublish") /\ Said("deleteStream")
        ELSE Len(rtmp.sent) = rtmp.failedAt

(* An output that is not connecting or streaming holds no socket, unless the
   last attempt was given up because the server said nothing: try_connect
   returns without RTMP_Close then, and the next one loses the socket. *)
OnlySilenceLeaks == client = "idle" /\ rtmp.socket = "open" => silent

=============================================================================
