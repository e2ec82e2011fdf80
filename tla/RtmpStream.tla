------------------------------ MODULE RtmpStream ------------------------------
(***************************************************************************)
(* The life of the RTMP output: src/src/rtmp/rtmp-stream.c.                *)
(*                                                                         *)
(* OBS starts, stops and destroys the output, one call at a time (ctl).    *)
(* A start creates the connect thread (connector), which creates the send  *)
(* thread (sender) once connected.  The pacer of the delay buffer feeds    *)
(* the send queue (feed: its progress in rtmp_stream_data_direct).  The    *)
(* threads meet in flags, an event and a semaphore, without a mutex but    *)
(* for the queue's.  What is sent, and which frames are dropped when the   *)
(* queue is long, is left open: a send works or fails, and adding a packet *)
(* may shorten the queue.  rtmp_stream_stop clears its time stamp, so that *)
(* stop_ts is 0 throughout and a stop is never a delayed one.              *)
(***************************************************************************)
EXTENDS Integers

CONSTANTS
    MaxStarts,      \* bound on calls of rtmp_stream_start
    MaxStops,       \* bound on calls of rtmp_stream_stop
    MaxPackets      \* bound on packets queued and posts waiting

ASSUME ConstantsAssumption ==
    {MaxStarts, MaxStops, MaxPackets} \subseteq Nat

VARIABLES
    obs,            \* OBS's view: idle, starting, running, waiting, reconnecting
    asked,          \* OBS has called stop and not yet been told of an end
    ctl,            \* where the call of OBS under way is
    starts, stops,  \* number of calls (bounds)
    pacer,          \* the delay buffer: off, empty, stocked
    feed,           \* its pacer in rtmp_stream_data_direct: none, checked, post
    \* struct rtmp_stream
    connecting, active, disconnected, encodeError,
    stopEvent,      \* stop_event is signalled
    sentHeaders,    \* sent_headers
    sem,            \* count of send_sem
    queue,          \* number of packets
    \* the threads
    connector,      \* where connect_thread is
    sender,         \* where send_thread is
    joinable,       \* send_thread has not been detached
    \* history variable
    headed          \* the headers went first on this connection

obsVars   == <<obs, asked>>
ctlVars   == <<ctl, starts, stops>>
feedVars  == <<pacer, feed>>
flagVars  == <<connecting, active, disconnected, encodeError, stopEvent, sentHeaders>>
queueVars == <<sem, queue>>
vars == <<obsVars, ctlVars, feedVars, flagVars, queueVars, connector, sender, joinable, headed>>

Flags ==
    /\ asked \in BOOLEAN
    /\ connecting \in BOOLEAN /\ active \in BOOLEAN /\ disconnected \in BOOLEAN
    /\ encodeError \in BOOLEAN /\ stopEvent \in BOOLEAN /\ sentHeaders \in BOOLEAN
    /\ joinable \in BOOLEAN
    /\ headed \in BOOLEAN

Places ==
    /\ obs \in {"idle", "starting", "running", "waiting", "reconnecting"}
    /\ ctl \in {"idle", "startPacer", "startThread",
                "stopPacer", "stopJoin", "stopRead", "stopPost",
                "destroyPacer", "destroyFirst", "destroyRest", "destroyJoin", "destroyed"}
    /\ pacer \in {"off", "empty", "stocked"}
    /\ feed \in {"none", "checked", "post"}
    /\ connector \in {"none", "init", "joinSender", "reset", "connect", "activate", "metadata",
                      "failed", "lost", "detach", "detached", "finish"}
    /\ sender \in {"none", "wait", "send", "decide", "tellLost", "tellEnd",
                   "drain", "resetEvent", "clearActive", "clearHeaders"}

Counts ==
    /\ starts \in 0 .. MaxStarts
    /\ stops \in 0 .. MaxStops
    /\ sem \in Nat
    /\ queue \in Nat

TypeOK == Flags /\ Places /\ Counts

--------------------------------------------------------------------------------
(***************************************************************************)
(* What OBS makes of an end of the output it is told of: it is over, or OBS *)
(* will reconnect after a lost connection or a failed reconnection.         *)
(***************************************************************************)

Tell(o) ==
    /\ obs' = o
    /\ asked' = FALSE

TellLost == \E o \in {"idle", "waiting"} : Tell(o)

TellFailed == IF obs = "reconnecting" THEN TellLost ELSE Tell("idle")

SenderTail == {"drain", "resetEvent", "clearActive", "clearHeaders"}

\* Assumed of OBS: it stops the output only after a thread that has told it of an
\* end has run its last lines, and starts it again only after a sender that is
\* ending has ended as well.
Settled == sender \notin SenderTail /\ connector \notin {"detach", "detached", "finish"}

Rested == connector = "none" /\ (sender = "none" \/ (sender = "wait" /\ ~(stopEvent /\ sem > 0)))

\* pthread_join of a thread that has detached itself returns at once.
ConnectorJoined == connector \in {"none", "detached"}
SenderJoined == sender = "none" \/ ~joinable

--------------------------------------------------------------------------------
(***************************************************************************)
(* rtmp_stream_start.  A start that OBS refuses first changes nothing.      *)
(* OBS gives up reconnecting when it is asked to stop.                      *)
(***************************************************************************)

BeginStart ==
    /\ ctl = "idle"
    /\ obs \in {"idle", "waiting"} /\ ~asked
    /\ Rested
    /\ starts < MaxStarts
    /\ starts' = starts + 1
    /\ obs' = IF obs = "idle" THEN "starting" ELSE "reconnecting"
    /\ ctl' = "startPacer"
    /\ UNCHANGED <<asked, stops, feedVars, flagVars, queueVars, connector, sender, joinable,
                   headed>>

PacerJoined == feed = "none"

\* swd_start, with the join in its swd_stop
StartPacer ==
    /\ ctl = "startPacer"
    /\ PacerJoined
    /\ pacer' = "empty"
    /\ ctl' = "startThread"
    /\ UNCHANGED <<obsVars, starts, stops, feed, flagVars, queueVars, connector, sender,
                   joinable, headed>>

StartThread ==
    /\ ctl = "startThread"
    /\ connecting' = TRUE
    /\ ctl' = "idle"
    /\ \/ connector' = "init" /\ UNCHANGED obsVars
       \/ Tell("idle") /\ UNCHANGED connector
    /\ UNCHANGED <<starts, stops, feedVars, active, disconnected, encodeError, stopEvent,
                   sentHeaders, queueVars, sender, joinable, headed>>

--------------------------------------------------------------------------------
(***************************************************************************)
(* connect_thread, with init_connect, try_connect and init_send             *)
(***************************************************************************)

otherThanConnector == <<ctlVars, feedVars>>

\* init_connect first joins a send thread that a stop has ended.
ConnectInit ==
    /\ connector = "init"
    /\ connector' = IF stopEvent THEN "joinSender" ELSE "reset"
    /\ UNCHANGED <<otherThanConnector, obsVars, flagVars, queueVars, sender, joinable, headed>>

ConnectJoin ==
    /\ connector = "joinSender"
    /\ SenderJoined
    /\ connector' = "reset"
    /\ UNCHANGED <<otherThanConnector, obsVars, flagVars, queueVars, sender, joinable, headed>>

\* The rest of init_connect.  Without a service, or for HDR with AV1, the
\* thread returns with `connecting` set.
ConnectReset ==
    /\ connector = "reset"
    /\ queue' = 0
    /\ \/ /\ disconnected' = FALSE
          /\ encodeError' = FALSE
          /\ \/ connector' = "connect" /\ UNCHANGED obsVars
             \/ connector' = "none" /\ TellFailed
       \/ /\ connector' = "none" /\ TellFailed
          /\ UNCHANGED <<disconnected, encodeError>>
    /\ UNCHANGED <<otherThanConnector, connecting, active, stopEvent, sentHeaders, sem, sender,
                   joinable, headed>>

ConnectFails ==
    /\ connector = "connect"
    /\ connector' = "failed"
    /\ UNCHANGED <<otherThanConnector, obsVars, flagVars, queueVars, sender, joinable, headed>>

\* init_send, up to `active`: the semaphore is replaced, and a sender that still
\* waits on the old one will not wake up.  The new sender may not come to be, or
\* may be left alone when the socket thread does not.  Connecting takes longer
\* than the last lines of a sender that has ended.
ConnectWorks ==
    /\ connector = "connect"
    /\ sender \in {"none", "wait"}
    /\ sem' = 0
    /\ headed' = FALSE
    /\ \/ sender' = "none" /\ connector' = "failed" /\ UNCHANGED joinable
       \/ sender' = "wait" /\ connector' \in {"failed", "activate"} /\ joinable' = TRUE
    /\ UNCHANGED <<otherThanConnector, obsVars, flagVars, queue>>

ConnectActivate ==
    /\ connector = "activate"
    /\ active' = TRUE
    /\ connector' = "metadata"
    /\ UNCHANGED <<otherThanConnector, obsVars, connecting, disconnected, encodeError, stopEvent,
                   sentHeaders, queueVars, sender, joinable, headed>>

\* send_meta_data, then obs_output_begin_data_capture
ConnectMetadata ==
    /\ connector = "metadata"
    /\ \/ connector' = "lost" /\ UNCHANGED obs
       \/ connector' = "detach" /\ obs' = "running"
    /\ UNCHANGED <<otherThanConnector, asked, flagVars, queueVars, sender, joinable, headed>>

ConnectTell ==
    /\ \/ connector = "failed" /\ TellFailed
       \/ connector = "lost" /\ TellLost
    /\ connector' = "detach"
    /\ UNCHANGED <<otherThanConnector, flagVars, queueVars, sender, joinable, headed>>

ConnectDetach ==
    /\ connector = "detach"
    /\ connector' = IF stopEvent THEN "finish" ELSE "detached"
    /\ UNCHANGED <<otherThanConnector, obsVars, flagVars, queueVars, sender, joinable, headed>>

ConnectEnd ==
    /\ connector \in {"detached", "finish"}
    /\ connecting' = FALSE
    /\ connector' = "none"
    /\ UNCHANGED <<otherThanConnector, obsVars, active, disconnected, encodeError, stopEvent,
                   sentHeaders, queueVars, sender, joinable, headed>>

Connector ==
    \/ ConnectInit \/ ConnectJoin \/ ConnectReset \/ ConnectFails \/ ConnectWorks
    \/ ConnectActivate \/ ConnectMetadata \/ ConnectTell \/ ConnectDetach \/ ConnectEnd

--------------------------------------------------------------------------------
(***************************************************************************)
(* rtmp_stream_data and rtmp_stream_data_direct                             *)
(***************************************************************************)

otherThanFeed == <<obsVars, ctlVars, connector, sender, joinable, headed>>

\* The encoders fill the delay buffer.
Push ==
    /\ obs = "running"
    /\ active /\ ~disconnected /\ ~encodeError
    /\ pacer = "empty"
    /\ pacer' = "stocked"
    /\ UNCHANGED <<otherThanFeed, feed, flagVars, queueVars>>

FeedCheck ==
    /\ pacer = "stocked"
    /\ feed = "none"
    /\ active /\ ~disconnected
    /\ queue < MaxPackets /\ sem < MaxPackets
    /\ feed' = "checked"
    /\ UNCHANGED <<otherThanFeed, pacer, flagVars, queueVars>>

\* Under packets_mutex: frames may be dropped, this one included.
FeedAdd ==
    /\ feed = "checked"
    /\ \/ ~disconnected /\ \E left \in 0 .. queue : queue' = left + 1 /\ feed' = "post"
       \/ ~disconnected /\ queue' \in 0 .. queue /\ feed' = "none"
       \/ disconnected /\ feed' = "none" /\ UNCHANGED queue
    /\ UNCHANGED <<otherThanFeed, pacer, flagVars, sem>>

\* Mutant of FeedPost: the semaphore is posted for the first packet alone.
FeedPostFirst ==
    /\ feed = "post"
    /\ sem' = IF queue = 1 THEN sem + 1 ELSE sem
    /\ feed' = "none"
    /\ UNCHANGED <<otherThanFeed, pacer, flagVars, queue>>

FeedPost ==
    /\ feed = "post"
    /\ sem' = sem + 1
    /\ feed' = "none"
    /\ UNCHANGED <<otherThanFeed, pacer, flagVars, queue>>

\* An encoder fails: OBS delivers no packet.
EncoderFails ==
    /\ obs = "running"
    /\ active /\ ~disconnected /\ ~encodeError
    /\ encodeError' = TRUE
    /\ sem' = sem + 1
    /\ UNCHANGED <<otherThanFeed, feedVars, connecting, active, disconnected, stopEvent,
                   sentHeaders, queue>>

--------------------------------------------------------------------------------
(***************************************************************************)
(* send_thread                                                              *)
(***************************************************************************)

otherThanSender == <<ctlVars, feedVars, connector>>

\* Mutant of SenderWake: the sender trusts the semaphore and takes a packet from
\* an empty queue.
SenderWakeUnchecked ==
    /\ sender = "wait"
    /\ sem > 0
    /\ sem' = sem - 1
    /\ \/ stopEvent /\ sender' = "decide" /\ UNCHANGED queue
       \/ ~stopEvent /\ queue' = queue - 1 /\ sender' = "send"
    /\ UNCHANGED <<otherThanSender, obsVars, flagVars, joinable, headed>>

\* The semaphore lets the sender through: a stop, a packet, or neither.
SenderWake ==
    /\ sender = "wait"
    /\ sem > 0
    /\ sem' = sem - 1
    /\ \/ stopEvent /\ sender' = "decide" /\ UNCHANGED queue
       \/ ~stopEvent /\ queue > 0 /\ queue' = queue - 1 /\ sender' = "send"
       \/ ~stopEvent /\ queue = 0 /\ UNCHANGED <<queue, sender>>
    /\ UNCHANGED <<otherThanSender, obsVars, flagVars, joinable, headed>>

\* can_shutdown_stream, or send_headers and the packet
SenderSend ==
    /\ sender = "send"
    /\ \/ /\ stopEvent
          /\ sender' = "decide"
          /\ UNCHANGED <<disconnected, sentHeaders, headed>>
       \/ /\ ~stopEvent
          /\ sentHeaders' = TRUE
          /\ \/ sender' = "wait" /\ headed' = (headed \/ ~sentHeaders) /\ UNCHANGED disconnected
             \/ sender' = "decide" /\ disconnected' = TRUE /\ UNCHANGED headed
    /\ UNCHANGED <<otherThanSender, obsVars, connecting, active, encodeError, stopEvent,
                   queueVars, joinable>>

\* Footers, the end of the connection, and whether this was a stop
SenderDecide ==
    /\ sender = "decide"
    /\ sender' = IF stopEvent THEN "tellEnd" ELSE "tellLost"
    /\ joinable' = (joinable /\ stopEvent)
    /\ UNCHANGED <<otherThanSender, obsVars, flagVars, queueVars, headed>>

\* obs_output_signal_stop, or obs_output_end_data_capture
SenderTell ==
    /\ \/ sender = "tellLost" /\ TellLost
       \/ sender = "tellEnd" /\ Tell("idle")
    /\ sender' = "drain"
    /\ UNCHANGED <<otherThanSender, flagVars, queueVars, joinable, headed>>

SenderDrain ==
    /\ sender = "drain"
    /\ queue' = 0
    /\ sender' = "resetEvent"
    /\ UNCHANGED <<otherThanSender, obsVars, flagVars, sem, joinable, headed>>

SenderResetEvent ==
    /\ sender = "resetEvent"
    /\ stopEvent' = FALSE
    /\ sender' = "clearActive"
    /\ UNCHANGED <<otherThanSender, obsVars, connecting, active, disconnected, encodeError,
                   sentHeaders, queueVars, joinable, headed>>

SenderClearActive ==
    /\ sender = "clearActive"
    /\ active' = FALSE
    /\ sender' = "clearHeaders"
    /\ UNCHANGED <<otherThanSender, obsVars, connecting, disconnected, encodeError, stopEvent,
                   sentHeaders, queueVars, joinable, headed>>

\* Mutant of SenderClearHeaders: the next connection starts without headers.
SenderKeepHeaders ==
    /\ sender = "clearHeaders"
    /\ sender' = "none"
    /\ UNCHANGED <<otherThanSender, obsVars, flagVars, queueVars, joinable, headed>>

SenderClearHeaders ==
    /\ sender = "clearHeaders"
    /\ sentHeaders' = FALSE
    /\ sender' = "none"
    /\ UNCHANGED <<otherThanSender, obsVars, connecting, active, disconnected, encodeError,
                   stopEvent, queueVars, joinable, headed>>

Sender ==
    \/ SenderWake \/ SenderSend \/ SenderDecide \/ SenderTell
    \/ SenderDrain \/ SenderResetEvent \/ SenderClearActive \/ SenderClearHeaders

--------------------------------------------------------------------------------
(***************************************************************************)
(* rtmp_stream_stop                                                         *)
(***************************************************************************)

otherThanCtl == <<starts, feed, connecting, active, disconnected, encodeError, sentHeaders,
                  queue, connector, sender, joinable, headed>>

BeginStop ==
    /\ ctl = "idle"
    /\ obs # "idle"
    /\ Settled
    /\ stops < MaxStops
    /\ stops' = stops + 1
    /\ asked' = TRUE
    /\ ctl' = "stopPacer"
    /\ UNCHANGED <<otherThanCtl, obs, pacer, stopEvent, sem>>

\* swd_stop, and whether a connection is being made
StopPacer ==
    /\ ctl = "stopPacer"
    /\ PacerJoined
    /\ pacer' = "off"
    /\ ctl' = IF connecting THEN "stopJoin" ELSE "stopRead"
    /\ UNCHANGED <<otherThanCtl, obsVars, stops, stopEvent, sem>>

StopJoin ==
    /\ ctl = "stopJoin"
    /\ ConnectorJoined
    /\ ctl' = "stopRead"
    /\ UNCHANGED <<otherThanCtl, obsVars, stops, pacer, stopEvent, sem>>

StopRead ==
    /\ ctl = "stopRead"
    /\ \/ active /\ ctl' = "stopPost" /\ UNCHANGED obsVars
       \/ ~active /\ ctl' = "idle" /\ Tell("idle")
    /\ UNCHANGED <<otherThanCtl, stops, pacer, stopEvent, sem>>

\* Mutant of StopPost: the sender is not woken.
StopQuietly ==
    /\ ctl = "stopPost"
    /\ stopEvent' = TRUE
    /\ ctl' = "idle"
    /\ UNCHANGED <<otherThanCtl, obsVars, stops, pacer, sem>>

StopPost ==
    /\ ctl = "stopPost"
    /\ stopEvent' = TRUE
    /\ sem' = sem + 1
    /\ ctl' = "idle"
    /\ UNCHANGED <<otherThanCtl, obsVars, stops, pacer>>

--------------------------------------------------------------------------------
(***************************************************************************)
(* rtmp_stream_destroy                                                      *)
(***************************************************************************)

BeginDestroy ==
    /\ ctl = "idle"
    /\ obs = "idle"
    /\ ctl' = "destroyPacer"
    /\ UNCHANGED <<otherThanCtl, obsVars, stops, pacer, stopEvent, sem>>

DestroyPacer ==
    /\ ctl = "destroyPacer"
    /\ PacerJoined
    /\ pacer' = "off"
    /\ ctl' = IF stopEvent /\ ~connecting THEN "destroyJoin"
              ELSE IF connecting THEN "destroyFirst"
              ELSE IF active THEN "destroyRest" ELSE "destroyed"
    /\ UNCHANGED <<otherThanCtl, obsVars, stops, stopEvent, sem>>

DestroyConnector ==
    /\ ctl = "destroyFirst"
    /\ ConnectorJoined
    /\ ctl' = "destroyRest"
    /\ UNCHANGED <<otherThanCtl, obsVars, stops, pacer, stopEvent, sem>>

\* Mutant of DestroyStop: the sender is told to end, and not waited for.
DestroyAtOnce ==
    /\ ctl = "destroyRest"
    /\ stopEvent' = TRUE
    /\ sem' = IF active THEN sem + 1 ELSE sem
    /\ ctl' = "destroyed"
    /\ UNCHANGED <<otherThanCtl, obsVars, stops, pacer>>

DestroyStop ==
    /\ ctl = "destroyRest"
    /\ stopEvent' = TRUE
    /\ sem' = IF active THEN sem + 1 ELSE sem
    /\ ctl' = IF active THEN "destroyJoin" ELSE "destroyed"
    /\ UNCHANGED <<otherThanCtl, obsVars, stops, pacer>>

DestroyJoin ==
    /\ ctl = "destroyJoin"
    /\ SenderJoined
    /\ ctl' = "destroyed"
    /\ UNCHANGED <<otherThanCtl, obsVars, stops, pacer, stopEvent, sem>>

--------------------------------------------------------------------------------
\* rtmp_stream_create
Init ==
    /\ obs = "idle" /\ asked = FALSE
    /\ ctl = "idle" /\ starts = 0 /\ stops = 0
    /\ pacer = "off" /\ feed = "none"
    /\ connecting = FALSE /\ active = FALSE /\ disconnected = FALSE /\ encodeError = FALSE
    /\ stopEvent = FALSE /\ sentHeaders = FALSE
    /\ sem = 0 /\ queue = 0
    /\ connector = "none" /\ sender = "none" /\ joinable = FALSE
    /\ headed = FALSE

\* What a call does once OBS has made it.
Control ==
    \/ StartPacer \/ StartThread
    \/ StopPacer \/ StopJoin \/ StopRead \/ StopPost
    \/ DestroyPacer \/ DestroyConnector \/ DestroyStop \/ DestroyJoin

Next ==
    \/ BeginStart \/ BeginStop \/ BeginDestroy
    \/ Control
    \/ Connector
    \/ Push
    \/ FeedCheck \/ FeedAdd \/ FeedPost
    \/ EncoderFails
    \/ Sender

Spec == Init /\ [][Next]_vars

\* Threads run, connections come about or time out, sends end.  The pacer ends
\* once it has fed the packets it had taken out, so that joining it succeeds
\* although other packets may go through rtmp_stream_data_direct first.
Fairness ==
    /\ WF_vars(Control)
    /\ SF_vars(StartPacer \/ StopPacer \/ DestroyPacer)
    /\ WF_vars(Connector)
    /\ WF_vars(FeedAdd \/ FeedPost)
    /\ WF_vars(Sender)

FairSpec == Spec /\ Fairness

--------------------------------------------------------------------------------
(***************************************************************************)
(* Properties                                                              *)
(***************************************************************************)

\* On every connection the headers go first, however the last one ended
\* (send_thread, sent_headers).
HeadersFirst == [][sender = "send" /\ sender' = "wait" => headed']_vars

\* No queued packet waits for a later one to be sent: while the sender sleeps,
\* every packet has its post, or gets it (rtmp_stream_data_direct).
QueueBacked ==
    active /\ ~disconnected /\ ~encodeError /\ sender = "wait"
        => queue <= sem + (IF feed = "post" THEN 1 ELSE 0)

\* The semaphore is replaced for a new connection only when the pacer is not
\* about to post it (reset_semaphore).
ResetQuiet == connector = "connect" => feed = "none"

\* Nobody will end this stream: the sender was never created, or it sleeps under
\* a stop event that came without a post.
Deaf == (active /\ sender = "none") \/ (sender = "wait" /\ stopEvent /\ sem = 0)

\* The sender is about to tell OBS of an end, or to see the stop event.
Answering ==
    \/ sender \in {"decide", "tellLost", "tellEnd"}
    \/ stopEvent /\ (sender = "send" \/ (sender = "wait" /\ sem > 0))

\* A stop that returns without having told OBS of the end has left that to a sender
\* that will not sleep over it (rtmp_stream_stop, send_thread).
StopPending == asked /\ ctl = "idle" => Answering \/ Deaf

\* Nothing makes a sender miss the stop it is about to answer: neither a new
\* connection nor the pacer nor another call (reset_semaphore, send_thread).
StopHeard == [][asked /\ Answering => Answering' \/ ~asked']_vars

\* OBS is told of the end of a stream it has stopped, whatever the connection does
\* meanwhile (rtmp_stream_stop, send_thread), unless nobody is left to tell it.
StopAnswered == asked /\ ~Deaf ~> ~asked

\* When the output is freed no thread runs in it any more: all are joined, but for
\* one that has detached itself or is at its last assignment.  A sender may sleep
\* on its semaphore for ever (rtmp_stream_destroy).
DestroyedAlone ==
    ctl = "destroyed" =>
        /\ feed = "none"
        /\ connector \in {"none", "detached"}
        /\ sender \in {"none", "wait", "clearHeaders"} \/ ~joinable

================================================================================
