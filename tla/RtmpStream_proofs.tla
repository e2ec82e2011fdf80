-------------------------- MODULE RtmpStream_proofs --------------------------
(***************************************************************************)
(* The safety properties of RtmpStream, proved for any number of starts,   *)
(* stops and packets.                                                      *)
(***************************************************************************)
EXTENDS RtmpStream, TLAPS

\* A call of start finds no connect thread and no captured data.
StartFromRest ==
    /\ ctl \in {"startPacer", "startThread"} => connector = "none" /\ obs # "running"
    /\ ctl = "startThread" => pacer = "empty" /\ feed = "none"

Early == {"init", "joinSender", "reset", "connect", "activate", "metadata", "failed", "lost"}

\* While the connection is made OBS delivers nothing, so that the pacer is idle.
ConnectQuiet ==
    /\ connector \in Early => obs # "running" /\ pacer # "stocked" /\ feed = "none"
    /\ connector \in {"connect", "activate"} => queue = 0

\* Whatever reaches a running sender comes from a stream OBS captures.
SendsCaptured ==
    sender \in {"wait", "send"} =>
        (sender = "send" \/ queue > 0 \/ feed # "none" \/ pacer = "stocked" \/ sentHeaders
            => obs = "running" /\ active)

\* sent_headers is about the connection at hand.
HeadersKnown ==
    /\ sender = "none" => ~sentHeaders
    /\ sender \in {"wait", "send"} /\ sentHeaders => headed

\* Every packet has its post while the sender is sending, too.
SendBacked ==
    active /\ ~disconnected /\ ~encodeError /\ sender \in {"wait", "send"}
        => queue <= sem + (IF feed = "post" THEN 1 ELSE 0)

IInv == TypeOK /\ StartFromRest /\ ConnectQuiet /\ SendsCaptured /\ HeadersKnown /\ SendBacked

\* The output as created satisfies the inductive invariant.
LEMMA InitInv == Init => IInv
<1> SUFFICES ASSUME Init PROVE IInv
  OBVIOUS
<1>1. Flags
  BY Zenon DEF Init, Flags
<1>2. Places /\ Counts
  BY ConstantsAssumption DEF Init, Places, Counts
<1>3. StartFromRest /\ ConnectQuiet /\ SendsCaptured /\ HeadersKnown /\ SendBacked
  BY DEF Init, StartFromRest, ConnectQuiet, Early, SendsCaptured, HeadersKnown, SendBacked
<1> QED
  BY <1>1, <1>2, <1>3 DEF IInv, TypeOK

\* A call that OBS makes keeps the inductive invariant.
LEMMA CallsKeep ==
    ASSUME IInv, BeginStart \/ BeginStop \/ BeginDestroy
    PROVE  IInv'
<1> USE ConstantsAssumption DEF IInv, TypeOK, Flags, Places, Counts, StartFromRest, ConnectQuiet, SendsCaptured, HeadersKnown, SendBacked, Early,
         Settled, Rested, otherThanCtl,
         vars, obsVars, ctlVars, feedVars, flagVars, queueVars
<1>1. CASE BeginStart
  BY <1>1 DEF BeginStart
<1>2. CASE BeginStop
  BY <1>2 DEF BeginStop
<1>3. CASE BeginDestroy
  BY <1>3 DEF BeginDestroy
<1> QED
  BY <1>1, <1>2, <1>3

\* What a call goes on to do keeps the inductive invariant.
LEMMA ControlKeeps ==
    ASSUME IInv, Control
    PROVE  IInv'
<1> USE ConstantsAssumption DEF IInv, TypeOK, Flags, Places, Counts, StartFromRest, ConnectQuiet, SendsCaptured, HeadersKnown, SendBacked, Early,
         PacerJoined, ConnectorJoined, SenderJoined, Tell, otherThanCtl,
         vars, obsVars, ctlVars, feedVars, flagVars, queueVars
<1>1. CASE StartPacer
  BY <1>1 DEF StartPacer
<1>2. CASE StartThread
  <2>1. Flags'
    BY <1>2, Zenon DEF StartThread
  <2>2. Places' /\ Counts'
    BY <1>2 DEF StartThread
  <2>3. StartFromRest' /\ ConnectQuiet'
    BY <1>2 DEF StartThread
  <2>4. SendsCaptured' /\ HeadersKnown' /\ SendBacked'
    BY <1>2 DEF StartThread
  <2> QED
    BY <2>1, <2>2, <2>3, <2>4
<1>3. CASE StopPacer
  BY <1>3 DEF StopPacer
<1>4. CASE StopJoin
  BY <1>4 DEF StopJoin
<1>5. CASE StopRead
  <2>1. Flags'
    BY <1>5, Zenon DEF StopRead
  <2>2. Places' /\ Counts'
    BY <1>5 DEF StopRead
  <2>3. StartFromRest' /\ ConnectQuiet'
    BY <1>5 DEF StopRead
  <2>4. SendsCaptured' /\ HeadersKnown' /\ SendBacked'
    BY <1>5 DEF StopRead
  <2> QED
    BY <2>1, <2>2, <2>3, <2>4
<1>6. CASE StopPost
  BY <1>6 DEF StopPost
<1>7. CASE DestroyPacer
  BY <1>7 DEF DestroyPacer
<1>8. CASE DestroyConnector
  BY <1>8 DEF DestroyConnector
<1>9. CASE DestroyStop
  BY <1>9 DEF DestroyStop
<1>10. CASE DestroyJoin
  BY <1>10 DEF DestroyJoin
<1> QED
  BY <1>1, <1>2, <1>3, <1>4, <1>5, <1>6, <1>7, <1>8, <1>9, <1>10 DEF Control

\* The connect thread keeps the inductive invariant.
LEMMA ConnectorKeeps ==
    ASSUME IInv, Connector
    PROVE  IInv'
<1> USE ConstantsAssumption DEF IInv, TypeOK, Flags, Places, Counts, StartFromRest, ConnectQuiet, SendsCaptured, HeadersKnown, SendBacked, Early,
         otherThanConnector, SenderJoined, Tell, TellLost, TellFailed,
         vars, obsVars, ctlVars, feedVars, flagVars, queueVars
<1>1. CASE ConnectInit
  BY <1>1 DEF ConnectInit
<1>2. CASE ConnectJoin
  BY <1>2 DEF ConnectJoin
<1>3. CASE ConnectReset
  <2>1. Flags'
    BY <1>3, Zenon DEF ConnectReset
  <2>2. Places' /\ Counts'
    BY <1>3 DEF ConnectReset
  <2>3. StartFromRest' /\ ConnectQuiet'
    BY <1>3 DEF ConnectReset
  <2>4. SendsCaptured' /\ HeadersKnown' /\ SendBacked'
    BY <1>3 DEF ConnectReset
  <2> QED
    BY <2>1, <2>2, <2>3, <2>4
<1>4. CASE ConnectFails
  BY <1>4 DEF ConnectFails
<1>5. CASE ConnectWorks
  <2>1. Flags'
    BY <1>5, Zenon DEF ConnectWorks
  <2>2. Places' /\ Counts'
    BY <1>5 DEF ConnectWorks
  <2>3. StartFromRest' /\ ConnectQuiet'
    BY <1>5 DEF ConnectWorks
  <2>4. SendsCaptured' /\ HeadersKnown' /\ SendBacked'
    BY <1>5 DEF ConnectWorks
  <2> QED
    BY <2>1, <2>2, <2>3, <2>4
<1>6. CASE ConnectActivate
  BY <1>6 DEF ConnectActivate
<1>7. CASE ConnectMetadata
  BY <1>7 DEF ConnectMetadata
<1>8. CASE ConnectTell
  <2>1. Flags'
    BY <1>8, Zenon DEF ConnectTell
  <2>2. Places' /\ Counts'
    BY <1>8 DEF ConnectTell
  <2>3. StartFromRest' /\ ConnectQuiet'
    BY <1>8 DEF ConnectTell
  <2>4. SendsCaptured' /\ HeadersKnown' /\ SendBacked'
    BY <1>8 DEF ConnectTell
  <2> QED
    BY <2>1, <2>2, <2>3, <2>4
<1>9. CASE ConnectDetach
  BY <1>9 DEF ConnectDetach
<1>10. CASE ConnectEnd
  <2>1. Flags'
    BY <1>10, Zenon DEF ConnectEnd
  <2>2. Places' /\ Counts'
    BY <1>10 DEF ConnectEnd
  <2>3. StartFromRest' /\ ConnectQuiet'
    BY <1>10 DEF ConnectEnd
  <2>4. SendsCaptured' /\ HeadersKnown' /\ SendBacked'
    BY <1>10 DEF ConnectEnd
  <2> QED
    BY <2>1, <2>2, <2>3, <2>4
<1> QED
  BY <1>1, <1>2, <1>3, <1>4, <1>5, <1>6, <1>7, <1>8, <1>9, <1>10 DEF Connector

\* The encoders and the pacer keep the inductive invariant.
LEMMA FeedKeeps ==
    ASSUME IInv, Push \/ FeedCheck \/ FeedAdd \/ FeedPost \/ EncoderFails
    PROVE  IInv'
<1> USE ConstantsAssumption DEF IInv, TypeOK, Flags, Places, Counts, StartFromRest, ConnectQuiet, SendsCaptured, HeadersKnown, SendBacked, Early,
         otherThanFeed,
         vars, obsVars, ctlVars, feedVars, flagVars, queueVars
<1>1. CASE Push
  BY <1>1 DEF Push
<1>2. CASE FeedCheck
  BY <1>2 DEF FeedCheck
<1>3. CASE FeedAdd
  BY <1>3 DEF FeedAdd
<1>4. CASE FeedPost
  BY <1>4 DEF FeedPost
<1>5. CASE EncoderFails
  BY <1>5 DEF EncoderFails
<1> QED
  BY <1>1, <1>2, <1>3, <1>4, <1>5

\* The send thread keeps the inductive invariant.
LEMMA SenderKeeps ==
    ASSUME IInv, Sender
    PROVE  IInv'
<1> USE ConstantsAssumption DEF IInv, TypeOK, Flags, Places, Counts, StartFromRest, ConnectQuiet, SendsCaptured, HeadersKnown, SendBacked, Early,
         otherThanSender, Tell, TellLost,
         vars, obsVars, ctlVars, feedVars, flagVars, queueVars
<1>1. CASE SenderWake
  BY <1>1 DEF SenderWake
<1>2. CASE SenderSend
  <2>1. Flags'
    BY <1>2, Zenon DEF SenderSend
  <2>2. Places' /\ Counts'
    BY <1>2 DEF SenderSend
  <2>3. StartFromRest' /\ ConnectQuiet'
    BY <1>2 DEF SenderSend
  <2>4. SendsCaptured' /\ HeadersKnown' /\ SendBacked'
    BY <1>2 DEF SenderSend
  <2> QED
    BY <2>1, <2>2, <2>3, <2>4
<1>3. CASE SenderDecide
  BY <1>3 DEF SenderDecide
<1>4. CASE SenderTell
  <2>1. Flags'
    BY <1>4, Zenon DEF SenderTell
  <2>2. Places' /\ Counts'
    BY <1>4 DEF SenderTell
  <2>3. StartFromRest' /\ ConnectQuiet'
    BY <1>4 DEF SenderTell
  <2>4. SendsCaptured' /\ HeadersKnown' /\ SendBacked'
    BY <1>4 DEF SenderTell
  <2> QED
    BY <2>1, <2>2, <2>3, <2>4
<1>5. CASE SenderDrain
  BY <1>5 DEF SenderDrain
<1>6. CASE SenderResetEvent
  <2>1. Flags'
    BY <1>6, Zenon DEF SenderResetEvent
  <2>2. Places' /\ Counts'
    BY <1>6 DEF SenderResetEvent
  <2>3. StartFromRest' /\ ConnectQuiet'
    BY <1>6 DEF SenderResetEvent
  <2>4. SendsCaptured' /\ HeadersKnown' /\ SendBacked'
    BY <1>6 DEF SenderResetEvent
  <2> QED
    BY <2>1, <2>2, <2>3, <2>4
<1>7. CASE SenderClearActive
  <2>1. Flags'
    BY <1>7, Zenon DEF SenderClearActive
  <2>2. Places' /\ Counts'
    BY <1>7 DEF SenderClearActive
  <2>3. StartFromRest' /\ ConnectQuiet'
    BY <1>7 DEF SenderClearActive
  <2>4. SendsCaptured' /\ HeadersKnown' /\ SendBacked'
    BY <1>7 DEF SenderClearActive
  <2> QED
    BY <2>1, <2>2, <2>3, <2>4
<1>8. CASE SenderClearHeaders
  <2>1. Flags'
    BY <1>8, Zenon DEF SenderClearHeaders
  <2>2. Places' /\ Counts'
    BY <1>8 DEF SenderClearHeaders
  <2>3. StartFromRest' /\ ConnectQuiet'
    BY <1>8 DEF SenderClearHeaders
  <2>4. SendsCaptured' /\ HeadersKnown' /\ SendBacked'
    BY <1>8 DEF SenderClearHeaders
  <2> QED
    BY <2>1, <2>2, <2>3, <2>4
<1> QED
  BY <1>1, <1>2, <1>3, <1>4, <1>5, <1>6, <1>7, <1>8 DEF Sender

\* The inductive invariant holds throughout.
THEOREM Invariance == Spec => []IInv
<1>1. Init => IInv
  BY InitInv
<1>2. IInv /\ [Next]_vars => IInv'
  <2> SUFFICES ASSUME IInv, [Next]_vars PROVE IInv'
    OBVIOUS
  <2>1. CASE BeginStart \/ BeginStop \/ BeginDestroy
    BY <2>1, CallsKeep
  <2>2. CASE Control
    BY <2>2, ControlKeeps
  <2>3. CASE Connector
    BY <2>3, ConnectorKeeps
  <2>4. CASE Push \/ FeedCheck \/ FeedAdd \/ FeedPost \/ EncoderFails
    BY <2>4, FeedKeeps
  <2>5. CASE Sender
    BY <2>5, SenderKeeps
  <2>6. CASE UNCHANGED vars
    BY <2>6 DEF vars, obsVars, ctlVars, feedVars, flagVars, queueVars, IInv, TypeOK, Flags,
                Places, Counts, StartFromRest, ConnectQuiet, Early, SendsCaptured,
                HeadersKnown, SendBacked
  <2> QED
    BY <2>1, <2>2, <2>3, <2>4, <2>5, <2>6 DEF Next
<1> QED
  BY <1>1, <1>2, PTL DEF Spec

\* rtmp-stream.c keeps its state within its types: above all, the sender never
\* takes a packet from an empty queue (send_thread, get_next_packet).
THEOREM TypeCorrect == Spec => []TypeOK
<1>1. IInv => TypeOK
  BY DEF IInv
<1> QED
  BY <1>1, Invariance, PTL

\* No queued packet waits for a later one to be sent (rtmp_stream_data_direct,
\* send_thread).
THEOREM PacketsBacked == Spec => []QueueBacked
<1>1. IInv => QueueBacked
  BY DEF IInv, SendBacked, QueueBacked
<1> QED
  BY <1>1, Invariance, PTL

\* The semaphore is never replaced while the pacer may post it (reset_semaphore,
\* swd_start).
THEOREM ResetSafe == Spec => []ResetQuiet
<1>1. IInv => ResetQuiet
  BY DEF IInv, ConnectQuiet, Early, ResetQuiet
<1> QED
  BY <1>1, Invariance, PTL

\* The headers go first on every connection (send_thread, sent_headers).
THEOREM HeadersAlways == Spec => HeadersFirst
<1>1. IInv /\ [Next]_vars => [sender = "send" /\ sender' = "wait" => headed']_vars
  <2> SUFFICES ASSUME IInv, Next, sender = "send", sender' = "wait" PROVE headed'
    BY DEF vars
  <2>1. ~(BeginStart \/ BeginStop \/ BeginDestroy \/ Control)
    BY DEF BeginStart, BeginStop, BeginDestroy, Control, StartPacer, StartThread, StopPacer,
           StopJoin, StopRead, StopPost, DestroyPacer, DestroyConnector, DestroyStop,
           DestroyJoin, otherThanCtl
  <2>2. ~(Push \/ FeedCheck \/ FeedAdd \/ FeedPost \/ EncoderFails)
    BY DEF Push, FeedCheck, FeedAdd, FeedPost, EncoderFails, otherThanFeed
  <2>3. ~Connector
    BY DEF Connector, ConnectInit, ConnectJoin, ConnectReset, ConnectFails, ConnectWorks,
           ConnectActivate, ConnectMetadata, ConnectTell, ConnectDetach, ConnectEnd
  <2>4. SenderSend
    BY <2>1, <2>2, <2>3 DEF Next, Sender, SenderWake, SenderDecide, SenderTell, SenderDrain,
           SenderResetEvent, SenderClearActive, SenderClearHeaders
  <2> QED
    BY <2>4 DEF SenderSend, IInv, HeadersKnown
<1> QED
  BY <1>1, Invariance, PTL DEF Spec, HeadersFirst

--------------------------------------------------------------------------------
\* The end of the output: who can still run when it is freed

\* Nobody is being connected for: the connect thread has done its work, or is not there.
Destroying == {"destroyPacer", "destroyFirst", "destroyRest", "destroyJoin", "destroyed"}
PastConnector == {"destroyRest", "destroyJoin", "destroyed"}

\* `connecting` covers the thread, and OBS waits for a start as long as the connection is made;
\* who has looked at `connecting`, or joined the thread, will not meet it again.
ConnectorKnown ==
    /\ connector # "none" => connecting
    /\ connector \in Early \/ ctl \in {"startPacer", "startThread"} =>
          obs \in {"starting", "reconnecting"}
    /\ ctl \in {"stopRead", "stopPost"} \cup Destroying => connector \notin Early
    /\ ctl \in PastConnector => connector \in {"none", "detached"}

\* A sender sleeps while a connection is made, and one that was left alone never wakes up: without
\* `active` nobody posts.
SleepersSleep ==
    /\ connector \in Early \/ ctl \in {"startPacer", "startThread"} =>
          sender \in {"none", "wait"} /\ (sender = "wait" /\ stopEvent => sem = 0)
    /\ sender = "wait" /\ ~active => sem = 0
    /\ active \/ sender \in {"none", "wait", "clearHeaders"}
    /\ ctl = "stopPost" => active \/ sender \in {"none", "clearHeaders"}

\* From the first join on nothing comes out of the delay buffer.
PacerGone ==
    /\ ctl \in Destroying => obs # "running"
    /\ ctl \in Destroying \ {"destroyPacer"} => pacer = "off" /\ feed = "none"

SenderGone ==
    ctl = "destroyed" =>
        ~joinable \/ sender = "none" \/ (~active /\ sender \in {"wait", "clearHeaders"})

EndInv == ConnectorKnown /\ SleepersSleep /\ PacerGone /\ SenderGone

\* The output as created has ended nothing.
LEMMA EndStarts == Init => EndInv
BY DEF Init, TypeOK, Flags, Places, Counts, StartFromRest, ConnectQuiet, SendsCaptured, Early,
         EndInv, ConnectorKnown, SleepersSleep, PacerGone, SenderGone, Destroying, PastConnector

\* What OBS asks for keeps the order of the end.
LEMMA CallsEnd ==
    ASSUME IInv, EndInv, BeginStart \/ BeginStop \/ BeginDestroy
    PROVE  EndInv'
<1> USE ConstantsAssumption DEF IInv, TypeOK, Flags, Places, Counts, StartFromRest, ConnectQuiet, SendsCaptured, Early,
         EndInv, ConnectorKnown, SleepersSleep, PacerGone, SenderGone, Destroying, PastConnector,
         Settled, Rested, otherThanCtl, obsVars, ctlVars, feedVars, flagVars, queueVars
<1>1. CASE BeginStart
  BY <1>1 DEF BeginStart
<1>2. CASE BeginStop
  BY <1>2 DEF BeginStop
<1>3. CASE BeginDestroy
  BY <1>3 DEF BeginDestroy
<1> QED
  BY <1>1, <1>2, <1>3

\* A call of OBS keeps the order of the end.
LEMMA ControlEnds ==
    ASSUME IInv, EndInv, Control
    PROVE  EndInv'
<1> USE ConstantsAssumption DEF IInv, TypeOK, Flags, Places, Counts, StartFromRest, ConnectQuiet, SendsCaptured, Early,
         EndInv, ConnectorKnown, SleepersSleep, PacerGone, SenderGone, Destroying, PastConnector,
         PacerJoined, ConnectorJoined, SenderJoined, Tell, otherThanCtl, obsVars, ctlVars, feedVars, flagVars, queueVars
<1>1. CASE StartPacer
  BY <1>1 DEF StartPacer
<1>2. CASE StartThread
  BY <1>2 DEF StartThread
<1>3. CASE StopPacer
  BY <1>3 DEF StopPacer
<1>4. CASE StopJoin
  BY <1>4 DEF StopJoin
<1>5. CASE StopRead
  BY <1>5 DEF StopRead
<1>6. CASE StopPost
  BY <1>6 DEF StopPost
<1>7. CASE DestroyPacer
  BY <1>7 DEF DestroyPacer
<1>8. CASE DestroyConnector
  BY <1>8 DEF DestroyConnector
<1>9. CASE DestroyStop
  BY <1>9 DEF DestroyStop
<1>10. CASE DestroyJoin
  BY <1>10 DEF DestroyJoin
<1> QED
  BY <1>1, <1>2, <1>3, <1>4, <1>5, <1>6, <1>7, <1>8, <1>9, <1>10 DEF Control

\* The connect thread keeps the order of the end.
LEMMA ConnectorEnds ==
    ASSUME IInv, EndInv, Connector
    PROVE  EndInv'
<1> USE ConstantsAssumption DEF IInv, TypeOK, Flags, Places, Counts, StartFromRest, ConnectQuiet, SendsCaptured, Early,
         EndInv, ConnectorKnown, SleepersSleep, PacerGone, SenderGone, Destroying, PastConnector,
         otherThanConnector, SenderJoined, Tell, TellLost, TellFailed, obsVars, ctlVars, feedVars, flagVars, queueVars
<1>1. CASE ConnectInit
  BY <1>1 DEF ConnectInit
<1>2. CASE ConnectJoin
  BY <1>2 DEF ConnectJoin
<1>3. CASE ConnectReset
  BY <1>3 DEF ConnectReset
<1>4. CASE ConnectFails
  BY <1>4 DEF ConnectFails
<1>5. CASE ConnectWorks
  BY <1>5 DEF ConnectWorks
<1>6. CASE ConnectActivate
  BY <1>6 DEF ConnectActivate
<1>7. CASE ConnectMetadata
  BY <1>7 DEF ConnectMetadata
<1>8. CASE ConnectTell
  BY <1>8 DEF ConnectTell
<1>9. CASE ConnectDetach
  BY <1>9 DEF ConnectDetach
<1>10. CASE ConnectEnd
  BY <1>10 DEF ConnectEnd
<1> QED
  BY <1>1, <1>2, <1>3, <1>4, <1>5, <1>6, <1>7, <1>8, <1>9, <1>10 DEF Connector

\* The encoders and the pacer keep the order of the end.
LEMMA FeedEnds ==
    ASSUME IInv, EndInv, Push \/ FeedCheck \/ FeedAdd \/ FeedPost \/ EncoderFails
    PROVE  EndInv'
<1> USE ConstantsAssumption DEF IInv, TypeOK, Flags, Places, Counts, StartFromRest, ConnectQuiet, SendsCaptured, Early,
         EndInv, ConnectorKnown, SleepersSleep, PacerGone, SenderGone, Destroying, PastConnector,
         otherThanFeed, obsVars, ctlVars, feedVars, flagVars, queueVars
<1>1. CASE Push
  BY <1>1 DEF Push
<1>2. CASE FeedCheck
  BY <1>2 DEF FeedCheck
<1>3. CASE FeedAdd
  BY <1>3 DEF FeedAdd
<1>4. CASE FeedPost
  BY <1>4 DEF FeedPost
<1>5. CASE EncoderFails
  BY <1>5 DEF EncoderFails
<1> QED
  BY <1>1, <1>2, <1>3, <1>4, <1>5

\* The send thread keeps the order of the end.
LEMMA SenderEnds ==
    ASSUME IInv, EndInv, Sender
    PROVE  EndInv'
<1> USE ConstantsAssumption DEF IInv, TypeOK, Flags, Places, Counts, StartFromRest, ConnectQuiet, SendsCaptured, Early,
         EndInv, ConnectorKnown, SleepersSleep, PacerGone, SenderGone, Destroying, PastConnector,
         otherThanSender, Tell, TellLost, obsVars, ctlVars, feedVars, flagVars, queueVars
<1>1. CASE SenderWake
  BY <1>1 DEF SenderWake
<1>2. CASE SenderSend
  BY <1>2 DEF SenderSend
<1>3. CASE SenderDecide
  BY <1>3 DEF SenderDecide
<1>4. CASE SenderTell
  BY <1>4 DEF SenderTell
<1>5. CASE SenderDrain
  BY <1>5 DEF SenderDrain
<1>6. CASE SenderResetEvent
  BY <1>6 DEF SenderResetEvent
<1>7. CASE SenderClearActive
  BY <1>7 DEF SenderClearActive
<1>8. CASE SenderClearHeaders
  BY <1>8 DEF SenderClearHeaders
<1> QED
  BY <1>1, <1>2, <1>3, <1>4, <1>5, <1>6, <1>7, <1>8 DEF Sender

\* Threads are joined in the order of the code, whatever was under way.
THEOREM EndInvariance == Spec => [](IInv /\ EndInv)
<1>1. Init => EndInv
  BY EndStarts
<1>2. IInv /\ EndInv /\ [Next]_vars => EndInv'
  <2> SUFFICES ASSUME IInv, EndInv, [Next]_vars PROVE EndInv'
    OBVIOUS
  <2>1. CASE BeginStart \/ BeginStop \/ BeginDestroy
    BY <2>1, CallsEnd
  <2>2. CASE Control
    BY <2>2, ControlEnds
  <2>3. CASE Connector
    BY <2>3, ConnectorEnds
  <2>4. CASE Push \/ FeedCheck \/ FeedAdd \/ FeedPost \/ EncoderFails
    BY <2>4, FeedEnds
  <2>5. CASE Sender
    BY <2>5, SenderEnds
  <2>6. CASE UNCHANGED vars
    BY <2>6 DEF vars, obsVars, ctlVars, feedVars, flagVars, queueVars, EndInv, ConnectorKnown,
                SleepersSleep, PacerGone, SenderGone, Early, Destroying, PastConnector
  <2> QED
    BY <2>1, <2>2, <2>3, <2>4, <2>5, <2>6 DEF Next
<1> QED
  BY <1>1, <1>2, Invariance, PTL DEF Spec

\* When rtmp_stream_destroy frees the output no thread runs in it, but for one that has detached
\* itself or is at its last assignment, and a sender that will sleep for ever.
THEOREM FreedAlone == Spec => []DestroyedAlone
<1>1. EndInv => DestroyedAlone
  BY DEF EndInv, ConnectorKnown, PacerGone, SenderGone, Destroying, PastConnector, DestroyedAlone
<1> QED
  BY <1>1, EndInvariance, PTL

--------------------------------------------------------------------------------
\* The answer to a stop

\* A stop is asked of a stream that has not ended; once it has joined the connect thread no new
\* connection comes between, and what it found active stays so until OBS is told.
StopSeen ==
    /\ asked => sender \notin SenderTail /\ ctl \notin {"startPacer", "startThread"}
    /\ asked /\ ctl \in {"stopRead", "stopPost", "idle"} => connector \in {"none", "detached"}
    /\ asked /\ ctl \in {"stopPost", "idle"} => active
    /\ asked /\ ctl = "idle" => stopEvent

\* No step of OBS, of the connect thread, of the feed or of the sender gets in the way of a stop.
LEMMA StopKept ==
    ASSUME IInv, EndInv, StopSeen, [Next]_vars
    PROVE  StopSeen'
<1> USE ConstantsAssumption DEF IInv, TypeOK, Flags, Places, Counts, EndInv, ConnectorKnown, Early,
        StopSeen, SenderTail, obsVars, ctlVars, feedVars, flagVars, queueVars
<1>1. CASE BeginStart \/ BeginStop \/ BeginDestroy
  BY <1>1 DEF BeginStart, BeginStop, BeginDestroy, Settled, otherThanCtl
<1>2. CASE StartPacer \/ StartThread
  BY <1>2 DEF StartPacer, StartThread, Tell
<1>3. CASE StopPacer \/ StopJoin \/ StopRead \/ StopPost
  BY <1>3 DEF StopPacer, StopJoin, StopRead, StopPost, ConnectorJoined, Tell, otherThanCtl
<1>4. CASE DestroyPacer \/ DestroyConnector \/ DestroyStop \/ DestroyJoin
  BY <1>4 DEF DestroyPacer, DestroyConnector, DestroyStop, DestroyJoin, otherThanCtl
<1>5. CASE Connector
  BY <1>5 DEF Connector, ConnectInit, ConnectJoin, ConnectReset, ConnectFails, ConnectWorks,
     ConnectActivate, ConnectMetadata, ConnectTell, ConnectDetach, ConnectEnd, TellFailed, TellLost,
     Tell, otherThanConnector
<1>6. CASE Push \/ FeedCheck \/ FeedAdd \/ FeedPost \/ EncoderFails
  BY <1>6 DEF Push, FeedCheck, FeedAdd, FeedPost, EncoderFails, otherThanFeed
<1>7. CASE Sender
  BY <1>7 DEF Sender, SenderWake, SenderSend, SenderDecide, SenderTell, SenderDrain,
     SenderResetEvent, SenderClearActive, SenderClearHeaders, TellLost, Tell, otherThanSender
<1>8. CASE UNCHANGED vars
  BY <1>8 DEF vars
<1> QED
  BY <1>1, <1>2, <1>3, <1>4, <1>5, <1>6, <1>7, <1>8 DEF Next, Control

\* No step makes a sender that is about to answer a stop sleep over it.
LEMMA AnswerKept ==
    ASSUME IInv, EndInv, StopSeen, [Next]_vars, asked, Answering
    PROVE  Answering' \/ ~asked'
<1> USE DEF obsVars, ctlVars, feedVars, flagVars, queueVars
<1>1. sem \in Nat /\ sem + 1 > 0
  BY DEF IInv, TypeOK, Counts
<1>2. ctl \notin {"startPacer", "startThread"} /\ sender \notin SenderTail
  BY DEF StopSeen
<1>3. CASE Sender
  <2>1. CASE SenderWake
    <3>1. sender = "wait" /\ sender' = "decide"
      BY <2>1 DEF SenderWake, Answering
    <3> QED
      BY <3>1 DEF Answering
  <2>2. CASE SenderSend
    <3>1. sender = "send" /\ stopEvent /\ sender' = "decide"
      BY <2>2 DEF SenderSend, Answering
    <3> QED
      BY <3>1 DEF Answering
  <2>3. CASE SenderDecide
    BY <2>3 DEF SenderDecide, Answering
  <2>4. CASE SenderTell
    BY <2>4 DEF SenderTell, TellLost, Tell
  <2>5. CASE SenderDrain \/ SenderResetEvent \/ SenderClearActive \/ SenderClearHeaders
    BY <1>2, <2>5 DEF SenderDrain, SenderResetEvent, SenderClearActive, SenderClearHeaders,
       SenderTail
  <2> QED
    BY <1>3, <2>1, <2>2, <2>3, <2>4, <2>5 DEF Sender
<1>4. CASE ConnectWorks
  <2>1. sender # "wait"
    BY <1>4 DEF ConnectWorks, EndInv, SleepersSleep, Early, Answering
  <2> QED
    BY <1>4, <2>1 DEF ConnectWorks, Answering
<1>5. ASSUME sender' = sender, stopEvent => stopEvent', sem' = sem \/ sem' = sem + 1
      PROVE  Answering'
  BY <1>1, <1>5 DEF Answering
<1>6. CASE BeginStart \/ BeginStop \/ BeginDestroy
  BY <1>5, <1>6 DEF BeginStart, BeginStop, BeginDestroy, otherThanCtl
<1>7. CASE StartPacer \/ StartThread
  BY <1>2, <1>7 DEF StartPacer, StartThread
<1>8. CASE StopPacer \/ StopJoin \/ StopRead \/ StopPost
  BY <1>5, <1>8 DEF StopPacer, StopJoin, StopRead, StopPost, otherThanCtl
<1>9. CASE DestroyPacer \/ DestroyConnector \/ DestroyStop \/ DestroyJoin
  BY <1>5, <1>9 DEF DestroyPacer, DestroyConnector, DestroyStop, DestroyJoin, otherThanCtl
<1>10. CASE Connector /\ ~ConnectWorks
  <2>1. UNCHANGED <<sender, stopEvent, sem>>
    BY <1>10 DEF Connector, ConnectInit, ConnectJoin, ConnectReset, ConnectFails, ConnectActivate,
       ConnectMetadata, ConnectTell, ConnectDetach, ConnectEnd
  <2> QED
    BY <1>5, <2>1
<1>11. CASE Push \/ FeedCheck \/ FeedAdd \/ FeedPost \/ EncoderFails
  BY <1>5, <1>11 DEF Push, FeedCheck, FeedAdd, FeedPost, EncoderFails, otherThanFeed
<1>12. CASE UNCHANGED vars
  <2>1. UNCHANGED <<sender, stopEvent, sem>>
    BY <1>12 DEF vars
  <2> QED
    BY <1>5, <2>1
<1> QED
  BY <1>3, <1>4, <1>6, <1>7, <1>8, <1>9, <1>10, <1>11, <1>12 DEF Next, Control

\* Every stop finds the stream as it should, for any number of starts and stops.
LEMMA StopInvariance == Spec => [](IInv /\ EndInv /\ StopSeen)
<1>1. Init => StopSeen
  BY DEF Init, StopSeen
<1>2. IInv /\ EndInv /\ StopSeen /\ [Next]_vars => StopSeen'
  BY StopKept
<1> QED
  BY <1>1, <1>2, EndInvariance, PTL DEF Spec

\* A stop that returns without having told OBS of the end leaves it to a sender that is about to, or
\* will be woken; the two ways in which nobody is left are those of Deaf.
THEOREM StopsPending == Spec => []StopPending
<1>1. IInv /\ EndInv /\ StopSeen => StopPending
  <2> SUFFICES ASSUME IInv, StopSeen, asked, ctl = "idle" PROVE Answering \/ Deaf
    BY DEF StopPending
  <2>1. stopEvent /\ active /\ sender \notin SenderTail
    BY DEF StopSeen
  <2>2. sender \in {"none", "wait", "send", "decide", "tellLost", "tellEnd"}
    BY <2>1 DEF IInv, TypeOK, Places, SenderTail
  <2>3. sem \in Nat
    BY DEF IInv, TypeOK, Counts
  <2> QED
    BY <2>1, <2>2, <2>3 DEF Answering, Deaf
<1> QED
  BY <1>1, StopInvariance, PTL

\* Once the sender is about to answer a stop it stays so until OBS is told, whatever the connect
\* thread, the pacer and OBS do.
THEOREM StopsHeard == Spec => StopHeard
<1>1. IInv /\ EndInv /\ StopSeen /\ [Next]_vars => [asked /\ Answering => Answering' \/ ~asked']_vars
  BY AnswerKept
<1> QED
  BY <1>1, StopInvariance, PTL DEF Spec, StopHeard

================================================================================
