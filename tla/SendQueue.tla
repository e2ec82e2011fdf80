----------------------------- MODULE SendQueue -----------------------------
(***************************************************************************)
(* The packet queue between the feed (the pacer thread, or the encoders)   *)
(* and the send thread of the RTMP output, in rtmp-stream.c: which frames  *)
(* are dropped when the network is slow, and how the bitrate of the        *)
(* encoder is lowered, raised and restored.                                *)
(*                                                                         *)
(* The k-th packet of a stream is the number k: packets come in the order  *)
(* of their numbers, so the deque is the set of the numbers it holds and   *)
(* its front the smallest.  At each time one packet of every video track   *)
(* comes, then one of audio; the groups of the tracks are aligned.         *)
(***************************************************************************)
EXTENDS Integers, FiniteSets

CONSTANTS
    VideoTracks,     \* number of video tracks
    GopLen,          \* frames from one keyframe to the next
    DropThreshold,   \* drop_threshold_usec, in frames
    PDropThreshold,  \* pframe_drop_threshold_usec, in frames
    Trigger,         \* DBR_TRIGGER_USEC, in frames
    Few,             \* below this number of packets nothing is dropped: 5 in the code
    Settings,        \* the bitrates the user may set in the encoder
    Estimates,       \* what dbr_add_frame may estimate, 0 for nothing yet
    MaxPackets,      \* packets of a stream
    MaxStreams       \* streams, one after the other

ASSUME ConstantsAssumption ==
    /\ VideoTracks \in Nat \ {0} /\ GopLen \in Nat \ {0} /\ Few \in Nat
    /\ DropThreshold \in Nat /\ Trigger \in Nat
    /\ PDropThreshold \in Nat /\ DropThreshold <= PDropThreshold
    /\ Settings \subseteq Nat /\ \A b \in Settings : b >= 50
    /\ Estimates \subseteq Nat /\ \A e \in Estimates : e = 0 \/ e >= 50
    /\ MaxPackets \in Nat /\ MaxStreams \in Nat

VARIABLES
    queue,      \* packets: the numbers of the packets in the deque
    fed,        \* number of packets the feed has dealt with
    min,        \* min_priority
    lastDts,    \* last_dts_usec
    sent,       \* the packets taken for sending on this stream
    sending,    \* the last of them is on its way
    feed,       \* where rtmp_stream_data_direct is
    stream,     \* what goes on: on, stopping, lost, reset, restored, over
    dbr,        \* dbr_enabled
    cur, prev,  \* dbr_cur_bitrate, dbr_prev_bitrate
    orig,       \* dbr_orig_bitrate
    timer,      \* dbr_inc_timeout is set
    est,        \* dbr_est_bitrate
    encoder,    \* the bitrate in the settings of the encoder
    wanted,     \* the bitrate the user has chosen
    raced,      \* the feed was at the bitrate while the sender restored it
    streams     \* streams begun

queueVars == <<queue, fed, min, lastDts, sent, sending>>
rateVars  == <<cur, prev, orig, timer, est, encoder, wanted>>
vars == <<queueVars, feed, stream, dbr, rateVars, raced, streams>>

-----------------------------------------------------------------------------
\* Packets

Disposable == 0
Low        == 1
High       == 2
Highest    == 3

Width      == VideoTracks + 1
Dts(k)     == k \div Width
Track(k)   == k % Width
IsAudio(k) == Track(k) = VideoTracks
IsKey(k)   == ~IsAudio(k) /\ Dts(k) % GopLen = 0

\* drop_priority, as obs_parse_avc_packet takes it from the NAL units: keyframe, then groups of
\* a frame others refer to, a B-frame others refer to, and one nothing refers to.
Priority(k) ==
    IF IsKey(k) THEN Highest
    ELSE CASE (Dts(k) % GopLen) % 3 = 1 -> High
           [] (Dts(k) % GopLen) % 3 = 2 -> Low
           [] OTHER -> Disposable

SameGop(j, k) == Track(j) = Track(k) /\ Dts(j) \div GopLen = Dts(k) \div GopLen

\* Frame k cannot be decoded without frame j.
Refers(k, j) ==
    /\ ~IsAudio(k) /\ SameGop(j, k) /\ j < k
    /\ \/ Priority(j) >= High
       \/ /\ Priority(j) > Priority(k)
          /\ \A i \in j .. k : SameGop(i, k) => Priority(i) < High

-----------------------------------------------------------------------------
\* Dropping

\* find_first_video_packet
Waiting(q) == {k \in q : ~IsAudio(k) /\ ~IsKey(k)}
First(S)   == CHOOSE k \in S : \A j \in S : k <= j

\* The span of time in a queue: buffer_duration_usec.
Span(q) == lastDts - Dts(First(Waiting(q)))

\* check_to_drop_frames up to the comparison with the threshold.
Exceeds(q, threshold) ==
    /\ Cardinality(q) >= Few
    /\ Waiting(q) # {}
    /\ Span(q) > threshold

\* drop_frames
DropFrames(q, highest) == {k \in q : IsAudio(k) \/ Priority(k) >= highest}

\* Mutant: what follows the dropped frames is taken.
RaiseMinNot(m, highest) == m

RaiseMin(m, highest) == IF m < highest THEN highest ELSE m

\* The two calls of check_to_drop_frames, without dynamic bitrate: what they leave of the queue
\* and of min_priority.
AfterBDrop ==
    IF ~dbr /\ Exceeds(queue, DropThreshold)
    THEN [q |-> DropFrames(queue, High), m |-> RaiseMin(min, High)]
    ELSE [q |-> queue, m |-> min]

\* Mutant: the second call is missing.
AfterBDropOnly == AfterBDrop

AfterDrops ==
    LET b == AfterBDrop
    IN  IF ~dbr /\ Exceeds(b.q, PDropThreshold)
        THEN [q |-> DropFrames(b.q, Highest), m |-> RaiseMin(b.m, Highest)]
        ELSE b

-----------------------------------------------------------------------------
\* The feed: rtmp_stream_data_direct, with packets_mutex held from FeedLock to FeedAdd

Locked == feed \notin {"idle", "lock"}

\* disconnected and active are read before the lock ...
FeedEnter ==
    /\ feed = "idle" /\ fed < MaxPackets
    /\ \/ /\ stream = "on" /\ feed' = "lock" /\ UNCHANGED fed
       \/ /\ stream \in {"lost", "reset", "restored"} /\ fed' = fed + 1 /\ UNCHANGED feed
    /\ UNCHANGED <<queue, min, lastDts, sent, sending, stream, dbr, rateVars, raced, streams>>

\* ... and disconnected again under it.
FeedLock ==
    /\ feed = "lock"
    /\ IF stream # "on" THEN feed' = "idle" /\ fed' = fed + 1
       ELSE /\ feed' = IF dbr /\ ~IsAudio(fed) THEN "climb" ELSE "add"
            /\ UNCHANGED fed
    /\ UNCHANGED <<queue, min, lastDts, sent, sending, stream, dbr, rateVars, raced, streams>>

\* Mutant: the timer is not set again.
FeedClimbOnce ==
    /\ feed = "climb"
    /\ raced' = (raced \/ stream \in {"reset", "restored"})
    /\ \/ /\ timer
          /\ prev' = cur
          /\ cur' = IF cur + orig \div 10 >= orig THEN orig ELSE cur + orig \div 10
          /\ timer' = FALSE
          /\ feed' = "setClimbed"
       \/ feed' = "lower" /\ UNCHANGED <<cur, prev, timer>>
    /\ UNCHANGED <<queueVars, stream, dbr, orig, est, encoder, wanted, streams>>

\* The timer of dbr_inc_bitrate, which may or may not have come up.
FeedClimb ==
    /\ feed = "climb"
    /\ raced' = (raced \/ stream \in {"reset", "restored"})
    /\ \/ /\ timer
          /\ prev' = cur
          /\ cur' = IF cur + orig \div 10 >= orig THEN orig ELSE cur + orig \div 10
          /\ timer' = (cur' < orig)
          /\ feed' = "setClimbed"
       \/ feed' = "lower" /\ UNCHANGED <<cur, prev, timer>>
    /\ UNCHANGED <<queueVars, stream, dbr, orig, est, encoder, wanted, streams>>

\* dbr_bitrate_lowered: the bitrate to go down to, 0 for none.
Lowered ==
    LET tooSlow == est # 0 /\ est < cur
        rounded == (est \div 100) * 100
    IN  IF ~tooSlow THEN prev
        ELSE IF rounded < 50 THEN 50 ELSE rounded

FeedLower ==
    /\ feed = "lower"
    /\ raced' = (raced \/ stream \in {"reset", "restored"})
    /\ IF /\ Cardinality(queue) >= Few /\ Waiting(queue) # {} /\ Span(queue) >= Trigger
          /\ Lowered \notin {0, cur}
       THEN /\ prev' = 0 /\ cur' = Lowered /\ timer' = TRUE
            /\ feed' = "setLowered"
       ELSE feed' = "add" /\ UNCHANGED <<cur, prev, timer>>
    /\ UNCHANGED <<queueVars, stream, dbr, orig, est, encoder, wanted, streams>>

\* dbr_set_bitrate, called after either.
FeedSetBitrate ==
    /\ feed \in {"setClimbed", "setLowered"}
    /\ encoder' = cur
    /\ feed' = IF feed = "setClimbed" THEN "lower" ELSE "add"
    /\ raced' = (raced \/ stream \in {"reset", "restored"})
    /\ UNCHANGED <<queueVars, stream, dbr, cur, prev, orig, timer, est, wanted, streams>>

\* The rest of add_video_packet, and add_packet.
FeedAdd ==
    /\ feed = "add"
    /\ LET d == AfterDrops
       IN  \/ /\ IsAudio(fed)
              /\ queue' = queue \cup {fed}
              /\ UNCHANGED <<min, lastDts>>
           \/ /\ ~IsAudio(fed) /\ Priority(fed) < d.m
              /\ queue' = d.q /\ min' = d.m
              /\ UNCHANGED lastDts
           \/ /\ ~IsAudio(fed) /\ Priority(fed) >= d.m
              /\ queue' = d.q \cup {fed} /\ min' = 0
              /\ lastDts' = Dts(fed)
    /\ fed' = fed + 1
    /\ feed' = "idle"
    /\ UNCHANGED <<sent, sending, stream, dbr, rateVars, raced, streams>>

Feed == FeedEnter \/ FeedLock \/ FeedClimb \/ FeedLower \/ FeedSetBitrate \/ FeedAdd

-----------------------------------------------------------------------------
\* The send thread

\* get_next_packet
Front(k) == k \in queue /\ \A j \in queue : k <= j

\* A packet is taken; packets_mutex is held only for that.
SenderTake ==
    /\ stream = "on" /\ ~sending /\ ~Locked
    /\ \E k \in queue : Front(k) /\ queue' = queue \ {k} /\ sent' = sent \cup {k}
    /\ sending' = TRUE
    /\ UNCHANGED <<fed, min, lastDts, feed, stream, dbr, rateVars, raced, streams>>

\* It has been sent: dbr_add_frame.
SenderSent ==
    /\ sending /\ sending' = FALSE
    /\ est' \in IF dbr THEN Estimates ELSE {est}
    /\ UNCHANGED <<queue, fed, min, lastDts, sent, feed, stream, dbr, cur, prev, orig, timer,
                   encoder, wanted, raced, streams>>

\* It cannot be sent: disconnected is set, wherever the feed is.  Or the stream is stopping, and it
\* is released.
SenderFails ==
    /\ sending /\ sending' = FALSE
    /\ stream' = IF stream = "on" THEN "lost" ELSE stream
    /\ UNCHANGED <<queue, fed, min, lastDts, sent, feed, dbr, rateVars, raced, streams>>

\* Mutant: the pacer is not joined.
SenderStoppedUnjoined ==
    /\ stream = "on"
    /\ stream' = "stopping"
    /\ UNCHANGED <<queueVars, feed, dbr, rateVars, raced, streams>>

\* rtmp_stream_stop has joined the pacer, set the stop event and posted.
SenderStopped ==
    /\ stream = "on" /\ feed = "idle"
    /\ stream' = "stopping"
    /\ UNCHANGED <<queueVars, feed, dbr, rateVars, raced, streams>>

\* Mutant: the bitrate stays as it was.
SenderResetNot ==
    /\ stream \in {"stopping", "lost"} /\ ~sending
    /\ stream' = "restored"
    /\ raced' = (raced \/ feed \in {"climb", "setClimbed", "lower", "setLowered"})
    /\ UNCHANGED <<queueVars, feed, dbr, rateVars, streams>>

\* "reset bitrate on stop" ...
SenderReset ==
    /\ stream \in {"stopping", "lost"} /\ ~sending
    /\ IF dbr /\ cur # orig
       THEN cur' = orig /\ stream' = "reset"
       ELSE stream' = "restored" /\ UNCHANGED cur
    /\ raced' = (raced \/ feed \in {"climb", "setClimbed", "lower", "setLowered"})
    /\ UNCHANGED <<queueVars, feed, dbr, prev, orig, timer, est, encoder, wanted, streams>>

\* ... dbr_set_bitrate ...
SenderSetBitrate ==
    /\ stream = "reset"
    /\ encoder' = cur
    /\ stream' = "restored"
    /\ UNCHANGED <<queueVars, feed, dbr, cur, prev, orig, timer, est, wanted, raced, streams>>

\* ... free_packets, and the end of the stream.
SenderEnd ==
    /\ stream = "restored" /\ ~Locked
    /\ queue' = {}
    /\ stream' = "over"
    /\ UNCHANGED <<fed, min, lastDts, sent, sending, feed, dbr, rateVars, raced, streams>>

Sender ==
    \/ SenderTake \/ SenderSent \/ SenderFails \/ SenderStopped
    \/ SenderReset \/ SenderSetBitrate \/ SenderEnd

-----------------------------------------------------------------------------
\* init_connect, when the pacer has been joined: everything but last_dts_usec and
\* dbr_prev_bitrate is set anew.  The user may have set another bitrate meanwhile.
StartStream ==
    /\ stream = "over" /\ feed = "idle" /\ streams < MaxStreams
    /\ streams' = streams + 1
    /\ stream' = "on"
    /\ \E b \in Settings : IF b = wanted THEN UNCHANGED <<wanted, encoder>>
                           ELSE wanted' = b /\ encoder' = b
    /\ queue' = {} /\ fed' = 0 /\ sent' = {} /\ min' = 0
    /\ dbr' \in BOOLEAN
    /\ orig' = encoder' /\ cur' = encoder' /\ est' = 0 /\ timer' = FALSE
    /\ UNCHANGED <<lastDts, sending, feed, prev, raced>>

Init ==
    /\ queue = {} /\ fed = 0 /\ min = 0 /\ lastDts = 0 /\ sent = {} /\ sending = FALSE
    /\ feed = "idle" /\ stream = "over" /\ dbr = FALSE
    /\ wanted \in Settings /\ encoder = wanted
    /\ cur = 0 /\ prev = 0 /\ orig = 0 /\ est = 0 /\ timer = FALSE
    /\ raced = FALSE /\ streams = 0

Next == Feed \/ Sender \/ StartStream

Spec == Init /\ [][Next]_vars

-----------------------------------------------------------------------------
FeedPlaces   == {"idle", "lock", "climb", "setClimbed", "lower", "setLowered", "add"}
StreamStates == {"on", "stopping", "lost", "reset", "restored", "over"}

\* Every variable in its domain; only packets the feed has been through are queued or sent, none
\* is both, the feed is out of a stopping stream, and nothing is on its way on one that is lost.
TypeOK ==
    /\ fed \in 0 .. MaxPackets
    /\ queue \subseteq 0 .. fed - 1 /\ sent \subseteq 0 .. fed - 1 /\ queue \cap sent = {}
    /\ min \in {0, High, Highest} /\ lastDts \in Nat
    /\ feed \in FeedPlaces /\ stream \in StreamStates
    /\ feed # "idle" => fed < MaxPackets /\ stream # "stopping"
    /\ sending => stream \in {"on", "stopping"}
    /\ cur \in Nat /\ prev \in Nat /\ orig \in Nat /\ encoder \in Nat
    /\ est \in Estimates \cup {0} /\ wanted \in Settings
    /\ dbr \in BOOLEAN /\ timer \in BOOLEAN /\ raced \in BOOLEAN /\ sending \in BOOLEAN
    /\ streams \in 0 .. MaxStreams

\* Whatever is dropped, and on whatever track, a frame that is sent can be decoded: all it refers
\* to was sent before it (drop_frames, min_priority).
SentDecodable == \A k \in sent : \A j \in 0 .. k : Refers(k, j) => j \in sent

\* Frames are dropped, audio and keyframes that were queued are not: what comes out in front of a
\* packet is all the audio before it, and the queue is emptied in order.
AudioKept ==
    /\ \A k \in sent : \A j \in queue : k < j
    /\ \A k \in sent : \A j \in 0 .. k : IsAudio(j) => j \in sent

\* last_dts_usec survives from one stream to the next, and is compared as an unsigned number:
\* while a frame waits it is never older than that frame.
SpanCounts == \A k \in Waiting(queue) : Dts(k) <= lastDts

\* Of so many frames in a row one is a keyframe, or others refer to it.
ReferenceGap == 3

\* The delay the queue may add is bounded: without dynamic bitrate dropping keeps what waits within
\* the threshold and the next frame that the dropping of B-frames lets through.
QueueBounded ==
    (~dbr /\ Cardinality(queue) >= Few + 2 /\ Waiting(queue) # {})
        => Span(queue) <= PDropThreshold + ReferenceGap

\* A lowered bitrate is never forgotten: while the stream is on, a bitrate below the original has
\* its timer set, so that the next frames bring it back.
ClimbPending == (stream = "on" /\ dbr /\ cur < orig) => timer

\* Neither estimates nor going back to an earlier bitrate leave the range from 50 to the original.
BitrateInRange == (stream = "on" /\ ~raced) => 50 <= cur /\ cur <= orig

\* "reset bitrate on stop": after a stream the encoder has the bitrate the user chose, unless the
\* feed was at work on it when the sender restored it.
BitrateRestored == (stream = "over" /\ feed = "idle" /\ ~raced) => encoder = wanted

\* What the comment says of every stream, at rtmp-stream.c:744.  A feed that is at the bitrate while
\* the sender gives it back breaks it: configuration givenback.
AlwaysRestored == (stream = "over" /\ feed = "idle") => encoder = wanted

=============================================================================
