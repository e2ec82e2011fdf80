------------------------------ MODULE DelayBuffer ------------------------------
(***************************************************************************)
(* The variable delay in front of the send queue: src/src/delay-buffer.c.  *)
(*                                                                         *)
(* Encoder callbacks append packets to a timeline (swd_push), requesters   *)
(* move the target delay and the cursor (swd_set_delay), and the pacer     *)
(* thread releases the packet under the cursor once it is old enough,      *)
(* rewrites its timestamps and sends it.  Every critical section of        *)
(* d->mutex is one action, except the pacer's, which is a sequence of      *)
(* actions from PacerWake to EndPass during which pacer = "pass" and       *)
(* nobody else takes the mutex (Unlocked is false).  The clock keeps       *)
(* running meanwhile.                                                      *)
(*                                                                         *)
(* One unit of time stands both for the nanoseconds of os_gettime_ns and   *)
(* for the microseconds of the media clock: packets are due in real time.  *)
(***************************************************************************)
EXTENDS Integers, Sequences

CONSTANTS
    Video,          \* the video track
    AudioTracks,    \* the audio tracks
    NoTime,         \* "no value yet": INT64_MIN in last_*_out_usec, and the like
    Requests,       \* delays the user or the server may ask for
    MaxDelay,       \* SWD_MAX_DELAY_SEC
    History,        \* HISTORY_NS
    PruneEvery,     \* PRUNE_EVERY_NS
    VideoTbUnit,    \* length of 1/timebase_den of the video track
    VideoTbNum,     \* timebase_num of the video track
    AudioPeriod,    \* time between two packets of an audio track
    Gop,            \* longest time between two keyframes
    MaxStall,       \* bound: time the pacer may take between two passes
    MaxIdle,        \* bound: time that may pass while nothing is streamed
    MaxTime,        \* bound on the clock
    MaxRequests,    \* bound on the number of changes of the delay
    MaxSessions     \* bound on the number of swd_start

Streams == {Video} \cup AudioTracks

Kinds == {"video", "audio"}
Kind(s) == IF s = Video THEN "video" ELSE "audio"

\* A frame lasts timebase_num / timebase_den seconds.
VideoPeriod == VideoTbNum * VideoTbUnit

ASSUME ConstantsAssumption ==
    /\ Video \notin AudioTracks
    /\ NoTime \notin Int
    /\ Requests \subseteq Nat
    /\ {MaxDelay, History, PruneEvery, MaxStall, MaxIdle, MaxTime,
        MaxRequests, MaxSessions} \subseteq Nat
    /\ {VideoTbUnit, VideoTbNum, AudioPeriod, Gop} \subseteq Nat \ {0}

VARIABLES
    now,            \* os_gettime_ns
    \* struct swd_delay
    entries,        \* the timeline
    cursor,         \* how many entries lie before the next one to send
    delay,          \* delay_ns, the current target
    hold,           \* hold_delay_ns
    pending,        \* pending_skip
    pendingTarget,  \* pending_target_ns
    offset,         \* offset_usec
    resync,         \* resync
    lastOut,        \* last_video_out_usec and last_audio_out_usec, by kind
    frame,          \* frame_usec
    lastSent,       \* last_sent_arrival_ns, 0 when nothing was sent
    lastPrune,      \* last_prune_ns
    running,        \* running
    \* the pacer thread
    pacer,          \* where it is: none, loop, wait, pass (mutex held), done
    pnow,           \* its local `now`
    batch,          \* its local `batch`
    \* the thread that starts and stops the output
    ctl,            \* where it is in swd_start / swd_stop
    startDelay,     \* argument of the swd_start in progress, NoTime in swd_stop
    registered,     \* g_running is this buffer
    sessions,       \* number of swd_start so far (bound)
    \* the encoders
    capture,        \* data capture of the output: off, on, ended
    due,            \* time stamp of the next packet of each track
    lastKey,        \* time stamp of the last keyframe
    requests,       \* number of changes of the delay so far (bound)
    \* history variables
    firstKey,       \* arrival of the first keyframe of the session
    muxed,          \* FLV time of the last packet released on each track
    lastFrame       \* time stamp, before rewriting, of the last frame released

timelineVars == <<entries, cursor>>
pacingVars   == <<delay, hold, pending, pendingTarget>>
outVars      == <<offset, resync, lastOut, lastSent, muxed, lastFrame>>
pacerVars    == <<pacer, pnow, batch>>
ctlVars      == <<ctl, startDelay, registered, sessions>>
sourceVars   == <<capture, due, lastKey, firstKey>>
vars == <<now, requests, timelineVars, pacingVars, outVars, frame, lastPrune, running,
          pacerVars, ctlVars, sourceVars>>

Entry == [stream : Streams, key : BOOLEAN, dts : Nat, arrival : Nat]
OutPacket == [stream : Streams, dts : Nat, usec : Int, arrival : Nat]

Times == Int \cup {NoTime}

TypeOK ==
    /\ now \in Nat
    /\ entries \in Seq(Entry)
    /\ cursor \in 0 .. Len(entries)
    /\ delay \in 0 .. MaxDelay
    /\ hold \in 0 .. MaxDelay
    /\ pending \in BOOLEAN
    /\ pendingTarget \in Nat
    /\ offset \in Int
    /\ resync \in BOOLEAN
    /\ lastOut \in [Kinds -> Times]
    /\ frame \in Nat
    /\ lastSent \in Nat
    /\ lastPrune \in Nat
    /\ running \in BOOLEAN
    /\ pacer \in {"none", "loop", "wait", "pass", "done"}
    /\ pnow \in Nat
    /\ batch \in Seq(OutPacket)
    /\ ctl \in {"idle", "join", "release", "reset", "spawn"}
    /\ startDelay \in (0 .. MaxDelay) \cup {NoTime}
    /\ registered \in BOOLEAN
    /\ sessions \in Nat
    /\ capture \in {"off", "on", "ended"}
    /\ due \in [Streams -> Nat]
    /\ lastKey \in Nat
    /\ requests \in Nat
    /\ firstKey \in Nat \cup {NoTime}
    /\ muxed \in [Streams -> Times]
    /\ lastFrame \in Times

--------------------------------------------------------------------------------
(***************************************************************************)
(* The timeline.  Positions count from 1, so that position k is the C      *)
(* index k - 1, and the next packet to send is at position cursor + 1.     *)
(***************************************************************************)

IsKeyframe(e) == e.stream = Video /\ e.key

Keyframes == {k \in DOMAIN entries : IsKeyframe(entries[k])}

PacerAlive == pacer \in {"loop", "wait", "pass"}

\* Nobody holds d->mutex.
Unlocked == pacer # "pass"

LatestOf(S) == {k \in S : \A j \in S : j <= k}
EarliestOf(S) == {k \in S : \A j \in S : k <= j}

\* Mutant of RewindPoint: the keyframe after the target instead of before.
RewindPointAfter(target) == EarliestOf({k \in Keyframes : entries[k].arrival >= target})

\* find_keyframe_before: the position to rewind to, if there is a keyframe.
RewindPoint(target) ==
    LET old == {k \in Keyframes : entries[k].arrival <= target}
    IN  IF old # {} THEN LatestOf(old) ELSE EarliestOf(Keyframes)

\* find_keyframe_after: the position to skip to, if one is buffered.
SkipPoint(target) ==
    EarliestOf({k \in Keyframes : k > cursor /\ entries[k].arrival >= target})

\* Mutant of JumpTo: the position taken for a count of packets.
JumpPast(k) ==
    /\ cursor' = k
    /\ resync' = TRUE

\* jump_to_locked
JumpTo(k) ==
    /\ cursor' = k - 1
    /\ resync' = TRUE

StayPut == UNCHANGED <<cursor, resync>>

RewindTo(K) ==
    \/ \E k \in K : k <= cursor /\ JumpTo(k)
    \/ (\A k \in K : k > cursor) /\ StayPut

SkipTo(K) ==
    \/ \E k \in K : k > cursor + 1 /\ JumpTo(k)
    \/ (\A k \in K : k <= cursor + 1) /\ StayPut

Target(d) == IF now > d THEN now - d ELSE 0

\* Mutant of Clamp: no upper limit on a request.
ClampNot(d) == d

Clamp(d) == IF d > MaxDelay THEN MaxDelay ELSE d

--------------------------------------------------------------------------------
(***************************************************************************)
(* swd_set_delay and apply_delay_locked                                    *)
(***************************************************************************)

\* Mutant of Raise: the jump that waits for a keyframe is not called off.
RaiseStillPending(d) ==
    /\ d > delay
    /\ RewindTo(RewindPoint(Target(d)))
    /\ delay' = d
    /\ UNCHANGED <<hold, pending, pendingTarget>>

Raise(d) ==
    /\ d > delay
    /\ RewindTo(RewindPoint(Target(d)))
    /\ delay' = d
    /\ hold' = d
    /\ pending' = FALSE
    /\ UNCHANGED pendingTarget

LowerNow(d) ==
    /\ d < delay
    /\ SkipPoint(Target(d)) # {}
    /\ SkipTo(SkipPoint(Target(d)))
    /\ delay' = d
    /\ hold' = d
    /\ pending' = FALSE
    /\ UNCHANGED pendingTarget

\* Mutant: the old pace is not kept.
LowerAtOnce(d) ==
    /\ d < delay
    /\ SkipPoint(Target(d)) = {}
    /\ StayPut
    /\ delay' = d
    /\ hold' = d
    /\ pending' = TRUE
    /\ pendingTarget' = Target(d)

LowerLater(d) ==
    /\ d < delay
    /\ SkipPoint(Target(d)) = {}
    /\ StayPut
    /\ delay' = d
    /\ hold' = delay
    /\ pending' = TRUE
    /\ pendingTarget' = Target(d)

SetDelay(seconds) ==
    /\ registered
    /\ Unlocked
    /\ requests < MaxRequests
    /\ requests' = requests + 1
    /\ LET d == Clamp(seconds) IN Raise(d) \/ LowerNow(d) \/ LowerLater(d)
    /\ UNCHANGED <<now, entries, offset, lastOut, lastSent, muxed, lastFrame, frame, lastPrune,
                   running, pacerVars, ctlVars, sourceVars>>

--------------------------------------------------------------------------------
(***************************************************************************)
(* swd_push.  The encoders deliver in the order of OBS's interleaver: by   *)
(* time stamp, a video packet before the audio packets of the same time.   *)
(* The first frame of a session is a keyframe, and at least one every Gop. *)
(***************************************************************************)

Interleaved(s) ==
    /\ \A t \in Streams : due[s] <= due[t]
    /\ s = Video \/ due[s] < due[Video]

KeyframeChoices(s) ==
    {key \in BOOLEAN :
        /\ key => s = Video
        /\ s = Video /\ (firstKey = NoTime \/ due[Video] + VideoPeriod > lastKey + Gop) => key}

Period(s) == IF s = Video THEN VideoPeriod ELSE AudioPeriod

Push(s) ==
    /\ capture = "on"
    /\ Unlocked
    /\ due[s] <= now
    /\ Interleaved(s)
    /\ \E key \in KeyframeChoices(s) :
         /\ entries' = Append(entries, [stream |-> s, key |-> key,
                                        dts |-> due[s], arrival |-> now])
         /\ lastKey' = IF key THEN due[s] ELSE lastKey
         /\ firstKey' = IF key /\ firstKey = NoTime THEN now ELSE firstKey
    /\ frame' = IF s = Video THEN VideoPeriod ELSE frame
    /\ due' = [due EXCEPT ![s] = @ + Period(s)]
    /\ UNCHANGED <<now, requests, cursor, pacingVars, outVars, lastPrune, running,
                   pacerVars, ctlVars, capture>>

--------------------------------------------------------------------------------
(***************************************************************************)
(* The pacer thread                                                        *)
(***************************************************************************)

\* The packet handed to the output carries its time in units of the track's
\* timebase: usec_to_tb divides by timebase_num as well as by the unit.
RoundDiv(x, y) ==
    IF x >= 0 THEN (2 * x + y) \div (2 * y) ELSE -((2 * (-x) + y) \div (2 * y))

TbUnit(s) == IF s = Video THEN VideoTbUnit ELSE 1
TbNum(s) == IF s = Video THEN VideoTbNum ELSE 1

usec_to_tb(usec, s) == RoundDiv(usec, TbUnit(s) * TbNum(s))

\* Mutant of MuxTime: dts_usec rewritten, dts forgotten.
MuxTimeUnshifted(s, dts, off) == dts

\* get_ms_time of flv-mux.h: the time the muxer writes, from the timebase alone.
MuxTime(s, dts, off) == ((dts \div TbUnit(s)) + usec_to_tb(off, s)) * TbUnit(s)

Pace == IF pending THEN hold ELSE delay

\* Mutant of ResyncOffset: on top of the last frame instead of behind it.
ResyncOnTop(e) ==
    IF lastOut["video"] = NoTime THEN offset ELSE lastOut["video"] - e.dts

\* The offset in force for packet e: a pending resync moves e right behind the
\* last video packet sent.
ResyncOffset(e) ==
    IF lastOut["video"] = NoTime THEN offset ELSE lastOut["video"] + frame - e.dts

OutOffset(e) == IF resync THEN ResyncOffset(e) ELSE offset

GoesBackwards(e) ==
    LET last == lastOut[Kind(e.stream)]
    IN  last # NoTime /\ e.dts + OutOffset(e) <= last

\* while (d->running), at the top of the loop
PacerLoop ==
    /\ pacer = "loop"
    /\ batch = <<>>
    /\ pacer' = IF running THEN "wait" ELSE "done"
    /\ UNCHANGED <<now, requests, timelineVars, pacingVars, outVars, frame, lastPrune, running,
                   pnow, batch, ctlVars, sourceVars>>

\* Mutant of TryPendingSkip: the pace stays held after the jump.
TryPendingSkipForever ==
    LET skip == SkipPoint(pendingTarget)
    IN  /\ UNCHANGED <<pending, hold>>
        /\ IF pending /\ skip # {} THEN SkipTo(skip) ELSE StayPut

\* The forward jump that waits for a keyframe, if there is one now.
TryPendingSkip ==
    LET skip == SkipPoint(pendingTarget)
    IN  IF pending /\ skip # {}
        THEN SkipTo(skip) /\ pending' = FALSE /\ hold' = delay
        ELSE StayPut /\ UNCHANGED <<pending, hold>>

\* The wait ends (event or time-out): take the mutex and read the clock.
PacerWake ==
    /\ pacer = "wait"
    /\ pacer' = "pass"
    /\ pnow' = now
    /\ TryPendingSkip
    /\ UNCHANGED <<now, requests, entries, delay, pendingTarget, offset, lastOut, lastSent,
                   muxed, lastFrame, frame, lastPrune, running, batch, ctlVars, sourceVars>>

CanRelease ==
    /\ cursor < Len(entries)
    /\ pnow - entries[cursor + 1].arrival >= Pace

\* One turn of the release loop, with prepare_out_locked.
ReleaseNext ==
    /\ pacer = "pass"
    /\ CanRelease
    /\ LET e == entries[cursor + 1]
           out == e.dts + OutOffset(e)
       IN  /\ offset' = OutOffset(e)
           /\ IF GoesBackwards(e)
              THEN UNCHANGED <<lastOut, batch, lastSent, muxed, lastFrame>>
              ELSE /\ lastOut' = [lastOut EXCEPT ![Kind(e.stream)] = out]
                   /\ batch' = Append(batch, [stream |-> e.stream, dts |-> e.dts,
                                              usec |-> out, arrival |-> e.arrival])
                   /\ lastSent' = e.arrival
                   /\ muxed' = [muxed EXCEPT ![e.stream] =
                                    MuxTime(e.stream, e.dts, OutOffset(e))]
                   /\ lastFrame' = IF e.stream = Video THEN e.dts ELSE lastFrame
    /\ resync' = FALSE
    /\ cursor' = cursor + 1
    /\ UNCHANGED <<now, requests, entries, pacingVars, frame, lastPrune, running, pacer, pnow,
                   ctlVars, sourceVars>>

\* prune_locked: how many entries go.
\* Mutant of Outdated: history for the longest delay, without the 5 seconds.
OutdatedTooSoon(k) == pnow - entries[k].arrival > MaxDelay

Outdated(k) == pnow - entries[k].arrival > History

PruneCount ==
    IF pnow - lastPrune < PruneEvery THEN {0}
    ELSE {n \in 0 .. cursor : /\ \A k \in 1 .. n : Outdated(k)
                              /\ n < cursor => ~Outdated(n + 1)}

\* Nothing more to release: prune, give the mutex back, start sending.
EndPass ==
    /\ pacer = "pass"
    /\ ~CanRelease
    /\ \E n \in PruneCount :
         /\ entries' = SubSeq(entries, n + 1, Len(entries))
         /\ cursor' = cursor - n
    /\ lastPrune' = IF pnow - lastPrune < PruneEvery THEN lastPrune ELSE pnow
    /\ pacer' = "loop"
    /\ UNCHANGED <<now, requests, pacingVars, outVars, frame, running, pnow, batch, ctlVars,
                   sourceVars>>

\* The loop over d->send, outside the mutex.
PacerSend ==
    /\ pacer = "loop"
    /\ batch # <<>>
    /\ batch' = <<>>
    /\ UNCHANGED <<now, requests, timelineVars, pacingVars, outVars, frame, lastPrune, running,
                   pacer, pnow, ctlVars, sourceVars>>

Pacer == PacerLoop \/ PacerWake \/ ReleaseNext \/ EndPass \/ PacerSend

--------------------------------------------------------------------------------
(***************************************************************************)
(* swd_start and swd_stop, called by rtmp_stream_start and rtmp_stream_stop *)
(* on one thread.  swd_start begins with swd_stop.                         *)
(***************************************************************************)

\* Mutant of AskPacerToExit: the thread is joined without being told to end.
AskNobodyToExit == UNCHANGED running

AskPacerToExit == running' = IF pacer = "none" THEN running ELSE FALSE

BeginStop ==
    /\ ctl = "idle"
    /\ registered
    /\ registered' = FALSE
    /\ ctl' = "join"
    /\ startDelay' = NoTime
    /\ AskPacerToExit
    /\ UNCHANGED <<now, requests, timelineVars, pacingVars, outVars, frame, lastPrune, pacerVars,
                   sessions, sourceVars>>

\* A reconnection starts a buffer that was never stopped.
BeginStart(seconds) ==
    /\ ctl = "idle"
    /\ capture # "on"
    /\ sessions < MaxSessions
    /\ sessions' = sessions + 1
    /\ ctl' = "join"
    /\ startDelay' = Clamp(seconds)
    /\ AskPacerToExit
    /\ UNCHANGED <<now, requests, timelineVars, pacingVars, outVars, frame, lastPrune, pacerVars,
                   registered, sourceVars>>

Join ==
    /\ ctl = "join"
    /\ pacer \in {"none", "done"}
    /\ pacer' = "none"
    /\ ctl' = "release"
    /\ UNCHANGED <<now, requests, timelineVars, pacingVars, outVars, frame, lastPrune, running,
                   pnow, batch, startDelay, registered, sessions, sourceVars>>

\* release_all
Release ==
    /\ ctl = "release"
    /\ entries' = <<>>
    /\ cursor' = 0
    /\ ctl' = IF startDelay = NoTime THEN "idle" ELSE "reset"
    /\ UNCHANGED <<now, requests, pacingVars, outVars, frame, lastPrune, running, pacerVars,
                   startDelay, registered, sessions, sourceVars>>

\* reset_locked
Reset ==
    /\ ctl = "reset"
    /\ entries' = <<>>
    /\ cursor' = 0
    /\ delay' = startDelay
    /\ hold' = startDelay
    /\ pending' = FALSE
    /\ offset' = 0
    /\ resync' = FALSE
    /\ lastOut' = [k \in Kinds |-> NoTime]
    /\ frame' = VideoPeriod
    /\ lastSent' = 0
    /\ lastPrune' = 0
    /\ ctl' = "spawn"
    /\ capture' = "off"
    /\ firstKey' = NoTime
    /\ muxed' = [s \in Streams |-> NoTime]
    /\ lastFrame' = NoTime
    /\ UNCHANGED <<now, requests, pendingTarget, running, pacerVars, startDelay, registered,
                   sessions, due, lastKey>>

\* pthread_create succeeds or fails; rtmp_stream_start registers the buffer
\* in either case.
Spawn ==
    /\ ctl = "spawn"
    /\ \/ /\ running' = TRUE
          /\ pacer' = "loop"
          /\ pnow' = now
       \/ /\ running' = FALSE
          /\ UNCHANGED <<pacer, pnow>>
    /\ ctl' = "idle"
    /\ registered' = TRUE
    /\ UNCHANGED <<now, requests, timelineVars, pacingVars, outVars, frame, lastPrune, batch,
                   startDelay, sessions, sourceVars>>

Controller ==
    \/ BeginStop
    \/ \E d \in Requests : BeginStart(d)
    \/ Join \/ Release \/ Reset \/ Spawn

--------------------------------------------------------------------------------
(***************************************************************************)
(* The encoders' data capture and the clock                                *)
(***************************************************************************)

BeginCapture ==
    /\ capture = "off"
    /\ registered
    /\ ctl = "idle"
    /\ capture' = "on"
    /\ due' = [s \in Streams |-> now]
    /\ lastKey' = now
    /\ UNCHANGED <<now, requests, timelineVars, pacingVars, outVars, frame, lastPrune, running,
                   pacerVars, ctlVars, firstKey>>

EndCapture ==
    /\ capture = "on"
    /\ capture' = "ended"
    /\ UNCHANGED <<now, requests, timelineVars, pacingVars, outVars, frame, lastPrune, running,
                   pacerVars, ctlVars, due, lastKey, firstKey>>

\* Time passes.  The encoders deliver when a packet is due, and the scheduler
\* leaves the pacer at most MaxStall between two passes.  The other bounds cut
\* the time during which there is no pacer, or nothing to pace.
Tick ==
    /\ now < MaxTime
    /\ capture = "on" => \A s \in Streams : due[s] > now
    /\ capture # "on" => now - due[Video] < MaxIdle
    /\ now - pnow < IF PacerAlive THEN MaxStall ELSE MaxIdle
    /\ now' = now + 1
    /\ UNCHANGED <<requests, timelineVars, pacingVars, outVars, frame, lastPrune, running,
                   pacerVars, ctlVars, sourceVars>>

Init ==
    /\ now = PruneEvery
    /\ entries = <<>>
    /\ cursor = 0
    /\ delay = 0 /\ hold = 0 /\ pending = FALSE /\ pendingTarget = 0
    /\ offset = 0 /\ resync = FALSE
    /\ lastOut = [k \in Kinds |-> NoTime]
    /\ frame = VideoPeriod
    /\ lastSent = 0
    /\ lastPrune = 0
    /\ running = FALSE
    /\ pacer = "none" /\ pnow = now /\ batch = <<>>
    /\ ctl = "idle" /\ startDelay = NoTime /\ registered = FALSE /\ sessions = 0
    /\ capture = "off"
    /\ due = [s \in Streams |-> now]
    /\ lastKey = 0
    /\ requests = 0
    /\ firstKey = NoTime
    /\ muxed = [s \in Streams |-> NoTime]
    /\ lastFrame = NoTime

Next ==
    \/ Pacer
    \/ Controller
    \/ \E s \in Streams : Push(s)
    \/ \E d \in Requests : SetDelay(d)
    \/ BeginCapture \/ EndCapture
    \/ Tick

Spec == Init /\ [][Next]_vars

--------------------------------------------------------------------------------
(***************************************************************************)
(* Properties                                                              *)
(***************************************************************************)

\* A step that puts the packet under the cursor in the batch.
Released == Len(batch') > Len(batch)

\* "First packet after a jump is a video keyframe" (prepare_out_locked): while
\* the pacer lives, whatever the requests, pushes and prunings since the jump.
ResyncOnKeyframe ==
    PacerAlive /\ resync => cursor < Len(entries) /\ IsKeyframe(entries[cursor + 1])

\* No unsigned subtraction of the pass wraps: the timeline is sorted by arrival,
\* and nothing in it is younger than the clock the pacer read under the lock.
ClockUnderLock ==
    /\ \A i, j \in DOMAIN entries : i <= j => entries[i].arrival <= entries[j].arrival
    /\ pacer = "pass" => \A k \in DOMAIN entries : entries[k].arrival <= pnow

\* The packets about to be sent outside the lock live on the reference kept in
\* the timeline, so pruning must leave them there.
BatchInTimeline ==
    capture = "on" => \A k \in DOMAIN batch : \E j \in DOMAIN entries :
        /\ entries[j].stream = batch[k].stream
        /\ entries[j].dts = batch[k].dts

\* "A pacer thread releases the packet at `cursor` once it is `delay` old": a
\* released packet is never younger than the delay in force, not even while a
\* lower waits for its keyframe or right after a raise.
ReleasedOldEnough ==
    [][Released => now - entries[cursor'].arrival >= delay]_vars

\* The receiver can decode what it gets: a frame that is not a keyframe comes
\* right after the frame the encoder produced before it.
Decodable ==
    [][Released /\ entries[cursor'].stream = Video /\ ~entries[cursor'].key
       => lastFrame # NoTime /\ entries[cursor'].dts = lastFrame + VideoPeriod]_vars

\* "Rewrites timestamps so they keep increasing": in the units the muxer writes,
\* a packet comes after the last one of its track, and not before the last one of
\* any other track.
MuxTimesIncrease ==
    [][Released => LET s == entries[cursor'].stream
                   IN  \A t \in Streams :
                           \/ muxed[t] = NoTime
                           \/ muxed'[s] > muxed[t]
                           \/ t # s /\ muxed'[s] = muxed[t]]_vars

\* "History kept beyond the current cursor, so the delay can be raised by
\* rewinding": once the session is older than the new delay, a raise leaves the
\* cursor on a packet that can be sent at once, so that viewers see the last
\* seconds again and not a frozen picture.
RaiseRewinds ==
    [][capture = "on" /\ ctl = "idle" /\ delay' > delay /\ firstKey # NoTime /\ now - firstKey >= delay'
       => cursor' < Len(entries) /\ now - entries[cursor' + 1].arrival >= delay']_vars

\* "keep the old pace until one arrives": packets are held back less long than
\* before only from a keyframe on.
PaceDropsAtKeyframe ==
    [][ctl = "idle" /\ Pace' < Pace /\ cursor' < Len(entries)
       => IsKeyframe(entries[cursor' + 1])]_vars

\* The same, but for a request that comes while a lower waits for its keyframe:
\* a first lower, and a pending jump that is made, let no packet out early.
PaceKeptByFirstLower ==
    [][ctl = "idle" /\ ~(pending /\ requests' # requests) /\ Pace' < Pace /\ cursor' < Len(entries)
       => IsKeyframe(entries[cursor' + 1])]_vars

\* Every stop and start of the output gets past pthread_join.
StopCompletes == ctl = "join" ~> ctl = "idle"

\* A lower that waits takes effect once its keyframe is in the timeline.
LowerTakesEffect ==
    PacerAlive /\ pending /\ SkipPoint(pendingTarget) # {}
        ~> ~pending \/ SkipPoint(pendingTarget) = {}

\* The lower does not miss it: without another request the keyframe stays ahead of
\* the cursor, whatever is pushed, released or pruned, until the pacer jumps to it
\* (find_keyframe_after in pacer_thread).
LowerNotMissed ==
    [][ctl = "idle" /\ requests' = requests /\ pending /\ SkipPoint(pendingTarget) # {}
       => IF pending' THEN SkipPoint(pendingTarget)' # {}
          ELSE cursor' + 1 \in SkipPoint(pendingTarget)]_vars

\* The operating system schedules the pacer, whose wait has a time-out, and the
\* thread that starts or stops the output.
Fairness ==
    /\ WF_vars(Pacer)
    /\ WF_vars(Join \/ Release \/ Reset \/ Spawn)

FairSpec == Spec /\ Fairness
================================================================================
