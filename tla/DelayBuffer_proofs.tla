------------------------- MODULE DelayBuffer_proofs -------------------------
(***************************************************************************)
(* Theorems about DelayBuffer, for every value of its constants.           *)
(***************************************************************************)
EXTENDS DelayFeed, SequenceTheorems, NaturalsInduction, WellFoundedInduction, TLAPS

--------------------------------------------------------------------------------
(***************************************************************************)
(* The operators of the timeline                                           *)
(***************************************************************************)

\* find_keyframe_before and find_keyframe_after return positions of keyframes in
\* the timeline, the second one behind the cursor and not before the target.
LEMMA JumpTargets ==
    ASSUME NEW t
    PROVE  /\ RewindPoint(t) \subseteq Keyframes
           /\ SkipPoint(t) \subseteq {k \in Keyframes : k > cursor}
  BY DEF RewindPoint, SkipPoint, LatestOf, EarliestOf, Keyframes

\* The constants in the form the provers use them.
LEMMA ConstantTypes ==
    /\ VideoPeriod \in Nat /\ VideoPeriod > 0
    /\ MaxDelay \in Nat /\ History \in Nat /\ PruneEvery \in Nat
    /\ AudioPeriod \in Nat /\ AudioPeriod > 0
    /\ NoTime \notin Int
    /\ Video \in Streams
    /\ \A s \in Streams : /\ TbUnit(s) \in Nat /\ TbUnit(s) > 0
                          /\ TbNum(s) \in Nat /\ TbNum(s) > 0
                          /\ Period(s) \in Nat
                          /\ Kind(s) \in Kinds
    /\ \A d \in Requests : Clamp(d) \in 0 .. MaxDelay
<1>1. VideoTbUnit \in Nat /\ VideoTbUnit > 0 /\ VideoTbNum \in Nat /\ VideoTbNum > 0
      /\ AudioPeriod \in Nat /\ AudioPeriod > 0
  BY ConstantsAssumption
<1>2. \A m, n \in Nat : m > 0 /\ n > 0 => m * n \in Nat /\ m * n > 0
  OBVIOUS
<1>3. VideoPeriod \in Nat /\ VideoPeriod > 0
  BY <1>1, <1>2 DEF VideoPeriod
<1>4. MaxDelay \in Nat /\ History \in Nat /\ PruneEvery \in Nat /\ NoTime \notin Int
  BY ConstantsAssumption
<1>5. \A s \in Streams : /\ TbUnit(s) \in Nat /\ TbUnit(s) > 0
                         /\ TbNum(s) \in Nat /\ TbNum(s) > 0
                         /\ Period(s) \in Nat
                         /\ Kind(s) \in Kinds
  BY <1>1, <1>3 DEF TbUnit, TbNum, Period, Kind, Kinds
<1>6. \A d \in Requests : Clamp(d) \in 0 .. MaxDelay
  BY <1>4, ConstantsAssumption DEF Clamp
<1>7. QED
  BY <1>1, <1>3, <1>4, <1>5, <1>6 DEF Streams

\* Rewriting a time stamp gives an integer.
LEMMA MuxTimeType ==
    ASSUME NEW s \in Streams, NEW dts \in Nat, NEW off \in Int
    PROVE  MuxTime(s, dts, off) \in Int
<1>1. TbUnit(s) \in Nat \ {0} /\ TbNum(s) \in Nat \ {0}
  BY ConstantTypes
<1>2. \A x \in Int, y \in Nat : y > 0 => x \div y \in Int
  OBVIOUS
<1>3. TbUnit(s) * TbNum(s) \in Nat /\ TbUnit(s) * TbNum(s) > 0
  <2>1. \A m, n \in Nat : m > 0 /\ n > 0 => m * n \in Nat /\ m * n > 0
    OBVIOUS
  <2>2. QED
    BY <1>1, <2>1
<1>4. \A x \in Int, y \in Nat : y > 0 => RoundDiv(x, y) \in Int
  <2>1. SUFFICES ASSUME NEW x \in Int, NEW y \in Nat, y > 0
                 PROVE  RoundDiv(x, y) \in Int
    OBVIOUS
  <2>2. 2 * y \in Nat /\ 2 * y > 0 /\ 2 * x + y \in Int /\ 2 * (-x) + y \in Int
    BY <2>1
  <2>3. (2 * x + y) \div (2 * y) \in Int /\ (2 * (-x) + y) \div (2 * y) \in Int
    BY <2>2, <1>2
  <2>4. QED
    BY <2>3 DEF RoundDiv
<1>5. usec_to_tb(off, s) \in Int
  BY <1>3, <1>4 DEF usec_to_tb
<1>6. dts \div TbUnit(s) \in Int
  BY <1>1, <1>2
<1>7. QED
  BY <1>1, <1>5, <1>6 DEF MuxTime

--------------------------------------------------------------------------------
(***************************************************************************)
(* Types                                                                   *)
(***************************************************************************)

\* reset_locked only runs in swd_start, which has an initial delay.
StartInProgress == ctl = "reset" => startDelay # NoTime

\* What a jump does to the cursor.
LEMMA JumpTypes ==
    ASSUME TypeOK, NEW t,
           RewindTo(RewindPoint(t)) \/ SkipTo(SkipPoint(t)) \/ StayPut
    PROVE  cursor' \in 0 .. Len(entries) /\ resync' \in BOOLEAN
<1>1. Keyframes \subseteq 1 .. Len(entries)
  BY DEF Keyframes, TypeOK
<1>2. CASE StayPut
  BY <1>2 DEF StayPut, TypeOK
<1>3. ASSUME NEW k \in Keyframes, JumpTo(k)
      PROVE  cursor' \in 0 .. Len(entries) /\ resync' \in BOOLEAN
  <2>1. Len(entries) \in Nat /\ k \in 1 .. Len(entries)
    BY <1>1 DEF TypeOK
  <2>2. QED
    BY <1>3, <2>1 DEF JumpTo
<1>4. QED
  BY <1>2, <1>3, JumpTargets DEF RewindTo, SkipTo

\* The entries of the timeline, one by one.
LEMMA EntryTypes ==
    ASSUME TypeOK
    PROVE  /\ Len(entries) \in Nat
           /\ DOMAIN entries = 1 .. Len(entries)
           /\ \A k \in DOMAIN entries : /\ entries[k] \in Entry
                                        /\ entries[k].stream \in Streams
                                        /\ entries[k].key \in BOOLEAN
                                        /\ entries[k].dts \in Nat
                                        /\ entries[k].arrival \in Nat
<1>1. entries \in Seq(Entry)
  BY DEF TypeOK
<1>2. /\ Len(entries) \in Nat /\ DOMAIN entries = 1 .. Len(entries)
      /\ \A k \in DOMAIN entries : entries[k] \in Entry
  BY <1>1
<1>3. QED
  BY <1>2 DEF Entry

LEMMA SetDelayTypes ==
    ASSUME TypeOK, NEW d \in Requests, SetDelay(d)
    PROVE  TypeOK'
<1>1. Clamp(d) \in 0 .. MaxDelay /\ MaxDelay \in Nat
  BY ConstantTypes
<1>2. Target(Clamp(d)) \in Nat
  BY <1>1 DEF Target, TypeOK
<1>3. cursor' \in 0 .. Len(entries) /\ resync' \in BOOLEAN
  BY JumpTypes DEF SetDelay, Raise, LowerNow, LowerLater
<1>4. /\ delay' \in 0 .. MaxDelay /\ hold' \in 0 .. MaxDelay
      /\ pending' \in BOOLEAN /\ pendingTarget' \in Nat
  BY <1>1, <1>2 DEF SetDelay, Raise, LowerNow, LowerLater, TypeOK
<1>5. requests' \in Nat
  BY DEF SetDelay, TypeOK
<1>6. QED
  BY <1>3, <1>4, <1>5 DEF SetDelay, TypeOK, pacerVars, ctlVars, sourceVars

\* What swd_push adds to the timeline.
LEMMA PushAppends ==
    ASSUME TypeOK, NEW s \in Streams, Push(s)
    PROVE  \E e \in Entry :
             /\ entries' = Append(entries, e)
             /\ e.arrival = now /\ e.stream = s /\ e.dts = due[s]
             /\ s = Video /\ firstKey = NoTime => e.key
             /\ s # Video => firstKey' = firstKey
<1>1. PICK key \in KeyframeChoices(s) :
         /\ entries' = Append(entries, [stream |-> s, key |-> key,
                                        dts |-> due[s], arrival |-> now])
         /\ firstKey' = IF key /\ firstKey = NoTime THEN now ELSE firstKey
  BY DEF Push
<1> DEFINE e == [stream |-> s, key |-> key, dts |-> due[s], arrival |-> now]
<1>2. key \in BOOLEAN /\ (s # Video => ~key) /\ (s = Video /\ firstKey = NoTime => key)
  BY DEF KeyframeChoices
<1>3. due[s] \in Nat /\ now \in Nat
  BY DEF TypeOK
<1>4. e \in Entry
  BY <1>2, <1>3 DEF Entry
<1>5. e.arrival = now /\ e.stream = s /\ e.dts = due[s] /\ e.key = key
  OBVIOUS
<1>6. entries' = Append(entries, e) /\ (s # Video => firstKey' = firstKey)
  BY <1>1, <1>2
<1>7. WITNESS e \in Entry
<1>8. QED
  BY <1>2, <1>5, <1>6

LEMMA PushTypes ==
    ASSUME TypeOK, NEW s \in Streams, Push(s)
    PROVE  TypeOK'
<1>1. PICK e \in Entry : entries' = Append(entries, e)
  BY PushAppends
<1>2. due[s] \in Nat /\ now \in Nat
  BY DEF TypeOK
<1>3. entries' \in Seq(Entry) /\ Len(entries') = Len(entries) + 1
  BY <1>1, AppendProperties DEF TypeOK
<1>4. cursor' \in 0 .. Len(entries')
  BY <1>3 DEF Push, TypeOK
<1>5. lastKey' \in Nat /\ firstKey' \in Nat \cup {NoTime}
  BY <1>2 DEF Push, TypeOK
<1>6. due' \in [Streams -> Nat]
  <2>1. Period(s) \in Nat
    BY ConstantTypes
  <2>2. due[s] + Period(s) \in Nat
    BY <1>2, <2>1
  <2>3. QED
    BY <2>2 DEF Push, TypeOK
<1>7. frame' \in Nat
  BY ConstantTypes DEF Push, TypeOK
<1>8. QED
  BY <1>3, <1>4, <1>5, <1>6, <1>7
     DEF Push, TypeOK, pacingVars, outVars, pacerVars, ctlVars

LEMMA ReleaseNextTypes ==
    ASSUME TypeOK, ReleaseNext
    PROVE  TypeOK'
<1> DEFINE e == entries[cursor + 1]
           off == OutOffset(e)
<1>1. cursor + 1 \in 1 .. Len(entries) /\ e \in Entry
  BY DEF ReleaseNext, CanRelease, TypeOK
<1>2. e.stream \in Streams /\ e.dts \in Nat /\ e.arrival \in Nat
      /\ Kind(e.stream) \in Kinds
  BY <1>1, ConstantTypes DEF Entry
<1>3. off \in Int
  <2>1. lastOut["video"] \in Int \cup {NoTime} /\ frame \in Nat /\ offset \in Int
    BY DEF TypeOK, Kinds, Times
  <2>2. QED
    BY <1>2, <2>1 DEF OutOffset, ResyncOffset
<1>4. e.dts + off \in Int
  BY <1>2, <1>3
<1>5. MuxTime(e.stream, e.dts, off) \in Int
  BY <1>2, <1>3, MuxTimeType
<1>6. cursor' \in 0 .. Len(entries)
  BY <1>1 DEF ReleaseNext, TypeOK
<1>7. offset' \in Int /\ resync' \in BOOLEAN
  BY <1>3 DEF ReleaseNext
<1>8. CASE GoesBackwards(e)
  BY <1>6, <1>7, <1>8 DEF ReleaseNext, TypeOK, pacingVars, ctlVars, sourceVars
<1>9. CASE ~GoesBackwards(e)
  <2> DEFINE p == [stream |-> e.stream, dts |-> e.dts, usec |-> e.dts + off,
                   arrival |-> e.arrival]
  <2>1. p \in OutPacket
    BY <1>2, <1>4 DEF OutPacket
  <2>2. batch' = Append(batch, p)
    BY <1>9 DEF ReleaseNext
  <2>3. batch' \in Seq(OutPacket)
    BY <2>1, <2>2, AppendProperties DEF TypeOK
  <2>4. lastOut' \in [Kinds -> Times]
    BY <1>2, <1>4, <1>9 DEF ReleaseNext, TypeOK, Times
  <2>5. muxed' \in [Streams -> Times]
    BY <1>2, <1>5, <1>9 DEF ReleaseNext, TypeOK, Times
  <2>6. lastSent' \in Nat /\ lastFrame' \in Times
    BY <1>2, <1>9 DEF ReleaseNext, TypeOK, Times
  <2>7. QED
    BY <1>6, <1>7, <2>3, <2>4, <2>5, <2>6
       DEF ReleaseNext, TypeOK, pacingVars, ctlVars, sourceVars
<1>10. QED
  BY <1>8, <1>9

\* What prune_locked leaves.
LEMMA PruneTypes ==
    ASSUME TypeOK, NEW n \in PruneCount
    PROVE  /\ n \in 0 .. cursor
           /\ SubSeq(entries, n + 1, Len(entries)) \in Seq(Entry)
           /\ Len(SubSeq(entries, n + 1, Len(entries))) = Len(entries) - n
           /\ \A k \in 1 .. Len(entries) - n :
                 SubSeq(entries, n + 1, Len(entries))[k] = entries[k + n]
<1>1. cursor \in 0 .. Len(entries) /\ Len(entries) \in Nat /\ entries \in Seq(Entry)
  BY DEF TypeOK
<1>2. n \in 0 .. cursor
  BY <1>1 DEF PruneCount
<1>3. n \in Nat /\ n <= Len(entries)
  BY <1>1, <1>2
<1>4. \A i \in n + 1 .. Len(entries) : entries[i] \in Entry
  BY <1>1, <1>3
<1>5. /\ SubSeq(entries, n + 1, Len(entries)) \in Seq(Entry)
      /\ Len(SubSeq(entries, n + 1, Len(entries)))
           = IF n + 1 <= Len(entries) THEN Len(entries) - (n + 1) + 1 ELSE 0
      /\ \A i \in 1 .. Len(entries) - (n + 1) + 1 :
            SubSeq(entries, n + 1, Len(entries))[i] = entries[(n + 1) + i - 1]
  BY <1>1, <1>3, <1>4, SubSeqProperties
<1>6. QED
  BY <1>1, <1>2, <1>3, <1>5

LEMMA EndPassTypes ==
    ASSUME TypeOK, EndPass
    PROVE  TypeOK'
<1>1. PICK n \in PruneCount : /\ entries' = SubSeq(entries, n + 1, Len(entries))
                              /\ cursor' = cursor - n
  BY DEF EndPass
<1>2. /\ n \in 0 .. cursor
      /\ entries' \in Seq(Entry)
      /\ Len(entries') = Len(entries) - n
  BY <1>1, PruneTypes
<1>3. cursor' \in 0 .. Len(entries')
  BY <1>1, <1>2 DEF TypeOK
<1>4. lastPrune' \in Nat
  BY DEF EndPass, TypeOK
<1>5. QED
  BY <1>2, <1>3, <1>4 DEF EndPass, TypeOK, pacingVars, outVars, ctlVars, sourceVars

LEMMA PacerTypes ==
    ASSUME TypeOK, Pacer
    PROVE  TypeOK'
<1>1. CASE PacerLoop
  BY <1>1 DEF PacerLoop, TypeOK, timelineVars, pacingVars, outVars, ctlVars, sourceVars
<1>2. CASE PacerWake
  <2>1. cursor' \in 0 .. Len(entries) /\ resync' \in BOOLEAN
    BY <1>2, JumpTypes DEF PacerWake, TryPendingSkip
  <2>2. pending' \in BOOLEAN /\ hold' \in 0 .. MaxDelay
    BY <1>2 DEF PacerWake, TryPendingSkip, TypeOK
  <2>3. QED
    BY <1>2, <2>1, <2>2 DEF PacerWake, TypeOK, ctlVars, sourceVars
<1>3. CASE ReleaseNext
  BY <1>3, ReleaseNextTypes
<1>4. CASE EndPass
  BY <1>4, EndPassTypes
<1>5. CASE PacerSend
  BY <1>5 DEF PacerSend, TypeOK, timelineVars, pacingVars, outVars, ctlVars, sourceVars
<1>6. QED
  BY <1>1, <1>2, <1>3, <1>4, <1>5 DEF Pacer

LEMMA ControllerTypes ==
    ASSUME TypeOK, StartInProgress, Controller
    PROVE  TypeOK'
<1> USE DEF TypeOK, timelineVars, pacingVars, outVars, pacerVars, ctlVars, sourceVars
<1>1. CASE BeginStop
  BY <1>1 DEF BeginStop, AskPacerToExit
<1>2. ASSUME NEW d \in Requests, BeginStart(d)
      PROVE  TypeOK'
  <2>1. startDelay' \in 0 .. MaxDelay
    BY <1>2, ConstantTypes DEF BeginStart
  <2>2. sessions' \in Nat /\ ctl' = "join"
    BY <1>2 DEF BeginStart
  <2>3. running' \in BOOLEAN
    BY <1>2, Zenon DEF BeginStart, AskPacerToExit
  <2>4. QED
    BY <1>2, <2>1, <2>2, <2>3 DEF BeginStart
<1>3. CASE Join
  BY <1>3 DEF Join
<1>4. CASE Release
  BY <1>4 DEF Release
<1>5. CASE Reset
  <2>1. delay' \in 0 .. MaxDelay /\ hold' \in 0 .. MaxDelay
    BY <1>5 DEF Reset, StartInProgress
  <2>2. lastOut' \in [Kinds -> Times] /\ muxed' \in [Streams -> Times] /\ lastFrame' \in Times
    BY <1>5 DEF Reset, Times
  <2>3. entries' = <<>> /\ cursor' = 0 /\ frame' \in Nat
    BY <1>5, ConstantTypes DEF Reset
  <2>4. entries' \in Seq(Entry) /\ cursor' \in 0 .. Len(entries')
    BY <2>3, EmptySeq
  <2>5. pending' \in BOOLEAN /\ resync' \in BOOLEAN /\ ctl' = "spawn" /\ capture' = "off"
        /\ offset' = 0 /\ lastSent' = 0 /\ lastPrune' = 0 /\ firstKey' = NoTime
    BY <1>5 DEF Reset
  <2>6. QED
    BY <1>5, <2>1, <2>2, <2>3, <2>4, <2>5 DEF Reset
<1>6. CASE Spawn
  BY <1>6 DEF Spawn
<1>7. QED
  BY <1>1, <1>2, <1>3, <1>4, <1>5, <1>6 DEF Controller

LEMMA StepTypes ==
    ASSUME TypeOK, StartInProgress, [Next]_vars
    PROVE  TypeOK'
<1>1. CASE Pacer
  BY <1>1, PacerTypes
<1>2. CASE Controller
  BY <1>2, ControllerTypes
<1>3. ASSUME NEW s \in Streams, Push(s)
      PROVE  TypeOK'
  BY <1>3, PushTypes
<1>4. ASSUME NEW d \in Requests, SetDelay(d)
      PROVE  TypeOK'
  BY <1>4, SetDelayTypes
<1>5. CASE BeginCapture
  BY <1>5 DEF BeginCapture, TypeOK, timelineVars, pacingVars, outVars, pacerVars, ctlVars
<1>6. CASE EndCapture
  BY <1>6 DEF EndCapture, TypeOK, timelineVars, pacingVars, outVars, pacerVars, ctlVars
<1>7. CASE Tick
  BY <1>7 DEF Tick, TypeOK, timelineVars, pacingVars, outVars, pacerVars, ctlVars, sourceVars
<1>8. CASE UNCHANGED vars
  BY <1>8 DEF vars, TypeOK, timelineVars, pacingVars, outVars, pacerVars, ctlVars, sourceVars
<1>9. QED
  BY <1>1, <1>2, <1>3, <1>4, <1>5, <1>6, <1>7, <1>8 DEF Next

LEMMA StepStartInProgress ==
    ASSUME TypeOK, StartInProgress, [Next]_vars
    PROVE  StartInProgress'
<1> USE DEF StartInProgress, ctlVars
<1>1. CASE Controller
  BY <1>1 DEF Controller, BeginStop, BeginStart, Join, Release, Reset, Spawn
<1>2. CASE Pacer
  BY <1>2 DEF Pacer, PacerLoop, PacerWake, ReleaseNext, EndPass, PacerSend
<1>3. CASE (\E s \in Streams : Push(s)) \/ (\E d \in Requests : SetDelay(d))
  BY <1>3 DEF Push, SetDelay
<1>4. CASE BeginCapture \/ EndCapture \/ Tick \/ UNCHANGED vars
  BY <1>4 DEF BeginCapture, EndCapture, Tick, vars
<1>5. QED
  BY <1>1, <1>2, <1>3, <1>4 DEF Next

LEMMA InitTypes == Init => TypeOK /\ StartInProgress
<1> SUFFICES ASSUME Init PROVE TypeOK /\ StartInProgress
  OBVIOUS
<1>1. now \in Nat /\ pnow \in Nat /\ frame \in Nat
  BY ConstantTypes DEF Init
<1>2. entries \in Seq(Entry) /\ cursor \in 0 .. Len(entries) /\ batch \in Seq(OutPacket)
  BY EmptySeq DEF Init
<1>3. delay \in 0 .. MaxDelay /\ hold \in 0 .. MaxDelay
  BY ConstantTypes DEF Init
<1>4. lastOut \in [Kinds -> Times] /\ muxed \in [Streams -> Times] /\ lastFrame \in Times
  BY DEF Init, Times
<1>5. due \in [Streams -> Nat]
  BY <1>1 DEF Init
<1>6. pending \in BOOLEAN /\ resync \in BOOLEAN /\ running \in BOOLEAN /\ registered \in BOOLEAN
  BY DEF Init
<1>7. QED
  BY <1>1, <1>2, <1>3, <1>4, <1>5, <1>6 DEF Init, TypeOK, StartInProgress

\* Every variable of the buffer, the pacer and the controller keeps its type.
THEOREM TypeCorrect == Spec => []TypeOK
<1>1. TypeOK /\ StartInProgress /\ [Next]_vars => TypeOK' /\ StartInProgress'
  BY StepTypes, StepStartInProgress
<1>2. QED
  BY InitTypes, <1>1, PTL DEF Spec

LEMMA StartInProgressAlways == Spec => []StartInProgress
<1>1. TypeOK /\ StartInProgress /\ [Next]_vars => TypeOK' /\ StartInProgress'
  BY StepTypes, StepStartInProgress
<1>2. QED
  BY InitTypes, <1>1, PTL DEF Spec

--------------------------------------------------------------------------------
(***************************************************************************)
(* The inductive invariant.  ResyncOnKeyframe needs to know that a pacer is *)
(* only spawned on an empty timeline; ClockUnderLock that nothing in the   *)
(* timeline is from the future; ReleasedOldEnough that a lower waiting for *)
(* its keyframe holds packets longer than the new delay; Decodable that    *)
(* the frames of the timeline follow each other without a gap, and that    *)
(* the frame in front of the cursor follows the last one released.         *)
(***************************************************************************)

HeldLonger == pending => hold > delay

FreshStart ==
    /\ ctl \in {"release", "reset", "spawn"} => pacer = "none"
    /\ ctl = "spawn" => ~resync /\ lastFrame = NoTime /\ lastOut["video"] = NoTime
    /\ ctl = "spawn" \/ capture = "off" => entries = <<>> /\ firstKey = NoTime
    /\ ctl = "spawn" => capture = "off"
    /\ capture = "off" /\ PacerAlive => lastFrame = NoTime /\ lastOut["video"] = NoTime

ClockInv ==
    /\ ClockUnderLock
    /\ pnow <= now
    /\ \A k \in DOMAIN entries : entries[k].arrival <= now

SafeInv ==
    /\ TypeOK
    /\ StartInProgress
    /\ HeldLonger
    /\ ClockInv
    /\ FreshStart
    /\ ResyncOnKeyframe

\* Position j of the timeline es holds the first frame behind position c.
FirstFrameAfter(es, c, j) ==
    /\ j \in DOMAIN es /\ c < j
    /\ es[j].stream = Video
    /\ \A m \in DOMAIN es : c < m /\ m < j => es[m].stream # Video

NoFrameAfter(es, c) == \A m \in DOMAIN es : c < m => es[m].stream # Video

\* The frame behind position c follows the one of time t in the encoder's output,
\* or will when it arrives, at time d.
Follows(es, d, c, t) ==
    /\ \A j \in DOMAIN es : FirstFrameAfter(es, c, j) => es[j].dts = t + VideoPeriod
    /\ NoFrameAfter(es, c) => d = t + VideoPeriod

\* The same before anything was released: decoding starts at a keyframe.
StartsWithKeyframe(es, c, first) ==
    /\ \A j \in DOMAIN es : FirstFrameAfter(es, c, j) => es[j].key
    /\ NoFrameAfter(es, c) => first = NoTime

GaplessTimeline ==
    \A i \in DOMAIN entries :
        entries[i].stream = Video => Follows(entries, due[Video], i, entries[i].dts)

FrameClock ==
    /\ frame = VideoPeriod
    /\ PacerAlive => (lastFrame = NoTime <=> lastOut["video"] = NoTime)
    /\ PacerAlive /\ ~resync /\ lastFrame # NoTime => lastOut["video"] = lastFrame + offset

NextFrame ==
    PacerAlive /\ ~resync =>
        IF lastFrame = NoTime
        THEN StartsWithKeyframe(entries, cursor, firstKey)
        ELSE Follows(entries, due[Video], cursor, lastFrame)

FrameInv == SafeInv /\ GaplessTimeline /\ FrameClock /\ NextFrame

--------------------------------------------------------------------------------
(***************************************************************************)
(* Preservation, one conjunct after the other                              *)
(***************************************************************************)

\* A lower that waits for its keyframe holds packets longer than asked for.
LEMMA StepHeldLonger ==
    ASSUME TypeOK, HeldLonger, [Next]_vars
    PROVE  HeldLonger'
<1> USE DEF HeldLonger, pacingVars
<1>1. ASSUME NEW d \in Requests, SetDelay(d)
      PROVE  HeldLonger'
  <2>1. Clamp(d) \in 0 .. MaxDelay
    BY ConstantTypes
  <2>2. QED
    BY <1>1, <2>1 DEF SetDelay, Raise, LowerNow, LowerLater, TypeOK
<1>2. CASE Pacer
  BY <1>2 DEF Pacer, PacerLoop, PacerWake, TryPendingSkip, ReleaseNext, EndPass, PacerSend
<1>3. CASE Controller
  BY <1>3 DEF Controller, BeginStop, BeginStart, Join, Release, Reset, Spawn
<1>4. CASE \E s \in Streams : Push(s)
  BY <1>4 DEF Push
<1>5. CASE BeginCapture \/ EndCapture \/ Tick \/ UNCHANGED vars
  BY <1>5 DEF BeginCapture, EndCapture, Tick, vars
<1>6. QED
  BY <1>1, <1>2, <1>3, <1>4, <1>5 DEF Next

\* The timeline stays sorted by arrival, and older than the pacer's clock.
LEMMA StepClockInv ==
    ASSUME TypeOK, ClockInv, [Next]_vars
    PROVE  ClockInv'
<1> USE DEF ClockInv, ClockUnderLock, timelineVars, pacerVars
<1>1. ASSUME UNCHANGED <<now, entries, pnow, pacer>>
      PROVE  ClockInv'
  BY <1>1
<1>2. ASSUME NEW s \in Streams, Push(s)
      PROVE  ClockInv'
  <2>1. PICK e \in Entry : entries' = Append(entries, e) /\ e.arrival = now
    BY <1>2, PushAppends
  <2>2. /\ DOMAIN entries = 1 .. Len(entries) /\ Len(entries) \in Nat
        /\ DOMAIN entries' = 1 .. Len(entries) + 1
        /\ \A k \in 1 .. Len(entries) : entries'[k] = entries[k]
        /\ entries'[Len(entries) + 1] = e
    <3>1. entries \in Seq(Entry) /\ entries' \in Seq(Entry)
      BY <2>1, AppendProperties DEF TypeOK
    <3>2. QED
      BY <2>1, <3>1, AppendProperties
  <2>3. \A k \in 1 .. Len(entries) : entries[k].arrival \in Nat
    BY EntryTypes
  <2>4. pacer' # "pass" /\ now' = now /\ pnow' = pnow /\ now \in Nat
    BY <1>2 DEF Push, Unlocked, TypeOK
  <2>5. \A k \in DOMAIN entries' : entries'[k].arrival \in Nat /\ entries'[k].arrival <= now
    BY <2>1, <2>2, <2>3, <2>4
  <2>6. \A i, j \in DOMAIN entries' : i <= j => entries'[i].arrival <= entries'[j].arrival
    BY <2>1, <2>2, <2>3, <2>4, <2>5
  <2>7. QED
    BY <2>4, <2>5, <2>6
<1>3. CASE PacerWake
  BY <1>3 DEF PacerWake, TypeOK
<1>4. CASE EndPass
  <2>1. PICK n \in PruneCount : entries' = SubSeq(entries, n + 1, Len(entries))
    BY <1>4 DEF EndPass
  <2>2. /\ n \in 0 .. cursor
        /\ entries' \in Seq(Entry)
        /\ Len(entries') = Len(entries) - n
        /\ \A k \in 1 .. Len(entries) - n : entries'[k] = entries[k + n]
    BY <2>1, PruneTypes
  <2>3. \A k \in DOMAIN entries' : k + n \in DOMAIN entries /\ entries'[k] = entries[k + n]
    <3>1. DOMAIN entries' = 1 .. Len(entries) - n
      BY <2>2
    <3>2. n \in Nat /\ DOMAIN entries = 1 .. Len(entries) /\ Len(entries) \in Nat
      BY <2>2, EntryTypes DEF TypeOK
    <3>3. QED
      BY <2>2, <3>1, <3>2
  <2>4. n \in Int /\ DOMAIN entries' \subseteq Int
    BY <2>2 DEF TypeOK
  <2>5. pacer' # "pass" /\ now' = now /\ pnow' = pnow
    BY <1>4 DEF EndPass
  <2>6. QED
    BY <2>3, <2>4, <2>5
<1>5. CASE Release \/ Reset
  <2>1. DOMAIN entries' = {} /\ UNCHANGED <<now, pnow>>
    BY <1>5 DEF Release, Reset
  <2>2. QED
    BY <2>1
<1>6. CASE PacerLoop
  BY <1>6 DEF PacerLoop
<1>7. CASE Join
  BY <1>7 DEF Join
<1>8. CASE Spawn
  BY <1>8 DEF Spawn, TypeOK
<1>9. CASE Tick
  <2>1. \A k \in DOMAIN entries : entries[k].arrival \in Nat
    BY EntryTypes
  <2>2. QED
    BY <1>9, <2>1 DEF Tick, TypeOK
<1>10. CASE ReleaseNext \/ PacerSend
  BY <1>1, <1>10 DEF ReleaseNext, PacerSend
<1>11. CASE BeginStop \/ (\E d \in Requests : BeginStart(d))
  BY <1>1, <1>11 DEF BeginStop, BeginStart
<1>12. CASE (\E d \in Requests : SetDelay(d)) \/ BeginCapture \/ EndCapture
  BY <1>1, <1>12 DEF SetDelay, BeginCapture, EndCapture
<1>13. CASE UNCHANGED vars
  BY <1>1, <1>13 DEF vars
<1>14. QED
  BY <1>2, <1>3, <1>4, <1>5, <1>6, <1>7, <1>8, <1>9, <1>10, <1>11, <1>12, <1>13
     DEF Next, Pacer, Controller

\* A pacer is only spawned on an empty timeline, before anything was captured.
LEMMA StepFreshStart ==
    ASSUME TypeOK, FreshStart, [Next]_vars
    PROVE  FreshStart'
<1> USE DEF FreshStart, PacerAlive, ctlVars, sourceVars, outVars, pacerVars, timelineVars
<1>1. ASSUME NEW d \in Requests, SetDelay(d)
      PROVE  FreshStart'
  <2>1. CASE ctl = "spawn"
    <3>1. Keyframes = {}
      BY <2>1 DEF Keyframes
    <3>2. ~resync'
      BY <1>1, <2>1, <3>1, JumpTargets
         DEF SetDelay, Raise, LowerNow, LowerLater, RewindTo, SkipTo, StayPut
    <3>3. QED
      BY <1>1, <2>1, <3>2 DEF SetDelay
  <2>2. CASE ctl # "spawn"
    BY <1>1, <2>2 DEF SetDelay
  <2>3. QED
    BY <2>1, <2>2
<1>2. CASE \E s \in Streams : Push(s)
  BY <1>2 DEF Push
<1>3. CASE PacerLoop \/ PacerSend
  BY <1>3 DEF PacerLoop, PacerSend
<1>4. CASE PacerWake
  BY <1>4 DEF PacerWake
<1>5. CASE ReleaseNext
  <2>1. capture # "off" /\ ctl \notin {"release", "reset", "spawn"}
    BY <1>5 DEF ReleaseNext, CanRelease, TypeOK
  <2>2. QED
    BY <1>5, <2>1 DEF ReleaseNext
<1>6. CASE EndPass
  <2>1. PICK n \in PruneCount : entries' = SubSeq(entries, n + 1, Len(entries))
    BY <1>6 DEF EndPass
  <2>2. entries = <<>> => entries' = <<>>
    <3>1. n \in 0 .. cursor /\ entries' \in Seq(Entry) /\ Len(entries') = Len(entries) - n
      BY <2>1, PruneTypes
    <3>2. entries = <<>> => n = 0 /\ Len(entries') = 0
      BY <3>1 DEF TypeOK
    <3>3. QED
      BY <3>1, <3>2, EmptySeq
  <2>3. QED
    BY <1>6, <2>2 DEF EndPass
<1>7. CASE BeginStop \/ (\E d \in Requests : BeginStart(d))
  BY <1>7 DEF BeginStop, BeginStart
<1>8. CASE Join
  BY <1>8 DEF Join
<1>9. CASE Release
  BY <1>9 DEF Release
<1>10. CASE Reset
  <2>1. lastOut'["video"] = NoTime
    BY <1>10 DEF Reset, Kinds
  <2>2. QED
    BY <1>10, <2>1 DEF Reset
<1>11. CASE Spawn
  BY <1>11 DEF Spawn
<1>12. CASE BeginCapture \/ EndCapture \/ Tick
  BY <1>12 DEF BeginCapture, EndCapture, Tick
<1>13. CASE UNCHANGED vars
  BY <1>13 DEF vars
<1>14. QED
  BY <1>1, <1>2, <1>3, <1>4, <1>5, <1>6, <1>7, <1>8, <1>9, <1>10, <1>11, <1>12, <1>13
     DEF Next, Pacer, Controller

\* A jump leads to a keyframe, whatever the target.
LEMMA JumpResync ==
    ASSUME TypeOK, ResyncOnKeyframe, NEW t,
           RewindTo(RewindPoint(t)) \/ SkipTo(SkipPoint(t)) \/ StayPut,
           entries' = entries, PacerAlive' <=> PacerAlive
    PROVE  ResyncOnKeyframe'
<1> USE DEF ResyncOnKeyframe
<1>1. CASE StayPut
  BY <1>1 DEF StayPut, IsKeyframe
<1>2. ASSUME NEW k \in Keyframes, JumpTo(k)
      PROVE  ResyncOnKeyframe'
  <2>1. k \in 1 .. Len(entries) /\ Len(entries) \in Nat /\ IsKeyframe(entries[k])
    BY EntryTypes DEF Keyframes
  <2>2. cursor' + 1 = k /\ cursor' < Len(entries)
    BY <1>2, <2>1 DEF JumpTo
  <2>3. QED
    BY <2>1, <2>2 DEF IsKeyframe
<1>3. QED
  BY <1>1, <1>2, JumpTargets DEF RewindTo, SkipTo

LEMMA StepResyncOnKeyframe ==
    ASSUME TypeOK, FreshStart, ResyncOnKeyframe, [Next]_vars
    PROVE  ResyncOnKeyframe'
<1> USE DEF timelineVars, pacerVars, outVars
<1>1. ASSUME UNCHANGED <<entries, cursor, resync>>, PacerAlive' => PacerAlive
      PROVE  ResyncOnKeyframe'
  BY <1>1 DEF ResyncOnKeyframe, IsKeyframe
<1>2. ASSUME NEW d \in Requests, SetDelay(d)
      PROVE  ResyncOnKeyframe'
  <2>1. entries' = entries /\ (PacerAlive' <=> PacerAlive)
    BY <1>2 DEF SetDelay, PacerAlive
  <2>2. QED
    BY <1>2, <2>1, JumpResync DEF SetDelay, Raise, LowerNow, LowerLater
<1>3. CASE PacerWake
  <2>1. entries' = entries /\ (PacerAlive' <=> PacerAlive)
    BY <1>3 DEF PacerWake, PacerAlive
  <2>2. QED
    BY <1>3, <2>1, JumpResync DEF PacerWake, TryPendingSkip
<1>4. ASSUME NEW s \in Streams, Push(s)
      PROVE  ResyncOnKeyframe'
  <2>1. PICK e \in Entry : entries' = Append(entries, e)
    BY <1>4, PushAppends
  <2>2. /\ Len(entries') = Len(entries) + 1
        /\ \A k \in 1 .. Len(entries) : entries'[k] = entries[k]
    BY <2>1, AppendProperties DEF TypeOK
  <2>3. cursor \in 0 .. Len(entries) /\ Len(entries) \in Nat
    BY DEF TypeOK
  <2>4. UNCHANGED <<cursor, resync, pacer>>
    BY <1>4 DEF Push
  <2>5. QED
    BY <2>2, <2>3, <2>4 DEF ResyncOnKeyframe, PacerAlive, IsKeyframe
<1>5. CASE EndPass
  <2>1. PICK n \in PruneCount : /\ entries' = SubSeq(entries, n + 1, Len(entries))
                                /\ cursor' = cursor - n
    BY <1>5 DEF EndPass
  <2>2. /\ n \in 0 .. cursor
        /\ Len(entries') = Len(entries) - n
        /\ \A k \in 1 .. Len(entries) - n : entries'[k] = entries[k + n]
    BY <2>1, PruneTypes
  <2>3. cursor \in 0 .. Len(entries) /\ Len(entries) \in Nat
    BY DEF TypeOK
  <2>4. resync' = resync /\ PacerAlive
    BY <1>5 DEF EndPass, PacerAlive
  <2>5. cursor < Len(entries) =>
           cursor' < Len(entries') /\ entries'[cursor' + 1] = entries[cursor + 1]
    <3>1. ASSUME cursor < Len(entries)
          PROVE  cursor' < Len(entries') /\ entries'[cursor' + 1] = entries[cursor + 1]
      <4>1. cursor - n + 1 \in 1 .. Len(entries) - n /\ (cursor - n + 1) + n = cursor + 1
        BY <2>2, <2>3, <3>1
      <4>2. QED
        BY <2>1, <2>2, <2>3, <4>1, <3>1
    <3>2. QED
      BY <3>1
  <2>6. QED
    BY <2>4, <2>5 DEF ResyncOnKeyframe, IsKeyframe
<1>6. CASE ReleaseNext \/ Reset
  BY <1>6 DEF ReleaseNext, Reset, ResyncOnKeyframe
<1>7. CASE Release
  BY <1>7 DEF Release, FreshStart, ResyncOnKeyframe, PacerAlive
<1>8. CASE Spawn
  BY <1>8 DEF Spawn, FreshStart, ResyncOnKeyframe
<1>9. CASE PacerLoop \/ PacerSend
  BY <1>1, <1>9 DEF PacerLoop, PacerSend, PacerAlive
<1>10. CASE BeginStop \/ (\E d \in Requests : BeginStart(d))
  BY <1>1, <1>10 DEF BeginStop, BeginStart, PacerAlive
<1>11. CASE Join
  BY <1>1, <1>11 DEF Join, PacerAlive
<1>12. CASE BeginCapture \/ EndCapture \/ Tick \/ UNCHANGED vars
  BY <1>1, <1>12 DEF BeginCapture, EndCapture, Tick, vars, PacerAlive
<1>13. QED
  BY <1>2, <1>3, <1>4, <1>5, <1>6, <1>7, <1>8, <1>9, <1>10, <1>11, <1>12
     DEF Next, Pacer, Controller

LEMMA InitSafe == Init => SafeInv
<1> SUFFICES ASSUME Init PROVE SafeInv
  OBVIOUS
<1>1. HeldLonger /\ ResyncOnKeyframe
  BY DEF Init, HeldLonger, ResyncOnKeyframe
<1>2. ClockInv
  BY InitTypes DEF Init, ClockInv, ClockUnderLock, TypeOK
<1>3. FreshStart
  BY DEF Init, FreshStart, PacerAlive
<1>4. QED
  BY InitTypes, <1>1, <1>2, <1>3 DEF SafeInv

LEMMA StepSafe == SafeInv /\ [Next]_vars => SafeInv'
  BY StepTypes, StepStartInProgress, StepHeldLonger, StepClockInv, StepFreshStart,
     StepResyncOnKeyframe DEF SafeInv

LEMMA SafeInvariant == Spec => []SafeInv
  BY InitSafe, StepSafe, PTL DEF Spec

\* "First packet after a jump is a video keyframe" (delay-buffer.c, line 276).
THEOREM ResyncSafe == Spec => []ResyncOnKeyframe
<1>1. SafeInv => ResyncOnKeyframe
  BY DEF SafeInv
<1>2. QED
  BY SafeInvariant, <1>1, PTL

\* The timeline "stays ordered", and "every buffered packet is then older than
\* `now`" (lines 260 and 311): no unsigned difference of the pass wraps.
THEOREM ClockSafe == Spec => []ClockUnderLock
<1>1. SafeInv => ClockUnderLock
  BY DEF SafeInv, ClockInv
<1>2. QED
  BY SafeInvariant, <1>1, PTL

\* Only a turn of the release loop puts something in the batch.
LEMMA ReleaseStep ==
    ASSUME TypeOK, [Next]_vars, Released
    PROVE  ReleaseNext
<1>1. Len(batch) \in Nat
  BY DEF TypeOK
<1>2. CASE Controller
  BY <1>2, <1>1 DEF Controller, BeginStop, BeginStart, Join, Release, Reset, Spawn,
                    Released, pacerVars
<1>3. CASE Pacer
  BY <1>3, <1>1, EmptySeq DEF Pacer, PacerLoop, PacerWake, EndPass, PacerSend, Released
<1>4. CASE (\E s \in Streams : Push(s)) \/ (\E d \in Requests : SetDelay(d))
  BY <1>4, <1>1 DEF Push, SetDelay, Released, pacerVars
<1>5. CASE BeginCapture \/ EndCapture \/ Tick \/ UNCHANGED vars
  BY <1>5, <1>1 DEF BeginCapture, EndCapture, Tick, vars, Released, pacerVars
<1>6. QED
  BY <1>2, <1>3, <1>4, <1>5 DEF Next

\* The packet under the cursor is old enough when the loop takes it.
LEMMA ReleaseAge ==
    ASSUME SafeInv, ReleaseNext
    PROVE  now - entries[cursor + 1].arrival >= delay
<1>1. pnow - entries[cursor + 1].arrival >= Pace
  BY DEF ReleaseNext, CanRelease
<1>2. entries[cursor + 1].arrival \in Nat
  <2>1. cursor + 1 \in DOMAIN entries
    BY EntryTypes DEF SafeInv, ReleaseNext, CanRelease, TypeOK
  <2>2. QED
    BY <2>1, EntryTypes DEF SafeInv
<1>3. Pace >= delay /\ Pace \in Int
  BY DEF SafeInv, Pace, HeldLonger, TypeOK
<1>4. pnow <= now /\ pnow \in Nat /\ now \in Nat /\ delay \in Int
  BY DEF SafeInv, ClockInv, TypeOK
<1>5. QED
  BY <1>1, <1>2, <1>3, <1>4

\* "A pacer thread releases the packet at `cursor` once it is `delay` old"
\* (delay-buffer.h, line 23), whatever changes of the delay came before.
THEOREM ReleaseSafe == Spec => ReleasedOldEnough
<1>1. SafeInv /\ [Next]_vars => [Released => now - entries[cursor'].arrival >= delay]_vars
  <2> SUFFICES ASSUME SafeInv, [Next]_vars, Released
               PROVE  now - entries[cursor'].arrival >= delay
    OBVIOUS
  <2>1. ReleaseNext
    BY ReleaseStep DEF SafeInv
  <2>2. cursor' = cursor + 1
    BY <2>1 DEF ReleaseNext
  <2>3. QED
    BY <2>1, <2>2, ReleaseAge
<1>2. QED
  BY SafeInvariant, <1>1, PTL DEF Spec, ReleasedOldEnough

--------------------------------------------------------------------------------
(***************************************************************************)
(* Decodable: how the frames of a timeline follow each other when it grows *)
(* at the end, loses its beginning, or is passed by the cursor.            *)
(***************************************************************************)

\* Appending a frame on time keeps what follows, and appending audio does.
LEMMA AppendFollows ==
    ASSUME NEW es \in Seq(Entry), NEW e \in Entry, NEW c \in 0 .. Len(es),
           NEW d \in Nat, NEW d2 \in Nat, NEW t \in Int,
           Follows(es, d, c, t),
           IF e.stream = Video THEN e.dts = d ELSE d2 = d
    PROVE  Follows(Append(es, e), d2, c, t)
<1> DEFINE fs == Append(es, e)
           n == Len(es)
<1>1. /\ n \in Nat /\ DOMAIN es = 1 .. n /\ DOMAIN fs = 1 .. n + 1
      /\ \A k \in 1 .. n : fs[k] = es[k]
      /\ fs[n + 1] = e
  <2>1. fs \in Seq(Entry) /\ Len(fs) = n + 1
    BY AppendProperties
  <2>2. DOMAIN fs = 1 .. n + 1
    BY <2>1
  <2>3. QED
    BY <2>2, AppendProperties
<1> HIDE DEF fs, n
<1>2. ASSUME NEW j \in DOMAIN fs, FirstFrameAfter(fs, c, j)
      PROVE  fs[j].dts = t + VideoPeriod
  <2>1. CASE j = n + 1
    <3>1. NoFrameAfter(es, c)
      BY <1>1, <1>2, <2>1 DEF NoFrameAfter, FirstFrameAfter
    <3>2. fs[j] = e /\ e.stream = Video
      BY <1>1, <1>2, <2>1 DEF FirstFrameAfter
    <3>3. QED
      BY <3>1, <3>2 DEF Follows
  <2>2. CASE j # n + 1
    <3>1. j \in 1 .. n
      BY <1>1, <2>2
    <3>2. FirstFrameAfter(es, c, j)
      BY <1>1, <1>2, <3>1 DEF FirstFrameAfter
    <3>3. QED
      BY <1>1, <3>1, <3>2 DEF Follows
  <2>3. QED
    BY <2>1, <2>2
<1>3. ASSUME NoFrameAfter(fs, c)
      PROVE  d2 = t + VideoPeriod
  <2>1. NoFrameAfter(es, c)
    BY <1>1, <1>3 DEF NoFrameAfter
  <2>2. c < n + 1
    BY <1>1 DEF n
  <2>3. e.stream # Video
    BY <1>1, <1>3, <2>2 DEF NoFrameAfter
  <2>4. QED
    BY <2>1, <2>3 DEF Follows
<1>4. QED
  BY <1>2, <1>3 DEF Follows, fs

LEMMA AppendStarts ==
    ASSUME NEW es \in Seq(Entry), NEW e \in Entry, NEW c \in 0 .. Len(es),
           NEW first, NEW first2,
           StartsWithKeyframe(es, c, first),
           IF e.stream = Video THEN first = NoTime => e.key ELSE first2 = first
    PROVE  StartsWithKeyframe(Append(es, e), c, first2)
<1> DEFINE fs == Append(es, e)
           n == Len(es)
<1>1. /\ n \in Nat /\ DOMAIN es = 1 .. n /\ DOMAIN fs = 1 .. n + 1
      /\ \A k \in 1 .. n : fs[k] = es[k]
      /\ fs[n + 1] = e
  <2>1. fs \in Seq(Entry) /\ Len(fs) = n + 1
    BY AppendProperties
  <2>2. DOMAIN fs = 1 .. n + 1
    BY <2>1
  <2>3. QED
    BY <2>2, AppendProperties
<1>2. c < n + 1
  BY <1>1
<1> HIDE DEF fs, n
<1>3. ASSUME NEW j \in DOMAIN fs, FirstFrameAfter(fs, c, j)
      PROVE  fs[j].key
  <2>1. CASE j = n + 1
    <3>1. NoFrameAfter(es, c)
      BY <1>1, <1>3, <2>1 DEF NoFrameAfter, FirstFrameAfter
    <3>2. fs[j] = e /\ e.stream = Video
      BY <1>1, <1>3, <2>1 DEF FirstFrameAfter
    <3>3. QED
      BY <3>1, <3>2 DEF StartsWithKeyframe
  <2>2. CASE j # n + 1
    <3>1. j \in 1 .. n
      BY <1>1, <2>2
    <3>2. FirstFrameAfter(es, c, j)
      BY <1>1, <1>3, <3>1 DEF FirstFrameAfter
    <3>3. QED
      BY <1>1, <3>1, <3>2 DEF StartsWithKeyframe
  <2>3. QED
    BY <2>1, <2>2
<1>4. ASSUME NoFrameAfter(fs, c)
      PROVE  first2 = NoTime
  <2>1. NoFrameAfter(es, c)
    BY <1>1, <1>4 DEF NoFrameAfter
  <2>2. e.stream # Video
    BY <1>1, <1>2, <1>4 DEF NoFrameAfter
  <2>3. QED
    BY <2>1, <2>2 DEF StartsWithKeyframe
<1>5. QED
  BY <1>3, <1>4 DEF StartsWithKeyframe, fs

\* Removing the first n entries moves every position by n.
LEMMA PruneFollows ==
    ASSUME NEW es \in Seq(Entry), NEW fs \in Seq(Entry), NEW n \in Nat, NEW c \in Nat,
           n <= c, n <= Len(es), Len(fs) = Len(es) - n,
           \A k \in 1 .. Len(es) - n : fs[k] = es[k + n]
    PROVE  /\ \A d, t : Follows(es, d, c, t) => Follows(fs, d, c - n, t)
           /\ \A first : StartsWithKeyframe(es, c, first)
                           => StartsWithKeyframe(fs, c - n, first)
<1>1. /\ Len(es) \in Nat /\ DOMAIN es = 1 .. Len(es) /\ DOMAIN fs = 1 .. Len(es) - n
  OBVIOUS
<1>2. \A k \in DOMAIN fs : k \in Int /\ k + n \in DOMAIN es /\ fs[k] = es[k + n]
  BY <1>1
<1>3. \A m \in DOMAIN es : c < m => m - n \in DOMAIN fs /\ fs[m - n] = es[m] /\ m \in Int
  <2> TAKE m \in DOMAIN es
  <2> HAVE c < m
  <2>1. m \in Int /\ m - n \in 1 .. Len(es) - n /\ (m - n) + n = m
    BY <1>1
  <2>2. QED
    BY <1>1, <2>1
<1>4. NoFrameAfter(fs, c - n) => NoFrameAfter(es, c)
  BY <1>3 DEF NoFrameAfter
<1>5. \A j \in DOMAIN fs : FirstFrameAfter(fs, c - n, j) => FirstFrameAfter(es, c, j + n)
  <2> TAKE j \in DOMAIN fs
  <2> HAVE FirstFrameAfter(fs, c - n, j)
  <2>1. j \in Int /\ j + n \in DOMAIN es /\ es[j + n].stream = Video /\ c < j + n
    BY <1>2 DEF FirstFrameAfter
  <2>2. ASSUME NEW m \in DOMAIN es, c < m, m < j + n
        PROVE  es[m].stream # Video
    <3>1. m - n \in DOMAIN fs /\ fs[m - n] = es[m] /\ c - n < m - n /\ m - n < j
      BY <1>1, <1>3, <2>1, <2>2
    <3>2. QED
      BY <3>1 DEF FirstFrameAfter
  <2>3. QED
    BY <2>1, <2>2 DEF FirstFrameAfter
<1>6. QED
  BY <1>2, <1>4, <1>5 DEF Follows, StartsWithKeyframe

\* The cursor passes an audio packet.
LEMMA PassAudio ==
    ASSUME NEW es \in Seq(Entry), NEW c \in Nat, c + 1 \in DOMAIN es,
           es[c + 1].stream # Video
    PROVE  /\ \A d, t : Follows(es, d, c, t) => Follows(es, d, c + 1, t)
           /\ \A first : StartsWithKeyframe(es, c, first)
                           => StartsWithKeyframe(es, c + 1, first)
<1>1. \A m \in DOMAIN es : m \in Int /\ (c < m => m = c + 1 \/ c + 1 < m)
  OBVIOUS
<1>2. NoFrameAfter(es, c + 1) => NoFrameAfter(es, c)
  BY <1>1 DEF NoFrameAfter
<1>3. \A j \in DOMAIN es : FirstFrameAfter(es, c + 1, j) => FirstFrameAfter(es, c, j)
  BY <1>1 DEF FirstFrameAfter
<1>4. QED
  BY <1>2, <1>3 DEF Follows, StartsWithKeyframe

\* The first frame behind the cursor may be right there.
LEMMA FrameAtCursor ==
    ASSUME NEW es \in Seq(Entry), NEW c \in Nat, c + 1 \in DOMAIN es,
           es[c + 1].stream = Video
    PROVE  FirstFrameAfter(es, c, c + 1)
<1>1. \A m \in DOMAIN es : m \in Int /\ ~(c < m /\ m < c + 1)
  OBVIOUS
<1>2. QED
  BY <1>1 DEF FirstFrameAfter

\* The frames of the timeline follow each other, and the next one follows them.
LEMMA StepGapless ==
    ASSUME TypeOK, FreshStart, GaplessTimeline, [Next]_vars
    PROVE  GaplessTimeline'
<1> USE DEF timelineVars, sourceVars
<1>1. ASSUME UNCHANGED <<entries, due>>
      PROVE  GaplessTimeline'
  BY <1>1 DEF GaplessTimeline
<1>2. ASSUME entries' = <<>>
      PROVE  GaplessTimeline'
  BY <1>2 DEF GaplessTimeline
<1>3. ASSUME NEW s \in Streams, Push(s)
      PROVE  GaplessTimeline'
  <2>1. PICK e \in Entry : entries' = Append(entries, e) /\ e.stream = s /\ e.dts = due[s]
    BY <1>3, PushAppends
  <2>2. /\ entries \in Seq(Entry) /\ Len(entries) \in Nat
        /\ DOMAIN entries = 1 .. Len(entries)
        /\ DOMAIN entries' = 1 .. Len(entries) + 1
        /\ \A k \in 1 .. Len(entries) : entries'[k] = entries[k]
        /\ entries'[Len(entries) + 1] = e
    <3>1. entries \in Seq(Entry) /\ entries' \in Seq(Entry)
      BY <2>1, AppendProperties DEF TypeOK
    <3>2. QED
      BY <2>1, <3>1, AppendProperties
  <2>3. due[Video] \in Nat /\ VideoPeriod \in Nat
    BY ConstantTypes DEF TypeOK
  <2>4. due'[Video] = IF s = Video THEN due[Video] + VideoPeriod ELSE due[Video]
    BY <1>3, ConstantTypes DEF Push, TypeOK, Period
  <2>5. due'[Video] \in Nat
    BY <2>3, <2>4
  <2>6. SUFFICES ASSUME NEW i \in DOMAIN entries', entries'[i].stream = Video
                 PROVE  Follows(entries', due'[Video], i, entries'[i].dts)
    BY DEF GaplessTimeline
  <2>7. CASE i \in 1 .. Len(entries)
    <3>1. entries'[i] = entries[i] /\ entries[i].dts \in Nat /\ i \in 0 .. Len(entries)
      BY <2>2, <2>7, EntryTypes
    <3>2. Follows(entries, due[Video], i, entries[i].dts)
      BY <2>2, <2>6, <2>7, <3>1 DEF GaplessTimeline
    <3>3. QED
      BY <2>1, <2>2, <2>3, <2>4, <2>5, <3>1, <3>2, AppendFollows
  <2>8. CASE i = Len(entries) + 1
    <3>1. entries'[i] = e /\ s = Video /\ e.dts = due[Video]
      BY <2>1, <2>2, <2>6, <2>8
    <3>2. \A m \in DOMAIN entries' : ~(i < m)
      BY <2>2, <2>8
    <3>3. QED
      BY <2>4, <3>1, <3>2 DEF Follows, FirstFrameAfter
  <2>9. QED
    BY <2>2, <2>6, <2>7, <2>8
<1>4. CASE EndPass
  <2>1. PICK n \in PruneCount : entries' = SubSeq(entries, n + 1, Len(entries))
    BY <1>4 DEF EndPass
  <2>2. /\ n \in Nat /\ n <= Len(entries)
        /\ entries \in Seq(Entry) /\ entries' \in Seq(Entry)
        /\ Len(entries') = Len(entries) - n
        /\ \A k \in 1 .. Len(entries) - n : entries'[k] = entries[k + n]
    <3>1. /\ n \in 0 .. cursor
          /\ SubSeq(entries, n + 1, Len(entries)) \in Seq(Entry)
          /\ Len(SubSeq(entries, n + 1, Len(entries))) = Len(entries) - n
          /\ \A k \in 1 .. Len(entries) - n :
                SubSeq(entries, n + 1, Len(entries))[k] = entries[k + n]
      BY PruneTypes
    <3>2. entries' \in Seq(Entry) /\ Len(entries') = Len(entries) - n
      BY <2>1, <3>1
    <3>3. \A k \in 1 .. Len(entries) - n : entries'[k] = entries[k + n]
      BY <2>1, <3>1
    <3>4. entries \in Seq(Entry) /\ cursor \in 0 .. Len(entries) /\ Len(entries) \in Nat
      BY DEF TypeOK
    <3>5. n \in Nat /\ n <= Len(entries)
      BY <3>1, <3>4
    <3>6. QED
      BY <3>2, <3>3, <3>4, <3>5
  <2>3. due' = due
    BY <1>4 DEF EndPass
  <2>4. SUFFICES ASSUME NEW i \in DOMAIN entries', entries'[i].stream = Video
                 PROVE  Follows(entries', due[Video], i, entries'[i].dts)
    BY <2>3 DEF GaplessTimeline
  <2>5. i + n \in DOMAIN entries /\ entries'[i] = entries[i + n] /\ i + n \in Nat /\ n <= i + n
        /\ (i + n) - n = i
    <3>1. i \in 1 .. Len(entries) - n /\ Len(entries) \in Nat /\ DOMAIN entries = 1 .. Len(entries)
      BY <2>2, EntryTypes
    <3>2. QED
      BY <2>2, <3>1
  <2>6. Follows(entries, due[Video], i + n, entries[i + n].dts)
    BY <2>4, <2>5 DEF GaplessTimeline
  <2>7. Follows(entries', due[Video], (i + n) - n, entries[i + n].dts)
    BY <2>2, <2>5, <2>6, PruneFollows
  <2>8. QED
    BY <2>5, <2>7
<1>5. CASE Release \/ Reset
  BY <1>2, <1>5 DEF Release, Reset
<1>6. CASE BeginCapture
  BY <1>2, <1>6 DEF BeginCapture, FreshStart
<1>7. CASE PacerLoop \/ PacerWake \/ ReleaseNext \/ PacerSend
  BY <1>1, <1>7 DEF PacerLoop, PacerWake, ReleaseNext, PacerSend
<1>8. CASE BeginStop \/ (\E d \in Requests : BeginStart(d)) \/ Join \/ Spawn
  BY <1>1, <1>8 DEF BeginStop, BeginStart, Join, Spawn
<1>9. CASE (\E d \in Requests : SetDelay(d)) \/ EndCapture \/ Tick \/ UNCHANGED vars
  BY <1>1, <1>9 DEF SetDelay, EndCapture, Tick, vars
<1>10. QED
  BY <1>3, <1>4, <1>5, <1>6, <1>7, <1>8, <1>9 DEF Next, Pacer, Controller

\* A frame is never dropped: behind a jump it is placed one frame after the last
\* one sent, and otherwise it comes one frame after it.
LEMMA FrameNotDropped ==
    ASSUME FrameInv, ReleaseNext, entries[cursor + 1].stream = Video
    PROVE  /\ ~GoesBackwards(entries[cursor + 1])
           /\ resync \/ IF lastFrame = NoTime
                        THEN entries[cursor + 1].key
                        ELSE entries[cursor + 1].dts = lastFrame + VideoPeriod
<1> DEFINE e == entries[cursor + 1]
<1>1. TypeOK /\ PacerAlive
  BY DEF FrameInv, SafeInv, ReleaseNext, PacerAlive
<1>2. /\ cursor \in Nat /\ cursor + 1 \in DOMAIN entries /\ entries \in Seq(Entry)
      /\ e.dts \in Nat
  BY <1>1, EntryTypes DEF ReleaseNext, CanRelease, TypeOK
<1>3. FirstFrameAfter(entries, cursor, cursor + 1)
  BY <1>2, FrameAtCursor
<1>4. VideoPeriod \in Nat /\ VideoPeriod > 0 /\ NoTime \notin Int /\ frame = VideoPeriod
  BY ConstantTypes DEF FrameInv, FrameClock
<1>5. lastOut["video"] \in Int \cup {NoTime} /\ offset \in Int /\ lastFrame \in Int \cup {NoTime}
  BY <1>1 DEF TypeOK, Kinds, Times
<1>6. Kind(e.stream) = "video"
  BY DEF Kind
<1>7. CASE resync
  <2>1. CASE lastOut["video"] = NoTime
    BY <1>6, <1>7, <2>1 DEF GoesBackwards
  <2>2. CASE lastOut["video"] # NoTime
    <3>1. e.dts + OutOffset(e) = lastOut["video"] + VideoPeriod
      BY <1>2, <1>4, <1>5, <1>7, <2>2 DEF OutOffset, ResyncOffset
    <3>2. QED
      BY <1>4, <1>5, <1>6, <1>7, <2>2, <3>1 DEF GoesBackwards
  <2>3. QED
    BY <2>1, <2>2
<1>8. CASE ~resync
  <2>1. CASE lastFrame = NoTime
    <3>1. StartsWithKeyframe(entries, cursor, firstKey) /\ lastOut["video"] = NoTime
      BY <1>1, <1>8, <2>1 DEF FrameInv, NextFrame, FrameClock
    <3>2. e.key
      BY <1>2, <1>3, <3>1 DEF StartsWithKeyframe
    <3>3. QED
      BY <1>6, <2>1, <3>1, <3>2 DEF GoesBackwards
  <2>2. CASE lastFrame # NoTime
    <3>1. Follows(entries, due[Video], cursor, lastFrame)
      BY <1>1, <1>8, <2>2 DEF FrameInv, NextFrame
    <3>2. e.dts = lastFrame + VideoPeriod
      BY <1>2, <1>3, <3>1 DEF Follows
    <3>3. lastOut["video"] = lastFrame + offset
      BY <1>1, <1>8, <2>2 DEF FrameInv, FrameClock
    <3>4. e.dts + OutOffset(e) = lastOut["video"] + VideoPeriod
      BY <1>2, <1>5, <1>8, <1>4, <2>2, <3>2, <3>3 DEF OutOffset
    <3>5. lastOut["video"] \in Int
      BY <1>5, <2>2, <3>3
    <3>6. QED
      BY <1>4, <1>6, <2>2, <3>2, <3>4, <3>5 DEF GoesBackwards
  <2>3. QED
    BY <2>1, <2>2
<1>9. QED
  BY <1>7, <1>8

\* The clock of the frames sent: the last frame, rewritten, is the last video time.
LEMMA StepFrameClock ==
    ASSUME FrameInv, [Next]_vars
    PROVE  FrameClock'
<1> USE DEF timelineVars, pacerVars, outVars, PacerAlive
<1>1. TypeOK /\ FreshStart /\ FrameClock
  BY DEF FrameInv, SafeInv
<1>2. ASSUME UNCHANGED <<frame, lastFrame, lastOut, offset>>, PacerAlive' => PacerAlive,
             resync => resync'
      PROVE  FrameClock'
  BY <1>1, <1>2 DEF FrameClock
<1>3. CASE ReleaseNext
  <2> DEFINE e == entries[cursor + 1]
             off == OutOffset(e)
  <2>1. /\ cursor + 1 \in DOMAIN entries /\ e.dts \in Nat /\ e.stream \in Streams
    BY <1>1, <1>3, EntryTypes DEF ReleaseNext, CanRelease, TypeOK
  <2>2. frame' = frame /\ offset' = off /\ resync' = FALSE /\ PacerAlive
    BY <1>3 DEF ReleaseNext
  <2>3. CASE e.stream = Video
    <3>1. ~GoesBackwards(e)
      BY <1>3, <2>3, FrameNotDropped
    <3>2. lastOut' = [lastOut EXCEPT !["video"] = e.dts + off] /\ lastFrame' = e.dts
      BY <1>3, <2>3, <3>1 DEF ReleaseNext, Kind
    <3>3. lastOut'["video"] = e.dts + off
      BY <1>1, <3>2 DEF TypeOK, Kinds
    <3>4. e.dts + off \in Int /\ NoTime \notin Int
      <4>1. /\ lastOut["video"] \in Int \cup {NoTime} /\ frame \in Nat /\ offset \in Int
            /\ NoTime \notin Int
        BY <1>1, ConstantTypes DEF TypeOK, Kinds, Times
      <4>2. QED
        BY <2>1, <4>1 DEF OutOffset, ResyncOffset
    <3>5. QED
      BY <1>1, <2>1, <2>2, <3>2, <3>3, <3>4 DEF FrameClock
  <2>4. CASE e.stream # Video
    <3>1. ~resync
      BY <1>3, <2>4 DEF FrameInv, SafeInv, ResyncOnKeyframe, IsKeyframe, ReleaseNext
    <3>2. off = offset
      BY <3>1 DEF OutOffset
    <3>3. lastOut'["video"] = lastOut["video"] /\ lastFrame' = lastFrame
      BY <1>1, <1>3, <2>4 DEF ReleaseNext, TypeOK, Kind, Kinds
    <3>4. QED
      BY <1>1, <2>2, <3>1, <3>2, <3>3 DEF FrameClock
  <2>5. QED
    BY <2>3, <2>4
<1>4. CASE Reset
  <2>1. lastOut'["video"] = NoTime /\ lastFrame' = NoTime /\ frame' = VideoPeriod
    BY <1>4 DEF Reset, Kinds
  <2>2. QED
    BY <2>1 DEF FrameClock
<1>5. CASE Spawn
  BY <1>1, <1>5 DEF Spawn, FreshStart, FrameClock
<1>6. ASSUME NEW s \in Streams, Push(s)
      PROVE  FrameClock'
  BY <1>1, <1>6 DEF Push, FrameClock
<1>7. ASSUME NEW d \in Requests, SetDelay(d)
      PROVE  FrameClock'
  <2>1. resync => resync'
    BY <1>7 DEF SetDelay, Raise, LowerNow, LowerLater, RewindTo, SkipTo, JumpTo, StayPut
  <2>2. QED
    BY <1>2, <1>7, <2>1 DEF SetDelay
<1>8. CASE PacerWake
  <2>1. resync => resync'
    BY <1>8 DEF PacerWake, TryPendingSkip, SkipTo, JumpTo, StayPut
  <2>2. QED
    BY <1>2, <1>8, <2>1 DEF PacerWake
<1>9. CASE PacerLoop \/ EndPass \/ PacerSend
  BY <1>2, <1>9 DEF PacerLoop, EndPass, PacerSend
<1>10. CASE BeginStop \/ (\E d \in Requests : BeginStart(d)) \/ Join \/ Release
  BY <1>2, <1>10 DEF BeginStop, BeginStart, Join, Release
<1>11. CASE BeginCapture \/ EndCapture \/ Tick \/ UNCHANGED vars
  BY <1>2, <1>11 DEF BeginCapture, EndCapture, Tick, vars
<1>12. QED
  BY <1>3, <1>4, <1>5, <1>6, <1>7, <1>8, <1>9, <1>10, <1>11 DEF Next, Pacer, Controller

\* The frame in front of the cursor follows the last one released.
LEMMA StepNextFrame ==
    ASSUME FrameInv, [Next]_vars
    PROVE  NextFrame'
<1> USE DEF timelineVars, pacerVars, outVars, sourceVars, PacerAlive
<1>1. TypeOK /\ FreshStart /\ NextFrame /\ GaplessTimeline
  BY DEF FrameInv, SafeInv
<1>2. ASSUME UNCHANGED <<entries, cursor, due, firstKey, lastFrame, resync>>,
             PacerAlive' => PacerAlive
      PROVE  NextFrame'
  BY <1>1, <1>2 DEF NextFrame
<1>3. ASSUME resync'
      PROVE  NextFrame'
  BY <1>3 DEF NextFrame
<1>4. CASE ReleaseNext
  <2> DEFINE e == entries[cursor + 1]
  <2>1. /\ cursor \in Nat /\ cursor + 1 \in DOMAIN entries /\ entries \in Seq(Entry)
        /\ e.dts \in Nat /\ NoTime \notin Int
    BY <1>1, <1>4, EntryTypes, ConstantTypes DEF ReleaseNext, CanRelease, TypeOK
  <2>2. UNCHANGED <<entries, due, firstKey>> /\ cursor' = cursor + 1 /\ PacerAlive
    BY <1>4 DEF ReleaseNext
  <2>3. CASE e.stream = Video
    <3>1. lastFrame' = e.dts
      BY <1>4, <2>3, FrameNotDropped DEF ReleaseNext
    <3>2. Follows(entries, due[Video], cursor + 1, e.dts)
      BY <1>1, <2>1, <2>3 DEF GaplessTimeline
    <3>3. QED
      BY <2>1, <2>2, <3>1, <3>2 DEF NextFrame
  <2>4. CASE e.stream # Video
    <3>1. ~resync
      BY <1>4, <2>4 DEF FrameInv, SafeInv, ResyncOnKeyframe, IsKeyframe, ReleaseNext
    <3>2. lastFrame' = lastFrame
      BY <1>4, <2>4 DEF ReleaseNext
    <3>3. IF lastFrame = NoTime
          THEN StartsWithKeyframe(entries, cursor + 1, firstKey)
          ELSE Follows(entries, due[Video], cursor + 1, lastFrame)
      BY <1>1, <2>1, <2>2, <2>4, <3>1, PassAudio DEF NextFrame
    <3>4. QED
      BY <2>2, <3>2, <3>3 DEF NextFrame
  <2>5. QED
    BY <2>3, <2>4
<1>5. ASSUME NEW s \in Streams, Push(s)
      PROVE  NextFrame'
  <2>1. PICK e \in Entry :
           /\ entries' = Append(entries, e) /\ e.stream = s /\ e.dts = due[s]
           /\ s = Video /\ firstKey = NoTime => e.key
           /\ s # Video => firstKey' = firstKey
    BY <1>1, <1>5, PushAppends
  <2>2. entries \in Seq(Entry) /\ cursor \in 0 .. Len(entries) /\ lastFrame \in Int \cup {NoTime}
    BY <1>1 DEF TypeOK, Times
  <2>3. due[Video] \in Nat /\ VideoPeriod \in Nat
    BY <1>1, ConstantTypes DEF TypeOK
  <2>4. due'[Video] = IF s = Video THEN due[Video] + VideoPeriod ELSE due[Video]
    BY <1>1, <1>5, ConstantTypes DEF Push, TypeOK, Period
  <2>5. due'[Video] \in Nat
    BY <2>3, <2>4
  <2>6. UNCHANGED <<cursor, lastFrame, resync, pacer>>
    BY <1>5 DEF Push
  <2>7. CASE resync \/ ~PacerAlive
    BY <2>6, <2>7 DEF NextFrame
  <2>8. CASE ~resync /\ PacerAlive /\ lastFrame = NoTime
    <3>1. StartsWithKeyframe(entries, cursor, firstKey)
      BY <1>1, <2>8 DEF NextFrame
    <3>2. StartsWithKeyframe(entries', cursor, firstKey')
      BY <2>1, <2>2, <3>1, AppendStarts
    <3>3. QED
      BY <2>6, <2>8, <3>2 DEF NextFrame
  <2>9. CASE ~resync /\ PacerAlive /\ lastFrame # NoTime
    <3>1. Follows(entries, due[Video], cursor, lastFrame) /\ lastFrame \in Int
      BY <1>1, <2>2, <2>9 DEF NextFrame
    <3>2. IF e.stream = Video THEN e.dts = due[Video] ELSE due'[Video] = due[Video]
      BY <2>1, <2>4
    <3>3. Follows(entries', due'[Video], cursor, lastFrame)
      BY <2>1, <2>2, <2>3, <2>5, <3>1, <3>2, AppendFollows
    <3>4. QED
      BY <2>6, <2>9, <3>3 DEF NextFrame
  <2>10. QED
    BY <2>7, <2>8, <2>9
<1>6. CASE EndPass
  <2>1. PICK n \in PruneCount : /\ entries' = SubSeq(entries, n + 1, Len(entries))
                                /\ cursor' = cursor - n
    BY <1>6 DEF EndPass
  <2>2. /\ n \in Nat /\ n <= cursor /\ n <= Len(entries) /\ cursor \in Nat
        /\ entries \in Seq(Entry) /\ entries' \in Seq(Entry)
        /\ Len(entries') = Len(entries) - n
        /\ \A k \in 1 .. Len(entries) - n : entries'[k] = entries[k + n]
    <3>1. /\ n \in 0 .. cursor
          /\ SubSeq(entries, n + 1, Len(entries)) \in Seq(Entry)
          /\ Len(SubSeq(entries, n + 1, Len(entries))) = Len(entries) - n
          /\ \A k \in 1 .. Len(entries) - n :
                SubSeq(entries, n + 1, Len(entries))[k] = entries[k + n]
      BY <1>1, PruneTypes
    <3>2. entries' \in Seq(Entry) /\ Len(entries') = Len(entries) - n
      BY <2>1, <3>1
    <3>3. \A k \in 1 .. Len(entries) - n : entries'[k] = entries[k + n]
      BY <2>1, <3>1
    <3>4. entries \in Seq(Entry) /\ cursor \in 0 .. Len(entries) /\ Len(entries) \in Nat
      BY <1>1 DEF TypeOK
    <3>5. n \in Nat /\ n <= cursor /\ n <= Len(entries) /\ cursor \in Nat
      BY <3>1, <3>4
    <3>6. QED
      BY <3>2, <3>3, <3>4, <3>5
  <2>3. UNCHANGED <<due, firstKey, lastFrame, resync>> /\ PacerAlive
    BY <1>6 DEF EndPass
  <2>4. /\ \A d, t : Follows(entries, d, cursor, t) => Follows(entries', d, cursor - n, t)
        /\ \A first : StartsWithKeyframe(entries, cursor, first)
                        => StartsWithKeyframe(entries', cursor - n, first)
    BY <2>2, PruneFollows
  <2>5. QED
    BY <1>1, <2>1, <2>3, <2>4 DEF NextFrame
<1>7. CASE PacerWake
  <2>1. UNCHANGED <<cursor, resync>> \/ resync'
    BY <1>7 DEF PacerWake, TryPendingSkip, SkipTo, JumpTo, StayPut
  <2>2. QED
    BY <1>2, <1>3, <1>7, <2>1 DEF PacerWake
<1>8. ASSUME NEW d \in Requests, SetDelay(d)
      PROVE  NextFrame'
  <2>1. UNCHANGED <<cursor, resync>> \/ resync'
    BY <1>8 DEF SetDelay, Raise, LowerNow, LowerLater, RewindTo, SkipTo, JumpTo, StayPut
  <2>2. QED
    BY <1>2, <1>3, <1>8, <2>1 DEF SetDelay
<1>9. CASE Spawn
  <2>1. entries' = <<>> /\ firstKey' = NoTime /\ lastFrame' = NoTime
    BY <1>1, <1>9 DEF Spawn, FreshStart
  <2>2. QED
    BY <2>1 DEF NextFrame, StartsWithKeyframe
<1>10. CASE BeginCapture
  <2>1. ASSUME PacerAlive
        PROVE  entries' = <<>> /\ firstKey' = NoTime /\ lastFrame' = NoTime
    BY <1>1, <1>10, <2>1 DEF BeginCapture, FreshStart
  <2>2. PacerAlive' => PacerAlive
    BY <1>10 DEF BeginCapture
  <2>3. QED
    BY <2>1, <2>2 DEF NextFrame, StartsWithKeyframe
<1>11. CASE Release \/ Reset
  BY <1>1, <1>11 DEF Release, Reset, FreshStart, NextFrame
<1>12. CASE PacerLoop \/ PacerSend
  BY <1>2, <1>12 DEF PacerLoop, PacerSend
<1>13. CASE BeginStop \/ (\E d \in Requests : BeginStart(d)) \/ Join
  BY <1>2, <1>13 DEF BeginStop, BeginStart, Join
<1>14. CASE EndCapture \/ Tick \/ UNCHANGED vars
  BY <1>2, <1>14 DEF EndCapture, Tick, vars
<1>15. QED
  BY <1>4, <1>5, <1>6, <1>7, <1>8, <1>9, <1>10, <1>11, <1>12, <1>13, <1>14
     DEF Next, Pacer, Controller

\* Nothing has been released at the beginning.
LEMMA InitFrame == Init => FrameInv
<1> SUFFICES ASSUME Init PROVE FrameInv
  OBVIOUS
<1>1. SafeInv
  BY InitSafe
<1>2. GaplessTimeline /\ FrameClock /\ NextFrame
  BY DEF Init, GaplessTimeline, FrameClock, NextFrame, PacerAlive
<1>3. QED
  BY <1>1, <1>2 DEF FrameInv

\* Every step keeps the frames of the timeline in line with what was released.
LEMMA StepFrame == FrameInv /\ [Next]_vars => FrameInv'
<1> SUFFICES ASSUME FrameInv, [Next]_vars PROVE FrameInv'
  OBVIOUS
<1>1. SafeInv' /\ GaplessTimeline'
  BY StepSafe, StepGapless DEF FrameInv, SafeInv
<1>2. FrameClock' /\ NextFrame'
  BY StepFrameClock, StepNextFrame
<1>3. QED
  BY <1>1, <1>2 DEF FrameInv

LEMMA FrameInvariant == Spec => []FrameInv
  BY InitFrame, StepFrame, PTL DEF Spec

\* What is sent can be decoded: through every sequence of raises, lowers, pruned
\* history, stops and restarts, a frame that is not a keyframe leaves right after
\* the frame the encoder produced before it.
THEOREM DecodableAlways == Spec => Decodable
<1> DEFINE A == Released /\ entries[cursor'].stream = Video /\ ~entries[cursor'].key
                => lastFrame # NoTime /\ entries[cursor'].dts = lastFrame + VideoPeriod
<1>1. FrameInv /\ [Next]_vars => [A]_vars
  <2> SUFFICES ASSUME FrameInv, [Next]_vars, Released, entries[cursor'].stream = Video,
                      ~entries[cursor'].key
               PROVE  lastFrame # NoTime /\ entries[cursor'].dts = lastFrame + VideoPeriod
    OBVIOUS
  <2>1. ReleaseNext
    BY ReleaseStep DEF FrameInv, SafeInv
  <2>2. cursor' = cursor + 1 /\ PacerAlive
    BY <2>1 DEF ReleaseNext, PacerAlive
  <2>3. ~resync
    BY <2>2 DEF FrameInv, SafeInv, ResyncOnKeyframe, IsKeyframe
  <2>4. QED
    BY <2>1, <2>2, <2>3, FrameNotDropped
<1>2. QED
  BY FrameInvariant, <1>1, PTL DEF Spec, Decodable

--------------------------------------------------------------------------------
(***************************************************************************)
(* The pace                                                                *)
(***************************************************************************)

\* A skip that has somewhere to go ends in front of a keyframe, even when the
\* cursor is there already.
LEMMA SkipLandsOnKeyframe ==
    ASSUME TypeOK, NEW t, SkipPoint(t) # {}, SkipTo(SkipPoint(t))
    PROVE  IsKeyframe(entries[cursor' + 1])
<1>1. \A k \in SkipPoint(t) : k \in Nat /\ k > cursor /\ IsKeyframe(entries[k])
  BY JumpTargets, EntryTypes DEF Keyframes
<1>2. cursor \in Nat
  BY DEF TypeOK
<1>3. CASE StayPut /\ \A k \in SkipPoint(t) : k <= cursor + 1
  BY <1>1, <1>2, <1>3 DEF StayPut
<1>4. CASE \E k \in SkipPoint(t) : JumpTo(k)
  BY <1>1, <1>4 DEF JumpTo
<1>5. QED
  BY <1>3, <1>4 DEF SkipTo

\* "keep the old pace until one arrives": packets are held back less long than
\* before only from a keyframe on, unless a request comes while a lower waits.
THEOREM PaceKept == Spec => PaceKeptByFirstLower
<1> DEFINE A == ctl = "idle" /\ ~(pending /\ requests' # requests) /\ Pace' < Pace
                    /\ cursor' < Len(entries)
                => IsKeyframe(entries[cursor' + 1])
<1>1. SafeInv /\ [Next]_vars => [A]_vars
  <2> SUFFICES ASSUME SafeInv, [Next]_vars, ctl = "idle", ~(pending /\ requests' # requests),
                      Pace' < Pace
               PROVE  IsKeyframe(entries[cursor' + 1])
    OBVIOUS
  <2>1. TypeOK /\ HeldLonger /\ delay \in Int /\ hold \in Int /\ requests \in Int
    BY DEF SafeInv, TypeOK
  <2>2. ~UNCHANGED <<pending, hold, delay>>
    BY <2>1 DEF Pace
  <2>3. ASSUME NEW d \in Requests, SetDelay(d)
        PROVE  IsKeyframe(entries[cursor' + 1])
    <3>1. ~pending /\ Clamp(d) \in Int
      BY <2>1, <2>3, ConstantTypes DEF SetDelay
    <3>2. ~Raise(Clamp(d)) /\ ~LowerLater(Clamp(d))
      BY <2>1, <3>1 DEF Raise, LowerLater, Pace
    <3>3. LowerNow(Clamp(d))
      BY <2>3, <3>2 DEF SetDelay
    <3>4. QED
      BY <2>1, <3>3, SkipLandsOnKeyframe DEF LowerNow
  <2>4. CASE PacerWake
    BY <2>1, <2>2, <2>4, SkipLandsOnKeyframe DEF PacerWake, TryPendingSkip
  <2>5. CASE PacerLoop \/ ReleaseNext \/ EndPass \/ PacerSend
    BY <2>2, <2>5 DEF PacerLoop, ReleaseNext, EndPass, PacerSend, pacingVars
  <2>6. CASE Controller
    BY <2>2, <2>6 DEF Controller, BeginStop, BeginStart, Join, Release, Reset, Spawn, pacingVars
  <2>7. CASE (\E s \in Streams : Push(s)) \/ BeginCapture \/ EndCapture \/ Tick
    BY <2>2, <2>7 DEF Push, BeginCapture, EndCapture, Tick, pacingVars
  <2>8. CASE UNCHANGED vars
    BY <2>2, <2>8 DEF vars, pacingVars
  <2>9. QED
    BY <2>3, <2>4, <2>5, <2>6, <2>7, <2>8 DEF Next, Pacer
<1>2. QED
  BY SafeInvariant, <1>1, PTL DEF Spec, PaceKeptByFirstLower

--------------------------------------------------------------------------------
(***************************************************************************)
(* The history.  RaiseRewinds and BatchInTimeline hold when the 5 seconds   *)
(* that HISTORY_NS adds to the longest delay cover a group of pictures,     *)
(* and BatchInTimeline when they also cover the longest stall of the pacer. *)
(* The invariant follows the keyframes: one comes at most Gop after the    *)
(* other, and pruning always leaves the session's first one or one that is *)
(* old enough for the longest delay.                                       *)
(***************************************************************************)

GroupsFit == VideoPeriod <= Gop /\ MaxDelay + Gop <= History
StallsFit == VideoPeriod <= Gop /\ MaxDelay + Gop + MaxStall <= History

\* The encoders deliver on time, and the next frame is in the group of the last
\* keyframe or begins one.
OnTime ==
    capture = "on" => /\ \A s \in Streams : now <= due[s]
                      /\ firstKey # NoTime => due[Video] <= lastKey + Gop

KeyframesClose ==
    /\ firstKey = NoTime => Keyframes = {}
    /\ capture = "on" => \A k \in Keyframes :
           \/ entries[k].arrival = lastKey
           \/ \E j \in Keyframes : k < j /\ entries[j].arrival <= entries[k].arrival + Gop

StopUnregisters == ctl \in {"join", "release"} /\ startDelay = NoTime => ~registered

Live == capture = "on" /\ registered /\ ctl = "idle"

HistoryKept ==
    Live /\ firstKey # NoTime =>
        \E k \in Keyframes : \/ entries[k].arrival = firstKey
                             \/ entries[k].arrival + History <= pnow + Gop

KeyInv == SafeInv /\ OnTime /\ KeyframesClose

HistoryInv == KeyInv /\ StopUnregisters /\ HistoryKept

\* A set of positions that is not empty has a last one.
LEMMA LatestExists ==
    ASSUME NEW n \in Nat, NEW S, S \subseteq 1 .. n, S # {}
    PROVE  LatestOf(S) # {}
<1> DEFINE T == {m \in Nat : n - m \in S}
<1>1. PICK k \in S : TRUE
  OBVIOUS
<1>2. k \in 1 .. n /\ n - k \in Nat /\ n - (n - k) = k
  BY <1>1
<1>3. T # {} /\ T \subseteq Nat
  BY <1>2
<1>4. PICK m \in T : \A x \in T : ~(<<x, m>> \in OpToRel(<, Nat))
  BY <1>3, NatLessThanWellFounded, WFMin
<1>5. m \in Nat /\ n - m \in S
  OBVIOUS
<1>6. ASSUME NEW j \in S
      PROVE  j <= n - m
  <2>1. j \in 1 .. n /\ n - j \in Nat /\ n - (n - j) = j
    OBVIOUS
  <2>2. n - j \in T
    BY <2>1
  <2>3. ~(n - j < m)
    BY <1>4, <1>5, <2>1, <2>2 DEF OpToRel
  <2>4. QED
    BY <1>5, <2>1, <2>3
<1>7. n - m \in LatestOf(S)
  BY <1>5, <1>6 DEF LatestOf
<1>8. QED
  BY <1>7

\* What a step does to the keyframes of the timeline.
LEMMA KeyframeTypes ==
    ASSUME TypeOK
    PROVE  \A k \in Keyframes : /\ k \in 1 .. Len(entries) /\ k \in Nat /\ k \in DOMAIN entries
                                /\ entries[k].arrival \in Nat
  BY EntryTypes DEF Keyframes

\* A push adds a keyframe to those there are, or leaves them.
LEMMA PushKeyframes ==
    ASSUME TypeOK, OnTime, NEW s \in Streams, Push(s)
    PROVE  /\ \A k \in Keyframes : k \in Keyframes' /\ entries'[k] = entries[k]
                                   /\ k < Len(entries) + 1
           /\ \/ /\ Len(entries) + 1 \in Keyframes'
                 /\ entries'[Len(entries) + 1].arrival = now
                 /\ Keyframes' = Keyframes \cup {Len(entries) + 1}
                 /\ lastKey' = now /\ due[Video] = now
                 /\ due'[Video] = due[Video] + VideoPeriod
                 /\ firstKey' = IF firstKey = NoTime THEN now ELSE firstKey
              \/ /\ Keyframes' = Keyframes
                 /\ lastKey' = lastKey /\ firstKey' = firstKey
                 /\ \/ due'[Video] = due[Video]
                    \/ firstKey # NoTime /\ due'[Video] <= lastKey + Gop
<1>1. PICK key \in KeyframeChoices(s) :
         /\ entries' = Append(entries, [stream |-> s, key |-> key,
                                        dts |-> due[s], arrival |-> now])
         /\ lastKey' = IF key THEN due[s] ELSE lastKey
         /\ firstKey' = IF key /\ firstKey = NoTime THEN now ELSE firstKey
  BY DEF Push
<1> DEFINE e == [stream |-> s, key |-> key, dts |-> due[s], arrival |-> now]
           n == Len(entries)
<1>2. /\ key \in BOOLEAN /\ (key => s = Video)
      /\ s = Video /\ ~key => firstKey # NoTime /\ due[Video] + VideoPeriod <= lastKey + Gop
  <2>1. due[Video] \in Nat /\ lastKey \in Nat
    BY ConstantTypes DEF TypeOK
  <2>2. VideoPeriod \in Nat /\ Gop \in Nat
    BY ConstantTypes, ConstantsAssumption
  <2>3. due[Video] + VideoPeriod \in Int /\ lastKey + Gop \in Int
    BY <2>1, <2>2
  <2>4. QED
    BY <2>3 DEF KeyframeChoices
<1>3. due[s] = now /\ now \in Nat
  <2>1. due[s] <= now /\ now <= due[s] /\ due[s] \in Nat /\ now \in Nat
    BY DEF Push, OnTime, TypeOK
  <2>2. QED
    BY <2>1
<1>4. e \in Entry
  BY <1>2, <1>3 DEF Entry
<1>5. /\ n \in Nat /\ DOMAIN entries = 1 .. n /\ DOMAIN entries' = 1 .. n + 1
      /\ \A k \in 1 .. n : entries'[k] = entries[k]
      /\ entries'[n + 1] = e
  <2>1. entries \in Seq(Entry) /\ entries' \in Seq(Entry) /\ Len(entries') = n + 1
    BY <1>1, <1>4, AppendProperties DEF TypeOK
  <2>2. QED
    BY <1>1, <1>4, <2>1, AppendProperties
<1>6. due'[Video] = IF s = Video THEN due[Video] + VideoPeriod ELSE due[Video]
  BY ConstantTypes DEF Push, TypeOK, Period
<1>7. IsKeyframe(e) <=> key
  BY <1>2 DEF IsKeyframe
<1> HIDE DEF e
<1>8. Keyframes' = IF key THEN Keyframes \cup {n + 1} ELSE Keyframes
  <2>1. \A k \in 1 .. n : k \in Keyframes' <=> k \in Keyframes
    BY <1>5 DEF Keyframes, IsKeyframe
  <2>2. n + 1 \in Keyframes' <=> key
    BY <1>5, <1>7 DEF Keyframes, IsKeyframe
  <2>3. Keyframes' \subseteq 1 .. n + 1 /\ Keyframes \subseteq 1 .. n
    BY <1>5 DEF Keyframes
  <2>4. \A k \in 1 .. n + 1 : k \in 1 .. n \/ k = n + 1
    BY <1>5
  <2>5. CASE key
    BY <2>1, <2>2, <2>3, <2>4, <2>5
  <2>6. CASE ~key
    <3>1. n + 1 \notin Keyframes'
      BY <2>2, <2>6
    <3>2. \A k : k \in Keyframes' <=> k \in Keyframes
      BY <2>1, <2>3, <2>4, <3>1
    <3>3. Keyframes' = Keyframes
      BY <3>2
    <3>4. QED
      BY <2>6, <3>3
  <2>7. QED
    BY <2>5, <2>6
<1>9. \A k \in Keyframes : k \in Keyframes' /\ entries'[k] = entries[k] /\ k < n + 1
  BY <1>5, <1>8 DEF Keyframes
<1>10. CASE key
  <2>1. s = Video /\ due[Video] = now /\ due'[Video] = due[Video] + VideoPeriod
    BY <1>2, <1>3, <1>6, <1>10
  <2>2. lastKey' = now /\ firstKey' = IF firstKey = NoTime THEN now ELSE firstKey
    BY <1>1, <1>3, <1>10
  <2>3. entries'[n + 1].arrival = now /\ n + 1 \in Keyframes'
    BY <1>5, <1>8, <1>10 DEF e
  <2>4. Keyframes' = Keyframes \cup {n + 1}
    BY <1>8, <1>10
  <2>5. QED
    BY <1>9, <2>1, <2>2, <2>3, <2>4
<1>11. CASE ~key
  <2>1. Keyframes' = Keyframes /\ lastKey' = lastKey /\ firstKey' = firstKey
    BY <1>1, <1>8, <1>11
  <2>2. \/ due'[Video] = due[Video]
        \/ firstKey # NoTime /\ due'[Video] <= lastKey + Gop
    BY <1>2, <1>6, <1>11
  <2>3. QED
    BY <1>9, <2>1, <2>2
<1>12. QED
  BY <1>2, <1>10, <1>11

\* Pruning shifts the keyframes behind it.
LEMMA PruneKeyframes ==
    ASSUME TypeOK, NEW n \in PruneCount, entries' = SubSeq(entries, n + 1, Len(entries))
    PROVE  /\ n \in Nat
           /\ \A k \in Keyframes : n < k => k - n \in Keyframes' /\ entries'[k - n] = entries[k]
           /\ \A k \in Keyframes' : k + n \in Keyframes /\ entries'[k] = entries[k + n] /\ k \in Nat
<1>1. /\ n \in 0 .. cursor
      /\ entries' \in Seq(Entry)
      /\ Len(entries') = Len(entries) - n
      /\ \A k \in 1 .. Len(entries) - n : entries'[k] = entries[k + n]
  BY PruneTypes
<1>2. /\ n \in Nat /\ Len(entries) \in Nat /\ DOMAIN entries = 1 .. Len(entries)
      /\ DOMAIN entries' = 1 .. Len(entries) - n
  BY <1>1, EntryTypes DEF TypeOK
<1>3. ASSUME NEW k \in Keyframes, n < k
      PROVE  k - n \in Keyframes' /\ entries'[k - n] = entries[k]
  <2>1. k - n \in 1 .. Len(entries) - n /\ (k - n) + n = k
    BY <1>2, <1>3 DEF Keyframes
  <2>2. entries'[k - n] = entries[k]
    BY <1>1, <2>1
  <2>3. QED
    BY <1>2, <2>1, <2>2 DEF Keyframes, IsKeyframe
<1>4. ASSUME NEW k \in Keyframes'
      PROVE  k + n \in Keyframes /\ entries'[k] = entries[k + n] /\ k \in Nat
  <2>1. k \in 1 .. Len(entries) - n
    BY <1>2 DEF Keyframes
  <2>2. k + n \in 1 .. Len(entries) /\ k \in Nat
    BY <1>2, <2>1
  <2>3. QED
    BY <1>1, <1>2, <2>1, <2>2 DEF Keyframes, IsKeyframe
<1>5. QED
  BY <1>2, <1>3, <1>4

\* The encoders stay on time.
LEMMA StepOnTime ==
    ASSUME VideoPeriod <= Gop, TypeOK, FreshStart, OnTime, [Next]_vars
    PROVE  OnTime'
<1> USE DEF timelineVars, ctlVars, sourceVars, outVars, pacerVars
<1>1. ASSUME UNCHANGED <<now, due, lastKey, firstKey>>, capture' = "on" => capture = "on"
      PROVE  OnTime'
  BY <1>1 DEF OnTime
<1>2. ASSUME NEW s \in Streams, Push(s)
      PROVE  OnTime'
  <2>1. capture = "on" /\ now' = now /\ now \in Nat
    BY <1>2 DEF Push, TypeOK
  <2>2. \A t \in Streams : now <= due'[t]
    <3>1. \A t \in Streams : due[t] \in Nat /\ now <= due[t] /\ Period(s) \in Nat
      BY <2>1, ConstantTypes DEF OnTime, TypeOK
    <3>2. \A t \in Streams : due'[t] = IF t = s THEN due[t] + Period(s) ELSE due[t]
      BY <1>2 DEF Push, TypeOK
    <3>3. QED
      BY <2>1, <3>1, <3>2
  <2>3. firstKey' # NoTime => due'[Video] <= lastKey' + Gop
    <3>1. now + VideoPeriod <= now + Gop
      BY <2>1, ConstantTypes, ConstantsAssumption
    <3>2. firstKey # NoTime => due[Video] <= lastKey + Gop
      BY <2>1 DEF OnTime
    <3>3. QED
      BY <1>2, <3>1, <3>2, PushKeyframes
  <2>4. QED
    BY <2>1, <2>2, <2>3 DEF OnTime
<1>3. CASE BeginCapture
  <2>1. firstKey' = NoTime /\ now' = now /\ now \in Nat /\ due' = [s \in Streams |-> now]
    BY <1>3 DEF BeginCapture, FreshStart, TypeOK
  <2>2. QED
    BY <2>1 DEF OnTime
<1>4. CASE Tick
  <2>1. /\ UNCHANGED <<due, lastKey, firstKey, capture>> /\ now' = now + 1
        /\ capture = "on" => \A s \in Streams : due[s] > now
    BY <1>4 DEF Tick
  <2>2. now \in Nat /\ \A s \in Streams : due[s] \in Nat
    BY DEF TypeOK
  <2>3. QED
    BY <2>1, <2>2 DEF OnTime
<1>5. CASE Reset \/ EndCapture
  BY <1>5 DEF Reset, EndCapture, OnTime
<1>6. CASE Pacer
  BY <1>1, <1>6 DEF Pacer, PacerLoop, PacerWake, ReleaseNext, EndPass, PacerSend
<1>7. CASE BeginStop \/ (\E d \in Requests : BeginStart(d)) \/ Join \/ Release \/ Spawn
  BY <1>1, <1>7 DEF BeginStop, BeginStart, Join, Release, Spawn
<1>8. CASE (\E d \in Requests : SetDelay(d)) \/ UNCHANGED vars
  BY <1>1, <1>8 DEF SetDelay, vars
<1>9. QED
  BY <1>2, <1>3, <1>4, <1>5, <1>6, <1>7, <1>8 DEF Next, Controller

\* At most Gop lies between a keyframe and the next one.
LEMMA StepKeyframesClose ==
    ASSUME TypeOK, FreshStart, OnTime, KeyframesClose, [Next]_vars
    PROVE  KeyframesClose'
<1> USE DEF timelineVars, ctlVars, sourceVars, outVars, pacerVars
<1>1. ASSUME UNCHANGED <<entries, lastKey, firstKey>>, capture' = "on" => capture = "on"
      PROVE  KeyframesClose'
  BY <1>1 DEF KeyframesClose, Keyframes
<1>2. ASSUME entries' = <<>>
      PROVE  KeyframesClose'
  BY <1>2 DEF KeyframesClose, Keyframes
<1>3. ASSUME NEW s \in Streams, Push(s)
      PROVE  KeyframesClose'
  <2>1. capture = "on" /\ now \in Nat /\ lastKey \in Nat /\ Gop \in Nat
    BY <1>3, ConstantsAssumption DEF Push, TypeOK
  <2>2. \A k \in Keyframes : k \in Keyframes' /\ entries'[k] = entries[k] /\ k < Len(entries) + 1
    BY <1>3, PushKeyframes
  <2>3. \A k \in Keyframes :
           \/ entries[k].arrival = lastKey
           \/ \E j \in Keyframes : k < j /\ entries[j].arrival <= entries[k].arrival + Gop
    BY <2>1 DEF KeyframesClose
  <2>4. CASE Keyframes' = Keyframes /\ lastKey' = lastKey /\ firstKey' = firstKey
    BY <2>2, <2>3, <2>4 DEF KeyframesClose
  <2>5. CASE /\ Len(entries) + 1 \in Keyframes'
             /\ entries'[Len(entries) + 1].arrival = now
             /\ Keyframes' = Keyframes \cup {Len(entries) + 1}
             /\ lastKey' = now /\ due[Video] = now
             /\ firstKey' = IF firstKey = NoTime THEN now ELSE firstKey
    <3>1. firstKey' # NoTime
      BY <2>1, <2>5, ConstantTypes
    <3>2. ASSUME NEW k \in Keyframes
          PROVE  \/ entries'[k].arrival = lastKey'
                 \/ \E j \in Keyframes' : k < j /\ entries'[j].arrival <= entries'[k].arrival + Gop
      <4>1. CASE entries[k].arrival = lastKey
        <5>1. firstKey # NoTime
          BY DEF KeyframesClose
        <5>2. now <= entries'[k].arrival + Gop
          BY <2>1, <2>2, <2>5, <4>1, <5>1 DEF OnTime
        <5>3. QED
          BY <2>2, <2>5, <5>2
      <4>2. CASE \E j \in Keyframes : k < j /\ entries[j].arrival <= entries[k].arrival + Gop
        BY <2>2, <4>2
      <4>3. QED
        BY <2>3, <4>1, <4>2
    <3>3. \A k \in Keyframes' :
             \/ entries'[k].arrival = lastKey'
             \/ \E j \in Keyframes' : k < j /\ entries'[j].arrival <= entries'[k].arrival + Gop
      BY <2>5, <3>2
    <3>4. QED
      BY <3>1, <3>3 DEF KeyframesClose
  <2>6. QED
    BY <1>3, <2>4, <2>5, PushKeyframes
<1>4. CASE EndPass
  <2>1. PICK n \in PruneCount : entries' = SubSeq(entries, n + 1, Len(entries))
    BY <1>4 DEF EndPass
  <2>2. /\ n \in Nat
        /\ \A k \in Keyframes : n < k => k - n \in Keyframes' /\ entries'[k - n] = entries[k]
        /\ \A k \in Keyframes' : k + n \in Keyframes /\ entries'[k] = entries[k + n] /\ k \in Nat
    BY <2>1, PruneKeyframes
  <2>3. UNCHANGED <<capture, lastKey, firstKey>>
    BY <1>4 DEF EndPass
  <2>4. firstKey = NoTime => Keyframes' = {}
    BY <2>2 DEF KeyframesClose
  <2>5. ASSUME capture = "on", NEW k \in Keyframes'
        PROVE  \/ entries'[k].arrival = lastKey
               \/ \E j \in Keyframes' : k < j /\ entries'[j].arrival <= entries'[k].arrival + Gop
    <3>1. CASE entries[k + n].arrival = lastKey
      BY <2>2, <3>1
    <3>2. ASSUME NEW j \in Keyframes, k + n < j, entries[j].arrival <= entries[k + n].arrival + Gop
          PROVE  \E i \in Keyframes' : k < i /\ entries'[i].arrival <= entries'[k].arrival + Gop
      <4>1. j \in Nat /\ n < j /\ k < j - n
        BY <2>2, <3>2, KeyframeTypes
      <4>2. j - n \in Keyframes' /\ entries'[j - n] = entries[j] /\ entries'[k] = entries[k + n]
        BY <2>2, <4>1
      <4>3. QED
        BY <3>2, <4>1, <4>2
    <3>3. QED
      BY <2>2, <2>5, <3>1, <3>2 DEF KeyframesClose
  <2>6. QED
    BY <2>3, <2>4, <2>5 DEF KeyframesClose
<1>5. CASE Release \/ Reset
  BY <1>2, <1>5 DEF Release, Reset
<1>6. CASE BeginCapture
  BY <1>2, <1>6 DEF BeginCapture, FreshStart
<1>7. CASE PacerLoop \/ PacerWake \/ ReleaseNext \/ PacerSend
  BY <1>1, <1>7 DEF PacerLoop, PacerWake, ReleaseNext, PacerSend
<1>8. CASE BeginStop \/ (\E d \in Requests : BeginStart(d)) \/ Join \/ Spawn
  BY <1>1, <1>8 DEF BeginStop, BeginStart, Join, Spawn
<1>9. CASE (\E d \in Requests : SetDelay(d)) \/ EndCapture \/ Tick \/ UNCHANGED vars
  BY <1>1, <1>9 DEF SetDelay, EndCapture, Tick, vars
<1>10. QED
  BY <1>3, <1>4, <1>5, <1>6, <1>7, <1>8, <1>9 DEF Next, Pacer, Controller

\* swd_stop takes the buffer out of the hands of the requesters first.
LEMMA StepStopUnregisters ==
    ASSUME StopUnregisters, [Next]_vars
    PROVE  StopUnregisters'
<1> USE DEF StopUnregisters, ctlVars
<1>1. CASE BeginStop \/ Join \/ Release \/ Reset \/ Spawn
  BY <1>1 DEF BeginStop, Join, Release, Reset, Spawn
<1>2. ASSUME NEW d \in Requests, BeginStart(d)
      PROVE  StopUnregisters'
  <2>1. startDelay' \in Int /\ NoTime \notin Int
    BY <1>2, ConstantTypes DEF BeginStart
  <2>2. QED
    BY <2>1
<1>3. CASE Pacer
  BY <1>3 DEF Pacer, PacerLoop, PacerWake, ReleaseNext, EndPass, PacerSend
<1>4. CASE (\E s \in Streams : Push(s)) \/ (\E d \in Requests : SetDelay(d))
  BY <1>4 DEF Push, SetDelay
<1>5. CASE BeginCapture \/ EndCapture \/ Tick \/ UNCHANGED vars
  BY <1>5 DEF BeginCapture, EndCapture, Tick, vars
<1>6. QED
  BY <1>1, <1>2, <1>3, <1>4, <1>5 DEF Next, Controller

\* Pruning keeps the first keyframe of the session, or one old enough.
LEMMA StepHistoryKept ==
    ASSUME GroupsFit, KeyInv, StopUnregisters, HistoryKept, [Next]_vars
    PROVE  HistoryKept'
<1> USE DEF timelineVars, ctlVars, sourceVars, outVars, pacerVars
<1>1. /\ TypeOK /\ FreshStart /\ ClockInv /\ OnTime /\ KeyframesClose
      /\ pnow \in Nat /\ now \in Nat /\ History \in Nat /\ Gop \in Nat
      /\ lastKey \in Nat /\ due[Video] \in Nat
  BY ConstantTypes, ConstantsAssumption DEF KeyInv, SafeInv, TypeOK
<1>2. ASSUME UNCHANGED <<entries, firstKey>>, Live' => Live, pnow' \in Nat, pnow <= pnow'
      PROVE  HistoryKept'
  BY <1>1, <1>2, KeyframeTypes DEF HistoryKept, Keyframes
<1>3. ASSUME NEW s \in Streams, Push(s)
      PROVE  HistoryKept'
  <2>1. UNCHANGED <<pnow, capture, registered, ctl>>
    BY <1>3 DEF Push
  <2>2. \A k \in Keyframes : k \in Keyframes' /\ entries'[k] = entries[k]
    BY <1>1, <1>3, PushKeyframes
  <2>3. \/ firstKey' = firstKey
        \/ /\ Len(entries) + 1 \in Keyframes'
           /\ entries'[Len(entries) + 1].arrival = firstKey'
    BY <1>1, <1>3, PushKeyframes
  <2>4. QED
    BY <2>1, <2>2, <2>3 DEF HistoryKept, Live
<1>4. CASE EndPass
  <2>1. PICK n \in PruneCount : entries' = SubSeq(entries, n + 1, Len(entries))
    BY <1>4 DEF EndPass
  <2>2. /\ n \in Nat
        /\ \A k \in Keyframes : n < k => k - n \in Keyframes' /\ entries'[k - n] = entries[k]
    BY <1>1, <2>1, PruneKeyframes
  <2>3. UNCHANGED <<pnow, capture, registered, ctl, firstKey>>
    BY <1>4 DEF EndPass
  <2>4. SUFFICES ASSUME Live, firstKey # NoTime
                 PROVE  \E k \in Keyframes' : \/ entries'[k].arrival = firstKey
                                              \/ entries'[k].arrival + History <= pnow + Gop
    BY <2>3 DEF HistoryKept, Live
  <2>5. PICK k0 \in Keyframes : \/ entries[k0].arrival = firstKey
                                \/ entries[k0].arrival + History <= pnow + Gop
    BY <2>4 DEF HistoryKept
  <2>6. CASE n < k0
    BY <2>2, <2>5, <2>6
  <2>7. CASE ~(n < k0)
    <3> DEFINE Gone == {k \in Keyframes : k <= n}
    <3>1. Len(entries) \in Nat /\ Gone \subseteq 1 .. Len(entries) /\ k0 \in Gone
      BY <1>1, <2>2, <2>7, KeyframeTypes
    <3>2. PICK k1 \in LatestOf(Gone) : TRUE
      BY <3>1, LatestExists
    <3>3. k1 \in Keyframes /\ k1 <= n /\ k1 \in Nat /\ entries[k1].arrival \in Nat
      BY <1>1, <3>2, KeyframeTypes DEF LatestOf
    <3>4. pnow - entries[k1].arrival > History
      <4>1. k1 \in 1 .. n
        BY <1>1, <2>2, <3>3, KeyframeTypes
      <4>2. Outdated(k1)
        BY <2>2, <4>1 DEF PruneCount
      <4>3. QED
        BY <4>2 DEF Outdated
    <3>5. entries[k1].arrival # lastKey
      <4>1. now <= lastKey + Gop /\ Gop <= History /\ pnow <= now
        BY <1>1, <2>4, ConstantTypes DEF OnTime, Live, GroupsFit, ClockInv
      <4>2. QED
        BY <1>1, <3>3, <3>4, <4>1
    <3>6. PICK j \in Keyframes : k1 < j /\ entries[j].arrival <= entries[k1].arrival + Gop
      BY <1>1, <2>4, <3>3, <3>5 DEF KeyframesClose, Live
    <3>7. j \in Nat /\ entries[j].arrival \in Nat
      BY <1>1, KeyframeTypes
    <3>8. n < j
      BY <2>2, <3>2, <3>3, <3>6, <3>7 DEF LatestOf
    <3>9. entries[j].arrival + History <= pnow + Gop
      BY <1>1, <3>3, <3>4, <3>6, <3>7
    <3>10. QED
      BY <2>2, <3>8, <3>9
  <2>8. QED
    BY <2>6, <2>7
<1>5. CASE PacerWake
  BY <1>1, <1>2, <1>5 DEF PacerWake, Live, ClockInv
<1>6. CASE PacerLoop \/ ReleaseNext \/ PacerSend
  BY <1>1, <1>2, <1>6 DEF PacerLoop, ReleaseNext, PacerSend, Live
<1>7. CASE BeginStop \/ (\E d \in Requests : BeginStart(d)) \/ Join \/ Reset
  BY <1>7 DEF BeginStop, BeginStart, Join, Reset, HistoryKept, Live
<1>8. CASE Release
  BY <1>8 DEF Release, HistoryKept, Live, StopUnregisters
<1>9. CASE Spawn
  BY <1>1, <1>9 DEF Spawn, HistoryKept, Live, FreshStart
<1>10. CASE BeginCapture
  BY <1>1, <1>10 DEF BeginCapture, FreshStart, HistoryKept
<1>11. CASE EndCapture
  BY <1>11 DEF EndCapture, HistoryKept, Live
<1>12. CASE (\E d \in Requests : SetDelay(d)) \/ Tick
  BY <1>1, <1>2, <1>12 DEF SetDelay, Tick, Live
<1>13. CASE UNCHANGED vars
  BY <1>1, <1>2, <1>13 DEF vars, Live
<1>14. QED
  BY <1>3, <1>4, <1>5, <1>6, <1>7, <1>8, <1>9, <1>10, <1>11, <1>12, <1>13
     DEF Next, Pacer, Controller

\* A raise finds its keyframe in every reachable state.
LEMMA HistoryInvariant == ASSUME GroupsFit PROVE Spec => []HistoryInv
<1>1. Init => HistoryInv
  <2> SUFFICES ASSUME Init PROVE HistoryInv
    OBVIOUS
  <2>1. SafeInv
    BY InitSafe
  <2>2. OnTime /\ KeyframesClose /\ StopUnregisters /\ HistoryKept
    BY DEF Init, OnTime, KeyframesClose, Keyframes, StopUnregisters, HistoryKept
  <2>3. QED
    BY <2>1, <2>2 DEF HistoryInv, KeyInv
<1>2. HistoryInv /\ [Next]_vars => HistoryInv'
  <2> SUFFICES ASSUME HistoryInv, [Next]_vars PROVE HistoryInv'
    OBVIOUS
  <2>1. KeyInv'
    BY StepSafe, StepOnTime, StepKeyframesClose DEF HistoryInv, KeyInv, SafeInv, GroupsFit
  <2>2. StopUnregisters' /\ HistoryKept'
    BY StepStopUnregisters, StepHistoryKept DEF HistoryInv
  <2>3. QED
    BY <2>1, <2>2 DEF HistoryInv
<1>3. QED
  BY <1>1, <1>2, PTL DEF Spec

\* A rewind to a time at which there was a keyframe ends on a packet that old.
LEMMA RewindReaches ==
    ASSUME TypeOK, ClockInv, NEW t \in Nat, RewindTo(RewindPoint(t)),
           NEW k \in Keyframes, entries[k].arrival <= t
    PROVE  cursor' < Len(entries) /\ entries[cursor' + 1].arrival <= t
<1> DEFINE old == {j \in Keyframes : entries[j].arrival <= t}
<1>1. /\ Len(entries) \in Nat /\ cursor \in 0 .. Len(entries) /\ DOMAIN entries = 1 .. Len(entries)
      /\ \A j \in DOMAIN entries : entries[j].arrival \in Nat
  BY EntryTypes DEF TypeOK
<1>2. old # {} /\ old \subseteq 1 .. Len(entries)
  BY KeyframeTypes
<1>3. RewindPoint(t) = LatestOf(old)
  BY <1>2 DEF RewindPoint
<1>4. PICK m \in LatestOf(old) : TRUE
  BY <1>1, <1>2, LatestExists
<1>5. \A j \in LatestOf(old) : j \in 1 .. Len(entries) /\ entries[j].arrival <= t
  BY <1>2 DEF LatestOf
<1> HIDE DEF old
<1>6. CASE \E j \in RewindPoint(t) : JumpTo(j)
  BY <1>1, <1>3, <1>5, <1>6 DEF JumpTo
<1>7. CASE StayPut /\ \A j \in RewindPoint(t) : j > cursor
  <2>1. cursor' = cursor /\ m > cursor /\ m \in 1 .. Len(entries)
    BY <1>3, <1>4, <1>5, <1>7 DEF StayPut
  <2>2. cursor < Len(entries) /\ cursor + 1 \in DOMAIN entries /\ m \in DOMAIN entries
        /\ cursor + 1 <= m
    BY <1>1, <2>1
  <2>3. entries[cursor + 1].arrival <= entries[m].arrival
    BY <2>2 DEF ClockInv, ClockUnderLock
  <2>4. QED
    BY <1>1, <1>4, <1>5, <2>1, <2>2, <2>3
<1>8. QED
  BY <1>6, <1>7 DEF RewindTo

\* "History kept beyond the current cursor, so the delay can be raised by
\* rewinding": with keyframes close enough, a raise always shows the viewers the
\* last seconds again.
THEOREM RaiseAlwaysRewinds == ASSUME GroupsFit PROVE Spec => RaiseRewinds
<1> DEFINE A == capture = "on" /\ ctl = "idle" /\ delay' > delay /\ firstKey # NoTime
                    /\ now - firstKey >= delay'
                => cursor' < Len(entries) /\ now - entries[cursor' + 1].arrival >= delay'
<1>1. HistoryInv /\ [Next]_vars => [A]_vars
  <2> SUFFICES ASSUME HistoryInv, [Next]_vars, capture = "on", ctl = "idle", delay' > delay,
                      firstKey # NoTime, now - firstKey >= delay'
               PROVE  cursor' < Len(entries) /\ now - entries[cursor' + 1].arrival >= delay'
    OBVIOUS
  <2>1. /\ TypeOK /\ ClockInv /\ now \in Nat /\ pnow \in Nat /\ pnow <= now /\ delay \in Nat
        /\ firstKey \in Nat /\ MaxDelay \in Nat /\ History \in Nat /\ Gop \in Nat
        /\ MaxDelay + Gop <= History
    <3>1. TypeOK /\ ClockInv
      BY DEF HistoryInv, KeyInv, SafeInv
    <3>2. MaxDelay \in Nat /\ History \in Nat /\ Gop \in Nat /\ MaxDelay + Gop <= History
      BY ConstantTypes, ConstantsAssumption DEF GroupsFit
    <3>3. QED
      BY <3>1, <3>2 DEF ClockInv, TypeOK
  <2>2. PICK d \in Requests : SetDelay(d)
    <3>1. delay' # delay
      BY <2>1
    <3>2. CASE Pacer
      BY <3>1, <3>2 DEF Pacer, PacerLoop, PacerWake, ReleaseNext, EndPass, PacerSend, pacingVars
    <3>3. CASE Controller
      BY <3>1, <3>3 DEF Controller, BeginStop, BeginStart, Join, Release, Reset, Spawn, pacingVars
    <3>4. CASE (\E s \in Streams : Push(s)) \/ BeginCapture \/ EndCapture \/ Tick \/ UNCHANGED vars
      BY <3>1, <3>4 DEF Push, BeginCapture, EndCapture, Tick, vars, pacingVars
    <3>5. QED
      BY <3>2, <3>3, <3>4 DEF Next
  <2>3. Clamp(d) \in 0 .. MaxDelay
    BY ConstantTypes
  <2>4. Raise(Clamp(d)) /\ delay' = Clamp(d) /\ delay' \in 0 .. MaxDelay
    BY <2>1, <2>2, <2>3 DEF SetDelay, Raise, LowerNow, LowerLater
  <2>5. RewindTo(RewindPoint(Target(delay'))) /\ registered
    BY <2>2, <2>4 DEF Raise, SetDelay
  <2>6. PICK k \in Keyframes : \/ entries[k].arrival = firstKey
                               \/ entries[k].arrival + History <= pnow + Gop
    BY <2>5 DEF HistoryInv, HistoryKept, Live
  <2>7. entries[k].arrival \in Nat /\ entries[k].arrival <= now - delay'
    BY <2>1, <2>4, <2>6, KeyframeTypes
  <2>8. /\ Target(delay') \in Nat /\ Target(delay') = now - delay'
        /\ entries[k].arrival <= Target(delay')
    BY <2>1, <2>4, <2>7 DEF Target
  <2>9. cursor' < Len(entries) /\ entries[cursor' + 1].arrival <= Target(delay')
    BY <2>1, <2>5, <2>8, RewindReaches
  <2>10. entries[cursor' + 1].arrival \in Nat
    <3>1. cursor' \in 0 .. Len(entries) /\ Len(entries) \in Nat
      BY <2>1, <2>5, JumpTypes, EntryTypes
    <3>2. cursor' + 1 \in DOMAIN entries
      BY <2>1, <2>9, <3>1, EntryTypes
    <3>3. QED
      BY <2>1, <3>2, EntryTypes
  <2>11. QED
    BY <2>1, <2>4, <2>8, <2>9, <2>10
<1>2. QED
  BY HistoryInvariant, <1>1, PTL DEF Spec, RaiseRewinds

BatchEmpty == pacer \in {"none", "wait", "done"} \/ capture = "off" => batch = <<>>

Awake == PacerAlive => now - pnow <= MaxStall

\* How old the next packet may be: a rewind overshoots by less than a group, and
\* the pacer comes for it at most MaxStall later.
NextNotOld ==
    capture = "on" /\ PacerAlive /\ cursor < Len(entries) =>
        pnow - entries[cursor + 1].arrival
            <= MaxDelay + Gop + (IF pacer = "pass" THEN MaxStall ELSE 0)

BatchKept ==
    capture = "on" => \A b \in DOMAIN batch : \E j \in DOMAIN entries :
        /\ entries[j].stream = batch[b].stream
        /\ entries[j].dts = batch[b].dts
        /\ pacer = "pass" => pnow - entries[j].arrival <= History

BatchInv == KeyInv /\ BatchEmpty /\ Awake /\ NextNotOld /\ BatchKept

\* The pacer never waits, and is never joined, with packets to send.
LEMMA StepBatchEmpty ==
    ASSUME TypeOK, FreshStart, BatchEmpty, [Next]_vars
    PROVE  BatchEmpty'
<1> USE DEF BatchEmpty, pacerVars, sourceVars
<1>1. CASE PacerLoop \/ PacerWake \/ EndPass \/ PacerSend
  BY <1>1 DEF PacerLoop, PacerWake, EndPass, PacerSend
<1>2. CASE ReleaseNext
  <2>1. capture # "off"
    BY <1>2 DEF ReleaseNext, CanRelease, FreshStart, TypeOK
  <2>2. QED
    BY <1>2, <2>1 DEF ReleaseNext
<1>3. CASE Controller
  BY <1>3 DEF Controller, BeginStop, BeginStart, Join, Release, Reset, Spawn, FreshStart
<1>4. CASE (\E s \in Streams : Push(s)) \/ (\E d \in Requests : SetDelay(d))
  BY <1>4 DEF Push, SetDelay
<1>5. CASE BeginCapture \/ EndCapture \/ Tick \/ UNCHANGED vars
  BY <1>5 DEF BeginCapture, EndCapture, Tick, vars
<1>6. QED
  BY <1>1, <1>2, <1>3, <1>4, <1>5 DEF Next, Pacer

\* The pacer reads the clock at most MaxStall late.
LEMMA StepAwake ==
    ASSUME TypeOK, FreshStart, Awake, [Next]_vars
    PROVE  Awake'
<1> USE DEF Awake, PacerAlive, pacerVars
<1>1. now \in Nat /\ pnow \in Nat /\ MaxStall \in Nat
  BY ConstantsAssumption DEF TypeOK
<1>2. CASE PacerWake \/ Spawn
  BY <1>1, <1>2 DEF PacerWake, Spawn, FreshStart
<1>3. CASE Tick
  BY <1>1, <1>3 DEF Tick
<1>4. CASE PacerLoop \/ ReleaseNext \/ EndPass \/ PacerSend
  BY <1>4 DEF PacerLoop, ReleaseNext, EndPass, PacerSend
<1>5. CASE BeginStop \/ (\E d \in Requests : BeginStart(d)) \/ Join \/ Release \/ Reset
  BY <1>5 DEF BeginStop, BeginStart, Join, Release, Reset
<1>6. CASE (\E s \in Streams : Push(s)) \/ (\E d \in Requests : SetDelay(d))
  BY <1>6 DEF Push, SetDelay
<1>7. CASE BeginCapture \/ EndCapture \/ UNCHANGED vars
  BY <1>7 DEF BeginCapture, EndCapture, vars
<1>8. QED
  BY <1>2, <1>3, <1>4, <1>5, <1>6, <1>7 DEF Next, Pacer, Controller

\* The position behind c, in a timeline of n entries, and behind a later one.
LEMMA PositionBehind ==
    ASSUME NEW c \in Nat, NEW n \in Nat
    PROVE  /\ c < n => c + 1 \in 1 .. n
           /\ c <= n => c + 1 <= n + 1
  OBVIOUS

\* A skip leaves the cursor on a packet that is not older.
LEMMA SkipNotOlder ==
    ASSUME TypeOK, ClockInv, NEW t, SkipTo(SkipPoint(t)) \/ StayPut, cursor' < Len(entries)
    PROVE  /\ cursor < Len(entries)
           /\ entries[cursor + 1].arrival <= entries[cursor' + 1].arrival
<1>1. cursor \in Nat /\ Len(entries) \in Nat
  BY EntryTypes DEF TypeOK
<1>2. cursor' \in Nat /\ cursor <= cursor'
  <2>1. CASE StayPut
    BY <1>1, <2>1 DEF StayPut
  <2>2. CASE \E k \in SkipPoint(t) : k > cursor + 1 /\ JumpTo(k)
    BY <1>1, <2>2, JumpTargets, KeyframeTypes DEF JumpTo
  <2>3. QED
    BY <2>1, <2>2 DEF SkipTo
<1>3. cursor < Len(entries)
  BY <1>1, <1>2
<1>4. /\ cursor + 1 \in 1 .. Len(entries) /\ cursor' + 1 \in 1 .. Len(entries)
      /\ cursor + 1 <= cursor' + 1
  BY <1>1, <1>2, <1>3, PositionBehind
<1>5. QED
  BY <1>3, <1>4, EntryTypes DEF ClockInv, ClockUnderLock

\* A rewind overshoots the delay by less than a group of pictures.
LEMMA RewindNotTooFar ==
    ASSUME KeyInv, capture = "on", NEW d \in 0 .. MaxDelay, RewindTo(RewindPoint(Target(d)))
    PROVE  cursor' = cursor \/ now - entries[cursor' + 1].arrival <= MaxDelay + Gop
<1>1. /\ TypeOK /\ OnTime /\ KeyframesClose
      /\ now \in Nat /\ MaxDelay \in Nat /\ Gop \in Nat /\ d \in Nat /\ d <= MaxDelay
      /\ lastKey \in Nat /\ due[Video] \in Nat
  BY ConstantTypes, ConstantsAssumption DEF KeyInv, SafeInv, TypeOK
<1>2. Target(d) \in Nat /\ now - d <= Target(d)
  BY <1>1 DEF Target
<1>3. SUFFICES ASSUME NEW k \in RewindPoint(Target(d)), JumpTo(k)
               PROVE  now - entries[cursor' + 1].arrival <= MaxDelay + Gop
  BY DEF RewindTo, StayPut
<1>4. k \in Keyframes /\ k \in Nat /\ entries[k].arrival \in Nat /\ cursor' + 1 = k
  BY <1>1, <1>3, JumpTargets, KeyframeTypes DEF JumpTo
<1>5. CASE entries[k].arrival > Target(d)
  BY <1>1, <1>2, <1>4, <1>5
<1>6. CASE entries[k].arrival <= Target(d)
  <2>1. \A j \in Keyframes : entries[j].arrival <= Target(d) => j <= k
    BY <1>4, <1>6 DEF RewindPoint, LatestOf
  <2>2. CASE entries[k].arrival = lastKey
    <3>1. firstKey # NoTime
      BY <1>1, <1>4 DEF KeyframesClose
    <3>2. now <= due[Video] /\ due[Video] <= lastKey + Gop
      BY <1>1, <3>1, ConstantTypes DEF OnTime
    <3>3. QED
      BY <1>1, <1>4, <2>2, <3>2
  <2>3. ASSUME NEW j \in Keyframes, k < j, entries[j].arrival <= entries[k].arrival + Gop
        PROVE  now - entries[cursor' + 1].arrival <= MaxDelay + Gop
    <3>1. j \in Nat /\ entries[j].arrival \in Nat
      BY <1>1, KeyframeTypes
    <3>2. entries[j].arrival > Target(d)
      BY <1>2, <1>4, <2>1, <2>3, <3>1
    <3>3. QED
      BY <1>1, <1>2, <1>4, <2>3, <3>1, <3>2
  <2>4. QED
    BY <1>1, <1>4, <2>2, <2>3 DEF KeyframesClose
<1>7. QED
  BY <1>2, <1>4, <1>5, <1>6

\* The pacer never falls further behind than a rewind and one stall.
LEMMA StepNextNotOld ==
    ASSUME KeyInv, Awake, NextNotOld, [Next]_vars
    PROVE  NextNotOld'
<1> USE DEF timelineVars, sourceVars, pacerVars, PacerAlive
<1>1. /\ TypeOK /\ ClockInv /\ FreshStart /\ pnow <= now
      /\ now \in Nat /\ pnow \in Nat /\ MaxDelay \in Nat /\ Gop \in Nat /\ MaxStall \in Nat
  BY ConstantTypes, ConstantsAssumption DEF KeyInv, SafeInv, ClockInv, TypeOK
<1> cursor \in Nat /\ Len(entries) \in Nat /\ cursor <= Len(entries)
  BY <1>1, EntryTypes DEF TypeOK
<1>2. /\ DOMAIN entries = 1 .. Len(entries)
      /\ \A k \in DOMAIN entries : entries[k].arrival \in Nat
  BY <1>1, EntryTypes DEF TypeOK
<1>3. ASSUME UNCHANGED <<entries, cursor, pnow, capture>>, PacerAlive' => PacerAlive,
             pacer # "pass"
      PROVE  NextNotOld'
  <2>1. pacer' # "pass" => NextNotOld'
    BY <1>3 DEF NextNotOld
  <2>2. ASSUME pacer' = "pass"
        PROVE  NextNotOld'
    <3>1. CASE capture = "on" /\ cursor < Len(entries)
      <4>1. cursor + 1 \in DOMAIN entries
        BY <1>2, <3>1
      <4>2. pnow - entries[cursor + 1].arrival <= MaxDelay + Gop
        BY <1>1, <1>2, <1>3, <2>2, <3>1, <4>1 DEF NextNotOld
      <4>3. QED
        BY <1>1, <1>2, <1>3, <2>2, <4>1, <4>2 DEF NextNotOld
    <3>2. QED
      BY <1>3, <3>1 DEF NextNotOld
  <2>3. QED
    BY <2>1, <2>2
<1>4. CASE ReleaseNext
  <2>1. /\ UNCHANGED <<entries, pnow, capture, pacer>> /\ cursor' = cursor + 1
        /\ pacer = "pass" /\ cursor < Len(entries)
    BY <1>4 DEF ReleaseNext, CanRelease
  <2>2. SUFFICES ASSUME capture = "on", cursor + 1 < Len(entries)
                 PROVE  pnow - entries[(cursor + 1) + 1].arrival <= MaxDelay + Gop + MaxStall
    BY <2>1 DEF NextNotOld
  <2>3. cursor + 1 \in DOMAIN entries /\ (cursor + 1) + 1 \in DOMAIN entries
        /\ cursor + 1 <= (cursor + 1) + 1
    BY <1>2, <2>1, <2>2
  <2>4. entries[cursor + 1].arrival <= entries[(cursor + 1) + 1].arrival
    BY <1>1, <2>3 DEF ClockInv, ClockUnderLock
  <2>5. pnow - entries[cursor + 1].arrival <= MaxDelay + Gop + MaxStall
    BY <2>1, <2>2 DEF NextNotOld
  <2>6. QED
    BY <1>1, <1>2, <2>3, <2>4, <2>5
<1>5. CASE PacerWake
  <2>1. /\ UNCHANGED <<entries, capture>> /\ pacer = "wait" /\ pacer' = "pass" /\ pnow' = now
        /\ SkipTo(SkipPoint(pendingTarget)) \/ StayPut
    BY <1>5 DEF PacerWake, TryPendingSkip
  <2>2. SUFFICES ASSUME capture = "on", cursor' < Len(entries)
                 PROVE  now - entries[cursor' + 1].arrival <= MaxDelay + Gop + MaxStall
    BY <2>1 DEF NextNotOld
  <2>3. cursor < Len(entries) /\ entries[cursor + 1].arrival <= entries[cursor' + 1].arrival
    BY <1>1, <2>1, <2>2, SkipNotOlder
  <2>4. cursor' \in 0 .. Len(entries)
    BY <1>1, <2>1, JumpTypes
  <2>5. cursor + 1 \in DOMAIN entries /\ cursor' + 1 \in DOMAIN entries
    BY <1>2, <2>2, <2>3, <2>4
  <2>6. pnow - entries[cursor + 1].arrival <= MaxDelay + Gop /\ now - pnow <= MaxStall
    BY <1>1, <1>2, <2>1, <2>2, <2>3, <2>5 DEF NextNotOld, Awake
  <2>7. QED
    BY <1>1, <1>2, <2>3, <2>5, <2>6
<1>6. CASE EndPass
  <2>1. PICK n \in PruneCount : /\ entries' = SubSeq(entries, n + 1, Len(entries))
                                /\ cursor' = cursor - n
    BY <1>6 DEF EndPass
  <2>2. /\ n \in 0 .. cursor
        /\ Len(entries') = Len(entries) - n
        /\ \A k \in 1 .. Len(entries) - n : entries'[k] = entries[k + n]
    BY <1>1, <2>1, PruneTypes
  <2>3. UNCHANGED <<capture, pnow>> /\ pacer' = "loop" /\ ~CanRelease
    BY <1>6 DEF EndPass
  <2>4. SUFFICES ASSUME cursor' < Len(entries')
                 PROVE  pnow - entries'[cursor' + 1].arrival <= MaxDelay + Gop
    BY <1>1, <2>3 DEF NextNotOld
  <2>5. /\ cursor < Len(entries) /\ cursor' + 1 \in 1 .. Len(entries) - n
        /\ (cursor' + 1) + n = cursor + 1 /\ cursor + 1 \in DOMAIN entries
    <3>1. n \in Int /\ cursor - n < Len(entries) - n /\ n <= cursor
      BY <2>1, <2>2, <2>4
    <3>2. /\ cursor < Len(entries) /\ cursor - n + 1 \in 1 .. Len(entries) - n
          /\ (cursor - n + 1) + n = cursor + 1 /\ cursor + 1 \in 1 .. Len(entries)
      BY <3>1
    <3>3. QED
      BY <1>2, <2>1, <3>2
  <2>6. entries'[cursor' + 1] = entries[cursor + 1]
    BY <2>2, <2>5
  <2>7. Pace \in 0 .. MaxDelay
    BY <1>1 DEF Pace, TypeOK
  <2>8. pnow - entries[cursor + 1].arrival < Pace
    BY <1>1, <1>2, <2>3, <2>5, <2>7 DEF CanRelease
  <2>9. QED
    BY <1>1, <1>2, <2>5, <2>6, <2>7, <2>8
<1>7. ASSUME NEW s \in Streams, Push(s)
      PROVE  NextNotOld'
  <2>1. PICK e \in Entry : entries' = Append(entries, e) /\ e.arrival = now
    BY <1>1, <1>7, PushAppends
  <2>2. /\ Len(entries') = Len(entries) + 1
        /\ \A k \in 1 .. Len(entries) : entries'[k] = entries[k]
        /\ entries'[Len(entries) + 1] = e
    BY <1>1, <2>1, AppendProperties DEF TypeOK
  <2>3. UNCHANGED <<cursor, pnow, pacer, capture>> /\ pacer # "pass"
    BY <1>7 DEF Push, Unlocked
  <2>4. CASE cursor < Len(entries)
    BY <1>2, <2>2, <2>3, <2>4 DEF NextNotOld
  <2>5. CASE cursor = Len(entries)
    BY <1>1, <2>1, <2>2, <2>3, <2>5 DEF NextNotOld
  <2>6. QED
    BY <2>4, <2>5
<1>8. ASSUME NEW d \in Requests, SetDelay(d)
      PROVE  NextNotOld'
  <2>1. UNCHANGED <<entries, pnow, pacer, capture>> /\ pacer # "pass"
    BY <1>8 DEF SetDelay, Unlocked
  <2>2. SUFFICES ASSUME capture = "on", PacerAlive, cursor' < Len(entries)
                 PROVE  pnow - entries[cursor' + 1].arrival <= MaxDelay + Gop
    BY <1>1, <2>1 DEF NextNotOld
  <2>3. cursor' \in 0 .. Len(entries)
    BY <1>1, <1>8, JumpTypes DEF SetDelay, Raise, LowerNow, LowerLater
  <2>4. cursor' + 1 \in DOMAIN entries /\ entries[cursor' + 1].arrival \in Nat
    <3>1. cursor' \in Nat
      BY <2>3
    <3>2. cursor' + 1 \in 1 .. Len(entries)
      BY <2>2, <3>1, PositionBehind
    <3>3. QED
      BY <1>2, <3>2
  <2>5. CASE SkipTo(SkipPoint(Target(Clamp(d)))) \/ StayPut
    <3>1. cursor < Len(entries) /\ entries[cursor + 1].arrival <= entries[cursor' + 1].arrival
      BY <1>1, <2>2, <2>5, SkipNotOlder
    <3>2. cursor + 1 \in DOMAIN entries
      BY <1>2, <3>1
    <3>3. pnow - entries[cursor + 1].arrival <= MaxDelay + Gop
      BY <1>1, <1>2, <2>1, <2>2, <3>1, <3>2 DEF NextNotOld
    <3>4. QED
      BY <1>1, <1>2, <2>4, <3>1, <3>2, <3>3
  <2>6. CASE RewindTo(RewindPoint(Target(Clamp(d))))
    <3>1. Clamp(d) \in 0 .. MaxDelay
      BY ConstantTypes
    <3>2. CASE now - entries[cursor' + 1].arrival <= MaxDelay + Gop
      BY <1>1, <2>4, <3>2
    <3>3. CASE cursor' = cursor
      BY <1>1, <1>2, <2>1, <2>2, <2>4, <3>3 DEF NextNotOld
    <3>4. QED
      BY <2>2, <2>6, <3>1, <3>2, <3>3, RewindNotTooFar
  <2>7. QED
    BY <1>8, <2>5, <2>6 DEF SetDelay, Raise, LowerNow, LowerLater
<1>9. CASE Release \/ Reset
  <2>1. entries' = <<>> /\ cursor' = 0
    BY <1>9 DEF Release, Reset
  <2>2. ~(cursor' < Len(entries'))
    BY <2>1
  <2>3. QED
    BY <2>2 DEF NextNotOld
<1>10. CASE Spawn
  BY <1>1, <1>10 DEF Spawn, FreshStart, NextNotOld
<1>11. CASE BeginCapture
  <2>1. entries' = entries /\ cursor' = cursor /\ entries = <<>>
    BY <1>1, <1>11 DEF BeginCapture, FreshStart
  <2>2. ~(cursor' < Len(entries'))
    BY <1>2, <2>1
  <2>3. QED
    BY <2>2 DEF NextNotOld
<1>12. CASE PacerLoop \/ Join
  BY <1>3, <1>12 DEF PacerLoop, Join, NextNotOld
<1>13. CASE PacerSend \/ BeginStop \/ (\E d \in Requests : BeginStart(d)) \/ EndCapture
            \/ Tick \/ UNCHANGED vars
  BY <1>13 DEF PacerSend, BeginStop, BeginStart, EndCapture, Tick, vars, NextNotOld
<1>14. QED
  BY <1>4, <1>5, <1>6, <1>7, <1>8, <1>9, <1>10, <1>11, <1>12, <1>13
     DEF Next, Pacer, Controller

\* What was taken out under the lock outlives every pruning until it is sent.
LEMMA StepBatchKept ==
    ASSUME StallsFit, BatchInv, [Next]_vars
    PROVE  BatchKept'
<1> USE DEF timelineVars, sourceVars, pacerVars
<1>1. /\ TypeOK /\ FreshStart /\ BatchEmpty /\ NextNotOld /\ BatchKept
      /\ pnow \in Nat /\ MaxDelay \in Nat /\ Gop \in Nat /\ MaxStall \in Nat /\ History \in Nat
  <2>1. TypeOK /\ FreshStart /\ BatchEmpty /\ NextNotOld /\ BatchKept
    BY DEF BatchInv, KeyInv, SafeInv
  <2>2. QED
    BY <2>1, ConstantTypes, ConstantsAssumption DEF TypeOK
<1>2. ASSUME batch' = <<>>
      PROVE  BatchKept'
  BY <1>2 DEF BatchKept
<1>3. ASSUME UNCHANGED <<entries, batch>>, capture' = "on" => capture = "on", pacer' # "pass"
      PROVE  BatchKept'
  BY <1>1, <1>3 DEF BatchKept
<1>4. CASE ReleaseNext
  <2> DEFINE e == entries[cursor + 1]
  <2>1. UNCHANGED <<entries, pnow, capture, pacer>> /\ pacer = "pass" /\ cursor < Len(entries)
    BY <1>4 DEF ReleaseNext, CanRelease
  <2>2. SUFFICES ASSUME capture = "on", NEW b \in DOMAIN batch'
                 PROVE  \E j \in DOMAIN entries :
                           /\ entries[j].stream = batch'[b].stream
                           /\ entries[j].dts = batch'[b].dts
                           /\ pnow - entries[j].arrival <= History
    BY <2>1 DEF BatchKept
  <2>3. \A i \in DOMAIN batch : \E j \in DOMAIN entries :
           /\ entries[j].stream = batch[i].stream
           /\ entries[j].dts = batch[i].dts
           /\ pnow - entries[j].arrival <= History
    BY <1>1, <2>1, <2>2 DEF BatchKept
  <2>4. CASE batch' = batch
    BY <2>2, <2>3, <2>4
  <2>5. ASSUME NEW p, batch' = Append(batch, p), p.stream = e.stream, p.dts = e.dts, p \in OutPacket
        PROVE  \E j \in DOMAIN entries :
                  /\ entries[j].stream = batch'[b].stream
                  /\ entries[j].dts = batch'[b].dts
                  /\ pnow - entries[j].arrival <= History
    <3>1. /\ batch \in Seq(OutPacket) /\ Len(batch) \in Nat /\ batch' \in Seq(OutPacket)
          /\ Len(batch') = Len(batch) + 1
          /\ \A i \in 1 .. Len(batch) : batch'[i] = batch[i]
          /\ batch'[Len(batch) + 1] = p
      BY <1>1, <2>5, AppendProperties DEF TypeOK
    <3>2. b \in 1 .. Len(batch) \/ b = Len(batch) + 1
      BY <3>1
    <3>3. CASE b \in 1 .. Len(batch)
      BY <2>3, <3>1, <3>3
    <3>4. CASE b = Len(batch) + 1
      <4>1. cursor \in Nat /\ Len(entries) \in Nat /\ cursor + 1 \in 1 .. Len(entries)
        BY <1>1, <2>1 DEF TypeOK
      <4>2. cursor + 1 \in DOMAIN entries /\ e.arrival \in Nat
        BY <1>1, <4>1, EntryTypes
      <4>3. pnow - e.arrival <= MaxDelay + Gop + MaxStall
        BY <1>1, <2>1, <2>2 DEF NextNotOld, PacerAlive
      <4>4. pnow - e.arrival <= History
        BY <1>1, <4>2, <4>3 DEF StallsFit
      <4>5. QED
        BY <2>5, <3>1, <3>4, <4>2, <4>4
    <3>5. QED
      BY <3>2, <3>3, <3>4
  <2>6. batch' = batch \/ \E p \in OutPacket : /\ batch' = Append(batch, p)
                                               /\ p.stream = e.stream /\ p.dts = e.dts
    <3>1. CASE batch' = batch
      BY <3>1
    <3>2. CASE batch' # batch
      <4> DEFINE p == [stream |-> e.stream, dts |-> e.dts, usec |-> e.dts + OutOffset(e),
                       arrival |-> e.arrival]
      <4>1. batch' = Append(batch, p) /\ p.stream = e.stream /\ p.dts = e.dts
        BY <1>4, <3>2 DEF ReleaseNext
      <4>2. p \in OutPacket
        <5>1. batch' \in Seq(OutPacket) /\ Len(batch) \in Nat
          BY <1>1, <1>4, ReleaseNextTypes DEF TypeOK
        <5>2. Len(batch') = Len(batch) + 1 /\ batch'[Len(batch) + 1] = p
          BY <1>1, <4>1 DEF TypeOK
        <5>3. QED
          BY <5>1, <5>2
      <4>3. QED
        BY <4>1, <4>2
    <3>3. QED
      BY <3>1, <3>2
  <2>7. QED
    BY <2>4, <2>5, <2>6
<1>5. CASE EndPass
  <2>1. PICK n \in PruneCount : entries' = SubSeq(entries, n + 1, Len(entries))
    BY <1>5 DEF EndPass
  <2>2. /\ n \in 0 .. cursor /\ n \in Nat /\ entries' \in Seq(Entry)
        /\ Len(entries') = Len(entries) - n
        /\ \A k \in 1 .. Len(entries) - n : entries'[k] = entries[k + n]
    BY <1>1, <2>1, PruneTypes DEF TypeOK
  <2>3. UNCHANGED <<capture, pnow, batch>> /\ pacer = "pass" /\ pacer' = "loop"
    BY <1>5 DEF EndPass
  <2>4. SUFFICES ASSUME capture = "on", NEW b \in DOMAIN batch
                 PROVE  \E j \in DOMAIN entries' :
                           /\ entries'[j].stream = batch[b].stream
                           /\ entries'[j].dts = batch[b].dts
    BY <2>3 DEF BatchKept
  <2>5. PICK j \in DOMAIN entries :
           /\ entries[j].stream = batch[b].stream
           /\ entries[j].dts = batch[b].dts
           /\ pnow - entries[j].arrival <= History
    BY <1>1, <2>3, <2>4 DEF BatchKept
  <2>6. Len(entries) \in Nat /\ j \in 1 .. Len(entries) /\ entries[j].arrival \in Nat
    BY <1>1, EntryTypes
  <2>7. j \notin 1 .. n
    <3>1. ~(pnow - entries[j].arrival > History)
      BY <1>1, <2>5, <2>6
    <3>2. \A k \in 1 .. n : Outdated(k)
      BY <2>2 DEF PruneCount
    <3>3. QED
      BY <3>1, <3>2 DEF Outdated
  <2>8. j - n \in 1 .. Len(entries) - n /\ (j - n) + n = j
    BY <2>2, <2>6, <2>7
  <2>9. j - n \in DOMAIN entries' /\ entries'[j - n] = entries[j]
    <3>1. DOMAIN entries' = 1 .. Len(entries) - n
      BY <2>2
    <3>2. entries'[j - n] = entries[(j - n) + n]
      BY <2>2, <2>8
    <3>3. QED
      BY <2>8, <3>1, <3>2
  <2>10. QED
    BY <2>5, <2>9
<1>6. ASSUME NEW s \in Streams, Push(s)
      PROVE  BatchKept'
  <2>1. PICK e \in Entry : entries' = Append(entries, e)
    BY <1>1, <1>6, PushAppends
  <2>2. /\ entries' \in Seq(Entry) /\ Len(entries') = Len(entries) + 1 /\ Len(entries) \in Nat
        /\ \A k \in 1 .. Len(entries) : entries'[k] = entries[k]
    BY <1>1, <2>1, AppendProperties DEF TypeOK
  <2>3. \A k \in DOMAIN entries : k \in DOMAIN entries' /\ entries'[k] = entries[k]
    BY <1>1, <2>2, EntryTypes
  <2>4. UNCHANGED <<batch, pacer, capture>> /\ pacer # "pass"
    BY <1>6 DEF Push, Unlocked
  <2>5. QED
    BY <1>1, <2>3, <2>4 DEF BatchKept
<1>7. CASE PacerWake \/ PacerSend
  BY <1>1, <1>2, <1>7 DEF PacerWake, PacerSend, BatchEmpty
<1>8. CASE Release \/ Reset \/ BeginCapture
  BY <1>1, <1>2, <1>8 DEF Release, Reset, BeginCapture, BatchEmpty, FreshStart
<1>9. ASSUME NEW d \in Requests, SetDelay(d)
      PROVE  BatchKept'
  BY <1>3, <1>9 DEF SetDelay, Unlocked
<1>10. CASE Spawn
  BY <1>1, <1>2, <1>10 DEF Spawn, BatchEmpty, FreshStart
<1>11. CASE PacerLoop \/ Join
  BY <1>3, <1>11 DEF PacerLoop, Join
<1>12. CASE BeginStop \/ (\E d \in Requests : BeginStart(d)) \/ EndCapture \/ Tick \/ UNCHANGED vars
  BY <1>1, <1>12 DEF BeginStop, BeginStart, EndCapture, Tick, vars, BatchKept
<1>13. QED
  BY <1>4, <1>5, <1>6, <1>7, <1>8, <1>9, <1>10, <1>11, <1>12
     DEF Next, Pacer, Controller

\* The packets about to be sent outside the lock are still in the timeline, which
\* holds their references, when the history covers a group and a stall more than
\* the longest delay.
THEOREM BatchAlwaysInTimeline == ASSUME StallsFit PROVE Spec => []BatchInTimeline
<1>1. Init => BatchInv
  <2> SUFFICES ASSUME Init PROVE BatchInv
    OBVIOUS
  <2>1. SafeInv
    BY InitSafe
  <2>2. OnTime /\ KeyframesClose
    BY DEF Init, OnTime, KeyframesClose, Keyframes
  <2>3. BatchEmpty /\ Awake /\ NextNotOld /\ BatchKept
    BY DEF Init, BatchEmpty, Awake, PacerAlive, NextNotOld, BatchKept
  <2>4. QED
    BY <2>1, <2>2, <2>3 DEF BatchInv, KeyInv
<1>2. BatchInv /\ [Next]_vars => BatchInv'
  <2> SUFFICES ASSUME BatchInv, [Next]_vars PROVE BatchInv'
    OBVIOUS
  <2>1. KeyInv /\ TypeOK /\ FreshStart
    BY DEF BatchInv, KeyInv, SafeInv
  <2>2. KeyInv'
    BY <2>1, StepSafe, StepOnTime, StepKeyframesClose DEF KeyInv, SafeInv, StallsFit
  <2>3. BatchEmpty' /\ Awake' /\ NextNotOld' /\ BatchKept'
    BY <2>1, StepBatchEmpty, StepAwake, StepNextNotOld, StepBatchKept DEF BatchInv
  <2>4. QED
    BY <2>2, <2>3 DEF BatchInv
<1>3. BatchInv => BatchInTimeline
  BY DEF BatchInv, BatchKept, BatchInTimeline
<1>4. QED
  BY <1>1, <1>2, <1>3, PTL DEF Spec

--------------------------------------------------------------------------------
(***************************************************************************)
(* The time stamps the muxer writes, when the numerator of the timebase is *)
(* 1 and its unit the unit of time, so that nothing is rounded.  Frames    *)
(* leave VideoPeriod apart; the invariant keeps the audio between them.    *)
(***************************************************************************)

ExactTimebase == VideoTbUnit = 1 /\ VideoTbNum = 1

\* The timeline is in the order of the interleaver, and so is what comes next:
\* audio comes after the frame of its time, so that the next frame is later.
DtsSorted ==
    /\ \A i, j \in DOMAIN entries : i <= j =>
           /\ entries[i].dts <= entries[j].dts
           /\ entries[i].stream # Video /\ entries[j].stream = Video
                  => entries[i].dts < entries[j].dts
    /\ \A i \in DOMAIN entries, s \in Streams :
           /\ entries[i].dts <= due[s]
           /\ entries[i].stream # Video /\ s = Video => entries[i].dts < due[s]

\* The first packet of a session is a frame, and the first one released.
FrameFirst ==
    /\ firstKey = NoTime => entries = <<>>
    /\ capture = "on" /\ firstKey = NoTime => \A s \in Streams : due[s] = due[Video]
    /\ PacerAlive /\ ~resync /\ lastFrame = NoTime =>
           \/ firstKey = NoTime
           \/ cursor < Len(entries) /\ entries[cursor + 1].stream = Video

\* What comes is not older than the last frame released.
FramePassed ==
    PacerAlive /\ ~resync /\ lastFrame # NoTime =>
        /\ \A s \in Streams : lastFrame <= due[s]
        /\ \A k \in DOMAIN entries : cursor < k => lastFrame <= entries[k].dts

\* A pacer is only spawned when nothing was sent.
FreshOut ==
    ctl = "spawn" => lastOut["audio"] = NoTime /\ \A s \in Streams : muxed[s] = NoTime

\* Audio has not run ahead of the next frame.
AudioClose ==
    PacerAlive /\ lastOut["audio"] # NoTime =>
        /\ lastOut["video"] # NoTime
        /\ lastOut["audio"] < lastOut["video"] + VideoPeriod

\* No track is ahead of the last time of its kind.
MuxedLast ==
    PacerAlive => \A s \in Streams :
        muxed[s] # NoTime => lastOut[Kind(s)] # NoTime /\ muxed[s] <= lastOut[Kind(s)]

OrderInv ==
    /\ FrameInv /\ DtsSorted /\ FrameFirst /\ FramePassed
    /\ FreshOut /\ AudioClose

MuxInv == OrderInv /\ MuxedLast

\* Without rounding, the muxer writes the rewritten time.
LEMMA ExactMuxTime ==
    ASSUME ExactTimebase, NEW s \in Streams, NEW dts \in Nat, NEW off \in Int
    PROVE  MuxTime(s, dts, off) = dts + off
<1>1. TbUnit(s) = 1 /\ TbNum(s) = 1
  BY DEF TbUnit, TbNum, ExactTimebase
<1>2. \A x \in Int : x \div 1 = x /\ x * 1 = x /\ (2 * x + 1) \div 2 = x
  OBVIOUS
<1>3. RoundDiv(off, 1) = off
  <2>1. 2 * 1 = 2 /\ -off \in Int /\ -(-off) = off
    OBVIOUS
  <2>2. (2 * off + 1) \div 2 = off /\ (2 * (-off) + 1) \div 2 = -off
    BY <1>2, <2>1
  <2>3. QED
    BY <2>1, <2>2 DEF RoundDiv
<1>4. usec_to_tb(off, s) = off
  BY <1>1, <1>3 DEF usec_to_tb
<1>5. dts \div 1 = dts /\ (dts + off) * 1 = dts + off
  BY <1>2
<1>6. QED
  BY <1>1, <1>4, <1>5 DEF MuxTime

\* The interleaver's order.
LEMMA StepDtsSorted ==
    ASSUME TypeOK, FreshStart, DtsSorted, [Next]_vars
    PROVE  DtsSorted'
<1> USE DEF timelineVars, sourceVars
<1>1. ASSUME UNCHANGED <<entries, due>>
      PROVE  DtsSorted'
  BY <1>1 DEF DtsSorted
<1>2. ASSUME entries' = <<>>
      PROVE  DtsSorted'
  BY <1>2 DEF DtsSorted
<1>3. ASSUME NEW s \in Streams, Push(s)
      PROVE  DtsSorted'
  <2>1. PICK e \in Entry : entries' = Append(entries, e) /\ e.stream = s /\ e.dts = due[s]
    BY <1>3, PushAppends
  <2>2. /\ DOMAIN entries = 1 .. Len(entries) /\ Len(entries) \in Nat
        /\ DOMAIN entries' = 1 .. Len(entries) + 1
        /\ \A k \in 1 .. Len(entries) : entries'[k] = entries[k]
        /\ entries'[Len(entries) + 1] = e
    <3>1. entries \in Seq(Entry) /\ entries' \in Seq(Entry)
      BY <2>1, AppendProperties DEF TypeOK
    <3>2. QED
      BY <2>1, <3>1, AppendProperties
  <2>3. /\ \A t \in Streams : due[t] \in Nat /\ due'[t] \in Nat /\ due[t] <= due'[t]
        /\ \A t \in Streams : due[s] <= due[t]
        /\ s # Video => due[s] < due'[Video]
    <3>1. \A t \in Streams : due[t] \in Nat
      BY DEF TypeOK
    <3>2. \A t \in Streams : due'[t] = IF t = s THEN due[t] + Period(s) ELSE due[t]
      BY <1>3 DEF Push, TypeOK
    <3>3. Period(s) \in Nat
      BY ConstantTypes
    <3>4. /\ \A t \in Streams : due[s] <= due[t]
          /\ s # Video => due[s] < due[Video]
      BY <1>3 DEF Push, Interleaved
    <3>5. QED
      BY <3>1, <3>2, <3>3, <3>4, ConstantTypes
  <2>4. \A k \in 1 .. Len(entries) :
           /\ entries[k].dts \in Nat
           /\ \A t \in Streams : /\ entries[k].dts <= due[t]
                                 /\ entries[k].stream # Video /\ t = Video => entries[k].dts < due[t]
    BY EntryTypes DEF DtsSorted
  <2>5. \A k \in DOMAIN entries' : entries'[k].dts \in Nat
    BY <2>1, <2>2, <2>3, <2>4
  <2>6. \A k \in DOMAIN entries', t \in Streams :
           /\ entries'[k].dts <= due'[t]
           /\ entries'[k].stream # Video /\ t = Video => entries'[k].dts < due'[t]
    <3>1. \A k \in 1 .. Len(entries), t \in Streams :
             /\ entries'[k].dts <= due'[t]
             /\ entries'[k].stream # Video /\ t = Video => entries'[k].dts < due'[t]
      BY <2>2, <2>3, <2>4
    <3>2. \A t \in Streams :
             /\ entries'[Len(entries) + 1].dts <= due'[t]
             /\ s # Video /\ t = Video => entries'[Len(entries) + 1].dts < due'[t]
      BY <2>1, <2>2, <2>3
    <3>3. QED
      BY <2>1, <2>2, <3>1, <3>2
  <2>7. \A i, j \in DOMAIN entries' : i <= j =>
           /\ entries'[i].dts <= entries'[j].dts
           /\ entries'[i].stream # Video /\ entries'[j].stream = Video
                  => entries'[i].dts < entries'[j].dts
    <3>1. SUFFICES ASSUME NEW i \in DOMAIN entries', NEW j \in DOMAIN entries', i <= j
                   PROVE  /\ entries'[i].dts <= entries'[j].dts
                          /\ entries'[i].stream # Video /\ entries'[j].stream = Video
                                 => entries'[i].dts < entries'[j].dts
      OBVIOUS
    <3>2. CASE j \in 1 .. Len(entries)
      <4>1. i \in DOMAIN entries /\ j \in DOMAIN entries
        BY <2>2, <3>1, <3>2
      <4>2. entries'[i] = entries[i] /\ entries'[j] = entries[j]
        BY <2>2, <4>1
      <4>3. QED
        BY <3>1, <4>1, <4>2 DEF DtsSorted
    <3>3. CASE i = Len(entries) + 1 /\ j = Len(entries) + 1
      BY <2>5, <3>3
    <3>4. CASE i \in 1 .. Len(entries) /\ j = Len(entries) + 1
      <4>1. entries'[i] = entries[i] /\ entries'[j].dts = due[s] /\ entries'[j].stream = s
        BY <2>1, <2>2, <3>4
      <4>2. entries[i].dts <= due[s] /\ (entries[i].stream # Video /\ s = Video => entries[i].dts < due[s])
        BY <2>4, <3>4
      <4>3. QED
        BY <4>1, <4>2
    <3>5. QED
      BY <2>2, <3>1, <3>2, <3>3, <3>4
  <2>8. QED
    BY <2>6, <2>7 DEF DtsSorted
<1>4. CASE EndPass
  <2>1. PICK n \in PruneCount : entries' = SubSeq(entries, n + 1, Len(entries))
    BY <1>4 DEF EndPass
  <2>2. /\ n \in 0 .. cursor
        /\ entries' \in Seq(Entry)
        /\ Len(entries') = Len(entries) - n
        /\ \A k \in 1 .. Len(entries) - n : entries'[k] = entries[k + n]
    BY <2>1, PruneTypes
  <2>3. \A k \in DOMAIN entries' : k + n \in DOMAIN entries /\ entries'[k] = entries[k + n]
    <3>1. DOMAIN entries' = 1 .. Len(entries) - n
      BY <2>2
    <3>2. n \in Nat /\ DOMAIN entries = 1 .. Len(entries) /\ Len(entries) \in Nat
      BY <2>2, EntryTypes DEF TypeOK
    <3>3. QED
      BY <2>2, <3>1, <3>2
  <2>4. n \in Int /\ DOMAIN entries' \subseteq Int /\ due' = due
    BY <1>4, <2>2 DEF TypeOK, EndPass
  <2>5. QED
    BY <2>3, <2>4 DEF DtsSorted
<1>5. CASE Release \/ Reset
  BY <1>2, <1>5 DEF Release, Reset
<1>6. CASE BeginCapture
  BY <1>2, <1>6 DEF BeginCapture, FreshStart
<1>7. CASE PacerLoop \/ PacerWake \/ ReleaseNext \/ PacerSend
  BY <1>1, <1>7 DEF PacerLoop, PacerWake, ReleaseNext, PacerSend
<1>8. CASE BeginStop \/ (\E d \in Requests : BeginStart(d)) \/ Join \/ Spawn
  BY <1>1, <1>8 DEF BeginStop, BeginStart, Join, Spawn
<1>9. CASE (\E d \in Requests : SetDelay(d)) \/ EndCapture \/ Tick \/ UNCHANGED vars
  BY <1>1, <1>9 DEF SetDelay, EndCapture, Tick, vars
<1>10. QED
  BY <1>3, <1>4, <1>5, <1>6, <1>7, <1>8, <1>9 DEF Next, Pacer, Controller

\* Nothing is released before the first frame of the session.
LEMMA StepFrameFirst ==
    ASSUME FrameInv, FrameFirst, [Next]_vars
    PROVE  FrameFirst'
<1> USE DEF timelineVars, sourceVars, pacerVars, outVars, PacerAlive
<1>1. TypeOK /\ FreshStart /\ NoTime \notin Int
  BY ConstantTypes DEF FrameInv, SafeInv
<1>2. ASSUME UNCHANGED <<entries, firstKey, due>>, capture' = "on" => capture = "on",
             PacerAlive' => PacerAlive, UNCHANGED <<cursor, resync, lastFrame>>
      PROVE  FrameFirst'
  BY <1>2 DEF FrameFirst
<1>3. ASSUME UNCHANGED <<entries, firstKey, due, capture>>, resync'
      PROVE  FrameFirst'
  BY <1>3 DEF FrameFirst
<1>4. ASSUME NEW s \in Streams, Push(s)
      PROVE  FrameFirst'
  <2>1. PICK key \in KeyframeChoices(s) :
           /\ entries' = Append(entries, [stream |-> s, key |-> key,
                                          dts |-> due[s], arrival |-> now])
           /\ firstKey' = IF key /\ firstKey = NoTime THEN now ELSE firstKey
    BY <1>4 DEF Push
  <2>2. UNCHANGED <<cursor, resync, lastFrame, pacer, capture>> /\ capture = "on" /\ now \in Int
    BY <1>1, <1>4 DEF Push, TypeOK
  <2>3. firstKey = NoTime => s = Video
    <3>1. due[s] \in Nat /\ (s = Video \/ due[s] < due[Video])
      BY <1>1, <1>4 DEF Push, Interleaved, TypeOK
    <3>2. firstKey = NoTime => due[s] = due[Video]
      BY <2>2 DEF FrameFirst
    <3>3. QED
      BY <3>1, <3>2
  <2>4. firstKey = NoTime => key
    BY <2>3 DEF KeyframeChoices
  <2>5. firstKey' # NoTime
    BY <1>1, <2>1, <2>2, <2>4
  <2>6. PICK e \in Entry : entries' = Append(entries, e) /\ e.stream = s
    BY <1>1, <1>4, PushAppends
  <2>7. /\ Len(entries') = Len(entries) + 1
        /\ \A k \in 1 .. Len(entries) : entries'[k] = entries[k]
        /\ entries'[Len(entries) + 1] = e
    BY <1>1, <2>6, AppendProperties DEF TypeOK
  <2>8. ASSUME PacerAlive, ~resync, lastFrame = NoTime
        PROVE  cursor < Len(entries') /\ entries'[cursor + 1].stream = Video
    <3>1. CASE firstKey = NoTime
      <4>1. cursor = 0 /\ Len(entries) = 0
        BY <1>1, <3>1 DEF FrameFirst, TypeOK
      <4>2. QED
        BY <2>3, <2>6, <2>7, <3>1, <4>1
    <3>2. CASE cursor < Len(entries) /\ entries[cursor + 1].stream = Video
      <4>1. cursor \in Nat /\ Len(entries) \in Nat
        BY <1>1 DEF TypeOK
      <4>2. QED
        BY <2>7, <3>2, <4>1
    <3>3. QED
      BY <2>8, <3>1, <3>2 DEF FrameFirst
  <2>9. QED
    BY <2>2, <2>5, <2>8 DEF FrameFirst
<1>5. CASE ReleaseNext
  <2> DEFINE e == entries[cursor + 1]
  <2>1. /\ UNCHANGED <<entries, firstKey, due, capture, pacer>> /\ resync' = FALSE
        /\ pacer = "pass" /\ cursor < Len(entries) /\ e.dts \in Nat
    <3>1. cursor + 1 \in DOMAIN entries
      BY <1>1, <1>5, EntryTypes DEF ReleaseNext, CanRelease, TypeOK
    <3>2. QED
      BY <1>1, <1>5, <3>1, EntryTypes DEF ReleaseNext, CanRelease
  <2>2. lastFrame' # NoTime
    <3>1. CASE e.stream = Video
      <4>1. ~GoesBackwards(e)
        BY <1>5, <3>1, FrameNotDropped
      <4>2. lastFrame' = e.dts
        BY <1>5, <3>1, <4>1 DEF ReleaseNext
      <4>3. QED
        BY <1>1, <2>1, <4>2
    <3>2. CASE e.stream # Video
      <4>1. ~resync /\ lastFrame' = lastFrame
        BY <1>5, <3>2 DEF FrameInv, SafeInv, ResyncOnKeyframe, IsKeyframe, ReleaseNext
      <4>2. entries # <<>>
        BY <1>1, <2>1 DEF TypeOK
      <4>3. QED
        BY <2>1, <3>2, <4>1, <4>2 DEF FrameFirst
    <3>3. QED
      BY <3>1, <3>2
  <2>3. QED
    BY <2>1, <2>2 DEF FrameFirst
<1>6. CASE EndPass
  <2>1. PICK n \in PruneCount : /\ entries' = SubSeq(entries, n + 1, Len(entries))
                                /\ cursor' = cursor - n
    BY <1>6 DEF EndPass
  <2>2. /\ n \in 0 .. cursor /\ n \in Nat /\ Len(entries) \in Nat /\ cursor \in Nat
        /\ cursor <= Len(entries)
        /\ entries' \in Seq(Entry)
        /\ Len(entries') = Len(entries) - n
        /\ \A k \in 1 .. Len(entries) - n : entries'[k] = entries[k + n]
    <3>1. Len(entries) \in Nat /\ cursor \in Nat /\ cursor <= Len(entries)
      BY <1>1 DEF TypeOK
    <3>2. /\ n \in 0 .. cursor
          /\ entries' \in Seq(Entry)
          /\ Len(entries') = Len(entries) - n
          /\ \A k \in 1 .. Len(entries) - n : entries'[k] = entries[k + n]
      BY <1>1, <2>1, PruneTypes
    <3>3. QED
      BY <3>1, <3>2
  <2>3. UNCHANGED <<firstKey, due, capture, resync, lastFrame>> /\ pacer = "pass"
    BY <1>6 DEF EndPass
  <2>4. firstKey = NoTime => entries' = <<>>
    <3>1. firstKey = NoTime => Len(entries') = 0
      BY <2>2 DEF FrameFirst
    <3>2. QED
      BY <2>2, <3>1, EmptySeq
  <2>5. cursor < Len(entries) =>
           /\ cursor - n < Len(entries')
           /\ entries'[cursor - n + 1] = entries[cursor + 1]
    <3>1. cursor < Len(entries) => /\ cursor - n < Len(entries) - n
                                   /\ cursor - n + 1 \in 1 .. Len(entries) - n
                                   /\ (cursor - n + 1) + n = cursor + 1
      BY <2>2
    <3>2. QED
      BY <2>2, <3>1
  <2>6. QED
    BY <2>1, <2>3, <2>4, <2>5 DEF FrameFirst
<1>7. CASE Release \/ Reset
  BY <1>1, <1>7 DEF Release, Reset, FreshStart, FrameFirst
<1>8. CASE Spawn
  BY <1>1, <1>8 DEF Spawn, FreshStart, FrameFirst
<1>9. CASE BeginCapture
  <2>1. firstKey' = NoTime /\ entries' = <<>> /\ due' = [s \in Streams |-> now]
    BY <1>1, <1>9 DEF BeginCapture, FreshStart
  <2>2. \A s \in Streams : due'[s] = due'[Video]
    BY <2>1, ConstantTypes
  <2>3. QED
    BY <2>1, <2>2 DEF FrameFirst
<1>10. ASSUME NEW d \in Requests, SetDelay(d)
      PROVE  FrameFirst'
  <2>1. UNCHANGED <<cursor, resync>> \/ resync'
    BY <1>10 DEF SetDelay, Raise, LowerNow, LowerLater, RewindTo, SkipTo, JumpTo, StayPut
  <2>2. UNCHANGED <<entries, firstKey, due, capture, lastFrame, pacer>>
    BY <1>10 DEF SetDelay
  <2>3. CASE resync'
    BY <1>3, <2>2, <2>3
  <2>4. CASE UNCHANGED <<cursor, resync>>
    BY <1>2, <2>2, <2>4
  <2>5. QED
    BY <2>1, <2>3, <2>4
<1>11. CASE PacerWake
  <2>1. UNCHANGED <<cursor, resync>> \/ resync'
    BY <1>11 DEF PacerWake, TryPendingSkip, SkipTo, JumpTo, StayPut
  <2>2. UNCHANGED <<entries, firstKey, due, capture, lastFrame>> /\ PacerAlive
    BY <1>11 DEF PacerWake
  <2>3. CASE resync'
    BY <1>3, <2>2, <2>3
  <2>4. CASE UNCHANGED <<cursor, resync>>
    BY <1>2, <2>2, <2>4
  <2>5. QED
    BY <2>1, <2>3, <2>4
<1>12. CASE PacerLoop \/ PacerSend \/ Join
  BY <1>2, <1>12 DEF PacerLoop, PacerSend, Join
<1>13. CASE BeginStop \/ (\E d \in Requests : BeginStart(d))
  BY <1>2, <1>13 DEF BeginStop, BeginStart
<1>14. CASE EndCapture \/ Tick \/ UNCHANGED vars
  BY <1>2, <1>14 DEF EndCapture, Tick, vars
<1>15. QED
  BY <1>4, <1>5, <1>6, <1>7, <1>8, <1>9, <1>10, <1>11, <1>12, <1>13, <1>14
     DEF Next, Pacer, Controller

\* A release, a jump and a push leave only later packets behind the cursor.
LEMMA StepFramePassed ==
    ASSUME FrameInv, DtsSorted, FramePassed, [Next]_vars
    PROVE  FramePassed'
<1> USE DEF timelineVars, sourceVars, pacerVars, outVars, PacerAlive
<1>1. TypeOK /\ FreshStart /\ NoTime \notin Int
  BY ConstantTypes DEF FrameInv, SafeInv
<1>2. ASSUME UNCHANGED <<entries, due, cursor, resync, lastFrame>>, PacerAlive' => PacerAlive
      PROVE  FramePassed'
  BY <1>2 DEF FramePassed
<1>3. ASSUME resync'
      PROVE  FramePassed'
  BY <1>3 DEF FramePassed
<1>4. ASSUME NEW s \in Streams, Push(s)
      PROVE  FramePassed'
  <2>1. PICK e \in Entry : entries' = Append(entries, e) /\ e.stream = s /\ e.dts = due[s]
    BY <1>1, <1>4, PushAppends
  <2>2. /\ DOMAIN entries = 1 .. Len(entries) /\ Len(entries) \in Nat
        /\ DOMAIN entries' = 1 .. Len(entries) + 1
        /\ \A k \in 1 .. Len(entries) : entries'[k] = entries[k]
        /\ entries'[Len(entries) + 1] = e
    <3>1. entries \in Seq(Entry) /\ entries' \in Seq(Entry)
      BY <1>1, <2>1, AppendProperties DEF TypeOK
    <3>2. QED
      BY <2>1, <3>1, AppendProperties
  <2>3. \A t \in Streams : due[t] \in Nat /\ due'[t] \in Nat /\ due[t] <= due'[t]
    <3>1. \A t \in Streams : due[t] \in Nat
      BY <1>1 DEF TypeOK
    <3>2. \A t \in Streams : due'[t] = IF t = s THEN due[t] + Period(s) ELSE due[t]
      BY <1>1, <1>4 DEF Push, TypeOK
    <3>3. Period(s) \in Nat
      BY ConstantTypes
    <3>4. QED
      BY <3>1, <3>2, <3>3
  <2>4. UNCHANGED <<cursor, resync, lastFrame, pacer>>
    BY <1>4 DEF Push
  <2>5. SUFFICES ASSUME PacerAlive, ~resync, lastFrame # NoTime
                 PROVE  /\ \A t \in Streams : lastFrame <= due'[t]
                        /\ \A k \in DOMAIN entries' : cursor < k => lastFrame <= entries'[k].dts
    BY <2>4 DEF FramePassed
  <2>6. /\ lastFrame \in Int
        /\ \A t \in Streams : lastFrame <= due[t]
        /\ \A k \in DOMAIN entries : cursor < k => lastFrame <= entries[k].dts
    BY <1>1, <2>5 DEF FramePassed, TypeOK, Times
  <2>7. \A t \in Streams : lastFrame <= due'[t]
    BY <2>3, <2>6
  <2>8. \A k \in DOMAIN entries' : cursor < k => lastFrame <= entries'[k].dts
    <3>1. \A k \in 1 .. Len(entries) : cursor < k => lastFrame <= entries'[k].dts
      BY <2>2, <2>6
    <3>2. lastFrame <= entries'[Len(entries) + 1].dts
      BY <2>1, <2>2, <2>6
    <3>3. QED
      BY <2>2, <3>1, <3>2
  <2>9. QED
    BY <2>7, <2>8
<1>5. CASE ReleaseNext
  <2> DEFINE e == entries[cursor + 1]
  <2>1. /\ UNCHANGED <<entries, due, pacer>> /\ cursor' = cursor + 1 /\ pacer = "pass"
    BY <1>5 DEF ReleaseNext
  <2>2. /\ cursor \in Nat /\ cursor + 1 \in DOMAIN entries /\ DOMAIN entries \subseteq Nat
        /\ \A k \in DOMAIN entries : cursor + 1 < k => cursor < k /\ cursor + 1 <= k
    BY <1>1, <1>5, EntryTypes DEF ReleaseNext, CanRelease, TypeOK
  <2>3. CASE e.stream = Video
    <3>1. lastFrame' = e.dts
      BY <1>5, <2>3, FrameNotDropped DEF ReleaseNext
    <3>2. \A s \in Streams : e.dts <= due[s]
      BY <2>2 DEF DtsSorted
    <3>3. \A k \in DOMAIN entries : cursor + 1 < k => e.dts <= entries[k].dts
      BY <2>2 DEF DtsSorted
    <3>4. QED
      BY <2>1, <3>1, <3>2, <3>3 DEF FramePassed
  <2>4. CASE e.stream # Video
    <3>1. ~resync /\ lastFrame' = lastFrame
      BY <1>5, <2>4 DEF FrameInv, SafeInv, ResyncOnKeyframe, IsKeyframe, ReleaseNext
    <3>2. QED
      BY <2>1, <2>2, <3>1 DEF FramePassed
  <2>5. QED
    BY <2>3, <2>4
<1>6. CASE EndPass
  <2>1. PICK n \in PruneCount : /\ entries' = SubSeq(entries, n + 1, Len(entries))
                                /\ cursor' = cursor - n
    BY <1>6 DEF EndPass
  <2>2. /\ n \in 0 .. cursor
        /\ entries' \in Seq(Entry)
        /\ Len(entries') = Len(entries) - n
        /\ \A k \in 1 .. Len(entries) - n : entries'[k] = entries[k + n]
    BY <1>1, <2>1, PruneTypes
  <2>3. \A k \in DOMAIN entries' : /\ k \in Nat /\ k + n \in DOMAIN entries
                                   /\ entries'[k] = entries[k + n]
    <3>1. DOMAIN entries' = 1 .. Len(entries) - n
      BY <2>2
    <3>2. n \in Nat /\ DOMAIN entries = 1 .. Len(entries) /\ Len(entries) \in Nat
      BY <1>1, <2>2, EntryTypes DEF TypeOK
    <3>3. QED
      BY <2>2, <3>1, <3>2
  <2>4. n \in Int /\ cursor \in Int
    BY <1>1, <2>2 DEF TypeOK
  <2>5. UNCHANGED <<due, resync, lastFrame>> /\ pacer = "pass"
    BY <1>6 DEF EndPass
  <2>6. \A k \in DOMAIN entries' : cursor' < k => cursor < k + n
    BY <2>1, <2>3, <2>4
  <2>7. QED
    BY <2>3, <2>5, <2>6 DEF FramePassed
<1>7. CASE Release \/ Reset \/ Spawn \/ BeginCapture
  BY <1>1, <1>7 DEF Release, Reset, Spawn, BeginCapture, FreshStart, FramePassed
<1>8. ASSUME NEW d \in Requests, SetDelay(d)
      PROVE  FramePassed'
  <2>1. UNCHANGED <<cursor, resync>> \/ resync'
    BY <1>8 DEF SetDelay, Raise, LowerNow, LowerLater, RewindTo, SkipTo, JumpTo, StayPut
  <2>2. QED
    BY <1>2, <1>3, <1>8, <2>1 DEF SetDelay
<1>9. CASE PacerWake
  <2>1. UNCHANGED <<cursor, resync>> \/ resync'
    BY <1>9 DEF PacerWake, TryPendingSkip, SkipTo, JumpTo, StayPut
  <2>2. QED
    BY <1>2, <1>3, <1>9, <2>1 DEF PacerWake
<1>10. CASE PacerLoop \/ PacerSend \/ Join
  BY <1>2, <1>10 DEF PacerLoop, PacerSend, Join
<1>11. CASE BeginStop \/ (\E d \in Requests : BeginStart(d))
  BY <1>2, <1>11 DEF BeginStop, BeginStart
<1>12. CASE EndCapture \/ Tick \/ UNCHANGED vars
  BY <1>2, <1>12 DEF EndCapture, Tick, vars
<1>13. QED
  BY <1>4, <1>5, <1>6, <1>7, <1>8, <1>9, <1>10, <1>11, <1>12 DEF Next, Pacer, Controller

\* A set of positions that is not empty has a first one.
LEMMA EarliestExists ==
    ASSUME NEW S, S \subseteq Nat, S # {}
    PROVE  EarliestOf(S) # {}
<1>1. PICK m \in S : \A x \in S : ~(<<x, m>> \in OpToRel(<, Nat))
  BY NatLessThanWellFounded, WFMin
<1>2. ASSUME NEW x \in S
      PROVE  m <= x
  <2>1. x \in Nat /\ m \in Nat
    OBVIOUS
  <2>2. ~(x < m)
    BY <1>1, <2>1 DEF OpToRel
  <2>3. QED
    BY <2>1, <2>2
<1>3. QED
  BY <1>2 DEF EarliestOf

\* A frame is sent one frame after the last one, behind a jump or not.
LEMMA FrameTime ==
    ASSUME FrameInv, ReleaseNext, entries[cursor + 1].stream = Video, lastOut["video"] # NoTime
    PROVE  entries[cursor + 1].dts + OutOffset(entries[cursor + 1])
               = lastOut["video"] + VideoPeriod
<1> DEFINE e == entries[cursor + 1]
<1>1. TypeOK /\ PacerAlive
  BY DEF FrameInv, SafeInv, ReleaseNext, PacerAlive
<1>2. e.dts \in Nat /\ NoTime \notin Int /\ VideoPeriod \in Nat
  <2>1. cursor + 1 \in DOMAIN entries
    BY <1>1, EntryTypes DEF ReleaseNext, CanRelease, TypeOK
  <2>2. QED
    BY <1>1, <2>1, EntryTypes, ConstantTypes
<1>3. lastOut["video"] \in Int /\ offset \in Int /\ lastFrame \in Int \cup {NoTime}
      /\ frame = VideoPeriod
  BY <1>1 DEF TypeOK, Kinds, Times, FrameInv, FrameClock
<1>4. CASE resync
  BY <1>2, <1>3, <1>4 DEF OutOffset, ResyncOffset
<1>5. CASE ~resync
  <2>1. lastFrame # NoTime /\ lastOut["video"] = lastFrame + offset
    BY <1>1, <1>5 DEF FrameInv, FrameClock
  <2>2. e.dts = lastFrame + VideoPeriod
    BY <1>5, <2>1, FrameNotDropped
  <2>3. QED
    BY <1>2, <1>3, <1>5, <2>1, <2>2 DEF OutOffset
<1>6. QED
  BY <1>4, <1>5

\* Audio is sent between the last frame and the next one.
LEMMA AudioTime ==
    ASSUME FrameInv, DtsSorted, FrameFirst, FramePassed, ReleaseNext,
           entries[cursor + 1].stream # Video
    PROVE  LET out == entries[cursor + 1].dts + OutOffset(entries[cursor + 1])
           IN  /\ lastOut["video"] \in Int
               /\ lastOut["video"] <= out
               /\ out < lastOut["video"] + VideoPeriod
<1> DEFINE e == entries[cursor + 1]
<1>1. TypeOK /\ PacerAlive
  BY DEF FrameInv, SafeInv, ReleaseNext, PacerAlive
<1>2. /\ cursor \in Nat /\ cursor + 1 \in DOMAIN entries /\ DOMAIN entries \subseteq Nat
      /\ e.dts \in Nat /\ cursor < Len(entries)
  BY <1>1, EntryTypes DEF ReleaseNext, CanRelease, TypeOK
<1>3. NoTime \notin Int /\ VideoPeriod \in Nat /\ Video \in Streams
  BY ConstantTypes
<1>4. ~resync
  BY <1>1 DEF FrameInv, SafeInv, ResyncOnKeyframe, IsKeyframe
<1>5. lastFrame # NoTime
  <2>1. entries # <<>>
    BY <1>2
  <2>2. QED
    BY <1>1, <1>4, <2>1 DEF FrameFirst
<1>6. lastFrame \in Int /\ offset \in Int /\ lastOut["video"] = lastFrame + offset
  BY <1>1, <1>4, <1>5 DEF TypeOK, Times, FrameInv, FrameClock
<1>7. lastFrame <= e.dts
  BY <1>1, <1>2, <1>4, <1>5 DEF FramePassed
<1>8. e.dts < lastFrame + VideoPeriod
  <2> DEFINE S == {j \in DOMAIN entries : cursor < j /\ entries[j].stream = Video}
  <2>1. Follows(entries, due[Video], cursor, lastFrame)
    BY <1>1, <1>4, <1>5 DEF FrameInv, NextFrame
  <2>2. CASE S = {}
    <3>1. due[Video] = lastFrame + VideoPeriod
      BY <2>1, <2>2 DEF Follows, NoFrameAfter
    <3>2. QED
      BY <1>2, <1>3, <3>1 DEF DtsSorted
  <2>3. CASE S # {}
    <3>1. PICK j \in EarliestOf(S) : TRUE
      BY <1>2, <2>3, EarliestExists
    <3>2. j \in DOMAIN entries /\ j \in Nat /\ cursor + 1 <= j /\ entries[j].stream = Video
      BY <1>2, <3>1 DEF EarliestOf
    <3>3. ASSUME NEW m \in DOMAIN entries, cursor < m, m < j
          PROVE  entries[m].stream # Video
      BY <1>2, <3>1, <3>2, <3>3 DEF EarliestOf
    <3>4. FirstFrameAfter(entries, cursor, j)
      BY <1>2, <3>2, <3>3 DEF FirstFrameAfter
    <3>5. entries[j].dts = lastFrame + VideoPeriod
      BY <2>1, <3>2, <3>4 DEF Follows
    <3>6. QED
      BY <1>2, <3>2, <3>5 DEF DtsSorted
  <2>4. QED
    BY <2>2, <2>3
<1>9. OutOffset(e) = offset
  BY <1>4 DEF OutOffset
<1>10. QED
  BY <1>2, <1>3, <1>6, <1>7, <1>8, <1>9

\* What a turn of the release loop does to the times, with or without a release.
LEMMA TimesReleased ==
    ASSUME TypeOK, ReleaseNext
    PROVE  LET s   == entries[cursor + 1].stream
               out == entries[cursor + 1].dts + OutOffset(entries[cursor + 1])
           IN  /\ s \in Streams /\ out \in Int
               /\ \/ UNCHANGED <<lastOut, muxed, batch>>
                  \/ /\ lastOut[Kind(s)] # NoTime => lastOut[Kind(s)] < out
                     /\ lastOut' = [lastOut EXCEPT ![Kind(s)] = out]
                     /\ muxed' = [muxed EXCEPT ![s] =
                                    MuxTime(s, entries[cursor + 1].dts,
                                            OutOffset(entries[cursor + 1]))]
<1> DEFINE e == entries[cursor + 1]
           s == e.stream
           out == e.dts + OutOffset(e)
<1>1. /\ cursor + 1 \in DOMAIN entries
      /\ e.dts \in Nat /\ s \in Streams /\ Kind(s) \in Kinds
  BY EntryTypes, ConstantTypes DEF ReleaseNext, CanRelease, TypeOK
<1>2. lastOut["video"] \in Int \cup {NoTime} /\ lastOut[Kind(s)] \in Int \cup {NoTime}
      /\ frame \in Nat /\ offset \in Int
  BY <1>1 DEF TypeOK, Kinds, Times
<1>3. out \in Int
  BY <1>1, <1>2 DEF OutOffset, ResyncOffset
<1>4. CASE GoesBackwards(e)
  BY <1>1, <1>3, <1>4 DEF ReleaseNext
<1>5. CASE ~GoesBackwards(e)
  <2>1. lastOut[Kind(s)] # NoTime => lastOut[Kind(s)] < out
    BY <1>2, <1>3, <1>5 DEF GoesBackwards
  <2>2. /\ lastOut' = [lastOut EXCEPT ![Kind(s)] = out]
        /\ muxed' = [muxed EXCEPT ![s] = MuxTime(s, e.dts, OutOffset(e))]
    BY <1>5 DEF ReleaseNext
  <2>3. QED
    BY <1>1, <1>3, <2>1, <2>2
<1>6. QED
  BY <1>4, <1>5

\* A reset forgets every time of the session before.
LEMMA StepFreshOut ==
    ASSUME TypeOK, FreshStart, FreshOut, [Next]_vars
    PROVE  FreshOut'
<1> USE DEF FreshOut, outVars, ctlVars
<1>1. CASE Reset
  BY <1>1 DEF Reset, Kinds
<1>2. CASE ReleaseNext
  BY <1>2 DEF ReleaseNext, FreshStart
<1>3. CASE PacerLoop \/ PacerWake \/ EndPass \/ PacerSend
  BY <1>3 DEF PacerLoop, PacerWake, EndPass, PacerSend
<1>4. CASE BeginStop \/ (\E d \in Requests : BeginStart(d)) \/ Join \/ Release \/ Spawn
  BY <1>4 DEF BeginStop, BeginStart, Join, Release, Spawn
<1>5. CASE (\E s \in Streams : Push(s)) \/ (\E d \in Requests : SetDelay(d))
  BY <1>5 DEF Push, SetDelay
<1>6. CASE BeginCapture \/ EndCapture \/ Tick \/ UNCHANGED vars
  BY <1>6 DEF BeginCapture, EndCapture, Tick, vars
<1>7. QED
  BY <1>1, <1>2, <1>3, <1>4, <1>5, <1>6 DEF Next, Pacer, Controller

\* Audio never comes more than one frame after the last frame.
LEMMA StepAudioClose ==
    ASSUME FrameInv, DtsSorted, FrameFirst, FramePassed, FreshOut, AudioClose, [Next]_vars
    PROVE  AudioClose'
<1> USE DEF outVars, pacerVars, PacerAlive
<1>1. TypeOK /\ FreshStart
  BY DEF FrameInv, SafeInv
<1>2. ASSUME UNCHANGED lastOut, PacerAlive' => PacerAlive
      PROVE  AudioClose'
  BY <1>2 DEF AudioClose
<1>3. CASE ReleaseNext
  <2> DEFINE e == entries[cursor + 1]
             out == e.dts + OutOffset(e)
  <2>1. /\ pacer = "pass" /\ pacer' = "pass" /\ out \in Int
        /\ lastOut' = lastOut \/ lastOut' = [lastOut EXCEPT ![Kind(e.stream)] = out]
    BY <1>1, <1>3, TimesReleased DEF ReleaseNext
  <2>2. /\ lastOut["video"] \in Int \cup {NoTime} /\ lastOut["audio"] \in Int \cup {NoTime}
        /\ DOMAIN lastOut = {"video", "audio"}
        /\ NoTime \notin Int /\ VideoPeriod \in Nat
    BY <1>1, ConstantTypes DEF TypeOK, Kinds, Times
  <2>3. ASSUME lastOut' = [lastOut EXCEPT ![Kind(e.stream)] = out]
        PROVE  AudioClose'
    <3>1. CASE e.stream = Video
      <4>1. lastOut'["video"] = out /\ lastOut'["audio"] = lastOut["audio"]
        BY <2>2, <2>3, <3>1 DEF Kind
      <4>2. lastOut["video"] # NoTime => out = lastOut["video"] + VideoPeriod
        BY <1>3, <3>1, FrameTime
      <4>3. lastOut["audio"] # NoTime =>
               lastOut["video"] # NoTime /\ lastOut["audio"] < lastOut["video"] + VideoPeriod
        BY <2>1 DEF AudioClose
      <4>4. QED
        BY <2>1, <2>2, <4>1, <4>2, <4>3 DEF AudioClose
    <3>2. CASE e.stream # Video
      <4>1. lastOut'["video"] = lastOut["video"] /\ lastOut'["audio"] = out
        BY <2>2, <2>3, <3>2 DEF Kind
      <4>2. lastOut["video"] \in Int /\ out < lastOut["video"] + VideoPeriod
        BY <1>3, <3>2, AudioTime
      <4>3. QED
        BY <2>2, <4>1, <4>2 DEF AudioClose
    <3>3. QED
      BY <3>1, <3>2
  <2>4. QED
    BY <1>2, <2>1, <2>3
<1>4. CASE Reset
  <2>1. lastOut'["audio"] = NoTime
    BY <1>4 DEF Reset, Kinds
  <2>2. QED
    BY <2>1 DEF AudioClose
<1>5. CASE Spawn
  BY <1>5 DEF Spawn, FreshOut, AudioClose
<1>6. CASE PacerLoop \/ PacerWake \/ EndPass \/ PacerSend
  BY <1>2, <1>6 DEF PacerLoop, PacerWake, EndPass, PacerSend
<1>7. CASE BeginStop \/ (\E d \in Requests : BeginStart(d)) \/ Join \/ Release
  BY <1>2, <1>7 DEF BeginStop, BeginStart, Join, Release
<1>8. CASE (\E s \in Streams : Push(s)) \/ (\E d \in Requests : SetDelay(d))
  BY <1>2, <1>8 DEF Push, SetDelay
<1>9. CASE BeginCapture \/ EndCapture \/ Tick \/ UNCHANGED vars
  BY <1>2, <1>9 DEF BeginCapture, EndCapture, Tick, vars
<1>10. QED
  BY <1>3, <1>4, <1>5, <1>6, <1>7, <1>8, <1>9 DEF Next, Pacer, Controller

\* The order of what is released, from the first state on and through every step.
LEMMA InitOrder == Init => OrderInv
<1> SUFFICES ASSUME Init PROVE OrderInv
  OBVIOUS
<1>1. FrameInv
  BY InitFrame
<1>2. DtsSorted /\ FrameFirst /\ FramePassed
  BY DEF Init, DtsSorted, FrameFirst, FramePassed, PacerAlive
<1>3. FreshOut /\ AudioClose
  BY DEF Init, FreshOut, AudioClose, PacerAlive
<1>4. QED
  BY <1>1, <1>2, <1>3 DEF OrderInv

LEMMA StepOrder == OrderInv /\ [Next]_vars => OrderInv'
<1> SUFFICES ASSUME OrderInv, [Next]_vars PROVE OrderInv'
  OBVIOUS
<1>1. TypeOK /\ FreshStart
  BY DEF OrderInv, FrameInv, SafeInv
<1>2. FrameInv'
  BY StepFrame DEF OrderInv
<1>3. DtsSorted' /\ FrameFirst' /\ FramePassed'
  BY <1>1, StepDtsSorted, StepFrameFirst, StepFramePassed DEF OrderInv
<1>4. FreshOut' /\ AudioClose'
  BY <1>1, StepFreshOut, StepAudioClose DEF OrderInv
<1>5. QED
  BY <1>2, <1>3, <1>4 DEF OrderInv

LEMMA OrderInvariant == Spec => []OrderInv
  BY InitOrder, StepOrder, PTL DEF Spec

\* The muxer has written no time that the clocks of the buffer do not know.
LEMMA StepMuxedLast ==
    ASSUME ExactTimebase, TypeOK, FreshOut, MuxedLast, [Next]_vars
    PROVE  MuxedLast'
<1> USE DEF outVars, pacerVars, PacerAlive
<1>1. ASSUME UNCHANGED <<lastOut, muxed>>, PacerAlive' => PacerAlive
      PROVE  MuxedLast'
  BY <1>1 DEF MuxedLast
<1>2. CASE ReleaseNext
  <2> DEFINE e == entries[cursor + 1]
             s == e.stream
             out == e.dts + OutOffset(e)
  <2>1. /\ pacer = "pass" /\ pacer' = "pass" /\ s \in Streams /\ out \in Int
        /\ \/ UNCHANGED <<lastOut, muxed>>
           \/ /\ lastOut[Kind(s)] # NoTime => lastOut[Kind(s)] < out
              /\ lastOut' = [lastOut EXCEPT ![Kind(s)] = out]
              /\ muxed' = [muxed EXCEPT ![s] = MuxTime(s, e.dts, OutOffset(e))]
    BY <1>2, TimesReleased DEF ReleaseNext
  <2>2. MuxTime(s, e.dts, OutOffset(e)) = out
    <3>1. cursor + 1 \in DOMAIN entries /\ e.dts \in Nat
      BY <1>2, EntryTypes DEF ReleaseNext, CanRelease, TypeOK
    <3>2. OutOffset(e) \in Int
      <4>1. lastOut["video"] \in Int \cup {NoTime} /\ frame \in Nat /\ offset \in Int
        BY DEF TypeOK, Kinds, Times
      <4>2. QED
        BY <3>1, <4>1 DEF OutOffset, ResyncOffset
    <3>3. QED
      BY <2>1, <3>1, <3>2, ExactMuxTime
  <2>3. /\ DOMAIN lastOut = Kinds /\ DOMAIN muxed = Streams /\ NoTime \notin Int
        /\ \A t \in Streams : /\ Kind(t) \in Kinds
                              /\ muxed[t] \in Int \cup {NoTime}
                              /\ lastOut[Kind(t)] \in Int \cup {NoTime}
    BY ConstantTypes DEF TypeOK, Times
  <2>4. \A t \in Streams :
           muxed[t] # NoTime => lastOut[Kind(t)] # NoTime /\ muxed[t] <= lastOut[Kind(t)]
    BY <2>1 DEF MuxedLast
  <2> HIDE DEF out, s
  <2>5. ASSUME lastOut[Kind(s)] # NoTime => lastOut[Kind(s)] < out,
               lastOut' = [lastOut EXCEPT ![Kind(s)] = out],
               muxed' = [muxed EXCEPT ![s] = out],
               NEW t \in Streams, muxed'[t] # NoTime
        PROVE  lastOut'[Kind(t)] # NoTime /\ muxed'[t] <= lastOut'[Kind(t)]
    <3>1. CASE t = s
      BY <2>1, <2>3, <2>5, <3>1
    <3>2. CASE t # s /\ Kind(t) = Kind(s)
      BY <2>1, <2>3, <2>4, <2>5, <3>2
    <3>3. CASE Kind(t) # Kind(s)
      BY <2>1, <2>3, <2>4, <2>5, <3>3
    <3>4. QED
      BY <3>1, <3>2, <3>3
  <2>6. QED
    BY <1>1, <2>1, <2>2, <2>5 DEF MuxedLast
<1>3. CASE Reset
  BY <1>3 DEF Reset, MuxedLast
<1>4. CASE Spawn
  BY <1>4 DEF Spawn, FreshOut, MuxedLast
<1>5. CASE PacerLoop \/ PacerWake \/ EndPass \/ PacerSend
  BY <1>1, <1>5 DEF PacerLoop, PacerWake, EndPass, PacerSend
<1>6. CASE BeginStop \/ (\E d \in Requests : BeginStart(d)) \/ Join \/ Release
  BY <1>1, <1>6 DEF BeginStop, BeginStart, Join, Release
<1>7. CASE (\E s \in Streams : Push(s)) \/ (\E d \in Requests : SetDelay(d))
  BY <1>1, <1>7 DEF Push, SetDelay
<1>8. CASE BeginCapture \/ EndCapture \/ Tick \/ UNCHANGED vars
  BY <1>1, <1>8 DEF BeginCapture, EndCapture, Tick, vars
<1>9. QED
  BY <1>2, <1>3, <1>4, <1>5, <1>6, <1>7, <1>8 DEF Next, Pacer, Controller

\* "Rewrites timestamps so they keep increasing" (delay-buffer.h, line 25): with a
\* numerator of 1, through every sequence of changes of the delay, a packet comes
\* after the last one of its track and not before the last one of any other.
THEOREM MuxTimesAlwaysIncrease == ASSUME ExactTimebase PROVE Spec => MuxTimesIncrease
<1> DEFINE A == Released => LET s == entries[cursor'].stream
                            IN  \A t \in Streams :
                                    \/ muxed[t] = NoTime
                                    \/ muxed'[s] > muxed[t]
                                    \/ t # s /\ muxed'[s] = muxed[t]
<1>1. Init => MuxInv
  BY InitOrder DEF Init, MuxInv, MuxedLast, PacerAlive
<1>2. MuxInv /\ [Next]_vars => MuxInv'
  <2> SUFFICES ASSUME MuxInv, [Next]_vars PROVE MuxInv'
    OBVIOUS
  <2>1. OrderInv' /\ MuxedLast'
    BY StepOrder, StepMuxedLast DEF MuxInv, OrderInv, FrameInv, SafeInv
  <2>2. QED
    BY <2>1 DEF MuxInv
<1>3. MuxInv /\ [Next]_vars => [A]_vars
  <2> SUFFICES ASSUME MuxInv, [Next]_vars, Released,
                      NEW t \in Streams, muxed[t] # NoTime
               PROVE  \/ muxed'[entries[cursor'].stream] > muxed[t]
                      \/ t # entries[cursor'].stream /\ muxed'[entries[cursor'].stream] = muxed[t]
    OBVIOUS
  <2> DEFINE e == entries[cursor + 1]
             s == e.stream
             out == e.dts + OutOffset(e)
  <2>1. TypeOK /\ FrameInv /\ DtsSorted /\ FrameFirst /\ FramePassed
    BY DEF MuxInv, OrderInv, FrameInv, SafeInv
  <2>2. ReleaseNext
    BY <2>1, ReleaseStep
  <2>3. cursor' = cursor + 1 /\ PacerAlive
    BY <2>2 DEF ReleaseNext, PacerAlive
  <2>4. /\ s \in Streams /\ out \in Int
        /\ lastOut[Kind(s)] # NoTime => lastOut[Kind(s)] < out
        /\ muxed' = [muxed EXCEPT ![s] = MuxTime(s, e.dts, OutOffset(e))]
    <3>1. batch' # batch
      <4>1. Len(batch) \in Nat
        BY <2>1 DEF TypeOK
      <4>2. QED
        BY <4>1 DEF Released
    <3>2. QED
      BY <2>1, <2>2, <3>1, TimesReleased
  <2>5. MuxTime(s, e.dts, OutOffset(e)) = out
    <3>1. cursor + 1 \in DOMAIN entries /\ e.dts \in Nat
      BY <2>1, <2>2, EntryTypes DEF ReleaseNext, CanRelease, TypeOK
    <3>2. OutOffset(e) \in Int
      <4>1. lastOut["video"] \in Int \cup {NoTime} /\ frame \in Nat /\ offset \in Int
        BY <2>1 DEF TypeOK, Kinds, Times
      <4>2. QED
        BY <3>1, <4>1 DEF OutOffset, ResyncOffset
    <3>3. QED
      BY <2>4, <3>1, <3>2, ExactMuxTime
  <2>6. muxed'[s] = out
    BY <2>1, <2>4, <2>5 DEF TypeOK
  <2>7. /\ muxed[t] \in Int /\ lastOut[Kind(t)] \in Int /\ lastOut[Kind(t)] # NoTime
        /\ muxed[t] <= lastOut[Kind(t)]
    <3>1. lastOut[Kind(t)] # NoTime /\ muxed[t] <= lastOut[Kind(t)]
      BY <2>3 DEF MuxInv, MuxedLast
    <3>2. Kind(t) \in Kinds
      BY ConstantTypes
    <3>3. QED
      BY <2>1, <3>1, <3>2 DEF TypeOK, Times
  <2>8. CASE Kind(t) = Kind(s)
    BY <2>3, <2>4, <2>6, <2>7, <2>8
  <2>9. CASE Kind(t) # Kind(s) /\ s = Video
    <3>1. Kind(t) = "audio" /\ t # s
      BY <2>9 DEF Kind
    <3>2. lastOut["video"] # NoTime /\ lastOut["audio"] < lastOut["video"] + VideoPeriod
      BY <2>3, <2>7, <3>1 DEF MuxInv, OrderInv, AudioClose
    <3>3. out = lastOut["video"] + VideoPeriod
      BY <2>1, <2>2, <2>9, <3>2, FrameTime
    <3>4. muxed[t] <= out
      BY <2>4, <2>7, <3>1, <3>2, <3>3
    <3>5. QED
      BY <2>3, <2>4, <2>6, <2>7, <3>1, <3>4
  <2>10. CASE Kind(t) # Kind(s) /\ s # Video
    <3>1. Kind(t) = "video" /\ t # s
      BY <2>10 DEF Kind
    <3>2. lastOut["video"] <= out
      BY <2>1, <2>2, <2>10, AudioTime
    <3>3. muxed[t] <= out
      BY <2>4, <2>7, <3>1, <3>2
    <3>4. QED
      BY <2>3, <2>4, <2>6, <2>7, <3>1, <3>3
  <2>11. QED
    BY <2>8, <2>9, <2>10
<1>4. QED
  BY <1>1, <1>2, <1>3, PTL DEF Spec, MuxTimesIncrease

--------------------------------------------------------------------------------
(***************************************************************************)
(* A lower that waits.  When the pacer takes the mutex it jumps to the     *)
(* first keyframe behind the target, if there is one.  So while a pass is  *)
(* releasing and pruning and the lower still waits, there is none, and no  *)
(* turn of the release loop can pass it.                                   *)
(***************************************************************************)

\* The keyframes a waiting lower may jump to.
Ahead == {k \in Keyframes : k > cursor /\ entries[k].arrival >= pendingTarget}

PassNotAhead == pacer = "pass" /\ pending => Ahead = {}

AheadInv == SafeInv /\ PassNotAhead

LEMMA AheadSkips ==
    ASSUME TypeOK
    PROVE  SkipPoint(pendingTarget) # {} <=> Ahead # {}
<1>1. SkipPoint(pendingTarget) = EarliestOf(Ahead)
  BY DEF SkipPoint, Ahead
<1>2. Ahead \subseteq Nat
  BY KeyframeTypes DEF Ahead
<1>3. Ahead # {} => EarliestOf(Ahead) # {}
  BY <1>2, EarliestExists
<1>4. Ahead = {} => EarliestOf(Ahead) = {}
  BY DEF EarliestOf
<1>5. QED
  BY <1>1, <1>3, <1>4

\* With the timeline and the target as they were, so is the place to jump to.
LEMMA SameAhead ==
    ASSUME UNCHANGED <<timelineVars, pendingTarget>>
    PROVE  Ahead' = Ahead /\ SkipPoint(pendingTarget)' = SkipPoint(pendingTarget)
<1>1. UNCHANGED <<entries, cursor, pendingTarget>>
  BY DEF timelineVars
<1>2. Keyframes' = Keyframes
  BY <1>1 DEF Keyframes, IsKeyframe
<1>3. QED
  BY <1>1, <1>2 DEF Ahead, SkipPoint, EarliestOf

LEMMA StepPassNotAhead ==
    ASSUME TypeOK, FreshStart, PassNotAhead, [Next]_vars
    PROVE  PassNotAhead'
<1> SUFFICES ASSUME pacer' = "pass", pending'
             PROVE  Ahead' = {}
  BY DEF PassNotAhead
<1>1. ASSUME UNCHANGED <<entries, cursor, pacer, pending, pendingTarget>>
      PROVE  Ahead' = {}
  BY <1>1, SameAhead DEF PassNotAhead, timelineVars
<1>2. CASE PacerWake
  <2>1. ~(pending /\ SkipPoint(pendingTarget) # {})
    BY <1>2 DEF PacerWake, TryPendingSkip
  <2>2. StayPut /\ UNCHANGED <<pending, entries, pendingTarget>>
    BY <1>2, <2>1 DEF PacerWake, TryPendingSkip
  <2>3. UNCHANGED <<timelineVars, pendingTarget>> /\ SkipPoint(pendingTarget) = {}
    BY <2>1, <2>2 DEF StayPut, timelineVars
  <2>4. QED
    BY <2>3, AheadSkips, SameAhead
<1>3. CASE ReleaseNext
  <2>1. UNCHANGED <<entries, pending, pendingTarget, pacer>> /\ cursor' = cursor + 1
    BY <1>3 DEF ReleaseNext, pacingVars
  <2>2. Keyframes' = Keyframes /\ Ahead = {}
    BY <2>1 DEF Keyframes, IsKeyframe, PassNotAhead
  <2>3. \A k \in Keyframes : k > cursor + 1 => k > cursor
    BY KeyframeTypes DEF TypeOK
  <2>4. QED
    BY <2>1, <2>2, <2>3 DEF Ahead
<1>4. CASE PacerLoop \/ EndPass \/ Join \/ Spawn
  BY <1>4 DEF PacerLoop, EndPass, Join, Spawn, FreshStart
<1>5. CASE Release \/ Reset
  <2>1. UNCHANGED pacer /\ ctl \in {"release", "reset"}
    BY <1>5 DEF Release, Reset, pacerVars
  <2>2. QED
    BY <2>1 DEF FreshStart
<1>6. CASE (\E s \in Streams : Push(s)) \/ (\E d \in Requests : SetDelay(d))
  BY <1>6 DEF Push, SetDelay, Unlocked, pacerVars
<1>7. CASE PacerSend \/ BeginStop \/ (\E d \in Requests : BeginStart(d))
  <2>1. UNCHANGED <<entries, cursor, pacer, pending, pendingTarget>>
    BY <1>7 DEF PacerSend, BeginStop, BeginStart, timelineVars, pacingVars, pacerVars
  <2>2. QED
    BY <1>1, <2>1
<1>8. CASE BeginCapture \/ EndCapture \/ Tick \/ UNCHANGED vars
  <2>1. UNCHANGED <<entries, cursor, pacer, pending, pendingTarget>>
    BY <1>8 DEF BeginCapture, EndCapture, Tick, vars, timelineVars, pacingVars, pacerVars
  <2>2. QED
    BY <1>1, <2>1
<1>9. QED
  BY <1>2, <1>3, <1>4, <1>5, <1>6, <1>7, <1>8 DEF Next, Pacer, Controller

LEMMA AheadInvariant == Spec => []AheadInv
<1>1. Init => AheadInv
  BY InitSafe DEF AheadInv, PassNotAhead, Init
<1>2. AheadInv /\ [Next]_vars => AheadInv'
  BY StepSafe, StepPassNotAhead DEF AheadInv, SafeInv
<1>3. QED
  BY <1>1, <1>2, PTL DEF Spec

\* What the encoders push leaves a keyframe that is ahead where it is.
LEMMA PushAhead ==
    ASSUME TypeOK, NEW s \in Streams, Push(s), Ahead # {}
    PROVE  SkipPoint(pendingTarget)' # {}
<1>1. PICK e \in Entry : entries' = Append(entries, e)
  BY PushAppends
<1>2. UNCHANGED <<cursor, pendingTarget>>
  BY DEF Push, pacingVars
<1>3. entries \in Seq(Entry) /\ entries' \in Seq(Entry) /\ Len(entries') = Len(entries) + 1
      /\ \A k \in 1 .. Len(entries) : entries'[k] = entries[k]
  BY <1>1, AppendProperties DEF TypeOK
<1>4. Keyframes \subseteq Keyframes' /\ \A k \in Keyframes : entries'[k] = entries[k]
  <2>1. Len(entries) \in Nat /\ DOMAIN entries = 1 .. Len(entries)
        /\ DOMAIN entries' = 1 .. Len(entries) + 1
    BY <1>3, EntryTypes
  <2>2. QED
    BY <1>3, <2>1 DEF Keyframes, IsKeyframe
<1>5. Ahead' # {}
  BY <1>2, <1>4 DEF Ahead
<1>6. Keyframes' \subseteq Nat
  BY <1>3 DEF Keyframes
<1>7. Ahead' \subseteq Nat
  BY <1>6 DEF Ahead
<1>8. EarliestOf(Ahead') # {}
  BY <1>5, <1>7, EarliestExists
<1>9. SkipPoint(pendingTarget)' = EarliestOf(Ahead')
  BY DEF SkipPoint, Ahead, EarliestOf
<1>10. QED
  BY <1>8, <1>9

\* The jump of a pass leads to the first keyframe ahead, whatever it is.
LEMMA SkipReaches ==
    ASSUME TypeOK, NEW t, SkipPoint(t) # {}, SkipTo(SkipPoint(t))
    PROVE  cursor' + 1 \in SkipPoint(t)
<1>1. \A k \in SkipPoint(t) : k \in Nat /\ k > cursor
  BY JumpTargets, KeyframeTypes
<1>2. cursor \in Nat
  BY DEF TypeOK
<1>3. CASE StayPut /\ \A k \in SkipPoint(t) : k <= cursor + 1
  <2>1. \A k \in SkipPoint(t) : k = cursor' + 1
    BY <1>1, <1>2, <1>3 DEF StayPut
  <2>2. QED
    BY <2>1
<1>4. CASE \E k \in SkipPoint(t) : JumpTo(k)
  <2>1. PICK k \in SkipPoint(t) : JumpTo(k)
    BY <1>4
  <2>2. cursor' + 1 = k
    BY <1>1, <2>1 DEF JumpTo
  <2>3. QED
    BY <2>2
<1>5. QED
  BY <1>3, <1>4 DEF SkipTo

\* "keep the old pace until one arrives": the keyframe that a waiting lower needs
\* is never passed, pruned or overlooked, and the wait ends in front of it.
THEOREM LowersNotMissed == Spec => LowerNotMissed
<1> DEFINE A == ctl = "idle" /\ requests' = requests /\ pending /\ SkipPoint(pendingTarget) # {}
                => IF pending' THEN SkipPoint(pendingTarget)' # {}
                   ELSE cursor' + 1 \in SkipPoint(pendingTarget)
<1>1. AheadInv /\ [Next]_vars => [A]_vars
  <2> SUFFICES ASSUME AheadInv, [Next]_vars, ctl = "idle", requests' = requests, pending,
                      SkipPoint(pendingTarget) # {}
               PROVE  IF pending' THEN SkipPoint(pendingTarget)' # {}
                      ELSE cursor' + 1 \in SkipPoint(pendingTarget)
    OBVIOUS
  <2>1. TypeOK /\ PassNotAhead /\ Ahead # {} /\ requests \in Nat
    BY AheadSkips DEF AheadInv, SafeInv, TypeOK
  <2>2. pacer # "pass"
    BY <2>1 DEF PassNotAhead
  <2>3. ASSUME UNCHANGED <<timelineVars, pending, pendingTarget>>
        PROVE  pending' /\ SkipPoint(pendingTarget)' # {}
    BY <2>3, SameAhead
  <2>4. ASSUME NEW s \in Streams, Push(s)
        PROVE  pending' /\ SkipPoint(pendingTarget)' # {}
    BY <2>1, <2>4, PushAhead DEF Push, pacingVars
  <2>5. CASE PacerWake
    <3>1. SkipTo(SkipPoint(pendingTarget)) /\ ~pending'
      BY <2>5 DEF PacerWake, TryPendingSkip
    <3>2. QED
      BY <2>1, <3>1, SkipReaches
  <2>6. CASE \E d \in Requests : SetDelay(d)
    BY <2>1, <2>6 DEF SetDelay
  <2>7. CASE ReleaseNext \/ EndPass
    BY <2>2, <2>7 DEF ReleaseNext, EndPass
  <2>8. CASE Join \/ Release \/ Reset \/ Spawn
    BY <2>8 DEF Join, Release, Reset, Spawn
  <2>9. CASE PacerLoop \/ PacerSend \/ BeginStop \/ (\E d \in Requests : BeginStart(d))
    <3>1. UNCHANGED <<timelineVars, pending, pendingTarget>>
      BY <2>9 DEF PacerLoop, PacerSend, BeginStop, BeginStart, pacingVars
    <3>2. QED
      BY <2>3, <3>1
  <2>10. CASE BeginCapture \/ EndCapture \/ Tick \/ UNCHANGED vars
    <3>1. UNCHANGED <<timelineVars, pending, pendingTarget>>
      BY <2>10 DEF BeginCapture, EndCapture, Tick, vars, pacingVars
    <3>2. QED
      BY <2>3, <3>1
  <2>11. QED
    BY <2>4, <2>5, <2>6, <2>7, <2>8, <2>9, <2>10 DEF Next, Pacer, Controller
<1>2. QED
  BY AheadInvariant, <1>1, PTL DEF Spec, LowerNotMissed

--------------------------------------------------------------------------------
(***************************************************************************)
(* The buffer is a delay line.  The history knows where the timeline lies  *)
(* in the feed of the session; the invariant says what is between the last *)
(* packet released and the cursor.                                         *)
(***************************************************************************)

allVars == <<vars, feedVars>>

FeedTypes == fed \in Seq(Entry) /\ shown \in 0 .. Len(fed)

\* The timeline is what pruning has left of the feed.
TimelineIsTail ==
    /\ Len(entries) <= Len(fed)
    /\ \A k \in DOMAIN entries : fed[Freed + k] = entries[k]

\* The packets of a track come at different times.
FeedSorted ==
    /\ \A i, j \in DOMAIN fed : i < j =>
           /\ fed[i].dts <= fed[j].dts
           /\ fed[i].stream = fed[j].stream => fed[i].dts < fed[j].dts
    /\ \A i \in DOMAIN fed, s \in Streams :
           /\ fed[i].dts <= due[s]
           /\ fed[i].stream = s => fed[i].dts < due[s]

\* A session begins without a feed.
FeedFresh == capture = "off" \/ ctl = "spawn" => fed = <<>> /\ shown = 0

FrameShown == lastFrame # NoTime => shown # 0

\* Where the cursor stands in the feed.
Place == Freed + cursor

\* The last audio is older than the last frame, or in front of the cursor.
AudioHeard ==
    PacerAlive /\ ~resync /\ lastOut["audio"] # NoTime =>
        \/ lastOut["audio"] < lastOut["video"]
        \/ \E i \in 1 .. Place :
              fed[i].stream # Video /\ fed[i].dts + offset = lastOut["audio"]

\* Between the last packet released and the cursor are only those left out.
ShownBehind ==
    PacerAlive /\ ~resync =>
        shown <= Place /\ \A j \in shown + 1 .. Place : Line!LeftOut(j)

TailInv == FeedTypes /\ TimelineIsTail

FeedInv ==
    /\ OrderInv /\ TailInv /\ FeedSorted
    /\ FeedFresh /\ FrameShown /\ AudioHeard /\ ShownBehind

\* Steps at which the place of the timeline in the feed is at rest.
Rest ==
    /\ UNCHANGED <<entries, cursor, due, fed, shown>>
    /\ UNCHANGED <<lastOut, offset, lastFrame>>

\* What the steps do to the timeline and its feed.
LEMMA FeedSteps ==
    ASSUME [FeedNext]_allVars
    PROVE  \/ \E s \in Streams : FeedPush(s)
           \/ FeedRelease
           \/ FeedReset
           \/ EndPass /\ UNCHANGED feedVars
           \/ Release /\ UNCHANGED feedVars
           \/ Spawn /\ UNCHANGED feedVars
           \/ BeginCapture /\ UNCHANGED feedVars
           \/ (PacerWake \/ \E d \in Requests : SetDelay(d)) /\ UNCHANGED feedVars
           \/ /\ Rest /\ UNCHANGED resync
              /\ PacerAlive' => PacerAlive
              /\ capture' = "off" => capture = "off"
              /\ ctl' = "spawn" => ctl = "spawn"
<1> USE DEF Rest, feedVars, timelineVars, pacerVars, outVars, ctlVars, sourceVars, PacerAlive
<1>1. CASE (PacerLoop \/ PacerSend) /\ UNCHANGED feedVars
  BY <1>1 DEF PacerLoop, PacerSend
<1>2. CASE (BeginStop \/ \E d \in Requests : BeginStart(d)) /\ UNCHANGED feedVars
  BY <1>2 DEF BeginStop, BeginStart
<1>3. CASE Join /\ UNCHANGED feedVars
  BY <1>3 DEF Join
<1>4. CASE (EndCapture \/ Tick) /\ UNCHANGED feedVars
  BY <1>4 DEF EndCapture, Tick
<1>5. CASE UNCHANGED allVars
  BY <1>5 DEF allVars, vars
<1>6. QED
  BY <1>1, <1>2, <1>3, <1>4, <1>5 DEF FeedNext, FeedUnchanged

\* The history adds nothing to what the buffer does.
LEMMA FeedStep == [FeedNext]_allVars => [Next]_vars
<1>1. CASE UNCHANGED allVars
  BY <1>1 DEF allVars
<1>2. CASE (\E s \in Streams : FeedPush(s)) \/ FeedRelease \/ FeedReset
  BY <1>2 DEF FeedPush, FeedRelease, FeedReset, Next, Pacer, Controller
<1>3. CASE FeedUnchanged
  BY <1>3 DEF FeedUnchanged, Next, Pacer, Controller
<1>4. QED
  BY <1>1, <1>2, <1>3 DEF FeedNext

LEMMA FeedIsBuffer == FeedSpec => Spec
  BY FeedStep, PTL DEF FeedSpec, FeedInit, Spec, allVars

\* The timeline in the feed, position by position.
LEMMA TailTypes ==
    ASSUME TypeOK, TailInv
    PROVE  /\ Len(fed) \in Nat /\ DOMAIN fed = 1 .. Len(fed)
           /\ \A k \in DOMAIN fed : /\ fed[k] \in Entry
                                    /\ fed[k].stream \in Streams
                                    /\ fed[k].dts \in Nat
           /\ Freed \in Nat /\ Place \in Nat /\ Place <= Len(fed) /\ shown \in Nat
           /\ Place - cursor = Freed
<1>1. fed \in Seq(Entry) /\ shown \in 0 .. Len(fed) /\ Len(entries) <= Len(fed)
  BY DEF TailInv, FeedTypes, TimelineIsTail
<1>2. Len(entries) \in Nat /\ cursor \in 0 .. Len(entries)
  BY DEF TypeOK
<1>3. /\ Len(fed) \in Nat /\ DOMAIN fed = 1 .. Len(fed)
      /\ \A k \in DOMAIN fed : fed[k] \in Entry
  BY <1>1
<1>4. Freed \in Nat /\ Place \in Nat /\ Place <= Len(fed) /\ shown \in Nat /\ Place - cursor = Freed
  BY <1>1, <1>2, <1>3 DEF Freed, Place
<1>5. QED
  BY <1>3, <1>4 DEF Entry

\* swd_push adds the same packet to the timeline and to the feed.
LEMMA FeedPushed ==
    ASSUME TypeOK, TailInv, NEW s \in Streams, FeedPush(s)
    PROVE  \E e \in Entry :
             /\ e.stream = s /\ e.dts = due[s] /\ e.arrival = now
             /\ fed' = Append(fed, e)
             /\ Len(fed') = Len(fed) + 1
             /\ \A k \in 1 .. Len(fed) : fed'[k] = fed[k]
             /\ fed'[Len(fed) + 1] = e
             /\ Len(entries') = Len(entries) + 1
             /\ \A k \in 1 .. Len(entries) : entries'[k] = entries[k]
             /\ entries'[Len(entries) + 1] = e
             /\ Freed' = Freed /\ Place' = Place
<1>1. Push(s) /\ fed' = Append(fed, entries'[Len(entries')]) /\ cursor' = cursor
  BY DEF FeedPush, Push
<1>2. PICK e \in Entry : /\ entries' = Append(entries, e)
                         /\ e.arrival = now /\ e.stream = s /\ e.dts = due[s]
  BY <1>1, PushAppends
<1>3. entries \in Seq(Entry) /\ fed \in Seq(Entry) /\ Len(entries) \in Nat /\ Len(fed) \in Nat
  BY DEF TypeOK, TailInv, FeedTypes
<1>4. /\ Len(entries') = Len(entries) + 1
      /\ \A k \in 1 .. Len(entries) : entries'[k] = entries[k]
      /\ entries'[Len(entries) + 1] = e
  BY <1>2, <1>3, AppendProperties
<1>5. fed' = Append(fed, e)
  BY <1>1, <1>4
<1>6. /\ Len(fed') = Len(fed) + 1
      /\ \A k \in 1 .. Len(fed) : fed'[k] = fed[k]
      /\ fed'[Len(fed) + 1] = e
  BY <1>3, <1>5, AppendProperties
<1>7. Freed' = Freed /\ Place' = Place
  BY <1>1, <1>3, <1>4, <1>6 DEF Freed, Place
<1>8. QED
  BY <1>2, <1>4, <1>5, <1>6, <1>7

\* A turn of the release loop, in the feed.
LEMMA FeedReleased ==
    ASSUME TypeOK, TailInv, FeedRelease
    PROVE  LET e == entries[cursor + 1]
           IN  /\ ReleaseNext /\ PacerAlive /\ entries # <<>>
               /\ Place + 1 \in DOMAIN fed /\ fed[Place + 1] = e
               /\ e \in Entry /\ e.dts \in Nat /\ e.stream \in Streams
               /\ Place' = Place + 1 /\ fed' = fed /\ entries' = entries
               /\ offset' = OutOffset(e) /\ resync' = FALSE /\ due' = due
               /\ \/ GoesBackwards(e) /\ UNCHANGED <<lastOut, lastFrame, shown>>
                  \/ /\ ~GoesBackwards(e)
                     /\ lastOut' = [lastOut EXCEPT ![Kind(e.stream)] = e.dts + OutOffset(e)]
                     /\ lastFrame' = IF e.stream = Video THEN e.dts ELSE lastFrame
                     /\ shown' = Place + 1
<1> DEFINE e == entries[cursor + 1]
<1>1. /\ ReleaseNext /\ fed' = fed /\ entries' = entries /\ cursor' = cursor + 1
      /\ pacer = "pass" /\ cursor < Len(entries) /\ resync' = FALSE /\ offset' = OutOffset(e)
      /\ shown' = IF Len(batch') > Len(batch) THEN Freed + cursor' ELSE shown
  BY DEF FeedRelease, ReleaseNext, CanRelease
<1>2. due' = due
  BY <1>1 DEF ReleaseNext, sourceVars
<1>3. /\ Len(entries) \in Nat /\ DOMAIN entries = 1 .. Len(entries)
      /\ cursor \in Nat /\ cursor + 1 \in DOMAIN entries
  BY <1>1, EntryTypes DEF TypeOK
<1>4. e \in Entry /\ e.dts \in Nat /\ e.stream \in Streams
  BY <1>3, EntryTypes
<1>5. fed[Freed + (cursor + 1)] = e
  BY <1>3 DEF TailInv, TimelineIsTail
<1>6. Freed \in Nat /\ Freed = Len(fed) - Len(entries) /\ Len(fed) \in Nat
      /\ DOMAIN fed = 1 .. Len(fed)
  BY TailTypes DEF Freed
<1>7. Place' = Place + 1 /\ Freed + (cursor + 1) = Place + 1 /\ Freed + cursor' = Place + 1
  BY <1>1, <1>3, <1>6 DEF Place, Freed
<1>8. Place + 1 \in DOMAIN fed
  BY <1>1, <1>3, <1>6, <1>7
<1>9. CASE GoesBackwards(e)
  <2>1. UNCHANGED <<lastOut, lastFrame, batch>>
    BY <1>1, <1>9 DEF ReleaseNext
  <2>2. shown' = shown
    <3>1. Len(batch) \in Nat
      BY DEF TypeOK
    <3>2. QED
      BY <1>1, <2>1, <3>1
  <2>3. QED
    BY <1>1, <1>2, <1>3, <1>4, <1>5, <1>7, <1>8, <1>9, <2>1, <2>2 DEF PacerAlive
<1>10. CASE ~GoesBackwards(e)
  <2>1. /\ lastOut' = [lastOut EXCEPT ![Kind(e.stream)] = e.dts + OutOffset(e)]
        /\ lastFrame' = IF e.stream = Video THEN e.dts ELSE lastFrame
        /\ batch' = Append(batch, [stream |-> e.stream, dts |-> e.dts,
                                   usec |-> e.dts + OutOffset(e), arrival |-> e.arrival])
    BY <1>1, <1>10 DEF ReleaseNext
  <2>2. Len(batch') > Len(batch)
    <3>1. batch \in Seq(OutPacket) /\ Len(batch) \in Nat
      BY DEF TypeOK
    <3>2. Len(batch') = Len(batch) + 1
      BY <2>1, <3>1
    <3>3. QED
      BY <3>1, <3>2
  <2>3. shown' = Place + 1
    BY <1>1, <1>7, <2>2
  <2>4. QED
    BY <1>1, <1>2, <1>3, <1>4, <1>5, <1>7, <1>8, <1>10, <2>1, <2>3 DEF PacerAlive
<1>11. QED
  BY <1>9, <1>10

\* Pruning moves the timeline in the feed, and neither the feed nor the cursor in it.
LEMMA FeedPruned ==
    ASSUME TypeOK, TailInv, EndPass, UNCHANGED feedVars
    PROVE  /\ fed' = fed /\ shown' = shown
           /\ Len(entries') <= Len(fed')
           /\ \A k \in DOMAIN entries' : fed'[Freed' + k] = entries'[k]
           /\ Place' = Place
<1>1. fed' = fed /\ shown' = shown
  BY DEF feedVars
<1>2. PICK n \in PruneCount : /\ entries' = SubSeq(entries, n + 1, Len(entries))
                              /\ cursor' = cursor - n
  BY DEF EndPass
<1>3. /\ n \in 0 .. cursor
      /\ entries' \in Seq(Entry)
      /\ Len(entries') = Len(entries) - n
      /\ \A k \in 1 .. Len(entries) - n : entries'[k] = entries[k + n]
  BY <1>2, PruneTypes
<1>4. /\ n \in Nat /\ Len(entries) \in Nat /\ cursor \in Nat /\ DOMAIN entries = 1 .. Len(entries)
      /\ Len(fed) \in Nat /\ Len(entries) <= Len(fed)
  BY <1>3, EntryTypes, TailTypes DEF TypeOK, TailInv, TimelineIsTail
<1>5. DOMAIN entries' = 1 .. Len(entries) - n
  BY <1>3
<1>6. Freed' = Freed + n /\ Freed \in Nat
  BY <1>1, <1>3, <1>4 DEF Freed
<1>7. ASSUME NEW k \in DOMAIN entries'
      PROVE  fed'[Freed' + k] = entries'[k]
  <2>1. k \in 1 .. Len(entries) - n /\ k + n \in DOMAIN entries
    BY <1>4, <1>5, <1>7
  <2>2. fed[Freed + (k + n)] = entries[k + n]
    BY <2>1 DEF TailInv, TimelineIsTail
  <2>3. Freed' + k = Freed + (k + n)
    BY <1>4, <1>6, <2>1
  <2>4. QED
    BY <1>1, <1>3, <2>1, <2>2, <2>3
<1>8. Len(entries') <= Len(fed')
  <2>1. n >= 0 /\ fed' = fed
    BY <1>1, <1>4
  <2>2. QED
    BY <1>3, <1>4, <2>1
<1>9. Place' = Place
  <2>1. Place' = Freed' + cursor'
    BY DEF Place
  <2>2. Freed' + cursor' = (Freed + n) + (cursor - n)
    BY <1>2, <1>6
  <2>3. (Freed + n) + (cursor - n) = Freed + cursor
    BY <1>4, <1>6
  <2>4. QED
    BY <2>1, <2>2, <2>3 DEF Place
<1>10. QED
  BY <1>1, <1>7, <1>8, <1>9

\* A packet is pushed at the end of both, and both lose nothing else.
LEMMA StepTail ==
    ASSUME TypeOK, FreshStart, TailInv, [FeedNext]_allVars
    PROVE  TailInv'
<1>1. fed \in Seq(Entry) /\ Len(fed) \in Nat /\ shown \in 0 .. Len(fed)
  BY TailTypes DEF TailInv, FeedTypes
<1>2. CASE UNCHANGED <<entries, fed, shown>>
  BY <1>2 DEF TailInv, FeedTypes, TimelineIsTail, Freed
<1>3. ASSUME NEW s \in Streams, FeedPush(s)
      PROVE  TailInv'
  <2>1. PICK e \in Entry :
           /\ fed' = Append(fed, e)
           /\ Len(fed') = Len(fed) + 1
           /\ \A k \in 1 .. Len(fed) : fed'[k] = fed[k]
           /\ fed'[Len(fed) + 1] = e
           /\ Len(entries') = Len(entries) + 1
           /\ \A k \in 1 .. Len(entries) : entries'[k] = entries[k]
           /\ entries'[Len(entries) + 1] = e
           /\ Freed' = Freed
    BY <1>3, FeedPushed
  <2>2. entries' \in Seq(Entry) /\ fed' \in Seq(Entry) /\ shown' = shown
    <3>1. PICK x \in Entry : entries' = Append(entries, x)
      BY <1>3, PushAppends DEF FeedPush
    <3>2. QED
      BY <1>1, <1>3, <2>1, <3>1, AppendProperties DEF TypeOK, FeedPush
  <2>3. Len(entries) \in Nat /\ Len(entries) <= Len(fed) /\ Freed = Len(fed) - Len(entries)
        /\ DOMAIN entries = 1 .. Len(entries) /\ DOMAIN entries' = 1 .. Len(entries) + 1
    BY <2>1, <2>2, EntryTypes DEF TailInv, TimelineIsTail, Freed
  <2>4. ASSUME NEW k \in DOMAIN entries'
        PROVE  fed'[Freed' + k] = entries'[k]
    <3>1. CASE k = Len(entries) + 1
      <4>1. Freed' + k = Len(fed) + 1
        BY <1>1, <2>1, <2>3, <3>1
      <4>2. QED
        BY <2>1, <3>1, <4>1
    <3>2. CASE k \in 1 .. Len(entries)
      <4>1. fed[Freed + k] = entries[k]
        BY <2>3, <3>2 DEF TailInv, TimelineIsTail
      <4>2. Freed + k \in 1 .. Len(fed)
        BY <1>1, <2>3, <3>2
      <4>3. QED
        BY <2>1, <3>2, <4>1, <4>2
    <3>3. QED
      BY <2>3, <3>1, <3>2
  <2>5. Len(entries') <= Len(fed') /\ shown' \in 0 .. Len(fed')
    BY <1>1, <2>1, <2>2, <2>3
  <2>6. QED
    BY <2>2, <2>4, <2>5 DEF TailInv, FeedTypes, TimelineIsTail
<1>4. CASE FeedRelease
  <2>1. fed' = fed /\ entries' = entries
    BY <1>4, FeedReleased
  <2>2. shown' = shown \/ (shown' = Place + 1 /\ Place + 1 \in DOMAIN fed)
    BY <1>4, FeedReleased
  <2>3. shown' \in 0 .. Len(fed)
    BY <1>1, <2>2
  <2>4. QED
    BY <2>1, <2>3 DEF TailInv, FeedTypes, TimelineIsTail, Freed
<1>5. CASE FeedReset
  <2>1. entries' = <<>> /\ fed' = <<>> /\ shown' = 0
    BY <1>5 DEF FeedReset, Reset
  <2>2. QED
    BY <2>1 DEF TailInv, FeedTypes, TimelineIsTail
<1>6. CASE EndPass /\ UNCHANGED feedVars
  <2>1. /\ fed' = fed /\ shown' = shown
        /\ Len(entries') <= Len(fed')
        /\ \A k \in DOMAIN entries' : fed'[Freed' + k] = entries'[k]
    BY <1>6, FeedPruned
  <2>2. QED
    BY <1>1, <2>1 DEF TailInv, FeedTypes, TimelineIsTail
<1>7. CASE Release /\ UNCHANGED feedVars
  <2>1. entries' = <<>> /\ fed' = fed /\ shown' = shown
    BY <1>7 DEF Release, feedVars
  <2>2. Len(entries') = 0 /\ DOMAIN entries' = {}
    BY <2>1
  <2>3. QED
    BY <1>1, <2>1, <2>2 DEF TailInv, FeedTypes, TimelineIsTail
<1>8. CASE (Spawn \/ BeginCapture) /\ UNCHANGED feedVars
  BY <1>2, <1>8 DEF Spawn, BeginCapture, feedVars, timelineVars
<1>9. CASE (PacerWake \/ \E d \in Requests : SetDelay(d)) /\ UNCHANGED feedVars
  BY <1>2, <1>9 DEF PacerWake, SetDelay, feedVars
<1>10. CASE Rest
  BY <1>2, <1>10 DEF Rest
<1>11. QED
  BY <1>3, <1>4, <1>5, <1>6, <1>7, <1>8, <1>9, <1>10, FeedSteps

\* The encoders deliver each track in order.
LEMMA StepFeedSorted ==
    ASSUME TypeOK, FreshStart, TailInv, FeedFresh, FeedSorted, [FeedNext]_allVars
    PROVE  FeedSorted'
<1>1. CASE UNCHANGED <<fed, due>>
  BY <1>1 DEF FeedSorted
<1>2. CASE fed' = <<>>
  BY <1>2 DEF FeedSorted
<1>3. ASSUME NEW s \in Streams, FeedPush(s)
      PROVE  FeedSorted'
  <2>1. PICK e \in Entry :
           /\ e.stream = s /\ e.dts = due[s]
           /\ fed' = Append(fed, e)
           /\ Len(fed') = Len(fed) + 1
           /\ \A k \in 1 .. Len(fed) : fed'[k] = fed[k]
           /\ fed'[Len(fed) + 1] = e
    BY <1>3, FeedPushed
  <2>2. /\ Len(fed) \in Nat /\ DOMAIN fed = 1 .. Len(fed)
        /\ \A k \in DOMAIN fed : fed[k].dts \in Nat /\ fed[k].stream \in Streams
    BY TailTypes
  <2>3. DOMAIN fed' = 1 .. Len(fed) + 1
    <3>1. fed' \in Seq(Entry)
      BY <2>1, AppendProperties DEF TailInv, FeedTypes
    <3>2. QED
      BY <2>1, <3>1
  <2>4. /\ \A t \in Streams : due[t] \in Nat /\ due'[t] \in Nat /\ due[t] <= due'[t]
        /\ \A t \in Streams : due[s] <= due[t]
        /\ due[s] < due'[s]
    <3>1. \A t \in Streams : due[t] \in Nat
      BY DEF TypeOK
    <3>2. \A t \in Streams : due'[t] = IF t = s THEN due[t] + Period(s) ELSE due[t]
      BY <1>3 DEF FeedPush, Push, TypeOK
    <3>3. Period(s) \in Nat /\ Period(s) > 0
      BY ConstantTypes DEF Period
    <3>4. \A t \in Streams : due[s] <= due[t]
      BY <1>3 DEF FeedPush, Push, Interleaved
    <3>5. QED
      BY <3>1, <3>2, <3>3, <3>4
  <2>5. \A i \in 1 .. Len(fed), t \in Streams :
           /\ fed[i].dts <= due[t]
           /\ fed[i].stream = t => fed[i].dts < due[t]
    BY <2>2 DEF FeedSorted
  <2>6. ASSUME NEW i \in DOMAIN fed', NEW t \in Streams
        PROVE  /\ fed'[i].dts <= due'[t]
               /\ fed'[i].stream = t => fed'[i].dts < due'[t]
    <3>1. CASE i \in 1 .. Len(fed)
      BY <2>1, <2>2, <2>4, <2>5, <3>1
    <3>2. CASE i = Len(fed) + 1
      BY <2>1, <2>4, <3>2
    <3>3. QED
      BY <2>2, <2>3, <3>1, <3>2
  <2>7. ASSUME NEW i \in DOMAIN fed', NEW j \in DOMAIN fed', i < j
        PROVE  /\ fed'[i].dts <= fed'[j].dts
               /\ fed'[i].stream = fed'[j].stream => fed'[i].dts < fed'[j].dts
    <3>1. i \in 1 .. Len(fed) /\ fed'[i] = fed[i]
      BY <2>1, <2>2, <2>3, <2>7
    <3>2. CASE j \in 1 .. Len(fed)
      <4>1. fed'[j] = fed[j] /\ i \in DOMAIN fed /\ j \in DOMAIN fed
        BY <2>1, <2>2, <3>1, <3>2
      <4>2. QED
        BY <2>7, <3>1, <4>1 DEF FeedSorted
    <3>3. CASE j = Len(fed) + 1
      <4>1. fed'[j].dts = due[s] /\ fed'[j].stream = s
        BY <2>1, <3>3
      <4>2. QED
        BY <2>5, <3>1, <4>1
    <3>4. QED
      BY <2>2, <2>3, <3>2, <3>3
  <2>8. QED
    BY <2>6, <2>7 DEF FeedSorted
<1>4. CASE FeedRelease
  BY <1>1, <1>4, FeedReleased
<1>5. CASE FeedReset
  BY <1>2, <1>5 DEF FeedReset
<1>6. CASE BeginCapture /\ UNCHANGED feedVars
  BY <1>2, <1>6 DEF BeginCapture, feedVars, FeedFresh
<1>7. CASE (EndPass \/ Release \/ Spawn) /\ UNCHANGED feedVars
  BY <1>1, <1>7 DEF EndPass, Release, Spawn, feedVars, sourceVars
<1>8. CASE (PacerWake \/ \E d \in Requests : SetDelay(d)) /\ UNCHANGED feedVars
  BY <1>1, <1>8 DEF PacerWake, SetDelay, feedVars, sourceVars
<1>9. CASE Rest
  BY <1>1, <1>9 DEF Rest
<1>10. QED
  BY <1>3, <1>4, <1>5, <1>6, <1>7, <1>8, <1>9, FeedSteps

\* A session that has not begun has no feed, and a frame released was shown.
LEMMA StepFeedFresh ==
    ASSUME TypeOK, FreshStart, TailInv, FeedFresh, FrameShown, [FeedNext]_allVars
    PROVE  FeedFresh' /\ FrameShown'
<1> USE DEF FeedFresh, FrameShown
<1>1. CASE /\ UNCHANGED <<fed, shown, lastFrame>>
           /\ capture' = "off" => capture = "off"
           /\ ctl' = "spawn" => ctl = "spawn"
  BY <1>1
<1>2. ASSUME NEW s \in Streams, FeedPush(s)
      PROVE  FeedFresh' /\ FrameShown'
  <2>1. /\ capture = "on" /\ capture' = "on" /\ ctl' = ctl
        /\ shown' = shown /\ lastFrame' = lastFrame
    BY <1>2 DEF FeedPush, Push, ctlVars, outVars
  <2>2. ctl # "spawn"
    BY <2>1 DEF FreshStart
  <2>3. QED
    BY <2>1, <2>2
<1>3. CASE FeedRelease
  <2>1. /\ ReleaseNext /\ entries # <<>> /\ Place + 1 \in DOMAIN fed
        /\ (lastFrame' = lastFrame /\ shown' = shown) \/ shown' = Place + 1
    BY <1>3, FeedReleased
  <2>2. capture' = capture /\ ctl' = ctl /\ capture # "off" /\ ctl # "spawn"
    BY <2>1 DEF ReleaseNext, FreshStart, ctlVars, sourceVars
  <2>3. Place + 1 # 0
    BY TailTypes
  <2>4. QED
    BY <2>1, <2>2, <2>3
<1>4. CASE FeedReset
  BY <1>4 DEF FeedReset, Reset
<1>5. CASE BeginCapture /\ UNCHANGED feedVars
  BY <1>1, <1>5 DEF BeginCapture, feedVars, outVars, ctlVars
<1>6. CASE EndPass /\ UNCHANGED feedVars
  BY <1>1, <1>6 DEF EndPass, feedVars, outVars, ctlVars, sourceVars
<1>7. CASE (Release \/ Spawn) /\ UNCHANGED feedVars
  BY <1>1, <1>7 DEF Release, Spawn, feedVars, outVars, sourceVars
<1>8. CASE (PacerWake \/ \E d \in Requests : SetDelay(d)) /\ UNCHANGED feedVars
  BY <1>1, <1>8 DEF PacerWake, SetDelay, feedVars, ctlVars, sourceVars
<1>9. CASE /\ Rest /\ UNCHANGED resync
           /\ PacerAlive' => PacerAlive
           /\ capture' = "off" => capture = "off"
           /\ ctl' = "spawn" => ctl = "spawn"
  BY <1>1, <1>9 DEF Rest
<1>10. QED
  BY <1>2, <1>3, <1>4, <1>5, <1>6, <1>7, <1>8, <1>9, FeedSteps

\* Audio that would go back in time has come on another track.
LEMMA DroppedIsLeftOut ==
    ASSUME FeedInv, FeedRelease, GoesBackwards(entries[cursor + 1])
    PROVE  /\ ~resync /\ OutOffset(entries[cursor + 1]) = offset
           /\ Line!LeftOut(Place + 1)
<1> DEFINE e == entries[cursor + 1]
<1>1. TypeOK /\ TailInv /\ FrameInv /\ DtsSorted /\ FrameFirst /\ FramePassed /\ AudioClose
  BY DEF FeedInv, OrderInv, FrameInv, SafeInv
<1>2. /\ ReleaseNext /\ PacerAlive
      /\ Place + 1 \in DOMAIN fed /\ fed[Place + 1] = e
      /\ e.dts \in Nat /\ e.stream \in Streams
  BY <1>1, FeedReleased
<1>3. e.stream # Video
  BY <1>1, <1>2, FrameNotDropped
<1>4. ~resync /\ OutOffset(e) = offset
  BY <1>1, <1>2, <1>3 DEF FrameInv, SafeInv, ResyncOnKeyframe, IsKeyframe, OutOffset
<1>5. lastOut["audio"] # NoTime /\ e.dts + offset <= lastOut["audio"]
  BY <1>3, <1>4 DEF GoesBackwards, Kind
<1>6. lastOut["video"] \in Int /\ lastOut["video"] <= e.dts + offset
  BY <1>1, <1>2, <1>3, <1>4, AudioTime
<1>7. lastOut["audio"] \in Int /\ offset \in Int
  BY <1>1, <1>5 DEF TypeOK, Kinds, Times
<1>8. ~(lastOut["audio"] < lastOut["video"])
  BY <1>2, <1>5, <1>6, <1>7
<1>9. PICK i \in 1 .. Place : fed[i].stream # Video /\ fed[i].dts + offset = lastOut["audio"]
  BY <1>2, <1>4, <1>5, <1>8 DEF FeedInv, AudioHeard
<1>10. Place \in Nat /\ i \in DOMAIN fed /\ i < Place + 1 /\ fed[i].dts \in Nat
  BY <1>1, <1>9, TailTypes
<1>11. fed[i].dts <= e.dts /\ (fed[i].stream = e.stream => fed[i].dts < e.dts)
  BY <1>2, <1>10 DEF FeedInv, FeedSorted
<1>12. fed[i].dts = e.dts /\ e.dts + offset = lastOut["audio"] /\ fed[i].stream # e.stream
  BY <1>2, <1>5, <1>7, <1>9, <1>10, <1>11
<1>13. i \in 1 .. (Place + 1) - 1
  BY <1>9, <1>10
<1>14. Line!LeftOut(Place + 1)
  BY <1>2, <1>3, <1>9, <1>12, <1>13 DEF Line!LeftOut
<1>15. QED
  BY <1>4, <1>14

\* The last audio, through releases and jumps.
LEMMA StepAudioHeard ==
    ASSUME FeedInv, [FeedNext]_allVars
    PROVE  AudioHeard'
<1> USE DEF PacerAlive
<1>1. TypeOK /\ TailInv /\ FreshStart /\ FrameInv /\ AudioClose /\ FreshOut /\ AudioHeard
  BY DEF FeedInv, OrderInv, FrameInv, SafeInv
<1>2. /\ Place \in Nat /\ Place <= Len(fed) /\ Len(fed) \in Nat /\ DOMAIN fed = 1 .. Len(fed)
  BY <1>1, TailTypes
<1>3. ASSUME PacerAlive' => PacerAlive, UNCHANGED <<resync, lastOut, offset>>,
             Place' = Place, \A k \in 1 .. Len(fed) : fed'[k] = fed[k]
      PROVE  AudioHeard'
  <2>1. \A i \in 1 .. Place : fed'[i] = fed[i]
    BY <1>2, <1>3
  <2>2. QED
    BY <1>1, <1>3, <2>1 DEF AudioHeard
<1>4. ASSUME NEW s \in Streams, FeedPush(s)
      PROVE  AudioHeard'
  <2>1. Place' = Place /\ \A k \in 1 .. Len(fed) : fed'[k] = fed[k]
    BY <1>1, <1>4, FeedPushed
  <2>2. UNCHANGED <<resync, lastOut, offset, pacer>>
    BY <1>4 DEF FeedPush, Push, outVars, pacerVars
  <2>3. QED
    BY <1>3, <2>1, <2>2
<1>5. CASE FeedRelease
  <2> DEFINE e == entries[cursor + 1]
             out == e.dts + OutOffset(e)
  <2>1. /\ ReleaseNext /\ Place + 1 \in DOMAIN fed /\ fed[Place + 1] = e
        /\ e.dts \in Nat /\ e.stream \in Streams
        /\ Place' = Place + 1 /\ fed' = fed
        /\ offset' = OutOffset(e) /\ resync' = FALSE
        /\ \/ GoesBackwards(e) /\ lastOut' = lastOut
           \/ ~GoesBackwards(e) /\ lastOut' = [lastOut EXCEPT ![Kind(e.stream)] = out]
    BY <1>1, <1>5, FeedReleased
  <2>2. pacer = "pass" /\ PacerAlive
    BY <2>1 DEF ReleaseNext
  <2>3. /\ lastOut["video"] \in Int \cup {NoTime} /\ lastOut["audio"] \in Int \cup {NoTime}
        /\ DOMAIN lastOut = {"video", "audio"} /\ NoTime \notin Int /\ VideoPeriod \in Nat
    BY <1>1, ConstantTypes DEF TypeOK, Kinds, Times
  <2>4. CASE GoesBackwards(e)
    <3>1. ~resync /\ OutOffset(e) = offset
      BY <1>5, <2>4, DroppedIsLeftOut
    <3>2. lastOut' = lastOut /\ offset' = offset
      BY <2>1, <2>4, <3>1
    <3>3. \A i \in 1 .. Place : i \in 1 .. Place'
      BY <1>2, <2>1
    <3>4. QED
      BY <1>1, <2>1, <2>2, <3>1, <3>2, <3>3 DEF AudioHeard
  <2>5. CASE ~GoesBackwards(e) /\ e.stream # Video
    <3>1. lastOut'["audio"] = out /\ fed'[Place'] = e /\ out = e.dts + offset'
      BY <2>1, <2>3, <2>5 DEF Kind
    <3>2. Place' \in 1 .. Place'
      BY <1>2, <2>1
    <3>3. fed'[Place'].stream # Video /\ fed'[Place'].dts + offset' = lastOut'["audio"]
      BY <2>5, <3>1
    <3>4. QED
      BY <3>2, <3>3 DEF AudioHeard
  <2>6. CASE ~GoesBackwards(e) /\ e.stream = Video
    <3>1. lastOut'["video"] = out /\ lastOut'["audio"] = lastOut["audio"]
      BY <2>1, <2>3, <2>6 DEF Kind
    <3>2. lastOut["audio"] # NoTime => lastOut["video"] # NoTime
                                       /\ lastOut["audio"] < lastOut["video"] + VideoPeriod
      BY <1>1, <2>2 DEF AudioClose
    <3>3. lastOut["video"] # NoTime => out = lastOut["video"] + VideoPeriod
      BY <1>1, <2>1, <2>6, FrameTime
    <3>4. lastOut'["audio"] # NoTime => lastOut'["audio"] < lastOut'["video"]
      BY <3>1, <3>2, <3>3
    <3>5. QED
      BY <3>4 DEF AudioHeard
  <2>7. QED
    BY <2>1, <2>4, <2>5, <2>6
<1>6. CASE FeedReset
  BY <1>1, <1>6 DEF FeedReset, Reset, FreshStart, AudioHeard, pacerVars
<1>7. CASE EndPass /\ UNCHANGED feedVars
  <2>1. Place' = Place /\ fed' = fed
    BY <1>1, <1>7, FeedPruned
  <2>2. QED
    BY <1>3, <1>7, <2>1 DEF EndPass, outVars
<1>8. CASE Release /\ UNCHANGED feedVars
  BY <1>1, <1>8 DEF Release, FreshStart, AudioHeard, pacerVars
<1>9. CASE Spawn /\ UNCHANGED feedVars
  BY <1>1, <1>9 DEF Spawn, FreshOut, AudioHeard, outVars
<1>10. CASE BeginCapture /\ UNCHANGED feedVars
  BY <1>3, <1>10 DEF BeginCapture, feedVars, timelineVars, outVars, pacerVars, Place, Freed
<1>11. CASE (PacerWake \/ \E d \in Requests : SetDelay(d)) /\ UNCHANGED feedVars
  <2>1. UNCHANGED <<cursor, resync>> \/ resync'
    BY <1>11 DEF PacerWake, TryPendingSkip, SetDelay, Raise, LowerNow, LowerLater,
                 RewindTo, SkipTo, JumpTo, StayPut
  <2>2. UNCHANGED <<entries, fed, lastOut, offset>> /\ (PacerAlive' => PacerAlive)
    BY <1>11 DEF PacerWake, SetDelay, feedVars, pacerVars
  <2>3. CASE resync'
    BY <2>3 DEF AudioHeard
  <2>4. CASE UNCHANGED <<cursor, resync>>
    BY <1>3, <2>2, <2>4 DEF Place, Freed
  <2>5. QED
    BY <2>1, <2>3, <2>4
<1>12. CASE Rest /\ UNCHANGED resync /\ (PacerAlive' => PacerAlive)
  BY <1>3, <1>12 DEF Rest, Place, Freed
<1>13. QED
  BY <1>4, <1>5, <1>6, <1>7, <1>8, <1>9, <1>10, <1>11, <1>12, FeedSteps

\* What lies between the last packet released and the cursor.
LEMMA StepShownBehind ==
    ASSUME FeedInv, [FeedNext]_allVars
    PROVE  ShownBehind'
<1> USE DEF PacerAlive
<1>1. TypeOK /\ TailInv /\ FreshStart /\ FrameInv /\ FeedFresh /\ ShownBehind
  BY DEF FeedInv, OrderInv, FrameInv, SafeInv
<1>2. /\ Place \in Nat /\ Place <= Len(fed) /\ Len(fed) \in Nat /\ DOMAIN fed = 1 .. Len(fed)
      /\ shown \in Nat
  BY <1>1, TailTypes
<1>3. ASSUME UNCHANGED <<lastOut, offset>>, \A k \in 1 .. Len(fed) : fed'[k] = fed[k],
             NEW j \in 1 .. Len(fed), Line!LeftOut(j)
      PROVE  Line!LeftOut(j)'
  <2>1. fed'[j] = fed[j] /\ \A i \in 1 .. j - 1 : fed'[i] = fed[i]
    BY <1>2, <1>3
  <2>2. QED
    BY <1>3, <2>1 DEF Line!LeftOut
<1>4. ASSUME PacerAlive' => PacerAlive, UNCHANGED <<resync, lastOut, offset, shown>>,
             Place' = Place, \A k \in 1 .. Len(fed) : fed'[k] = fed[k]
      PROVE  ShownBehind'
  <2>1. \A j \in shown + 1 .. Place : j \in 1 .. Len(fed)
    BY <1>2
  <2>2. \A j \in shown + 1 .. Place : Line!LeftOut(j) => Line!LeftOut(j)'
    BY <1>3, <1>4, <2>1
  <2>3. QED
    BY <1>1, <1>4, <2>2 DEF ShownBehind
<1>5. ASSUME NEW s \in Streams, FeedPush(s)
      PROVE  ShownBehind'
  <2>1. Place' = Place /\ \A k \in 1 .. Len(fed) : fed'[k] = fed[k]
    BY <1>1, <1>5, FeedPushed
  <2>2. UNCHANGED <<resync, lastOut, offset, pacer, shown>>
    BY <1>5 DEF FeedPush, Push, outVars, pacerVars
  <2>3. QED
    BY <1>4, <2>1, <2>2
<1>6. CASE FeedRelease
  <2> DEFINE e == entries[cursor + 1]
  <2>1. /\ Place + 1 \in DOMAIN fed /\ PacerAlive
        /\ Place' = Place + 1 /\ fed' = fed
        /\ offset' = OutOffset(e)
        /\ \/ GoesBackwards(e) /\ UNCHANGED <<lastOut, shown>>
           \/ shown' = Place + 1
    BY <1>1, <1>6, FeedReleased
  <2>2. CASE GoesBackwards(e) /\ UNCHANGED <<lastOut, shown>>
    <3>1. ~resync /\ OutOffset(e) = offset /\ Line!LeftOut(Place + 1)
      BY <1>6, <2>2, DroppedIsLeftOut
    <3>2. shown <= Place /\ \A j \in shown + 1 .. Place : Line!LeftOut(j)
      BY <1>1, <2>1, <3>1 DEF ShownBehind
    <3>3. \A j \in shown + 1 .. Place + 1 : j \in 1 .. Len(fed) /\ Line!LeftOut(j)
      <4>1. \A j \in shown + 1 .. Place + 1 : j \in shown + 1 .. Place \/ j = Place + 1
        BY <1>2
      <4>2. \A j \in shown + 1 .. Place + 1 : j \in 1 .. Len(fed)
        BY <1>2, <2>1
      <4>3. QED
        BY <3>1, <3>2, <4>1, <4>2
    <3>4. UNCHANGED <<lastOut, offset>> /\ \A k \in 1 .. Len(fed) : fed'[k] = fed[k]
      BY <2>1, <2>2, <3>1
    <3>5. \A j \in shown + 1 .. Place + 1 : Line!LeftOut(j)'
      BY <1>3, <3>3, <3>4
    <3>6. shown' <= Place' /\ shown' = shown /\ Place' = Place + 1
      BY <1>2, <2>1, <2>2, <3>2
    <3>7. QED
      BY <3>5, <3>6 DEF ShownBehind
  <2>3. CASE shown' = Place + 1
    <3>1. shown' <= Place' /\ shown' + 1 .. Place' = {}
      BY <1>2, <2>1, <2>3
    <3>2. QED
      BY <3>1 DEF ShownBehind
  <2>4. QED
    BY <2>1, <2>2, <2>3
<1>7. CASE FeedReset
  BY <1>1, <1>7 DEF FeedReset, Reset, FreshStart, ShownBehind, pacerVars
<1>8. CASE EndPass /\ UNCHANGED feedVars
  <2>1. Place' = Place /\ fed' = fed /\ shown' = shown
    BY <1>1, <1>8, FeedPruned
  <2>2. QED
    BY <1>4, <1>8, <2>1 DEF EndPass, outVars
<1>9. CASE Release /\ UNCHANGED feedVars
  BY <1>1, <1>9 DEF Release, FreshStart, ShownBehind, pacerVars
<1>10. CASE Spawn /\ UNCHANGED feedVars
  <2>1. fed' = <<>> /\ shown' = 0 /\ entries' = <<>> /\ cursor' \in 0 .. Len(entries')
    BY <1>1, <1>10 DEF Spawn, FeedFresh, FreshStart, feedVars, timelineVars, TypeOK
  <2>2. Place' = 0
    <3>1. Len(fed') = 0 /\ Len(entries') = 0 /\ cursor' = 0
      BY <2>1
    <3>2. QED
      BY <3>1 DEF Place, Freed
  <2>3. shown' <= Place' /\ shown' + 1 .. Place' = {}
    BY <2>1, <2>2
  <2>4. QED
    BY <2>3 DEF ShownBehind
<1>11. CASE BeginCapture /\ UNCHANGED feedVars
  BY <1>4, <1>11 DEF BeginCapture, feedVars, timelineVars, outVars, pacerVars, Place, Freed
<1>12. CASE (PacerWake \/ \E d \in Requests : SetDelay(d)) /\ UNCHANGED feedVars
  <2>1. UNCHANGED <<cursor, resync>> \/ resync'
    BY <1>12 DEF PacerWake, TryPendingSkip, SetDelay, Raise, LowerNow, LowerLater,
                 RewindTo, SkipTo, JumpTo, StayPut
  <2>2. UNCHANGED <<entries, fed, shown, lastOut, offset>> /\ (PacerAlive' => PacerAlive)
    BY <1>12 DEF PacerWake, SetDelay, feedVars, pacerVars
  <2>3. CASE resync'
    BY <2>3 DEF ShownBehind
  <2>4. CASE UNCHANGED <<cursor, resync>>
    BY <1>4, <2>2, <2>4 DEF Place, Freed
  <2>5. QED
    BY <2>1, <2>3, <2>4
<1>13. CASE Rest /\ UNCHANGED resync /\ (PacerAlive' => PacerAlive)
  BY <1>4, <1>13 DEF Rest, Place, Freed
<1>14. QED
  BY <1>5, <1>6, <1>7, <1>8, <1>9, <1>10, <1>11, <1>12, <1>13, FeedSteps

LEMMA InitFeed == FeedInit => FeedInv
<1> SUFFICES ASSUME FeedInit PROVE FeedInv
  OBVIOUS
<1>1. Init /\ fed = <<>> /\ shown = 0 /\ entries = <<>> /\ lastFrame = NoTime /\ pacer = "none"
  BY DEF FeedInit, Init
<1>2. OrderInv
  BY <1>1, InitOrder
<1>3. TailInv
  BY <1>1 DEF TailInv, FeedTypes, TimelineIsTail
<1>4. FeedSorted /\ FeedFresh /\ FrameShown
  BY <1>1 DEF FeedSorted, FeedFresh, FrameShown
<1>5. AudioHeard /\ ShownBehind
  BY <1>1 DEF AudioHeard, ShownBehind, PacerAlive
<1>6. QED
  BY <1>2, <1>3, <1>4, <1>5 DEF FeedInv

LEMMA StepFeed == FeedInv /\ [FeedNext]_allVars => FeedInv'
<1> SUFFICES ASSUME FeedInv, [FeedNext]_allVars PROVE FeedInv'
  OBVIOUS
<1>1. TypeOK /\ FreshStart /\ TailInv /\ FeedFresh /\ FeedSorted /\ FrameShown
  BY DEF FeedInv, OrderInv, FrameInv, SafeInv
<1>2. OrderInv'
  BY FeedStep, StepOrder DEF FeedInv
<1>3. TailInv' /\ FeedSorted' /\ FeedFresh' /\ FrameShown'
  BY <1>1, StepTail, StepFeedSorted, StepFeedFresh
<1>4. AudioHeard' /\ ShownBehind'
  BY StepAudioHeard, StepShownBehind
<1>5. QED
  BY <1>2, <1>3, <1>4 DEF FeedInv

LEMMA FeedInvariant == FeedSpec => []FeedInv
  BY InitFeed, StepFeed, PTL DEF FeedSpec, allVars

\* swd_push feeds the line.
LEMMA PushFeeds ==
    ASSUME FeedInv, NEW s \in Streams, FeedPush(s)
    PROVE  Line!Feed
<1>1. TypeOK /\ TailInv /\ Len(fed) \in Nat /\ fed \in Seq(Entry)
  BY TailTypes DEF FeedInv, OrderInv, FrameInv, SafeInv, TailInv, FeedTypes
<1>2. PICK e \in Entry : /\ e.arrival = now
                         /\ fed' = Append(fed, e)
                         /\ Len(fed') = Len(fed) + 1
                         /\ fed'[Len(fed) + 1] = e
  BY <1>1, FeedPushed
<1>3. fed' # <<>>
  <2>1. Len(fed') # 0
    BY <1>1, <1>2
  <2>2. QED
    BY <2>1
<1>4. UNCHANGED <<now, delay, shown, offset, lastOut>>
  BY DEF FeedPush, Push, pacingVars, outVars
<1>5. fed'[Len(fed')] = e
  BY <1>2
<1>6. QED
  BY <1>2, <1>3, <1>4, <1>5 DEF Line!Feed

\* A packet released is shown: the next one, or a keyframe after a jump.
LEMMA ReleaseShows ==
    ASSUME FeedInv, FeedRelease, ~GoesBackwards(entries[cursor + 1])
    PROVE  Place + 1 \in DOMAIN fed /\ (Line!Continue(Place + 1) \/ Line!Jump(Place + 1))
<1> DEFINE e == entries[cursor + 1]
           p == Place + 1
<1>1. TypeOK /\ TailInv /\ SafeInv /\ FrameInv /\ FrameFirst
  BY DEF FeedInv, OrderInv, FrameInv, SafeInv
<1>2. /\ ReleaseNext /\ PacerAlive /\ entries # <<>>
      /\ p \in DOMAIN fed /\ fed[p] = e
      /\ e.dts \in Nat /\ e.stream \in Streams
      /\ fed' = fed /\ offset' = OutOffset(e)
      /\ lastOut' = [lastOut EXCEPT ![Kind(e.stream)] = e.dts + OutOffset(e)]
      /\ shown' = p
  BY <1>1, FeedReleased
<1>3. Line!Kind(fed[p]) = Kind(e.stream)
  BY <1>2 DEF Line!Kind, Kind
<1>4. Line!Fresh(fed[p], fed[p].dts + offset')
  <2>1. lastOut[Kind(e.stream)] \in Int \cup {NoTime} /\ e.dts + OutOffset(e) \in Int
    <3>1. Kind(e.stream) \in Kinds /\ VideoPeriod \in Nat
      BY <1>2, ConstantTypes
    <3>2. lastOut["video"] \in Int \cup {NoTime} /\ lastOut[Kind(e.stream)] \in Int \cup {NoTime}
          /\ frame \in Nat /\ offset \in Int
      BY <1>1, <3>1 DEF TypeOK, Kinds, Times
    <3>3. QED
      BY <1>2, <3>2 DEF OutOffset, ResyncOffset
  <2>2. lastOut[Kind(e.stream)] # NoTime => e.dts + OutOffset(e) > lastOut[Kind(e.stream)]
    BY <2>1 DEF GoesBackwards
  <2>3. QED
    BY <1>2, <1>3, <2>2 DEF Line!Fresh
<1>5. Line!Show(p)
  <2>1. now - fed[p].arrival >= delay
    BY <1>1, <1>2, ReleaseAge
  <2>2. UNCHANGED <<now, delay, fed>>
    BY <1>2 DEF ReleaseNext, pacingVars
  <2>3. lastOut' = [lastOut EXCEPT ![Line!Kind(fed[p])] = fed[p].dts + offset']
    BY <1>2, <1>3
  <2>4. QED
    BY <1>2, <1>4, <2>1, <2>2, <2>3 DEF Line!Show
<1>6. CASE resync \/ lastFrame = NoTime
  <2>1. e.stream = Video /\ e.key
    <3>1. CASE resync
      BY <1>1, <1>2, <3>1 DEF SafeInv, ResyncOnKeyframe, IsKeyframe
    <3>2. CASE ~resync /\ lastFrame = NoTime
      <4>1. e.stream = Video
        BY <1>1, <1>2, <3>2 DEF FrameFirst
      <4>2. QED
        BY <1>1, <1>2, <3>2, <4>1, FrameNotDropped
    <3>3. QED
      BY <1>6, <3>1, <3>2
  <2>2. frame = VideoPeriod /\ (lastFrame = NoTime <=> lastOut["video"] = NoTime)
    BY <1>1, <1>2 DEF FrameInv, FrameClock
  <2>3. offset' = IF lastOut["video"] = NoTime THEN offset
                  ELSE lastOut["video"] + VideoPeriod - e.dts
    BY <1>2, <1>6, <2>2 DEF OutOffset, ResyncOffset
  <2>4. Line!Jump(p)
    BY <1>2, <1>5, <2>1, <2>3 DEF Line!Jump
  <2>5. QED
    BY <1>2, <2>4
<1>7. CASE ~resync /\ lastFrame # NoTime
  <2>1. shown # 0
    BY <1>7 DEF FeedInv, FrameShown
  <2>2. shown <= Place /\ \A j \in shown + 1 .. Place : Line!LeftOut(j)
    BY <1>2, <1>7 DEF FeedInv, ShownBehind
  <2>3. p > shown /\ p - 1 = Place
    BY <1>1, <2>2, TailTypes
  <2>4. offset' = offset
    BY <1>2, <1>7 DEF OutOffset
  <2>5. Line!Continue(p)
    BY <1>5, <2>1, <2>2, <2>3, <2>4 DEF Line!Continue
  <2>6. QED
    BY <1>2, <2>5
<1>8. QED
  BY <1>6, <1>7

\* reset_locked begins a session of the line.
LEMMA ResetRestarts ==
    ASSUME FeedInv, FeedInv', FeedReset
    PROVE  Line!Restart
<1>1. /\ fed' = <<>> /\ shown' = 0 /\ offset' = 0 /\ now' = now
      /\ lastOut' = [k \in Kinds |-> NoTime]
  BY DEF FeedReset, Reset
<1>2. delay' \in 0 .. MaxDelay
  BY DEF FeedInv, OrderInv, FrameInv, SafeInv, TypeOK
<1>3. QED
  BY <1>1, <1>2 DEF Line!Restart, Line!NothingShown, Kinds

\* The other steps move the clock or the target, or nothing that the line sees.
LEMMA OtherSteps ==
    ASSUME FeedInv, FeedInv', FeedUnchanged
    PROVE  Line!Request \/ Line!Elapse \/ UNCHANGED Line!lineVars
<1> USE DEF feedVars, pacingVars, outVars, Line!lineVars
<1>1. UNCHANGED <<fed, shown>>
  BY DEF FeedUnchanged
<1>2. CASE PacerLoop \/ PacerWake \/ EndPass \/ PacerSend
  BY <1>1, <1>2 DEF PacerLoop, PacerWake, EndPass, PacerSend
<1>3. CASE BeginStop \/ (\E d \in Requests : BeginStart(d)) \/ Join \/ Release \/ Spawn
  BY <1>1, <1>3 DEF BeginStop, BeginStart, Join, Release, Spawn
<1>4. CASE \E d \in Requests : SetDelay(d)
  <2>1. delay' \in 0 .. MaxDelay
    BY DEF FeedInv, OrderInv, FrameInv, SafeInv, TypeOK
  <2>2. UNCHANGED <<now, fed, shown, offset, lastOut>>
    BY <1>1, <1>4 DEF SetDelay
  <2>3. QED
    BY <2>1, <2>2 DEF Line!Request
<1>5. CASE BeginCapture \/ EndCapture
  BY <1>1, <1>5 DEF BeginCapture, EndCapture
<1>6. CASE Tick
  <2>1. now \in Nat /\ now' = now + 1
    BY <1>6 DEF FeedInv, OrderInv, FrameInv, SafeInv, TypeOK, Tick
  <2>2. now' \in Nat /\ now' > now
    BY <2>1
  <2>3. UNCHANGED <<delay, fed, shown, offset, lastOut>>
    BY <1>1, <1>6 DEF Tick
  <2>4. QED
    BY <2>2, <2>3 DEF Line!Elapse
<1>7. QED
  BY <1>2, <1>3, <1>4, <1>5, <1>6 DEF FeedUnchanged

LEMMA FeedStepIsLineStep ==
    ASSUME FeedInv, FeedInv', [FeedNext]_allVars
    PROVE  [Line!LineNext]_(Line!lineVars)
<1>1. CASE \E s \in Streams : FeedPush(s)
  BY <1>1, PushFeeds DEF Line!LineNext
<1>2. CASE FeedRelease /\ ~GoesBackwards(entries[cursor + 1])
  BY <1>2, ReleaseShows DEF Line!LineNext
<1>3. CASE FeedRelease /\ GoesBackwards(entries[cursor + 1])
  <2>1. TypeOK /\ TailInv
    BY DEF FeedInv, OrderInv, FrameInv, SafeInv
  <2>2. OutOffset(entries[cursor + 1]) = offset
    BY <1>3, DroppedIsLeftOut
  <2>3. UNCHANGED <<fed, shown, lastOut, offset>>
    BY <1>3, <2>1, <2>2, FeedReleased
  <2>4. UNCHANGED <<now, delay>>
    BY <1>3 DEF FeedRelease, ReleaseNext, pacingVars
  <2>5. QED
    BY <2>3, <2>4 DEF Line!lineVars
<1>4. CASE FeedReset
  BY <1>4, ResetRestarts DEF Line!LineNext
<1>5. CASE FeedUnchanged
  BY <1>5, OtherSteps DEF Line!LineNext
<1>6. CASE UNCHANGED allVars
  BY <1>6 DEF allVars, vars, feedVars, pacingVars, outVars, Line!lineVars
<1>7. QED
  BY <1>1, <1>2, <1>3, <1>4, <1>5, <1>6 DEF FeedNext

\* The buffer keeps the promise of the delay line, for every value of its
\* constants: with its cursor, pending jumps, pruning, stops and restarts it shows
\* what is old enough, frames in a row or from a keyframe on that takes the place
\* of the next frame, and leaves out only audio that another track has brought.
THEOREM BufferIsDelayLine == FeedSpec => ImplementsLine
<1>1. FeedInit => Line!LineInit
  <2> SUFFICES ASSUME FeedInit PROVE Line!LineInit
    OBVIOUS
  <2>1. now = PruneEvery /\ delay = 0 /\ offset = 0 /\ lastOut = [k \in Kinds |-> NoTime]
        /\ fed = <<>> /\ shown = 0
    BY DEF FeedInit, Init
  <2>2. QED
    BY <2>1, ConstantTypes DEF Line!LineInit, Line!NothingShown, Kinds
<1>2. FeedInv /\ FeedInv' /\ [FeedNext]_allVars => [Line!LineNext]_(Line!lineVars)
  BY FeedStepIsLineStep
<1>3. QED
  BY <1>1, <1>2, FeedInvariant, PTL DEF FeedSpec, ImplementsLine, Line!LineSpec, allVars

\* "A pacer releases each packet once it is `delay` seconds old" (README.md, line
\* 10): with one audio track nothing is ever lost between two jumps.
THEOREM OneTrackComplete ==
    ASSUME \A s, t \in AudioTracks : s = t
    PROVE  FeedSpec => NothingLost
<1>1. FeedInv /\ [FeedNext]_allVars
        => [shown # 0 /\ shown' \notin {0, shown, shown + 1} => IsKeyframe(fed[shown'])]_allVars
  <2> SUFFICES ASSUME FeedInv, [FeedNext]_allVars, shown # 0, shown' \notin {0, shown, shown + 1}
               PROVE  IsKeyframe(fed[shown'])
    BY DEF allVars
  <2>1. TypeOK /\ TailInv
    BY DEF FeedInv, OrderInv, FrameInv, SafeInv
  <2>2. FeedRelease /\ ~GoesBackwards(entries[cursor + 1])
    <3>1. FeedRelease
      BY DEF FeedNext, FeedUnchanged, FeedPush, FeedReset, feedVars, allVars
    <3>2. QED
      BY <2>1, <3>1, FeedReleased
  <2>3. shown' = Place + 1 /\ Place + 1 \in DOMAIN fed
    BY <2>1, <2>2, FeedReleased
  <2>4. CASE Line!Jump(Place + 1)
    BY <2>3, <2>4 DEF Line!Jump, IsKeyframe
  <2>5. CASE Line!Continue(Place + 1)
    <3>1. Place \in Nat /\ Place <= Len(fed) /\ Len(fed) \in Nat /\ shown \in Nat
          /\ DOMAIN fed = 1 .. Len(fed)
          /\ \A k \in DOMAIN fed : fed[k].stream \in Streams
      BY <2>1, TailTypes
    <3>2. Place \in shown + 1 .. (Place + 1) - 1 /\ Place \in DOMAIN fed
      BY <2>3, <2>5, <3>1 DEF Line!Continue
    <3>3. Line!LeftOut(Place)
      BY <2>5, <3>2 DEF Line!Continue
    <3>4. PICK i \in 1 .. Place - 1 : fed[i].stream \notin {Video, fed[Place].stream}
      BY <3>3 DEF Line!LeftOut
    <3>5. i \in DOMAIN fed /\ fed[Place].stream # Video
      BY <3>1, <3>3, <3>4 DEF Line!LeftOut
    <3>6. fed[i].stream \in AudioTracks /\ fed[Place].stream \in AudioTracks
      BY <3>1, <3>2, <3>4, <3>5 DEF Streams
    <3>7. QED
      BY <3>4, <3>6
  <2>6. QED
    BY <2>2, <2>4, <2>5, ReleaseShows
<1>2. QED
  BY <1>1, FeedInvariant, PTL DEF FeedSpec, NothingLost, allVars

=============================================================================
