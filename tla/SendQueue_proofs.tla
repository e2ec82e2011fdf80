-------------------------- MODULE SendQueue_proofs --------------------------
(***************************************************************************)
(* Theorems about the send queue.                                          *)
(***************************************************************************)
EXTENDS SendQueue, FiniteSetTheorems, WellFoundedInduction, TLAPS

\* Where rtmp_stream_data_direct is at the bitrate.
RatePlaces == {"climb", "setClimbed", "lower", "setLowered"}

\* A feed that holds the mutex is that of a stream that has not ended.
Holding == Locked => stream \notin {"stopping", "over"}

TypeInv == TypeOK /\ Holding

LEMMA InitTypes == Init => TypeInv
<1> SUFFICES ASSUME Init PROVE TypeInv
  OBVIOUS
<1>1. fed \in 0 .. MaxPackets /\ streams \in 0 .. MaxStreams
  BY ConstantsAssumption DEF Init
<1>2. wanted \in Settings /\ encoder \in Nat
  BY ConstantsAssumption DEF Init
<1>3. queue \subseteq 0 .. fed - 1 /\ sent \subseteq 0 .. fed - 1 /\ queue \cap sent = {}
  BY DEF Init
<1>4. /\ min \in {0, High, Highest} /\ lastDts \in Nat
      /\ cur \in Nat /\ prev \in Nat /\ orig \in Nat /\ est \in Estimates \cup {0}
  BY DEF Init
<1>5. QED
  BY <1>1, <1>2, <1>3, <1>4
     DEF Init, TypeInv, TypeOK, Holding, Locked, FeedPlaces, StreamStates

LEMMA FeedAddTypes ==
    ASSUME TypeInv, FeedAdd
    PROVE  TypeInv'
<1>1. /\ AfterDrops.q \subseteq queue /\ AfterDrops.m \in {0, High, Highest}
  BY DEF AfterDrops, AfterBDrop, DropFrames, RaiseMin, TypeInv, TypeOK, High, Highest
<1>2. fed \in Nat /\ fed < MaxPackets /\ fed' = fed + 1
  BY ConstantsAssumption DEF FeedAdd, TypeInv, TypeOK
<1>3. queue' \subseteq queue \cup {fed} /\ min' \in {0, High, Highest}
  BY <1>1 DEF FeedAdd, TypeInv, TypeOK
<1>4. queue' \subseteq 0 .. fed' - 1 /\ sent' \subseteq 0 .. fed' - 1 /\ queue' \cap sent' = {}
  BY <1>2, <1>3 DEF FeedAdd, TypeInv, TypeOK
<1>5. lastDts' \in Nat
  <2>1. Width \in Nat \ {0}
    BY ConstantsAssumption DEF Width
  <2>2. Dts(fed) \in Nat
    BY <1>2, <2>1 DEF Dts
  <2>3. QED
    BY <2>2 DEF FeedAdd, TypeInv, TypeOK
<1>6. fed' \in 0 .. MaxPackets
  BY <1>2, ConstantsAssumption
<1>7. QED
  BY <1>3, <1>4, <1>5, <1>6
     DEF FeedAdd, TypeInv, TypeOK, Holding, Locked, FeedPlaces, StreamStates, rateVars

LEMMA FeedRateTypes ==
    ASSUME TypeInv, FeedClimb \/ FeedLower \/ FeedSetBitrate
    PROVE  TypeInv'
<1>1. CASE FeedClimb
  <2>1. cur \in Nat /\ orig \in Nat /\ prev \in Nat /\ timer \in BOOLEAN
    BY DEF TypeInv, TypeOK
  <2>2. orig \div 10 \in Nat
    BY <2>1
  <2>3. cur' \in Nat
    BY <1>1, <2>1, <2>2 DEF FeedClimb
  <2>4. prev' \in Nat
    BY <1>1, <2>1 DEF FeedClimb
  <2>5. timer' \in BOOLEAN
    <3>1. timer' = timer \/ timer' = (cur' < orig)
      BY <1>1, Zenon DEF FeedClimb
    <3>2. (cur' < orig) = TRUE \/ (cur' < orig) = FALSE
      BY <2>1, <2>3
    <3>3. QED
      BY <2>1, <3>1, <3>2, Zenon
  <2>6. QED
    BY <1>1, <2>3, <2>4, <2>5 DEF FeedClimb, queueVars, TypeInv, TypeOK, Holding, Locked, FeedPlaces
<1>2. CASE FeedLower
  <2>1. est \in Nat
    BY ConstantsAssumption DEF TypeInv, TypeOK
  <2>2. (est \div 100) * 100 \in Nat
    BY <2>1
  <2>3. Lowered \in Nat
    BY <2>2 DEF Lowered, TypeInv, TypeOK
  <2>4. cur' \in Nat /\ prev' \in Nat /\ timer' \in BOOLEAN /\ feed' \in {"setLowered", "add"}
    <3>1. CASE UNCHANGED <<cur, prev, timer>> /\ feed' = "add"
      BY <3>1 DEF TypeInv, TypeOK
    <3>2. CASE prev' = 0 /\ cur' = Lowered /\ timer' = TRUE /\ feed' = "setLowered"
      BY <3>2, <2>3
    <3>3. QED
      BY <1>2, <3>1, <3>2, Zenon DEF FeedLower
  <2>5. QED
    BY <1>2, <2>4 DEF FeedLower, queueVars, TypeInv, TypeOK, Holding, Locked, FeedPlaces
<1>3. CASE FeedSetBitrate
  BY <1>3 DEF FeedSetBitrate, queueVars, TypeInv, TypeOK, Holding, Locked, FeedPlaces
<1>4. QED
  BY <1>1, <1>2, <1>3

LEMMA SenderTypes ==
    ASSUME TypeInv, Sender
    PROVE  TypeInv'
<1>1. CASE SenderTake
  BY <1>1 DEF SenderTake, Front, rateVars, TypeInv, TypeOK, Holding, Locked
<1>2. CASE SenderSent
  BY <1>2 DEF SenderSent, TypeInv, TypeOK, Holding, Locked
<1>3. CASE SenderFails
  BY <1>3 DEF SenderFails, rateVars, TypeInv, TypeOK, Holding, Locked, StreamStates
<1>4. CASE SenderStopped
  BY <1>4 DEF SenderStopped, rateVars, queueVars, TypeInv, TypeOK, Holding, Locked, StreamStates
<1>5. CASE SenderReset
  BY <1>5 DEF SenderReset, queueVars, TypeInv, TypeOK, Holding, Locked, StreamStates
<1>6. CASE SenderSetBitrate
  BY <1>6 DEF SenderSetBitrate, queueVars, TypeInv, TypeOK, Holding, Locked, StreamStates
<1>7. CASE SenderEnd
  BY <1>7 DEF SenderEnd, rateVars, TypeInv, TypeOK, Holding, Locked, StreamStates
<1>8. QED
  BY <1>1, <1>2, <1>3, <1>4, <1>5, <1>6, <1>7 DEF Sender

LEMMA StartTypes ==
    ASSUME TypeInv, StartStream
    PROVE  TypeInv'
<1>1. wanted' \in Settings /\ encoder' \in Nat
  BY ConstantsAssumption DEF StartStream, TypeInv, TypeOK
<1>2. fed' \in 0 .. MaxPackets /\ streams' \in 0 .. MaxStreams
  BY ConstantsAssumption DEF StartStream, TypeInv, TypeOK
<1>3. queue' \subseteq 0 .. fed' - 1 /\ sent' \subseteq 0 .. fed' - 1 /\ queue' \cap sent' = {}
  BY DEF StartStream
<1>4. QED
  BY <1>1, <1>2, <1>3
     DEF StartStream, TypeInv, TypeOK, Holding, Locked, FeedPlaces, StreamStates

LEMMA NextTypes ==
    ASSUME TypeInv, [Next]_vars
    PROVE  TypeInv'
<1>1. CASE FeedEnter
  <2>1. fed \in Nat /\ fed < MaxPackets
    BY <1>1, ConstantsAssumption DEF FeedEnter, TypeInv, TypeOK
  <2>2. fed' \in 0 .. MaxPackets /\ 0 .. fed - 1 \subseteq 0 .. fed' - 1
    BY <1>1, <2>1, ConstantsAssumption DEF FeedEnter
  <2>3. QED
    BY <1>1, <2>1, <2>2
       DEF FeedEnter, rateVars, TypeInv, TypeOK, Holding, Locked, FeedPlaces, StreamStates
<1>2. CASE FeedLock
  <2>1. fed \in Nat /\ fed < MaxPackets
    BY <1>2, ConstantsAssumption DEF FeedLock, TypeInv, TypeOK
  <2>2. fed' \in 0 .. MaxPackets /\ 0 .. fed - 1 \subseteq 0 .. fed' - 1
    BY <1>2, <2>1, ConstantsAssumption DEF FeedLock
  <2>3. QED
    BY <1>2, <2>1, <2>2
       DEF FeedLock, rateVars, TypeInv, TypeOK, Holding, Locked, FeedPlaces, StreamStates
<1>3. CASE FeedAdd
  BY <1>3, FeedAddTypes
<1>4. CASE FeedClimb \/ FeedLower \/ FeedSetBitrate
  BY <1>4, FeedRateTypes
<1>5. CASE Sender
  BY <1>5, SenderTypes
<1>6. CASE StartStream
  BY <1>6, StartTypes
<1>7. CASE UNCHANGED vars
  BY <1>7 DEF vars, queueVars, rateVars, TypeInv, TypeOK, Holding, Locked
<1>8. QED
  BY <1>1, <1>2, <1>3, <1>4, <1>5, <1>6, <1>7 DEF Next, Feed

\* Everything stays in its domain, a packet is queued or sent and never both, and no stop finds
\* the feed inside the queue.
THEOREM TypeCorrect == Spec => []TypeOK
<1>1. TypeInv /\ [Next]_vars => TypeInv'
  BY NextTypes
<1>2. TypeInv => TypeOK
  BY DEF TypeInv
<1>3. QED
  BY <1>1, <1>2, InitTypes, PTL DEF Spec

-----------------------------------------------------------------------------
\* A lowered bitrate has its timer set as long as the stream is on: no branch of
\* dbr_inc_bitrate, dbr_bitrate_lowered or init_connect forgets to bring it back.
THEOREM ClimbNeverForgotten == Spec => []ClimbPending
<1>1. Init => ClimbPending
  BY DEF Init, ClimbPending
<1>2. TypeInv /\ ClimbPending /\ [Next]_vars => ClimbPending'
  <2> SUFFICES ASSUME TypeInv, ClimbPending, [Next]_vars PROVE ClimbPending'
    OBVIOUS
  <2>1. CASE FeedClimb
    BY <2>1 DEF FeedClimb, ClimbPending
  <2>2. CASE FeedLower
    BY <2>2 DEF FeedLower, ClimbPending
  <2>3. CASE StartStream
    BY <2>3, ConstantsAssumption DEF StartStream, ClimbPending, TypeInv, TypeOK
  <2>4. CASE FeedEnter \/ FeedLock \/ FeedSetBitrate \/ FeedAdd \/ UNCHANGED vars
    BY <2>4 DEF FeedEnter, FeedLock, FeedSetBitrate, FeedAdd, rateVars, vars, ClimbPending
  <2>5. CASE Sender
    BY <2>5 DEF Sender, SenderTake, SenderSent, SenderFails, SenderStopped, SenderReset,
                SenderSetBitrate, SenderEnd, queueVars, rateVars, ClimbPending
  <2>6. QED
    BY <2>1, <2>2, <2>3, <2>4, <2>5 DEF Next, Feed
<1>3. TypeInv /\ [Next]_vars => TypeInv'
  BY NextTypes
<1>4. QED
  BY <1>1, <1>2, <1>3, InitTypes, PTL DEF Spec

-----------------------------------------------------------------------------
\* What holds of the bitrates as long as the feed has not raced the restoration.
\* Between a change of dbr_cur_bitrate and dbr_set_bitrate the encoder lags behind it.
RateInv ==
    raced \/
    /\ stream # "over" => orig = wanted /\ 50 <= cur /\ cur <= wanted
    /\ prev = 0 \/ (50 <= prev /\ prev <= wanted)
    /\ stream \in {"on", "stopping", "lost"} =>
          encoder = cur \/ feed \in {"setClimbed", "setLowered"}
    /\ stream = "reset" => cur = wanted
    /\ stream = "restored" => encoder = wanted /\ cur = wanted
    /\ stream = "over" => encoder = wanted
    /\ stream \in {"reset", "restored"} => feed \notin RatePlaces
    /\ feed \in RatePlaces => dbr
    /\ ~dbr => cur = orig

\* Rounding an estimate to hundreds never raises it.
LEMMA RoundedDown ==
    ASSUME NEW e \in Nat
    PROVE  (e \div 100) * 100 \in Nat /\ (e \div 100) * 100 <= e
  OBVIOUS

LEMMA LowerKeepsRate ==
    ASSUME NEW b \in Settings, Settings = {b}, TypeInv, RateInv, FeedLower
    PROVE  RateInv'
<1>1. CASE ~raced'
  <2>1. ~raced /\ stream \in {"on", "lost"}
    BY <1>1 DEF FeedLower, TypeInv, TypeOK, Holding, Locked, StreamStates
  <2>2. /\ wanted = b /\ orig = b /\ 50 <= b /\ b \in Nat
        /\ cur \in Nat /\ 50 <= cur /\ cur <= b /\ prev \in Nat /\ est \in Nat /\ dbr
        /\ encoder = cur
    BY <2>1, ConstantsAssumption DEF RateInv, TypeInv, TypeOK, FeedLower, RatePlaces
  <2>3. CASE prev' = 0 /\ cur' = Lowered /\ Lowered \notin {0, cur} /\ feed' = "setLowered"
    <3>1. 50 <= cur' /\ cur' <= b
      BY <2>1, <2>2, <2>3, RoundedDown DEF Lowered, RateInv
    <3>2. QED
      BY <2>1, <2>2, <2>3, <3>1 DEF FeedLower, RateInv, RatePlaces
  <2>4. CASE UNCHANGED <<cur, prev>> /\ feed' = "add"
    BY <2>1, <2>2, <2>4 DEF FeedLower, RateInv, RatePlaces
  <2>5. QED
    BY <2>3, <2>4, Zenon DEF FeedLower
<1>2. CASE raced'
  BY <1>2 DEF RateInv
<1>3. QED
  BY <1>1, <1>2

LEMMA ClimbKeepsRate ==
    ASSUME NEW b \in Settings, Settings = {b}, TypeInv, RateInv, FeedClimb
    PROVE  RateInv'
<1>1. CASE ~raced'
  <2>1. ~raced /\ stream \in {"on", "lost"}
    BY <1>1 DEF FeedClimb, TypeInv, TypeOK, Holding, Locked, StreamStates
  <2>2. /\ wanted = b /\ orig = b /\ 50 <= b /\ b \in Nat
        /\ cur \in Nat /\ 50 <= cur /\ cur <= b /\ dbr /\ encoder = cur
    BY <2>1, ConstantsAssumption DEF RateInv, TypeInv, TypeOK, FeedClimb, RatePlaces
  <2>3. b \div 10 \in Nat
    BY <2>2
  <2>4. CASE /\ prev' = cur /\ feed' = "setClimbed"
             /\ cur' = IF cur + orig \div 10 >= orig THEN orig ELSE cur + orig \div 10
    <3>1. 50 <= cur' /\ cur' <= b
      BY <2>2, <2>3, <2>4
    <3>2. QED
      BY <2>1, <2>2, <2>4, <3>1 DEF FeedClimb, RateInv, RatePlaces
  <2>5. CASE UNCHANGED <<cur, prev>> /\ feed' = "lower"
    BY <2>1, <2>2, <2>5 DEF FeedClimb, RateInv, RatePlaces
  <2>6. QED
    BY <2>4, <2>5, Zenon DEF FeedClimb
<1>2. CASE raced'
  BY <1>2 DEF RateInv
<1>3. QED
  BY <1>1, <1>2

LEMMA NextKeepsRate ==
    ASSUME NEW b \in Settings, Settings = {b}, TypeInv, RateInv, [Next]_vars
    PROVE  RateInv'
<1>1. CASE FeedEnter
  BY <1>1 DEF FeedEnter, rateVars, RateInv, RatePlaces, TypeInv, TypeOK
<1>2. CASE FeedLock
  BY <1>2 DEF FeedLock, rateVars, RateInv, RatePlaces, TypeInv, TypeOK
<1>3. CASE FeedClimb
  BY <1>3, ClimbKeepsRate
<1>4. CASE FeedLower
  BY <1>4, LowerKeepsRate
<1>5. CASE FeedSetBitrate
  BY <1>5 DEF FeedSetBitrate, RateInv, RatePlaces, TypeInv, TypeOK, Holding, Locked, StreamStates
<1>6. CASE FeedAdd
  BY <1>6 DEF FeedAdd, rateVars, RateInv, RatePlaces
<1>7. CASE SenderTake \/ SenderSent \/ SenderFails
  BY <1>7 DEF SenderTake, SenderSent, SenderFails, rateVars, RateInv, RatePlaces, TypeInv, TypeOK
<1>8. CASE SenderStopped
  BY <1>8 DEF SenderStopped, queueVars, rateVars, RateInv, RatePlaces
<1>9. CASE SenderReset
  BY <1>9 DEF SenderReset, RateInv, RatePlaces, TypeInv, TypeOK
<1>10. CASE SenderSetBitrate \/ SenderEnd
  BY <1>10 DEF SenderSetBitrate, SenderEnd, rateVars, RateInv, RatePlaces, TypeInv, TypeOK
<1>11. CASE StartStream
  <2>1. /\ wanted = b /\ wanted' = b /\ b >= 50 /\ b \in Nat /\ encoder' = encoder
        /\ feed' = "idle" /\ stream' = "on" /\ stream = "over" /\ raced' = raced /\ prev' = prev
        /\ orig' = encoder' /\ cur' = encoder'
    BY <1>11, ConstantsAssumption DEF StartStream, TypeInv, TypeOK
  <2>2. QED
    BY <2>1 DEF RateInv, RatePlaces
<1>12. CASE UNCHANGED vars
  BY <1>12 DEF vars, rateVars, RateInv, RatePlaces
<1>13. QED
  BY <1>1, <1>2, <1>3, <1>4, <1>5, <1>6, <1>7, <1>8, <1>9, <1>10, <1>11, <1>12
     DEF Next, Feed, Sender

\* While the user leaves the encoder's setting alone: neither estimates, nor going back to an
\* earlier bitrate, nor climbing, leave the range from 50 to the original bitrate.
THEOREM BitrateBounded ==
    ASSUME NEW b \in Settings, Settings = {b}
    PROVE  Spec => []BitrateInRange
<1>1. Init => RateInv
  BY DEF Init, RateInv, RatePlaces
<1>2. TypeInv /\ RateInv /\ [Next]_vars => TypeInv' /\ RateInv'
  BY NextKeepsRate, NextTypes
<1>3. TypeInv /\ RateInv => BitrateInRange
  BY DEF RateInv, BitrateInRange, TypeInv, TypeOK
<1>4. QED
  BY <1>1, <1>2, <1>3, InitTypes, PTL DEF Spec

\* While the user leaves the encoder's setting alone: a stream that has ended leaves the encoder
\* with it, unless the feed raced the restoration.
THEOREM BitrateGivenBack ==
    ASSUME NEW b \in Settings, Settings = {b}
    PROVE  Spec => []BitrateRestored
<1>1. Init => RateInv
  BY DEF Init, RateInv, RatePlaces
<1>2. TypeInv /\ RateInv /\ [Next]_vars => TypeInv' /\ RateInv'
  BY NextKeepsRate, NextTypes
<1>3. TypeInv /\ RateInv => BitrateRestored
  BY DEF RateInv, BitrateRestored, TypeInv, TypeOK
<1>4. QED
  BY <1>1, <1>2, <1>3, InitTypes, PTL DEF Spec

-----------------------------------------------------------------------------
\* Audio goes through: until the connection is lost every audio packet fed is queued or sent.
AudioThrough ==
    stream = "on" => \A j \in 0 .. fed - 1 : IsAudio(j) => j \in queue \cup sent

AudioInv == AudioKept /\ AudioThrough

LEMMA DropsKeepAudio ==
    /\ AfterDrops.q \subseteq queue
    /\ \A j \in queue : IsAudio(j) => j \in AfterDrops.q
  BY DEF AfterDrops, AfterBDrop, DropFrames

LEMMA FeedAddKeepsAudio ==
    ASSUME TypeInv, AudioInv, FeedAdd
    PROVE  AudioInv'
<1>1. fed \in Nat /\ fed' = fed + 1 /\ sent' = sent /\ stream' = stream
  BY ConstantsAssumption DEF FeedAdd, TypeInv, TypeOK
<1>2. queue' \subseteq queue \cup {fed}
  BY DropsKeepAudio DEF FeedAdd
<1>3. \A j \in queue : IsAudio(j) => j \in queue'
  BY DropsKeepAudio DEF FeedAdd
<1>4. IsAudio(fed) => fed \in queue'
  BY DEF FeedAdd
<1>5. \A k \in sent : k \in Nat /\ k < fed
  BY <1>1 DEF TypeInv, TypeOK
<1>6. AudioKept'
  BY <1>1, <1>2, <1>5 DEF AudioInv, AudioKept
<1>7. AudioThrough'
  BY <1>1, <1>3, <1>4 DEF AudioInv, AudioThrough
<1>8. QED
  BY <1>6, <1>7 DEF AudioInv

LEMMA TakeKeepsAudio ==
    ASSUME TypeInv, AudioInv, SenderTake
    PROVE  AudioInv'
<1>1. PICK k \in queue : Front(k) /\ queue' = queue \ {k} /\ sent' = sent \cup {k}
  BY DEF SenderTake, Front
<1>2. /\ fed \in Nat /\ queue \subseteq 0 .. fed - 1 /\ sent \subseteq 0 .. fed - 1
      /\ fed' = fed /\ stream = "on" /\ stream' = stream
  BY ConstantsAssumption DEF SenderTake, TypeInv, TypeOK
<1>3. \A j \in queue' : k < j
  BY <1>1, <1>2 DEF Front
<1>4. \A j \in 0 .. k : IsAudio(j) => j \in sent'
  <2>1. TAKE j \in 0 .. k
  <2>2. HAVE IsAudio(j)
  <2>3. j \in 0 .. fed - 1
    BY <1>1, <1>2
  <2>4. j \in queue \cup sent
    BY <1>2, <2>2, <2>3 DEF AudioInv, AudioThrough
  <2>5. QED
    BY <1>1, <1>2, <2>3, <2>4 DEF Front
<1>5. AudioKept'
  BY <1>1, <1>3, <1>4 DEF AudioInv, AudioKept
<1>6. AudioThrough'
  BY <1>1, <1>2 DEF AudioInv, AudioThrough
<1>7. QED
  BY <1>5, <1>6 DEF AudioInv

LEMMA NextKeepsAudio ==
    ASSUME TypeInv, AudioInv, [Next]_vars
    PROVE  AudioInv'
<1>1. CASE FeedEnter
  BY <1>1 DEF FeedEnter, AudioInv, AudioKept, AudioThrough
<1>2. CASE FeedLock
  BY <1>2 DEF FeedLock, AudioInv, AudioKept, AudioThrough
<1>3. CASE FeedClimb \/ FeedLower \/ FeedSetBitrate
  BY <1>3 DEF FeedClimb, FeedLower, FeedSetBitrate, queueVars, AudioInv, AudioKept, AudioThrough
<1>4. CASE FeedAdd
  BY <1>4, FeedAddKeepsAudio
<1>5. CASE SenderTake
  BY <1>5, TakeKeepsAudio
<1>6. CASE SenderSent \/ SenderFails \/ SenderEnd
  BY <1>6 DEF SenderSent, SenderFails, SenderEnd, AudioInv, AudioKept, AudioThrough
<1>7. CASE SenderStopped \/ SenderReset \/ SenderSetBitrate
  BY <1>7 DEF SenderStopped, SenderReset, SenderSetBitrate, queueVars,
              AudioInv, AudioKept, AudioThrough
<1>8. CASE StartStream
  BY <1>8 DEF StartStream, AudioInv, AudioKept, AudioThrough
<1>9. CASE UNCHANGED vars
  BY <1>9 DEF vars, queueVars, AudioInv, AudioKept, AudioThrough
<1>10. QED
  BY <1>1, <1>2, <1>3, <1>4, <1>5, <1>6, <1>7, <1>8, <1>9 DEF Next, Feed, Sender

\* drop_frames spares audio: in front of what is sent nothing of it is missing, and what is still
\* queued is later.
THEOREM AudioNeverDropped == Spec => []AudioKept
<1>1. Init => AudioInv
  BY DEF Init, AudioInv, AudioKept, AudioThrough
<1>2. TypeInv /\ AudioInv /\ [Next]_vars => TypeInv' /\ AudioInv'
  BY NextKeepsAudio, NextTypes
<1>3. AudioInv => AudioKept
  BY DEF AudioInv
<1>4. QED
  BY <1>1, <1>2, <1>3, InitTypes, PTL DEF Spec

-----------------------------------------------------------------------------
\* Time stamps do not go back from one packet to the next.
LEMMA DtsMonotone ==
    ASSUME NEW j \in Nat, NEW k \in Nat, j <= k
    PROVE  Dts(j) \in Nat /\ Dts(j) <= Dts(k)
<1> DEFINE w == Width
           p == j \div w
           q == k \div w
<1>1. w \in Nat \ {0}
  BY ConstantsAssumption DEF Width
<1> HIDE DEF w
<1>2. p \in Nat /\ q \in Nat /\ w * p <= j /\ k < w * (q + 1)
  BY <1>1
<1> HIDE DEF p, q
<1>3. w * p < w * (q + 1)
  <2>1. w * p \in Nat /\ w * (q + 1) \in Nat
    BY <1>1, <1>2
  <2>2. QED
    BY <1>2, <2>1
<1>4. p < q + 1
  BY <1>1, <1>2, <1>3
<1>5. QED
  BY <1>2, <1>4 DEF p, q, w, Dts

LEMMA NextSpanCounts ==
    ASSUME TypeInv, SpanCounts, [Next]_vars
    PROVE  SpanCounts'
<1>1. CASE FeedAdd
  <2>1. fed \in Nat /\ queue \subseteq 0 .. fed - 1
    BY <1>1, ConstantsAssumption DEF TypeInv, TypeOK
  <2>2. CASE queue' \subseteq queue \cup {fed} /\ lastDts' = Dts(fed)
    BY <2>1, <2>2, DtsMonotone DEF SpanCounts, Waiting
  <2>3. CASE IsAudio(fed) /\ queue' = queue \cup {fed} /\ lastDts' = lastDts
    BY <2>3 DEF SpanCounts, Waiting
  <2>4. CASE queue' \subseteq queue /\ lastDts' = lastDts
    BY <2>4 DEF SpanCounts, Waiting
  <2>5. QED
    BY <1>1, <2>2, <2>3, <2>4, DropsKeepAudio DEF FeedAdd
<1>2. CASE queue' \subseteq queue /\ lastDts' = lastDts
  BY <1>2 DEF SpanCounts, Waiting
<1>3. CASE StartStream
  BY <1>3 DEF StartStream, SpanCounts, Waiting
<1>4. QED
  BY <1>1, <1>2, <1>3
     DEF Next, Feed, Sender, FeedEnter, FeedLock, FeedClimb, FeedLower, FeedSetBitrate,
         SenderTake, SenderSent, SenderFails, SenderStopped, SenderReset, SenderSetBitrate, SenderEnd,
         queueVars, vars

\* The span of check_to_drop_frames and dbr_bitrate_lowered, a difference of unsigned numbers
\* whose last_dts_usec may be of an earlier stream, never wraps.
THEOREM SpanNeverWraps == Spec => []SpanCounts
<1>1. Init => SpanCounts
  BY DEF Init, SpanCounts, Waiting
<1>2. TypeInv /\ SpanCounts /\ [Next]_vars => TypeInv' /\ SpanCounts'
  BY NextSpanCounts, NextTypes
<1>3. QED
  BY <1>1, <1>2, InitTypes, PTL DEF Spec

-----------------------------------------------------------------------------
\* Division with a remainder

\* Quotient and remainder
LEMMA DivMod ==
    ASSUME NEW w \in Nat \ {0}, NEW k \in Nat
    PROVE  /\ k \div w \in Nat /\ k % w \in Nat /\ k % w < w
           /\ k = w * (k \div w) + (k % w)
  OBVIOUS

\* The quotient grows with the number.
LEMMA DivMonotone ==
    ASSUME NEW w \in Nat \ {0}, NEW j \in Nat, NEW k \in Nat, j <= k
    PROVE  j \div w <= k \div w
<1> DEFINE p == j \div w
           q == k \div w
<1>1. p \in Nat /\ q \in Nat /\ w * p <= j /\ k < w * (q + 1)
  OBVIOUS
<1> HIDE DEF p, q
<1>2. w * p < w * (q + 1)
  <2>1. w * p \in Nat /\ w * (q + 1) \in Nat
    BY <1>1
  <2>2. QED
    BY <1>1, <2>1
<1>3. p < q + 1
  BY <1>1, <1>2
<1>4. QED
  BY <1>1, <1>3 DEF p, q

\* The quotient is the only one.
LEMMA DivUnique ==
    ASSUME NEW w \in Nat \ {0}, NEW d \in Nat, NEW r \in 0 .. w - 1
    PROVE  w * d + r \in Nat /\ (w * d + r) \div w = d /\ (w * d + r) % w = r
<1> DEFINE k == w * d + r
           q == k \div w
           m == k % w
<1>1. w * d \in Nat
  OBVIOUS
<1>2. k \in Nat
  BY <1>1
<1>3. q \in Nat /\ m \in Nat /\ m < w /\ k = w * q + m
  BY <1>2, DivMod
<1>4. k = w * d + r
  OBVIOUS
<1> HIDE DEF k, q, m
<1>5. w * q \in Nat /\ w * (q + 1) = w * q + w /\ w * (d + 1) = w * d + w
  BY <1>1, <1>3
<1>6. ~ (q < d)
  <2>1. SUFFICES ASSUME q < d PROVE FALSE
    OBVIOUS
  <2>2. w * (q + 1) <= w * d
    <3>1. q + 1 <= d /\ q + 1 \in Nat
      BY <1>3, <2>1
    <3>2. QED
      BY <3>1
  <2>3. QED
    BY <1>1, <1>3, <1>4, <1>5, <2>2
<1>7. ~ (d < q)
  <2>1. SUFFICES ASSUME d < q PROVE FALSE
    OBVIOUS
  <2>2. w * (d + 1) <= w * q
    <3>1. d + 1 <= q /\ d + 1 \in Nat
      BY <1>3, <2>1
    <3>2. QED
      BY <1>3, <3>1
  <2>3. QED
    BY <1>1, <1>3, <1>4, <1>5, <2>2
<1>8. q = d
  BY <1>3, <1>6, <1>7
<1>9. m = r
  BY <1>1, <1>3, <1>4, <1>8
<1>10. QED
  BY <1>2, <1>8, <1>9 DEF k, q, m

-----------------------------------------------------------------------------
\* Packets of a track

\* There is something to divide by.
LEMMA Widths == Width \in Nat \ {0} /\ GopLen \in Nat \ {0} /\ VideoTracks \in Nat \ {0}
BY ConstantsAssumption DEF Width

\* A packet is its time stamp and its track.
LEMMA Coordinates ==
    ASSUME NEW k \in Nat
    PROVE  /\ Dts(k) \in Nat /\ Track(k) \in 0 .. Width - 1
           /\ k = Width * Dts(k) + Track(k)
<1>1. Width \in Nat \ {0}
  BY Widths
<1>2. /\ k \div Width \in Nat /\ k % Width \in Nat /\ k % Width < Width
      /\ k = Width * (k \div Width) + (k % Width)
  BY <1>1, DivMod
<1>3. k % Width \in 0 .. Width - 1
  BY <1>1, <1>2
<1>4. QED
  BY <1>2, <1>3, Zenon DEF Dts, Track

\* On one track time stamps grow.
LEMMA TrackGrows ==
    ASSUME NEW j \in Nat, NEW k \in Nat, Track(j) = Track(k), j < k
    PROVE  Dts(j) < Dts(k)
<1>1. Dts(j) \in Nat /\ Dts(k) \in Nat /\ Dts(j) <= Dts(k)
  BY DtsMonotone
<1>2. Dts(j) # Dts(k)
  <2>1. j = Width * Dts(j) + Track(j) /\ k = Width * Dts(k) + Track(k)
    BY Coordinates
  <2>2. QED
    BY <2>1
<1>3. QED
  BY <1>1, <1>2

\* The packet of another track at the same time
LEMMA Sibling ==
    ASSUME NEW j \in Nat, NEW k \in Nat, Track(j) = Track(k), j < k, NEW i \in j .. k
    PROVE  \E s \in j .. k : Track(s) = Track(k) /\ Dts(s) = Dts(i)
<1> DEFINE w == Width
           t == Track(k)
           s == w * Dts(i) + t
<1>1. w \in Nat \ {0} /\ i \in Nat
  BY Widths
<1>2. /\ Dts(i) \in Nat /\ Dts(j) \in Nat /\ Dts(k) \in Nat /\ t \in 0 .. w - 1
      /\ j = w * Dts(j) + t /\ k = w * Dts(k) + t
  BY <1>1, Coordinates
<1>3. s \in Nat /\ s \div w = Dts(i) /\ s % w = t
  <2> HIDE DEF w, t
  <2>1. QED
    BY <1>1, <1>2, DivUnique
<1>4. Dts(j) <= Dts(i) /\ Dts(i) <= Dts(k)
  BY <1>1, DtsMonotone
<1>5. s \in j .. k
  <2> DEFINE a == w * Dts(j)
             b == w * Dts(i)
             c == w * Dts(k)
  <2>1. s = b + t /\ j = a + t /\ k = c + t
    BY <1>2
  <2> HIDE DEF w, t, s
  <2>2. a <= b /\ b <= c /\ a \in Nat /\ b \in Nat /\ c \in Nat
    BY <1>1, <1>2, <1>4
  <2>3. t \in Nat
    BY <1>1, <1>2
  <2> HIDE DEF a, b, c
  <2>4. QED
    BY <2>1, <2>2, <2>3
<1>6. Track(s) = t /\ Dts(s) = Dts(i)
  BY <1>3 DEF Track, Dts
<1>7. QED
  BY <1>5, <1>6

\* All tracks have the same kind of frame at the same time.
LEMMA AlignedTracks ==
    ASSUME NEW i \in Nat, NEW s \in Nat, Dts(i) = Dts(s), ~ IsAudio(i), ~ IsAudio(s)
    PROVE  Priority(i) = Priority(s)
BY DEF Priority, IsKey

\* Only keyframes have the highest priority.
LEMMA Priorities ==
    ASSUME NEW k
    PROVE  /\ Priority(k) \in {Disposable, Low, High, Highest}
           /\ ~ IsKey(k) => Priority(k) \in {Disposable, Low, High}
           /\ IsKey(k) => Priority(k) = Highest
BY DEF Priority

\* Frames between two of a group are of the group, and no later keyframe is among them.
LEMMA WithinGroup ==
    ASSUME NEW j \in Nat, NEW k \in Nat, SameGop(j, k), j < k, NEW i \in j .. k
    PROVE  /\ Dts(i) \div GopLen = Dts(k) \div GopLen
           /\ Dts(j) % GopLen # 0 => Dts(i) % GopLen # 0
           /\ i # j /\ Track(i) = Track(k) => Dts(i) % GopLen # 0
<1> DEFINE g == GopLen
           d == Dts(i) \div g
           e == Dts(j) \div g
<1>1. g \in Nat \ {0} /\ i \in Nat
  BY Widths
<1>2. /\ Dts(i) \in Nat /\ Dts(j) \in Nat /\ Dts(k) \in Nat
      /\ Dts(j) <= Dts(i) /\ Dts(i) <= Dts(k)
  BY <1>1, DtsMonotone, Coordinates
<1>3. d = Dts(k) \div g /\ e = Dts(k) \div g
  <2> DEFINE f == Dts(k) \div g
  <2>1. e <= d /\ d <= f /\ e \in Nat /\ d \in Nat /\ f \in Nat
    <3> HIDE DEF g
    <3>1. e <= d
      BY <1>1, <1>2, DivMonotone
    <3>2. d <= f
      BY <1>1, <1>2, DivMonotone
    <3>3. e \in Nat /\ d \in Nat /\ f \in Nat
      BY <1>1, <1>2, DivMod
    <3>4. QED
      BY <3>1, <3>2, <3>3
  <2>2. e = f
    BY DEF SameGop
  <2> HIDE DEF d, e, f
  <2>3. d = f /\ e = f
    BY <2>1, <2>2
  <2>4. QED
    BY <2>3 DEF f
<1>4. /\ Dts(i) = g * d + (Dts(i) % g) /\ Dts(i) % g \in Nat
      /\ Dts(j) = g * e + (Dts(j) % g) /\ Dts(j) % g \in Nat
      /\ d \in Nat /\ e \in Nat
  <2> HIDE DEF g
  <2>1. QED
    BY <1>1, <1>2, DivMod
<1>5. Dts(i) % g = 0 => Dts(i) = Dts(j) /\ Dts(j) % g = 0
  <2>1. SUFFICES ASSUME Dts(i) % g = 0 PROVE Dts(i) = Dts(j) /\ Dts(j) % g = 0
    OBVIOUS
  <2> DEFINE c == g * d
             x == Dts(j) % g
  <2>2. Dts(i) = c /\ Dts(j) = c + x /\ x \in Nat
    <3>1. c \in Nat
      BY <1>1, <1>4
    <3>2. d = e
      BY <1>3
    <3>3. QED
      BY <1>4, <2>1, <3>1, <3>2
  <2> HIDE DEF c, x
  <2>3. x = 0 /\ Dts(i) = Dts(j)
    BY <1>2, <2>2
  <2>4. QED
    BY <2>3 DEF x
<1>6. i # j /\ Track(i) = Track(k) => Dts(j) < Dts(i)
  <2>1. SUFFICES ASSUME i # j, Track(i) = Track(k) PROVE Dts(j) < Dts(i)
    OBVIOUS
  <2>2. Track(j) = Track(i) /\ j < i
    BY <1>1, <2>1 DEF SameGop
  <2>3. QED
    BY <1>1, <2>2, TrackGrows
<1>7. QED
  BY <1>2, <1>3, <1>5, <1>6

\* When a frame is given up for its priority, so is every frame, on every track, until the last
\* that refers to it.
LEMMA GivenUpTogether ==
    ASSUME NEW j \in Nat, NEW k \in Nat, Refers(k, j), NEW h \in {High, Highest},
           Priority(j) < h, NEW i \in j .. k, ~ IsAudio(i)
    PROVE  Priority(i) < h
<1>1. SameGop(j, k) /\ Track(j) = Track(k) /\ j < k /\ ~ IsAudio(k) /\ i \in Nat
  BY DEF Refers, SameGop
<1>2. CASE h = High
  <2>1. PICK s \in j .. k : Track(s) = Track(k) /\ Dts(s) = Dts(i)
    BY <1>1, Sibling
  <2>2. Dts(s) \div GopLen = Dts(k) \div GopLen
    BY <1>1, WithinGroup
  <2>3. SameGop(s, k) /\ ~ IsAudio(s) /\ s \in Nat
    BY <1>1, <2>1, <2>2 DEF SameGop, IsAudio
  <2>4. Priority(j) \in Nat /\ Priority(j) < High
    BY <1>2, Priorities DEF Disposable, Low, High, Highest
  <2>5. \A x \in j .. k : SameGop(x, k) => Priority(x) < High
    BY <2>4 DEF Refers, High
  <2>6. Priority(s) = Priority(i)
    BY <1>1, <2>1, <2>3, AlignedTracks
  <2>7. QED
    BY <1>2, <2>3, <2>5, <2>6
<1>3. CASE h = Highest
  <2>1. ~ IsKey(j)
    BY <1>3, Priorities DEF Highest
  <2>2. Dts(j) % GopLen # 0
    BY <1>1, <2>1 DEF IsKey, IsAudio
  <2>3. ~ IsKey(i)
    BY <1>1, <2>2, WithinGroup DEF IsKey
  <2>4. QED
    BY <1>3, <2>3, Priorities DEF Disposable, Low, High, Highest
<1>4. QED
  BY <1>2, <1>3

-----------------------------------------------------------------------------
(***************************************************************************)
(* What is sent can be decoded.                                            *)
(***************************************************************************)

(* What is sent, and what is kept in a queue q, can be decoded from them, and a
   frame to come that could not be will not be accepted: min_priority, m, stays
   above every frame up to it. *)
Decodes(q, m) ==
    /\ q \subseteq queue /\ m \in {0, High, Highest}
    /\ \A k \in q \cup sent : \A j \in 0 .. k : Refers(k, j) => j \in q \cup sent
    /\ \A j \in 0 .. fed - 1 : j \notin q \cup sent =>
          \A k \in Nat : k >= fed /\ Refers(k, j) =>
              \A i \in fed .. k : IsAudio(i) \/ Priority(i) < m

KeptDecodable == stream = "on" => Decodes(queue, min)

DecodeInv == SentDecodable /\ KeptDecodable /\ \A k \in sent : \A j \in queue : k < j

\* One call of check_to_drop_frames that drops: the frames that are left still can be decoded, and
\* those to come that cannot will be refused.
LEMMA DroppedTogether ==
    ASSUME queue \subseteq 0 .. fed - 1, sent \subseteq 0 .. fed - 1, fed \in Nat,
           \A k \in sent : \A j \in queue : k < j,
           NEW q, NEW m, Decodes(q, m), NEW h \in {High, Highest}
    PROVE  Decodes(DropFrames(q, h), RaiseMin(m, h))
<1> DEFINE p == DropFrames(q, h)
           n == RaiseMin(m, h)
<1>0. /\ q \subseteq queue /\ m \in {0, High, Highest}
      /\ \A k \in q \cup sent : \A j \in 0 .. k : Refers(k, j) => j \in q \cup sent
      /\ \A j \in 0 .. fed - 1 : j \notin q \cup sent =>
            \A k \in Nat : k >= fed /\ Refers(k, j) =>
                \A i \in fed .. k : IsAudio(i) \/ Priority(i) < m
  BY DEF Decodes
<1>1. /\ p \subseteq q
      /\ \A k \in q : k \in p <=> IsAudio(k) \/ Priority(k) >= h
  BY DEF DropFrames
<1>2. n \in {0, High, Highest} /\ m <= n /\ h <= n
  BY <1>0 DEF RaiseMin, High, Highest
<1>3. \A k : Priority(k) \in 0 .. 3
  BY Priorities DEF Disposable, Low, High, Highest
<1>4. h \in Nat /\ n \in Nat /\ m \in Nat
  BY <1>0, <1>2 DEF High, Highest
<1> HIDE DEF p, n
<1>5. ASSUME NEW k \in p \cup sent, NEW j \in 0 .. k, Refers(k, j)
      PROVE  j \in p \cup sent
  <2>1. k \in Nat /\ j \in Nat /\ j < k /\ ~ IsAudio(k)
    BY <1>0, <1>1, <1>5 DEF Refers
  <2>2. j \in q \cup sent
    BY <1>0, <1>1, <1>5
  <2>3. SUFFICES ASSUME j \in q, j \notin p PROVE FALSE
    BY <2>2
  <2>4. Priority(j) < h
    BY <1>1, <1>3, <1>4, <2>3
  <2>5. Priority(k) < h
    <3>1. k \in j .. k
      BY <2>1
    <3>2. QED
      BY <1>5, <2>1, <2>4, <3>1, GivenUpTogether
  <2>6. k \notin p
    BY <1>1, <1>3, <1>4, <2>1, <2>5
  <2>7. k < j
    BY <1>0, <1>5, <2>3, <2>6
  <2>8. QED
    BY <2>1, <2>7
<1>6. ASSUME NEW j \in 0 .. fed - 1, j \notin p \cup sent,
             NEW k \in Nat, k >= fed, Refers(k, j), NEW i \in fed .. k, ~ IsAudio(i)
      PROVE  Priority(i) < n
  <2>1. CASE j \notin q \cup sent
    <3>1. Priority(i) < m
      BY <1>0, <1>6, <2>1
    <3>2. QED
      BY <1>2, <1>3, <1>4, <3>1
  <2>2. CASE j \in q
    <3>1. Priority(j) < h
      BY <1>1, <1>3, <1>4, <1>6, <2>2
    <3>2. i \in j .. k /\ j \in Nat
      BY <1>6
    <3>3. Priority(i) < h
      BY <1>6, <3>1, <3>2, GivenUpTogether
    <3>4. QED
      BY <1>2, <1>3, <1>4, <3>3
  <2>3. QED
    BY <1>6, <2>1, <2>2
<1>7. QED
  BY <1>0, <1>1, <1>2, <1>5, <1>6 DEF p, n, Decodes

\* A new packet, after whatever was dropped for it
LEMMA FeedAddKeepsDecodable ==
    ASSUME TypeInv, DecodeInv, FeedAdd
    PROVE  DecodeInv'
<1>1. /\ fed \in Nat /\ fed' = fed + 1 /\ sent' = sent /\ stream' = stream
      /\ queue \subseteq 0 .. fed - 1 /\ sent \subseteq 0 .. fed - 1
      /\ min \in {0, High, Highest}
  BY ConstantsAssumption DEF FeedAdd, TypeInv, TypeOK
<1> DEFINE q == AfterDrops.q
           m == AfterDrops.m
<1>2. q \subseteq queue
  BY DropsKeepAudio
<1>3. queue' \subseteq queue \cup {fed}
  BY <1>2 DEF FeedAdd
<1>4. \A k \in sent' : \A j \in queue' : k < j
  BY <1>1, <1>3 DEF DecodeInv
<1>5. SentDecodable'
  BY <1>1 DEF DecodeInv, SentDecodable
<1>6. ASSUME stream = "on"
      PROVE  Decodes(q, m)
  <2> DEFINE b == AfterBDrop.q
             n == AfterBDrop.m
  <2>1. Decodes(queue, min) /\ \A k \in sent : \A j \in queue : k < j
    BY <1>6 DEF DecodeInv, KeptDecodable
  <2>2. Decodes(b, n)
    <3>1. \/ b = queue /\ n = min
          \/ b = DropFrames(queue, High) /\ n = RaiseMin(min, High)
      BY DEF AfterBDrop
    <3> HIDE DEF b, n
    <3>2. QED
      BY <1>1, <2>1, <3>1, DroppedTogether
  <2>3. \/ q = b /\ m = n
        \/ q = DropFrames(b, Highest) /\ m = RaiseMin(n, Highest)
    BY DEF AfterDrops
  <2> HIDE DEF b, n, q, m
  <2>4. QED
    BY <1>1, <2>1, <2>2, <2>3, DroppedTogether
<1>7. \/ IsAudio(fed) /\ queue' = queue \cup {fed} /\ min' = min
      \/ ~ IsAudio(fed) /\ Priority(fed) < m /\ queue' = q /\ min' = m
      \/ ~ IsAudio(fed) /\ Priority(fed) >= m /\ queue' = q \cup {fed} /\ min' = 0
  BY DEF FeedAdd
<1>8. \A k : Priority(k) \in 0 .. 3
  BY Priorities DEF Disposable, Low, High, Highest
<1> HIDE DEF q, m
<1> USE DEF Decodes
<1>9. ASSUME stream = "on", NEW k \in queue' \cup sent, NEW j \in 0 .. k, Refers(k, j)
      PROVE  j \in queue' \cup sent
  <2>1. ~ IsAudio(k) /\ j < k /\ j \in Nat /\ k \in Nat
    BY <1>1, <1>3, <1>9 DEF Refers
  <2>2. CASE IsAudio(fed) /\ queue' = queue \cup {fed}
    <3>1. k \in queue \cup sent
      BY <1>9, <2>1, <2>2
    <3>2. j \in queue \cup sent
      BY <1>9, <3>1 DEF DecodeInv, KeptDecodable
    <3>3. QED
      BY <2>2, <3>2
  <2>3. CASE queue' = q
    BY <1>6, <1>9, <2>3
  <2>4. CASE ~ IsAudio(fed) /\ Priority(fed) >= m /\ queue' = q \cup {fed}
    <3>1. CASE k \in q \cup sent
      BY <1>6, <1>9, <2>4, <3>1
    <3>2. CASE k = fed
      <4>1. j \in 0 .. fed - 1 /\ fed \in fed .. k
        BY <1>1, <2>1, <3>2
      <4>2. ~ (Priority(fed) < m)
        BY <1>6, <1>8, <1>9, <2>4 DEF High, Highest
      <4>3. j \in q \cup sent
        BY <1>1, <1>6, <1>9, <2>1, <2>4, <3>2, <4>1, <4>2
      <4>4. QED
        BY <2>4, <4>3
    <3>3. QED
      BY <1>9, <2>4, <3>1, <3>2
  <2>5. QED
    BY <1>7, <2>2, <2>3, <2>4
<1>10. ASSUME stream = "on", NEW j \in 0 .. fed, j \notin queue' \cup sent,
              NEW k \in Nat, k >= fed + 1, Refers(k, j), NEW i \in fed + 1 .. k, ~ IsAudio(i)
       PROVE  Priority(i) < min'
  <2>1. ~ IsAudio(j) /\ ~ IsAudio(k) /\ j < k /\ j \in Nat /\ i \in fed .. k /\ i \in j .. k
        /\ k >= fed
    BY <1>1, <1>10 DEF Refers, SameGop, IsAudio
  <2>2. CASE IsAudio(fed) /\ queue' = queue \cup {fed} /\ min' = min
    <3>1. j \in 0 .. fed - 1 /\ j \notin queue \cup sent
      BY <1>1, <1>10, <2>1, <2>2
    <3>2. QED
      BY <1>10, <2>1, <2>2, <3>1 DEF DecodeInv, KeptDecodable
  <2>3. CASE ~ IsAudio(fed) /\ Priority(fed) < m /\ queue' = q /\ min' = m
    <3>1. CASE j = fed
      <4>1. m \in {High, Highest}
        BY <1>6, <1>8, <1>10, <2>3
      <4>2. QED
        BY <1>10, <2>1, <2>3, <3>1, <4>1, GivenUpTogether
    <3>2. CASE j # fed
      <4>1. j \in 0 .. fed - 1 /\ j \notin q \cup sent
        BY <1>1, <1>10, <2>3, <3>2
      <4>2. QED
        BY <1>6, <1>10, <2>1, <2>3, <4>1
    <3>3. QED
      BY <3>1, <3>2
  <2>4. CASE ~ IsAudio(fed) /\ Priority(fed) >= m /\ queue' = q \cup {fed} /\ min' = 0
    <3>1. j \in 0 .. fed - 1 /\ j \notin q \cup sent
      BY <1>1, <1>10, <2>4
    <3>2. fed \in fed .. k
      BY <1>1, <1>10
    <3>3. Priority(fed) < m
      BY <1>6, <1>10, <2>1, <2>4, <3>1, <3>2
    <3>4. QED
      BY <1>6, <1>8, <1>10, <2>4, <3>3 DEF High, Highest
  <2>5. QED
    BY <1>7, <2>2, <2>3, <2>4
<1>11. KeptDecodable'
  <2>1. min' \in {0, High, Highest} \/ stream # "on"
    BY <1>1, <1>6, <1>7
  <2>2. QED
    BY <1>1, <1>9, <1>10, <2>1 DEF KeptDecodable
<1>12. QED
  BY <1>4, <1>5, <1>11 DEF DecodeInv

\* What is sent is the front of the queue: what it refers to has been sent.
LEMMA TakeKeepsDecodable ==
    ASSUME TypeInv, DecodeInv, SenderTake
    PROVE  DecodeInv'
<1>1. PICK k \in queue : Front(k) /\ queue' = queue \ {k} /\ sent' = sent \cup {k}
  BY DEF SenderTake, Front
<1>2. /\ fed \in Nat /\ queue \subseteq 0 .. fed - 1 /\ sent \subseteq 0 .. fed - 1
      /\ fed' = fed /\ min' = min /\ stream = "on" /\ stream' = stream
  BY ConstantsAssumption DEF SenderTake, TypeInv, TypeOK
<1>3. queue' \cup sent' = queue \cup sent
  BY <1>1
<1>4. KeptDecodable'
  BY <1>2, <1>3 DEF DecodeInv, KeptDecodable, Decodes
<1>5. \A j \in queue' : k < j
  BY <1>1, <1>2 DEF Front
<1>6. \A s \in sent' : \A j \in queue' : s < j
  BY <1>1, <1>5 DEF DecodeInv
<1>7. \A j \in 0 .. k : Refers(k, j) => j \in sent
  <2>1. TAKE j \in 0 .. k
  <2>2. HAVE Refers(k, j)
  <2>3. j \in queue \cup sent
    BY <1>1, <1>2, <2>2 DEF DecodeInv, KeptDecodable, Decodes
  <2>4. j < k /\ k \in Nat /\ j \in Nat
    BY <1>2, <2>2 DEF Refers
  <2>5. QED
    BY <1>1, <2>3, <2>4 DEF Front
<1>8. SentDecodable'
  BY <1>1, <1>7 DEF DecodeInv, SentDecodable
<1>9. QED
  BY <1>4, <1>6, <1>8 DEF DecodeInv

\* What is sent and what is kept stay decodable in every step.
LEMMA NextKeepsDecodable ==
    ASSUME TypeInv, DecodeInv, [Next]_vars
    PROVE  DecodeInv'
<1> USE DEF DecodeInv, SentDecodable, KeptDecodable, Decodes
<1>1. CASE FeedEnter
  BY <1>1 DEF FeedEnter
<1>2. CASE FeedLock
  BY <1>2 DEF FeedLock
<1>3. CASE FeedClimb \/ FeedLower \/ FeedSetBitrate
  BY <1>3 DEF FeedClimb, FeedLower, FeedSetBitrate, queueVars
<1>4. CASE FeedAdd
  BY <1>4, FeedAddKeepsDecodable
<1>5. CASE SenderTake
  BY <1>5, TakeKeepsDecodable
<1>6. CASE SenderSent \/ SenderFails \/ SenderEnd
  BY <1>6 DEF SenderSent, SenderFails, SenderEnd
<1>7. CASE SenderStopped \/ SenderReset \/ SenderSetBitrate
  BY <1>7 DEF SenderStopped, SenderReset, SenderSetBitrate, queueVars
<1>8. CASE StartStream
  BY <1>8 DEF StartStream
<1>9. CASE UNCHANGED vars
  BY <1>9 DEF vars, queueVars
<1>10. QED
  BY <1>1, <1>2, <1>3, <1>4, <1>5, <1>6, <1>7, <1>8, <1>9 DEF Next, Feed, Sender

\* drop_frames and min_priority, for any number of video tracks, length of groups and thresholds:
\* whatever is dropped, a frame that is sent can be decoded.
THEOREM SentAlwaysDecodable == Spec => []SentDecodable
<1>1. Init => DecodeInv
  BY DEF Init, DecodeInv, SentDecodable, KeptDecodable, Decodes
<1>2. TypeInv /\ DecodeInv /\ [Next]_vars => TypeInv' /\ DecodeInv'
  BY NextKeepsDecodable, NextTypes
<1>3. DecodeInv => SentDecodable
  BY DEF DecodeInv
<1>4. QED
  BY <1>1, <1>2, <1>3, InitTypes, PTL DEF Spec

-----------------------------------------------------------------------------
(***************************************************************************)
(* The delay the queue adds is bounded.                                    *)
(***************************************************************************)

\* There is a first in every set of packets.
LEMMA FirstIn ==
    ASSUME NEW S, S \subseteq Nat, S # {}
    PROVE  First(S) \in S /\ \A j \in S : First(S) <= j
<1>1. PICK x \in S : \A y \in S : ~ (<<y, x>> \in OpToRel(<, Nat))
  BY NatLessThanWellFounded, WFMin
<1>2. \A y \in S : x \in Nat /\ y \in Nat /\ ~ (y < x)
  BY <1>1 DEF OpToRel
<1>3. \A y \in S : x <= y
  BY <1>2
<1>4. QED
  BY <1>3 DEF First

\* The place of a frame in its group grows by one, or a new group begins.
LEMMA NextPlace ==
    ASSUME NEW g \in Nat \ {0}, NEW x \in Nat
    PROVE  (x + 1) % g = (x % g) + 1 \/ (x + 1) % g = 0
<1> DEFINE q == x \div g
           r == x % g
<1>1. q \in Nat /\ r \in Nat /\ r < g /\ x = g * q + r
  BY DivMod
<1> HIDE DEF q, r
<1>2. g * q \in Nat /\ g * (q + 1) = g * q + g
  BY <1>1
<1>3. CASE r + 1 < g
  <2>1. r + 1 \in 0 .. g - 1 /\ x + 1 = g * q + (r + 1)
    BY <1>1, <1>2, <1>3
  <2>2. (g * q + (r + 1)) % g = r + 1
    BY <1>1, <2>1, DivUnique
  <2>3. QED
    BY <2>1, <2>2 DEF r
<1>4. CASE ~ (r + 1 < g)
  <2>1. r + 1 = g /\ q + 1 \in Nat /\ 0 \in 0 .. g - 1
    BY <1>1, <1>4
  <2>2. x + 1 = g * (q + 1) + 0
    BY <1>1, <1>2, <2>1
  <2>3. (g * (q + 1) + 0) % g = 0
    BY <2>1, DivUnique
  <2>4. QED
    BY <2>2, <2>3
<1>5. QED
  BY <1>3, <1>4

\* At one of three times in a row there is a keyframe or a frame that others refer to.
LEMMA ReferenceSoon ==
    ASSUME NEW d \in Nat
    PROVE  \E x \in d + 1 .. d + 3 : x % GopLen = 0 \/ (x % GopLen) % 3 = 1
<1> DEFINE a == (d + 1) % GopLen
           b == (d + 2) % GopLen
           c == (d + 3) % GopLen
<1>1. GopLen \in Nat \ {0}
  BY Widths
<1>2. b = a + 1 \/ b = 0
  <2>1. ((d + 1) + 1) % GopLen = ((d + 1) % GopLen) + 1 \/ ((d + 1) + 1) % GopLen = 0
    <3>1. d + 1 \in Nat
      OBVIOUS
    <3>2. QED
      BY <1>1, <3>1, NextPlace
  <2>2. (d + 1) + 1 = d + 2
    OBVIOUS
  <2>3. QED
    BY <2>1, <2>2
<1>3. c = b + 1 \/ c = 0
  <2>1. ((d + 2) + 1) % GopLen = ((d + 2) % GopLen) + 1 \/ ((d + 2) + 1) % GopLen = 0
    <3>1. d + 2 \in Nat
      OBVIOUS
    <3>2. QED
      BY <1>1, <3>1, NextPlace
  <2>2. (d + 2) + 1 = d + 3
    OBVIOUS
  <2>3. QED
    BY <2>1, <2>2
<1>4. a \in Nat
  BY <1>1
<1> HIDE DEF a, b, c
<1>5. b = 0 \/ c = 0 \/ a % 3 = 1 \/ b % 3 = 1 \/ c % 3 = 1
  BY <1>2, <1>3, <1>4
<1>6. d + 1 \in d + 1 .. d + 3 /\ d + 2 \in d + 1 .. d + 3 /\ d + 3 \in d + 1 .. d + 3
  OBVIOUS
<1>7. QED
  BY <1>5, <1>6 DEF a, b, c

\* When no frame after lastDts but those nothing refers to, or only B-frames, has gone by, the next
\* packet is within the gap.
LEMMA GapSmall ==
    ASSUME fed \in Nat, lastDts \in Nat,
           \A i \in 0 .. fed - 1 : ~ IsAudio(i) /\ Dts(i) > lastDts => Priority(i) < High
    PROVE  Dts(fed) <= lastDts + ReferenceGap
<1>1. SUFFICES ASSUME Dts(fed) > lastDts + 3 PROVE FALSE
  BY Coordinates DEF ReferenceGap
<1>2. PICK x \in lastDts + 1 .. lastDts + 3 : x % GopLen = 0 \/ (x % GopLen) % 3 = 1
  BY ReferenceSoon
<1>3. Width \in Nat \ {0} /\ VideoTracks \in Nat \ {0} /\ x \in Nat /\ 0 \in 0 .. Width - 1
  BY Widths, <1>2
<1> DEFINE i == Width * x + 0
<1>4. i \in Nat /\ Dts(i) = x /\ Track(i) = 0
  BY <1>3, DivUnique DEF Dts, Track
<1> HIDE DEF i
<1>5. ~ IsAudio(i)
  BY <1>3, <1>4 DEF IsAudio
<1>6. i < fed
  <2>1. SUFFICES ASSUME fed <= i PROVE FALSE
    BY <1>4
  <2>2. Dts(fed) <= x /\ Dts(fed) \in Nat
    BY <1>4, <2>1, DtsMonotone
  <2>3. QED
    BY <1>1, <1>2, <2>2
<1>7. Priority(i) < High
  BY <1>2, <1>4, <1>5, <1>6
<1>8. Priority(i) >= High
  BY <1>2, <1>4, <1>5 DEF Priority, IsKey, High, Highest
<1>9. QED
  BY <1>7, <1>8, Priorities DEF Disposable, Low, High, Highest

\* After audio a video packet comes.
LEMMA AudioAlone ==
    ASSUME NEW k \in Nat \ {0}, IsAudio(k)
    PROVE  ~ IsAudio(k - 1)
<1> DEFINE d == Dts(k)
           v == VideoTracks
           w == Width
<1>1. v \in Nat \ {0} /\ w = v + 1 /\ w \in Nat \ {0}
  BY Widths DEF Width
<1>2. d \in Nat /\ k = w * d + v
  BY Coordinates DEF IsAudio
<1>3. Track(w * d + (v - 1)) = v - 1
  <2> HIDE DEF d, v, w
  <2>1. v - 1 \in 0 .. w - 1
    BY <1>1
  <2>2. (w * d + (v - 1)) % w = v - 1
    BY <1>1, <1>2, <2>1, DivUnique
  <2>3. QED
    BY <2>2 DEF Track, w
<1>4. k - 1 = w * d + (v - 1)
  <2> DEFINE c == w * d
  <2>1. c \in Nat /\ k = c + v
    BY <1>1, <1>2
  <2> HIDE DEF c, v
  <2>2. k - 1 = c + (v - 1)
    BY <1>1, <2>1
  <2>3. QED
    BY <2>2 DEF c
<1>5. QED
  BY <1>1, <1>3, <1>4 DEF IsAudio

\* The feed goes on to add what it has been given.
Going == stream = "on" \/ Locked

Bound(n) ==
    (~dbr /\ Cardinality(queue) >= n /\ Waiting(queue) # {})
        => Span(queue) <= PDropThreshold + ReferenceGap

\* When a keyframe is wanted, nothing waits; while something waits, frames were refused only if
\* nothing refers to them, or only B-frames; and before a video packet, which may find the queue
\* too long, at most one packet is added without a look at it.
BoundInv ==
    /\ min = Highest => Waiting(queue) = {}
    /\ Going /\ ~dbr /\ Waiting(queue) # {} =>
          \A i \in 0 .. fed - 1 : ~ IsAudio(i) /\ Dts(i) > lastDts => Priority(i) < High
    /\ Going /\ fed > 0 /\ ~ IsAudio(fed - 1) => Bound(Few + 1)
    /\ Bound(Few + 2)

\* The queue is finite, and so is the time it spans.
LEMMA QueueFinite ==
    ASSUME TypeInv
    PROVE  /\ IsFiniteSet(queue) /\ Cardinality(queue) \in Nat /\ fed \in Nat
           /\ queue \subseteq Nat /\ \A k \in queue : k < fed
<1>1. fed \in Nat /\ queue \subseteq 0 .. fed - 1
  BY ConstantsAssumption DEF TypeInv, TypeOK
<1>2. IsFiniteSet(queue)
  <2>1. IsFiniteSet(0 .. fed - 1)
    <3>1. fed - 1 \in Int /\ 0 \in Int
      BY <1>1
    <3>2. QED
      BY <3>1, FS_Interval
  <2>2. queue \in SUBSET (0 .. fed - 1)
    BY <1>1
  <2>3. QED
    BY <2>1, <2>2, FS_Subset
<1>3. QED
  BY <1>1, <1>2, FS_CardinalityType

\* Of fewer packets the span is no longer.
LEMMA SpanShrinks ==
    ASSUME TypeInv, NEW q, q \subseteq queue, Waiting(q) # {}
    PROVE  /\ Waiting(queue) # {} /\ Span(q) <= Span(queue)
           /\ Cardinality(q) <= Cardinality(queue) /\ Cardinality(q) \in Nat /\ IsFiniteSet(q)
           /\ Span(q) \in Int /\ Span(queue) \in Int
<1>1. Waiting(q) \subseteq Waiting(queue) /\ Waiting(queue) \subseteq Nat
  BY QueueFinite DEF Waiting
<1>2. First(Waiting(q)) \in Waiting(queue) /\ First(Waiting(queue)) \in Waiting(queue)
  BY <1>1, FirstIn
<1>3. First(Waiting(queue)) <= First(Waiting(q))
  BY <1>1, <1>2, FirstIn
<1>4. /\ Dts(First(Waiting(queue))) <= Dts(First(Waiting(q)))
      /\ Dts(First(Waiting(queue))) \in Nat /\ Dts(First(Waiting(q))) \in Nat
  BY <1>1, <1>2, <1>3, DtsMonotone
<1>5. lastDts \in Nat
  BY DEF TypeInv, TypeOK
<1>6. IsFiniteSet(q) /\ Cardinality(q) <= Cardinality(queue) /\ Cardinality(q) \in Nat
  BY QueueFinite, FS_Subset, FS_CardinalityType
<1>7. QED
  BY <1>1, <1>4, <1>5, <1>6 DEF Span

\* Taking packets out, and ending, change nothing for the worse.
LEMMA ShrinkKeepsBound ==
    ASSUME TypeInv, BoundInv, queue' \subseteq queue, min' = min, lastDts' = lastDts, dbr' = dbr,
           Going' => Going /\ fed' = fed
    PROVE  BoundInv'
<1>1. Waiting(queue') \subseteq Waiting(queue)
  BY DEF Waiting
<1>2. ASSUME NEW n \in Nat, Bound(n)
      PROVE  Bound(n)'
  <2>1. SUFFICES ASSUME ~dbr, Cardinality(queue') >= n, Waiting(queue') # {}
                 PROVE  lastDts - Dts(First(Waiting(queue'))) <= PDropThreshold + ReferenceGap
    BY DEF Bound, Span
  <2>2. /\ Waiting(queue) # {} /\ Span(queue') <= Span(queue)
        /\ Cardinality(queue') <= Cardinality(queue) /\ Cardinality(queue') \in Nat
        /\ Span(queue') \in Int /\ Span(queue) \in Int /\ Cardinality(queue) \in Nat
    BY <2>1, SpanShrinks, QueueFinite
  <2>3. Span(queue) <= PDropThreshold + ReferenceGap
    BY <1>2, <2>1, <2>2 DEF Bound
  <2>4. Span(queue') <= PDropThreshold + ReferenceGap
    BY <2>2, <2>3, ConstantsAssumption DEF ReferenceGap
  <2>5. QED
    BY <2>4 DEF Span
<1>3. Few + 1 \in Nat /\ Few + 2 \in Nat
  BY ConstantsAssumption
<1>4. QED
  BY <1>1, <1>2, <1>3 DEF BoundInv

\* What AfterDrops leaves: within the threshold, if it is long enough to be looked at.
LEMMA DropsBound ==
    ASSUME TypeInv, BoundInv
    PROVE  LET q == AfterDrops.q
               m == AfterDrops.m
           IN  /\ q \subseteq queue /\ m \in {0, High, Highest}
               /\ m = Highest => Waiting(q) = {}
               /\ ~dbr /\ Cardinality(q) >= Few /\ Waiting(q) # {} => Span(q) <= PDropThreshold
<1> DEFINE q == AfterDrops.q
           m == AfterDrops.m
           b == AfterBDrop.q
           n == AfterBDrop.m
<1>1. \A p : Waiting(DropFrames(p, Highest)) = {}
  BY Priorities DEF Waiting, DropFrames, Disposable, Low, High, Highest
<1>2. b \subseteq queue /\ n \in {0, High, Highest} /\ (n = Highest => min = Highest)
  BY DEF AfterBDrop, DropFrames, RaiseMin, TypeInv, TypeOK, High, Highest
<1>3. n = Highest => Waiting(b) = {}
  BY <1>2 DEF BoundInv, Waiting
<1>4. CASE ~dbr /\ Exceeds(b, PDropThreshold)
  <2>1. q = DropFrames(b, Highest) /\ m = RaiseMin(n, Highest)
    BY <1>4 DEF AfterDrops
  <2>2. q \subseteq b /\ m = Highest /\ Waiting(q) = {}
    BY <1>1, <1>2, <2>1 DEF DropFrames, RaiseMin, High, Highest
  <2>3. QED
    BY <1>2, <2>2
<1>5. CASE ~ (~dbr /\ Exceeds(b, PDropThreshold))
  <2>1. q = b /\ m = n
    BY <1>5 DEF AfterDrops
  <2>2. ASSUME ~dbr, Cardinality(b) >= Few, Waiting(b) # {}
        PROVE  Span(b) <= PDropThreshold
    <3>1. Span(b) \in Int
      BY <1>2, <2>2, SpanShrinks
    <3>2. ~ (Span(b) > PDropThreshold)
      BY <1>5, <2>2 DEF Exceeds
    <3>3. QED
      BY <3>1, <3>2, ConstantsAssumption
  <2>3. QED
    BY <1>2, <1>3, <2>1, <2>2
<1>6. QED
  BY <1>4, <1>5

\* A packet of audio is added without a look at the queue, but the one before it was video.
LEMMA AudioKeepsBound ==
    ASSUME TypeInv, BoundInv, FeedAdd, IsAudio(fed)
    PROVE  BoundInv'
<1>1. /\ Going /\ fed \in Nat /\ fed' = fed + 1 /\ queue' = queue \cup {fed}
      /\ min' = min /\ lastDts' = lastDts /\ dbr' = dbr
  BY QueueFinite DEF FeedAdd, Going, Locked
<1>2. Waiting(queue') = Waiting(queue)
  BY <1>1 DEF Waiting
<1>3. IsAudio(fed' - 1)
  <2>1. fed' - 1 = fed
    BY <1>1
  <2>2. QED
    BY <2>1
<1>4. Bound(Few + 2)'
  <2>1. SUFFICES ASSUME ~dbr, Cardinality(queue') >= Few + 2, Waiting(queue) # {}
                 PROVE  Span(queue) <= PDropThreshold + ReferenceGap
    BY <1>1, <1>2 DEF Bound, Span
  <2>2. Cardinality(queue) \in Nat /\ Cardinality(queue') <= Cardinality(queue) + 1
    BY <1>1, QueueFinite, FS_AddElement
  <2>3. Cardinality(queue) >= Few + 1
    <3>1. Cardinality(queue') \in {Cardinality(queue), Cardinality(queue) + 1}
      BY <1>1, QueueFinite, FS_AddElement
    <3>2. QED
      BY <2>1, <2>2, <3>1, ConstantsAssumption
  <2>4. fed > 0
    BY <1>1, <2>1, QueueFinite DEF Waiting
  <2>5. ~ IsAudio(fed - 1)
    BY <1>1, <2>4, AudioAlone
  <2>6. QED
    BY <1>1, <2>1, <2>3, <2>4, <2>5 DEF BoundInv, Bound
<1>5. \A i \in 0 .. fed' - 1 : i \in 0 .. fed - 1 \/ IsAudio(i)
  BY <1>1
<1>6. (Going /\ ~dbr /\ Waiting(queue) # {} =>
          \A i \in 0 .. fed - 1 : ~ IsAudio(i) /\ Dts(i) > lastDts => Priority(i) < High)'
  BY <1>1, <1>2, <1>5 DEF BoundInv
<1>7. (min = Highest => Waiting(queue) = {})'
  BY <1>1, <1>2 DEF BoundInv
<1>8. QED
  BY <1>3, <1>4, <1>6, <1>7 DEF BoundInv

\* A frame is refused, after whatever was dropped.
LEMMA RefusalKeepsBound ==
    ASSUME TypeInv, BoundInv, FeedAdd, ~ IsAudio(fed), Priority(fed) < AfterDrops.m
    PROVE  BoundInv'
<1> DEFINE q == AfterDrops.q
           m == AfterDrops.m
<1>1. /\ Going /\ fed \in Nat /\ fed' = fed + 1 /\ dbr' = dbr
      /\ lastDts \in Nat
  BY QueueFinite DEF FeedAdd, Going, Locked, TypeInv, TypeOK
<1>2. \A k : Priority(k) \in 0 .. 3
  BY Priorities DEF Disposable, Low, High, Highest
<1>3. /\ q \subseteq queue /\ m \in {0, High, Highest}
      /\ m = Highest => Waiting(q) = {}
      /\ ~dbr /\ Cardinality(q) >= Few /\ Waiting(q) # {} => Span(q) <= PDropThreshold
  BY DropsBound
<1>4. queue' = q /\ min' = m /\ lastDts' = lastDts
  <2>1. ~ (Priority(fed) >= m)
    BY <1>2, <1>3 DEF High, Highest
  <2>2. QED
    BY <2>1 DEF FeedAdd
<1> HIDE DEF q
<1>5. Waiting(q) \subseteq Waiting(queue)
  BY <1>3 DEF Waiting
<1>6. ASSUME NEW n \in Nat, n >= Few
      PROVE  Bound(n)'
  <2>1. SUFFICES ASSUME ~dbr, Cardinality(q) >= n, Waiting(q) # {}
                 PROVE  Span(q) <= PDropThreshold + ReferenceGap
    BY <1>1, <1>4 DEF Bound, Span
  <2>2. Cardinality(q) \in Nat /\ Span(q) \in Int
    BY <1>3, <2>1, SpanShrinks
  <2>3. Cardinality(q) >= Few
    BY <1>6, <2>1, <2>2, ConstantsAssumption
  <2>4. QED
    BY <1>3, <2>1, <2>2, <2>3, ConstantsAssumption DEF ReferenceGap
<1>7. Bound(Few + 1)' /\ Bound(Few + 2)'
  <2>1. Few + 1 \in Nat /\ Few + 2 \in Nat /\ Few + 1 >= Few /\ Few + 2 >= Few
    BY ConstantsAssumption
  <2>2. QED
    BY <1>6, <2>1
<1>8. ASSUME ~dbr, Waiting(q) # {}, NEW i \in 0 .. fed, ~ IsAudio(i), Dts(i) > lastDts
      PROVE  Priority(i) < High
  <2>1. CASE i = fed
    <3>1. m \in {0, High} /\ Priority(fed) < m
      BY <1>3, <1>8
    <3>2. QED
      BY <1>2, <2>1, <3>1 DEF High
  <2>2. CASE i # fed
    <3>1. i \in 0 .. fed - 1 /\ Waiting(queue) # {}
      BY <1>1, <1>5, <1>8, <2>2
    <3>2. QED
      BY <1>1, <1>8, <3>1 DEF BoundInv
  <2>3. QED
    BY <2>1, <2>2
<1>9. fed' - 1 = fed
  BY <1>1
<1>10. (Going /\ ~dbr /\ Waiting(queue) # {} =>
           \A i \in 0 .. fed - 1 : ~ IsAudio(i) /\ Dts(i) > lastDts => Priority(i) < High)'
  BY <1>1, <1>4, <1>8, <1>9
<1>11. (min = Highest => Waiting(queue) = {})'
  BY <1>3, <1>4
<1>12. QED
  BY <1>7, <1>10, <1>11 DEF BoundInv

\* A frame is accepted: it is within the gap of the last that was.
LEMMA FrameKeepsBound ==
    ASSUME TypeInv, BoundInv, FeedAdd, ~ IsAudio(fed), Priority(fed) >= AfterDrops.m
    PROVE  BoundInv'
<1> DEFINE q == AfterDrops.q
           m == AfterDrops.m
           s == Waiting(q)
           t == Waiting(queue')
<1>1. /\ Going /\ fed \in Nat /\ fed' = fed + 1 /\ dbr' = dbr /\ lastDts \in Nat
      /\ Dts(fed) \in Nat
  BY QueueFinite, Coordinates DEF FeedAdd, Going, Locked, TypeInv, TypeOK
<1>2. \A k : Priority(k) \in 0 .. 3
  BY Priorities DEF Disposable, Low, High, Highest
<1>3. /\ q \subseteq queue /\ m \in {0, High, Highest}
      /\ ~dbr /\ Cardinality(q) >= Few /\ s # {} => Span(q) <= PDropThreshold
  BY DropsBound
<1>4. queue' = q \cup {fed} /\ min' = 0 /\ lastDts' = Dts(fed)
  <2>1. ~ (Priority(fed) < m)
    BY <1>2, <1>3 DEF High, Highest
  <2>2. QED
    BY <2>1 DEF FeedAdd
<1> HIDE DEF q, m
<1>5. s \subseteq Waiting(queue) /\ t \subseteq s \cup {fed} /\ s \subseteq Nat /\ t \subseteq Nat
  BY <1>1, <1>3, <1>4, QueueFinite DEF Waiting
<1>6. ASSUME ~dbr, Cardinality(q) >= Few, t # {}
      PROVE  Dts(fed) - Dts(First(t)) <= PDropThreshold + ReferenceGap
  <2>1. First(t) \in t
    BY <1>5, <1>6, FirstIn
  <2>2. CASE First(t) = fed
    BY <1>1, <2>2, ConstantsAssumption DEF ReferenceGap
  <2>3. CASE First(t) \in s
    <3>1. First(s) \in s /\ First(s) <= First(t) /\ s # {}
      BY <1>5, <2>3, FirstIn
    <3>2. Dts(First(s)) <= Dts(First(t)) /\ Dts(First(s)) \in Nat /\ Dts(First(t)) \in Nat
      BY <1>5, <2>1, <3>1, DtsMonotone, Coordinates
    <3>3. lastDts - Dts(First(s)) <= PDropThreshold
      BY <1>3, <1>6, <3>1 DEF Span
    <3>4. Dts(fed) <= lastDts + ReferenceGap
      BY <1>1, <1>5, <1>6, <3>1, GapSmall DEF BoundInv
    <3> DEFINE x == Dts(fed)
               y == Dts(First(s))
               z == Dts(First(t))
    <3>5. x \in Nat /\ y \in Nat /\ z \in Nat /\ y <= z
      BY <1>1, <3>2
    <3>6. lastDts - y <= PDropThreshold /\ x <= lastDts + ReferenceGap
      BY <3>3, <3>4
    <3> HIDE DEF x, y, z
    <3>7. x - z <= PDropThreshold + ReferenceGap
      BY <1>1, <3>5, <3>6, ConstantsAssumption DEF ReferenceGap
    <3>8. QED
      BY <3>7 DEF x, z
  <2>4. QED
    BY <1>5, <2>1, <2>2, <2>3
<1>7. IsFiniteSet(q) /\ Cardinality(q) \in Nat
  BY <1>3, QueueFinite, FS_Subset, FS_CardinalityType
<1>8. Cardinality(queue') \in {Cardinality(q), Cardinality(q) + 1}
  BY <1>4, <1>7, FS_AddElement
<1>9. ASSUME NEW n \in Nat, n >= Few + 1
      PROVE  Bound(n)'
  <2>1. SUFFICES ASSUME ~dbr, Cardinality(queue') >= n, t # {}
                 PROVE  Dts(fed) - Dts(First(t)) <= PDropThreshold + ReferenceGap
    BY <1>1, <1>4 DEF Bound, Span
  <2>2. Cardinality(q) >= Few
    BY <1>7, <1>8, <1>9, <2>1, ConstantsAssumption
  <2>3. QED
    BY <1>6, <2>1, <2>2
<1>10. Bound(Few + 1)' /\ Bound(Few + 2)'
  <2>1. Few + 1 \in Nat /\ Few + 2 \in Nat /\ Few + 1 >= Few + 1 /\ Few + 2 >= Few + 1
    BY ConstantsAssumption
  <2>2. QED
    BY <1>9, <2>1
<1>11. \A i \in 0 .. fed' - 1 : ~ (Dts(i) > lastDts')
  <2>1. \A i \in 0 .. fed' - 1 : i \in Nat /\ i <= fed
    BY <1>1
  <2>2. \A i \in 0 .. fed' - 1 : Dts(i) \in Nat /\ Dts(i) <= Dts(fed)
    BY <1>1, <2>1, DtsMonotone
  <2>3. QED
    BY <1>1, <1>4, <2>2
<1>12. (min = Highest => Waiting(queue) = {})'
  BY <1>4 DEF Highest
<1>13. QED
  BY <1>10, <1>11, <1>12 DEF BoundInv

\* The bound holds after every step.
LEMMA NextKeepsBound ==
    ASSUME TypeInv, BoundInv, [Next]_vars
    PROVE  BoundInv'
<1>1. CASE FeedEnter
  BY <1>1, ShrinkKeepsBound DEF FeedEnter, Going, Locked
<1>2. CASE FeedLock
  BY <1>2, ShrinkKeepsBound DEF FeedLock, Going, Locked
<1>3. CASE FeedClimb \/ FeedLower \/ FeedSetBitrate
  BY <1>3, ShrinkKeepsBound DEF FeedClimb, FeedLower, FeedSetBitrate, queueVars, Going, Locked
<1>4. CASE FeedAdd
  <2>1. Priority(fed) < AfterDrops.m \/ Priority(fed) >= AfterDrops.m
    BY DropsBound, Priorities DEF Disposable, Low, High, Highest
  <2>2. QED
    BY <1>4, <2>1, AudioKeepsBound, RefusalKeepsBound, FrameKeepsBound
<1>5. CASE SenderTake \/ SenderSent \/ SenderFails
  BY <1>5, ShrinkKeepsBound DEF SenderTake, SenderSent, SenderFails, Going, Locked
<1>6. CASE SenderStopped \/ SenderReset \/ SenderSetBitrate \/ SenderEnd
  BY <1>6, ShrinkKeepsBound
     DEF SenderStopped, SenderReset, SenderSetBitrate, SenderEnd, queueVars, Going, Locked
<1>7. CASE StartStream
  <2>1. queue' = {} /\ fed' = 0 /\ min' = 0
    BY <1>7 DEF StartStream
  <2>2. Waiting(queue') = {}
    BY <2>1 DEF Waiting
  <2>3. QED
    BY <2>1, <2>2 DEF BoundInv, Bound, Highest
<1>8. CASE UNCHANGED vars
  BY <1>8, ShrinkKeepsBound DEF vars, queueVars, Going, Locked
<1>9. QED
  BY <1>1, <1>2, <1>3, <1>4, <1>5, <1>6, <1>7, <1>8 DEF Next, Feed, Sender

\* check_to_drop_frames, for all thresholds: without dynamic bitrate the queue never spans more
\* than the threshold and the gap to the next frame that it lets through.
THEOREM DelayBounded == Spec => []QueueBounded
<1>1. Init => BoundInv
  BY DEF Init, BoundInv, Bound, Waiting, Highest
<1>2. TypeInv /\ BoundInv /\ [Next]_vars => TypeInv' /\ BoundInv'
  BY NextKeepsBound, NextTypes
<1>3. BoundInv => QueueBounded
  BY DEF BoundInv, Bound, QueueBounded
<1>4. QED
  BY <1>1, <1>2, <1>3, InitTypes, PTL DEF Spec

=============================================================================
