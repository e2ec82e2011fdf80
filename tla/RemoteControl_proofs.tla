------------------------- MODULE RemoteControl_proofs -------------------------
(***************************************************************************)
(* Theorems about RemoteControl, for any callers, delays and tokens and    *)
(* without regard to the number of requests, starts and server changes.    *)
(***************************************************************************)
EXTENDS RemoteControl, SequenceTheorems, TLAPS

\* What the poll thread is about to apply, and what it would apply after an
\* answer it cannot read, was sent by the server with remote control on.
OrderGranted ==
    /\ order # None => order \in granted
    /\ poller = "apply" => order # None
    /\ lastControl /\ lastDesired >= 0 => Truncate(lastDesired) \in granted

\* The poll thread asks and ends only when it has announced its last change,
\* and the plugin is unloaded only when it has ended.
PollAnnounced ==
    /\ poller # "wait" => ~announcing[Poll]
    /\ module = "unloaded" => poller = "done"

IInv == TypeOK /\ OrderGranted /\ PollAnnounced

\* The arithmetic of requests.
LEMMA DelayTypes ==
    /\ MaxDelay \in Nat /\ MaxAsks \in Nat /\ MaxWishes \in Nat
    /\ MaxTokens \in Nat /\ MaxStarts \in Nat
    /\ 0 \in Delays
    /\ \A d \in Nat : Clamp(d) \in Delays /\ Truncate(d) \in Nat
    /\ \A c \in Callers : c # Poll
    /\ Callers \subseteq Announcers /\ Poll \in Announcers
    /\ None \notin Nat /\ \A d \in Nat : d >= 0
<1>1. MaxDelay \in Nat /\ Width \in Nat \ {0}
  BY ConstantsAssumption
<1>2. \A d \in Nat : Clamp(d) \in Delays
  BY <1>1 DEF Clamp, Delays
<1>3. \A d \in Nat : Truncate(d) \in Nat
  BY <1>1 DEF Truncate
<1>4. QED
  BY <1>1, <1>2, <1>3, ConstantsAssumption DEF Delays, Announcers, None

\* swd_request_delay keeps the types.
LEMMA RequestTypes ==
    ASSUME TypeOK, NEW d \in Nat, Request(d)
    PROVE  /\ requested' = Clamp(d)
           /\ requested' \in Delays /\ target' \in Delays
           /\ attached' \in BOOLEAN /\ pacing' \in BOOLEAN
  BY DelayTypes DEF Request, TypeOK

LEMMA InitInv == Init => IInv
<1> SUFFICES ASSUME Init PROVE IInv
  OBVIOUS
<1>1. TypeOK
  <2>1. /\ announcing \in [Announcers -> BOOLEAN]
        /\ events \in Seq(Events)
        /\ requested \in Delays /\ target \in Delays /\ startArg \in Delays
    BY DelayTypes, EmptySeq DEF Init
  <2>2. /\ starts \in 0 .. MaxStarts /\ wishes \in 0 .. MaxWishes
        /\ asks \in 0 .. MaxAsks /\ pastes \in 0 .. MaxTokens
    BY DelayTypes DEF Init
  <2>3. QED
    BY <2>1, <2>2 DEF Init, TypeOK
<1>2. OrderGranted /\ PollAnnounced
  BY DelayTypes DEF Init, OrderGranted, PollAnnounced, Announcers
<1>3. QED
  BY <1>1, <1>2 DEF IInv

\* The queue of frontend events stays one.
LEMMA AppendEvent ==
    ASSUME NEW q \in Seq(Events), NEW e \in Events
    PROVE  Append(q, e) \in Seq(Events)
  BY AppendProperties

\* Every step keeps the types.
LEMMA StepTypes == TypeOK /\ OrderGranted /\ [Next]_vars => TypeOK'
<1> SUFFICES ASSUME TypeOK, OrderGranted, [Next]_vars PROVE TypeOK'
  OBVIOUS
<1> USE DEF bufferVars, outputVars, statusVars, pollVars, tellVars, serverVars, userVars,
         lifeVars, otherThanOutput, otherThanPoll
<1>1. ASSUME NEW c \in Callers, NEW d \in UserDelays, Ask(c, d)
      PROVE  TypeOK'
  <2>1. /\ requested' \in Delays /\ target' \in Delays
        /\ attached' \in BOOLEAN /\ pacing' \in BOOLEAN
    BY <1>1, RequestTypes, ConstantsAssumption DEF Ask
  <2>2. /\ announcing' \in [Announcers -> BOOLEAN]
        /\ asks' \in 0 .. MaxAsks
    BY <1>1, DelayTypes DEF Ask, TypeOK
  <2>3. QED
    BY <1>1, <2>1, <2>2 DEF Ask, TypeOK
<1>2. ASSUME NEW e \in Announcers, Announce(e)
      PROVE  TypeOK'
  <2>1. announcing' \in [Announcers -> BOOLEAN]
    BY <1>2 DEF Announce, TypeOK
  <2>2. QED
    BY <1>2, <2>1 DEF Announce, TypeOK
<1>3. CASE StartRead
  <2>1. starts' \in 0 .. MaxStarts /\ fresh' \in BOOLEAN
    BY <1>3, DelayTypes DEF StartRead, TypeOK
  <2>2. QED
    BY <1>3, <2>1 DEF StartRead, TypeOK
<1>4. CASE StartBuffer
  BY <1>4, DelayTypes DEF StartBuffer, TypeOK
<1>5. CASE StartAttach
  BY <1>5 DEF StartAttach, TypeOK
<1>6. CASE Connected
  <2>1. events' \in Seq(Events)
    BY <1>6, AppendEvent DEF Connected, Events, TypeOK
  <2>2. QED
    BY <1>6, <2>1 DEF Connected, TypeOK
<1>7. CASE ConnectionLost
  <2>1. events' \in Seq(Events)
    BY <1>7, AppendEvent DEF ConnectionLost, Events, TypeOK
  <2>2. stream' \in {"off", "retry"}
    BY <1>7 DEF ConnectionLost
  <2>3. QED
    BY <1>7, <2>1, <2>2 DEF ConnectionLost, TypeOK
<1>8. CASE Stop
  <2>1. events' \in Seq(Events)
    BY <1>8, AppendEvent DEF Stop, Events, TypeOK
  <2>2. attached' \in BOOLEAN /\ pacing' \in BOOLEAN
    BY <1>8 DEF Stop
  <2>3. QED
    BY <1>8, <2>1, <2>2 DEF Stop, TypeOK
<1>9. CASE GiveUp
  <2>1. events' \in Seq(Events)
    BY <1>9, AppendEvent DEF GiveUp, Events, TypeOK
  <2>2. QED
    BY <1>9, <2>1 DEF GiveUp, TypeOK
<1>10. CASE HandleEvent
  <2>1. events' \in Seq(Events)
    BY <1>10, HeadTailProperties DEF HandleEvent, TypeOK
  <2>2. ui' \in {"idle", "clear"} /\ streaming' \in BOOLEAN
    BY <1>10 DEF HandleEvent
  <2>3. QED
    BY <1>10, <2>1, <2>2 DEF HandleEvent, TypeOK
<1>11. CASE ClearDelay
  <2>1. /\ requested' \in Delays /\ target' \in Delays
        /\ attached' \in BOOLEAN /\ pacing' \in BOOLEAN
    BY <1>11, RequestTypes, DelayTypes DEF ClearDelay
  <2>2. asked' \in BOOLEAN
    BY <1>11 DEF ClearDelay
  <2>3. QED
    BY <1>11, <2>1, <2>2 DEF ClearDelay, TypeOK
<1>12. ASSUME NEW t \in Tokens \cup {NoToken}, SetToken(t)
      PROVE  TypeOK'
  <2>1. pastes' \in 0 .. MaxTokens
    BY <1>12, DelayTypes DEF SetToken, TypeOK
  <2>2. lastOk' \in BOOLEAN
    BY <1>12 DEF SetToken
  <2>3. QED
    BY <1>12, <2>1, <2>2 DEF SetToken, TypeOK
<1>13. CASE BeginUnload
  <2>1. running' \in BOOLEAN
    BY <1>13 DEF BeginUnload
  <2>2. QED
    BY <1>13, <2>1 DEF BeginUnload, TypeOK
<1>14. CASE EndUnload
  BY <1>14 DEF EndUnload, TypeOK
<1>15. CASE PollExit
  BY <1>15 DEF PollExit, TypeOK
<1>16. CASE PollAsk
  BY <1>16 DEF PollAsk, TypeOK
<1>17. ASSUME NEW a \in {"state", "junk", "refused", "failed"}, PollAnswer(a)
       PROVE  TypeOK'
  <2>1. wish.control \in BOOLEAN /\ wish.desired \in Nat \cup {None}
    BY ConstantsAssumption DEF TypeOK, Wishes
  <2>2. DesiredOf(a) \in Nat \cup {None}
    BY <2>1 DEF DesiredOf, TypeOK
  <2>3. order' \in Nat \cup {None}
    <3>1. DesiredOf(a) >= 0 => Truncate(DesiredOf(a)) \in Nat
      BY <2>2, DelayTypes DEF None
    <3>2. order' = None \/ (DesiredOf(a) >= 0 /\ order' = Truncate(DesiredOf(a)))
      BY <1>17 DEF PollAnswer
    <3>3. QED
      BY <3>1, <3>2
  <2>4. granted' \subseteq Nat
    <3>1. wish.desired >= 0 => Truncate(wish.desired) \in Nat
      BY <2>1, DelayTypes DEF None
    <3>2. granted' = granted
          \/ (wish.desired >= 0 /\ granted' = granted \cup {Truncate(wish.desired)})
      BY <1>17 DEF PollAnswer
    <3>3. QED
      BY <3>1, <3>2 DEF TypeOK
  <2>5. lastOk' \in BOOLEAN /\ lastControl' \in BOOLEAN /\ live' \in BOOLEAN
    BY <1>17, <2>1 DEF PollAnswer, TypeOK
  <2>6. lastError' \in {"none", "refused", "failed"}
    BY <1>17 DEF PollAnswer, ErrorOf, TypeOK
  <2>7. QED
    BY <1>17, <2>2, <2>3, <2>4, <2>5, <2>6 DEF PollAnswer, TypeOK
<1>18. CASE PollDecide
  BY <1>18 DEF PollDecide, TypeOK
<1>19. CASE PollApply /\ order \in Nat
  <2>1. /\ requested' \in Delays /\ target' \in Delays
        /\ attached' \in BOOLEAN /\ pacing' \in BOOLEAN
    BY <1>19, RequestTypes DEF PollApply
  <2>2. announcing' \in [Announcers -> BOOLEAN]
    BY <1>19, DelayTypes DEF PollApply, TypeOK
  <2>3. QED
    BY <1>19, <2>1, <2>2 DEF PollApply, TypeOK
<1>20. CASE ServerChange
  <2>1. wishes' \in 0 .. MaxWishes
    BY <1>20, DelayTypes DEF ServerChange, TypeOK
  <2>2. QED
    BY <1>20, <2>1 DEF ServerChange, TypeOK
<1>21. CASE UNCHANGED vars
  BY <1>21 DEF vars, TypeOK
<1>22. PollApply => order \in Nat
  BY DEF PollApply, OrderGranted, TypeOK
<1>23. QED
  BY <1>1, <1>2, <1>3, <1>4, <1>5, <1>6, <1>7, <1>8, <1>9, <1>10, <1>11, <1>12, <1>13,
     <1>14, <1>15, <1>16, <1>17, <1>18, <1>19, <1>20, <1>21, <1>22 DEF Next, PollStep

\* The steps of everybody but the poll thread leave its state alone.
OthersStep ==
    \/ \E c \in Callers, d \in UserDelays : Ask(c, d)
    \/ \E e \in Announcers : Announce(e)
    \/ StartRead \/ StartBuffer \/ StartAttach \/ Connected \/ ConnectionLost \/ Stop \/ GiveUp
    \/ HandleEvent \/ ClearDelay
    \/ \E t \in Tokens \cup {NoToken} : SetToken(t)
    \/ BeginUnload \/ EndUnload \/ ServerChange

LEMMA OthersLeavePoll ==
    ASSUME OthersStep \/ UNCHANGED vars
    PROVE  UNCHANGED <<pollVars, lastControl, lastDesired>>
<1> USE DEF bufferVars, outputVars, statusVars, pollVars, tellVars, serverVars, userVars,
         lifeVars, otherThanOutput, otherThanPoll
<1>1. CASE \E c \in Callers, d \in UserDelays : Ask(c, d)
  BY <1>1 DEF Ask
<1>2. CASE \E e \in Announcers : Announce(e)
  BY <1>2 DEF Announce
<1>3. CASE StartRead \/ StartBuffer \/ StartAttach \/ Connected
  BY <1>3 DEF StartRead, StartBuffer, StartAttach, Connected
<1>4. CASE ConnectionLost \/ Stop \/ GiveUp
  BY <1>4 DEF ConnectionLost, Stop, GiveUp
<1>5. CASE HandleEvent \/ ClearDelay \/ BeginUnload \/ EndUnload \/ ServerChange
  BY <1>5 DEF HandleEvent, ClearDelay, BeginUnload, EndUnload, ServerChange
<1>6. CASE \E t \in Tokens \cup {NoToken} : SetToken(t)
  BY <1>6 DEF SetToken
<1>7. CASE UNCHANGED vars
  BY <1>7 DEF vars
<1>8. QED
  BY <1>1, <1>2, <1>3, <1>4, <1>5, <1>6, <1>7 DEF OthersStep

LEMMA NextCases ==
    ASSUME [Next]_vars
    PROVE  PollStep \/ OthersStep \/ UNCHANGED vars
  BY DEF Next, OthersStep

LEMMA StepOrder == TypeOK /\ OrderGranted /\ [Next]_vars => OrderGranted'
<1> SUFFICES ASSUME TypeOK, OrderGranted, [Next]_vars PROVE OrderGranted'
  OBVIOUS
<1> USE DEF bufferVars, outputVars, statusVars, pollVars, tellVars, serverVars, userVars,
         lifeVars, otherThanOutput, otherThanPoll
<1>1. CASE OthersStep \/ UNCHANGED vars
  BY <1>1, OthersLeavePoll DEF OrderGranted
<1>2. CASE PollExit \/ PollAsk
  BY <1>2 DEF PollExit, PollAsk, OrderGranted
<1>3. ASSUME NEW a \in {"state", "junk", "refused", "failed"}, PollAnswer(a)
      PROVE  OrderGranted'
  <2>1. poller' = "decide" /\ granted \subseteq granted'
    BY <1>3 DEF PollAnswer
  <2>2. CASE a = "state"
    <3>1. lastControl' = wish.control /\ lastDesired' = wish.desired
      BY <1>3, <2>2 DEF PollAnswer, DesiredOf
    <3>2. wish.control /\ wish.desired >= 0 => Truncate(wish.desired) \in granted'
      BY <1>3, <2>2 DEF PollAnswer
    <3>3. order' = None
          \/ (wish.control /\ wish.desired >= 0 /\ order' = Truncate(wish.desired))
      BY <1>3, <2>2 DEF PollAnswer, ControlOf, DesiredOf
    <3>4. QED
      BY <2>1, <3>1, <3>2, <3>3 DEF OrderGranted
  <2>3. CASE a # "state"
    <3>1. lastControl' = lastControl /\ lastDesired' = lastDesired
      BY <1>3, <2>3 DEF PollAnswer, DesiredOf
    <3>2. order' = None
          \/ (lastControl /\ lastDesired >= 0 /\ order' = Truncate(lastDesired))
      BY <1>3, <2>3 DEF PollAnswer, ControlOf, DesiredOf
    <3>3. QED
      BY <2>1, <3>1, <3>2 DEF OrderGranted
  <2>4. QED
    BY <2>2, <2>3
<1>4. CASE PollDecide
  BY <1>4 DEF PollDecide, IsNews, OrderGranted
<1>5. CASE PollApply
  BY <1>5 DEF PollApply, OrderGranted
<1>6. QED
  BY <1>1, <1>2, <1>3, <1>4, <1>5, NextCases DEF PollStep

LEMMA StepAnnounced == TypeOK /\ PollAnnounced /\ [Next]_vars => PollAnnounced'
<1> SUFFICES ASSUME TypeOK, PollAnnounced, [Next]_vars PROVE PollAnnounced'
  OBVIOUS
<1> USE DEF bufferVars, outputVars, statusVars, pollVars, tellVars, serverVars, userVars,
         lifeVars, otherThanOutput, otherThanPoll
<1>1. announcing \in [Announcers -> BOOLEAN] /\ Poll \in Announcers
  BY DelayTypes DEF TypeOK
<1>2. CASE PollExit \/ PollAsk
  BY <1>2 DEF PollExit, PollAsk, PollAnnounced
<1>3. CASE \E a \in {"state", "junk", "refused", "failed"} : PollAnswer(a)
  BY <1>3 DEF PollAnswer, PollAnnounced
<1>4. CASE PollDecide \/ PollApply
  BY <1>4 DEF PollDecide, PollApply, PollAnnounced
<1>5. CASE \E c \in Callers, d \in UserDelays : Ask(c, d)
  <2>1. announcing'[Poll] = announcing[Poll] /\ UNCHANGED <<poller, module>>
    BY <1>1, <1>5, DelayTypes DEF Ask
  <2>2. QED
    BY <2>1 DEF PollAnnounced
<1>6. CASE \E e \in Announcers : Announce(e)
  <2>1. ~announcing[Poll] => ~announcing'[Poll]
    BY <1>1, <1>6 DEF Announce
  <2>2. UNCHANGED <<poller, module>>
    BY <1>6 DEF Announce
  <2>3. QED
    BY <2>1, <2>2 DEF PollAnnounced
<1>7. CASE StartRead \/ StartBuffer \/ StartAttach \/ Connected \/ ConnectionLost \/ Stop \/ GiveUp
  BY <1>7 DEF StartRead, StartBuffer, StartAttach, Connected, ConnectionLost, Stop, GiveUp,
              PollAnnounced
<1>8. CASE HandleEvent \/ ClearDelay \/ ServerChange \/ UNCHANGED vars
  BY <1>8 DEF HandleEvent, ClearDelay, ServerChange, vars, PollAnnounced
<1>9. CASE \E t \in Tokens \cup {NoToken} : SetToken(t)
  BY <1>9 DEF SetToken, PollAnnounced
<1>10. CASE BeginUnload \/ EndUnload
  BY <1>10 DEF BeginUnload, EndUnload, Joined, PollAnnounced
<1>11. QED
  BY <1>2, <1>3, <1>4, <1>5, <1>6, <1>7, <1>8, <1>9, <1>10, NextCases DEF OthersStep, PollStep

LEMMA Inductive == Spec => []IInv
<1>1. IInv /\ [Next]_vars => IInv'
  BY StepTypes, StepOrder, StepAnnounced DEF IInv
<1>2. QED
  BY InitInv, <1>1, PTL DEF Spec

\* Every delay in force or asked for is one the plugin allows, whoever asked and
\* whatever number the server sent.
THEOREM RemoteTypes == Spec => []TypeOK
<1>1. IInv => TypeOK
  BY DEF IInv
<1>2. QED
  BY Inductive, <1>1, PTL

\* Once swd_remote_stop has returned, the poll thread does nothing more.
THEOREM UnloadSafe == Spec => []UnloadedQuiet
<1>1. IInv => UnloadedQuiet
  BY DEF IInv, PollAnnounced, UnloadedQuiet
<1>2. QED
  BY Inductive, <1>1, PTL

\* The poll thread never applies a delay the server did not send with remote
\* control switched on, however answers, failures and settings alternate.
THEOREM ControlSafe == Spec => ControlRespected
<1> DEFINE A == poller = "apply" /\ poller' = "wait"
                    => \E d \in granted : requested' = Clamp(d)
<1>1. IInv /\ [Next]_vars => [A]_vars
  <2> SUFFICES ASSUME IInv, [Next]_vars, poller = "apply", poller' = "wait"
               PROVE  \E d \in granted : requested' = Clamp(d)
    OBVIOUS
  <2>1. ~(OthersStep \/ UNCHANGED vars)
    BY OthersLeavePoll DEF pollVars
  <2>2. PollApply
    BY <2>1, NextCases DEF PollStep, PollExit, PollAsk, PollAnswer, PollDecide
  <2>3. order \in granted
    BY DEF IInv, OrderGranted
  <2>4. QED
    BY <2>2, <2>3 DEF PollApply, Request
<1>2. QED
  BY Inductive, <1>1, PTL DEF Spec, ControlRespected

--------------------------------------------------------------------------------
\* The streaming flag

\* What the UI thread will take for the truth when it has handled all events.
LastTold == IF events = <<>> THEN streaming ELSE events[Len(events)] = "started"

ToldInv == LastTold <=> OnAir

\* An event that is queued is the last one to be handled.
LEMMA AppendTold ==
    ASSUME NEW e \in Events, events \in Seq(Events), events' = Append(events, e)
    PROVE  LastTold' <=> e = "started"
<1>1. events' \in Seq(Events) /\ Len(events') = Len(events) + 1 /\ events'[Len(events) + 1] = e
  BY AppendProperties
<1>2. Len(events) \in Nat
  BY LenProperties
<1>3. events' # <<>>
  BY <1>1, <1>2, EmptySeq
<1>4. QED
  BY <1>1, <1>3 DEF LastTold

\* Handling an event brings nothing new of the last one.
LEMMA HandleTold ==
    ASSUME events \in Seq(Events), HandleEvent
    PROVE  LastTold' <=> LastTold
<1>1. events # <<>> /\ events' = Tail(events) /\ streaming' = (events[1] = "started")
  BY HeadTailProperties DEF HandleEvent
<1>2. /\ Len(events) \in Nat \ {0} /\ Tail(events) \in Seq(Events)
      /\ Len(Tail(events)) = Len(events) - 1
      /\ \A i \in 1 .. Len(Tail(events)) : Tail(events)[i] = events[i + 1]
  <2>1. Len(events) \in Nat /\ Len(events) # 0
    BY <1>1, LenProperties, EmptySeq
  <2>2. QED
    BY <1>1, <2>1, HeadTailProperties
<1>3. CASE Len(events) = 1
  <2>1. events' = <<>>
    BY <1>1, <1>2, <1>3, EmptySeq
  <2>2. QED
    BY <1>1, <1>3, <2>1 DEF LastTold
<1>4. CASE Len(events) # 1
  <2>1. Len(events') = Len(events) - 1 /\ Len(events') \in 1 .. Len(events')
    BY <1>1, <1>2, <1>4
  <2>2. events'[Len(events')] = events[Len(events)]
    BY <1>1, <1>2, <2>1
  <2>3. events' # <<>>
    BY <1>1, <1>2, <2>1, EmptySeq
  <2>4. QED
    BY <1>1, <2>2, <2>3 DEF LastTold
<1>5. QED
  BY <1>3, <1>4

\* Every step of the output that changes whether it is on air is told, and no other.
LEMMA StepTold == TypeOK /\ ToldInv /\ [Next]_vars => ToldInv'
<1> SUFFICES ASSUME TypeOK, ToldInv, [Next]_vars PROVE ToldInv'
  OBVIOUS
<1> USE DEF outputVars, statusVars, pollVars, tellVars, serverVars, userVars, lifeVars,
         otherThanOutput
<1>1. events \in Seq(Events) /\ "started" \in Events /\ "stopped" \in Events
  BY DEF TypeOK, Events
<1>2. ASSUME UNCHANGED <<events, streaming>>, OnAir' <=> OnAir
      PROVE  ToldInv'
  BY <1>2 DEF ToldInv, LastTold
<1>3. CASE StartRead
  <2>1. UNCHANGED <<events, streaming>>
    BY <1>3 DEF StartRead
  <2>2. OnAir' <=> OnAir
    BY <1>3 DEF StartRead, OnAir
  <2>3. QED
    BY <1>2, <2>1, <2>2
<1>4. CASE StartBuffer \/ StartAttach
  <2>1. UNCHANGED <<events, streaming>>
    BY <1>4 DEF StartBuffer, StartAttach
  <2>2. OnAir' <=> OnAir
    BY <1>4 DEF StartBuffer, StartAttach, OnAir
  <2>3. QED
    BY <1>2, <2>1, <2>2
<1>5. CASE Connected
  <2>1. CASE fresh
    <3>1. events' = Append(events, "started") /\ OnAir'
      BY <1>5, <2>1 DEF Connected, OnAir
    <3>2. QED
      BY <1>1, <3>1, AppendTold DEF ToldInv
  <2>2. CASE ~fresh
    <3>1. UNCHANGED <<events, streaming>>
      BY <1>5, <2>2 DEF Connected
    <3>2. OnAir' <=> OnAir
      BY <1>5, <2>2 DEF Connected, OnAir
    <3>3. QED
      BY <1>2, <3>1, <3>2
  <2>3. QED
    BY <2>1, <2>2
<1>6. CASE ConnectionLost
  <2>1. CASE stream' = "off" /\ events' = Append(events, "stopped")
    <3>1. ~OnAir'
      BY <2>1 DEF OnAir
    <3>2. QED
      BY <1>1, <2>1, <3>1, AppendTold DEF ToldInv
  <2>2. CASE (stream = "live" \/ ~fresh) /\ stream' = "retry" /\ events' = events
    <3>1. UNCHANGED <<events, streaming>>
      BY <1>6, <2>2 DEF ConnectionLost
    <3>2. OnAir' <=> OnAir
      BY <1>6, <2>2 DEF ConnectionLost, OnAir
    <3>3. QED
      BY <1>2, <3>1, <3>2
  <2>3. QED
    BY <1>6, <2>1, <2>2 DEF ConnectionLost
<1>7. CASE Stop \/ GiveUp
  <2>1. stream' = "off" /\ events' = Append(events, "stopped")
    BY <1>7 DEF Stop, GiveUp
  <2>2. ~OnAir'
    BY <2>1 DEF OnAir
  <2>3. QED
    BY <1>1, <2>1, <2>2, AppendTold DEF ToldInv
<1>8. CASE HandleEvent
  <2>1. LastTold' <=> LastTold
    BY <1>1, <1>8, HandleTold
  <2>2. OnAir' <=> OnAir
    BY <1>8 DEF HandleEvent, OnAir
  <2>3. QED
    BY <2>1, <2>2 DEF ToldInv
<1>9. ASSUME UNCHANGED <<events, streaming, stream, fresh>>
      PROVE  ToldInv'
  BY <1>2, <1>9 DEF OnAir
<1>10. CASE \E c \in Callers, d \in UserDelays : Ask(c, d)
  BY <1>9, <1>10 DEF Ask
<1>11. CASE \E e \in Announcers : Announce(e)
  BY <1>9, <1>11 DEF Announce
<1>12. CASE \E t \in Tokens \cup {NoToken} : SetToken(t)
  BY <1>9, <1>12 DEF SetToken
<1>13. CASE ClearDelay \/ BeginUnload \/ EndUnload \/ ServerChange \/ UNCHANGED vars
  BY <1>9, <1>13 DEF ClearDelay, BeginUnload, EndUnload, ServerChange, vars
<1>14. CASE PollStep
  BY <1>9, <1>14 DEF PollStep, PollExit, PollAsk, PollAnswer, PollDecide, PollApply, otherThanPoll
<1>15. QED
  BY <1>3, <1>4, <1>5, <1>6, <1>7, <1>8, <1>10, <1>11, <1>12, <1>13, <1>14 DEF Next

\* The flag that the poll thread sends, and goes by, is the truth as soon as no frontend event waits:
\* for any number of starts, reconnections and events.
THEOREM StreamingTold == Spec => []StreamingKnown
<1>1. Init => ToldInv
  BY DEF Init, ToldInv, LastTold, OnAir
<1>2. IInv => TypeOK
  BY DEF IInv
<1>3. ToldInv => StreamingKnown
  BY DEF ToldInv, LastTold, StreamingKnown
<1>4. QED
  BY <1>1, <1>2, <1>3, Inductive, StepTold, PTL DEF Spec

================================================================================
