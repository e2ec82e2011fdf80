------------------------------- MODULE DelayFeed -------------------------------
(***************************************************************************)
(* The delay buffer with a memory: all that was pushed in the session, also *)
(* what prune_locked has freed since, and which of it was released last.   *)
(* With these it implements the delay line.                                *)
(***************************************************************************)
EXTENDS DelayBuffer

VARIABLES
    \* history variables
    fed,            \* the packets of the session, pruned or not
    shown           \* the position in fed of the last packet released, 0 if none

feedVars == <<fed, shown>>

FeedInit == Init /\ fed = <<>> /\ shown = 0

\* How many packets of the session are not in the timeline any more.
Freed == Len(fed) - Len(entries)

FeedPush(s) ==
    /\ Push(s)
    /\ fed' = Append(fed, entries'[Len(entries')])
    /\ UNCHANGED shown

FeedRelease ==
    /\ ReleaseNext
    /\ shown' = IF Len(batch') > Len(batch) THEN Freed + cursor' ELSE shown
    /\ UNCHANGED fed

FeedReset ==
    /\ Reset
    /\ fed' = <<>> /\ shown' = 0

FeedUnchanged ==
    /\ \/ PacerLoop \/ PacerWake \/ EndPass \/ PacerSend
       \/ BeginStop \/ (\E d \in Requests : BeginStart(d)) \/ Join \/ Release \/ Spawn
       \/ \E d \in Requests : SetDelay(d)
       \/ BeginCapture \/ EndCapture
       \/ Tick
    /\ UNCHANGED feedVars

FeedNext ==
    \/ \E s \in Streams : FeedPush(s)
    \/ FeedRelease
    \/ FeedReset
    \/ FeedUnchanged

FeedSpec == FeedInit /\ [][FeedNext]_<<vars, feedVars>>

--------------------------------------------------------------------------------
Line == INSTANCE DelayLine WITH
    FramePeriod <- VideoPeriod, shift <- offset, last <- lastOut

\* "Every packet coming from the encoders is kept in a timeline" (delay-buffer.h:22): to the
\* receiver, the buffer with its cursor, its pending jumps, its pruning and its dropped
\* packets is the delay line.  It shows nothing too young, and frames in a row or a jump to
\* a keyframe that follows the last frame; between jumps it leaves out no packet but audio
\* whose time another audio track has brought.
ImplementsLine == Line!LineSpec

\* "A pacer releases each packet once it is `delay` seconds old" (README.md, line
\* 10): between two jumps no packet is left out.  With one audio track that is so;
\* with more, only the first of the packets of one time comes through.
NothingLost ==
    [][shown # 0 /\ shown' \notin {0, shown, shown + 1} => IsKeyframe(fed[shown'])]_<<vars, feedVars>>
================================================================================
