------------------------------- MODULE DelayLine -------------------------------
(***************************************************************************)
(* What the delay buffer promises to the receiver: a line of packets shown *)
(* some time after they were fed, and nothing of how it is kept.           *)
(*                                                                         *)
(* Here is no cursor, no lock, no pacer, no pruning and no jump that waits *)
(* for its keyframe.  The whole feed of a session is there, and each step  *)
(* shows one packet of it: the next one, or a keyframe anywhere.           *)
(***************************************************************************)
EXTENDS Integers, Sequences

CONSTANTS
    Video,          \* the video track
    NoTime,         \* "no value yet"
    MaxDelay,       \* the longest delay
    FramePeriod     \* the length of a frame

VARIABLES
    now,            \* the clock
    delay,          \* how old a packet must be
    fed,            \* what the encoders delivered in this session, in order
    shown,          \* the position in fed of the last packet shown, 0 if none
    shift,          \* what is added to the time stamps
    last            \* the time of the last packet shown, of each kind

lineVars == <<now, delay, fed, shown, shift, last>>

Kind(p) == IF p.stream = Video THEN "video" ELSE "audio"
NothingShown == [k \in {"video", "audio"} |-> NoTime]

\* No packet of p's kind was shown yet at time t or later.
Fresh(p, t) == last[Kind(p)] # NoTime => t > last[Kind(p)]

\* Time stamps in the feed move with the same shift, so that what is shown keeps
\* its rhythm; a packet is shown when it is old enough, and times go forwards.
Show(k) ==
    /\ now - fed[k].arrival >= delay
    /\ Fresh(fed[k], fed[k].dts + shift')
    /\ shown' = k
    /\ last' = [last EXCEPT ![Kind(fed[k])] = fed[k].dts + shift']
    /\ UNCHANGED <<now, delay, fed>>

\* All audio tracks share one last time: of the packets with the same time on
\* several tracks, the receiver gets the first.
LeftOut(j) ==
    /\ fed[j].stream # Video
    /\ fed[j].dts + shift = last["audio"]
    /\ \E i \in 1 .. j - 1 :
          fed[i].stream \notin {Video, fed[j].stream} /\ fed[i].dts = fed[j].dts

\* The next packet, but for audio that has come on another track.
Continue(k) ==
    /\ shown # 0 /\ k > shown
    /\ \A j \in shown + 1 .. k - 1 : LeftOut(j)
    /\ shift' = shift
    /\ Show(k)

\* The picture jumps, to a keyframe, which follows the last frame shown.
Jump(k) ==
    /\ fed[k].stream = Video /\ fed[k].key
    /\ shift' = IF last["video"] = NoTime THEN shift
                ELSE last["video"] + FramePeriod - fed[k].dts
    /\ Show(k)

Feed ==
    /\ fed' # <<>>
    /\ LET p == fed'[Len(fed')] IN fed' = Append(fed, p) /\ p.arrival = now
    /\ UNCHANGED <<now, delay, shown, shift, last>>

Request ==
    /\ delay' \in 0 .. MaxDelay
    /\ UNCHANGED <<now, fed, shown, shift, last>>

Elapse ==
    /\ now' \in Nat /\ now' > now
    /\ UNCHANGED <<delay, fed, shown, shift, last>>

\* A session begins.
Restart ==
    /\ delay' \in 0 .. MaxDelay
    /\ fed' = <<>> /\ shown' = 0
    /\ shift' = 0 /\ last' = NothingShown
    /\ UNCHANGED now

LineInit ==
    /\ now \in Nat /\ delay = 0
    /\ fed = <<>> /\ shown = 0
    /\ shift = 0 /\ last = NothingShown

LineNext ==
    \/ \E k \in DOMAIN fed : Continue(k) \/ Jump(k)
    \/ Feed \/ Request \/ Elapse \/ Restart

LineSpec == LineInit /\ [][LineNext]_lineVars
================================================================================
