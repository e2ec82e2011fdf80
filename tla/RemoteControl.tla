----------------------------- MODULE RemoteControl -----------------------------
(***************************************************************************)
(* Who decides the delay: src/src/remote.c, the requests and events of     *)
(* src/src/plugin-main.c, and the global state of src/src/delay-buffer.c   *)
(* (g_running, g_requested_sec) they meet in.                              *)
(*                                                                         *)
(* Four parties act concurrently: callers (hotkeys, obs-websocket) ask for *)
(* a delay and announce it; the poll thread asks the SnipeWatch server and *)
(* applies its answer; OBS starts, stops and reconnects the output; the UI *)
(* thread handles the frontend events OBS queues.  Of the delay buffer     *)
(* only its target delay and whether its pacer runs are kept: DelayBuffer  *)
(* has the rest.  The thread's wake event only shortens a wait that also   *)
(* times out, so a waiting poll thread may always go on.                   *)
(***************************************************************************)
EXTENDS Integers, Sequences

CONSTANTS
    Callers,        \* hotkey and websocket threads
    Poll,           \* the poll thread, as one who announces changes
    UserDelays,     \* delays a caller may ask for
    ServerDelays,   \* values of desiredSec the server may send
    MaxDelay,       \* SWD_MAX_DELAY_SEC
    Width,          \* size of uint32_t: values are taken modulo Width
    Tokens,         \* tokens the user may paste
    ValidTokens,    \* those the server accepts
    NoToken,        \* the empty token
    MaxAsks,        \* bound on requests of the callers
    MaxWishes,      \* bound on changes at the server
    MaxTokens,      \* bound on changes of the token
    MaxStarts       \* bound on starts of the output

None == -1          \* a missing or negative desiredSec; no delay to apply
Announcers == Callers \cup {Poll}
Delays == 0 .. MaxDelay
Wishes == [control : BOOLEAN, desired : ServerDelays \cup {None}]

ASSUME ConstantsAssumption ==
    /\ Poll \notin Callers
    /\ NoToken \notin Tokens
    /\ ValidTokens \subseteq Tokens
    /\ {MaxDelay, MaxAsks, MaxWishes, MaxTokens, MaxStarts} \subseteq Nat
    /\ Width \in Nat \ {0}
    /\ UserDelays \subseteq Nat
    /\ ServerDelays \subseteq Nat

VARIABLES
    \* delay-buffer.c
    requested,      \* g_requested_sec
    attached,       \* g_running # NULL
    target,         \* delay_ns of the buffer
    pacing,         \* running of the buffer
    \* the output, as OBS drives it
    stream,         \* off, starting, resetting, connecting, live, retry
    startArg,       \* argument of the swd_start in progress
    fresh,          \* this start is not a reconnection
    starts,         \* number of starts (bound)
    \* the UI thread
    events,         \* frontend events OBS has queued
    ui,             \* idle, or clear: between the two calls for STOPPED
    \* remote.c
    streaming,      \* streaming
    token,          \* token
    lastOk,         \* last_ok # 0
    lastError,      \* what last_error says
    lastControl,    \* last_control
    lastDesired,    \* last_desired
    running,        \* running
    module,         \* loaded, unloading (in swd_remote_stop), unloaded
    poller,         \* where the poll thread is
    tok, live,      \* its locals while it asks: token and streaming as it read them
    order,          \* its local after the answer: the delay it is to apply
    \* announcing changes: emit_state
    announcing,     \* who has changed the delay and not yet told of it
    \* the server, and bounds
    serverUp, wish, wishes, asks, pastes,
    \* history variables
    granted,        \* delays sent by the server with remote control on
    asked           \* a caller asked for a delay since the last stream ended

bufferVars == <<requested, attached, target, pacing>>
outputVars == <<stream, startArg, fresh, starts, events>>
statusVars == <<token, lastOk, lastError, lastControl, lastDesired, pastes>>
pollVars   == <<poller, tok, live, order, granted>>
tellVars   == <<announcing>>
serverVars == <<serverUp, wish, wishes>>
userVars   == <<asks, asked>>
lifeVars   == <<running, module>>
vars == <<bufferVars, outputVars, ui, streaming, statusVars, pollVars, tellVars,
          serverVars, userVars, lifeVars>>

Events == {"started", "stopped"}

TypeOK ==
    /\ requested \in Delays
    /\ attached \in BOOLEAN
    /\ target \in Delays
    /\ pacing \in BOOLEAN
    /\ stream \in {"off", "starting", "resetting", "connecting", "live", "retry"}
    /\ startArg \in Delays
    /\ fresh \in BOOLEAN
    /\ starts \in 0 .. MaxStarts
    /\ events \in Seq(Events)
    /\ ui \in {"idle", "clear"}
    /\ streaming \in BOOLEAN
    /\ token \in Tokens \cup {NoToken}
    /\ lastOk \in BOOLEAN
    /\ lastError \in {"none", "refused", "failed"}
    /\ lastControl \in BOOLEAN
    /\ lastDesired \in Nat \cup {None}
    /\ running \in BOOLEAN
    /\ module \in {"loaded", "unloading", "unloaded"}
    /\ poller \in {"wait", "asking", "decide", "apply", "done"}
    /\ tok \in Tokens \cup {NoToken}
    /\ live \in BOOLEAN
    /\ order \in Nat \cup {None}
    /\ announcing \in [Announcers -> BOOLEAN]
    /\ serverUp \in BOOLEAN
    /\ wish \in Wishes
    /\ wishes \in 0 .. MaxWishes
    /\ asks \in 0 .. MaxAsks
    /\ pastes \in 0 .. MaxTokens
    /\ granted \subseteq Nat
    /\ asked \in BOOLEAN

--------------------------------------------------------------------------------
(***************************************************************************)
(* Requests: swd_request_delay, and change_delay's announcement            *)
(***************************************************************************)

\* Mutant of Clamp: no upper limit on a request.
ClampNot(d) == d

Clamp(d) == IF d > MaxDelay THEN MaxDelay ELSE d

\* swd_request_delay, under g_mutex
Request(d) ==
    /\ requested' = Clamp(d)
    /\ target' = IF attached THEN Clamp(d) ELSE target
    /\ UNCHANGED <<attached, pacing>>

\* hotkey_cb and ws_set_delay, which refuses what is out of range, call
\* change_delay.
Ask(c, d) ==
    /\ asks < MaxAsks
    /\ ~announcing[c]
    /\ d <= MaxDelay
    /\ Request(d)
    /\ announcing' = [announcing EXCEPT ![c] = TRUE]
    /\ asks' = asks + 1
    /\ asked' = TRUE
    /\ UNCHANGED <<outputVars, ui, streaming, statusVars, pollVars, serverVars,
                   lifeVars>>

\* emit_state reads the delay in force and emits DelayChanged, which listeners
\* outside this system take.
Announce(e) ==
    /\ announcing[e]
    /\ announcing' = [announcing EXCEPT ![e] = FALSE]
    /\ UNCHANGED <<bufferVars, outputVars, ui, streaming, statusVars, pollVars, serverVars,
                   userVars, lifeVars>>

--------------------------------------------------------------------------------
(***************************************************************************)
(* The output.  rtmp_stream_start reads the requested delay, starts the    *)
(* buffer with it (swd_start) and publishes the buffer (swd_set_running).  *)
(* OBS calls it to start and to reconnect.  A connection that fails or     *)
(* breaks calls nothing of the delay buffer.                               *)
(***************************************************************************)

otherThanOutput == <<requested, ui, streaming, statusVars, pollVars, tellVars, serverVars,
                     userVars, lifeVars>>

\* OBS offers to start only once the end of the last stream has been handled.
StartRead ==
    /\ starts < MaxStarts
    /\ \/ stream = "off" /\ events = <<>> /\ ui = "idle"
       \/ stream = "retry"
    /\ startArg' = requested
    /\ fresh' = (stream = "off")
    /\ stream' = "starting"
    /\ starts' = starts + 1
    /\ UNCHANGED <<otherThanOutput, attached, target, pacing, events>>

StartBuffer ==
    /\ stream = "starting"
    /\ target' = startArg
    /\ startArg' = 0
    /\ pacing' = TRUE
    /\ stream' = "resetting"
    /\ UNCHANGED <<otherThanOutput, attached, fresh, starts, events>>

StartAttach ==
    /\ stream = "resetting"
    /\ attached' = TRUE
    /\ stream' = "connecting"
    /\ UNCHANGED <<otherThanOutput, target, pacing, startArg, fresh, starts, events>>

\* STREAMING_STARTED is for a new stream, not for a reconnection.
Connected ==
    /\ stream = "connecting"
    /\ stream' = "live"
    /\ events' = IF fresh THEN Append(events, "started") ELSE events
    /\ UNCHANGED <<otherThanOutput, attached, target, pacing, startArg, fresh, starts>>

\* The connection fails, or breaks: OBS gives up, or retries what was live.
ConnectionLost ==
    /\ stream \in {"connecting", "live"}
    /\ \/ stream' = "off" /\ events' = Append(events, "stopped")
       \/ (stream = "live" \/ ~fresh) /\ stream' = "retry" /\ events' = events
    /\ UNCHANGED <<otherThanOutput, attached, target, pacing, startArg, fresh, starts>>

\* rtmp_stream_stop: swd_clear_running, then swd_stop.  OBS calls it while it
\* waits to reconnect, too.
Stop ==
    /\ stream \in {"connecting", "live", "retry"}
    /\ attached' = FALSE
    /\ pacing' = FALSE
    /\ stream' = "off"
    /\ events' = Append(events, "stopped")
    /\ UNCHANGED <<otherThanOutput, target, startArg, fresh, starts>>

\* OBS has retried enough: the output's stop is not called.
GiveUp ==
    /\ stream = "retry"
    /\ stream' = "off"
    /\ events' = Append(events, "stopped")
    /\ UNCHANGED <<otherThanOutput, attached, target, pacing, startArg, fresh, starts>>

--------------------------------------------------------------------------------
(***************************************************************************)
(* The UI thread: frontend_event and swd_remote_set_token                  *)
(***************************************************************************)

HandleEvent ==
    /\ events # <<>>
    /\ ui = "idle"
    /\ streaming' = (Head(events) = "started")
    /\ ui' = IF Head(events) = "stopped" THEN "clear" ELSE "idle"
    /\ events' = Tail(events)
    /\ UNCHANGED <<bufferVars, stream, startArg, fresh, starts, statusVars, pollVars, tellVars,
                   serverVars, userVars, lifeVars>>

\* The end of STREAMING_STOPPED: swd_request_delay(0)
ClearDelay ==
    /\ ui = "clear"
    /\ Request(0)
    /\ ui' = "idle"
    /\ asked' = FALSE
    /\ UNCHANGED <<outputVars, streaming, statusVars, pollVars, tellVars, serverVars, asks,
                   lifeVars>>

SetToken(t) ==
    /\ pastes < MaxTokens
    /\ module = "loaded"
    /\ token' = t
    /\ lastError' = "none"
    /\ lastOk' = FALSE
    /\ pastes' = pastes + 1
    /\ UNCHANGED <<bufferVars, outputVars, ui, streaming, lastControl, lastDesired, pollVars,
                   tellVars, serverVars, userVars, lifeVars>>

\* Mutant of BeginUnload: the thread is not told.
BeginUnloadSilently ==
    /\ module = "loaded"
    /\ module' = "unloading"
    /\ UNCHANGED <<bufferVars, outputVars, ui, streaming, statusVars, pollVars, tellVars,
                   serverVars, userVars, running>>

\* swd_remote_stop, up to the join and after it
BeginUnload ==
    /\ module = "loaded"
    /\ module' = "unloading"
    /\ running' = FALSE
    /\ UNCHANGED <<bufferVars, outputVars, ui, streaming, statusVars, pollVars, tellVars,
                   serverVars, userVars>>

Joined == poller = "done"

EndUnload ==
    /\ module = "unloading"
    /\ Joined
    /\ module' = "unloaded"
    /\ token' = NoToken
    /\ lastError' = "none"
    /\ UNCHANGED <<bufferVars, outputVars, ui, streaming, lastOk, lastControl, lastDesired,
                   pastes, pollVars, tellVars, serverVars, userVars, running>>

--------------------------------------------------------------------------------
(***************************************************************************)
(* The poll thread: poll_thread and poll_once                              *)
(***************************************************************************)

otherThanPoll == <<attached, pacing, outputVars, ui, streaming, token, pastes, serverVars,
                   userVars, lifeVars>>

PollExit ==
    /\ poller = "wait"
    /\ ~announcing[Poll]
    /\ ~running
    /\ poller' = "done"
    /\ UNCHANGED <<otherThanPoll, requested, target, lastOk, lastError, lastControl,
                   lastDesired, tok, live, order, granted, tellVars>>

\* The token and the streaming flag are read, and the server asked.
PollAsk ==
    /\ poller = "wait"
    /\ ~announcing[Poll]
    /\ running
    /\ token # NoToken
    /\ tok' = token
    /\ live' = streaming
    /\ poller' = "asking"
    /\ UNCHANGED <<otherThanPoll, requested, target, lastOk, lastError, lastControl,
                   lastDesired, order, granted, tellVars>>

\* uint32_t
Truncate(d) == d % Width

\* state: 200 and a JSON body; junk: 200 and a body that is not JSON, from
\* something between the plugin and the server; refused: 401.
Answers ==
    IF ~serverUp THEN {"failed", "junk"}
    ELSE IF tok \in ValidTokens THEN {"state"} ELSE {"refused"}

\* Mutant of ControlOf: the switch in the SnipeWatch settings is forgotten.
ControlAlways(a) == a \in {"state", "junk"}

ControlOf(a) ==
    /\ a \in {"state", "junk"}
    /\ IF a = "state" THEN wish.control ELSE lastControl

DesiredOf(a) == IF a = "state" THEN wish.desired ELSE lastDesired

\* Mutant of ErrorOf: an exchange that works leaves the last error standing.
ErrorSticks(a) == CASE a \in {"state", "junk"} -> lastError
                    [] a = "refused" -> "refused"
                    [] OTHER -> "failed"

ErrorOf(a) == CASE a = "state" -> "none"
                [] a = "junk" -> lastError
                [] a = "refused" -> "refused"
                [] OTHER -> "failed"

PollAnswer(a) ==
    /\ poller = "asking"
    /\ a \in Answers
    /\ lastOk' = (lastOk \/ a = "state")
    /\ lastError' = ErrorOf(a)
    /\ lastControl' = IF a = "state" THEN wish.control ELSE lastControl
    /\ lastDesired' = DesiredOf(a)
    /\ order' = IF ControlOf(a) /\ live /\ DesiredOf(a) >= 0
                THEN Truncate(DesiredOf(a)) ELSE None
    /\ granted' = IF a = "state" /\ wish.control /\ wish.desired >= 0
                  THEN granted \cup {Truncate(wish.desired)} ELSE granted
    /\ tok' = NoToken
    /\ live' = FALSE
    /\ poller' = "decide"
    /\ UNCHANGED <<otherThanPoll, requested, target, tellVars>>

\* Mutant of IsNews: the server only sets a delay where there is none.
IsFirst == order # None /\ requested = 0

IsNews == order # None /\ order # requested

PollDecide ==
    /\ poller = "decide"
    /\ poller' = IF IsNews THEN "apply" ELSE "wait"
    /\ order' = IF IsNews THEN order ELSE None
    /\ UNCHANGED <<otherThanPoll, requested, target, lastOk, lastError, lastControl,
                   lastDesired, tok, live, granted, tellVars>>

\* apply_cb is change_delay.
PollApply ==
    /\ poller = "apply"
    /\ Request(order)
    /\ announcing' = [announcing EXCEPT ![Poll] = TRUE]
    /\ poller' = "wait"
    /\ order' = None
    /\ UNCHANGED <<outputVars, ui, streaming, statusVars, tok, live, granted,
                   serverVars, userVars, lifeVars>>

--------------------------------------------------------------------------------
\* The server, or what lies between: reachable or not, with a new wish or not.
ServerChange ==
    /\ wishes < MaxWishes
    /\ wishes' = wishes + 1
    /\ serverUp' \in BOOLEAN
    /\ wish' \in Wishes
    /\ UNCHANGED <<bufferVars, outputVars, ui, streaming, statusVars, pollVars, tellVars,
                   userVars, lifeVars>>

\* swd_remote_start, with a token or none in remote.json
Init ==
    /\ requested = 0
    /\ attached = FALSE
    /\ target = 0
    /\ pacing = FALSE
    /\ stream = "off"
    /\ startArg = 0
    /\ fresh = TRUE
    /\ starts = 0
    /\ events = <<>>
    /\ ui = "idle"
    /\ streaming = FALSE
    /\ token \in Tokens \cup {NoToken}
    /\ lastOk = FALSE
    /\ lastError = "none"
    /\ lastControl = FALSE
    /\ lastDesired = None
    /\ running = TRUE
    /\ module = "loaded"
    /\ poller = "wait"
    /\ tok = NoToken
    /\ live = FALSE
    /\ order = None
    /\ announcing = [e \in Announcers |-> FALSE]
    /\ serverUp \in BOOLEAN
    /\ wish \in Wishes
    /\ wishes = 0
    /\ asks = 0
    /\ pastes = 0
    /\ granted = {}
    /\ asked = FALSE

PollStep ==
    \/ PollExit
    \/ PollAsk
    \/ \E a \in {"state", "junk", "refused", "failed"} : PollAnswer(a)
    \/ PollDecide
    \/ PollApply

Next ==
    \/ \E c \in Callers, d \in UserDelays : Ask(c, d)
    \/ \E e \in Announcers : Announce(e)
    \/ StartRead
    \/ StartBuffer
    \/ StartAttach
    \/ Connected
    \/ ConnectionLost
    \/ Stop
    \/ GiveUp
    \/ HandleEvent
    \/ ClearDelay
    \/ \E t \in Tokens \cup {NoToken} : SetToken(t)
    \/ BeginUnload
    \/ EndUnload
    \/ PollStep
    \/ ServerChange

\* Threads run: the poll thread (its waits and requests time out), announcers
\* in change_delay, the UI thread with its queue.
Fairness ==
    /\ WF_vars(PollStep)
    /\ \A e \in Announcers : WF_vars(Announce(e))
    /\ WF_vars(HandleEvent \/ ClearDelay)
    /\ WF_vars(EndUnload)

Spec == Init /\ [][Next]_vars
FairSpec == Spec /\ Fairness

--------------------------------------------------------------------------------
(***************************************************************************)
(* Properties                                                              *)
(***************************************************************************)

\* The poll thread applies only delays the server sent while remote control
\* was switched on in its settings, although an answer it cannot read makes
\* it go by the last one it could (poll_once).
ControlRespected ==
    [][poller = "apply" /\ poller' = "wait"
        => \E d \in granted : requested' = Clamp(d)]_vars

\* Once swd_remote_stop has returned, no poll is under way that could still
\* write the freed status strings or call back into the plugin.
UnloadedQuiet ==
    module = "unloaded" => poller = "done" /\ ~announcing[Poll]

\* swd_remote_stop returns.
UnloadCompletes == module = "unloading" ~> module = "unloaded"

\* While the stream stays live, the server reachable, the token good and the
\* server's wish the same, the delay becomes and stays the server's, whatever
\* callers asked for, answers in flight and earlier failures did before.
Governed ==
    /\ module = "loaded" /\ serverUp
    /\ streaming /\ stream = "live" /\ events = <<>>
    /\ token \in ValidTokens
    /\ wish.control /\ wish.desired # None

ServerDecides ==
    \A d \in ServerDelays :
        <>[](Governed /\ wish.desired = d) => <>[](requested = Clamp(Truncate(d)))

\* OBS streams, or tries to get back to a stream that was live.
OnAir ==
    \/ stream \in {"live", "retry"}
    \/ stream \in {"starting", "resetting", "connecting"} /\ ~fresh

\* What the server is told of streaming, and what lets its delay be applied, is
\* true once the UI thread has handled the events: through reconnections, which
\* have none, and streams that fail before they are live (frontend_event, poll_once).
StreamingKnown == events = <<>> => (streaming <=> OnAir)

\* With a good token and a reachable server the status dialog comes to report
\* a connection without an error, even when the answer to an earlier token
\* arrives after the new one was pasted (swd_remote_set_token, poll_once).
StatusHeals ==
    <>[](module = "loaded" /\ serverUp /\ token \in ValidTokens)
        => <>[](lastOk /\ lastError = "none")

\* The delay the user asked for is the one applied by the published buffer:
\* "Delay wanted by the user: applied at stream start and to the running
\* output" (delay-buffer.h).
RequestInForce == attached /\ stream \in {"connecting", "live"} => target = requested

\* A new stream starts without delay unless a caller asked for one since the
\* last one ended: "The delay is a live thing: next stream starts without one
\* unless asked again" (plugin-main.c).
ClearedBetweenStreams == stream = "starting" /\ fresh /\ ~asked => startArg = 0

================================================================================
