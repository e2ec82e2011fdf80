----------------------------- MODULE SocketLoop -----------------------------
(***************************************************************************)
(* The new socket loop: RTMP writes go to a write buffer                   *)
(* (socket_queue_data in rtmp-stream.c), which a thread of its own sends   *)
(* over a non-blocking socket (rtmp-windows.c).  The two meet at           *)
(* write_buf_mutex, three auto-reset events and one manual one.            *)
(*                                                                         *)
(* The unit of data is a block: the k-th one written on connection c is    *)
(* <<c, k>>.                                                               *)
(***************************************************************************)
EXTENDS Integers, Sequences

CONSTANTS
    Size,           \* write_buf_size
    MaxWrite,       \* the longest write, shorter than the buffer
    Rest,           \* with no more than this left the loop stops writing: 1000 bytes in the code
    PacketSize,     \* latency_packet_size in low latency mode; it is Size without
    Kernel,         \* what fits into the send buffer of the socket
    MaxBlocks,      \* blocks written on a connection
    MaxConnections

ASSUME ConstantsAssumption ==
    /\ Rest \in Nat /\ MaxWrite \in Nat \ {0} /\ Size \in Nat /\ Size >= Rest + MaxWrite
    /\ PacketSize \in 1 .. Size /\ Kernel \in Nat \ {0}
    /\ MaxBlocks \in Nat /\ MaxConnections \in Nat

VARIABLES
    buffer,      \* write_buf
    valid,       \* sb_socket is not INVALID_SOCKET
    space,       \* buffer_space_available_event
    hasData,     \* buffer_has_data_event
    socketEvent, \* socket_available_event
    exit,        \* send_thread_signaled_exit
    sender,      \* where the thread that writes is: the send thread
    len,         \* how much it is writing
    written,     \* blocks it has written on this connection
    loop,        \* where socket_thread_windows is
    canWrite,    \* can_write
    lowLatency,  \* low_latency_mode
    flags,       \* what WSAEnumNetworkEvents will report
    blocked,     \* a send has failed with WSAEWOULDBLOCK
    kernel,      \* blocks in the send buffer of the socket
    received,    \* blocks the server has received
    broken,      \* the server has closed the connection, or it has been lost
    connection,  \* number of the connection
    stale        \* a connection has begun with data in the buffer

eventVars  == <<space, hasData, socketEvent, exit>>
senderVars == <<sender, len, written>>
loopVars   == <<loop, canWrite>>
netVars    == <<flags, blocked, kernel, received, broken>>
sessionVars == <<connection, lowLatency, stale>>
vars == <<buffer, valid, eventVars, senderVars, loopVars, netVars, sessionVars>>

-----------------------------------------------------------------------------
\* The thread that writes: socket_queue_data, called by WriteN

Write ==
    /\ sender = "idle"
    /\ \E n \in 1 .. MaxWrite : written + n <= MaxBlocks /\ len' = n
    /\ sender' = "connected?"
    /\ UNCHANGED <<buffer, valid, eventVars, written, loopVars, netVars, sessionVars>>

\* RTMP_IsConnected, without the mutex.
CheckConnected ==
    /\ sender = "connected?"
    /\ sender' = IF valid THEN "lock" ELSE "ending"
    /\ UNCHANGED <<buffer, valid, eventVars, len, written, loopVars, netVars, sessionVars>>

Fits == Len(buffer) + len <= Size

CheckSpace ==
    /\ sender = "lock"
    /\ sender' = IF Fits THEN "copy" ELSE "wait"
    /\ UNCHANGED <<buffer, valid, eventVars, len, written, loopVars, netVars, sessionVars>>

\* Mutant: the state of the buffer is not looked at again.
WaitForSpaceOnce ==
    /\ sender = "wait" /\ space
    /\ space' = FALSE
    /\ sender' = "copy"
    /\ UNCHANGED <<buffer, valid, hasData, socketEvent, exit, len, written, loopVars, netVars,
                   sessionVars>>

WaitForSpace ==
    /\ sender = "wait" /\ space
    /\ space' = FALSE
    /\ sender' = "connected?"
    /\ UNCHANGED <<buffer, valid, hasData, socketEvent, exit, len, written, loopVars, netVars,
                   sessionVars>>

Copy ==
    /\ sender = "copy"
    /\ buffer' = buffer \o [k \in 1 .. len |-> <<connection, written + k>>]
    /\ written' = written + len
    /\ sender' = "signal"
    /\ UNCHANGED <<valid, eventVars, len, loopVars, netVars, sessionVars>>

SignalData ==
    /\ sender = "signal"
    /\ hasData' = TRUE
    /\ sender' = "idle"
    /\ UNCHANGED <<buffer, valid, space, socketEvent, exit, len, written, loopVars, netVars,
                   sessionVars>>

\* The end of send_thread: send_thread_signaled_exit, ...
SignalExit ==
    /\ sender \in {"idle", "ending"}
    /\ exit' = TRUE
    /\ sender' = "exiting"
    /\ UNCHANGED <<buffer, valid, space, hasData, socketEvent, len, written, loopVars, netVars,
                   sessionVars>>

\* Mutant: nobody wakes the loop.
WakeLoopNot ==
    /\ sender = "exiting"
    /\ sender' = "join"
    /\ UNCHANGED <<buffer, valid, eventVars, len, written, loopVars, netVars, sessionVars>>

\* ... buffer_has_data_event, ...
WakeLoop ==
    /\ sender = "exiting"
    /\ hasData' = TRUE
    /\ sender' = "join"
    /\ UNCHANGED <<buffer, valid, space, socketEvent, exit, len, written, loopVars, netVars,
                   sessionVars>>

\* ... pthread_join and RTMP_Close.
Join ==
    /\ sender = "join" /\ loop = "over"
    /\ valid' = FALSE
    /\ sender' = "over"
    /\ UNCHANGED <<buffer, eventVars, len, written, loopVars, netVars, sessionVars>>

Sender ==
    \/ Write \/ CheckConnected \/ CheckSpace \/ WaitForSpace \/ Copy \/ SignalData
    \/ SignalExit \/ WakeLoop \/ Join

-----------------------------------------------------------------------------
\* socket_thread_windows_internal

Unlocked == sender # "copy"

LoopGoes(place) ==
    /\ loop' = place
    /\ UNCHANGED <<senderVars, sessionVars>>

\* The socket is writable from the moment WSAEventSelect is called.
LoopStart ==
    /\ loop = "start"
    /\ canWrite' = FALSE /\ flags' = flags \cup {"write"} /\ socketEvent' = TRUE
    /\ LoopGoes("top")
    /\ UNCHANGED <<buffer, valid, space, hasData, exit, blocked, kernel, received, broken>>

LoopTop ==
    /\ loop = "top" /\ Unlocked
    /\ IF exit /\ buffer = <<>> THEN exit' = FALSE /\ LoopGoes("over")
       ELSE LoopGoes("wait") /\ UNCHANGED exit
    /\ UNCHANGED <<buffer, valid, space, hasData, socketEvent, canWrite, netVars>>

ToWrite(writable) == IF writable THEN "write" ELSE "top"

\* WaitForMultipleObjects: the first of the events that is signalled.
WaitData ==
    /\ loop = "wait" /\ hasData /\ ~socketEvent
    /\ hasData' = FALSE
    /\ LoopGoes(ToWrite(canWrite))
    /\ UNCHANGED <<buffer, valid, space, socketEvent, exit, canWrite, netVars>>

WaitSocket ==
    /\ loop = "wait" /\ socketEvent
    /\ socketEvent' = FALSE
    /\ LoopGoes("event")
    /\ UNCHANGED <<buffer, valid, space, hasData, exit, canWrite, netVars>>

\* socket_event: WSAEnumNetworkEvents, which clears what it reports.
SocketEvent ==
    /\ loop = "event"
    /\ canWrite' = (canWrite \/ "write" \in flags)
    /\ flags' = {}
    /\ LoopGoes(IF "close" \in flags \/ ("read" \in flags /\ broken) THEN "fatal"
                ELSE ToWrite(canWrite'))
    /\ UNCHANGED <<buffer, valid, eventVars, blocked, kernel, received, broken>>

\* What send() may take of what write_data gives it, which may be a part.
Taken ==
    {n \in 1 .. Len(buffer) : n <= Kernel - Len(kernel) /\ (lowLatency => n <= PacketSize)}

\* write_data with nothing to write.
WriteNothing ==
    /\ loop = "write" /\ Unlocked
    /\ buffer = <<>>
    /\ LoopGoes("top")
    /\ UNCHANGED <<buffer, valid, eventVars, canWrite, netVars>>

\* Mutant: the data is not moved to the front.
WriteDataUnmoved ==
    /\ loop = "write" /\ Unlocked
    /\ ~broken
    /\ \E n \in Taken :
         /\ kernel' = kernel \o SubSeq(buffer, 1, n)
         /\ buffer' = SubSeq(buffer, 1, Len(buffer) - n)
    /\ space' = TRUE
    /\ LoopGoes(IF Len(buffer') <= Rest THEN "top" ELSE "write")
    /\ UNCHANGED <<valid, hasData, socketEvent, exit, canWrite, flags, blocked, received, broken>>

WriteData ==
    /\ loop = "write" /\ Unlocked
    /\ ~broken
    /\ \E n \in Taken :
         /\ kernel' = kernel \o SubSeq(buffer, 1, n)
         /\ buffer' = SubSeq(buffer, n + 1, Len(buffer))
    /\ space' = TRUE
    /\ LoopGoes(IF Len(buffer') <= Rest THEN "top" ELSE "write")
    /\ UNCHANGED <<valid, hasData, socketEvent, exit, canWrite, flags, blocked, received, broken>>

\* WSAEWOULDBLOCK.
WriteBlocked ==
    /\ loop = "write" /\ Unlocked
    /\ ~broken /\ buffer # <<>> /\ Taken = {}
    /\ canWrite' = FALSE /\ blocked' = TRUE
    /\ LoopGoes("top")
    /\ UNCHANGED <<buffer, valid, eventVars, flags, kernel, received, broken>>

WriteFails ==
    /\ loop = "write" /\ Unlocked
    /\ broken /\ buffer # <<>>
    /\ LoopGoes("fatal")
    /\ UNCHANGED <<buffer, valid, eventVars, canWrite, netVars>>

\* fatal_sock_shutdown: the socket, ...
FatalClose ==
    /\ loop = "fatal"
    /\ valid' = FALSE
    /\ LoopGoes("clear")
    /\ UNCHANGED <<buffer, eventVars, canWrite, netVars>>

\* ... write_buf_len, without the mutex: the zero may be lost to an addition that is under way, ...
FatalClear ==
    /\ loop = "clear"
    /\ buffer' \in IF Unlocked THEN {<<>>} ELSE {<<>>, buffer}
    /\ LoopGoes("fatalSignal")
    /\ UNCHANGED <<valid, eventVars, canWrite, netVars>>

\* ... and buffer_space_available_event.
FatalSignal ==
    /\ loop = "fatalSignal"
    /\ space' = TRUE
    /\ LoopGoes("over")
    /\ UNCHANGED <<buffer, valid, hasData, socketEvent, exit, canWrite, netVars>>

Loop ==
    \/ LoopStart \/ LoopTop \/ WaitData \/ WaitSocket \/ SocketEvent
    \/ WriteNothing \/ WriteData \/ WriteBlocked \/ WriteFails
    \/ FatalClose \/ FatalClear \/ FatalSignal

-----------------------------------------------------------------------------
\* The network: the server receives; Windows reports that a blocked socket is writable again.
Deliver ==
    /\ kernel # <<>> /\ ~broken
    /\ received' = Append(received, Head(kernel)) /\ kernel' = Tail(kernel)
    /\ IF blocked THEN flags' = flags \cup {"write"} /\ socketEvent' = TRUE /\ blocked' = FALSE
       ELSE UNCHANGED <<flags, socketEvent, blocked>>
    /\ UNCHANGED <<buffer, valid, space, hasData, exit, senderVars, loopVars, broken,
                   sessionVars>>

\* The server sends something, such as an acknowledgement.
Answer ==
    /\ loop \notin {"none", "start", "over"} /\ ~broken /\ "read" \notin flags
    /\ flags' = flags \cup {"read"} /\ socketEvent' = TRUE
    /\ UNCHANGED <<buffer, valid, space, hasData, exit, senderVars, loopVars, blocked, kernel,
                   received, broken, sessionVars>>

BreakConnection ==
    /\ loop \notin {"none", "over"} /\ ~broken
    /\ broken' = TRUE
    /\ flags' = flags \cup {"close"} /\ socketEvent' = TRUE
    /\ UNCHANGED <<buffer, valid, space, hasData, exit, senderVars, loopVars, blocked, kernel,
                   received, sessionVars>>

\* init_send: send_thread_signaled_exit is reset, write_buf is new; write_buf_len and the other
\* events stay as they are.
Start ==
    /\ sender = "over" /\ connection < MaxConnections
    /\ connection' = connection + 1
    /\ lowLatency' \in BOOLEAN
    /\ valid' = TRUE /\ exit' = FALSE
    /\ sender' = "idle" /\ len' = 0 /\ written' = 0
    /\ loop' = "start" /\ canWrite' = FALSE
    /\ flags' = {} /\ blocked' = FALSE /\ kernel' = <<>> /\ received' = <<>> /\ broken' = FALSE
    /\ stale' = (stale \/ buffer # <<>>)
    /\ UNCHANGED <<buffer, space, hasData, socketEvent>>

Init ==
    /\ buffer = <<>> /\ valid = FALSE
    /\ space = FALSE /\ hasData = FALSE /\ socketEvent = FALSE /\ exit = FALSE
    /\ sender = "over" /\ len = 0 /\ written = 0
    /\ loop = "over" /\ canWrite = FALSE
    /\ flags = {} /\ blocked = FALSE /\ kernel = <<>> /\ received = <<>> /\ broken = FALSE
    /\ connection = 0 /\ lowLatency = FALSE /\ stale = FALSE

Next == Sender \/ Loop \/ Deliver \/ Answer \/ BreakConnection \/ Start

\* The threads run on, the server goes on to receive, and a stream is ended some day.
Fairness == WF_vars(Sender) /\ WF_vars(Loop) /\ WF_vars(Deliver)

Spec == Init /\ [][Next]_vars /\ Fairness

-----------------------------------------------------------------------------
\* Every variable in its domain; the buffer is never written past its end, whatever the two
\* threads do.
TypeOK ==
    /\ Len(buffer) <= Size /\ Len(kernel) <= Kernel + Size
    /\ valid \in BOOLEAN /\ space \in BOOLEAN /\ hasData \in BOOLEAN /\ socketEvent \in BOOLEAN
    /\ exit \in BOOLEAN /\ canWrite \in BOOLEAN /\ blocked \in BOOLEAN /\ broken \in BOOLEAN
    /\ stale \in BOOLEAN /\ lowLatency \in BOOLEAN
    /\ sender \in {"idle", "connected?", "lock", "wait", "copy", "signal", "ending", "exiting",
                   "join", "over"}
    /\ loop \in {"start", "top", "wait", "event", "write", "fatal", "clear", "fatalSignal", "over"}
    /\ len \in 0 .. MaxWrite /\ written \in 0 .. MaxBlocks /\ connection \in 0 .. MaxConnections
    /\ flags \subseteq {"read", "write", "close"}

\* The buffer implements a pipe: in order, nothing twice, nothing left out, and an orderly end
\* leaves nothing inside.  Broken off, what was inside is gone, unless the sender was between its
\* look at the socket and the mutex: then the next connection begins with what it left, and
\* nothing is claimed any more.
Pipe == INSTANCE BytePipe WITH
    state  <- IF stale \/ loop \notin {"clear", "fatalSignal", "over"} THEN "open"
              ELSE IF broken THEN "broken" ELSE "closed",
    inside <- IF stale \/ loop \in {"clear", "fatalSignal", "over"} THEN <<>> ELSE buffer,
    out    <- IF stale THEN <<>> ELSE received \o kernel
ImplementsPipe == Pipe!Spec

\* A thread that waits for room goes on: the loop sends, or ends and says so.
RoomComes == sender = "wait" ~> sender # "wait"

\* The loop waits, and no event is signalled.
Asleep == loop = "wait" /\ ~hasData /\ ~socketEvent

\* The loop stopped with a tail that is shorter than Rest, and nothing tells it to go on.
ShortTail == Asleep /\ canWrite /\ Len(buffer) \in 1 .. Rest

\* The join of the socket thread comes back: no wake-up of it is lost, and only a tail holds it up.
LoopJoined == sender = "join" ~> sender = "over" \/ ShortTail

\* No wake-up is lost that the sender or the loop waits for.
WakeUpsArrive == RoomComes /\ LoopJoined

\* Windows will report that the socket can be written to again, when the server has received more.
WritableToCome == blocked /\ kernel # <<>> /\ ~broken

\* What is behind it at every moment: the loop never sleeps, nor has it ended, while the thread
\* that writes waits for room without a signal, unless Windows will wake it (socket_queue_data
\* waits for the event without the mutex).  The same is so for the join, but for a short tail.
NoLostWakeUp ==
    /\ sender = "wait" /\ ~space => loop # "over" /\ (Asleep => WritableToCome)
    /\ sender = "join" /\ Asleep => WritableToCome \/ ShortTail

\* rtmp-windows.c of a loop that leaves a tail: "finish writing for now".
TailWritten == sender = "join" ~> sender = "over"

=============================================================================
