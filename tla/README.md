# TLA+ verification of SnipeWatch Delay

SnipeWatch Delay is an OBS plugin that puts a variable delay in front of an RTMP output and
lets hotkeys, obs-websocket and the SnipeWatch server change it while live. These modules model
its own code, the RTMP output it is built on, and what that output uses of librtmp down to the
bytes. TLC checks small instances, TLAPS proves the main safety properties for all values of the
constants.

| file | what it is |
| --- | --- |
| `DelayBuffer.tla` | the timeline, the pacer and the rewriting of time stamps |
| `DelayLine.tla`, `DelayFeed.tla` | the delay line the buffer is to its receiver; the buffer with the whole feed remembered, which implements it |
| `RemoteControl.tla` | who decides the delay: callers, server, start and end of a stream |
| `ServiceSwap.tla` | replacing the streaming service and restoring it |
| `RtmpStream.tla` | the life of the output: start, connect, send, stop, destroy |
| `SendQueue.tla` | the queue of the output: dropping frames, changing the bitrate |
| `SocketLoop.tla`, `BytePipe.tla` | the write buffer and the socket thread, and the pipe they implement |
| `HappyEyeballs.tla` | the race of connections to the addresses of a server |
| `RtmpSession.tla` | the exchange of commands with the server: connect, log in, publish, end |
| `Amf.tla`, `FlvMux.tla`, `RtmpChunks.tla` | AMF, FLV tags and the chunk stream as operators on bytes |
| `RtmpPeer.tla` | the same formats seen from the other end, as their specifications define them |
| `Wire.tla`, `MCWire.tla` | what goes over a connection, composed of the four above |
| `*_proofs.tla` | the theorems of each module |
| `<module>_<run>.cfg` | one configuration per run, and those of [other disagreements](#disagreements) |
| `PROJECT.json` | components, runs, mutants, source map, findings, hazards, theorems |

In this directory, `tlc -config RtmpStream_life.cfg RtmpStream` runs a check and
`tlapm RtmpStream_proofs.tla` the proofs; the other modules go the same way (`MCWire` for
`Wire_wire.cfg`).

## The system

```
 encoders --rtmp_stream_data--> delay buffer --swd_send--> send queue --send_thread--> librtmp
   (OBS)                        (pacer thread)                 ^                   [socket thread]
                                  ^        ^                   |
     hotkeys, obs-websocket ------+        +-- start / stop -- OBS output calls, connect_thread
     poll thread <--HTTP--> server             (delay taken from g_requested_sec)
     UI thread: frontend events, menus --> service swap, token
```

| component | state | operations | what is hard | what makes it correct |
| --- | --- | --- | --- | --- |
| Delay buffer (`delay-buffer.c`) | timeline, cursor, target and held delay, pending skip, offset, last times, pacer thread | push, set delay, pacer pass, start, stop | encoders, requesters and pacer meet at one mutex; batches are sent outside it; jumps while a jump is pending | released packets are old enough, decodable, in order; jumps land on keyframes; pruning takes nothing in use; stop returns |
| Control of the delay (`g_running`, `g_requested_sec`, `plugin-main.c`) | running buffer, requested delay | request, hotkey, websocket request, stream events | two mutexes, requests while the output starts or ends | the requested delay is the one in force; a new stream starts without delay |
| SnipeWatch link (`remote.c`) | token, streaming, last answer, status, thread | poll, apply, set token, start, stop | state read before an HTTP exchange and used after it; unloading meanwhile | only granted delays are applied; the server's wish prevails; the status heals; unloading ends |
| Service swap (`plugin-main.c`, `delay-service.c`) | current service, `original-service.json`, delay mode | enable, disable, refresh on events | crashes between two writes; several profiles; edits without an event | the original can be restored; same account; right mode reported |
| Dialogs (`settings-dialog.cpp`) | none | two modal dialogs | none | the token reaches the link |
| RTMP output, life cycle (`rtmp-stream.c`) | `connecting`, `active`, `disconnected`, `stop_event`, `send_sem`, `sent_headers`, three threads | start, stop, destroy, connect, send | flags without a mutex; threads joined or detached depending on them | a stop is answered; headers first; no packet stranded; nothing runs in freed memory |
| Send queue (`rtmp-stream.c`) | packets, `min_priority`, `dbr_*` | add, drop, change bitrate | frames dropped by priority while the sender empties the queue | dropped frames leave no orphan references; the bitrate comes back |
| Socket loop (`rtmp-windows.c`) | write buffer, auto-reset events | queue data, send, exit | lost wake-ups between two threads; a connection that breaks under both | all bytes go out in order; both threads end |
| Connection race (`happy-eyeballs.c`) | workers, candidates, winner | connect, time out, cancel, free | last loser against the dispatching loop; time-out against a late winner | one winner, no socket lost, an error when all fail |
| FLV muxer (`flv-mux.c`) | none | one tag per packet | time stamps in ms with a 24+8 bit layout, two forms of every tag | the reader finds the track, codec, kind, times and data that were meant |
| librtmp, session (`rtmp.c`) | socket, handshake, invokes that wait, application, stream id, counters | connect, log in, publish, send, read, close | a login reconnects inside of the handler of a rejection; a failed send closes the session, which sends | only what the conversation allows is said; a stream announced is taken back; sockets are closed |
| librtmp, chunk stream and AMF (`rtmp.c`, `amf.c`) | last header and time of every channel, partial messages | send and read a message, encode and decode values | headers that leave out what was said before, channels interleaved, times that wrap | both sides read what the other wrote |
| HEVC, AV1 (`rtmp-hevc.c`, `rtmp-av1.c`) | none | rewrite a packet or a header | lengths at boundaries | not modelled (below) |
| Network interfaces, option parser, URL, hashes, logging, playback, obs-websocket header | none | - | - | not modelled (below) |

How they interact: OBS calls the output from its own threads; `rtmp_stream_start` takes the
requested delay, starts the buffer and then publishes it as `g_running`; requests change
`g_requested_sec` and the published buffer under `g_mutex`; the pacer calls
`rtmp_stream_data_direct` outside the buffer's mutex; that call meets the send thread at the
packet queue and the semaphore. The send thread makes a tag of each packet and writes it with
`RTMP_Write`, whose chunks go to the socket or, with the socket loop, to its write buffer.
Frontend events are queued and handled on the UI thread later.

The modules follow these seams. `DelayBuffer` hands packets to a sink; `RtmpStream` has the feed
as a thread that may be anywhere in `rtmp_stream_data_direct`; `SendQueue` is what `RtmpStream`
leaves of the queue; `SocketLoop` is below a write; `RtmpSession` is what the connect thread does
in `RtmpStream.Connect`, after a race of `HappyEyeballs`; `Wire` takes the messages of a session
and the tags of the output to their bytes.

`PROJECT.json` lists the hazards, each at its line with the properties that would catch it.

## Modules

Each action is one critical section, or one access to state that other threads see; the names
are those of the source where TLA+ allows. The `map` of `PROJECT.json` gives the lines.

### DelayBuffer, DelayFeed and DelayLine

Three kinds of threads: encoders (`Push`), requesters (`SetDelay`, with `Raise` and `Lower`), and
the pacer (`PacerWake`, then `ReleaseNext` per packet, `EndPass` with pruning, `PacerSend`
outside the mutex); the thread that starts and stops the output is `ctl`. A pass holds the
mutex: `Unlocked` is false. `JumpTo`, `RewindPoint` and `SkipPoint` are `jump_to_locked`,
`find_keyframe_before` and `find_keyframe_after`; `Outdated` is what `prune_locked` drops.

What is taken from outside the source: OBS delivers packets of both kinds in the order of their
time stamps, video first on ties, at a regular rate, each session beginning with a keyframe; the
clock does not pass a packet that is due (`Tick`); the pacer is not held up longer than
`MaxStall`. One unit of time is both the nanosecond clock of arrivals and the microsecond clock
of media: packets are produced in real time. The 16667 of `reset_locked` is left out, since the
first frame overwrites it before it can be used.

`DelayLine` is what a receiver may rely on. It has the whole feed of the session, the position of
the packet shown last, a shift and the delay, and no cursor, timeline, pacer, pruning or pending
jump: a step shows the packet that follows (`Continue`), or jumps to a keyframe anywhere and
shifts time so that it comes one frame after the last one shown (`Jump`). A packet is shown when
it is as old as the delay and its time is later than the last of its kind. `DelayFeed` adds to the
buffer what the line needs and the program does not keep: `fed`, everything pushed in the session
whether pruned since or not, and `shown`. Its actions are those of `DelayBuffer`; the refinement
maps `shift` to `offset_usec` and `last` to the two last times.

### RemoteControl

Callers ask and announce (`Ask`, `Announce`); the poll thread goes through `PollAsk` (token and
streaming are read), `PollAnswer` (status), `PollDecide`, `PollApply`; OBS starts the output in
three steps (`StartRead`, `StartBuffer`, `StartAttach`: the two mutexes and the read of the
request), connects, loses, reconnects or stops it; the UI thread takes events from `events`.
`SetToken` is the dialog. `BeginUnload`, `PollExit`, `Joined` and `EndUnload` are
`swd_remote_stop`. Of the buffer only its target and whether it runs are kept.

Assumptions: a waiting poll thread may always go on, since the wake event only shortens a wait
that times out; OBS starts a new stream after it has handled the end of the last, and
reconnects only what was live; OBS calls stop also while it waits to reconnect, but not when
its retries are used up (`GiveUp`). `desiredSec` is truncated to `Width` as the cast to
`uint32_t` does.

### ServiceSwap

`BeginEnable`, `KeepOriginal`, `SetService`, `SaveService` and `BeginDisable` are the steps of
the two menu handlers between which OBS may go down (`Crash`). `SwitchProfile`, `StartStreaming`,
`ShowStatus` and `Crash` refresh `delay_mode`, `EditSettings` does not. `save_json_safe` is
atomic, as its write-and-rename is; OBS does not change the service while it streams.

### RtmpStream

`ctl` is the OBS call under way (start, stop or destroy), `connector` is `connect_thread`,
`sender` is `send_thread`, `feed` is the pacer inside `rtmp_stream_data_direct`. All accesses to
`connecting`, `active`, `disconnected`, `encode_error` and `stop_event` that race are separate
steps; the last four lines of the send thread are four actions.

- `rtmp_stream_stop` sets its `ts` to 0 whenever the buffer exists, so `stop_ts` is always 0, a
  stop is never a delayed one, and `can_shutdown_stream` is true whenever it is asked.
- A send works or fails; adding a packet may drop any number of frames: which ones is the
  business of `SendQueue`.
- A thread that waits on a semaphore that is destroyed does not wake up. Joining a thread
  that has detached itself returns at once. The standards leave both undefined; this is what the
  implementations do.
- OBS is assumed to stop the output only when a thread that has just told it of an end has run
  its last lines (`Settled`), to start it again only when a sender that is ending has ended
  (`Rested`), and not to reconnect what it was asked to stop. A connection takes longer than
  the last lines of the old sender. A destroy may come at any time once OBS takes the output to be
  idle.

### SendQueue

The k-th packet of a stream is the number k: at each time one packet of every video track comes,
then one of audio, and the groups of the tracks are aligned. A deque is the set of the numbers in
it. `Priority` follows the parser of H.264 (keyframe; a frame others refer to; a B-frame others
refer to; one nothing refers to), `Refers` says what a frame needs.

The feed holds `packets_mutex` from `FeedLock` to `FeedAdd`; in between it may climb
(`dbr_inc_bitrate`), lower (`dbr_bitrate_lowered`) and set the bitrate, each a step. The send thread
holds the mutex only to take a packet (`SenderTake`); that the packet was sent (`SenderSent`) or
could not be (`SenderFails`) shows later, wherever the feed is by then, and the sender gives the
bitrate back at its end (`SenderReset`, `SenderSetBitrate`) without a mutex. Where the two meet is
recorded in `raced`. What `dbr_add_frame` measures of the network
is any of `Estimates`. `last_dts_usec` and `dbr_prev_bitrate` survive from stream to stream, as in
the code.

### HappyEyeballs

A worker is the number of its attempt, and so is its socket. `Main` is `RTMP_Connect` with
`happy_eyeballs_connect` and `happy_eyeballs_timedwait` below it, `Worker(w)` is
`happy_connect_worker`, and `Destroy`, `CloseSockets` are `destroy_thread`. Every access to
`winner_mutex`, `is_starting`, the completion events, the race event and the error is a step of its
own. A `connect()` takes any time and ends either way, even after a shutdown. `Alternated` is the
order `build_addr_list` gives the addresses. Address resolution is a choice of up to
`MaxAddresses` families.

### SocketLoop and BytePipe

A block `<<c, k>>` is the k-th written on connection c. The sender is `socket_queue_data` and the
end of `send_thread`, the loop is `socket_thread_windows`; they meet at `write_buf_mutex` (`Copy`
and the actions with `Unlocked`) and at auto-reset events, which `WaitForSpace`, `WaitData` and
`WaitSocket` clear. `fatal_sock_shutdown` takes three steps, the middle one without the mutex.
Windows reports what `WSAEnumNetworkEvents` documents: writable at the start and again after a
send that would have blocked, readable, closed.

`BytePipe` is what the two promise together: open, put, take, break, close. The refinement maps
`inside` to the buffer and `out` to what the server has received followed by what is in the
kernel. A connection that begins with old bytes in the buffer (`stale`) is where the promise
ends.

### RtmpSession

The struct `RTMP` is a record; every function of `rtmp.c` that sends is an operator from one such
record to the next, so that a handler which sends three commands, one of which fails, is one step
as it is in the code. A failed send closes the connection under the function that called it
(`Abort`, which is the end of `WriteN`); `credit` says which send of a step that is. `Read` is the
loop of `RTMP_ConnectStream` with `RTMP_ClientPacket` and `HandleInvoke`. A rejection that asks for a
login closes, and `RTMP_Connect` and `RTMP_ConnectStream` are called again inside the handler:
`nested` counts these calls. A challenge is a record of its nonces, a response the record of what
it is computed from.

The server answers late, out of order, twice or never, sends what it was not asked for, and goes
away at any moment. It is taken to challenge at most once in a login and to stay with the scheme
it began with.

### Amf, FlvMux, RtmpChunks, RtmpPeer, Wire

Operators on sequences of bytes, with the names of their functions. `RtmpPeer` has the same
formats from the specifications and shares no operator with them; `Wire` lets the two ends talk,
one chunk or message in flight in each direction. First a server says commands and changes of the
chunk size on several channels; then the client publishes, sends metadata, headers, frames and
footers.

Integers of 16, 24 and 32 bits have digits of base `Radix`, 256 in the program and 16 in the run:
the largest time in a header is then 4095, times wrap at 65536, those of FLV tags at 32768, and
a few steps reach all of these. Assumptions, each a named guard of `Wire`:

- `Readable`: the server sends extended times only with messages of one chunk, and no header
  without a time after them. `RTMP_ReadPacket` does not read the extended time of later chunks.
- `Sendable`: no step of `0xffffff` ms or more is taken twice running; the chunk header would then
  leave out the extended time the receiver needs.
- Packets of one kind have rising times, those of the other kind may lag by a millisecond. AV1
  has no composition offset.
- AMF3: objects inside of objects and integers of four bytes whose last is 128 or more are not said;
  [the code misreads both](#disagreements).

## Properties and runs

| run | states | what it shows |
| --- | --- | --- |
| `pace` | 3.3 million | one session with two changes of the delay at any moment: `ImplementsLine` (the refinement), `BatchInTimeline`, `Decodable`, `MuxTimesIncrease`, `RaiseRewinds`, `PaceKeptByFirstLower` |
| `restart` | 0.6 million | two sessions, stops, reconnections, thread creation that fails: `StopCompletes`, `LowerTakesEffect` |
| `remote` | 0.5 million | two starts with hotkey, poll, UI thread and unloading interleaved, tokens, a server that comes and goes and wants more than the integer holds: `ControlRespected`, `UnloadCompletes`, `StatusHeals`, `ServerDecides` |
| `swap` | 42 thousand | two profiles, edits, a crash at any step: `Recoverable`, `SameAccount`, `ModeKnown` |
| `rtmp` | 155 thousand | three starts, three stops, a destroy, with connections that fail or are lost anywhere: `QueueBacked`, `DestroyedAlone`, `HeadersFirst`, `StopAnswered` |
| `drops` | 1.7 million | two video tracks and audio through a slow network, over two streams: `SentDecodable`, `QueueBounded`, `ClimbPending`, `BitrateRestored` |
| `race` | 0.4 million | up to four addresses, workers that win or fail in any order, a launch that fails, a time-out: `UsedStaysOpen`, `RaceDecided`, `EndsClosed` |
| `pipe` | 1.5 million | two connections with partial and blocked sends that break anywhere: `ImplementsPipe` (the refinement), `WakeUpsArrive` |
| `session` | 0.6 million | two attempts over four connections, logins, failing sends, an unreliable server: `ConversationLegal`, `EndIsTold`, `OnlySilenceLeaks` |
| `wire` | 0.35 million | commands in every header format, mixed on three channels; tags of three codecs with gaps and wraps: `CommandsUnderstood`, `FramesDelivered` |

Most of these runs also check their module's `TypeOK`. Every property has a mutant: a definition
that models code, changed as a slip in the code would change it, which TLC shows to break the
property. The changed definitions are in the modules, marked as mutants.

<a name="disagreements"></a>
### Where code and words disagree

Two runs check what the repository says of the program and find it violated:

| run | what the code does |
| --- | --- |
| `ntsc` | `usec_to_tb` divides by the numerator of the timebase, the muxer does not: at 30000/1001 the video offset is 1001 times too small and time stamps go back after a rewind. |
| `latepoll` | An answer that comes after the stream has ended sets the delay of the next stream. |

More configurations, to be run in the same way, show the rest:

| configuration | property | what the code does |
| --- | --- | --- |
| `DelayBuffer_pacelost` | `PaceDropsAtKeyframe` | A second lower, while the first still waits for its keyframe, paces by the first one's target at once, against "keep the old pace until one arrives". |
| `DelayFeed_tracks` | `NothingLost` | All audio tracks share one last time: of two packets with the same time on two tracks the second is dropped, against "A pacer releases each packet once it is `delay` seconds old". |
| `DelayBuffer_longgop` | `BatchInTimeline` | With keyframes further apart than the 5 s that `HISTORY_NS` adds to the longest delay, a raise rewinds to packets that the same pass batches and prunes: the batch is sent without its reference. |
| `RemoteControl_startrace` | `RequestInForce` | A delay asked for between lines 1429 and 1430 of `rtmp_stream_start` is remembered but never applied. |
| `SendQueue_givenback` | `AlwaysRestored` | "reset bitrate on stop": a pacer that has passed its look at `disconnected` and is at the bitrate while the send thread gives it back lowers it once more, and the encoder keeps that bitrate after the stream. |
| `ServiceSwap_profiles` | `OwnServiceBack` | "Restore" in another profile brings back the first profile's service, key included. |
| `HappyEyeballs_socket` | `SuccessHasSocket` | The dispatching loop counts the active workers without `winner_mutex`: a winner that has signalled its own event but not the race is not counted, and the race ends as a success without a socket. |
| `SocketLoop_tail` | `TailWritten` | With up to 1000 bytes left the loop "finishes writing for now" and waits for an event; when the sender has ended there may be none, and the join in `send_thread` waits until the server says something. |

Seen while modelling, without a configuration:

- A raise between the release of a batch and its sending does not hold that batch back.
- A stop between the notification of a disconnection (line 754 of `rtmp-stream.c`) and line 763
  is never answered: its event is reset, and `active` cleared, without telling OBS. `Settled`
  assumes it away.
- A stop that reads `active` just before line 763 leaves `stop_event` set. When the next
  connection fails at its metadata, its send thread sleeps under a stop event without a post; the
  connection after that joins this thread in `init_connect` and never returns, and
  `rtmp_stream_stop` joins the connect thread. `StopAnswered` names the exception (`Deaf`).
- When the socket thread cannot be created or the socket cannot be set up, the send thread is
  left waiting with `active` unset, so nobody ever ends it. `DestroyedAlone` allows for a sender
  that sleeps, for this reason.
- A failed encoder does not end the stream: `encode_error` and a post reach a loop that finds no
  packet and waits again.
- A send thread that ended normally is neither joined nor detached.
- A write that is between its look at the socket and the mutex when the connection breaks
  leaves its bytes in the write buffer, whose length no connection resets (`stale`).
- A worker that connects after the 25 s of the race leaves its socket open for good, as does one
  whose thread could not be created.
- `RTMP_ConnectStream` returns when the server says nothing; `try_connect` then returns without
  `RTMP_Close`, and the next attempt loses the socket. `OnlySilenceLeaks` says it is the only way.
- `RTMP_Close` clears `m_bindIP` (near line 4427 of `rtmp.c`), so that the connection of a login
  is not bound to the address that was asked for; and it leaves `m_inChunkSize` and `m_nClientBW`
  as the last connection had them.
- While publishing, messages are read and thrown away: pings are not answered, and a change of the
  chunk size goes unnoticed.
- After a failed send, `WriteN` closes the socket and leaves its handle in `sb_socket`; a second
  close of the same handle is possible.
- `flv_packet_audio_ex` returns early for other types of packets and leaves `*output` unset;
  footers carry time 0 whatever came before them.
- The AMF3 decoder skips the marker of an object inside of an object twice, and takes the fourth
  byte of an integer as signed.

### Bounds, and why they are enough

- `pace`: delays 0, 1 and 3 with a maximum of 2, so that clamping happens; a raise followed by a
  lower and the reverse need two requests; groups of two frames and a history of 5 let a rewind, a
  pending skip and a pruning happen before time 7; `PruneEvery` of 1 prunes in every pass.
- `restart`: two sessions are the least in which the state of one could leak into the next.
- `ntsc` takes a numerator of 2, `longgop` groups longer than the history: the smallest values
  at which the code behaves differently.
- `remote`: one caller and one poll thread are all that can ask; two starts for what survives
  a stream, two tokens for a late answer to the first. `Width` of 4 makes 5 overflow.
- `swap`: two profiles and two edits let the file belong to another profile, or to the time before
  the edit; one crash at each of the steps.
- `rtmp`: three starts are needed for a stale stop event to reach the connection after next;
  the packet bound also bounds the semaphore.
- `drops`: two tracks, since dropping by the priority of one drops of both; groups of six have
  every priority twice; 22 packets are more than one group of each track, so that the queue
  refills after a drop; thresholds of 1 and 2 and `Few` of 5 are reached and passed. Of the two
  estimates one is rounded down and one is raised to 50; before the first packet is sent there is
  none. Two streams for what survives.
- `race`: four addresses have every mixture of families with two of each, three workers that
  overlap and one that is refused; two errors make a tie and a majority.
- `pipe`: a buffer of 3 with writes up to 2 is full, half full and empty; `Rest` of 1 leaves a tail
  and `Kernel` of 2 blocks; two connections for what one leaves to the next.
- `session`: a login takes three connections and one more may follow it; `Window` of 2 has several
  acknowledgements on a connection; one message that nobody asked for, of every kind.
- `wire`: two messages of the server with chunk sizes above and below their length; channels with
  basic headers of one, two and three bytes; steps of time below and above the 24 bits; four frames
  for a wrap and the frames around it. A first time below zero makes `get_ms_time` round both
  ways.

`CHECK_DEADLOCK FALSE` is set where the system may rest: when the bounds are used up, the output
is freed or the module unloaded.

### Fairness

Weak fairness of each thread's actions: the operating system schedules it, and its waits either
time out (pacer, poll thread, HTTP requests, connecting) or end with the event modelled.

- `DelayBuffer`: the pacer, and the thread that joins it.
- `RemoteControl`: the poll thread, callers that have asked and go on to announce, the UI thread,
  unloading.
- `RtmpStream`: OBS's call, the connect thread, the sender and the feed. Joining the pacer is
  strongly fair: the packets it has taken out go through `rtmp_stream_data_direct` one by one, and
  it ends after the last of them; the model does not count them.
- `HappyEyeballs`: the dispatching thread, each worker (`connect()` returns some day), the destroying
  thread.
- `SocketLoop`: sender and loop, and the delivery of what the kernel holds: while the connection is
  not broken the server goes on to receive.

None on what users, OBS, the encoders or the server may or may not do. `SendQueue`,
`ServiceSwap`, `RtmpSession` and `Wire` have safety properties only and no fairness.

## Proofs

All theorems hold for all constants that satisfy the named assumptions (`ConstantsAssumption`).

**DelayBuffer** (`TypeCorrect`, `ResyncSafe`, `ClockSafe`, `ReleaseSafe`, `DecodableAlways`,
`PaceKept`, `RaiseAlwaysRewinds`, `BatchAlwaysInTimeline`, `MuxTimesAlwaysIncrease`,
`BufferIsDelayLine`, `OneTrackComplete`, `LowersNotMissed`).
`ResyncOnKeyframe` is not inductive: a push, a raise that finds no keyframe and a pruning must
keep the packet under the cursor. `SafeInv` adds that a fresh start has an empty timeline and no
pending jump (`FreshStart`), and that arrivals are sorted, not in the future, and the held pace is
not below the target (`ClockInv`). `Decodable` rests on `FrameInv`: the video frames of the
timeline follow each other without a gap (`GaplessTimeline`), the clock of frames never drops one
(`FrameClock`), and the next frame to release follows the last one or is a keyframe
(`NextFrame`). `PaceKept` is one step from `SafeInv`.

Three theorems have a hypothesis of their own, each an inequality that the code relies on.

- `RaiseAlwaysRewinds` assumes `GroupsFit`: the longest delay and one group of pictures fit the
  history. `KeyframesClose` says that each keyframe of the timeline is at most a group younger than
  the next, and the last one at most a group old; hence pruning, which keeps whatever is younger
  than the history, always leaves a keyframe old enough for the longest delay, or the first of the
  session (`HistoryKept`). `HISTORY_NS` is `MAX_DELAY` and 5 s, so this asks for groups up to 5 s.
- `BatchAlwaysInTimeline` assumes `StallsFit`, which adds the longest stall of the pacer. A rewind
  lands at most one group before the delay asked for, and the pacer looks at it at most one stall
  later (`NextNotOld`), so that a packet it takes out is younger than the history in that pass
  (`BatchKept`). The run `pace` has the equality; the run `longgop` breaks it, and the property.
- `MuxTimesAlwaysIncrease` assumes `ExactTimebase`, a time base in which nothing is rounded; what a
  numerator other than 1 does is the finding of `ntsc`. The offset is only set at a release that
  follows a jump, from the last times out; so what is to be shown is where audio stands between
  frames: the first packet released is a frame (`FrameFirst`), what is left in the timeline is not
  older than the last frame (`FramePassed`), and audio is less than one frame interval ahead of
  video (`AudioClose`), which is the interval a jump adds.

`BufferIsDelayLine` is the refinement, without a hypothesis: every step of the buffer shows what the
line may show, or changes nothing that the line has. `OrderInv` is the part of the last argument
that needs no exact time base. `FeedInv` relates the buffer to the feed: the timeline is its tail
(`TimelineIsTail`), it is in the order of time (`FeedSorted`), and what lies between the packet
shown last and the cursor was left out for the reason the line allows (`ShownBehind`). A frame is
never dropped, since it is later than the frame before it or follows a jump. Audio is dropped only
when its time is not later than the last audio shown. As audio is less than a frame interval ahead
of video, a jump leaves it behind what comes after the keyframe; so the last audio shown is behind
the last frame, or it stands in the feed before the cursor at the same shift (`AudioHeard`), on
another track than the one dropped, where times rise. `OneTrackComplete` adds that there is no other
audio track: then nothing is left out between jumps at all.

`LowersNotMissed` is for a lower that waits for its keyframe while packets are pushed, released and
pruned at the old pace. The release loop moves the cursor without looking for keyframes, so it could
pass one; it does not, since a pass that begins with one ahead jumps to it, none arrives during a
pass, and a waiting lower therefore has none ahead in any of its turns (`PassNotAhead`).

**RemoteControl** (`RemoteTypes`, `UnloadSafe`, `ControlSafe`, `StreamingTold`). `IInv` adds that a
delay the thread is to apply was granted (`OrderGranted`) and that a thread that has ended has
nothing left to announce (`PollAnnounced`). For `StreamingTold`, `ToldInv` says that the event last
in the queue, or without one the flag, tells whether OBS is on air: each step that changes this
queues an event, and a reconnection, which queues none, does not change it.

**ServiceSwap** (`SwapTypes`, `AlwaysRecoverable`, `AccountKept`, `ModeReported`). `IInv` adds that
the kept original is never itself a delayed service, that what is on disk is recoverable, what a
handler holds between its steps, and what is known of the mode while streaming.

**RtmpStream** (`TypeCorrect`, `PacketsBacked`, `ResetSafe`, `HeadersAlways`, `FreedAlone`,
`StopsPending`, `StopsHeard`). `IInv` adds that a
start finds no connect thread and no captured data (`StartFromRest`), hence that the pacer is idle
and the queue empty while a connection is made (`ConnectQuiet`); that whatever reaches a sender
comes from a stream OBS captures on an active output (`SendsCaptured`); that `sent_headers` is
about the connection at hand (`HeadersKnown`); and that packets have their posts while the
sender sends, too (`SendBacked`). For `FreedAlone`, `EndInv` says where every thread is while the
output is destroyed: the connect thread is known by its flag (`ConnectorKnown`), a sender left
asleep by one connection is not woken by the next (`SleepersSleep`), and of the pacer and the sender each is gone
once it has been joined (`PacerGone`, `SenderGone`). `TypeCorrect` is more than types: the sender never takes a
packet from an empty queue. `StopsPending` and `StopsHeard` are what `StopAnswered` has of safety:
a stop that returns leaves a sender that is `Answering`, unless nobody is left (`Deaf`), and no step
of any thread takes a sender out of `Answering` but by telling OBS. They rest on `StopSeen`: after
the join in `rtmp_stream_stop` no new connection replaces the semaphore, and what the stop found
active stays so, with the stop event set, until OBS is told. With the fairness of the sender,
`StopAnswered` is then a matter of five steps.

**SendQueue** (`TypeCorrect`, `AudioNeverDropped`, `SpanNeverWraps`, `ClimbNeverForgotten`,
`BitrateBounded`, `BitrateGivenBack`, `SentAlwaysDecodable`, `DelayBounded`). Types need that nobody holds the mutex of a stream that stops
(`Holding`). For audio, `AudioThrough` adds that what was fed is sent or queued. The bitrate rests
on `RateInv`: which of the current, previous and original bitrate bound each other, and what the
encoder has, at every place of the feed and the sender. `SentAlwaysDecodable` rests on
`KeptDecodable`: what is sent or queued can be decoded from what is sent or queued, and a frame to
come which could not be has, like every frame up to it, a priority below `min_priority`. It needs
that frames are given up together: when a frame is below a priority, so is every frame on every
track up to the last that refers to it (`GivenUpTogether`, from the arithmetic of groups).
`DelayBounded` rests on `BoundInv`: nothing waits while a keyframe is wanted; while something
waits, only frames that nothing but B-frames refers to were refused since the last accepted one, of
which there are at most two in a row (`GapSmall`); and at most one packet, of audio, is added
between two looks at the length.

**HappyEyeballs** (`RaceTypes`, `WinnerStays`, `NeverAlone`, `DecidesRightly`, `SuccessIsConnection`,
`ClosesLosers`). `RaceInv` adds to the types, which say that `winner_mutex` excludes: events are set in time (`EventsSet`); once a socket is the race's,
nobody is about to claim the race (`OneWinner`); what is open (`SocketsOpen`); an error that is
set is followed by a signal (`ErrorEnds`); and as long as `RTMP_Connect` waits there is a worker
which has not set its event, or is on its way to the signal (`SomebodyLeft`). The last one is what
the order of `is_starting`, the events and the error in the code is for.

`DecidesRightly` rests on `DecisionInv`: a worker knows its result before it signals
(`EndsInOrder`), nobody decides that the race has failed before the dispatching loop has ended and
all workers are done (`AllDone`), the loop ends for want of an address or for a winner
(`TriedAll`), and the error kept is one of the candidates' (`Counted`). That both families were
then tried is a matter of the order of the addresses: whatever `getaddrinfo` returns, if it has
both families the first two addresses that `build_addr_list` leaves are of different ones
(`AlternatedSeparates`, by a minimal counterexample over the passes of its loop). It needs that at
least two addresses are tried: `HAPPY_EYEBALLS_MAX_ATTEMPTS` is 6, the assumption says
`MaxAttempts >= 2`.

`SuccessIsConnection` bounds the finding of `HappyEyeballs_socket`: a success without a socket is
still one in which a candidate has connected, late to claim the race. `ResultInv` adds to the
others that a worker carries the result of its connection (`ResultKnown`), that the winner has
connected (`WinnerConnected`), and that a race which ends with neither a socket nor an error is one
in which nobody failed (`Unfailed`), since `coalesce_errors` finds no error only then
(`ModeExists`: among finitely many candidates some error is the commonest). `ClosesLosers` is the
safety part of `EndsClosed`.

**SocketLoop** (`NeverOverruns`, `TypeCorrect`, `BufferIsPipe`, `WakeUpsPending`). `PipeInv` says that what the sender has seen of
the space still holds when it copies (`RoomToCopy`), since the loop only makes space; that the
loop gives up only what is broken (`FatalBroken`); and that the sender ends after it
(`EndInOrder`). `TypeCorrect` says more than types: the socket never holds more than its send
buffer takes (`KernelFits`). `BufferIsPipe` is the refinement: every step of the two threads is one of the pipe,
or changes nothing the pipe sees.

`WakeUpsPending` is the safety part of `WakeUpsArrive`: while the sender waits, for room or for the
socket thread to end, the loop is not asleep nor gone unless something is on its way to wake the
one that waits. `WakeInv` says of each thing a thread could sleep over that it is known or
signalled: what Windows has reported (`WritableKnown`, `FlagsSignalled`, `BreakKnown`,
`BlockedFull`); a loop that could write rests on a short tail at most, or is about to be told of
more (`DataSignalled`); who waits for room without a signal has none, or is about to be signalled
(`RoomSignalled`); nobody waits for room from a loop that has ended (`GoneSignalled`); and the wish
to exit is seen before the loop sleeps, or signalled afterwards (`ExitKnown`). It needs a buffer
that has room for one write next to a short tail. The exception in the join is the
short tail, which is the finding of `SocketLoop_tail`.

**RtmpSession** (`SessionSane`, `FarewellSaid`, `NoOtherLeak`, `TypeCorrect`, `ConversationKept`). The argument is about operators on
`struct RTMP`, not actions: `Sane` says that on an open connection a stream that was published has
the number `RTMP_Close` asks for, that a connect waits alone, and that on a closed one a published
stream was taken back, or the last send failed. One lemma for each function of `rtmp.c` says that it
keeps `Sane` (`Sends`, `Closes`, `Invokes`, `Queues`, `AsksForStream`, `Publishes`, `Heard`), and
that a send which fails in the middle leaves a closed connection. `SessionInv` adds that a
connection is dialled with nothing of the one before it left, and that only silence leaves a
socket behind.

`ConversationLegal` speaks of what was sent only, and is far from inductive: that `createStream`
comes once depends on the call the client still waits for, and on what the server has put on its
way. `TalkInv` relates the three. `Opened(rtmp, n, ...)`: on the open connection exactly the first
`n` kinds of the conversation have been said, and the stream has its number from the sixth on.
`Awaits`: while reading, `n` is 2, 5 or 6, and the only call that may be queued is the one that
`n` calls for, under the number it was sent with. `Numbering`: no two commands share a number, so
that an answer names its question. `AllBacked`: each `_result`, `_error` and `Publish.Start` on its
way answers a command that the server has heard, and a challenge among them is the server's last
one, because a challenge is an answer to the connect and there is one connect on a connection
(`ConnectOnce`). For a login, `CleanLate` says that what frees the application in `RTMP_Close` is
marked only when the response is in it, and `Redials` that the next connection starts from an
application that is right and with nothing said. As for `Sane`, one lemma for each function says
that the conversation then goes on to its next turn or is over (`SendGrows`, `InvokeGrows`,
`QueueGrows`, `ConnectSaid`, `StreamPublished`, `CloseEnds`, `ErrorResumes`, `StatusResumes`,
`ConversationResumes`, `ReadResumes`, `MediaSaid`), and one that whatever the server does leaves
what was said right (`SpeechLater`, `BackedLater`). `TypeCorrect` follows from the same invariant:
an open stream has no number or that of its connection.

Some properties are only stated for their theorems: `ReleasedOldEnough`, `NothingLost` (for one
audio track), `ResyncOnKeyframe`, `ClockUnderLock`, `LowerNotMissed`,
`UnloadedQuiet`, `StreamingKnown`, `ResetQuiet`, `StopPending`, `StopHeard`, `AudioKept`,
`SpanCounts`, `BitrateInRange`, `SuccessConnected`, `LosersClosed`, `NeverOverrun`, `NoLostWakeUp`.

Model-checked only:

- all liveness (`StopCompletes`, `LowerTakesEffect`, `UnloadCompletes`, `StatusHeals`,
  `ServerDecides`, `StopAnswered`, `EndsClosed`, `WakeUpsArrive`), which TLAPS cannot prove under
  fairness. What some of them have of safety is proved: `LowersNotMissed`, `StopsPending`,
  `StopsHeard`, `ClosesLosers`, `WakeUpsPending`;
- `CommandsUnderstood` and `FramesDelivered`: the decoders of the peer are recursive operators.

A time base of numerator 1 with a coarser unit, which rounds as well, is neither checked nor proved.

## What is left

The rewriting of AV1 packets (`obs_parse_av1_packet`) and of the sequence headers of HEVC and AV1,
as operators on bits against the structure of the bitstreams.

## Not modelled

- `rtmp-hevc.c`, `rtmp-av1.c`: they rewrite the data of one packet, or a sequence header, without
  state. To the queue, the muxer and the connection this data is opaque; what they find out of a
  packet, whether it is a keyframe and its priority, is an input of the models.
- `net-if.c`, the dialogs, logging, hotkey storage, translations: system calls and presentation.
- `opts-parser.c` is not part of the build; `handshake.h` and `hashswf.c` are empty without
  `CRYPTO`; MD5 and Base64 are arithmetic on bytes, and a digest stands for what it is made from.
- The HTTP tunnel, TLS, SOCKS and playback of librtmp: the output does not use them.
- WinHTTP and JSON: only what an exchange comes to (state, junk, refused, failed).
- Memory exhaustion, except where thread creation fails.
