-------------------------------- MODULE Wire --------------------------------
(***************************************************************************)
(* What goes over the connection, byte by byte.  While the client          *)
(* connects (RTMP_ConnectStream), a server writes commands and cuts them   *)
(* into chunks as it likes; the client puts them together and decodes      *)
(* them.  Then the client (send_thread of rtmp-stream.c) sends the publish *)
(* command, the metadata, the sequence headers, frames and footers; the    *)
(* server reads what flv-mux.c, RTMP_Write and RTMP_SendPacket make of     *)
(* them.  There is one writer and one reader in each direction, so that    *)
(* one chunk, or one message, in flight shows every order.                 *)
(***************************************************************************)
EXTENDS RtmpChunks

CONSTANTS
    Setups,          \* [video, audio, hdr]: codecs of the video tracks, number of audio tracks
    InChunkSize,     \* RTMP_DEFAULT_CHUNKSIZE, with which the client starts to read
    NewChunkSizes,   \* that the server may change to
    OutChunkSize,    \* m_outChunkSize
    Channels,        \* chunk streams that the server speaks on
    SaidSteps,       \* steps of the time of what it says
    MaxSaid,         \* messages that the server sends
    StartDts,        \* time stamp of the first packet, in ticks
    FrameSteps,      \* steps of the time stamps of the frames, in ticks
    MaxFrames

VARIABLES
    phase,
    reader,       \* of struct RTMP: m_inChunkSize, m_vecChannelsIn, m_channelTimestamp
    packet,       \* of RTMP_ConnectStream
    toClient,     \* the chunk on its way to the client
    speaker,      \* the server: chunks of each channel that it has still to send
    spoken,       \* the last message that is out completely
    understood,   \* the last message that the client has decoded
    setup,
    writer,       \* of struct RTMP: m_write, m_vecChannelsOut of channel 4, chunks that go out
    agenda,       \* what comes before the first frame, or after the last one
    clock,        \* [latest, audio, video]: time stamps of the last packets
    frames,       \* frames that were sent
    listener,     \* the server: state of channel 4
    meant,        \* what the message in flight is to say
    received,     \* what the last message said to the server
    started       \* tracks whose sequence header the server has

readVars == <<reader, packet, toClient, speaker, spoken, understood>>
writeVars == <<setup, writer, agenda, clock, frames, listener, meant, received, started>>
vars == <<phase, readVars, writeVars>>

Peer == INSTANCE RtmpPeer WITH Base <- Radix

-----------------------------------------------------------------------------
\* What the server says: commands whose arguments are of every type

Commands == {
    <<Peer!Str(<<1>>), Peer!Num(2), Peer!Nothing,
      Peer!Obj(<<<<<<3>>, Peer!Str(<<4, 5>>)>>, <<<<6>>, Peer!Bool(TRUE)>>>>)>>,
    <<Peer!Str(<<1>>), Peer!Num(3), Peer!Nothing,
      Peer!Obj(<<<<<<3>>, Peer!Str(<<4, 6>>)>>, <<<<6>>, Peer!Bool(FALSE)>>>>)>>,
    <<Peer!Str(<<7>>), Peer!Array(<<<<<<3>>, Peer!Num(7)>>, <<<<4>>, Peer!Date(9)>>>>),
      Peer!List(<<Peer!Num(1), Peer!LongStr(<<8, 8>>), Peer!Obj(<<>>)>>)>>,
    <<Peer!Str(<<7>>),
      Peer!Obj3(<<<<<<3>>, Peer!Whole(5)>>, <<<<4>>, Peer!Bool(FALSE)>>>>,
                <<<<<<5>>, Peer!Whole(300)>>, <<<<6>>, Peer!Str(<<2, 2>>)>>,
                  <<<<7>>, Peer!Double(9)>>, <<<<8>>, Peer!Nothing>>,
                  <<<<9>>, Peer!Whole(20000)>>, <<<<10>>, Peer!Date(4)>>>>)>>,
    <<Peer!Str(<<9>>)>> }

FLEX_MESSAGE == 17
CONTROL_CHANNEL == 2

Message(type, stream, step, body) ==
    [type |-> type, stream |-> stream, step |-> step, body |-> body, size |-> Len(body)]
CommandMessages(values, step) ==
    LET body == Peer!Join([k \in DOMAIN values |-> Peer!Written(values[k])])
    IN  {Message(INVOKE, 0, step, body), Message(FLEX_MESSAGE, 1, step, <<0>> \o body)}

Spoken(m, time, values) ==
    [type |-> m.type, stream |-> m.stream, time |-> time, values |-> values]

Idle == <<>>
QuietOn(c) == c \in DOMAIN speaker.pending => speaker.pending[c] = Idle
Quiet == \A c \in DOMAIN speaker.pending : QuietOn(c)
Last(c) == IF c \in DOMAIN speaker.last THEN speaker.last[c] ELSE Peer!Fresh

(* RTMP_ReadPacket does not look for an extended time in the chunks that carry a
   message on: the server is taken to need none there. *)
Readable(m, format, last) ==
    /\ m.step >= Int24Max => m.size <= speaker.chunkSize
    /\ format = MINIMUM => last.delta < Int24Max

Say(c, m, values, newSize) ==
    /\ speaker.said < MaxSaid
    /\ QuietOn(c) /\ QuietOn(CONTROL_CHANNEL)
    /\ \E format \in Peer!Formats(Last(c), m) :
         LET time == Peer!TimeOf(Last(c), m, format) IN
         /\ Readable(m, format, Last(c))
         /\ speaker' = [speaker EXCEPT
                          !.said = @ + 1,
                          !.chunkSize = newSize,
                          !.pending = (c :> Peer!Chunks(c, format, m, speaker.chunkSize)) @@ @,
                          !.last = (c :> [time |-> time, delta |-> m.step, size |-> m.size,
                                          type |-> m.type, stream |-> m.stream]) @@ @,
                          !.saying = (c :> Spoken(m, time, values)) @@ @]
    /\ UNCHANGED <<phase, reader, packet, toClient, spoken, understood, writeVars>>

SayCommand ==
    /\ phase = "connecting" /\ toClient = <<>>
    /\ \E c \in Channels, step \in SaidSteps, values \in Commands :
         \E m \in CommandMessages(values, step) : Say(c, m, values, speaker.chunkSize)

\* A new size of the chunks holds for all that follow.
SayChunkSize ==
    /\ phase = "connecting" /\ toClient = <<>> /\ Quiet
    /\ \E n \in NewChunkSizes :
         Say(CONTROL_CHANNEL, Message(CHUNK_SIZE, 0, 0, Peer!Digits(n, 4)), n, n)

\* Chunks of the channels take turns in any way.
Emit ==
    /\ phase = "connecting" /\ toClient = <<>>
    /\ \E c \in DOMAIN speaker.pending :
         LET rest == Tail(speaker.pending[c]) IN
         /\ speaker.pending[c] # Idle
         /\ toClient' = Head(speaker.pending[c])
         /\ speaker' = [speaker EXCEPT !.pending[c] = rest]
         /\ IF rest = Idle THEN spoken' = speaker.saying[c] /\ understood' = None
            ELSE UNCHANGED <<spoken, understood>>
    /\ UNCHANGED <<phase, reader, packet, writeVars>>

-----------------------------------------------------------------------------
\* RTMP_ConnectStream, RTMP_ClientPacket, HandleInvoke

STRING_BODY == AMF.STRING
Decoded(body) ==
    IF Byte(body, 1) # STRING_BODY THEN Fails ELSE AMFDecode(body, Len(body), FALSE)
Heard(p, values) ==
    [type |-> p.type, stream |-> p.info, time |-> p.time, values |-> values]

ClientPacket(r, p) ==
    CASE p.type = CHUNK_SIZE ->
            LET changed == ChangeChunkSize(r, p)
            IN  [reader |-> changed, understood |-> Heard(p, changed.chunkSize)]
      [] p.type \in {INVOKE, FLEX_MESSAGE} ->
            [reader |-> r,
             understood |-> Heard(p, Decoded(IF p.type = INVOKE THEN p.body ELSE From(p.body, 2)))]
      [] OTHER -> [reader |-> r, understood |-> understood]

ConnectStream ==
    /\ phase = "connecting" /\ toClient # <<>>
    /\ \E read \in {ReadPacket(reader, packet, toClient)} :
       IF ~read.ok \/ read.rest # <<>>
       THEN /\ phase' = "stuck"
            /\ UNCHANGED <<readVars, writeVars>>
       ELSE /\ toClient' = <<>>
            /\ IF IsReady(read.packet) /\ read.packet.size > 0
               THEN \E handled \in {ClientPacket(read.r, read.packet)} :
                        /\ reader' = handled.reader
                        /\ understood' = handled.understood
                        /\ packet' = [read.packet EXCEPT !.body = <<>>]
               ELSE reader' = read.r /\ packet' = read.packet /\ UNCHANGED understood
            /\ UNCHANGED <<phase, speaker, spoken, writeVars>>

-----------------------------------------------------------------------------
\* The messages of a stream: what the program makes, and what it is to say

StreamId == 1
Playpath == <<11, 12>>
Channels2 == 2
Colors == <<10, 9, 16, 9, 100>>
PublishName == <<6>>
Live == <<7>>

VideoTracks == 0 .. Len(setup.video) - 1
AudioTracks == 0 .. setup.audio - 1
Codec(track) == setup.video[track + 1]

\* Sequence headers and footers are packets at time 0.
HeaderData(track) == <<200 + track>>
Packet(type, key, dts, pts, data) ==
    [type |-> type, keyframe |-> key, dts |-> dts, pts |-> pts, data |-> data]

Item(op, track) == [op |-> op, track |-> track]

\* send_headers: the first track of audio, then video, then what else there is of audio
SendHeaders ==
    <<Item("audio header", 0)>>
      \o Concat([t \in 1 .. Len(setup.video) |->
                   (IF setup.hdr /\ Codec(t - 1) # "h264" THEN <<Item("video metadata", t - 1)>>
                    ELSE <<>>)
                   \o <<Item("video header", t - 1)>>])
      \o [t \in 1 .. setup.audio - 1 |-> Item("audio header", t)]

\* send_footers
SendFooters ==
    Concat([t \in 1 .. Len(setup.video) |->
              IF t = 1 /\ Codec(0) = "h264" THEN <<>> ELSE <<Item("footer", t - 1)>>])

Opening == <<Item("publish", 0), Item("metadata", 0)>> \o SendHeaders

StartOffset == MsTime(StartDts)

\* send_packet, send_packet_ex and send_audio_packet_ex, and which of them is called
LegacyVideo(track) == Codec(track) = "h264" /\ track = 0

HeaderTag(item) ==
    LET audio == Packet("audio", FALSE, 0, 0, HeaderData(item.track))
        video == Packet("video", TRUE, 0, 0, HeaderData(item.track))
        end == Packet("video", FALSE, 0, 0, <<>>)
    IN  CASE item.op = "metadata" -> MetaData(Codec(0), Channels2)
          [] item.op = "video metadata" ->
                PacketMetadata(Codec(item.track), Colors, item.track)
          [] item.op = "audio header" ->
                IF item.track = 0 THEN PacketMux(audio, 0, TRUE)
                ELSE PacketAudioStart(audio, "aac", item.track)
          [] item.op = "video header" ->
                IF LegacyVideo(item.track) THEN PacketMux(video, 0, TRUE)
                ELSE PacketStart(video, Codec(item.track), item.track)
          [] item.op = "footer" -> PacketEnd(end, Codec(item.track), item.track)

FrameTag(p, track) ==
    IF p.type = "video" /\ ~LegacyVideo(track)
    THEN PacketFrames(p, Codec(track), StartOffset, track)
    ELSE IF p.type = "audio" /\ track # 0
    THEN PacketAudioFrames(p, "aac", StartOffset, track)
    ELSE PacketMux(p, StartOffset, FALSE)

\* SendPublish
PublishPacket ==
    [channel |-> SOURCE_CHANNEL, headerType |-> LARGE, type |-> INVOKE, time |-> 0,
     info |-> StreamId,
     body |-> EncodeString(PublishName) \o EncodeNumber(5) \o <<AMF.NULL>>
                \o EncodeString(Playpath) \o EncodeString(Live)]

Saying(time, what) == [time |-> time, stream |-> StreamId, what |-> what]

MetaValues ==
    LET numbers == [k \in 1 .. 12 |-> <<Letters(k), Peer!Num(MetaDataNumbers(Codec(0))[k])>>]
        layouts == [k \in 1 .. 7 |-> <<Letters(12 + k), Peer!Bool(k = 1)>>]
    IN  <<Peer!Str(SetDataFrame), Peer!Str(OnMetaData),
          Peer!Array(numbers \o layouts \o <<<<Letters(20), Peer!Str(Letters(1))>>>>)>>

ColorValues ==
    LET config == [k \in 1 .. 4 |-> <<Letters(4 + k), Peer!Num(Colors[k])>>]
        light == <<<<Letters(10), Peer!Num(Colors[5])>>, <<Letters(11), Peer!Num(0)>>>>
    IN  <<Peer!Str(Letters(3)),
          Peer!Obj(<<<<Letters(4), Peer!Obj(config)>>, <<Letters(9), Peer!Obj(light)>>>>)>>

MeaningOf(item) ==
    LET H(media, kind, codec, key, data) ==
            Saying(0, Peer!Heard(media, kind, codec, item.track, key, 0, data))
    IN  CASE item.op = "publish" ->
                H("data", "command", "none", FALSE,
                  <<Peer!Str(PublishName), Peer!Num(5), Peer!Nothing, Peer!Str(Playpath),
                    Peer!Str(Live)>>)
          [] item.op = "metadata" -> H("data", "metadata", "none", FALSE, MetaValues)
          [] item.op = "video metadata" ->
                H("video", "metadata", Codec(item.track), FALSE, ColorValues)
          [] item.op = "audio header" -> H("audio", "start", "aac", FALSE, HeaderData(item.track))
          [] item.op = "video header" ->
                H("video", "start", Codec(item.track), TRUE, HeaderData(item.track))
          [] item.op = "footer" -> H("video", "end", Codec(item.track), FALSE, <<>>)

\* Times on the wire have 31 bits.
HalfTimes == Modulus \div 2
FrameMeaning(p, track) ==
    Saying((MsTime(p.dts) - StartOffset) % HalfTimes,
           Peer!Heard(p.type, "frame", IF p.type = "video" THEN Codec(track) ELSE "aac", track,
                      p.keyframe, MsTime(p.pts) - MsTime(p.dts), p.data))

-----------------------------------------------------------------------------
\* The client sends.

Sending == phase = "streaming" /\ writer.chunks = <<>>

\* RTMP_ConnectStream has returned: only process_recv_data reads from now on.
Play ==
    /\ phase = "connecting" /\ toClient = <<>> /\ Quiet /\ speaker.said > 0
    /\ phase' = "streaming"
    /\ setup' \in Setups /\ agenda' = Opening'
    /\ reader' = [chunkSize |-> 0, in |-> <<>>, timestamp |-> <<>>]
    /\ packet' = Reset
    /\ speaker' = [chunkSize |-> 0, pending |-> <<>>, last |-> <<>>, saying |-> <<>>, said |-> 0]
    /\ spoken' = None /\ understood' = None
    /\ UNCHANGED <<toClient, writer, clock, frames, listener, meant, received, started>>

SendMeant(w, m) == writer' = w /\ meant' = m /\ received' = None

SendItem ==
    /\ Sending /\ agenda # <<>>
    /\ LET item == Head(agenda) IN
       IF item.op = "publish"
       THEN LET s == SendPacket(writer.prev, PublishPacket, OutChunkSize)
            IN  SendMeant([writer EXCEPT !.prev = s.prev, !.chunks = s.chunks], MeaningOf(item))
       ELSE SendMeant(Write(writer, HeaderTag(item), StreamId, OutChunkSize), MeaningOf(item))
    /\ agenda' = Tail(agenda)
    /\ UNCHANGED <<phase, readVars, setup, clock, frames, listener, started>>

(* Packets of one kind have rising time stamps; those of the other kind may be
   a millisecond apart from theirs in either order. *)
Stamps(type) ==
    {clock.latest + s : s \in FrameSteps}
      \cup (IF clock.latest - TicksPerMs >= clock[type] THEN {clock.latest - TicksPerMs} ELSE {})

(* Not the same step of more than 0xffffff ms twice: the second message would start
   with a header that has no room for it. *)
Sendable(dts) ==
    LET step == (((MsTime(dts) - StartOffset) % HalfTimes) - writer.prev.time) % Modulus
    IN  step >= Int24Max => step # writer.prev.lastWireTime

Shapes(type, track) ==
    IF type = "audio" THEN {[key |-> FALSE, comp |-> 0, data |-> <<1, 2, 3, 4>>]}
    ELSE {[key |-> TRUE, comp |-> 0, data |-> <<1>>], [key |-> FALSE, comp |-> 0, data |-> <<1, 2>>]}
         \cup (IF Codec(track) = "av1" THEN {}
               ELSE {[key |-> FALSE, comp |-> 3, data |-> <<1>>]})

SendFrame ==
    /\ Sending /\ agenda = <<>> /\ frames < MaxFrames
    /\ \E type \in {"audio", "video"} :
       \E track \in IF type = "video" THEN VideoTracks ELSE AudioTracks :
       \E dts \in Stamps(type), s \in Shapes(type, track) :
         LET p == Packet(type, s.key, dts, dts + s.comp, s.data) IN
         /\ Sendable(dts)
         /\ SendMeant(Write(writer, FrameTag(p, track), StreamId, OutChunkSize),
                      FrameMeaning(p, track))
         /\ clock' = [clock EXCEPT ![type] = dts,
                                   !.latest = IF dts > @ THEN dts ELSE @]
    /\ frames' = frames + 1
    /\ UNCHANGED <<phase, readVars, setup, agenda, listener, started>>

Stop ==
    /\ Sending /\ agenda = <<>> /\ frames > 0 /\ frames <= MaxFrames
    /\ agenda' = SendFooters
    /\ frames' = MaxFrames + 1
    /\ UNCHANGED <<phase, readVars, setup, writer, clock, listener, meant, received, started>>

-----------------------------------------------------------------------------
\* The server reads a chunk, and the message if it is complete.

Listen ==
    /\ phase = "streaming" /\ writer.chunks # <<>>
    /\ writer' = [writer EXCEPT !.chunks = Tail(@)]
    /\ \E c \in {Peer!TakeChunk(listener, Head(writer.chunks), OutChunkSize)} :
       IF Len(c.body) < c.size THEN listener' = c /\ UNCHANGED <<received, started>>
       ELSE \E said \in {Peer!Parse(c.type, c.body)} :
              /\ listener' = [c EXCEPT !.body = <<>>]
              /\ received' = [time |-> c.time, stream |-> c.stream, what |-> said]
              /\ started' = IF said.kind = "start"
                            THEN started \cup {<<said.media, said.track>>} ELSE started
    /\ UNCHANGED <<phase, readVars, setup, agenda, clock, frames, meant>>

-----------------------------------------------------------------------------
Init ==
    /\ phase = "connecting"
    /\ reader = [chunkSize |-> InChunkSize, in |-> <<>>, timestamp |-> <<>>]
    /\ packet = Reset
    /\ toClient = <<>>
    /\ speaker = [chunkSize |-> InChunkSize, pending |-> <<>>, last |-> <<>>, saying |-> <<>>,
                  said |-> 0]
    /\ spoken = None /\ understood = None
    /\ setup = None
    /\ writer = [write |-> NoWrite, prev |-> None, chunks |-> <<>>, ok |-> TRUE]
    /\ agenda = <<>>
    /\ clock = [latest |-> StartDts, audio |-> StartDts, video |-> StartDts]
    /\ frames = 0
    /\ listener = Peer!NoChannel
    /\ meant = None /\ received = None /\ started = {}

Next ==
    \/ SayCommand \/ SayChunkSize \/ Emit \/ ConnectStream
    \/ Play \/ SendItem \/ SendFrame \/ Stop \/ Listen

Spec == Init /\ [][Next]_vars

-----------------------------------------------------------------------------
\* Properties

\* A property of librtmp stands for a value of the server.
RECURSIVE Means(_, _)
Means(prop, x) ==
    CASE x.kind \in {"number", "integer", "double"} -> prop.type = AMF.NUMBER /\ prop.number = x.v
      [] x.kind = "boolean" -> prop.type = AMF.BOOLEAN /\ prop.number = IF x.v THEN 1 ELSE 0
      [] x.kind \in {"string", "long string"} -> prop.type = AMF.STRING /\ prop.string = x.s
      [] x.kind = "null" -> prop.type = AMF.NULL
      [] x.kind = "date" -> prop.type \in {AMF.DATE, AMF.NUMBER} /\ prop.number = x.v
      [] x.kind \in {"object", "array", "object3"} ->
            LET fields == IF x.kind = "object3" THEN x.sealed \o x.own ELSE x.fields
            IN  /\ prop.type \in {AMF.OBJECT, AMF.ECMA_ARRAY}
                /\ \A k \in DOMAIN fields :
                     Means(GetProp(prop.object, fields[k][1]), fields[k][2])
      [] x.kind = "list" ->
            /\ prop.type = AMF.STRICT_ARRAY
            /\ Len(prop.object) = Len(x.values)
            /\ \A k \in DOMAIN x.values : Means(prop.object[k], x.values[k])

(* Whatever the server says, in whatever headers and however its chunks are
   mixed with those of other channels, the client decodes what was said, as a
   message of that time and stream. *)
CommandsUnderstood ==
    /\ phase # "stuck"
    /\ (phase = "connecting" /\ toClient = <<>> /\ spoken # None) =>
         /\ understood # None
         /\ <<understood.type, understood.stream, understood.time>>
              = <<spoken.type, spoken.stream, spoken.time>>
         /\ IF spoken.type = CHUNK_SIZE THEN understood.values = spoken.values
            ELSE /\ understood.values.used # Failed
                 /\ Len(understood.values.props) = Len(spoken.values)
                 /\ \A k \in DOMAIN spoken.values :
                      Means(PropAt(understood.values.props, k - 1), spoken.values[k])

(* What the server reads is what the output meant: the track, the codec, the
   kind, the times and the data of every message, with the shortened headers,
   the extended time stamps and the wrap of the times; and a frame comes when the
   sequence header of its track is there. *)
FramesDelivered ==
    (phase = "streaming" /\ writer.chunks = <<>>) =>
        /\ received = meant
        /\ writer.ok /\ writer.write = NoWrite
        /\ meant # None /\ meant.what.kind = "frame" =>
             <<meant.what.media, meant.what.track>> \in started

=============================================================================
