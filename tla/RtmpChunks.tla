----------------------------- MODULE RtmpChunks -----------------------------
(***************************************************************************)
(* The chunk stream of librtmp (rtmp.c): how RTMP_Write and                *)
(* RTMP_SendPacket cut messages into chunks with headers as short as the   *)
(* message before on the channel allows, and how RTMP_ReadPacket puts      *)
(* messages together again.  Bytes are as in Amf.                          *)
(***************************************************************************)
EXTENDS FlvMux

LARGE == 0
MEDIUM == 1
SMALL == 2
MINIMUM == 3

\* packetSize, with the byte that has the format and the channel
PacketSize(headerType) == <<12, 8, 4, 1>>[headerType + 1]

CHUNK_SIZE == 1
INVOKE == 20

None == [none |-> TRUE]

EncodeInt32LE(n) == LET b == EncodeInt32(n) IN <<b[4], b[3], b[2], b[1]>>
DecodeInt32LE(b) == DecodeInt32(<<Byte(b, 4), Byte(b, 3), Byte(b, 2), Byte(b, 1)>>)

\* The first bytes of a chunk: up to 63 in the first one, then one or two more
BasicHeader(headerType, channel) ==
    CASE channel > 319 -> <<headerType * 64 + 1, (channel - 64) % 256, (channel - 64) \div 256>>
      [] channel > 63 /\ channel <= 319 -> <<headerType * 64, channel - 64>>
      [] OTHER -> <<headerType * 64 + channel>>

-----------------------------------------------------------------------------
\* Writing: a packet is [channel, headerType, type, time, info, body].

\* Mutant: MINIMUM stands for the same time, not for the same step.
HeaderTypeByTime(prev, p) ==
    IF prev = None \/ p.headerType = LARGE THEN p.headerType
    ELSE IF prev.size # Len(p.body) \/ prev.type # p.type THEN p.headerType
    ELSE IF prev.time = p.time THEN MINIMUM ELSE SMALL

(* The header is shortened by what the packet has in common with the one before
   on its channel; MINIMUM means the same step in time as that one had. *)
HeaderType(prev, p) ==
    IF prev = None \/ p.headerType = LARGE THEN p.headerType
    ELSE LET squeezed == IF prev.size = Len(p.body) /\ prev.type = p.type
                              /\ p.headerType = MEDIUM
                         THEN SMALL ELSE p.headerType
             delta == (p.time - prev.time) % Modulus
         IN  IF delta = prev.lastWireTime /\ squeezed = SMALL THEN MINIMUM ELSE squeezed

WireTime(prev, p) ==
    IF prev = None \/ p.headerType = LARGE THEN p.time ELSE (p.time - prev.time) % Modulus

Header(headerType, t, p) ==
    LET size == PacketSize(headerType)
        extended == IF size > 1 /\ t >= Int24Max THEN EncodeInt32(t) ELSE <<>>
    IN  BasicHeader(headerType, p.channel)
        \o (IF size > 1 THEN EncodeInt24(IF t > Int24Max THEN Int24Max ELSE t) ELSE <<>>)
        \o (IF size > 4 THEN EncodeInt24(Len(p.body)) \o <<p.type>> ELSE <<>>)
        \o (IF size > 8 THEN EncodeInt32LE(p.info) ELSE <<>>)
        \o extended

ContinuationHeader(t, p) ==
    BasicHeader(MINIMUM, p.channel) \o (IF t >= Int24Max THEN EncodeInt32(t) ELSE <<>>)

\* RTMP_SendPacket: the chunks, one WriteN each, and what the channel remembers
SendPacket(prev, p, chunkSize) ==
    LET headerType == HeaderType(prev, p)
        t == WireTime(prev, p)
        size == Len(p.body)
        count == IF size = 0 THEN 1 ELSE (size + chunkSize - 1) \div chunkSize
        Piece(k) == SubSeq(p.body, (k - 1) * chunkSize + 1,
                           IF k * chunkSize < size THEN k * chunkSize ELSE size)
    IN  [chunks |-> [k \in 1 .. count |->
                       (IF k = 1 THEN Header(headerType, t, p) ELSE ContinuationHeader(t, p))
                         \o Piece(k)],
         prev |-> [type |-> p.type, size |-> size, time |-> p.time, lastWireTime |-> t]]

(* RTMP_Write: tags of a buffer become messages of the stream on channel 4.
   w has what is kept between two calls: m_write with the part of its body that
   has come, and what the channel remembers. *)
SOURCE_CHANNEL == 4
NoWrite == [read |-> 0, size |-> 0, packet |-> None]

TagPacket(buf, streamId) ==
    LET type == Byte(buf, 1)
        time == DecodeInt24(From(buf, 5)) + (Int24Max + 1) * Byte(buf, 8)
    IN  [channel |-> SOURCE_CHANNEL, type |-> type, time |-> time, info |-> streamId, body |-> <<>>,
         headerType |-> IF (type \in {AUDIO_TAG, VIDEO_TAG} /\ time = 0) \/ type = INFO_TAG
                        THEN LARGE ELSE MEDIUM]

IsFileHeader(buf) == SubSeq(buf, 1, 3) = <<70, 76, 86>>
TAG_HEADER == 11
FILE_HEADER == 13

RECURSIVE WriteTags(_, _, _, _, _)
WriteTags(w, buf, all, streamId, chunkSize) ==
    IF buf = <<>> THEN [w EXCEPT !.ok = TRUE]
    ELSE IF w.write.read = 0 /\ all < TAG_HEADER THEN [w EXCEPT !.ok = FALSE]
    ELSE
    LET b == IF w.write.read = 0 /\ IsFileHeader(buf) THEN From(buf, FILE_HEADER + 1) ELSE buf
        tag == IF w.write.read = 0 THEN TagPacket(b, streamId) ELSE w.write.packet
        size == IF w.write.read = 0 THEN DecodeInt24(From(b, 2)) ELSE w.write.size
        rest == IF w.write.read = 0 THEN From(b, TAG_HEADER + 1) ELSE b
        missing == size - w.write.read
        num == IF missing > Len(rest) THEN Len(rest) ELSE missing
        p == [tag EXCEPT !.body = @ \o SubSeq(rest, 1, num)]
    IN  IF num < missing
        THEN [w EXCEPT !.write = [read |-> w.write.read + num, size |-> size, packet |-> p],
                       !.ok = TRUE]
        ELSE LET s == SendPacket(w.prev, p, chunkSize)
                 done == [w EXCEPT !.write = NoWrite, !.prev = s.prev, !.chunks = @ \o s.chunks]
             \* the size that ends a tag
             IN  WriteTags(done, From(rest, num + 5), all, streamId, chunkSize)

Write(w, buf, streamId, chunkSize) == WriteTags(w, buf, Len(buf), streamId, chunkSize)

-----------------------------------------------------------------------------
(* Reading: a packet is [channel, headerType, absolute, time, size, read, type,
   info, body].  The caller's packet is used again and again; in[c] is the last
   one of channel c, with the body as far as it has come, timestamp[c] the time
   of its last message. *)
Reset == [channel |-> 0, headerType |-> 0, absolute |-> FALSE, time |-> 0, size |-> 0,
          read |-> 0, type |-> 0, info |-> 0, body |-> <<>>]
IsReady(packet) == packet.read = packet.size

\* What the first bytes say, and how many they are
ReadBasic(b) ==
    LET headerType == Byte(b, 1) \div 64
        low == Byte(b, 1) % 64
    IN  CASE low = 0 -> [type |-> headerType, size |-> 2, channel |-> Byte(b, 2) + 64]
          [] low = 1 -> [type |-> headerType, size |-> 3,
                         channel |-> Byte(b, 3) * 256 + Byte(b, 2) + 64]
          [] OTHER -> [type |-> headerType, size |-> 1, channel |-> low]

(* Without a full header the packet is the last one of the channel; a channel
   that had none leaves the caller's packet as it is. *)
Recall(r, packet, basic) ==
    IF basic.type = LARGE THEN [packet EXCEPT !.absolute = TRUE, !.channel = basic.channel]
    ELSE IF basic.channel \in DOMAIN r.in THEN r.in[basic.channel]
    ELSE [packet EXCEPT !.channel = basic.channel]

\* The fields that the header has replace those of the packet.
WithTime(p, h) == [p EXCEPT !.time = DecodeInt24(h)]
WithSize(p, h) ==
    [p EXCEPT !.size = DecodeInt24(From(h, 4)), !.read = 0, !.body = <<>>, !.type = Byte(h, 7)]
WithInfo(p, h) == [p EXCEPT !.info = DecodeInt32LE(From(h, 8))]
ReadFields(p, h, headerType) ==
    CASE headerType = LARGE -> WithInfo(WithSize(WithTime(p, h), h), h)
      [] headerType = MEDIUM -> WithSize(WithTime(p, h), h)
      [] headerType = SMALL -> WithTime(p, h)
      [] OTHER -> p

\* A time that its field has no room for follows the header.
ReadExtended(p, h, headerType) ==
    IF headerType # MINIMUM /\ p.time = Int24Max
    THEN [extended |-> TRUE, rest |-> From(h, PacketSize(headerType) + 4),
          packet |-> [p EXCEPT !.time = DecodeInt32(From(h, PacketSize(headerType)))]]
    ELSE [extended |-> FALSE, rest |-> From(h, PacketSize(headerType)), packet |-> p]

ReadHeader(r, packet, basic, h) ==
    ReadExtended(ReadFields(Recall(r, packet, basic), h, basic.type), h, basic.type)

\* Mutant: that the time is absolute is forgotten between two chunks.
RememberRelative(r, p, extended) ==
    LET kept == [p EXCEPT !.time = IF extended THEN Int24Max ELSE @, !.absolute = FALSE]
    IN  [r EXCEPT !.in = (p.channel :> IF IsReady(p) THEN [kept EXCEPT !.body = <<>>, !.read = 0]
                                       ELSE kept) @@ @]

\* The packet is remembered until it is ready, then its header.
Remember(r, p, extended) ==
    LET kept == [p EXCEPT !.time = IF extended THEN Int24Max ELSE @]
        header == [kept EXCEPT !.body = <<>>, !.read = 0, !.absolute = FALSE]
    IN  [r EXCEPT !.in = (p.channel :> IF IsReady(p) THEN header ELSE kept) @@ @]

\* A step from the time of the message before on the channel, or the time itself
TimeOf(r, p) ==
    IF p.absolute \/ p.channel \notin DOMAIN r.timestamp THEN p.time
    ELSE (p.time + r.timestamp[p.channel]) % Modulus

\* A message that is ready goes out with its time, which the channel keeps.
Result(kept, p, time, rest) ==
    IF IsReady(p)
    THEN [ok |-> TRUE, rest |-> rest, packet |-> [p EXCEPT !.time = time],
          r |-> [kept EXCEPT !.timestamp = (p.channel :> time) @@ @]]
    ELSE [ok |-> TRUE, rest |-> rest, packet |-> [p EXCEPT !.body = <<>>], r |-> kept]

Received(r, p, extended, rest) == Result(Remember(r, p, extended), p, TimeOf(r, p), rest)

ReadBody(r, head, n) ==
    IF Len(head.rest) < n THEN [ok |-> FALSE]
    ELSE Received(r, [head.packet EXCEPT !.read = @ + n, !.body = @ \o SubSeq(head.rest, 1, n)],
                  head.extended, From(head.rest, n + 1))

\* What is missing of the message, at most a chunk
Due(r, p) == IF p.size - p.read < r.chunkSize THEN p.size - p.read ELSE r.chunkSize

ReadChunk(r, head) == ReadBody(r, head, Due(r, head.packet))
ReadAfter(basic, r, packet, b) ==
    ReadChunk(r, ReadHeader(r, packet, basic, From(b, basic.size + 1)))

\* RTMP_ReadPacket: one chunk
ReadPacket(r, packet, b) == ReadAfter(ReadBasic(b), r, packet, b)

\* HandleChangeChunkSize
ChangeChunkSize(r, packet) ==
    IF Len(packet.body) >= 4 THEN [r EXCEPT !.chunkSize = DecodeInt32(packet.body)] ELSE r

=============================================================================
