------------------------------- MODULE FlvMux -------------------------------
(***************************************************************************)
(* flv-mux.c: FLV tags around the packets of the encoders, as sequences of *)
(* bytes.  Track 0 keeps the form it always had where it can; other tracks *)
(* and codecs take the extended one, with the codec's name, and the number *)
(* of the track if it is not 0.                                            *)
(***************************************************************************)
EXTENDS Amf

CONSTANT TicksPerMs     \* of the time stamps of the encoders

ASSUME TicksAssumption == TicksPerMs \in Nat \ {0}

\* Kinds of RTMP packets that are FLV tags
AUDIO_TAG == 8
VIDEO_TAG == 9
INFO_TAG == 18

\* enum packet_type_t; the sequence start and the frames of audio have the same values
PACKETTYPE == [SEQ_START |-> 0, FRAMES |-> 1, SEQ_END |-> 2, FRAMESX |-> 3, METADATA |-> 4,
               MULTITRACK |-> 6]
AUDIO_MULTITRACK == 5

FRAME_HEADER_EX == 128
AUDIO_HEADER_EX == 144
FT(packet) == IF packet.keyframe THEN 16 ELSE 32

\* s_w4cc and s_wa4cc: the four letters of a codec
FourCC(codec) ==
    CASE codec = "av1"  -> <<97, 118, 48, 49>>
      [] codec = "hevc" -> <<104, 118, 99, 49>>
      [] codec = "h264" -> <<97, 118, 99, 49>>
      [] codec = "aac"  -> <<109, 112, 52, 97>>

\* get_ms_time; a division of C rounds towards zero.
MsTime(val) == IF val >= 0 THEN val \div TicksPerMs ELSE -((-val) \div TicksPerMs)
CompositionOffset(packet) == MsTime(packet.pts) - MsTime(packet.dts)

\* s_wtimestamp: 31 bits of a signed time, the highest byte last
Timestamp(ms) ==
    EncodeInt24(ms % (Int24Max + 1)) \o <<(ms \div (Int24Max + 1)) % (Radix \div 2)>>

\* A tag: its head, its body, its size once more
Tag(type, ms, body) ==
    LET head == <<type>> \o EncodeInt24(Len(body)) \o Timestamp(ms) \o EncodeInt24(0)
    IN  head \o body \o EncodeInt32(Len(head \o body))

\* A tag whose size is computed before its body is written
TagOfSize(type, size, ms, body) ==
    LET head == <<type>> \o EncodeInt24(size) \o Timestamp(ms) \o EncodeInt24(0)
    IN  head \o body \o EncodeInt32(Len(head \o body))

\* flv_video, flv_audio; a packet without data makes no tag.
Video(packet, offset, header) ==
    IF packet.data = <<>> THEN <<>>
    ELSE TagOfSize(VIDEO_TAG, Len(packet.data) + 5, MsTime(packet.dts) - offset,
                   <<IF packet.keyframe THEN 23 ELSE 39, IF header THEN 0 ELSE 1>>
                      \o EncodeInt24(CompositionOffset(packet)) \o packet.data)

Audio(packet, offset, header) ==
    IF packet.data = <<>> THEN <<>>
    ELSE TagOfSize(AUDIO_TAG, Len(packet.data) + 2, MsTime(packet.dts) - offset,
                   <<175, IF header THEN 0 ELSE 1>> \o packet.data)

\* flv_packet_mux
PacketMux(packet, offset, header) ==
    IF packet.type = "video" THEN Video(packet, offset, header) ELSE Audio(packet, offset, header)

\* The head of an extended body
ExHead(flags, multitrack, type, codec, idx) ==
    IF idx > 0 THEN <<flags + multitrack, type>> \o FourCC(codec) \o <<idx>>
    ELSE <<flags + type>> \o FourCC(codec)
ExSize(idx) == IF idx > 0 THEN 7 ELSE 5

\* flv_packet_audio_ex
PacketAudioEx(packet, codec, offset, type, idx) ==
    IF packet.data = <<>> THEN <<>>
    ELSE TagOfSize(AUDIO_TAG, Len(packet.data) + ExSize(idx), MsTime(packet.dts) - offset,
                   ExHead(AUDIO_HEADER_EX, AUDIO_MULTITRACK, type, codec, idx) \o packet.data)

\* flv_packet_ex: frames of H.264 and HEVC carry their composition time.
Composed(codec, type) == codec \in {"h264", "hevc"} /\ type = PACKETTYPE.FRAMES

PacketEx(packet, codec, offset, type, idx) ==
    LET time == IF Composed(codec, type) THEN EncodeInt24(CompositionOffset(packet)) ELSE <<>>
    IN  TagOfSize(VIDEO_TAG, Len(packet.data) + ExSize(idx) + Len(time),
                  MsTime(packet.dts) - offset,
                  ExHead(FRAME_HEADER_EX + FT(packet), PACKETTYPE.MULTITRACK, type, codec, idx)
                     \o time \o packet.data)

PacketStart(packet, codec, idx) == PacketEx(packet, codec, 0, PACKETTYPE.SEQ_START, idx)
PacketEnd(packet, codec, idx) == PacketEx(packet, codec, 0, PACKETTYPE.SEQ_END, idx)

\* flv_packet_frames: a composition time of 0 is left out.
PacketFrames(packet, codec, offset, idx) ==
    PacketEx(packet, codec, offset,
             IF codec \in {"h264", "hevc"} /\ packet.dts = packet.pts
             THEN PACKETTYPE.FRAMESX ELSE PACKETTYPE.FRAMES, idx)

PacketAudioStart(packet, codec, idx) ==
    PacketAudioEx(packet, codec, 0, PACKETTYPE.SEQ_START, idx)
PacketAudioFrames(packet, codec, offset, idx) ==
    PacketAudioEx(packet, codec, offset, PACKETTYPE.FRAMES, idx)

-----------------------------------------------------------------------------
\* Metadata.  Names and texts are one letter each.

ObjectEnd == <<0, 0, AMF.OBJECT_END>>
Letters(k) == <<k % Radix>>
SetDataFrame == <<1>>
OnMetaData == <<2>>

\* encoder_video_codec: 7, or the letters of the codec as one number
VideoCodecId(codec) == CASE codec = "h264" -> 7 [] codec = "av1" -> 8 [] codec = "hevc" -> 5

(* The properties of onMetaData in their order, with their values for an output
   that has these settings *)
MetaDataNumbers(codec) ==
    <<0, 0, 3, 2, VideoCodecId(codec), 6, 4, 10, 1, 9, 11, 2>>
ChannelLayouts == <<2, 3, 4, 4, 5, 6, 8>>
MetaDataCount == 20

\* build_flv_meta_data
Concat(parts) ==
    LET joined[k \in 0 .. Len(parts)] == IF k = 0 THEN <<>> ELSE joined[k - 1] \o parts[k]
    IN  joined[Len(parts)]

BuildMetaData(codec, channels) ==
    LET numbers == MetaDataNumbers(codec)
        n == Len(numbers)
        l == Len(ChannelLayouts)
    IN  EncodeString(SetDataFrame) \o EncodeString(OnMetaData)
        \o <<AMF.ECMA_ARRAY>> \o EncodeInt32(MetaDataCount)
        \o Concat([k \in 1 .. n |-> EncodeNamedNumber(Letters(k), numbers[k])])
        \o Concat([k \in 1 .. l |->
                     EncodeNamedBoolean(Letters(n + k), channels = ChannelLayouts[k])])
        \o EncodeNamedString(Letters(n + l + 1), Letters(1))
        \o ObjectEnd

\* flv_meta_data
MetaData(codec, channels) == Tag(INFO_TAG, 0, BuildMetaData(codec, channels))

(* flv_packet_metadata: the colours of a video, and the luminance of one with a
   wide range *)
WriteNumber(name, n) == EncodeName(name) \o <<AMF.NUMBER>> \o EncodeDouble(n)
WriteObject(name, fields) == EncodeName(name) \o <<AMF.OBJECT>> \o fields \o ObjectEnd

ColorInfo(color) ==
    <<AMF.STRING>> \o EncodeName(Letters(3)) \o <<AMF.OBJECT>>
      \o WriteObject(Letters(4), Concat([k \in 1 .. 4 |-> WriteNumber(Letters(4 + k), color[k])]))
      \o (IF color[5] # 0
          THEN WriteObject(Letters(9), WriteNumber(Letters(10), color[5]) \o WriteNumber(Letters(11), 0))
          ELSE <<>>)
      \o ObjectEnd

PacketMetadata(codec, color, idx) ==
    LET metadata == ColorInfo(color)
        head == IF idx > 0
                THEN <<FRAME_HEADER_EX + PACKETTYPE.MULTITRACK, PACKETTYPE.METADATA>>
                       \o FourCC(codec) \o <<idx>>
                ELSE <<FRAME_HEADER_EX + PACKETTYPE.METADATA>> \o FourCC(codec)
    IN  TagOfSize(VIDEO_TAG, Len(metadata) + ExSize(idx), 0, head \o metadata)

=============================================================================
