------------------------------ MODULE RtmpPeer ------------------------------
(***************************************************************************)
(* The other end of the connection, which is not part of the program: a    *)
(* server that writes commands in AMF0 and AMF3 and cuts them into chunks  *)
(* in any way the RTMP specification allows, and that reads the chunks and *)
(* the FLV tags it gets as those specifications define them.               *)
(*                                                                         *)
(* It shares the constants of the formats with the program, no operator.   *)
(***************************************************************************)
EXTENDS Integers, Sequences, TLC

CONSTANT Base       \* of the digits of an integer: the Radix of Amf

\* An integer of n digits, highest first
Digits(v, n) == [k \in 1 .. n |-> (v \div Base ^ (n - k)) % Base]
Join(parts) ==
    LET joined[k \in 0 .. Len(parts)] == IF k = 0 THEN <<>> ELSE joined[k - 1] \o parts[k]
    IN  joined[Len(parts)]
Value(digits) ==
    LET v[k \in 0 .. Len(digits)] == IF k = 0 THEN 0 ELSE v[k - 1] * Base + digits[k]
    IN  v[Len(digits)]
At(b, i, n) == SubSeq(b, i, i + n - 1)
After(b, i) == SubSeq(b, i, Len(b))

-----------------------------------------------------------------------------
\* Values of AMF

Num(v) == [kind |-> "number", v |-> v]
Bool(v) == [kind |-> "boolean", v |-> v]
Str(s) == [kind |-> "string", s |-> s]
LongStr(s) == [kind |-> "long string", s |-> s]
Nothing == [kind |-> "null"]
Obj(fields) == [kind |-> "object", fields |-> fields]
Array(fields) == [kind |-> "array", fields |-> fields]
List(values) == [kind |-> "list", values |-> values]
Date(v) == [kind |-> "date", v |-> v]
\* An object of AMF3: first the members of its class, then its own
Obj3(sealed, own) == [kind |-> "object3", sealed |-> sealed, own |-> own]
Whole(v) == [kind |-> "integer", v |-> v]
Double(v) == [kind |-> "double", v |-> v]

Double8(v) == <<0, 0, 0, 0, 0, 0, v \div Base, v % Base>>

U29(v) ==
    IF v < 128 THEN <<v>>
    ELSE IF v < 16384 THEN <<128 + (v \div 128), v % 128>>
    ELSE <<128 + (v \div 16384), 128 + ((v \div 128) % 128), v % 128>>
Text3(s) == U29(2 * Len(s) + 1) \o s

Written3(x) ==
    CASE x.kind = "null" -> <<1>>
      [] x.kind = "boolean" -> <<IF x.v THEN 3 ELSE 2>>
      [] x.kind = "integer" -> <<4>> \o U29(x.v)
      [] x.kind = "double" -> <<5>> \o Double8(x.v)
      [] x.kind = "string" -> <<6>> \o Text3(x.s)
      [] x.kind = "date" -> <<8>> \o U29(1) \o Double8(x.v)

ObjectHead3(x) ==
    U29(Len(x.sealed) * 16 + (IF x.own # <<>> THEN 8 ELSE 0) + 3) \o Text3(<<>>)

RECURSIVE Written(_)
Fields(fields) ==
    Join([k \in DOMAIN fields |->
            Digits(Len(fields[k][1]), 2) \o fields[k][1] \o Written(fields[k][2])])
      \o <<0, 0, 9>>

Written(x) ==
    CASE x.kind = "number" -> <<0>> \o Double8(x.v)
      [] x.kind = "boolean" -> <<1, IF x.v THEN 1 ELSE 0>>
      [] x.kind = "string" -> <<2>> \o Digits(Len(x.s), 2) \o x.s
      [] x.kind = "object" -> <<3>> \o Fields(x.fields)
      [] x.kind = "null" -> <<5>>
      [] x.kind = "array" -> <<8>> \o Digits(Len(x.fields), 4) \o Fields(x.fields)
      [] x.kind = "list" ->
            <<10>> \o Digits(Len(x.values), 4)
              \o Join([k \in DOMAIN x.values |-> Written(x.values[k])])
      [] x.kind = "date" -> <<11>> \o Double8(x.v) \o <<0, 0>>
      [] x.kind = "long string" -> <<12>> \o Digits(Len(x.s), 4) \o x.s
      [] x.kind = "object3" ->
            <<17, 10>> \o ObjectHead3(x)
              \o Join([k \in DOMAIN x.sealed |-> Text3(x.sealed[k][1])])
              \o Join([k \in DOMAIN x.sealed |-> Written3(x.sealed[k][2])])
              \o Join([k \in DOMAIN x.own |-> Text3(x.own[k][1]) \o Written3(x.own[k][2])])
              \o (IF x.own # <<>> THEN Text3(<<>>) ELSE <<>>)

\* Values read one after the other; what cannot be read is Garbled.
Garbled == [kind |-> "garbled"]

RECURSIVE ReadValue(_)
RECURSIVE ReadFieldsOf(_)
ReadFieldsOf(b) ==
    IF At(b, 1, 3) = <<0, 0, 9>> \/ Len(b) < 3 THEN [fields |-> <<>>, rest |-> After(b, 4)]
    ELSE LET size == Value(At(b, 1, 2))
             x == ReadValue(After(b, size + 3))
             more == ReadFieldsOf(x.rest)
         IN  [fields |-> <<<<At(b, 3, size), x.x>>>> \o more.fields, rest |-> more.rest]

ReadValue(b) ==
    LET t == IF b = <<>> THEN 255 ELSE b[1] IN
    CASE t = 0 -> [x |-> Num(Value(At(b, 8, 2))), rest |-> After(b, 10)]
      [] t = 1 -> [x |-> Bool(b[2] # 0), rest |-> After(b, 3)]
      [] t = 2 -> LET n == Value(At(b, 2, 2))
                  IN  [x |-> Str(At(b, 4, n)), rest |-> After(b, 4 + n)]
      [] t = 3 -> LET o == ReadFieldsOf(After(b, 2))
                  IN  [x |-> Obj(o.fields), rest |-> o.rest]
      [] t = 5 -> [x |-> Nothing, rest |-> After(b, 2)]
      [] t = 8 -> LET o == ReadFieldsOf(After(b, 6))
                  IN  [x |-> IF Value(At(b, 2, 4)) = Len(o.fields) THEN Array(o.fields) ELSE Garbled,
                       rest |-> o.rest]
      [] OTHER -> [x |-> Garbled, rest |-> <<>>]

RECURSIVE ReadValues(_)
ReadValues(b) ==
    IF b = <<>> THEN <<>> ELSE LET v == ReadValue(b) IN <<v.x>> \o ReadValues(v.rest)

-----------------------------------------------------------------------------
(* Chunks that the server writes.  A channel has what the last message had:
   [time, delta, size, type, stream]. *)
Fresh == [none |-> TRUE]
FullTime == Base * Base * Base - 1
AllTimes == Base * Base * Base * Base

Cut(body, n) ==
    LET count == IF body = <<>> THEN 1 ELSE (Len(body) + n - 1) \div n
    IN  [k \in 1 .. count |-> SubSeq(body, (k - 1) * n + 1,
                                     IF k * n < Len(body) THEN k * n ELSE Len(body))]

\* The formats that a message may be written in, and the time that it then has
Formats(last, m) ==
    {0} \cup (IF last = Fresh THEN {} ELSE
              (IF m.stream = last.stream THEN {1} ELSE {})
              \cup (IF m.stream = last.stream /\ m.size = last.size /\ m.type = last.type
                    THEN IF m.step = last.delta THEN {2, 3} ELSE {2} ELSE {}))
TimeOf(last, m, format) == IF format = 0 THEN m.step ELSE (last.time + m.step) % AllTimes

First(channel, format) ==
    IF channel < 64 THEN <<format * 64 + channel>>
    ELSE IF channel < 320 THEN <<format * 64, channel - 64>>
    ELSE <<format * 64 + 1, (channel - 64) % 256, (channel - 64) \div 256>>

Chunks(channel, format, m, n) ==
    LET pieces == Cut(m.body, n)
        extended == m.step >= FullTime
        time == Digits(IF extended THEN FullTime ELSE m.step, 3)
        size == Digits(m.size, 3) \o <<m.type>>
        s == Digits(m.stream, 4)
        stream == <<s[4], s[3], s[2], s[1]>>
        more == IF extended THEN Digits(m.step, 4) ELSE <<>>
        head == First(channel, format)
                \o (CASE format = 0 -> time \o size \o stream \o more
                      [] format = 1 -> time \o size \o more
                      [] format = 2 -> time \o more
                      [] format = 3 -> more)
    IN  [k \in DOMAIN pieces |->
           (IF k = 1 THEN head ELSE First(channel, 3) \o more) \o pieces[k]]

-----------------------------------------------------------------------------
(* Chunks that the server reads.  The channel has what is in force: [time,
   delta, size, type, stream, extended] and the part of the message that has
   come. *)
NoChannel == [time |-> 0, delta |-> 0, size |-> 0, type |-> 0, stream |-> 0, extended |-> FALSE,
              body |-> <<>>, last |-> 0]

(* One chunk: the channel, with body complete or not.  last is the format of the
   header that started the message. *)
TakeChunk(c, b, n) ==
    LET format == b[1] \div 64
        sizes == <<11, 7, 3, 0>>[format + 1]
        h == At(b, 2, sizes)
        field == Value(At(h, 1, 3))
        extended == IF format = 3 THEN c.extended ELSE field = FullTime
        rest == After(b, 2 + sizes + IF extended THEN 4 ELSE 0)
        step == IF extended THEN Value(At(b, 2 + sizes, 4)) ELSE field
        continues == c.body # <<>>
        timed == CASE continues -> c
                   [] ~continues /\ format = 0 -> [c EXCEPT !.time = step, !.delta = step]
                   [] ~continues /\ format \in {1, 2} ->
                         [c EXCEPT !.time = (@ + step) % AllTimes, !.delta = step]
                   [] OTHER -> [c EXCEPT !.time = (@ + c.delta) % AllTimes]
        sized == IF format > 1 THEN timed
                 ELSE [timed EXCEPT !.size = Value(At(h, 4, 3)), !.type = h[7]]
        whole == IF format > 0 THEN sized
                 ELSE [sized EXCEPT !.stream = Value(<<h[11], h[10], h[9], h[8]>>)]
        due == IF whole.size - Len(c.body) < n THEN whole.size - Len(c.body) ELSE n
    IN  [whole EXCEPT !.extended = extended,
                      !.body = IF Len(rest) = due THEN @ \o rest ELSE <<-1>>,
                      !.last = format]

-----------------------------------------------------------------------------
(* What the body of a message of audio (8), video (9) or data (18) says, as FLV
   and Enhanced RTMP define it: a frame, the start or the end of a sequence,
   metadata. *)
Signed(digits) == LET v == Value(digits) IN IF 2 * v > FullTime THEN v - FullTime - 1 ELSE v

Letters4 == [av01 |-> <<97, 118, 48, 49>>, hvc1 |-> <<104, 118, 99, 49>>,
             avc1 |-> <<97, 118, 99, 49>>, mp4a |-> <<109, 112, 52, 97>>]
CodecOf(letters) ==
    CASE letters = Letters4.av01 -> "av1"
      [] letters = Letters4.hvc1 -> "hevc"
      [] letters = Letters4.avc1 -> "h264"
      [] letters = Letters4.mp4a -> "aac"
      [] OTHER -> "unknown"

Heard(media, kind, codec, track, key, comp, data) ==
    [media |-> media, kind |-> kind, codec |-> codec, track |-> track, key |-> key,
     comp |-> comp, data |-> data]

\* The part after the codec: frames (1) of some codecs have a composition time.
Payload(media, type, codec, track, key, b) ==
    LET composed == media = "video" /\ type = 1 /\ codec \in {"h264", "hevc"}
        kind == CASE type = 0 -> "start" [] type \in {1, 3} -> "frame"
                  [] type = 2 -> "end" [] type = 4 -> "metadata" [] OTHER -> "unknown"
    IN  Heard(media, kind, codec, track, key, IF composed THEN Signed(At(b, 1, 3)) ELSE 0,
              IF kind = "metadata" THEN ReadValues(b) ELSE IF composed THEN After(b, 4) ELSE b)

Extended(media, b, multitrack, key) ==
    IF b[1] % 16 # multitrack
    THEN Payload(media, b[1] % 16, CodecOf(At(b, 2, 4)), 0, key, After(b, 6))
    ELSE IF b[2] \div 16 = 0
    THEN Payload(media, b[2] % 16, CodecOf(At(b, 3, 4)), b[7], key, After(b, 8))
    ELSE Garbled

Parse(type, b) ==
    CASE type = 18 -> Heard("data", "metadata", "none", 0, FALSE, 0, ReadValues(b))
      [] type = 20 -> Heard("data", "command", "none", 0, FALSE, 0, ReadValues(b))
      [] type = 9 /\ b[1] >= 128 -> Extended("video", b, 6, (b[1] \div 16) % 8 = 1)
      [] type = 9 /\ b[1] < 128 ->
            IF b[1] % 16 = 7
            THEN Heard("video", IF b[2] = 0 THEN "start" ELSE "frame", "h264", 0,
                       b[1] \div 16 = 1, Signed(At(b, 3, 3)), After(b, 6))
            ELSE Garbled
      [] type = 8 /\ b[1] \div 16 = 9 -> Extended("audio", b, 5, FALSE)
      [] type = 8 /\ b[1] \div 16 = 10 ->
            Heard("audio", IF b[2] = 0 THEN "start" ELSE "frame", "aac", 0, FALSE, 0, After(b, 3))
      [] OTHER -> Garbled

=============================================================================
