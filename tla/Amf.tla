-------------------------------- MODULE Amf ---------------------------------
(***************************************************************************)
(* The Action Message Format as librtmp writes and reads it (amf.c), over  *)
(* buffers that are sequences of bytes.  Commands of the server and the    *)
(* metadata of the stream are written in it.                               *)
(*                                                                         *)
(* Integers of 16, 24 and 32 bits have 2, 3 and 4 digits of base Radix,    *)
(* which is 256 in the program.  A double is 8 bytes, of which two vary.   *)
(***************************************************************************)
EXTENDS Integers, Sequences, TLC

CONSTANT Radix

ASSUME RadixAssumption == Radix \in 4 .. 256 /\ Radix % 2 = 0

Int24Max == Radix * Radix * Radix - 1
Modulus == Radix * Radix * Radix * Radix

\* AMFDataType
AMF == [NUMBER |-> 0, BOOLEAN |-> 1, STRING |-> 2, OBJECT |-> 3, NULL |-> 5, UNDEFINED |-> 6,
        ECMA_ARRAY |-> 8, OBJECT_END |-> 9, STRICT_ARRAY |-> 10, DATE |-> 11,
        LONG_STRING |-> 12, UNSUPPORTED |-> 13, XML_DOC |-> 15, AVMPLUS |-> 17]

\* AMF3DataType
AMF3 == [UNDEFINED |-> 0, NULL |-> 1, FALSE_ |-> 2, TRUE_ |-> 3, INTEGER |-> 4, DOUBLE |-> 5,
         STRING |-> 6, XML_DOC |-> 7, DATE |-> 8, OBJECT |-> 10, XML |-> 11]

\* What a pointer into the buffer sees: the buffer from there on
Byte(b, i) == IF i \in DOMAIN b THEN b[i] ELSE 0
From(b, i) == SubSeq(b, i, Len(b))

DecodeInt16(b) == Byte(b, 1) * Radix + Byte(b, 2)
DecodeInt24(b) == DecodeInt16(b) * Radix + Byte(b, 3)
DecodeInt32(b) == DecodeInt24(b) * Radix + Byte(b, 4)

EncodeInt16(n) == <<(n \div Radix) % Radix, n % Radix>>
EncodeInt24(n) == <<(n \div (Radix * Radix)) % Radix>> \o EncodeInt16(n)
EncodeInt32(n) == <<(n \div (Radix * Radix * Radix)) % Radix>> \o EncodeInt24(n)

\* The bytes of a double in memory, lowest first, and on the wire
Memory(n) == <<n % Radix, n \div Radix, 0, 0, 0, 0, 0, 0>>
EncodeDouble(n) == LET m == Memory(n) IN [k \in 1 .. 8 |-> m[9 - k]]
DecodeNumber(b) == Byte(b, 8) + Radix * Byte(b, 7)

DecodeString(b) == SubSeq(b, 3, 2 + DecodeInt16(b))
DecodeLongString(b) == SubSeq(b, 5, 4 + DecodeInt32(b))

-----------------------------------------------------------------------------
\* Writing

EncodeString(s) ==
    IF Len(s) < Radix * Radix THEN <<AMF.STRING>> \o EncodeInt16(Len(s)) \o s
    ELSE <<AMF.LONG_STRING>> \o EncodeInt32(Len(s)) \o s
EncodeNumber(n) == <<AMF.NUMBER>> \o EncodeDouble(n)
EncodeBoolean(b) == <<AMF.BOOLEAN, IF b THEN 1 ELSE 0>>

EncodeName(name) == EncodeInt16(Len(name)) \o name
EncodeNamedString(name, s) == EncodeName(name) \o EncodeString(s)
EncodeNamedNumber(name, n) == EncodeName(name) \o EncodeNumber(n)
EncodeNamedBoolean(name, b) == EncodeName(name) \o EncodeBoolean(b)

-----------------------------------------------------------------------------
(* Reading.  A result has the number of bytes used, or Failed, and what was
   read; the bytes of a value are not looked at beyond the size n that is
   left, but for the length of a string, which is read before it is checked. *)

Failed == -1
Fails == [used |-> Failed]

\* AMFObjectProperty
Null(name) == [name |-> name, type |-> AMF.NULL]
Number(name, type, n) == [name |-> name, type |-> type, number |-> n]
Text(name, type, s) == [name |-> name, type |-> type, string |-> s]
Object(name, type, props) == [name |-> name, type |-> type, object |-> props]

\* A 29 bit integer: 7 bits of each byte, 8 of the fourth, which is a signed char
Bits7(b, i) == Byte(b, i) % 128
Continues(b, i) == Byte(b, i) >= 128
AMF3ReadInteger(b) ==
    CASE ~Continues(b, 1) -> [used |-> 1, value |-> Byte(b, 1)]
      [] Continues(b, 1) /\ ~Continues(b, 2) ->
            [used |-> 2, value |-> Bits7(b, 1) * 128 + Byte(b, 2)]
      [] Continues(b, 1) /\ Continues(b, 2) /\ ~Continues(b, 3) ->
            [used |-> 3, value |-> (Bits7(b, 1) * 128 + Bits7(b, 2)) * 128 + Byte(b, 3)]
      [] OTHER ->
            LET high == ((Bits7(b, 1) * 128 + Bits7(b, 2)) * 128 + Bits7(b, 3)) * 256
                v == IF Continues(b, 4) THEN Byte(b, 4) - 256 ELSE high + Byte(b, 4)
            IN  [used |-> 4, value |-> IF v > 268435455 THEN v - 536870912 ELSE v]

\* A reference to an earlier string is not followed.
AMF3ReadString(b) ==
    LET ref == AMF3ReadInteger(b)
        size == ref.value \div 2
    IN  IF ref.value % 2 = 0 THEN [used |-> ref.used, string |-> <<>>]
        ELSE [used |-> ref.used + size, string |-> SubSeq(b, ref.used + 1, ref.used + size)]

\* What was read must be within the m bytes that are left.
Read(size, prop) == [used |-> size, prop |-> prop]
Within(m, v) == IF m < v.used THEN Fails ELSE v

\* A part that has been read comes before the result.
Advance(size, v) == IF v.used = Failed THEN Fails ELSE [v EXCEPT !.used = @ + size]

RECURSIVE AMF3Decode(_, _, _)
RECURSIVE AMFDecode(_, _, _)
RECURSIVE AMFDecodeArray(_, _, _)

IntegerValue(name, v) == Read(v.used, Number(name, AMF.NUMBER, v.value))
StringValue(name, v) == Read(v.used, Text(name, AMF.STRING, v.string))
ObjectValue(name, type, v) ==
    IF v.used = Failed THEN Fails ELSE Read(v.used, Object(name, type, v.props))
DateValue(name, v, d, old) ==
    IF v.value % 2 = 0 THEN Read(v.used, [old EXCEPT !.name = name])
    ELSE Read(v.used + 8, Number(name, AMF.NUMBER, DecodeNumber(From(d, v.used + 1))))

\* A value of AMF3 of a type; m bytes are left.
AMF3Value(name, type, d, m, old) ==
    CASE type \in {AMF3.UNDEFINED, AMF3.NULL} -> Within(m, Read(0, Null(name)))
      [] type = AMF3.FALSE_ -> Within(m, Read(0, Number(name, AMF.BOOLEAN, 0)))
      [] type = AMF3.TRUE_ -> Within(m, Read(0, Number(name, AMF.BOOLEAN, 1)))
      [] type = AMF3.INTEGER -> Within(m, IntegerValue(name, AMF3ReadInteger(d)))
      [] type = AMF3.DOUBLE -> Within(m, Read(8, Number(name, AMF.NUMBER, DecodeNumber(d))))
      [] type \in {AMF3.STRING, AMF3.XML_DOC, AMF3.XML} ->
            Within(m, StringValue(name, AMF3ReadString(d)))
      [] type = AMF3.DATE -> Within(m, DateValue(name, AMF3ReadInteger(d), d, old))
      [] type = AMF3.OBJECT -> Within(m, ObjectValue(name, AMF.OBJECT, AMF3Decode(d, m, TRUE)))
      [] OTHER -> Fails

AMF3NamedValue(name, b, n, old) ==
    Advance(name.used + 1, AMF3Value(name.string, Byte(b, name.used + 1), From(b, name.used + 2),
                                     n - name.used - 1, old))

Unnamed == [used |-> 0, string |-> <<>>]

(* AMF3Prop_Decode.  The structure a value is read into still holds the value
   before it, which a name that is empty leaves there. *)
AMF3Property(name, b, n, named, old) ==
    IF named /\ name.string = <<>> THEN Read(name.used, [old EXCEPT !.name = <<>>])
    ELSE AMF3NamedValue(name, b, n, old)
AMF3PropDecode(b, n, named, old) ==
    IF n = 0 THEN Fails
    ELSE AMF3Property(IF named THEN AMF3ReadString(b) ELSE Unnamed, b, n, named, old)

\* The names of the members of a class: count strings
AfterName(name, rest) ==
    [used |-> name.used + rest.used, names |-> <<name.string>> \o rest.names]
RECURSIVE ReadMembers(_, _)
MembersFrom(name, b, count) == AfterName(name, ReadMembers(From(b, name.used + 1), count - 1))
ReadMembers(b, count) ==
    IF count = 0 THEN [used |-> 0, names |-> <<>>] ELSE MembersFrom(AMF3ReadString(b), b, count)

(* The values of the members, then of the dynamic ones until a name is empty:
   the property of the empty name is added too.  A value that cannot be decoded
   ends the object here.  v is the value at the front of b. *)
RECURSIVE StaticFrom(_, _, _, _, _)
ReadStatic(b, n, names, props, old) ==
    IF names = <<>> THEN [used |-> 0, props |-> props, last |-> old]
    ELSE StaticFrom(AMF3PropDecode(b, n, FALSE, old), b, n, names, [props |-> props, last |-> old])

StaticFrom(v, b, n, names, before) ==
    IF n <= 0 \/ v.used = Failed THEN [used |-> n] @@ before
    ELSE LET prop == [v.prop EXCEPT !.name = Head(names)]
         IN  Advance(v.used, ReadStatic(From(b, v.used + 1), n - v.used, Tail(names),
                                        Append(before.props, prop), prop))

RECURSIVE DynamicFrom(_, _, _, _)
ReadDynamic(b, n, props, old) == DynamicFrom(AMF3PropDecode(b, n, TRUE, old), b, n, props)

DynamicFrom(v, b, n, props) ==
    CASE n <= 0 \/ v.used = Failed -> [used |-> n, props |-> props]
      [] n > 0 /\ v.used # Failed /\ v.prop.name = <<>> ->
            [used |-> v.used, props |-> Append(props, v.prop)]
      [] OTHER -> Advance(v.used, ReadDynamic(From(b, v.used + 1), n - v.used,
                                              Append(props, v.prop), v.prop))

Unset == Null(<<>>)
DefaultAttribute == <<0>>
Undescribed == [used |-> 0, external |-> FALSE, dynamic |-> FALSE, names |-> <<>>]

\* The class of an object; a reference to an earlier class describes none.
Unqualified(members) == [members EXCEPT !.names = Tail(@)]
ClassOf(members, ref) ==
    [used |-> members.used, names |-> members.names, external |-> (ref \div 2) % 2 = 1,
     dynamic |-> (ref \div 4) % 2 = 1]
\* The name of the class is read as one more name.
ReadClass(b, ref) ==
    IF ref % 2 = 0 THEN Undescribed
    ELSE ClassOf(Unqualified(ReadMembers(b, 1 + ref \div 8)), ref)

\* What an object has: one value of its own, or the members of its class and others
ReadExternal(v) ==
    IF v.used = Failed THEN [used |-> 0, props |-> <<Null(DefaultAttribute)>>]
    ELSE [used |-> v.used, props |-> <<[v.prop EXCEPT !.name = DefaultAttribute]>>]

ReadOthers(fixed, b, n, dynamic) ==
    IF dynamic
    THEN Advance(fixed.used, ReadDynamic(From(b, fixed.used + 1), n - fixed.used, fixed.props,
                                         fixed.last))
    ELSE [used |-> fixed.used, props |-> fixed.props]

ReadObject(class, b, n) ==
    IF class.external THEN ReadExternal(AMF3PropDecode(b, n, FALSE, Unset))
    ELSE ReadOthers(ReadStatic(b, n, class.names, <<>>, Unset), b, n, class.dynamic)

ReadDescribed(class, b, n) ==
    Advance(class.used, ReadObject(class, From(b, class.used + 1), n - class.used))

\* A reference to an earlier object is empty.
ReadReferred(ref, b, n) ==
    IF ref.value % 2 = 0 THEN [used |-> ref.used, props |-> <<>>]
    ELSE Advance(ref.used, ReadDescribed(ReadClass(From(b, ref.used + 1), ref.value \div 2),
                                         From(b, ref.used + 1), n - ref.used))

ReadInstance(b, n) == ReadReferred(AMF3ReadInteger(b), b, n)

\* AMF3_Decode: an object, with its marker when it comes inside of AMF
AMF3Decode(b, n, marked) ==
    Advance(IF marked THEN 1 ELSE 0,
            ReadInstance(IF marked THEN From(b, 2) ELSE b, IF marked THEN n - 1 ELSE n))

\* AMFProp_Decode: a value, with the name of the property before it if it has one
AMFValue(name, type, d, m) ==
    CASE type = AMF.NUMBER -> Within(m, Read(8, Number(name, AMF.NUMBER, DecodeNumber(d))))
      [] type = AMF.BOOLEAN ->
            Within(m, Read(1, Number(name, AMF.BOOLEAN, IF Byte(d, 1) = 0 THEN 0 ELSE 1)))
      [] type = AMF.STRING ->
            Within(m, Read(2 + DecodeInt16(d), Text(name, AMF.STRING, DecodeString(d))))
      [] type = AMF.OBJECT -> ObjectValue(name, type, AMFDecode(d, m, TRUE))
      [] type \in {AMF.NULL, AMF.UNDEFINED, AMF.UNSUPPORTED} -> Within(m, Read(0, Null(name)))
      [] type = AMF.ECMA_ARRAY ->
            Advance(4, ObjectValue(name, type, AMFDecode(From(d, 5), m - 4, TRUE)))
      [] type = AMF.STRICT_ARRAY ->
            Advance(4, ObjectValue(name, type,
                                   AMFDecodeArray(From(d, 5), m - 4, DecodeInt32(d))))
      [] type = AMF.DATE -> Within(m, Read(10, Number(name, AMF.DATE, DecodeNumber(d))))
      [] type \in {AMF.LONG_STRING, AMF.XML_DOC} ->
            Within(m, Read(4 + DecodeInt32(d),
                           Text(name, IF type = AMF.LONG_STRING THEN AMF.STRING ELSE type,
                                DecodeLongString(d))))
      [] type = AMF.AVMPLUS -> ObjectValue(name, AMF.OBJECT, AMF3Decode(d, m, TRUE))
      [] OTHER -> Fails

AMFPropertyAt(head, name, b, n) ==
    IF n <= head THEN Fails
    ELSE Advance(head + 1, AMFValue(name, Byte(b, head + 1), From(b, head + 2), n - head - 1))
AMFPropDecode(b, n, named) ==
    IF named /\ n < 4 THEN Fails
    ELSE AMFPropertyAt(IF named THEN 2 + DecodeInt16(b) ELSE 0,
                       IF named THEN DecodeString(b) ELSE <<>>, b, n)

\* Values one after the other; one that cannot be read spoils the rest.
Joined(v, rest) ==
    IF rest.used = Failed THEN Fails
    ELSE [used |-> v.used + rest.used, props |-> <<v.prop>> \o rest.props]

\* AMF_Decode: values until the end marker, or the end
ValuesFrom(v, b, n, named) ==
    IF v.used = Failed \/ v.used > n THEN Fails
    ELSE Joined(v, AMFDecode(From(b, v.used + 1), n - v.used, named))
AMFDecode(b, n, named) ==
    CASE n <= 0 -> [used |-> 0, props |-> <<>>]
      [] n >= 3 /\ DecodeInt24(b) = AMF.OBJECT_END -> [used |-> 3, props |-> <<>>]
      [] OTHER -> ValuesFrom(AMFPropDecode(b, n, named), b, n, named)

\* AMF_DecodeArray: as many values as it says
ElementsFrom(v, b, n, count) ==
    IF v.used = Failed THEN Fails
    ELSE Joined(v, AMFDecodeArray(From(b, v.used + 1), n - v.used, count - 1))
AMFDecodeArray(b, n, count) ==
    CASE count = 0 -> [used |-> 0, props |-> <<>>]
      [] count # 0 /\ n <= 0 -> Fails
      [] OTHER -> ElementsFrom(AMFPropDecode(b, n, FALSE), b, n, count)

\* AMF_GetProp: by its place, or the first of a name
Invalid == [name |-> <<>>, type |-> 255]
PropAt(props, i) == IF i < Len(props) THEN props[i + 1] ELSE Invalid
GetProp(props, name) ==
    LET found == {i \in DOMAIN props : props[i].name = name}
    IN  IF found = {} THEN Invalid ELSE props[CHOOSE i \in found : \A j \in found : i <= j]

=============================================================================
