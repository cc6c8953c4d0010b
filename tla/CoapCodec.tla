----------------------------- MODULE CoapCodec -----------------------------
(***************************************************************************)
(* The CoAP encoder and decoder of coap_adapter.go, on sequences of bytes. *)
(* A message is [type, code, msgId, token, options, payload]; an option is *)
(* [num, value].  Offsets count from zero, as in the code.                 *)
(***************************************************************************)
EXTENDS Integers, Sequences

Byte   == 0 .. 255
UInt16 == {n \in Nat : n < 65536}

Options  == [num : UInt16, value : Seq(Byte)]
Contents == [type : 0 .. 3, code : Byte, msgId : UInt16, token : Seq(Byte),
             options : Seq(Options), payload : Seq(Byte)]

\* The largest delta or length that two extension bytes can express: 269 + 65535.
MaxValue == 65804

MaxOptions  == 16   \* COAP_MAX_OPTION
MaxTokenLen == 8
Marker      == 255

Refused  == [error |-> "refused"]    \* an error code
Panicked == [error |-> "panicked"]   \* an index out of range

AsUInt16(v)  == v % 65536
BigEndian(v) == <<v \div 256, v % 256>>

-----------------------------------------------------------------------------
(* COAP_SoftBusEncode                                                      *)

\* The values from 13 on that a single extension byte holds end here.
ByteLimit(v) == 13 + 256

Nibble(v) == IF v < 13 THEN v ELSE IF v < ByteLimit(v) THEN 13 ELSE 14

Extension(v) ==
    IF v < 13 THEN <<>>
    ELSE IF v < ByteLimit(v) THEN <<(v - 13) % 256>>
    ELSE BigEndian(AsUInt16(v - 269))

\* Mutant: the difference does not wrap around.
PlainDelta(prev, num) == IF num < prev THEN 0 ELSE num - prev
\* A uint16; an option may have a smaller number than the one before.
Delta(prev, num) == AsUInt16(num - prev)

EncodeOption(prev, opt) ==
    LET delta == Delta(prev, opt.num)
        len   == Len(opt.value)
    IN  <<Nibble(delta) * 16 + Nibble(len)>> \o Extension(delta) \o Extension(len) \o opt.value

\* The number of the option before the next one.
NumberOf(options, i) == IF i = 0 THEN 0 ELSE options[i].num

\* The bytes of the first options.
Encoded(options) ==
    LET enc[i \in 0 .. Len(options)] ==
            IF i = 0 THEN <<>> ELSE enc[i - 1] \o EncodeOption(NumberOf(options, i - 1), options[i])
    IN  enc

EncodeOptions(options) == Encoded(options)[Len(options)]

EncodePayload(payload) == IF payload = <<>> THEN <<>> ELSE <<Marker>> \o payload

\* Into a buffer of cap bytes.
Encode(msg, cap) ==
    LET bytes == <<64 + msg.type * 16 + Len(msg.token), msg.code>> \o BigEndian(msg.msgId)
                 \o msg.token \o EncodeOptions(msg.options) \o EncodePayload(msg.payload)
    IN  IF Len(msg.token) > MaxTokenLen \/ Len(bytes) > cap THEN Refused ELSE bytes

-----------------------------------------------------------------------------
(* COAP_SoftBusDecode and parseOptionsAndPayload                           *)

\* Mutant: the last byte is not checked for.
RoomButOne(buf, offset, k) == offset + k <= Len(buf) + 1
Room(buf, offset, k) == offset + k <= Len(buf)

\* A delta or a length with nibble nib, whose extension begins at offset.
Extended(buf, offset, nib) ==
    LET k == IF nib < 13 THEN 0 ELSE nib - 12 IN
    IF nib = 15 \/ ~Room(buf, offset, k) THEN Refused
    ELSE IF offset + k > Len(buf) THEN Panicked
    ELSE [v    |-> CASE nib = 13 -> 13 + buf[offset + 1]
                     [] nib = 14 -> 269 + 256 * buf[offset + 1] + buf[offset + 2]
                     [] OTHER    -> nib,
          next |-> offset + k]

Failed(r) == "error" \in DOMAIN r

\* The option whose first byte is at offset.
DecodeOption(buf, offset, prev) ==
    LET h     == buf[offset + 1]
        delta == Extended(buf, offset + 1, h \div 16)
        len   == Extended(buf, delta.next, h % 16)
    IN  IF Failed(delta) THEN delta
        ELSE IF Failed(len) THEN len
        ELSE IF ~Room(buf, len.next, len.v) THEN Refused
        ELSE IF len.next + len.v > Len(buf) THEN Panicked
        ELSE [opt  |-> [num   |-> AsUInt16(prev + delta.v),
                        value |-> SubSeq(buf, len.next + 1, len.next + len.v)],
              next |-> len.next + len.v]

\* One turn of the loop over the options, which ends at the end of the
\* datagram, at the marker or with an error.
AtOption(buf, at) ==
    ~Failed(at) /\ at.offset < Len(buf) /\ buf[at.offset + 1] # Marker

Turn(buf, at) ==
    IF ~AtOption(buf, at) THEN at
    ELSE IF Len(at.options) >= MaxOptions THEN Refused
    ELSE LET r == DecodeOption(buf, at.offset, at.num) IN
         IF Failed(r) THEN r
         ELSE [offset |-> r.next, num |-> r.opt.num, options |-> Append(at.options, r.opt)]

\* The turn after the last option that there is room for is the last one.
Turns == MaxOptions + 1

Loop(buf, start) ==
    LET loop[n \in 0 .. Turns] ==
            IF n = 0 THEN [offset |-> start, num |-> 0, options |-> <<>>]
            ELSE Turn(buf, loop[n - 1])
    IN  loop

\* The options and the payload from start on.
Parse(buf, start) ==
    LET at == Loop(buf, start)[Turns] IN
    IF Failed(at) THEN at
    ELSE [options |-> at.options, payload |-> SubSeq(buf, at.offset + 2, Len(buf))]

Decode(buf) ==
    IF Len(buf) < 4 \/ buf[1] \div 64 # 1 THEN Refused
    ELSE LET tokenLen == buf[1] % 16 IN
         IF tokenLen > MaxTokenLen \/ ~Room(buf, 4, tokenLen) THEN Refused
         ELSE IF 4 + tokenLen > Len(buf) THEN Panicked
         ELSE LET rest == Parse(buf, 4 + tokenLen) IN
              IF Failed(rest) THEN rest
              ELSE [type    |-> (buf[1] \div 16) % 4,
                    code    |-> buf[2],
                    msgId   |-> 256 * buf[3] + buf[4],
                    token   |-> SubSeq(buf, 5, 4 + tokenLen),
                    options |-> rest.options,
                    payload |-> rest.payload]

-----------------------------------------------------------------------------
(* BuildDiscoverPacket and BuildSendPkt                                    *)

UriHost == 3
UriPath == 11

DiscoverOptions(host, path) ==
    <<[num |-> UriHost, value |-> host], [num |-> UriPath, value |-> path]>>

\* A confirmable POST without a token.
DiscoverMessage(msgId, host, path, payload) ==
    [type |-> 0, code |-> 2, msgId |-> msgId, token |-> <<>>,
     options |-> DiscoverOptions(host, path), payload |-> payload]

\* Mutant: the answer is numbered anew.
NewId(request) == AsUInt16(request.msgId + 1)
SameId(request) == request.msgId

\* An answer repeats code, id and token of the request; a zero byte ends its
\* payload.
AnswerMessage(request, host, path, payload) ==
    [type |-> 1, code |-> request.code, msgId |-> SameId(request), token |-> request.token,
     options |-> DiscoverOptions(host, path), payload |-> Append(payload, 0)]

\* BuildSendPkt refuses a packet that fills the buffer.
BuildSendPkt(request, host, path, payload, cap) ==
    LET bytes == Encode(AnswerMessage(request, host, path, payload), cap) IN
    IF bytes = Refused \/ Len(bytes) >= cap THEN Refused ELSE bytes
=============================================================================
