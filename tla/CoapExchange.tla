--------------------------- MODULE CoapExchange ----------------------------
(***************************************************************************)
(* One datagram after another through the codec of CoapCodec: a message is *)
(* encoded and decoded by the receiver, which encodes an answer that the   *)
(* sender decodes; or bytes arrive that nobody here has encoded.           *)
(***************************************************************************)
EXTENDS CoapCodec

CONSTANTS
    Messages,    \* what is sent
    Datagrams,   \* what else may arrive
    Caps,        \* sizes of the buffer; COAP_MAX_PDU_SIZE in the code
    Host, Path, Payload   \* of the answer

\* No buffer has room for a value longer than the format can express.
ASSUME ExchangeAssumption ==
    /\ Messages \subseteq Contents /\ Datagrams \subseteq Seq(Byte)
    /\ Caps \subseteq 0 .. MaxValue
    /\ Host \in Seq(Byte) /\ Path \in Seq(Byte) /\ Payload \in Seq(Byte)

VARIABLES
    step,
    sent,       \* the message, or NoMessage if the bytes come from elsewhere
    cap,
    wire,       \* the bytes under way
    received,   \* what they were decoded to
    answer      \* what the answer was decoded to

exchangeVars == <<step, sent, cap, wire, received, answer>>

NoMessage == [error |-> "none"]

ExchangeInit ==
    /\ step = "begin"
    /\ sent = NoMessage /\ received = NoMessage /\ answer = NoMessage
    /\ cap \in Caps
    /\ wire = <<>>

\* COAP_SoftBusEncode refuses what does not fit.
Send ==
    /\ step = "begin"
    /\ \E msg \in Messages :
         LET bytes == Encode(msg, cap) IN
         /\ sent' = msg
         /\ IF bytes = Refused THEN step' = "end" /\ UNCHANGED wire
            ELSE step' = "sent" /\ wire' = bytes
    /\ UNCHANGED <<cap, received, answer>>

Arrive ==
    /\ step = "begin"
    /\ wire' \in Datagrams
    /\ step' = "sent"
    /\ UNCHANGED <<sent, cap, received, answer>>

\* handleReadEvent goes on to answer what it could decode.
ReceiveDatagram ==
    /\ step = "sent"
    /\ received' = Decode(wire)
    /\ step' = IF Failed(received') THEN "end" ELSE "received"
    /\ UNCHANGED <<sent, cap, wire, answer>>

Answer ==
    /\ step = "received"
    /\ LET bytes == BuildSendPkt(received, Host, Path, Payload, cap) IN
         IF bytes = Refused THEN step' = "end" /\ UNCHANGED wire
         ELSE step' = "answered" /\ wire' = bytes
    /\ UNCHANGED <<sent, cap, received, answer>>

ReceiveAnswer ==
    /\ step = "answered"
    /\ answer' = Decode(wire)
    /\ step' = "end"
    /\ UNCHANGED <<sent, cap, wire, received>>

ExchangeNext == Send \/ Arrive \/ ReceiveDatagram \/ Answer \/ ReceiveAnswer

ExchangeSpec == ExchangeInit /\ [][ExchangeNext]_exchangeVars

-----------------------------------------------------------------------------
\* Who answers has the token of the request in a message of its own.
Requests ==
    {msg \in Contents : Len(msg.token) <= MaxTokenLen /\ Len(msg.options) <= MaxOptions}

ExchangeTypeOK ==
    /\ step \in {"begin", "sent", "received", "answered", "end"}
    /\ sent \in Contents \cup {NoMessage}
    /\ cap \in Caps
    /\ wire \in Seq(Byte)
    /\ received \in Requests \cup {Refused, NoMessage}
    /\ answer \in Requests \cup {NoMessage}

\* What is received is what was sent, whatever the order and the lengths of
\* its options; a message with more options than COAP_MAX_OPTION is refused.
RoundTrip ==
    sent # NoMessage /\ received # NoMessage =>
        received = IF Len(sent.options) <= MaxOptions THEN sent ELSE Refused

\* The decoder reads no byte behind the end, whatever arrives.
InBounds == Panicked \notin {received, answer}

\* The asking device gets an answer to its own request, with the bytes of the
\* payload and a zero byte, or none at all.
AnswerMatches ==
    answer # NoMessage =>
        /\ ~Failed(answer)
        /\ <<answer.msgId, answer.token>> = <<received.msgId, received.token>>
        /\ answer.payload = Append(Payload, 0)

-----------------------------------------------------------------------------
(* The invariant the proofs rest on: what is on the wire at each step.     *)

OnTheWire ==
    /\ step = "sent" /\ sent # NoMessage => wire = Encode(sent, cap) /\ wire # Refused
    /\ step = "answered" =>
         wire # Refused /\ wire = BuildSendPkt(received, Host, Path, Payload, cap)

InTurn ==
    /\ step = "begin" => sent = NoMessage
    /\ step \in {"begin", "sent"} => received = NoMessage
    /\ step \in {"received", "answered"} => received \in Requests
    /\ step # "end" => answer = NoMessage

\* The whole answer, of which AnswerMatches names what the asking device uses.
AnswerWhole ==
    answer # NoMessage =>
        received \in Requests /\ answer = AnswerMessage(received, Host, Path, Payload)

ExchangeInv == ExchangeTypeOK /\ OnTheWire /\ InTurn /\ RoundTrip /\ AnswerWhole
=============================================================================
