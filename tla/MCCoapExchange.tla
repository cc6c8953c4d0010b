-------------------------- MODULE MCCoapExchange ---------------------------
(* Options on both sides of every limit of the encoding, in any order, and *)
(* datagrams made of the bytes that decide what the decoder does.          *)
EXTENDS CoapExchange, SequencesExt

\* All bytes of values are 255, which the decoder could take for the marker.
Repeat(n) == [i \in 1 .. n |-> 255]

SomeOptions == [num : {0, 3, 15, 16, 271, 272, 273, 65535},
                value : {Repeat(n) : n \in {0, 12, 13, 268, 269}}]

ManyOptions(n) == [i \in 1 .. n |-> [num |-> 3 * i, value |-> Repeat(1)]]

Message(options, tokenLen, payload) ==
    [type |-> 1, code |-> 2, msgId |-> 65281, token |-> Repeat(tokenLen),
     options |-> options, payload |-> payload]

SomeMessages ==
    {Message(o, 0, <<255>>) : o \in BoundedSeq(SomeOptions, 2)}
    \cup {Message(o, t, p) : o \in BoundedSeq(SomeOptions, 1), t \in {0, 8, 9}, p \in {<<>>, <<0, 255>>}}
    \cup {Message(ManyOptions(n), 0, p) : n \in {15, 16, 17}, p \in {<<>>, <<7>>}}
    \cup {DiscoverMessage(1, <<49>>, <<100>>, <<123, 125, 0>>)}

\* Nibbles 0, 1, 12, 13, 14 and 15, and the marker.
Telling == {0, 1, 16, 13, 14, 15, 208, 221, 224, 238, 240, 255}

SomeDatagrams ==
    BoundedSeq({0, 64, 72}, 3)
    \cup {<<first, 2, 0, 1>> \o rest : first \in {64, 65, 72, 73, 128}, rest \in BoundedSeq(Telling, 2)}
    \cup {<<64, 2, 0, 1>> \o rest : rest \in BoundedSeq(Telling, 4)}

AnswerHost == <<49, 46>>
AnswerPath == <<100, 100>>
AnswerPayload == <<123, 125, 0>>
=============================================================================
