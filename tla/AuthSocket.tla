----------------------------- MODULE AuthSocket -----------------------------
(***************************************************************************)
(* The receiving side of an authentication socket: the packets of          *)
(* pkg/authentication/auth_tcp_connection.go on the byte stream that the   *)
(* read loop of TcpClient takes in pieces, and the handlers of             *)
(* auth_channel.go they are routed to.  The read loop of an accepted       *)
(* connection (tcp_connection/server.go:142) treats its buffer alike.      *)
(*                                                                         *)
(* A byte is named by its place in the stream of its connection; a packet  *)
(* is a header of HeadLen bytes and the len bytes that follow.  What the   *)
(* read loop keeps is that of the current connection, since OneReader      *)
(* leaves no other loop.  A dispatch, the callback it makes and the        *)
(* compaction of the buffer are different steps.                           *)
(***************************************************************************)
EXTENDS TcpClient, Sequences

CONSTANTS
    HeadLen,         \* AuthPktHeadLen
    MaxLen,          \* AuthSocketMaxDataLen
    BufSize,         \* DefaultBufSize
    ChannelModules,  \* ModuleAuthChannel and ModuleAuthMsg
    MetaModules,     \* ModuleMetaAuth
    Streams          \* bound: the sequences of packets, [module, len], of
                     \* which a peer posts a beginning on a connection

Modules == UNION {{s[k].module : k \in DOMAIN s} : s \in Streams}

\* SocketPostBytes of a peer sends any length, none included.
ASSUME AuthSocketAssumption ==
    /\ HeadLen \in Nat \ {0}
    /\ MaxLen \in Nat
    /\ BufSize \in Nat
    /\ HeadLen < BufSize
    /\ Streams \subseteq Seq([module : Modules, len : Nat])
    /\ None \notin Modules \cup {"SocketCallback", "rejected", "overflow"}

VARIABLES
    posted,     \* packets of the stream so far: [module, len, at]
    got,        \* bytes of the stream that were read
    buf,        \* buf[:used]
    processed,  \* local to onTcpDataReceived
    handled,    \* what the dispatch did: [module, data, to]
    calling,    \* the handler whose callback runs, or None
    listeners,  \* channel modules with a listener (g_channelListeners)
    hasCallback,\* g_socketCallback is set
    why         \* what ended the read loop of the current connection

streamVars  == <<posted, got, buf, processed, handled, calling, why>>
handlerVars == <<listeners, hasCallback>>
socketVars  == <<vars, streamVars, handlerVars>>

\* The last byte of the first k packets, and of all that were posted.
EndOf(k) == IF k = 0 THEN 0 ELSE posted[k].at + HeadLen + posted[k].len - 1
Sent == EndOf(Len(posted))

\* processed as it starts in the next callback, and no bytes yet.
NewStream ==
    /\ posted' = <<>>
    /\ got' = 0
    /\ buf' = <<>>
    /\ processed' = 0
    /\ handled' = <<>>
    /\ calling' = None
    /\ why' = None

SocketInit ==
    /\ Init
    /\ posted = <<>>
    /\ got = 0
    /\ buf = <<>>
    /\ processed = 0
    /\ handled = <<>>
    /\ calling = None
    /\ why = None
    /\ listeners = {}
    /\ hasCallback = FALSE

-----------------------------------------------------------------------------
(* The peer and the handlers.                                              *)

\* SocketPostBytes of the peer: Write sends the packet as a whole.
Post(s) ==
    /\ curFd \in open
    /\ Len(posted) < Len(s)
    /\ \A k \in DOMAIN posted : posted[k].module = s[k].module /\ posted[k].len = s[k].len
    /\ LET next == s[Len(posted) + 1] IN
         posted' = Append(posted, [module |-> next.module, len |-> next.len, at |-> Sent + 1])
    /\ UNCHANGED <<vars, got, buf, processed, handled, calling, why, handlerVars>>

ListenersFree == calling \notin ChannelModules

RegAuthChannelListener(module) ==
    /\ ListenersFree
    /\ listeners' = listeners \cup {module}
    /\ UNCHANGED <<vars, streamVars, hasCallback>>

UnregAuthChannelListener(module) ==
    /\ ListenersFree
    /\ listeners' = listeners \ {module}
    /\ UNCHANGED <<vars, streamVars, hasCallback>>

SetSocketCallback ==
    /\ hasCallback' = TRUE
    /\ UNCHANGED <<vars, streamVars, listeners>>

UnsetSocketCallback ==
    /\ hasCallback' = FALSE
    /\ UNCHANGED <<vars, streamVars, listeners>>

-----------------------------------------------------------------------------
(* onTcpDataReceived on the goroutine of the read loop.                    *)

ReadBytes(r) ==
    /\ ReadData(r)
    /\ \E n \in 1 .. BufSize - Len(buf) :
         /\ got + n <= Sent
         /\ buf' = buf \o [i \in 1 .. n |-> got + i]
         /\ got' = got + n
    /\ processed' = 0
    /\ UNCHANGED <<posted, handled, calling, why, handlerVars>>

\* The packet whose header is at processed: the magic number is found where
\* a packet begins, and a header cut short is not looked at.
HeadRead == processed + HeadLen <= Len(buf)
IsHead(pkt) ==
    HeadRead /\ \A i \in 1 .. HeadLen : buf[processed + i] = pkt.at + i - 1

InRange(len) == len # 0 /\ len <= MaxLen

\* Mutant: one packet for each piece of data that was read.
FirstComplete(pkt) == processed = 0 /\ HeadLen + pkt.len <= Len(buf)
Complete(pkt) == processed + HeadLen + pkt.len <= Len(buf)

Payload(pkt) == SubSeq(buf, processed + HeadLen + 1, processed + HeadLen + pkt.len)

\* processSocketData: the listener of the module, the SocketCallback or
\* nobody.
Handler(module) ==
    CASE module \in ChannelModules -> IF module \in listeners THEN module ELSE None
      [] module \in MetaModules    -> None
      [] OTHER                     -> IF hasCallback THEN "SocketCallback" ELSE None

Dispatch(r) ==
    /\ readerPc[r] = "callback"
    /\ calling = None
    /\ \E k \in DOMAIN posted :
         LET pkt == posted[k] IN
         /\ IsHead(pkt)
         /\ InRange(pkt.len)
         /\ Complete(pkt)
         /\ handled' = Append(handled, [module |-> pkt.module, data |-> Payload(pkt),
                                        to |-> Handler(pkt.module)])
         /\ calling' = Handler(pkt.module)
         /\ processed' = processed + HeadLen + pkt.len
    /\ UNCHANGED <<vars, posted, got, buf, why, handlerVars>>

HandlerReturns(r) ==
    /\ readerPc[r] = "callback"
    /\ calling # None
    /\ calling' = None
    /\ UNCHANGED <<vars, posted, got, buf, processed, handled, why, handlerVars>>

\* The header is none of ours or gives a length out of range: -1, and the
\* loop ends.
Reject(r) ==
    /\ readerPc[r] = "callback"
    /\ calling = None
    /\ HeadRead
    /\ ~ \E k \in DOMAIN posted : IsHead(posted[k]) /\ InRange(posted[k].len)
    /\ why' = "rejected"
    /\ OnDataReceived(r) /\ readerPc'[r] = "done"
    /\ UNCHANGED <<posted, got, buf, processed, handled, calling, handlerVars>>

\* Mutants: the rest is not moved to the front; what was processed stays.
NotReduced == buf
NotCompacted == SubSeq(buf, 1, Len(buf) - processed)
Compacted == SubSeq(buf, processed + 1, Len(buf))

\* The rest is too short for a header or a packet: the loop goes on if there
\* is room left.
Keep(r) ==
    /\ readerPc[r] = "callback"
    /\ calling = None
    /\ \/ ~HeadRead
       \/ \E k \in DOMAIN posted :
            IsHead(posted[k]) /\ InRange(posted[k].len) /\ ~Complete(posted[k])
    /\ buf' = Compacted
    /\ processed' = 0
    /\ OnDataReceived(r)
    /\ \/ Len(buf') < BufSize /\ readerPc'[r] = "check" /\ why' = why
       \/ Len(buf') >= BufSize /\ readerPc'[r] = "done" /\ why' = "overflow"
    /\ UNCHANGED <<posted, got, handled, calling, handlerVars>>

-----------------------------------------------------------------------------
\* A step of the client that has nothing to do with the stream; the read loop
\* of a new connection starts with an empty buffer.
ClientStep ==
    /\ UNCHANGED handlerVars
    /\ \/ \E p \in Callers :
            \/ Register(p) /\ NewStream
            \/ /\ \/ Connect(p) \/ DialFails(p) \/ CloseBegin(p) \/ CallerStep(p)
               /\ UNCHANGED streamVars
       \/ \E r \in Fds :
            /\ ReaderCheck(r) \/ ReaderLock(r) \/ ReadFails(r) \/ DisconnectDevice(r)
            /\ UNCHANGED streamVars

ParseStep(r) == Dispatch(r) \/ HandlerReturns(r) \/ Reject(r) \/ Keep(r)

SocketNext ==
    /\ ~panicked
    /\ \/ ClientStep
       \/ \E s \in Streams : Post(s)
       \/ \E module \in ChannelModules :
            RegAuthChannelListener(module) \/ UnregAuthChannelListener(module)
       \/ SetSocketCallback \/ UnsetSocketCallback
       \/ \E r \in Fds : ReadBytes(r) \/ ParseStep(r)

SocketSpec == SocketInit /\ [][SocketNext]_socketVars

\* As for the client, and what is on its way is read in the end: by Read as
\* long as the connection is open.  Handlers return.
SocketFairness ==
    /\ \A p \in Callers :
         /\ SF_socketVars(~panicked /\ CallerStep(p) /\ UNCHANGED <<streamVars, handlerVars>>)
         /\ WF_socketVars(/\ ~panicked
                          /\ UNCHANGED handlerVars
                          /\ \/ DialFails(p) /\ UNCHANGED streamVars
                             \/ Register(p) /\ NewStream)
    /\ \A r \in Fds :
         /\ SF_socketVars(/\ ~panicked
                          /\ ReaderCheck(r) \/ ReaderLock(r)
                          /\ UNCHANGED <<streamVars, handlerVars>>)
         /\ WF_socketVars(/\ ~panicked /\ readFd[r] \notin open
                          /\ ReadFails(r) /\ UNCHANGED <<streamVars, handlerVars>>)
         /\ WF_socketVars(~panicked /\ (ReadBytes(r) \/ ParseStep(r)))

FairSocketSpec == SocketSpec /\ SocketFairness

-----------------------------------------------------------------------------
Expected(pkt) == [i \in 1 .. pkt.len |-> pkt.at + HeadLen + i - 1]

\* However the stream is cut into pieces, and whatever was left in the buffer
\* by the piece before, the handlers get the packets that were posted: each
\* once, in order, with their own data.
InOrder ==
    /\ Len(handled) <= Len(posted)
    /\ \A k \in DOMAIN handled :
         /\ handled[k].module = posted[k].module
         /\ handled[k].data = Expected(posted[k])

\* The first packet nobody has been given yet.
NextPacket == posted[Len(handled) + 1]

\* The read loop gives a connection up for what the peer sent, never for how
\* it arrived: because of the next packet, whose length is out of range or
\* which no buffer can hold.
Blame ==
    /\ why = "rejected" => Len(handled) < Len(posted) /\ ~InRange(NextPacket.len)
    /\ why = "overflow" => Len(handled) < Len(posted) /\ HeadLen + NextPacket.len > BufSize

Good(pkt) == InRange(pkt.len) /\ HeadLen + pkt.len <= BufSize

\* Packets nobody has been given, on a connection that is still read and has
\* brought none but packets the buffer can hold.
Waiting ==
    /\ ~panicked
    /\ curFd # None
    /\ readerPc[curFd] # "done"
    /\ Len(handled) < Len(posted)
    /\ \A k \in DOMAIN posted : Good(posted[k])

\* They do not wait forever: with a peer that posts finitely many, all reach
\* their handlers or the connection ends.  No piece of a packet stays in the
\* buffer until more data comes.
PacketsArrive == []<>~Waiting

-----------------------------------------------------------------------------
(* The inductive invariant behind InOrder and Blame.                       *)

SocketTypeOK ==
    /\ posted \in Seq([module : Modules, len : Nat, at : Nat])
    /\ got \in Nat
    /\ buf \in Seq(Nat)
    /\ processed \in Nat
    /\ handled \in Seq([module : Modules, data : Seq(Nat),
                        to : Modules \cup {"SocketCallback", None}])
    /\ calling \in Modules \cup {"SocketCallback", None}
    /\ listeners \subseteq ChannelModules
    /\ hasCallback \in BOOLEAN
    /\ why \in {"rejected", "overflow", None}

\* The packets of the stream follow each other without a gap.
PostedInPlace ==
    /\ \A k \in DOMAIN posted : posted[k].at = EndOf(k - 1) + 1
    /\ \A j, k \in DOMAIN posted : j < k => posted[j].at < posted[k].at

\* The buffer holds the last bytes that were read, in their order, and the
\* first that is not processed begins the first packet that is not handled.
BufferInPlace ==
    /\ got <= Sent
    /\ Len(buf) <= got
    /\ Len(buf) <= BufSize
    /\ \A i \in DOMAIN buf : buf[i] = got - Len(buf) + i
    /\ processed <= Len(buf)
    /\ Len(handled) <= Len(posted)
    /\ got - Len(buf) + processed = EndOf(Len(handled))

\* The loop reads with nothing processed, and a loop that gave up has ended.
LoopInPlace ==
    /\ \A r \in Fds : readerPc[r] \in {"check", "lock", "read"} => processed = 0
    /\ \A p \in Callers :
         pc[p] = "spawn" => processed = 0 /\ why \notin {"rejected", "overflow"}
    /\ why \in {"rejected", "overflow"} => \A r \in Fds : ~Reading(r)

SocketInv ==
    /\ IInv
    /\ SocketTypeOK
    /\ PostedInPlace
    /\ BufferInPlace
    /\ LoopInPlace
    /\ InOrder
    /\ Blame

-----------------------------------------------------------------------------
(* What the documentation in the code says and the code does not do.       *)

\* types.go:16 allows 64 KB of data in a packet: the loop ends only because
\* of a packet that is longer.
LegalIsKept == why \in {"rejected", "overflow"} => ~InRange(NextPacket.len)

\* auth_tcp_connection.go:118 unsets the callback: it is not called then.
CallbackCurrent == calling = "SocketCallback" => hasCallback
=============================================================================
