# dsoftbus-go: a TLA+ model

dsoftbus-go is a Go implementation of the distributed soft bus of
OpenHarmony: devices find each other over CoAP, authenticate over TCP with
HiChain, and open channels between services. This directory holds TLA+ modules
that model its control: connections, locks, goroutines, tables, protocol
messages and the CoAP codec. TLC configurations check them on small instances,
and TLAPS proofs establish the main invariants for all instances.

Paths below are relative to `src/pkg` unless they say otherwise. In a
module, a definition named after a function or a field models that function or
field; `PROJECT.json` gives the lines of each.

## 1. Inventory

| Component | State | Operations | Interacts with | Modelled by |
|---|---|---|---|---|
| TCP server, connection manager (`utils/tcp_connection/server.go`, `manager.go`) | listener, stopChan, WaitGroup; fd counters, fd -> connection | accept loop, one goroutine per connection, register, unregister, stop | callbacks into the authentication sockets; shares the manager with dialled connections | TcpServer |
| TCP client (`client.go`) | c.mu, current fd, stopChan, WaitGroup | Connect, Close, reader goroutine, three callbacks | connection manager | TcpClient, AuthSocket |
| Authentication sockets (`authentication/auth_tcp_connection.go`) | server, manager, channel listeners | start and stop listening, connect, disconnect, packet framing | both of the above, callbacks into authentication connections | AuthConn, TcpServer; framing in AuthSocket |
| Authentication connections (`auth_connection.go`) | connections, fdToConnId, pending requests, manager.mu | ConnectAuthDevice, DisconnectAuthDevice, socket callbacks, AuthConnInit and Deinit | sockets below, AuthManager above, by callback | AuthConn, AuthLifecycle |
| Authentication manager (`auth_manager.go`) | managers by authId, connId -> authId, service.mu | open, close, results, data routing, init, deinit | connections, sessions, keys | AuthConn, AuthLifecycle, AuthSession |
| Authentication sessions (`auth_session.go`) | sessions by Seq | create, route AUTH_SDK packets, HiChain callbacks | HiChain, session context | AuthSession |
| Session keys (`session_key_manager.go`) | keys by authId, optional persistor | set, get, latest, remove, load | AuthManager's encryption | SessionKeys |
| Authentication channels (`auth_channel.go`) | listeners by module | register, open, close, notify | sockets, transmission | AuthConn (open, close), AuthSocket (listeners and routing), SoftBusServer (registration) |
| HiChain and device authentication (`device_auth/`) | instances by request id, groups | AuthDevice, ProcessData, PAKE, groups and members | sessions, session context | HiChain, DmAuth |
| Session context (`context/`) | contexts by session key | set, search, delete | HiChain, transmission | HiChain, DmAuth |
| Transmission (`transmission/`) | AUTH_MSG contexts; sessions | AUTH_MSG listener; session manager | channels, HiChain | DmAuth; not the session manager (section 5) |
| Bus center (`bus_center/`) | local node, net ledger, events | join, leave, LNN tables | frame, authentication callbacks | BusCenter; start, stop and port in SoftBusServer |
| Frame (`frame/`) | gIsInit, gMutex | InitSoftBusServer, DeinitSoftBusServer | every module above | SoftBusServer |
| Discovery (`discovery/service/`) | published modules, capability, service data, providers | InitService, Publish, UnPublish, ports | CoAP, frame | SoftBusServer, CoapDiscovery |
| CoAP (`discovery/coap/`) | socket, terminalFlag, message id, device info | encode, decode, broadcast, answer, read loop | discovery, network manager | CoapDiscovery, CoapCodec, CoapExchange, SoftBusServer |
| Network manager (`utils/network`) | interfaces, monitor goroutine | start, stop, scan every 5 s | CoAP | SoftBusServer, CoapDiscovery |
| Device information, configuration, logging, AES-GCM, command line tools | none worth a model | formatting, I/O | | no |

### What is hard

- **Interleavings of callbacks and calls.** A TCP connection is known to four
  layers, each with a table and a lock of its own. They learn of it bottom up, in
  goroutines of the reader, and forget it in two orders: bottom up when the peer
  closes, top down when an upper layer disconnects.
- **Locks held over callbacks.** manager.mu is held over OnConnectResult, which
  takes service.mu; c.mu over a dial; gMutex over the whole initialisation;
  g_discoveryMutex over the wait for the read loop.
- **Callbacks for everybody.** The frame registers one callback per join and never
  takes one back; every one hears of every result, of which a session may report
  more than one. Joins of the same second have the same request id.
- **Packets and pieces.** A read may end anywhere in a packet; what is left stays in
  a buffer that later reads fill up.
- **Matching by age, not by id.** A dialled connection takes the earliest
  pending request, whoever made it.
- **Snapshots.** The stop of the listener unregisters a snapshot of the fds while
  connections are being accepted.
- **Shared key spaces.** Session numbers of one module and fds of another serve as
  the key under which HiChain finds its instance and its context.
- **Unreliable delivery.** UDP loses, duplicates and reorders; TCP connections
  break between any two messages of PAKE, and the other side may confirm or give up
  at any point of it.
- **Several interfaces.** Without the configured interface a device takes any other
  for its own address, and not the same one each time.
- **Restarts.** Almost everything may be initialised, deinitialised and
  initialised again, and keeps some state over that.
- **Boundaries.** The CoAP option encoding changes form at 13 and at 269 and its
  deltas wrap around at 65536; a datagram may end anywhere.

### What makes the components correct

The tables of a layer mirror each other; what one layer maps another one knows;
a goroutine that has ended is forgotten by all of them; a stopped server has
nothing left running; callbacks come in order and are followed by nothing; a
handler gets the packets that were sent, once, in order and unharmed; a join is
told of no success but its own; every call returns; a manager's key list stays
ordered, and what a key has encrypted is decrypted with that key or not at all; both
sides of a PAKE exchange agree on the key
and neither uses it unproved; the modules of the daemon are up together; what
the encoder writes the decoder reads, and no byte beyond a datagram is read.
`PROJECT.json` lists the hazards, each at its line, with the properties that
guard them.

## 2. The modules

**GoMaps** has Go maps as functions: `Put`, `Del`, `EmptyMap`, `IsMap`.

**AuthConn** is the core. It models the connection layer of one device: openers
(AuthDeviceOpenConn), channel openers (AuthOpenChannel), acceptors
(handleConnection of a connection that came in), closers (AuthDeviceCloseConn) and
the stop of the listener, each a process with a program counter `pc` and local
variables `local`. State is that of the code: `connections` and `fdToConnId` of
the connection manager, `pendingRequests` in its order of age, `managers` and
`connIdToAuthId` of the service, the fd counters and the sockets that are
open. One action is one critical section, or one call that blocks, of one
goroutine. manager.mu is a variable, since a dialled connection keeps it over the
callback; service.mu is never held over a step in this module, so that a section
under it is one action. **ConnLifecycle** is the abstract specification of a
connection table: a connection is recorded at most once, stays until it is
dropped, and never returns. AuthConn implements it (`TableSpec`): the fds of
`fdToConnId` are the live connections, and retired are those whose goroutine is
past the insertion and that are not in the table. **MCAuthConn** names the
processes for TLC.

**BusCenter** extends AuthConn, whose openers are now calls of JoinLNN. The request
id of a call is the second of the clock (`RequestOf`), so that calls may share one. It
adds what the frame does with a result: the callbacks that each join registers, the
request id a session was started with, the goroutines that report a success, the
ledger and the status of its node, and LeaveLNN in its three sections. An action
of AuthConn that the bus center sees is conjoined with its part (`JoinLNN` with
`OpenConn`, `AuthResult` with `AuthDone`); the others are in `ConnStep`.

**TcpServer** models the layer below on its own: the accept loop, the goroutines
of connections, registration and allocation of fds, the stop in its five steps
(close stopChan, close the listener, take the snapshot, unregister each target,
wait) and the start that reuses the manager. Dialled connections take
part as far as they allocate and register fds.

**TcpClient** models a BaseClient used by several goroutines that connect and
close, with the steps of Close between its critical sections, and the reader
goroutine of each connection. A double close of the channel sets `panicked`.

**AuthSocket** extends TcpClient with what the read loop of an authentication
socket does between two reads: the packets of a peer as a stream in which a byte
is named by its place, the buffer of bounded size, the check of header and
length, the dispatch to the listener of a module, to the SocketCallback or to
nobody, the compaction of the buffer and the ways in which the loop gives up.
Listeners and callback come and go on other goroutines; a handler runs
between two steps (`calling`).

**SessionKeys** models SessionKeyManager: each operation is one critical
section and one action. The persistor may fail each time, and a restart loses
the memory but not the store. A key is named by the number of the call that
brought it. Three history variables say what SetSessionKey has returned (`given`),
of which authIds the store has missed a change (`behind`) and of which the latest
key is gone (`lapsed`).

**HiChain** models the device authentication service, which the next two modules
share: the instances by request id, ProcessData in its separate critical sections
(lookup, drop, record, create), PAKE on abstract nonces, shared keys
and proofs, the confirmation that completes an instance on the other side's word
(`HandleAuthConfirm`), the callbacks and the cleanup. A message is a record on the
queue of the connection, in order, as TCP delivers it.
**AuthSession** puts auth_session.go on top for devices that both run this code,
and **DmAuth** trans_auth_manager.go for a HarmonyOS device that pairs by PIN.
That device is not part of the repository and is modelled as the code expects it
(marked external in `PROJECT.json`): it may type a wrong PIN, send an AUTH_CONFIRM at
any point, give up, start over and break a connection. Its request makes a group
(CreateGroup, which replaces one that exists) and adds it as a member
(AddMemberToGroup) in two critical sections, while another device asks on a third
connection.

**AuthLifecycle** models AuthDeviceInit and AuthDeviceDeinit with the three locks
they take, while connections are accepted, dialled and read. It is apart from AuthConn
because here the locks are the subject: each wait for service.mu, manager.mu and
g_authConnManagerMu is a step, and the manager a goroutine has fetched may no longer
be the current one (`Generations`).

**SoftBusServer** models InitSoftBusServer and DeinitSoftBusServer, module by
module and with the failure paths, next to publishers of services
and the CoAP read loop, which can be stopped by either. AuthDeviceDeinit may never
return there, as AuthLifecycle shows; gMutex is then held for ever, and so is every
later call into the frame, while publishers and the read loop go on.

**CoapDiscovery** models the exchange of announcements between devices: broadcast,
filter, report, answer, over networks that keep a set of packets from which each may
be lost or received again. A device has an address on each of its networks, the
addresses of its last scan and perhaps a NetworkName; what GetLocalNetworkInfo may
answer is the set `LocalNetworks`, which filter, broadcast and announcement each take
a member of. An announcement may be one that ParseServiceDiscover refuses, such as
one whose device name is empty after CleanJSONData has taken out what is not ASCII.
**CoapCodec** has the encoder and the decoder as operators on sequences
of bytes, each loop of the code a recursive function of the number of its turns,
and **CoapExchange** sends messages and arbitrary datagrams through them.

Eight modules hold the proofs: **BusCenterProofs** those about AuthConn and BusCenter,
**AuthSocketProofs** about TcpClient and AuthSocket, **DmAuthProofs** about
AuthSession and DmAuth, **CoapProofs** about CoapDiscovery, CoapCodec and CoapExchange, and
**TcpServerProofs**, **SessionKeysProofs**, **SoftBusServerProofs** and
**AuthLifecycleProofs** about the module they are named after.

The composition follows the calls: HiChain is extended by AuthSession and DmAuth,
AuthConn by BusCenter, TcpClient by AuthSocket, CoapCodec by CoapExchange; AuthConn
instantiates ConnLifecycle. AuthConn,
TcpServer and AuthLifecycle look at the same connections at three depths; what
each takes as one action another one opens.

## 3. The runs

All runs but one end without an error. Distinct states are given for each.

| Run | Instance | States | Shows |
|---|---|---|---|
| BusCenter | 2 of 3 joins, two of them of the same second, 1 closer, 1 leaver | 217 590 | `ClientManagerConnected`, `MatchedHasManager`: a connection that took the request of a join that shares it with nobody still finds its manager; `SuccessIsOwn`: the success a join is told of is its own or that of a join of the same second; `FailureIsTold`: a join whose call fails hears of it; `CallsReturn`: every call returns, though manager.mu is kept over callbacks |
| AuthTables | 1 opener without WiFi, 1 channel opener, 1 acceptor, 2 closers (symmetric) | 1 180 032 | `TablesAgree`: the two tables of the connection manager mirror each other; `ManagersMapped`: a manager with a connection is the one its connId leads to, so that no two claim one connection; `FinishedForgotten`: after its goroutine nothing refers to a connection; `TableSpec`: the table implements ConnLifecycle |
| TcpStop | 2 accepted and 1 dialled connection, stop and start | 80 072 | `StoppedClean`: after the stop nothing runs, is open or registered; `FdLeadsToConn`; `StopReturns`; `DisconnectedHandlerEnds` |
| AuthSocket | 2 callers, 2 dials, 3 streams of packets, a header of 2 bytes and a buffer of 6, into which two packets fit | 109 828 | `OneReader`, `CallbacksInOrder`, `ReportedIsGone`: OnDisconnected comes last and when all is gone; `InOrder`: handlers get the packets that were sent; `Blame`: the loop ends only because of a packet that is out of range or too long for the buffer; `PacketsArrive`: none stays in the buffer for ever; `CallsReturn` |
| SessionKeys | 2 authIds, 4 sets | 77 882 | `Ascending`: the lists stay in the order of their indices; `DecryptsOwn`: an index leads to the key that SetSessionKey returned it for or to none, after removals, failed saves, a restart and a load |
| AuthSessions | A and C dial B with equal Seq; a1 may break | 153 787 | `OneStart`: however packets of several connections meet, a session starts one authentication; `ExchangeEnds`: no two devices exchange requests for ever |
| DmAuth | one device, a pairing device with two connections and 2 attempts, a second device that asks | 373 338 | `KeyAgreement`, `PinProved`: keys agree, and none is returned or answered under before the PIN was proved, whatever is confirmed; `GrantHolds`; `GrantedStays`: who was answered is a member of its group from then on; `PairingEnds` |
| Lifecycle | 2 Init, 1 Deinit, 1 accepted, 1 dialled | 734 666 | `LayersAgree`: the layers are up together or down together; `NeverReplaced`: a manager in use is not replaced |
| SoftBus | 1 frame, 2 publishers, 2 services, 2 slots, 2 ports | 90 565 | `UpTogether`: the modules above discovery are up together, and bus center and discovery tell the port in use; `CallsReturn`: every call returns, but for an AuthDeviceDeinit that hangs; `ReaderEnds` |
| CoapDiscovery | 2 devices, one with 2 interfaces, 4 addresses on 2 networks, NetworkName set or not, 1 broadcast, 2 events | 261 320 | `NoSelf`: no device whose addresses stay and whose interface is settled finds itself; `Quiet`: answers end; `Mutual`: one undisturbed broadcast makes two such devices known to each other |
| CoapExchange | options at the limits 0, 12, 13, 268, 269 and beyond; buffers of 15, 16, 32 and 1024 bytes; datagrams that end anywhere | 231 206 | `RoundTrip`, `InBounds`, `AnswerMatches`: an answer that is sent is the request's and whole, and one that does not fit is refused |
| LifecycleDeadlock | 1 Init, 1 Deinit, 1 dialled | | violates `CallsReturn`, see section 6 |

Deadlock is not checked (`CHECK_DEADLOCK FALSE`): each run has a finite number of
calls, connections and messages, and the system may stop when they are used up.
That calls do not wait for each other is what the properties `CallsReturn`,
`StopReturns`, `ReaderEnds`, `PacketsArrive`, `FailureIsTold` and `PairingEnds` say
instead.

### Bounds, and why they are enough

- *Processes.* Every race in AuthConn is between a connection and one other
  party: another dial for the pending request (BusCenter), a close, a disconnect or
  a stop for the tables (AuthTables). Two connections are needed for one to take
  what belongs to the other; a third adds no new pair. The invariants are proved
  for all sets anyway.
- *Fds* start at 10 and 20 (in the code 1000 and 2000), far apart
  for the runs. Where they meet is a matter of the assumption `RangesApart` of
  the proof; TcpServer's `FdsDoNotConflict` describes the case beyond.
- *SessionKeys*: four sets on two authIds allow a removal at either end and in the
  middle, and a load of an old list. `MaxSets <= MaxIndex` keeps the int32 from
  wrapping around: that takes 2^31 keys.
- *AuthSocket*: with two dials, a Connect and a Close come after a Close, and
  another caller in between. A header has 2 bytes and the buffer 6 (24 and 1536
  in the code), so that two packets of three bytes fill it exactly, with a third one
  behind them; one is legal and too long and one is empty. A read brings any number
  of bytes, so that one packet is dispatched from the middle of the buffer and half of
  the next one is moved to its front. The packet properties are proved for all sizes.
- *BusCenter*: two joins (`MaxJoins`), so that each connection may take the other's
  request, out of three openers: depending on which two make their call, the request
  ids are the same or different. A closer and a leaver take away what the results
  refer to; a session may report each result any number of times.
- *AuthSessions*: `MaxSeq = 1` makes the numbers of two devices collide at once,
  which is the interesting case; further numbers only keep sessions apart.
- *DmAuth*: the second attempt finds the instance and the late answers of the
  first one; its group is made anew with every request.
- *Lifecycle*: one more Init than Deinit, so that the service is up, taken down
  and taken up again while callbacks of the first manager are on their way.
- *SoftBus*: two module slots are full with two services; `MaxAnnounced` bounds how
  often service data is appended and `MaxMonitors` how many monitor goroutines
  are left behind by failed initialisations.
- *CoapDiscovery*: `IdLimit = 3` stands for 65536, and the count begins at 2, so that
  it wraps around with the first broadcast. One device has two interfaces and the
  other one shares a network with one of them; a fourth address is free. Of losses,
  duplicates, moves and changes of an announcement `MaxEvents` allow two per
  behaviour; `calm` and `moved` remember them.
- *CoapExchange*: the encoding depends on a number only through its place among
  the limits, and there is a value on each side of each of them. An answer without
  a token fills a buffer of 15 bytes exactly, and is refused; in one of 16 it fits, and
  an answer with a token does not; 32 and 1024 hold every answer.

### Fairness, and why the code justifies it

Each goroutine that can run does run: weak fairness on the steps of a process
once it is in a call. Go's mutexes prevent starvation, so that steps that wait for
a lock others take again and again have strong fairness (TcpClient, AuthSocket,
AuthLifecycle). What the environment does is not fair: nobody has to dial, call,
publish or send. A call of LeaveLNN that has begun goes on, and so do the goroutines
that run the callbacks of the frame (`BusFairness`). A blocked Read ends only when the
connection was closed on this side, or the peer does something, and bytes that have
arrived are read while it is open (`SocketFairness`); a dial ends with an answer or an
error. The network of CoapDiscovery may lose everything: `Quiet` needs only that a
packet nobody can receive disappears, and `Mutual` excludes losses by `calm`.

## 4. What is proved

The proofs hold for all values of the constants that satisfy the named assumptions
of the modules (`AuthConnAssumption` and so on): that the kinds of processes are
disjoint, request ids positive, the fd ranges in order, `None` no value of its own.

**BusCenterProofs**, first part (AuthConn): `TypeOK`, `TablesAgree`,
`ManagersMapped` and `ClientManagerConnected` are invariants. None is inductive.
`TablesAgree` alone does not know that the connection about to be inserted is new;
`ManagersMapped` does not know that an authId or a connId is not given out twice.
The invariant `IInv` adds `FdsUnique` (two goroutines never hold the same fd, and
all are below the counter), `RecordedOnce` (a connection on its way into the table
is not in it), `GivenOnce` (no manager or closer holds the connId of a connection
that has not been recorded), `LockKept` (who is about to report a result holds
manager.mu, and its connection is recorded), `LocalsSet` and `ClientManagerKept` (no
closer is about to remove the connection of a client manager). The proof has one
step per action, and the facts that most actions leave alone are lemmas.

`FinishedForgotten` and the refinement `TableSpec` rest on `TableInv`: every fd in
the table belongs to a goroutine (`RecordedHeld`), so that an fd that comes into it
comes from one that was on its way, and a goroutine past onAuthSocketDisconnected
left nothing behind (`LeftBehind`). Each step is then shown to record one
connection, to drop one, to retire one that was never recorded, or to stutter.

`MatchedHasManager` follows a request whose id no other open call has (`Alone`): of
joins of the same second the one that fails removes any manager with their request
id, so that the connection of the other may find none (`NoManager`). `RequestInv` says
that an authId is handed out once (`AuthIdsGiven`), that such a request has one manager
(`RequestsDistinct`) and is stored and taken once (`TakenOnce`), that only a manager
with its connection is in use by a session, a mapping or a goroutine
(`UsedConnected`), and that a request that is awaited has a manager without one
(`AwaitedHasManager`). A close finds its manager by a session and a disconnect by a
mapping, so neither takes one that is awaited; an open call takes its own only after
it dropped the request (`RequestsMade`).

Second part: `BusSpec => Spec`, so that all of the above holds below the bus center,
and `SuccessIsOwn`. `BusInv` follows the request id from the manager to the
goroutine whose connection took it, to the session and to the callback; at each of
them the authId is that of the open call of a join with this request id
(`OwnRequests`). Nothing is assumed of how many joins share an id, nor of how often a
session reports.

**AuthSocketProofs**, first part (TcpClient): `OneReader`, `CallbacksInOrder` and
`ReportedIsGone`, for any number of callers and dials. They rest on the fact that
stopChan is closed once in the life of a client: one caller at most is past that
point in Close (`OneCloser`), so that the connection it found is the current one
until it is reset, and the WaitGroup counts at most one reader (`ReaderCounts`).
`CloseNeverBlocks` is what safety can say of `CallsReturn`: while a Close waits for
that reader, c.mu is free and the connection the reader may be blocked on is closed
(`CloseUnblocks`). No new connection can have taken its place, since nobody dials
before Close has reset the client (`ClosedStaysClosed`).

Second part: `SocketSpec => Spec` of TcpClient, and `InOrder` and `Blame` for every
size of buffer and header, every stream and every cut into pieces. Bytes are named
by their places, so that `BufferInPlace` can say that the buffer holds the last
bytes read in their order and that the first byte not processed begins the first
packet not handled. The header found there is therefore that of the next packet, and
of no other.

**TcpServerProofs**: `StoppedClean`, and `FdLeadsToConn` as long as the range of
server fds has not run into the client range (`RangesApart`, stated in the theorem).
`WgCounts` is the heart: the WaitGroup counts exactly the goroutines that have not
ended, the accept loop among them, so that Wait returns when none is left;
`OpenRunning` and `MapOwned` say that whatever is open or registered belongs to one
of them, and `FdsAllocated` that fds are below the counter. `StopNeverBlocks` does
for `StopReturns` what `CloseNeverBlocks` does for `CallsReturn`: at wg.Wait the accept
loop is not blocked in Accept and no handler in a Read on an open connection
(`StopUnblocks`, while `RangesApart`). `StopProgress` is the invariant behind it: from
the snapshot on, every open connection that is read is one whose fd is still to be
looked at, because a handler that was not registered in time sees stopChan closed
before its first Read.

**SessionKeysProofs**: `Ascending` and `DecryptsOwn`. For the first, each index is
bounded by the number of calls of SetSessionKey, in memory and in the store, because
a load may replace the one by the other (`IInv`). For the second, the index of a new
key must be new: `KeyInv` says that lists hold only what SetSessionKey has made
(`MadeHere`) and that, of an authId that has not lapsed, the latest key is the last
one in memory, and in a store that has missed nothing (`LatestKept`).

**CoapProofs**, on the codec: `MessageRoundTrip`, and with it `RoundTrip` and
`AnswerMatches`, for every message, every number and order of options and every size
of the buffer up to what the format can express (`ExchangeAssumption`; the code's is
1024). `OptionRoundTrip` is the heart. For each number, each predecessor (in any
order: the delta wraps around) and each value, the bytes the encoder writes are
decoded to that number and value wherever in a datagram they stand, and the decoder
does not take them for the payload marker. The lemmas follow the format: nibble and
extension of a 16 bit number, the first byte, then the option as a concatenation of
four parts.

From one option to all of them leads an induction along the loop (`LoopFollows`):
when it has read k options it is behind the bytes of the first k, with these options
and the number of the last one (`After`). It stays where no option is left
(`LoopStays`), and one option more than COAP_MAX_OPTION ends it with an error
(`ParseInverts`). The induction theorems of the library take an operator as a
parameter, which the provers here cannot instantiate. `Induction` takes a set
instead, and is proved from the well-foundedness of the natural numbers; with it
`IterationExists` shows that a function that is defined turn by turn exists, without
which nothing would be known of the recursive functions of CoapCodec.

For bytes that nobody here has encoded: DecodeOption reads none behind the end, and
an option that it finds begins where the last one ended and ends in the datagram
(`OptionInBounds`); so `Decode` gives an error or a message with at most eight token
bytes and sixteen options (`DecodeInBounds`), and `InBounds` follows. `LoopEnds`
justifies the form of the model: the code loops until the end of the datagram, the
model for `Turns` turns, after which no datagram has an option left.

`ExchangeInv` carries this through an exchange: what is on the wire before each step
(`OnTheWire`), what has been decoded by then (`InTurn`), and that the answer is the
whole message that was built (`AnswerWhole`), of which `AnswerMatches` names a part.

On the discovery: `NoSelf` and the types, with the wrap-around of the message id
that skips zero. The filter compares addresses, whereas `NoSelf` speaks of the
device in the announcement. What connects the two is said of each device whose own
addresses have not changed, however the others move: nobody else has one of its
addresses, or announces one (`KeepsHome`), so that its answers go to others; and if
GetLocalNetworkInfo has but one interface to give (`Settled`), its broadcasts come
from the address it looks for (`Unseen`).

**SoftBusServerProofs**: `UpTogether`. It says nothing while a call into the frame
runs, so `FrameInv` says which modules are up before each step of the two calls
(`Stage`); the caller that holds gMutex is the only one inside (`FrameAlone`), and
neither publishers nor the read loop change what `Stage` speaks of.

**AuthLifecycleProofs**: `LayersAgree` and `NeverReplaced`. Inside the two calls the
layers do differ, and deinitInternal gives service.mu up before it goes on.
`LifecycleInv` says that a caller between lock and unlock is the one that holds
service.mu (`LockHeld`), and for each point there which layers are up (`StageOf`),
with nothing assumed of what happened while the lock was given up: who takes it
again finds the layers as another call left them. Connections change none of the
four. `NeverReplaced` follows, since no manager is current before AuthConnInit
(`connInit`).

**DmAuthProofs**, first part (AuthSession): `OneStart`, for any number of devices,
connections and packets that name the same session. Most of the work is in
`ServiceInv`: what a handler has in hand at each point of ProcessData is its own
device's and of the right type (`InHand`), instances are filed under the key they
were made for (`Filed`), sessions are numbered below the counter (`Numbered`). It is
shown for each step of the service once, whoever the caller is, so that DmAuth uses
the same lemmas. `StartInv` adds that who is about to send AUTH_START is alone
(`Starting`): the session was waiting for its first packet when the handler came,
and no longer is.

Second part (DmAuth): `DmInv` says where things come from. Each handler works for
its own connection under its own fd (`OwnWork`); a key on the wire, in an instance
or in a device was derived from nonces of these two (`KeysKnown`); an answer, a
request id and a context were made for the connection that holds them
(`GrantsKnown`), and remain while the connection is open. `PairInv` adds that an
instance that completed, be it on the other side's word, changes no more (`Frozen`),
and that an ExchangeResponse on the wire has a completed instance behind it with its
key, which the device derived with the right PIN. Of the results,

- `KeysAlwaysProved` needs no hypothesis: a key that is returned to the caller was
  derived by the device at the other end with the right PIN.
- `GrantedAlwaysStays` supposes `GroupsDistinct`: no two devices that ask at one
  host have group ids that agree (section 6).
- `PinAlwaysProved`, `KeysAlwaysAgree` and `GrantAlwaysHolds` suppose `[]IdsApart`:
  no session has the fd of an AUTH_MSG connection of its device as its id. Both are
  counted from the same start (`utils/tcp_connection/types.go:10`,
  `authentication/auth_manager.go:20`), and instances, contexts and request ids are
  found by either, so that the hypothesis is one about how the device is used.
  `IdsStayApart` gives a condition on constants alone: the hypothesis holds in all
  behaviours if no device has connections of both kinds, with HarmonyOS devices and
  with devices that run dsoftbus-go, or if the fds of the former do not lie past
  InitialSeq (`NeverMeet`). This is how the run DmAuth uses the module.

From `KeysAlwaysAgree` it cannot be dropped: section 6 has a behaviour in which a
session finds the instance of a pairing by its number and overwrites the key of an
exchange that has completed.

Only model-checked, and why:

- Liveness (`CallsReturn`, `StopReturns`, `DisconnectedHandlerEnds`,
  `FailureIsTold`, `PacketsArrive`, `ExchangeEnds`, `PairingEnds`, `ReaderEnds`,
  `Quiet`, `Mutual`): it rests on fairness, and so on ENABLED, about which TLAPS
  proves nothing. For Close and StopBaseListener it is proved that what they wait
  for is not itself waiting (`CloseNeverBlocks`, `StopNeverBlocks`).

Every other property of the passing runs is proved for all instances, under the
hypotheses named above.

## 5. What is abstracted, and what is not modelled

- A message is what the receiver tells apart: type, Seq, nonce, proof. JSON is not
  modelled; of an announcement, only the device, its address, its information,
  whether it can be read and whether an answer is wanted.
- Cryptography is perfect: a proof verifies exactly with the key it was made with,
  and keys are equal when made from the same nonces and PIN.
- The device id exchange of a session is begun by a message that no code here sends;
  AUTH_RESPONSE is always refused.
- The frame's calls of InitDeviceAuthService and DestroyDeviceAuthService
  (`frame/softbus_server.go:129` and `:90`), which make and drop the instance table, are
  not modelled.
- The conversion of a token's length to uint8 (`discovery/coap/coap_adapter.go:213`)
  is taken as the identity: no caller has a token of more than eight bytes.
- The encrypted data path of AuthManager and AUTH_CHANNEL of transmission keep no
  state beyond the keys.
- The session manager of transmission (`trans_session_manager.go`) is a map under
  one lock whose receiving half nothing calls. OpenSession takes an authId for the
  id of a channel (line 99), so that what it sends goes to whatever connection has
  that number; OnShutdown runs on a goroutine of its own.
- The event callbacks of the bus center, which only print, are left out.
- `authentication/auth_tcp_connection.go:341` creates the connection manager of the
  sockets at its first use and without a lock; the models begin when it is there.
- RemoveNode, CancelRequest, CloseAll and other operations without a caller under
  `src/` but tests are left out.
- Logging, configuration, JSON packing and the menus of the tools have no control
  worth a model.

## 6. Where the code departs from what it says

The run LifecycleDeadlock shows one: AuthConnDeinit, entered with service.mu held,
waits for manager.mu, and onAuthSocketConnected of a dialled connection, with
manager.mu held, waits for service.mu in its callback. The comment at
`authentication/auth_connection.go:102` says that connections are collected first so
as to avoid a deadlock; the deadlock is in the collecting.

Others are stated in the modules, under the heading of what documents and comments
say. TLC finds each violated when it is named as the INVARIANT or PROPERTY of a run
of the module, on the instance of that run or on one with fewer or other processes
(`AuthNotified` with one pair of handlers, `UniqueRequestId` with a dialling handler
next to the pairing device, `FdsDoNotConflict` with a server range of one fd):

| Module | Definition | Said at | What happens |
|---|---|---|---|
| AuthConn | `ResultForOwnConnection` | `auth_manager.go:230` | a connection takes the earliest request, not its own |
| AuthConn | `CloseRemovesMapping` | `auth_manager.go:310` | a packet that was being delivered maps the connection anew |
| BusCenter | `OnlineUntilLeft` | | the frame leaves the NetworkID of a node empty, so that the ledger has one place; LeaveLNN marks whichever node is there when it looks again |
| TcpServer | `FdsDoNotConflict` | `utils/tcp_connection/README.md:8` | after enough connections the server range runs into the client range |
| TcpClient | `NoPanic` | `utils/tcp_connection/README.md:573` | two calls of Close close stopChan twice |
| TcpClient | `CloseReports` | README.md:575 | a Close that finds stopChan closed does nothing |
| TcpClient | `LossReported` | README.md:495 | a reader that finds its connection closed tells nobody |
| AuthSocket | `LegalIsKept` | `authentication/types.go:16` | a packet of up to 64 KB is legal, but one that does not fit into the buffer of 1536 bytes ends the loop |
| AuthSocket | `CallbackCurrent` | `auth_tcp_connection.go:118` | a SocketCallback that was fetched is called after it was unset |
| SessionKeys | `IndexNamesOneKey` | `session_key_manager.go:70` | after the last key was removed its index is used again |
| AuthSession | `AuthNotified` | `device_auth/hichain/README.md:216` | both sides are PAKE servers; the error is told to nobody |
| AuthSession | `OwnSession` | | packets with equal Seq meet in one session |
| DmAuth | `AuthedAfterAuth` | `trans_auth_manager.go:306` | the device is a group member before PAKE ends |
| DmAuth | `SuccessHasKey` | `device_auth/hichain/protocol.go:405` | an AUTH_CONFIRM completes an instance and reports success, at any point and without a key |
| DmAuth | `UniqueRequestId` | `trans_auth_manager.go:278` | the request id is an fd, and authentication sessions put their numbers into the same map |
| AuthLifecycle | `NoManagersLeft`, `AllDisconnected` | `auth_manager.go:187`, `auth_connection.go:102` | a connection enters between the snapshot and the end |
| SoftBusServer | `DiscoveryListens` | `discovery/service/README.md:60` | an initialisation that failed has used up the one start of the listener; a later one succeeds and does not listen |
| SoftBusServer | `RolledBack` | `frame/README.md:174`, `:176` | after a failed discovery the network monitor goes on |
| SoftBusServer | `AnnouncedOnce` | | data of a service is appended with each publication, and never taken out |
| SoftBusServer | `NoPanic` | | after the last service was withdrawn, the next PublishService indexes a nil slice |
| CoapDiscovery | `NeverSelf` | `discovery/coap/coap_discover.go:112` | GetDefaultInterface (`utils/network/manager.go:221`) takes any interface: a device with several and no NetworkName may look for one address and have sent from another, and reports itself though nothing has moved |

Others came up without a sentence in the code to hold against them. A join may be
called back more than once: with the failure of its own call and with the result of a
connection that took its request, and with each of the results that a session
reports. Joins of the same second share a request id (`bus_center/bus_center.go:181`):
each is called back with the results of the other, which is why `SuccessIsOwn` speaks
of joins of one second, and the one that fails may remove the manager the connection
of the other needs, which is why `MatchedHasManager` leaves them out. A device whose
name has no character of ASCII is refused by everybody, since CleanJSONData empties
its name (`discovery/coap/json_payload.go:96`). CreateGroup replaces a group that
exists, so that of two devices whose ids share their first 16 characters the second
one to ask throws the first one out; `GrantedStays` is checked with groups of their
own (`GroupOf`), and its theorem supposes them.

One more came up in the proof of `KeyAgreement`, whose first attempt failed for a good
reason. Let B have an AUTH_MSG connection whose fd is the number of one of B's
sessions, which is possible because both are counted from 1000 on. The session's
handler, about to process a PakeResponse, looks an instance up under its number and
finds the one of the pairing; the pairing completes and its key is returned; then
the handler goes on (`receive`, with the instance of its lookup), derives a key from
the PakeResponse and stores it in the completed instance. `KeyAgreement` is violated
(TLC finds it with `InitialSeq = 1`, a dialling device next to the pairing one, and no
third); `KeysProved` is not, since the caller has the right key already. `IdsApart`
excludes it.

## 7. Plan

Written first, because the most important behaviour comes first: AuthConn with
ConnLifecycle and its proofs; the layers below it (TcpServer, TcpClient); the
keys; HiChain with AuthSession and DmAuth; the lifecycles (AuthLifecycle,
SoftBusServer); discovery (CoapDiscovery, CoapCodec, CoapExchange). After that the
packets on a connection (AuthSocket), the bus center (BusCenter), groups and a
third connection in DmAuth, and the proofs of the refinements, of the table and
request invariants, of the client, of the packets and of the daemon; then those of
the lifecycle, of sessions and pairing, and of discovery and its codec. Still open:

1. An abstract specification of discovery (who is within reach is eventually
   known), implemented by CoapDiscovery; the listener's stop (TcpServer) as an
   implementation of what AuthConn takes as one action.
2. The session manager, once something calls its receiving half.
3. The encrypted data path, once the lists of SessionKeys are used under it.
