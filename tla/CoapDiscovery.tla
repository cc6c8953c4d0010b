--------------------------- MODULE CoapDiscovery ---------------------------
(***************************************************************************)
(* How devices find each other (coap_discover.go, json_payload.go and the  *)
(* providers that coap_service.go registers): a device broadcasts its      *)
(* announcement, each device that hears it reports the sender and answers  *)
(* with an announcement of its own, over UDP, which loses, duplicates and  *)
(* reorders.                                                               *)
(*                                                                         *)
(* A device recognises what it has sent itself by its own address.  It     *)
(* asks network/manager.go for it each time: the answer comes from the     *)
(* last scan, while packets leave from the address of the moment, and      *)
(* without the configured interface it may be that of any other.           *)
(***************************************************************************)
EXTENDS Naturals, FiniteSets

CONSTANTS
    Devices,
    Links,          \* the networks; an interface is named after its network
    Addresses,
    LinkOf,         \* address -> the network it belongs to
    Names,          \* what NetworkName may be: an interface, or None
    Home,           \* device -> network -> its address there at first, or None
    Infos,          \* what a device may tell of itself
    TooBig,         \* the infos of which a packet exceeds COAP_MAX_PDU_SIZE
    Unreadable,     \* the infos that ParseServiceDiscover refuses: without a
                    \* character of ASCII, nothing is left of the device's name
    IdLimit,        \* message ids are counted modulo IdLimit; 2^16 in the code
    FirstIds,       \* where g_msgId may be after all that was sent before
    MaxDiscovers,   \* bound on the broadcasts of all devices
    MaxEvents,      \* bound on the packets lost and duplicated and the changes
                    \* of addresses and infos, together
    None

ASSUME CoapAssumption ==
    /\ LinkOf \in [Addresses -> Links]
    /\ Home \in [Devices -> [Links -> Addresses \cup {None}]]
    /\ \A d \in Devices : \A i \in Links : Home[d][i] # None =>
         /\ LinkOf[Home[d][i]] = i
         /\ \A e \in Devices : Home[e][i] = Home[d][i] => d = e
    /\ Names \subseteq Links \cup {None}
    /\ TooBig \cup Unreadable \subseteq Infos
    /\ IdLimit \in Nat /\ IdLimit > 1 /\ FirstIds \subseteq 0 .. IdLimit - 1
    /\ None \notin Devices \cup Links \cup Addresses \cup Infos
    /\ Devices \cap Addresses = {}

VARIABLES
    addr,         \* device -> network -> its address there now, or None
    scanned,      \* device -> network -> its address in Manager.interfaces, or None
    named,        \* device -> the interface that NetworkName names, or None
    info,         \* device -> the rest of g_deviceInfo
    msgId,        \* device -> g_msgId
    reader,       \* device -> the packet coapReadLoop is answering, or None
    answering,    \* device -> whether it has reported the packet
    devices,      \* device -> device -> its last report to the callback
    net,          \* the packets under way
    discovers,    \* broadcasts so far
    events,       \* what else has happened
    moved,        \* the devices of which an address has changed
    calm          \* nothing was lost, moved, too big or unreadable so far

localVars == <<named, info, msgId, answering>>
history == <<discovers, events, moved, calm>>
vars == <<addr, scanned, localVars, reader, devices, net, history>>

Announcements == [device : Devices, info : Infos, ip : Addresses, uri : BOOLEAN]

\* A broadcast is one packet for each device; any other goes to an address.
Packets == [src : Addresses, to : Devices \cup Addresses,
            msgId : 0 .. IdLimit - 1, body : Announcements]

\* Something happens that need not happen.
Event == events < MaxEvents /\ events' = events + 1

Init ==
    /\ addr = Home /\ scanned = Home
    /\ named \in [Devices -> Names]
    /\ info \in [Devices -> Infos \ TooBig]
    /\ msgId \in [Devices -> FirstIds]
    /\ reader = [d \in Devices |-> None]
    /\ answering = [d \in Devices |-> FALSE]
    /\ devices = [d \in Devices |-> [e \in Devices |-> None]]
    /\ net = {}
    /\ discovers = 0 /\ events = 0 /\ moved = {}
    /\ calm = TRUE

\* COAP_SoftBusMsgId; zero is skipped.
NextMsgId(id) == IF id + 1 = IdLimit THEN 1 ELSE id + 1

\* GetLocalNetworkInfo: the interface it takes, None for an error.  The one
\* that NetworkName names comes first.  If it is not there GetDefaultInterface
\* takes the first of a map that has an address, which may be any of them; if
\* it is there without an address, it fails.
LocalNetworks(d) ==
    LET with == {i \in Links : scanned[d][i] # None}
    IN  CASE with = {}           -> {None}
          [] named[d] \in with   -> {named[d]}
          [] named[d] = None     -> with
          [] OTHER               -> with \cup {None}

\* An announcement with the address of interface i.  Mutant: the answer asks
\* for an answer.
PrepareWithUri(d, i, isBroadcast) ==
    [device |-> d, info |-> info[d], ip |-> scanned[d][i], uri |-> TRUE]
\* A broadcast says where to answer, an answer does not.
PrepareServiceDiscover(d, i, isBroadcast) ==
    [device |-> d, info |-> info[d], ip |-> scanned[d][i], uri |-> isBroadcast]

-----------------------------------------------------------------------------
(* The network and the host                                                *)

Lose ==
    /\ \E p \in net : net' = net \ {p}
    /\ Event
    /\ calm' = FALSE
    /\ UNCHANGED <<discovers, moved, addr, scanned, localVars, reader, devices>>

\* An interface goes down or gets an address that nobody has.
Move(d) ==
    /\ \E i \in Links : \E a \in Addresses \cup {None} :
         /\ a # addr[d][i]
         /\ a # None => LinkOf[a] = i /\ \A e \in Devices : addr[e][i] # a
         /\ addr' = [addr EXCEPT ![d][i] = a]
    /\ Event
    /\ moved' = moved \cup {d} /\ calm' = FALSE
    /\ UNCHANGED <<discovers, scanned, localVars, reader, devices, net>>

\* monitorLoop looks at the interfaces from time to time.
ScanInterfaces(d) ==
    /\ scanned[d] # addr[d]
    /\ scanned' = [scanned EXCEPT ![d] = addr[d]]
    /\ UNCHANGED <<addr, localVars, reader, devices, net, history>>

\* A service is published or withdrawn, or the port changes.
UpdateInfo(d) ==
    /\ \E i \in Infos \ {info[d]} :
         /\ info' = [info EXCEPT ![d] = i]
         /\ calm' = (calm /\ i \notin TooBig \cup Unreadable)
    /\ Event
    /\ UNCHANGED <<discovers, moved, addr, scanned, named, msgId, answering, reader, devices, net>>

-----------------------------------------------------------------------------
(* DiscoverDevices of the command line and BuildDiscoverPacket             *)

\* DiscoverDevices broadcasts where GetLocalNetworkInfo says; the packet tells
\* what a second call says, and is numbered whether or not it can be encoded
\* and sent.
DiscoverDevices(d) ==
    /\ discovers < MaxDiscovers
    /\ discovers' = discovers + 1
    /\ \E out \in LocalNetworks(d) \ {None} : \E said \in LocalNetworks(d) :
         /\ msgId' = IF said = None THEN msgId ELSE [msgId EXCEPT ![d] = NextMsgId(@)]
         /\ net' = IF said = None \/ info[d] \in TooBig \/ addr[d][out] = None THEN net
                   ELSE net \cup {[src |-> addr[d][out], to |-> e, msgId |-> msgId'[d],
                                   body |-> PrepareServiceDiscover(d, said, TRUE)]
                                   : e \in {e \in Devices : addr[e][out] # None}}
    /\ UNCHANGED <<addr, scanned, named, info, answering, reader, devices, events, moved, calm>>

-----------------------------------------------------------------------------
(* coapReadLoop                                                            *)

\* Mutant: nothing is filtered.
AnyPacket(d, i, p) == FALSE
\* What comes from the address that GetLocalNetworkInfo gives is the device's
\* own.
OwnPacket(d, i, p) == i # None /\ p.src = scanned[d][i]

\* handleReadEvent: a packet is received, perhaps again later.
Receive(d) ==
    /\ reader[d] = None
    /\ \E p \in net : \E i \in LocalNetworks(d) :
         /\ p.to = d \/ \E j \in Links : p.to = addr[d][j]
         /\ \/ net' = net \ {p} /\ UNCHANGED events
            \/ Event /\ UNCHANGED net
         /\ reader' = [reader EXCEPT ![d] = IF OwnPacket(d, i, p) THEN None ELSE p]
    /\ UNCHANGED <<addr, scanned, localVars, devices, discovers, moved, calm>>

\* Mutant: who gave no coapUri is not even reported.
PostIfAsked(d) ==
    /\ reader[d] # None
    /\ ~answering[d]
    /\ LET body == reader[d].body IN
         IF body.uri /\ body.info \notin Unreadable
         THEN /\ devices' = [devices EXCEPT ![d][body.device] = [ip |-> body.ip, info |-> body.info]]
              /\ answering' = [answering EXCEPT ![d] = TRUE]
              /\ UNCHANGED reader
         ELSE /\ reader' = [reader EXCEPT ![d] = None]
              /\ UNCHANGED <<devices, answering>>
    /\ UNCHANGED <<addr, scanned, named, info, msgId, net, history>>

\* ParseServiceDiscover fails: the packet is dropped.
RefuseServiceDiscover(d) ==
    /\ reader[d] # None
    /\ ~answering[d]
    /\ reader[d].body.info \in Unreadable
    /\ reader' = [reader EXCEPT ![d] = None]
    /\ UNCHANGED <<addr, scanned, localVars, devices, net, history>>

\* postServiceDiscover reports the sender; who gave no coapUri gets no answer.
PostServiceDiscover(d) ==
    /\ reader[d] # None
    /\ ~answering[d]
    /\ reader[d].body.info \notin Unreadable
    /\ LET body == reader[d].body IN
         /\ devices' = [devices EXCEPT ![d][body.device] = [ip |-> body.ip, info |-> body.info]]
         /\ IF body.uri
            THEN answering' = [answering EXCEPT ![d] = TRUE] /\ UNCHANGED reader
            ELSE reader' = [reader EXCEPT ![d] = None] /\ UNCHANGED answering
    /\ UNCHANGED <<addr, scanned, named, info, msgId, net, history>>

\* The interfaces by which a packet to an address may leave.
Routes(d, a) ==
    IF addr[d][LinkOf[a]] # None THEN {LinkOf[a]} ELSE {i \in Links : addr[d][i] # None}

\* coapResponseService: with the id of the request, to the address that its
\* announcement gives; no answer if there is no address, no route or it is too
\* big.
CoapResponseService(d) ==
    /\ answering[d]
    /\ LET request == reader[d]
           a == request.body.ip
       IN  \E said \in LocalNetworks(d) :
             \/ /\ said = None \/ info[d] \in TooBig \/ Routes(d, a) = {}
                /\ UNCHANGED net
             \/ /\ said # None /\ info[d] \notin TooBig
                /\ \E i \in Routes(d, a) :
                     net' = net \cup {[src |-> addr[d][i], to |-> a, msgId |-> request.msgId,
                                       body |-> PrepareServiceDiscover(d, said, FALSE)]}
    /\ reader' = [reader EXCEPT ![d] = None]
    /\ answering' = [answering EXCEPT ![d] = FALSE]
    /\ UNCHANGED <<addr, scanned, named, info, msgId, devices, history>>

\* Nobody has the address, or there is no way to its network: the packet
\* vanishes.
Undeliverable ==
    /\ \E p \in net :
         /\ p.to \in Addresses
         /\ \/ \A d \in Devices : addr[d][LinkOf[p.to]] # p.to
            \/ LinkOf[p.src] # LinkOf[p.to]
         /\ net' = net \ {p}
    /\ UNCHANGED <<addr, scanned, localVars, reader, devices, history>>

-----------------------------------------------------------------------------
ReaderStep(d) ==
    \/ Receive(d)
    \/ RefuseServiceDiscover(d)
    \/ PostServiceDiscover(d)
    \/ CoapResponseService(d)

Next ==
    \/ Lose
    \/ Undeliverable
    \/ \E d \in Devices :
         \/ Move(d)
         \/ ScanInterfaces(d)
         \/ UpdateInfo(d)
         \/ DiscoverDevices(d)
         \/ ReaderStep(d)

Spec == Init /\ [][Next]_vars

\* The listener goes on; a packet that is not lost arrives, or finds
\* that nobody has its address.  Nothing has to be lost, moved or sent.
Fairness ==
    /\ WF_vars(Undeliverable)
    /\ \A d \in Devices : WF_vars(ReaderStep(d))

FairSpec == Spec /\ Fairness

-----------------------------------------------------------------------------
\* The tables have the types of the code, and no packet has the id zero.
TypeOK ==
    /\ {addr, scanned} \subseteq [Devices -> [Links -> Addresses \cup {None}]]
    /\ named \in [Devices -> Names]
    /\ moved \subseteq Devices
    /\ info \in [Devices -> Infos]
    /\ msgId \in [Devices -> 0 .. IdLimit - 1]
    /\ answering \in [Devices -> BOOLEAN]
    /\ reader \in [Devices -> Packets \cup {None}]
    /\ devices \in [Devices -> [Devices -> [ip : Addresses, info : Infos] \cup {None}]]
    /\ net \subseteq Packets
    /\ \A p \in net : p.msgId # 0

\* GetLocalNetworkInfo has but one interface to give: the configured one is
\* there, or there is only one.
Settled(d) == \E i \in Links : LocalNetworks(d) = {i}

\* A device whose addresses stay the same and whose choice among them is
\* settled does not report itself, however the others move.
NoSelf == \A d \in Devices \ moved : Settled(d) => devices[d][d] = None

\* What the filter of handleReadEvent is meant to give, and does not to a device
\* of several interfaces whose NetworkName names none: it may report itself
\* though nothing has moved.
NeverSelf == \A d \in Devices \ moved : devices[d][d] = None

\* The answers come to an end: no device answers an answer.
Quiet == []<>(net = {} /\ \A d \in Devices : reader[d] = None)

\* One broadcast suffices for two devices to know each other, if nothing is
\* lost, no address changes, both know their interface, and both announcements
\* fit into a packet and can be read.
Knows(d, e) == devices[d][e] # None
Calls(d, e) ==
    /\ d # e /\ Settled(d) /\ Settled(e) /\ info[e] \notin Unreadable
    /\ \E p \in net : p.to = e /\ p.body.device = d /\ p.body.uri
                       /\ p.body.info \notin Unreadable
Mutual ==
    \A d, e \in Devices : Calls(d, e) ~> (Knows(e, d) /\ Knows(d, e)) \/ ~calm

-----------------------------------------------------------------------------
(* The inductive invariant behind NoSelf: a device that has not moved keeps *)
(* its addresses to itself, and what it has sent either carries the one it  *)
(* looks for or goes to somebody else.                                      *)

PacketsHeld == {reader[d] : d \in Devices} \ {None}

\* One of the addresses that d had at first.
AtHome(d, a) == a # None /\ \E i \in Links : a = Home[d][i]

KeepsHome(d) ==
    /\ addr[d] = Home[d] /\ scanned[d] = Home[d]
    /\ \A e \in Devices \ {d} : \A i \in Links :
         ~AtHome(d, addr[e][i]) /\ ~AtHome(d, scanned[e][i])
    /\ \A p \in net \cup PacketsHeld : p.body.device # d => ~AtHome(d, p.body.ip)

Unseen(d) ==
    /\ \A p \in net : p.body.device = d =>
         \/ p.to \in Devices /\ \A i \in LocalNetworks(d) : OwnPacket(d, i, p)
         \/ p.to \in Addresses /\ ~AtHome(d, p.to)
    /\ reader[d] # None => reader[d].body.device # d
    /\ devices[d][d] = None

DiscoveryInv ==
    /\ TypeOK
    /\ \A d \in Devices : answering[d] => reader[d] # None
    /\ \A p \in PacketsHeld : p.msgId # 0
    /\ \A d \in Devices \ moved : KeepsHome(d) /\ (Settled(d) => Unseen(d))
=============================================================================
