--------------------------- MODULE SoftBusServer ---------------------------
(***************************************************************************)
(* The life of the daemon: InitSoftBusServer and DeinitSoftBusServer of    *)
(* frame/softbus_server.go, which take the modules up in order and down    *)
(* again, next to services that are published and withdrawn through        *)
(* discovery_service.go and to the CoAP listener of coap_discover.go.      *)
(*                                                                         *)
(* InitSoftBusServer runs with gMutex held, PublishService and             *)
(* UnPublishService with g_discoveryMutex.  DiscCoapDeinit is called under *)
(* the one or the other and takes neither itself; it may wait for the      *)
(* listener.                                                               *)
(***************************************************************************)
EXTENDS Naturals, FiniteSets, FiniteSetsExt, Functions

CONSTANTS
    Frames,         \* callers of InitSoftBusServer and DeinitSoftBusServer
    Publishers,     \* callers of PublishService and UnPublishService
    Services,       \* what may be published: a module name and publish id
    BitsOf,         \* service -> the bits of the number of its capability
    Modules,        \* slots of g_publishModule, 1 .. MAX_MODULE_COUNT
    Ports,          \* ports the listener may be given
    MaxAnnounced,   \* bound on how often one service's data is repeated
    MaxMonitors,    \* bound on the network monitors that may leak
    None

ASSUME SoftBusAssumption ==
    /\ Frames \cap Publishers = {}
    /\ IsFiniteSet(Modules)
    /\ MaxAnnounced \in Nat /\ MaxMonitors \in Nat
    /\ None \notin Frames \cup Publishers \cup Services \cup Ports

VARIABLES
    gMutex,           \* who holds gMutex
    gIsInit,
    started,          \* BusCenter.started
    authUp,           \* the authentication manager and device_auth
    port,             \* the port of g_socketServer or None
    listeners,        \* modules with a channel listener
    busPort,          \* AuthPort of BusCenter.localDevInfo
    discoveryMutex,   \* who holds g_discoveryMutex
    isServiceInit,    \* g_isServiceInit
    publishModule,    \* g_publishModule: None or slot -> service or None
    announcedPort,    \* of g_deviceInfo.ServiceData, the port ...
    announced,        \* ... and how often it holds each service's data
    capability,       \* the bits of g_deviceInfo.CapabilityBitmap
    netMgr,           \* g_net_mgr: None, "running" or "stopped"
    monitors,         \* monitor loops that nobody has stopped
    initOnce,         \* whether onceInit has run
    socket,           \* gServerSocket: None, "open" or "closed"
    terminalFlag,     \* gTerminalFlag
    reader,           \* where coapReadLoop is
    crashed,          \* PublishService has panicked
    pc

frameVars     == <<gMutex, gIsInit>>
upperVars     == <<started, authUp, port, listeners, busPort>>
publishVars   == <<discoveryMutex, isServiceInit, publishModule>>
deviceVars    == <<announcedPort, announced, capability>>
netVars       == <<netMgr, monitors>>
coapVars      == <<initOnce, socket, terminalFlag, reader>>
discoveryVars == <<publishVars, deviceVars, netVars, coapVars>>
vars          == <<frameVars, upperVars, discoveryVars, crashed, pc>>

Procs == Frames \cup Publishers

AllListeners == {"AuthChannel", "AuthMsg", "AuthSdk"}
NothingAnnounced == [s \in Services |-> 0]

Init ==
    /\ gMutex = None /\ gIsInit = FALSE
    /\ started = FALSE /\ authUp = FALSE /\ port = None
    /\ listeners = {} /\ busPort = None
    /\ discoveryMutex = None /\ isServiceInit = FALSE /\ publishModule = None
    /\ announcedPort = None /\ announced = NothingAnnounced /\ capability = {0}
    /\ netMgr = None /\ monitors = 0
    /\ initOnce = FALSE /\ socket = None /\ terminalFlag = FALSE /\ reader = "none"
    /\ crashed = FALSE
    /\ pc = [p \in Procs |-> "idle"]

\* After a panic nobody takes a step.
Goto(p, label) == ~crashed /\ pc' = [pc EXCEPT ![p] = label]

Published == IF publishModule = None THEN {}
             ELSE Range(publishModule) \ {None}

-----------------------------------------------------------------------------
(* InitSoftBusServer                                                       *)

InitSoftBusServer(f) ==
    /\ pc[f] = "idle"
    /\ gMutex = None
    /\ ~gIsInit
    /\ monitors < MaxMonitors
    /\ gMutex' = f
    /\ Goto(f, "disc")
    /\ UNCHANGED <<gIsInit, upperVars, discoveryVars, crashed>>

Return(f) ==
    /\ pc[f] = "return"
    /\ gMutex' = None
    /\ Goto(f, "idle")
    /\ UNCHANGED <<gIsInit, upperVars, discoveryVars, crashed>>

\* InitService refuses as long as g_isServiceInit is set.
InitServiceRefused(f) ==
    /\ pc[f] = "disc"
    /\ discoveryMutex = None
    /\ isServiceInit
    /\ Goto(f, "return")
    /\ UNCHANGED <<frameVars, upperVars, discoveryVars, crashed>>

\* DiscCoapInit makes a new network manager in any case and starts the
\* listener the first time it is called; "bound" is whether that succeeds.
DiscCoapInit(bound) ==
    /\ netMgr' = "running"
    /\ monitors' = monitors + 1
    /\ initOnce' = TRUE
    /\ IF ~initOnce /\ bound
       THEN socket' = "open" /\ terminalFlag' = TRUE /\ reader' = "looping"
       ELSE UNCHANGED <<socket, terminalFlag, reader>>

BeginService(f) ==
    /\ pc[f] = "disc"
    /\ discoveryMutex = None
    /\ ~isServiceInit
    /\ publishModule' = [i \in Modules |-> None]

\* The port is taken, or the configuration is incomplete: an error, and
\* nothing is undone.
InitServiceFails(f) ==
    /\ BeginService(f)
    /\ \E bound \in BOOLEAN : DiscCoapInit(bound)
    /\ Goto(f, "return")
    /\ UNCHANGED <<frameVars, upperVars, discoveryMutex, isServiceInit, deviceVars, crashed>>

InitService(f) ==
    /\ BeginService(f)
    /\ DiscCoapInit(TRUE)
    /\ announcedPort' = None
    /\ announced' = NothingAnnounced
    /\ capability' = {}
    /\ isServiceInit' = TRUE
    /\ Goto(f, "bus")
    /\ UNCHANGED <<frameVars, upperVars, discoveryMutex, crashed>>

BusCenterServerInit(f) ==
    /\ pc[f] = "bus"
    /\ ~started
    /\ started' = TRUE
    /\ busPort' = None
    /\ Goto(f, "auth")
    /\ UNCHANGED <<frameVars, authUp, port, listeners, discoveryVars, crashed>>

AuthInit(f) ==
    /\ pc[f] = "auth"
    /\ authUp' = TRUE
    /\ Goto(f, "listen")
    /\ UNCHANGED <<frameVars, started, port, listeners, busPort, discoveryVars, crashed>>

\* StartSocketListening; no port is to be had, and the modules go down.
ListenFails(f) ==
    /\ pc[f] = "listen"
    /\ Goto(f, "transDown")
    /\ UNCHANGED <<frameVars, upperVars, discoveryVars, crashed>>

Listen(f) ==
    /\ pc[f] = "listen"
    /\ port = None
    /\ port' \in Ports
    /\ Goto(f, "ports")
    /\ UNCHANGED <<frameVars, started, authUp, listeners, busPort, discoveryVars, crashed>>

\* Mutant: the port goes to the bus center only.
UpdateBusPort(f) ==
    /\ pc[f] = "ports"
    /\ busPort' = port
    /\ Goto(f, "trans")
    /\ UNCHANGED <<frameVars, started, authUp, port, listeners, discoveryVars, crashed>>

\* The port goes to the bus center and to the service data, of which
\* UpdateAuthPortToCoapService replaces everything after the first colon.
UpdatePorts(f) ==
    /\ pc[f] = "ports"
    /\ busPort' = port
    /\ announcedPort' = port
    /\ announced' = NothingAnnounced
    /\ Goto(f, "trans")
    /\ UNCHANGED <<frameVars, started, authUp, port, listeners,
                   publishVars, capability, netVars, coapVars, crashed>>

TransServerInit(f) ==
    /\ pc[f] = "trans"
    /\ listeners' = AllListeners
    /\ gIsInit' = TRUE
    /\ Goto(f, "return")
    /\ UNCHANGED <<gMutex, started, authUp, port, busPort, discoveryVars, crashed>>

-----------------------------------------------------------------------------
(* DeinitSoftBusServer and serverModuleDeinit                              *)

DeinitSoftBusServer(f) ==
    /\ pc[f] = "idle"
    /\ gMutex = None
    /\ gIsInit
    /\ gMutex' = f
    /\ Goto(f, "transDown")
    /\ UNCHANGED <<gIsInit, upperVars, discoveryVars, crashed>>

TransServerDeinit(f) ==
    /\ pc[f] = "transDown"
    /\ listeners' = {}
    /\ Goto(f, "stopListen")
    /\ UNCHANGED <<frameVars, started, authUp, port, busPort, discoveryVars, crashed>>

StopSocketListening(f) ==
    /\ pc[f] = "stopListen"
    /\ port' = None
    /\ Goto(f, "authDown")
    /\ UNCHANGED <<frameVars, started, authUp, listeners, busPort, discoveryVars, crashed>>

AuthDeviceDeinit(f) ==
    /\ pc[f] = "authDown"
    /\ authUp' = FALSE
    /\ Goto(f, "stopReading")
    /\ UNCHANGED <<frameVars, started, port, listeners, busPort, discoveryVars, crashed>>

\* It may as well never return: it waits for the manager.mu of a dialled
\* connection that reports its result, and the report waits for service.mu, which
\* AuthDeviceDeinit holds (LifecycleDeadlock of AuthLifecycle).  gMutex is kept.
AuthDeviceDeinitHangs(f) ==
    /\ pc[f] = "authDown"
    /\ Goto(f, "hung")
    /\ UNCHANGED <<frameVars, upperVars, discoveryVars, crashed>>

\* The bus center stops, and a deinitialisation clears gIsInit.
BusCenterStop(f) ==
    /\ pc[f] = "busStop"
    /\ started' = FALSE
    /\ gIsInit' = FALSE
    /\ Goto(f, "return")
    /\ UNCHANGED <<gMutex, authUp, port, listeners, busPort, discoveryVars, crashed>>

-----------------------------------------------------------------------------
(* DiscCoapDeinit, for the frame and for the last service that goes        *)

StopReading(p) ==
    /\ pc[p] = "stopReading"
    /\ terminalFlag' = FALSE
    /\ Goto(p, "closeSocket")
    /\ UNCHANGED <<frameVars, upperVars, publishVars, deviceVars, netVars,
                   initOnce, socket, reader, crashed>>

\* Mutant: the socket stays open.
CloseNothing(p) ==
    /\ pc[p] = "closeSocket"
    /\ Goto(p, "waitReader")
    /\ UNCHANGED <<frameVars, upperVars, discoveryVars, crashed>>

CloseSocket(p) ==
    /\ pc[p] = "closeSocket"
    /\ socket' = IF socket = None THEN None ELSE "closed"
    /\ Goto(p, "waitReader")
    /\ UNCHANGED <<frameVars, upperVars, publishVars, deviceVars, netVars,
                   initOnce, terminalFlag, reader, crashed>>

\* The loop has ended, or two seconds are over; the deferred Stop of the
\* network manager ends the current monitor.
StopMonitor(p) ==
    /\ pc[p] = "waitReader"
    /\ netMgr' = "stopped"
    /\ monitors' = IF netMgr = "running" THEN monitors - 1 ELSE monitors
    /\ Goto(p, IF p \in Frames THEN "busStop" ELSE "release")
    /\ UNCHANGED <<frameVars, upperVars, publishVars, deviceVars, coapVars, crashed>>

-----------------------------------------------------------------------------
(* PublishService and UnPublishService                                     *)

\* An application publishes once GetServerIsInit has told it that it may.
GetServerIsInit(p) ==
    /\ pc[p] = "idle"
    /\ gMutex = None
    /\ gIsInit
    /\ Goto(p, "ready")
    /\ UNCHANGED <<frameVars, upperVars, discoveryVars, crashed>>

\* findExistModule indexes g_publishModule, which is nil after the last
\* service was withdrawn.
PublishPanics(p) ==
    /\ pc[p] = "ready"
    /\ discoveryMutex = None
    /\ publishModule = None
    /\ ~crashed
    /\ crashed' = TRUE
    /\ UNCHANGED <<frameVars, upperVars, discoveryVars, pc>>

PublishRefused(p) ==
    /\ pc[p] = "ready"
    /\ discoveryMutex = None
    /\ publishModule # None
    /\ \/ None \notin Range(publishModule)
       \/ Published # {}
    /\ Goto(p, "idle")
    /\ UNCHANGED <<frameVars, upperVars, discoveryVars, crashed>>

FreeModule == Min({i \in Modules : publishModule[i] = None})

\* The numbers of all published capabilities are ored; zero changes nothing.
Merge(now) == capability' = LET all == UNION {BitsOf[s] : s \in now}
                            IN  IF all = {} THEN capability ELSE all

\* updateCoapService appends the data of every service to what the service
\* data was before.
UpdateCoapService(now) ==
    /\ announced' = [s \in Services |-> announced[s] + (IF s \in now THEN 1 ELSE 0)]
    /\ Merge(now)

Exists(s) == s \in Published

PublishService(p) ==
    /\ pc[p] = "ready"
    /\ discoveryMutex = None
    /\ publishModule # None
    /\ None \in Range(publishModule)
    /\ \A t \in Services : announced[t] < MaxAnnounced
    /\ \E s \in Services :
         /\ ~Exists(s)
         /\ publishModule' = [publishModule EXCEPT ![FreeModule] = s]
         /\ UpdateCoapService(Published \cup {s})
    /\ Goto(p, "idle")
    /\ UNCHANGED <<frameVars, upperVars, discoveryMutex, isServiceInit, announcedPort,
                   netVars, coapVars, crashed>>

\* The slot is freed and the service data stays; with the last slot
\* DiscCoapDeinit is called.
UnPublishService(p) ==
    /\ pc[p] \in {"idle", "ready"}
    /\ discoveryMutex = None
    /\ isServiceInit
    /\ \E i \in Modules :
         /\ publishModule[i] # None
         /\ publishModule' = [publishModule EXCEPT ![i] = None]
         /\ IF Published = {publishModule[i]}
            THEN discoveryMutex' = p /\ Goto(p, "stopReading")
            ELSE UNCHANGED discoveryMutex /\ Goto(p, "idle")
    /\ UNCHANGED <<frameVars, upperVars, isServiceInit, deviceVars, netVars, coapVars, crashed>>

\* Mutant: g_discoveryMutex is not released.
ReleaseNothing(p) ==
    /\ pc[p] = "release"
    /\ isServiceInit' = FALSE
    /\ publishModule' = None
    /\ Goto(p, "idle")
    /\ UNCHANGED <<frameVars, upperVars, discoveryMutex, deviceVars, netVars, coapVars, crashed>>

Release(p) ==
    /\ pc[p] = "release"
    /\ isServiceInit' = FALSE
    /\ publishModule' = None
    /\ discoveryMutex' = None
    /\ Goto(p, "idle")
    /\ UNCHANGED <<frameVars, upperVars, deviceVars, netVars, coapVars, crashed>>

-----------------------------------------------------------------------------
(* coapReadLoop                                                            *)

ReaderGoto(where) ==
    /\ ~crashed
    /\ reader' = where
    /\ UNCHANGED <<frameVars, upperVars, publishVars, deviceVars, netVars,
                   initOnce, socket, terminalFlag, crashed, pc>>

CheckTerminal == reader = "looping" /\ ReaderGoto(IF terminalFlag THEN "reading" ELSE "ended")
Receive       == reader = "reading" /\ socket = "open" /\ ReaderGoto("handling")
ReceiveFails  == reader = "reading" /\ socket = "closed" /\ ReaderGoto("looping")
\* The packet is decoded, the device reported and the announcement answered.
HandleReadEvent == reader = "handling" /\ ReaderGoto("looping")

-----------------------------------------------------------------------------
FrameStep(f) ==
    \/ Return(f)
    \/ InitServiceRefused(f)
    \/ InitServiceFails(f)
    \/ InitService(f)
    \/ BusCenterServerInit(f)
    \/ AuthInit(f)
    \/ ListenFails(f)
    \/ Listen(f)
    \/ UpdatePorts(f)
    \/ TransServerInit(f)
    \/ TransServerDeinit(f)
    \/ StopSocketListening(f)
    \/ AuthDeviceDeinit(f)
    \/ AuthDeviceDeinitHangs(f)
    \/ BusCenterStop(f)

DeinitStep(p) == StopReading(p) \/ CloseSocket(p) \/ StopMonitor(p)

ReaderStep == CheckTerminal \/ ReceiveFails \/ HandleReadEvent

Next ==
    \/ \E f \in Frames : InitSoftBusServer(f) \/ DeinitSoftBusServer(f) \/ FrameStep(f)
    \/ \E p \in Procs : DeinitStep(p)
    \/ \E p \in Publishers :
         \/ GetServerIsInit(p)
         \/ PublishPanics(p)
         \/ PublishRefused(p)
         \/ PublishService(p)
         \/ UnPublishService(p)
         \/ Release(p)
    \/ ReaderStep
    \/ Receive

Spec == Init /\ [][Next]_vars

\* A call that has begun goes on, and so does the read loop when its socket
\* is closed; nobody needs to send a packet.
Fairness ==
    /\ \A f \in Frames : WF_vars(FrameStep(f))
    /\ \A p \in Procs : WF_vars(DeinitStep(p))
    /\ \A p \in Publishers : WF_vars(Release(p))
    /\ WF_vars(ReaderStep)

FairSpec == Spec /\ Fairness

-----------------------------------------------------------------------------
FrameLabels == {"disc", "bus", "auth", "listen", "ports", "trans", "transDown",
                "stopListen", "authDown", "hung", "busStop", "return"}
Labels == FrameLabels \cup {"idle", "stopReading", "closeSocket", "waitReader", "ready", "release"}

\* The flags, tables and program counters have the types of the code, a
\* caller inside the frame holds gMutex, and no service fills two slots.
TypeOK ==
    /\ gMutex \in Frames \cup {None} /\ gIsInit \in BOOLEAN
    /\ started \in BOOLEAN /\ authUp \in BOOLEAN /\ crashed \in BOOLEAN
    /\ {port, busPort, announcedPort} \subseteq Ports \cup {None}
    /\ listeners \subseteq AllListeners
    /\ discoveryMutex \in Publishers \cup {None} /\ isServiceInit \in BOOLEAN
    /\ publishModule = None \/ publishModule \in [Modules -> Services \cup {None}]
    /\ publishModule # None =>
         \A i, j \in Modules : publishModule[i] = publishModule[j] => i = j \/ publishModule[i] = None
    /\ announced \in [Services -> 0 .. MaxAnnounced]
    /\ capability \subseteq {0} \cup UNION Range(BitsOf)
    /\ netMgr \in {None, "running", "stopped"} /\ monitors \in 0 .. MaxMonitors
    /\ initOnce \in BOOLEAN /\ socket \in {None, "open", "closed"} /\ terminalFlag \in BOOLEAN
    /\ reader \in {"none", "looping", "reading", "handling", "ended"}
    /\ pc \in [Procs -> Labels]
    /\ \A f \in Frames : pc[f] \in FrameLabels => gMutex = f

\* While nobody initialises or deinitialises, the modules above discovery are
\* all up when the server is initialised and all down when it is not, and the
\* port in use is the one that the bus center and discovery tell.
UpTogether ==
    gMutex = None =>
        /\ started <=> gIsInit
        /\ authUp <=> gIsInit
        /\ port # None <=> gIsInit
        /\ listeners = IF gIsInit THEN AllListeners ELSE {}
        /\ gIsInit => busPort = port /\ announcedPort = port

\* A call into the frame returns, unless AuthDeviceDeinit hangs in it; and the
\* withdrawal of the last service, which stops the listener with
\* g_discoveryMutex held, returns even then.
CallsReturn ==
    /\ \A f \in Frames : pc[f] # "idle" ~> (pc[f] \in {"idle", "hung"} \/ crashed)
    /\ \A p \in Publishers : pc[p] \notin {"idle", "ready"} ~> (pc[p] = "idle" \/ crashed)

\* Once it is told to stop, the read loop ends, a packet or none.
ReaderEnds == socket # None /\ ~terminalFlag ~> (reader = "ended" \/ crashed)

-----------------------------------------------------------------------------
(* The inductive invariant behind UpTogether: how far the modules are up    *)
(* at each point of the frame's two calls.                                 *)

Down == ~gIsInit /\ ~started /\ ~authUp /\ port = None /\ listeners = {}
Up ==
    /\ gIsInit /\ started /\ authUp
    /\ port # None /\ busPort = port /\ announcedPort = port
    /\ listeners = AllListeners

\* gMutex is held from the beginning of a call to its end, by its caller.
FrameAlone ==
    /\ pc \in [Procs -> Labels]
    /\ gMutex \in Frames \cup {None}
    /\ \A f \in Frames :
         /\ pc[f] \notin {"ready", "release"}
         /\ pc[f] # "idle" <=> gMutex = f

\* What is up before a step of a call.  ListenFails turns round, so that on
\* the way down nothing is known but what is down already.
Stage(l) ==
    /\ l \in {"disc", "bus"} => Down
    /\ l \in {"auth", "listen", "ports", "trans"} => ~gIsInit /\ started /\ listeners = {}
    /\ l = "auth" => ~authUp
    /\ l \in {"listen", "ports", "trans"} => authUp
    /\ l \in {"auth", "listen"} => port = None
    /\ l \in {"ports", "trans"} => port # None
    /\ l = "trans" => busPort = port /\ announcedPort = port
    /\ l \notin {"disc", "bus", "auth", "listen", "ports", "trans", "transDown", "return"} =>
         listeners = {}
    /\ l \in {"authDown", "stopReading", "closeSocket", "waitReader", "busStop"} => port = None
    /\ l \in {"stopReading", "closeSocket", "waitReader", "busStop"} => ~authUp
    /\ l = "return" => Up \/ Down

FrameInv ==
    /\ FrameAlone
    /\ \A f \in Frames : pc[f] # "idle" => Stage(pc[f])
    /\ gMutex = None => Up \/ Down

-----------------------------------------------------------------------------
(* What documents of the code say, and the code does not do.               *)

\* InitService starts the listener: an initialised server is discoverable.
DiscoveryListens ==
    gMutex = None /\ gIsInit /\ isServiceInit => reader \notin {"none", "ended"}

\* A failed initialisation is rolled back and leaks nothing.
RolledBack == gMutex = None /\ ~gIsInit => monitors = 0

\* The service data holds the data of each published service, once.
AnnouncedOnce == \A s \in Published : announced[s] = 1

\* Publishing a service does not bring the process down.
NoPanic == ~crashed
=============================================================================
