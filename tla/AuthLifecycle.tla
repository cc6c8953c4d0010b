--------------------------- MODULE AuthLifecycle ---------------------------
(***************************************************************************)
(* Initialisation and deinitialisation of the authentication module:       *)
(* AuthDeviceInit and AuthDeviceDeinit of auth_manager.go, AuthConnInit    *)
(* and AuthConnDeinit of auth_connection.go, while connections are dialled,*)
(* accepted and read.                                                      *)
(*                                                                         *)
(* Three locks are held over steps that may block: service.mu over the     *)
(* teardown, g_authConnManagerMu while manager.mu is waited for, and       *)
(* manager.mu of a dialled connection over the report of its result.  A    *)
(* critical section that waits for nothing is one action.  What the tables *)
(* of a running service look like in between is the subject of AuthConn;   *)
(* here a connection is in the table of a manager or it is not.            *)
(***************************************************************************)
EXTENDS Naturals, FiniteSets

CONSTANTS
    Inits,     \* callers of AuthDeviceInit, each calls it once
    Deinits,   \* callers of AuthDeviceDeinit, each calls it once
    Servers,   \* connections that are accepted
    Clients,   \* connections that AuthDeviceOpenConn dials
    None       \* no owner, no manager

Callers == Inits \cup Deinits
Conns   == Servers \cup Clients
Procs   == Callers \cup Conns

ASSUME LifecycleAssumption ==
    /\ Inits \cap Deinits = {}
    /\ Servers \cap Clients = {}
    /\ Callers \cap Conns = {}
    /\ IsFiniteSet(Inits)
    /\ None \notin Procs \cup Nat

VARIABLES
    serviceMu,    \* who holds service.mu
    globalMu,     \* who holds g_authConnManagerMu
    managerMu,    \* manager -> who holds its mu
    current,      \* g_authConnManager: one of the managers 1, 2, ... or None
    initialized,  \* AuthManagerService.initialized
    sessionInit,  \* AuthSessionManager.initialized
    deviceAuth,   \* serviceInitialized of device_auth
    managers,     \* the connections that have an AuthManager
    mapped,       \* of these, the ones whose AuthManager has a ConnId
    sessions,     \* the connections that have an AuthSession
    table,        \* manager -> connections in its tables
    sockets,      \* the connections that are open
    pc,
    targets,      \* caller -> connections it still has to disconnect
    mine          \* process -> the manager it works on

locks       == <<serviceMu, globalMu, managerMu>>
layerVars   == <<current, initialized, sessionInit, deviceAuth>>
serviceVars == <<managers, mapped, sessions>>
netVars     == <<table, sockets>>
vars        == <<locks, layerVars, serviceVars, netVars, pc, targets, mine>>

Generations == 1 .. Cardinality(Inits)

Init ==
    /\ serviceMu = None /\ globalMu = None
    /\ managerMu = [g \in Generations |-> None]
    /\ current = None
    /\ initialized = FALSE /\ sessionInit = FALSE /\ deviceAuth = FALSE
    /\ managers = {} /\ mapped = {} /\ sessions = {}
    /\ table = [g \in Generations |-> {}]
    /\ sockets = {}
    /\ pc = [p \in Procs |-> "idle"]
    /\ targets = [p \in Callers |-> {}]
    /\ mine = [p \in Procs |-> None]

Goto(p, label) == pc' = [pc EXCEPT ![p] = label]

Fetch(p) ==
    /\ globalMu = None
    /\ mine' = [mine EXCEPT ![p] = current]

Leave(g, c) == table' = [table EXCEPT ![g] = @ \ {c}]
Enter(g, c) == table' = [table EXCEPT ![g] = @ \cup {c}]

-----------------------------------------------------------------------------
(* AuthDeviceInit and AuthDeviceDeinit                                     *)

\* Mutant: an initialised service is not torn down first.
BeginNoDeinit(p) ==
    /\ pc[p] = "idle"
    /\ serviceMu = None
    /\ IF p \in Inits THEN serviceMu' = p /\ Goto(p, "up")
                      ELSE UNCHANGED serviceMu /\ Goto(p, "done")
    /\ UNCHANGED <<globalMu, managerMu, layerVars, serviceVars, netVars, targets, mine>>

\* deinitInternal of an initialised service takes the connections of the
\* managers down, empties the tables and releases service.mu.
Begin(p) ==
    /\ pc[p] = "idle"
    /\ serviceMu = None
    /\ IF initialized
       THEN /\ targets' = [targets EXCEPT ![p] = mapped]
            /\ managers' = {} /\ mapped' = {}
            /\ Goto(p, "closing")
            /\ UNCHANGED serviceMu
       ELSE /\ UNCHANGED <<targets, managers, mapped>>
            /\ IF p \in Inits THEN serviceMu' = p /\ Goto(p, "up")
                              ELSE UNCHANGED serviceMu /\ Goto(p, "done")
    /\ UNCHANGED <<globalMu, managerMu, layerVars, sessions, netVars, mine>>

\* DisconnectAuthDevice of the next connection.
FetchManager(p) ==
    /\ pc[p] = "closing"
    /\ targets[p] # {}
    /\ Fetch(p)
    /\ Goto(p, "removing")
    /\ UNCHANGED <<locks, layerVars, serviceVars, netVars, targets>>

\* The connection leaves the tables and its socket is closed.
Drop(p, label) ==
    \E c \in targets[p] :
        /\ targets' = [targets EXCEPT ![p] = @ \ {c}]
        /\ mine[p] # None => managerMu[mine[p]] = None
        /\ IF mine[p] # None /\ c \in table[mine[p]]
           THEN Leave(mine[p], c) /\ sockets' = sockets \ {c}
           ELSE UNCHANGED netVars
        /\ Goto(p, label)
        /\ UNCHANGED <<locks, layerVars, serviceVars, mine>>

Disconnect(p) == pc[p] = "removing" /\ Drop(p, "closing")

Relock(p) ==
    /\ pc[p] = "closing"
    /\ targets[p] = {}
    /\ serviceMu = None
    /\ serviceMu' = p
    /\ Goto(p, "connDeinit")
    /\ UNCHANGED <<globalMu, managerMu, layerVars, serviceVars, netVars, targets, mine>>

\* AuthConnDeinit: g_authConnManagerMu is held until manager.mu has been
\* obtained and released.
ConnDeinit(p) ==
    /\ pc[p] = "connDeinit"
    /\ globalMu = None
    /\ IF current = None
       THEN /\ Goto(p, "down")
            /\ UNCHANGED <<globalMu, mine>>
       ELSE /\ globalMu' = p
            /\ mine' = [mine EXCEPT ![p] = current]
            /\ Goto(p, "snapshot")
    /\ UNCHANGED <<serviceMu, managerMu, layerVars, serviceVars, netVars, targets>>

Snapshot(p) ==
    /\ pc[p] = "snapshot"
    /\ managerMu[mine[p]] = None
    /\ targets' = [targets EXCEPT ![p] = table[mine[p]]]
    /\ current' = None
    /\ globalMu' = None
    /\ Goto(p, "dropping")
    /\ UNCHANGED <<serviceMu, managerMu, initialized, sessionInit, deviceAuth,
                   serviceVars, netVars, mine>>

DropNext(p) == pc[p] = "dropping" /\ Drop(p, "dropping")

Dropped(p) ==
    /\ pc[p] = "dropping"
    /\ targets[p] = {}
    /\ Goto(p, "down")
    /\ UNCHANGED <<locks, layerVars, serviceVars, netVars, targets, mine>>

\* Mutant: the session manager is forgotten.
DownNoSessions(p) ==
    /\ pc[p] = "down"
    /\ deviceAuth' = FALSE /\ initialized' = FALSE
    /\ IF p \in Inits THEN UNCHANGED serviceMu /\ Goto(p, "up")
                      ELSE serviceMu' = None /\ Goto(p, "done")
    /\ UNCHANGED <<globalMu, managerMu, current, sessionInit, serviceVars, netVars, targets, mine>>

\* The sessions, device_auth and the service itself.
Down(p) ==
    /\ pc[p] = "down"
    /\ sessions' = {}
    /\ sessionInit' = FALSE /\ deviceAuth' = FALSE /\ initialized' = FALSE
    /\ IF p \in Inits THEN UNCHANGED serviceMu /\ Goto(p, "up")
                      ELSE serviceMu' = None /\ Goto(p, "done")
    /\ UNCHANGED <<globalMu, managerMu, current, managers, mapped, netVars, targets, mine>>

\* AuthDeviceInit goes on with device_auth and the session manager ...
Up(p) ==
    /\ pc[p] = "up"
    /\ deviceAuth' = TRUE /\ sessionInit' = TRUE
    /\ Goto(p, "connInit")
    /\ UNCHANGED <<locks, current, initialized, serviceVars, netVars, targets, mine>>

\* ... and AuthConnInit replaces the global manager by a new one.
ConnInit(p) ==
    /\ pc[p] = "connInit"
    /\ globalMu = None
    /\ current' = Cardinality({q \in Inits : pc[q] = "done"}) + 1
    /\ initialized' = TRUE
    /\ serviceMu' = None
    /\ Goto(p, "done")
    /\ UNCHANGED <<globalMu, managerMu, sessionInit, deviceAuth, serviceVars, netVars,
                   targets, mine>>

CallerStep(p) ==
    \/ Begin(p)
    \/ FetchManager(p)
    \/ Disconnect(p)
    \/ Relock(p)
    \/ ConnDeinit(p)
    \/ Snapshot(p)
    \/ DropNext(p)
    \/ Dropped(p)
    \/ Down(p)
    \/ Up(p)
    \/ ConnInit(p)

-----------------------------------------------------------------------------
(* Connections                                                             *)

callerFrame == <<layerVars, targets>>

\* AuthDeviceOpenConn asks whether the service is up ...
Open(c) ==
    /\ c \in Clients
    /\ pc[c] = "idle"
    /\ serviceMu = None
    /\ initialized
    /\ Goto(c, "open")
    /\ UNCHANGED <<locks, callerFrame, serviceVars, netVars, mine>>

\* ... and files a manager without ConnId in a second critical section.
Store(c) ==
    /\ pc[c] = "open"
    /\ serviceMu = None
    /\ managers' = managers \cup {c}
    /\ Goto(c, "request")
    /\ UNCHANGED <<locks, callerFrame, mapped, sessions, netVars, mine>>

\* ConnectAuthDevice files the request with the current manager.
Request(c) ==
    /\ pc[c] = "request"
    /\ Fetch(c)
    /\ IF current = None
       THEN Goto(c, "openFailed")
       ELSE managerMu[current] = None /\ Goto(c, "dialling")
    /\ UNCHANGED <<locks, callerFrame, serviceVars, netVars>>

\* The dial succeeds and its callback begins, or it fails.
Dial(c) ==
    /\ pc[c] = "dialling"
    /\ \/ sockets' = sockets \cup {c} /\ Goto(c, "connected")
       \/ UNCHANGED sockets /\ Goto(c, "openFailed")
    /\ UNCHANGED <<locks, callerFrame, serviceVars, table, mine>>

OpenFailed(c) ==
    /\ pc[c] = "openFailed"
    /\ serviceMu = None
    /\ mine[c] # None => managerMu[mine[c]] = None
    /\ managers' = managers \ {c}
    /\ Goto(c, "ended")
    /\ UNCHANGED <<locks, callerFrame, mapped, sessions, netVars, mine>>

Accept(c) ==
    /\ c \in Servers
    /\ pc[c] = "idle"
    /\ sockets' = sockets \cup {c}
    /\ Goto(c, "connected")
    /\ UNCHANGED <<locks, callerFrame, serviceVars, table, mine>>

\* onAuthSocketConnected.  A request made to another manager is not found.
Connected(c) ==
    /\ pc[c] = "connected"
    /\ Fetch(c)
    /\ Goto(c, IF current = None \/ (c \in Clients /\ mine[c] # current)
               THEN "reading" ELSE "insert")
    /\ UNCHANGED <<locks, callerFrame, serviceVars, netVars>>

\* A dialled connection goes on with manager.mu held.
Insert(c) ==
    /\ pc[c] = "insert"
    /\ managerMu[mine[c]] = None
    /\ Enter(mine[c], c)
    /\ IF c \in Clients
       THEN managerMu' = [managerMu EXCEPT ![mine[c]] = c] /\ Goto(c, "result")
       ELSE UNCHANGED managerMu /\ Goto(c, "reading")
    /\ UNCHANGED <<serviceMu, globalMu, callerFrame, serviceVars, sockets, mine>>

\* onAuthConnectResult, which finds the manager of the request or not.
Result(c) ==
    /\ pc[c] = "result"
    /\ serviceMu = None
    /\ mapped' = IF c \in managers THEN mapped \cup {c} ELSE mapped
    /\ Goto(c, IF c \in managers THEN "start" ELSE "unlock")
    /\ UNCHANGED <<locks, callerFrame, managers, sessions, netVars, mine>>

\* AuthSessionStartAuth fails when the session manager is down.
StartSession(c) == sessions' = IF sessionInit THEN sessions \cup {c} ELSE sessions

Start(c) ==
    /\ pc[c] = "start"
    /\ StartSession(c)
    /\ Goto(c, "unlock")
    /\ UNCHANGED <<locks, callerFrame, managers, mapped, netVars, mine>>

Unlock(c) ==
    /\ pc[c] = "unlock"
    /\ managerMu' = [managerMu EXCEPT ![mine[c]] = None]
    /\ Goto(c, "reading")
    /\ UNCHANGED <<serviceMu, globalMu, callerFrame, serviceVars, netVars, mine>>

\* onAuthSocketDataReceived of an AUTH_SDK packet.
Packet(c) ==
    /\ pc[c] = "reading"
    /\ c \in sockets
    /\ Fetch(c)
    /\ Goto(c, IF current = None THEN "reading" ELSE "lookup")
    /\ UNCHANGED <<locks, callerFrame, serviceVars, netVars>>

Lookup(c) ==
    /\ pc[c] = "lookup"
    /\ managerMu[mine[c]] = None
    /\ Goto(c, IF c \in table[mine[c]] THEN "deliver" ELSE "reading")
    /\ UNCHANGED <<locks, callerFrame, serviceVars, netVars, mine>>

\* onAuthDataReceived makes a manager for an accepted connection without one.
Deliver(c) ==
    /\ pc[c] = "deliver"
    /\ serviceMu = None
    /\ IF c \in mapped \/ c \in Clients
       THEN UNCHANGED <<managers, mapped>> /\ Goto(c, "reading")
       ELSE /\ managers' = managers \cup {c}
            /\ mapped' = mapped \cup {c}
            /\ Goto(c, "session")
    /\ UNCHANGED <<locks, callerFrame, sessions, netVars, mine>>

DeliverSession(c) ==
    /\ pc[c] = "session"
    /\ StartSession(c)
    /\ Goto(c, "reading")
    /\ UNCHANGED <<locks, callerFrame, managers, mapped, netVars, mine>>

\* onAuthSocketDisconnected, once the socket is closed from either side.
ReadFails(c) ==
    /\ pc[c] = "reading"
    /\ c \notin sockets
    /\ Fetch(c)
    /\ Goto(c, IF current = None THEN "ended" ELSE "leaving")
    /\ UNCHANGED <<locks, callerFrame, serviceVars, netVars>>

Forget(c) ==
    /\ pc[c] = "leaving"
    /\ managerMu[mine[c]] = None
    /\ Goto(c, IF c \in table[mine[c]] THEN "unmap" ELSE "ended")
    /\ Leave(mine[c], c)
    /\ UNCHANGED <<locks, callerFrame, serviceVars, sockets, mine>>

\* onAuthDisconnected.
Unmap(c) ==
    /\ pc[c] = "unmap"
    /\ serviceMu = None
    /\ managers' = managers \ (mapped \cap {c})
    /\ mapped' = mapped \ {c}
    /\ Goto(c, "ended")
    /\ UNCHANGED <<locks, callerFrame, sessions, netVars, mine>>

\* The other side closes the connection.
PeerCloses(c) ==
    /\ c \in sockets
    /\ sockets' = sockets \ {c}
    /\ UNCHANGED <<locks, callerFrame, serviceVars, table, pc, mine>>

\* The steps of a call or a goroutine that has begun.
ConnStep(c) ==
    \/ Store(c)
    \/ Request(c)
    \/ Dial(c)
    \/ OpenFailed(c)
    \/ Connected(c)
    \/ Insert(c)
    \/ Result(c)
    \/ Start(c)
    \/ Unlock(c)
    \/ Lookup(c)
    \/ Deliver(c)
    \/ DeliverSession(c)
    \/ ReadFails(c)
    \/ Forget(c)
    \/ Unmap(c)

Next ==
    \/ \E p \in Callers : CallerStep(p)
    \/ \E c \in Conns : Open(c) \/ Accept(c) \/ Packet(c) \/ PeerCloses(c) \/ ConnStep(c)

Spec == Init /\ [][Next]_vars

\* A call or a goroutine that has begun goes on; a mutex is given in the end
\* to whoever waits for it.
Fairness ==
    /\ \A p \in Callers : SF_vars(CallerStep(p) /\ pc[p] # "idle")
    /\ \A c \in Conns : SF_vars(ConnStep(c))

FairSpec == Spec /\ Fairness

-----------------------------------------------------------------------------
Labels == {"idle", "closing", "removing", "connDeinit", "snapshot", "dropping", "down", "up",
           "connInit",
           "done", "open", "request", "dialling", "openFailed", "connected", "insert", "result", "start",
           "unlock", "reading", "lookup", "deliver", "session", "leaving", "unmap", "ended"}

\* The locks, flags and tables have the types of the code.
TypeOK ==
    /\ serviceMu \in Callers \cup {None}
    /\ globalMu \in Callers \cup {None}
    /\ managerMu \in [Generations -> Clients \cup {None}]
    /\ current \in Generations \cup {None}
    /\ initialized \in BOOLEAN /\ sessionInit \in BOOLEAN /\ deviceAuth \in BOOLEAN
    /\ managers \subseteq Conns /\ mapped \subseteq managers /\ sessions \subseteq Conns
    /\ table \in [Generations -> SUBSET Conns]
    /\ sockets \subseteq Conns
    /\ pc \in [Procs -> Labels]
    /\ targets \in [Callers -> SUBSET Conns]
    /\ mine \in [Procs -> Generations \cup {None}]

InSync ==
    /\ initialized <=> current # None
    /\ initialized <=> sessionInit
    /\ initialized <=> deviceAuth

\* While nobody is inside a call, the four layers are up together or down
\* together, whatever calls of Init and Deinit overlapped before.
LayersAgree == serviceMu = None => InSync

\* AuthConnInit never replaces a manager that is in use: its connections
\* would be out of everybody's reach.
NeverReplaced == [][current # None => current' \in {current, None}]_current

\* Every call of Init and Deinit returns.
CallsReturn == \A p \in Callers : pc[p] # "idle" ~> pc[p] = "done"

-----------------------------------------------------------------------------
(* The inductive invariant behind LayersAgree and NeverReplaced: the       *)
(* caller inside service.mu knows from where it is which layers are up.    *)

Holding == {"connDeinit", "snapshot", "dropping", "down", "up", "connInit"}

LockHeld == \A p \in Callers : pc[p] \in Holding <=> serviceMu = p

\* The layers as the caller p finds them.
StageOf(p) ==
    /\ pc[p] \in {"connDeinit", "snapshot"} => InSync
    /\ pc[p] = "snapshot" => mine[p] \in Generations
    /\ pc[p] \in {"dropping", "down"} => current = None
    /\ pc[p] = "up" => ~initialized /\ InSync
    /\ pc[p] = "connInit" => current = None /\ ~initialized /\ sessionInit /\ deviceAuth
    /\ pc[p] \in {"up", "connInit"} => p \in Inits

\* A connection has a ConnId only once its result was reported or its first
\* packet was read.
Unreported == {"idle", "open", "request", "dialling", "openFailed", "connected", "insert", "result"}

MappedLate == \A c \in Conns : pc[c] \in Unreported => c \notin mapped

LifecycleInv ==
    /\ TypeOK
    /\ MappedLate
    /\ LockHeld
    /\ \A p \in Callers : StageOf(p)
    /\ LayersAgree

-----------------------------------------------------------------------------
(* What comments of the code say of the deinitialisation.                  *)

Settled == initialized = FALSE /\ \A p \in Callers : pc[p] \in {"idle", "done"}

\* The managers are cleared first so that no callback changes the map again:
\* none is left when the service is down.
NoManagersLeft == Settled => mapped = {}

\* All connections are disconnected: none that is in the table of a manager
\* that was taken down is open.
AllDisconnected == Settled => \A g \in Generations : table[g] \cap sockets = {}
=============================================================================
