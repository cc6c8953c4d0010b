------------------------------ MODULE AuthConn ------------------------------
(***************************************************************************)
(* The authentication connection layer of one device: the connection       *)
(* manager of pkg/authentication/auth_connection.go, the AuthManager       *)
(* service of auth_manager.go above it and the sockets of                  *)
(* auth_tcp_connection.go below it.                                        *)
(*                                                                         *)
(* An action is one critical section, or one call that blocks, of one      *)
(* goroutine.  manager.mu is a variable because onAuthSocketConnected      *)
(* keeps it over the OnConnectResult callback; service.mu is never held    *)
(* over another step here, so a section under it is one action.            *)
(***************************************************************************)
EXTENDS Naturals, GoMaps

CONSTANTS
    Openers,         \* goroutines that call AuthDeviceOpenConn
    ChannelOpeners,  \* goroutines that call AuthOpenChannel
    Acceptors,       \* handleConnection goroutines of the listener
    Closers,         \* goroutines that call AuthDeviceCloseConn
    RequestOf,       \* the requestId an opener passes
    LinkTypeOf,      \* the ConnInfo.Type an opener passes
    Wifi,            \* AuthLinkTypeWifi
    ServerFdStart,   \* first virtual fd of an accepted connection
    ClientFdStart,   \* first virtual fd of a dialled connection
    InitialAuthId,   \* AuthManagerInitialAuthId
    None             \* a field that is not set yet

Dialers  == Openers \cup ChannelOpeners
Procs    == Dialers \cup Acceptors \cup Closers
Requests == {RequestOf[o] : o \in Openers}
LinkTypes == {LinkTypeOf[o] : o \in Openers} \cup {Wifi}
ConnIds  == LinkTypes \X Nat
Results  == {"done", "failed"}

\* The goroutines of the four kinds are different ones, and 0 is the request id
\* of accepted connections.  Open calls may share a request id: the one caller
\* there is takes it from the clock.
ASSUME AuthConnAssumption ==
    /\ Openers \cap ChannelOpeners = {}
    /\ Dialers \cap Acceptors = {}
    /\ Closers \cap (Dialers \cup Acceptors) = {}
    /\ RequestOf \in [Openers -> Nat \ {0}]
    /\ DOMAIN LinkTypeOf = Openers
    /\ ServerFdStart \in Nat
    /\ ClientFdStart \in Nat
    /\ ServerFdStart <= ClientFdStart
    /\ InitialAuthId \in Nat
    /\ None \notin Nat
    /\ None \notin ConnIds
    /\ None \notin Dialers

VARIABLES
    \* auth_manager.go: AuthManagerService
    managers,        \* authId -> [req, conn, server]
    connIdToAuthId,  \* connId -> authId
    nextAuthId,      \* the authId the next manager gets
    \* auth_session.go: state of the session of each manager
    sessions,        \* authSeq -> the results it has reported so far
    \* auth_connection.go: AuthConnectionManager
    connections,     \* connId -> [fd, server]
    fdToConnId,      \* fd -> connId
    requests,        \* requestId -> [type, start]
    clock,           \* time.Now() as the order in which requests are stored
    mu,              \* holder of manager.mu over a callback, or None
    \* tcp_connection.ConnectionManager
    sockets,         \* fds of connMap
    nextServerFd,
    nextClientFd,
    \* the goroutines: program counter and local variables
    pc,
    local

svcVars  == <<managers, connIdToAuthId, nextAuthId, sessions>>
connVars == <<connections, fdToConnId, requests, clock, mu>>
sockVars == <<sockets, nextServerFd, nextClientFd>>
procVars == <<pc, local>>
vars     == <<svcVars, connVars, sockVars, procVars>>

GenConnId(type, fd) == <<type, fd>>

\* Mutant: the counter of the virtual fds is not advanced.
AllocateFdAgain(next) == next
AllocateFd(next) == next + 1

Goto(p, label) == pc' = [pc EXCEPT ![p] = label]

\* Mutant: the section does not take manager.mu.
MuIgnored == TRUE
MuFree == mu = None

\* The two deletions under service.mu in AuthDeviceCloseConn and
\* onAuthDisconnected.
\* Mutant: only the mapping is deleted.
RemoveMappingOnly(a, c) ==
    /\ connIdToAuthId' = Del(connIdToAuthId, c)
    /\ UNCHANGED managers
RemoveManager(a, c) ==
    /\ managers' = Del(managers, a)
    /\ connIdToAuthId' = Del(connIdToAuthId, c)

\* The two deletions under manager.mu in DisconnectAuthDevice and
\* onAuthSocketDisconnected, and the two insertions of onAuthSocketConnected.
\* Mutants: one of the two maps is forgotten.
RemoveConnKeepFd(c, fd) ==
    /\ connections' = Del(connections, c)
    /\ UNCHANGED fdToConnId
InsertFdOnly(c, fd, server) ==
    /\ fdToConnId' = Put(fdToConnId, fd, c)
    /\ UNCHANGED connections
RemoveConn(c, fd) ==
    /\ connections' = Del(connections, c)
    /\ fdToConnId' = Del(fdToConnId, fd)

InsertConn(c, fd, server) ==
    /\ connections' = Put(connections, c, [fd |-> fd, server |-> server])
    /\ fdToConnId' = Put(fdToConnId, fd, c)

Init ==
    /\ managers = EmptyMap
    /\ connIdToAuthId = EmptyMap
    /\ nextAuthId = InitialAuthId + 1
    /\ sessions = EmptyMap
    /\ connections = EmptyMap
    /\ fdToConnId = EmptyMap
    /\ requests = EmptyMap
    /\ clock = 0
    /\ mu = None
    /\ sockets = {}
    /\ nextServerFd = ServerFdStart
    /\ nextClientFd = ClientFdStart
    /\ pc = [p \in Procs |-> "idle"]
    /\ local = [p \in Procs |->
                  [fd |-> None, authId |-> None, req |-> None, conn |-> None]]

-----------------------------------------------------------------------------
(* AuthDeviceOpenConn and ConnectAuthDevice, called by an opener.          *)

\* The manager is created before the connection exists.
OpenConn(o) ==
    /\ pc[o] = "idle"
    /\ managers' = Put(managers, nextAuthId,
                       [req |-> RequestOf[o], conn |-> None, server |-> FALSE])
    /\ local' = [local EXCEPT ![o].authId = nextAuthId]
    /\ nextAuthId' = nextAuthId + 1
    /\ Goto(o, "store")
    /\ UNCHANGED <<connIdToAuthId, sessions, connVars, sockVars>>

StoreRequest(o) ==
    /\ pc[o] = "store"
    /\ MuFree
    /\ requests' = Put(requests, RequestOf[o],
                       [type |-> LinkTypeOf[o], start |-> clock])
    /\ clock' = clock + 1
    /\ Goto(o, "dial")
    /\ UNCHANGED <<svcVars, connections, fdToConnId, mu, sockVars, local>>

\* AuthOpenChannel dials without storing a request.
OpenChannel(h) ==
    /\ pc[h] = "idle"
    /\ Goto(h, "dial")
    /\ UNCHANGED <<svcVars, connVars, sockVars, local>>

\* SocketConnectDevice: dial, allocate the fd and register the connection.
DialOk(d) ==
    /\ pc[d] = "dial"
    /\ sockets' = sockets \cup {nextClientFd}
    /\ local' = [local EXCEPT ![d].fd = nextClientFd]
    /\ nextClientFd' = AllocateFd(nextClientFd)
    /\ Goto(d, "connected")
    /\ UNCHANGED <<svcVars, connVars, nextServerFd>>

DialFail(d) ==
    /\ pc[d] = "dial"
    /\ Goto(d, IF d \in Openers THEN "drop" ELSE "failed")
    /\ UNCHANGED <<svcVars, connVars, sockVars, local>>

DropRequest(o) ==
    /\ pc[o] = "drop"
    /\ MuFree
    /\ requests' = Del(requests, RequestOf[o])
    /\ Goto(o, "report")
    /\ UNCHANGED <<svcVars, connections, fdToConnId, clock, mu, sockVars, local>>

\* onAuthConnectResult(requestId, 0, -1): whatever manager has the request id
\* is removed, connected or not.
ReportFailure(o) ==
    /\ pc[o] = "report"
    /\ \/ \E a \in DOMAIN managers :
            /\ managers[a].req = RequestOf[o]
            /\ managers' = Del(managers, a)
       \/ /\ \A a \in DOMAIN managers : managers[a].req # RequestOf[o]
          /\ UNCHANGED managers
    /\ Goto(o, "cleanup")
    /\ UNCHANGED <<connIdToAuthId, nextAuthId, sessions, connVars, sockVars, local>>

CleanupManager(o) ==
    /\ pc[o] = "cleanup"
    /\ managers' = Del(managers, local[o].authId)
    /\ Goto(o, "failed")
    /\ UNCHANGED <<connIdToAuthId, nextAuthId, sessions, connVars, sockVars, local>>

-----------------------------------------------------------------------------
(* onAuthSocketConnected for a dialled connection: BaseClient.Connect      *)
(* calls it before it returns, whoever dialled.                            *)

Earliest(r) ==
    /\ r \in DOMAIN requests
    /\ \A q \in DOMAIN requests : requests[r].start <= requests[q].start

\* The earliest request is taken for the new connection.  manager.mu stays
\* held until OnConnectResult has returned.
MatchRequest(d) ==
    /\ pc[d] = "connected"
    /\ MuFree
    /\ \E r \in DOMAIN requests :
         /\ Earliest(r)
         /\ LET c == GenConnId(requests[r].type, local[d].fd) IN
              /\ InsertConn(c, local[d].fd, FALSE)
              /\ local' = [local EXCEPT ![d].req = r, ![d].conn = c]
         /\ requests' = Del(requests, r)
    /\ mu' = d
    /\ Goto(d, "result")
    /\ UNCHANGED <<svcVars, clock, sockVars>>

NoRequest(d) ==
    /\ pc[d] = "connected"
    /\ MuFree
    /\ requests = EmptyMap
    /\ Goto(d, "returned")
    /\ UNCHANGED <<svcVars, connVars, sockVars, local>>

\* onAuthConnectResult(requestId, connId, 0) takes any manager with the request
\* id, connected or not.
ManagerFound(d) ==
    /\ \E a \in DOMAIN managers :
         /\ managers[a].req = local[d].req
         /\ managers' = [managers EXCEPT ![a].conn = local[d].conn]
         /\ connIdToAuthId' = Put(connIdToAuthId, local[d].conn, a)
         /\ local' = [local EXCEPT ![d].authId = a]
    /\ Goto(d, "session")
    /\ UNCHANGED <<nextAuthId, sessions, connVars, sockVars>>

\* Its early return, which leaves the connection in the tables.
NoManager(d) ==
    /\ \A a \in DOMAIN managers : managers[a].req # local[d].req
    /\ mu' = None
    /\ Goto(d, "returned")
    /\ UNCHANGED <<svcVars, connections, fdToConnId, requests, clock, sockVars, local>>

\* onAuthConnectResult up to the release of service.mu.
ConnectResult(d) ==
    /\ pc[d] = "result"
    /\ ManagerFound(d) \/ NoManager(d)

\* AuthSessionStartAuth refuses a manager that has a session already, or sends
\* the first packet; a closed socket or any other error leaves the session
\* failed.  An error is reported with OnConnOpenFailed.
\* Mutant: the error path returns without releasing manager.mu.
StartSessionKeepLock(d) ==
    /\ pc[d] = "session"
    /\ \/ /\ local[d].authId \in DOMAIN sessions
          /\ UNCHANGED <<sessions, mu>>
       \/ /\ local[d].authId \notin DOMAIN sessions
          /\ \/ /\ local[d].fd \in sockets
                /\ sessions' = Put(sessions, local[d].authId, {})
                /\ mu' = None
             \/ /\ sessions' = Put(sessions, local[d].authId, {"failed"})
                /\ UNCHANGED mu
    /\ Goto(d, "returned")
    /\ UNCHANGED <<managers, connIdToAuthId, nextAuthId,
                   connections, fdToConnId, requests, clock, sockVars, local>>
StartSession(d) ==
    /\ pc[d] = "session"
    /\ \/ /\ local[d].authId \in DOMAIN sessions
          /\ UNCHANGED sessions
       \/ /\ local[d].authId \notin DOMAIN sessions
          /\ \/ /\ local[d].fd \in sockets
                /\ sessions' = Put(sessions, local[d].authId, {})
             \/ sessions' = Put(sessions, local[d].authId, {"failed"})
    /\ mu' = None
    /\ Goto(d, "returned")
    /\ UNCHANGED <<managers, connIdToAuthId, nextAuthId,
                   connections, fdToConnId, requests, clock, sockVars, local>>

\* AuthCloseChannel closes the socket and leaves the tables alone.
CloseChannel(h) ==
    /\ pc[h] = "returned"
    /\ sockets' = sockets \ {local[h].fd}
    /\ Goto(h, "done")
    /\ UNCHANGED <<svcVars, connVars, nextServerFd, nextClientFd, local>>

-----------------------------------------------------------------------------
(* The goroutine of an accepted connection: BaseServer.handleConnection    *)
(* with the callbacks of the layers above.                                 *)

\* Server fds stay below the client range (see TcpServer for what happens
\* when they do not).
Accept(s) ==
    /\ pc[s] = "idle"
    /\ nextServerFd < ClientFdStart
    /\ sockets' = sockets \cup {nextServerFd}
    /\ local' = [local EXCEPT ![s].fd = nextServerFd]
    /\ nextServerFd' = AllocateFd(nextServerFd)
    /\ Goto(s, "info")
    /\ UNCHANGED <<svcVars, connVars, nextClientFd>>

\* SocketGetConnInfo fails when the socket was unregistered meanwhile; the
\* connection then stays unrecorded but is read from.
GetConnInfo(s) ==
    /\ pc[s] = "info"
    /\ Goto(s, IF local[s].fd \in sockets THEN "insert" ELSE "reading")
    /\ UNCHANGED <<svcVars, connVars, sockVars, local>>

InsertServerConn(s) ==
    /\ pc[s] = "insert"
    /\ MuFree
    /\ InsertConn(GenConnId(Wifi, local[s].fd), local[s].fd, TRUE)
    /\ Goto(s, "reading")
    /\ UNCHANGED <<svcVars, requests, clock, mu, sockVars, local>>

\* A packet of module AUTH_SDK arrives; onAuthSocketDataReceived looks the
\* connection up under the read lock and goes on without it.
ReceiveSdk(s) ==
    /\ pc[s] = "reading"
    /\ local[s].fd \in sockets
    /\ MuFree
    /\ local[s].fd \in DOMAIN fdToConnId
    /\ local' = [local EXCEPT ![s].conn = fdToConnId[local[s].fd]]
    /\ Goto(s, "deliver")
    /\ UNCHANGED <<svcVars, connVars, sockVars>>

\* onAuthDataReceived: a connection no manager is mapped to gets a new one.
Deliver(s) ==
    /\ pc[s] = "deliver"
    /\ \/ /\ local[s].conn \in DOMAIN connIdToAuthId
          /\ Goto(s, "reading")
          /\ UNCHANGED <<managers, connIdToAuthId, nextAuthId, local>>
       \/ /\ local[s].conn \notin DOMAIN connIdToAuthId
          /\ managers' = Put(managers, nextAuthId,
                             [req |-> 0, conn |-> local[s].conn, server |-> TRUE])
          /\ connIdToAuthId' = Put(connIdToAuthId, local[s].conn, nextAuthId)
          /\ local' = [local EXCEPT ![s].authId = nextAuthId]
          /\ nextAuthId' = nextAuthId + 1
          /\ Goto(s, "accepted")
    /\ UNCHANGED <<sessions, connVars, sockVars>>

StartServerSession(s) ==
    /\ pc[s] = "accepted"
    /\ sessions' = Put(sessions, local[s].authId, {})
    /\ Goto(s, "reading")
    /\ UNCHANGED <<managers, connIdToAuthId, nextAuthId, connVars, sockVars, local>>

\* StopBaseListener unregisters the connection at any time.
StopListener(s) ==
    /\ local[s].fd \in sockets
    /\ sockets' = sockets \ {local[s].fd}
    /\ UNCHANGED <<svcVars, connVars, nextServerFd, nextClientFd, procVars>>

\* Read fails: the peer closed, the network failed or the socket was closed.
\* Mutant: this exit of the read loop forgets the OnDisconnected callback.
ReadFailsSilently(s) ==
    /\ pc[s] = "reading"
    /\ Goto(s, "unregister")
    /\ UNCHANGED <<svcVars, connVars, sockVars, local>>
ReadFails(s) ==
    /\ pc[s] = "reading"
    /\ Goto(s, "forget")
    /\ UNCHANGED <<svcVars, connVars, sockVars, local>>

\* onAuthSocketDisconnected.
ForgetConn(s) ==
    /\ pc[s] = "forget"
    /\ MuFree
    /\ LET fd == local[s].fd IN
         \/ /\ fd \in DOMAIN fdToConnId
            /\ local' = [local EXCEPT ![s].conn = fdToConnId[fd]]
            /\ RemoveConn(fdToConnId[fd], fd)
            /\ Goto(s, "unmap")
         \/ /\ fd \notin DOMAIN fdToConnId
            /\ Goto(s, "unregister")
            /\ UNCHANGED <<connections, fdToConnId, local>>
    /\ UNCHANGED <<svcVars, requests, clock, mu, sockVars>>

\* onAuthDisconnected.
UnmapManager(s) ==
    /\ pc[s] = "unmap"
    /\ \/ /\ local[s].conn \in DOMAIN connIdToAuthId
          /\ RemoveManager(connIdToAuthId[local[s].conn], local[s].conn)
       \/ /\ local[s].conn \notin DOMAIN connIdToAuthId
          /\ UNCHANGED <<managers, connIdToAuthId>>
    /\ Goto(s, "unregister")
    /\ UNCHANGED <<nextAuthId, sessions, connVars, sockVars, local>>

\* The deferred UnregisterConn of handleConnection.
Unregister(s) ==
    /\ pc[s] = "unregister"
    /\ sockets' = sockets \ {local[s].fd}
    /\ Goto(s, "done")
    /\ UNCHANGED <<svcVars, connVars, nextServerFd, nextClientFd, local>>

-----------------------------------------------------------------------------
(* AuthDeviceCloseConn.  The application learns an authId from             *)
(* OnConnOpened, which the session calls when HiChain reports OnFinish; it *)
(* reports OnError instead when the exchange fails.  Both come on the      *)
(* goroutine that reads the connection, between two packets, and may come  *)
(* again: after a result HiChain forgets the exchange, the session does    *)
(* not, and a further packet begins a new one.                             *)

AuthDone(a, result) ==
    /\ a \in DOMAIN sessions
    /\ \A s \in Acceptors : local[s].authId = a => pc[s] = "reading"
    /\ sessions' = [sessions EXCEPT ![a] = @ \cup {result}]
    /\ UNCHANGED <<managers, connIdToAuthId, nextAuthId, connVars, sockVars, procVars>>

CloseConn(c) ==
    /\ pc[c] = "idle"
    /\ \E a \in DOMAIN sessions :
         /\ "done" \in sessions[a]
         /\ \/ /\ a \in DOMAIN managers
               /\ local' = [local EXCEPT ![c].conn = managers[a].conn]
               /\ RemoveManager(a, managers[a].conn)
               /\ Goto(c, "disconnect")
            \/ /\ a \notin DOMAIN managers
               /\ Goto(c, "done")
               /\ UNCHANGED <<managers, connIdToAuthId, local>>
    /\ UNCHANGED <<nextAuthId, sessions, connVars, sockVars>>

\* DisconnectAuthDevice.
Disconnect(c) ==
    /\ pc[c] = "disconnect"
    /\ MuFree
    /\ \/ /\ local[c].conn \in DOMAIN connections
          /\ LET fd == connections[local[c].conn].fd IN
               /\ local' = [local EXCEPT ![c].fd = fd]
               /\ RemoveConn(local[c].conn, fd)
          /\ Goto(c, "close")
       \/ /\ local[c].conn \notin DOMAIN connections
          /\ Goto(c, "done")
          /\ UNCHANGED <<connections, fdToConnId, local>>
    /\ UNCHANGED <<svcVars, requests, clock, mu, sockVars>>

\* SocketDisconnectDevice; the read loop of the connection then ends.
CloseSocket(c) ==
    /\ pc[c] = "close"
    /\ sockets' = sockets \ {local[c].fd}
    /\ Goto(c, "done")
    /\ UNCHANGED <<svcVars, connVars, nextServerFd, nextClientFd, local>>

-----------------------------------------------------------------------------
\* What an open call does once it has begun.
OpenerStep(o) ==
    StoreRequest(o) \/ DropRequest(o) \/ ReportFailure(o) \/ CleanupManager(o)

DialerStep(d) ==
    \/ DialOk(d)
    \/ DialFail(d)
    \/ MatchRequest(d)
    \/ NoRequest(d)
    \/ ConnectResult(d)
    \/ StartSession(d)

AcceptorStep(s) ==
    \/ GetConnInfo(s)
    \/ InsertServerConn(s)
    \/ Deliver(s)
    \/ StartServerSession(s)
    \/ ForgetConn(s)
    \/ UnmapManager(s)
    \/ Unregister(s)

CloserStep(c) == Disconnect(c) \/ CloseSocket(c)

Next ==
    \/ \E o \in Openers : OpenConn(o) \/ OpenerStep(o)
    \/ \E h \in ChannelOpeners : OpenChannel(h) \/ CloseChannel(h)
    \/ \E d \in Dialers : DialerStep(d)
    \/ \E s \in Acceptors :
         \/ Accept(s)
         \/ ReceiveSdk(s)
         \/ StopListener(s)
         \/ ReadFails(s)
         \/ AcceptorStep(s)
    \/ \E c \in Closers : CloseConn(c) \/ CloserStep(c)
    \/ \E a \in DOMAIN sessions, result \in Results : AuthDone(a, result)

Spec == Init /\ [][Next]_vars

\* A goroutine that has begun a call is scheduled until it returns; the calls
\* themselves, packets and read errors come from outside.
Fairness ==
    /\ \A o \in Openers : WF_vars(OpenerStep(o))
    /\ \A d \in Dialers : WF_vars(DialerStep(d))
    /\ \A s \in Acceptors : WF_vars(AcceptorStep(s))
    /\ \A c \in Closers : WF_vars(CloserStep(c))

FairSpec == Spec /\ Fairness

-----------------------------------------------------------------------------
Labels == {"idle", "store", "dial", "drop", "report", "cleanup", "failed",
           "connected", "result", "session", "returned", "info", "insert",
           "reading", "deliver", "accepted", "forget", "unmap", "unregister",
           "disconnect", "close", "done"}

Managers    == [req : Nat, conn : ConnIds \cup {None}, server : BOOLEAN]
Connections == [fd : Nat, server : BOOLEAN]
Locals == [fd : Nat \cup {None}, authId : Nat \cup {None},
           req : Nat \cup {None}, conn : ConnIds \cup {None}]

\* What the maps, counters and local variables hold: keys and values of the
\* Go maps have their declared types.
TypeOK ==
    /\ IsMap(managers, Nat, Managers)
    /\ IsMap(connIdToAuthId, ConnIds, Nat)
    /\ nextAuthId \in Nat
    /\ IsMap(sessions, Nat, SUBSET Results)
    /\ IsMap(connections, ConnIds, Connections)
    /\ IsMap(fdToConnId, Nat, ConnIds)
    /\ IsMap(requests, Requests, [type : LinkTypes, start : Nat])
    /\ clock \in Nat
    /\ mu \in Dialers \cup {None}
    /\ sockets \subseteq Nat
    /\ nextServerFd \in Nat
    /\ nextClientFd \in Nat
    /\ pc \in [Procs -> Labels]
    /\ local \in [Procs -> Locals]

\* The two maps of the connection manager describe the same connections
\* whenever manager.mu is free, although four handlers on different
\* goroutines update them one map after the other.
TablesAgree ==
    /\ \A fd \in DOMAIN fdToConnId :
         /\ fdToConnId[fd] \in DOMAIN connections
         /\ connections[fdToConnId[fd]].fd = fd
    /\ \A c \in DOMAIN connections :
         /\ connections[c].fd \in DOMAIN fdToConnId
         /\ fdToConnId[connections[c].fd] = c

\* A manager that has a connection is the one its connId leads to, so no two
\* managers claim one connection, whichever request the connection was
\* matched to and whoever closes it.
ManagersMapped ==
    \A a \in DOMAIN managers :
        managers[a].conn # None =>
            /\ managers[a].conn \in DOMAIN connIdToAuthId
            /\ connIdToAuthId[managers[a].conn] = a

\* A dialled connection leaves the table only after its manager is gone:
\* AuthDevicePostTransData on a manager that is still there finds the
\* connection PostAuthData needs.
ClientManagerConnected ==
    \A a \in DOMAIN managers :
        /\ managers[a].conn # None
        /\ ~managers[a].server
        => managers[a].conn \in DOMAIN connections

\* An open call whose request id no other open call has.
Alone(r) == \A o, p \in Openers : RequestOf[o] = r /\ RequestOf[p] = r => o = p

\* A dialled connection that took the request of somebody finds the manager of
\* that request, unless two joins were made in one second: the failing open
\* call that would remove it waits for manager.mu first.
MatchedHasManager ==
    \A d \in Dialers :
        pc[d] = "result" /\ Alone(local[d].req) =>
            \E a \in DOMAIN managers :
                managers[a].req = local[d].req /\ managers[a].conn = None

\* When handleConnection has returned, nothing in the connection manager or
\* the socket layer refers to the connection any more, whatever closed it.
FinishedForgotten ==
    \A s \in Acceptors :
        pc[s] = "done" => local[s].fd \notin DOMAIN fdToConnId \cup sockets

\* An AuthDeviceOpenConn, AuthOpenChannel or AuthDeviceCloseConn that has
\* begun returns, so that in the end none is under way: nobody waits for
\* manager.mu forever, although a goroutine keeps it while it runs the
\* callbacks of the layer above.
CallsReturn ==
    <>[](\A p \in Dialers \cup Closers : pc[p] \in {"idle", "returned", "failed", "done"})

\* A dialled or accepted connection whose OnConnected callback has run and
\* that is not in the table has left it, or never got in.
Retired ==
    {local[p].fd : p \in {q \in Dialers \cup Acceptors :
                             /\ local[q].fd # None
                             /\ pc[q] \notin {"connected", "info", "insert"}}}
        \ DOMAIN fdToConnId

\* The table implements the life cycle of a connection: recorded at most
\* once, removed at most once, never back.
Table == INSTANCE ConnLifecycle WITH live <- DOMAIN fdToConnId, retired <- Retired
TableSpec == Table!Spec

-----------------------------------------------------------------------------
(* The parts of the inductive invariant behind the safety properties.      *)

Owners == Dialers \cup Acceptors   \* the goroutines that get a connection

\* Every goroutine has the local variables the rest of its code reads.
LocalsSet ==
    /\ \A p \in Owners :
         local[p].fd = None
             <=> pc[p] \in {"idle", "store", "dial", "drop", "report", "cleanup", "failed"}
    /\ \A p \in Procs :
         /\ pc[p] \in {"result", "session", "deliver", "unmap"} => local[p].conn # None
         /\ pc[p] \in {"session", "accepted"} => local[p].authId # None
         /\ pc[p] \in {"result", "session"} => local[p].req # None
    /\ \A d \in Dialers :
         pc[d] \notin {"info", "insert", "reading", "deliver", "accepted", "forget",
                      "unmap", "unregister", "disconnect", "close"}
    /\ \A s \in Acceptors :
         pc[s] \in {"idle", "info", "insert", "reading", "deliver", "accepted",
                   "forget", "unmap", "unregister", "done"}
    /\ \A c \in Closers : pc[c] \in {"idle", "disconnect", "close", "done"}

Allocated(fd) ==
    \/ ServerFdStart <= fd /\ fd < nextServerFd
    \/ ClientFdStart <= fd /\ fd < nextClientFd

\* A virtual fd is handed out once, and the two ranges are apart.
FdsUnique ==
    /\ ServerFdStart <= nextServerFd /\ nextServerFd <= ClientFdStart
    /\ ClientFdStart <= nextClientFd
    /\ \A d \in Dialers :
         local[d].fd # None => ClientFdStart <= local[d].fd /\ local[d].fd < nextClientFd
    /\ \A s \in Acceptors :
         local[s].fd # None => ServerFdStart <= local[s].fd /\ local[s].fd < nextServerFd
    /\ \A p, q \in Owners : local[p].fd # None /\ local[p].fd = local[q].fd => p = q

\* Goroutines whose connection is not recorded yet, or not given to a manager.
Unrecorded(p) == pc[p] \in {"connected", "info", "insert"}
Ungiven(p)    == Unrecorded(p) \/ pc[p] = "result"

\* The fd of a recorded connection is its own key and is nobody's new fd.
RecordedOnce ==
    /\ \A c \in DOMAIN connections : connections[c].fd = c[2]
    /\ \A fd \in DOMAIN fdToConnId :
         /\ Allocated(fd)
         /\ \A p \in Owners : Unrecorded(p) => local[p].fd # fd

\* A connId a manager or a closing goroutine holds is not a new one.
Given(c) ==
    /\ Allocated(c[2])
    /\ \A p \in Owners : Ungiven(p) => local[p].fd # c[2]

GivenOnce ==
    /\ \A a \in DOMAIN managers : managers[a].conn # None => Given(managers[a].conn)
    /\ \A c \in Closers : local[c].conn # None => Given(local[c].conn)
    /\ \A p \in Owners : local[p].conn # None => local[p].conn[2] = local[p].fd

\* manager.mu is kept from the match to the end of the callback, so the
\* matched connection is still recorded when its manager is looked for.
LockKept ==
    \A d \in Dialers :
        /\ pc[d] \in {"result", "session"} => mu = d
        /\ pc[d] = "result" => local[d].conn \in DOMAIN connections

\* A client manager has a dialled connection, and no closing goroutine is
\* about to remove it.
ClientManagerKept ==
    \A a \in DOMAIN managers :
        managers[a].conn # None /\ ~managers[a].server =>
            /\ ClientFdStart <= managers[a].conn[2]
            /\ \A c \in Closers :
                 pc[c] = "disconnect" => local[c].conn # managers[a].conn

IInv ==
    /\ TypeOK
    /\ LocalsSet
    /\ FdsUnique
    /\ RecordedOnce
    /\ TablesAgree
    /\ GivenOnce
    /\ ManagersMapped
    /\ LockKept
    /\ ClientManagerKept
    /\ ClientManagerConnected

-----------------------------------------------------------------------------
(* What the proofs of FinishedForgotten, TableSpec and MatchedHasManager    *)
(* know beyond IInv.                                                       *)

\* A recorded connection belongs to a goroutine, and one that is past
\* onAuthSocketDisconnected, or has unregistered its fd, left nothing behind.
RecordedHeld ==
    \A fd \in DOMAIN fdToConnId : \E p \in Owners : local[p].fd = fd

LeftBehind ==
    \A s \in Acceptors :
        /\ pc[s] \in {"unmap", "unregister", "done"} => local[s].fd \notin DOMAIN fdToConnId
        /\ pc[s] = "done" => local[s].fd \notin sockets

TableInv == IInv /\ RecordedHeld /\ LeftBehind

\* An authId is handed out once.
AuthIdsGiven ==
    /\ \A a \in DOMAIN managers \cup DOMAIN sessions : a < nextAuthId
    /\ \A c \in DOMAIN connIdToAuthId : connIdToAuthId[c] < nextAuthId
    /\ \A p \in Procs : local[p].authId # None => local[p].authId < nextAuthId

\* Only a manager that has its connection has a session or is mapped to, so
\* that neither a close nor a disconnect takes one that still waits.
InUse(a) ==
    \/ a \in DOMAIN sessions
    \/ \E c \in DOMAIN connIdToAuthId : connIdToAuthId[c] = a
    \/ \E p \in Owners : pc[p] \in {"session", "accepted"} /\ local[p].authId = a

UsedConnected == \A a \in DOMAIN managers : InUse(a) => managers[a].conn # None

\* A request is awaited from the open call that makes it to the result of
\* the connection that takes it.
Awaited(r) ==
    \/ \E o \in Openers : RequestOf[o] = r /\ pc[o] = "store"
    \/ r \in DOMAIN requests
    \/ \E d \in Dialers : pc[d] = "result" /\ local[d].req = r

AwaitedHasManager ==
    \A r \in Requests :
        Awaited(r) /\ Alone(r) =>
            \E a \in DOMAIN managers : managers[a].req = r /\ managers[a].conn = None

\* The request of one open call only has one manager.
RequestsDistinct ==
    \A a, b \in DOMAIN managers :
        /\ managers[a].req # 0
        /\ Alone(managers[a].req)
        /\ managers[a].req = managers[b].req
        => a = b

\* The request of one open call only is stored once and taken once.
TakenOnce ==
    /\ \A o \in Openers :
         pc[o] = "store" /\ Alone(RequestOf[o]) => RequestOf[o] \notin DOMAIN requests
    /\ \A d \in Dialers :
         pc[d] = "result" =>
             /\ local[d].req \in Requests
             /\ Alone(local[d].req) =>
                  /\ local[d].req \notin DOMAIN requests
                  /\ \A o \in Openers : pc[o] = "store" => RequestOf[o] # local[d].req

\* An open call has its manager, which carries its request id.  If no other
\* open call has that id, it has no other manager, and the call removes it only
\* when nobody awaits the request.
RequestsMade ==
    \A o \in Openers :
        /\ Alone(RequestOf[o]) =>
             /\ pc[o] = "idle" => \A a \in DOMAIN managers : managers[a].req # RequestOf[o]
             /\ pc[o] \in {"idle", "report", "cleanup"} => ~Awaited(RequestOf[o])
        /\ pc[o] \in {"store", "dial", "drop", "report", "cleanup"} =>
             /\ local[o].authId # None
             /\ local[o].authId \in DOMAIN managers =>
                  managers[local[o].authId].req = RequestOf[o]

RequestInv ==
    /\ IInv
    /\ AuthIdsGiven
    /\ UsedConnected
    /\ AwaitedHasManager
    /\ RequestsDistinct
    /\ TakenOnce
    /\ RequestsMade

-----------------------------------------------------------------------------
(* What the documentation in the code says and the code does not do.       *)

\* auth_manager.go:230 says the requestId is for matching the asynchronous
\* callback: the connection a manager gets is the one dialled for it.
ResultForOwnConnection ==
    \A o \in Openers :
        /\ local[o].authId \in DOMAIN managers
        /\ managers[local[o].authId].req = RequestOf[o]
        /\ managers[local[o].authId].conn # None
        => managers[local[o].authId].conn[2] = local[o].fd

\* auth_manager.go:310 says AuthDeviceCloseConn cleans the mapping at once:
\* after it has returned no manager is mapped to the connection.
CloseRemovesMapping ==
    \A c \in Closers :
        pc[c] = "done" => local[c].conn \notin DOMAIN connIdToAuthId
=============================================================================
