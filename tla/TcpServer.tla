----------------------------- MODULE TcpServer -----------------------------
(***************************************************************************)
(* The listening side of pkg/utils/tcp_connection: BaseServer (server.go)  *)
(* with its accept loop and one goroutine per connection, over the         *)
(* ConnectionManager (manager.go) it shares with the dialled connections,  *)
(* started and stopped by StartSocketListening and StopSocketListening of  *)
(* auth_tcp_connection.go.                                                 *)
(*                                                                         *)
(* An action is one critical section of the manager, one channel or        *)
(* listener operation, or one callback.  Callbacks return: what they do is *)
(* AuthConn's subject.                                                     *)
(***************************************************************************)
EXTENDS Naturals, FiniteSets, GoMaps

CONSTANTS
    Conns,           \* inbound connections; each has a handler goroutine
    Clients,         \* dialled connections in the same ConnectionManager
    ServerFdStart,
    ClientFdStart,
    None

NetConns == Conns \cup Clients

ASSUME TcpServerAssumption ==
    /\ Conns \cap Clients = {}
    /\ ServerFdStart \in Nat
    /\ ClientFdStart \in Nat
    /\ None \notin Nat
    /\ None \notin NetConns
    /\ "acceptLoop" \notin NetConns

VARIABLES
    stopChan,      \* "open" or "closed"
    listener,      \* "open" or "closed"
    wg,            \* the goroutines counted by the WaitGroup
    acceptPc,      \* acceptLoop
    stopPc,        \* StartSocketListening / StopBaseListener
    snapshot,      \* fds StopBaseListener still has to look at
    target,        \* the fd StopBaseListener is about to unregister
    connMap,       \* fd -> net.Conn; connTypeMap is its type
    serverNextFd,
    clientNextFd,
    open,          \* net.Conns that are not closed on this side
    pc,            \* handleConnection, or the life of a dialled connection
    fdOf           \* local variable fd of that goroutine

serverVars == <<stopChan, listener, wg, acceptPc>>
stopVars   == <<stopPc, snapshot, target>>
mgrVars    == <<connMap, serverNextFd, clientNextFd>>
handlerVars == <<pc, fdOf>>
vars == <<serverVars, stopVars, mgrVars, open, handlerVars>>

Goto(c, label) == pc' = [pc EXCEPT ![c] = label]

\* connTypeMap is written and deleted together with connMap.
IsServerFd(fd) == fd \in DOMAIN connMap /\ connMap[fd] \in Conns

\* Mutant: the entry is deleted and the connection is left open.
UnregisterKeepOpen(fd) ==
    /\ connMap' = Del(connMap, fd)
    /\ UNCHANGED open
\* UnregisterConn closes whatever connection is registered under the fd.
UnregisterConn(fd) ==
    /\ open' = IF fd \in DOMAIN connMap THEN open \ {connMap[fd]} ELSE open
    /\ connMap' = Del(connMap, fd)

Init ==
    /\ stopChan = "open"
    /\ listener = "closed"
    /\ wg = {}
    /\ acceptPc = "exited"
    /\ stopPc = "stopped"
    /\ snapshot = {}
    /\ target = None
    /\ connMap = EmptyMap
    /\ serverNextFd = ServerFdStart
    /\ clientNextFd = ClientFdStart
    /\ open = {}
    /\ pc = [c \in NetConns |-> "none"]
    /\ fdOf = [c \in NetConns |-> None]

-----------------------------------------------------------------------------
\* StartSocketListening: a fresh BaseServer over the old ConnectionManager.
Start ==
    /\ stopPc = "stopped"
    /\ stopPc' = "running"
    /\ stopChan' = "open"
    /\ listener' = "open"
    /\ wg' = {"acceptLoop"}
    /\ acceptPc' = "check"
    /\ UNCHANGED <<snapshot, target, mgrVars, open, handlerVars>>

(* acceptLoop *)

AcceptCheck ==
    /\ acceptPc = "check"
    /\ acceptPc' = IF stopChan = "closed" THEN "done" ELSE "accept"
    /\ UNCHANGED <<stopChan, listener, wg, stopVars, mgrVars, open, handlerVars>>

\* Mutant: wg.Add(1) is left to the new goroutine.
AcceptUncounted(c) ==
    /\ acceptPc = "accept"
    /\ listener = "open"
    /\ pc[c] = "none"
    /\ open' = open \cup {c}
    /\ Goto(c, "alloc")
    /\ acceptPc' = "check"
    /\ UNCHANGED <<stopChan, listener, wg, stopVars, mgrVars, fdOf>>
Accept(c) ==
    /\ acceptPc = "accept"
    /\ listener = "open"
    /\ pc[c] = "none"
    /\ open' = open \cup {c}
    /\ wg' = wg \cup {c}
    /\ Goto(c, "alloc")
    /\ acceptPc' = "check"
    /\ UNCHANGED <<stopChan, listener, stopVars, mgrVars, fdOf>>

\* Accept returns an error: always when the listener is closed, and now and
\* then when it is not.
AcceptError ==
    /\ acceptPc = "accept"
    /\ acceptPc' = IF stopChan = "closed" THEN "done" ELSE "check"
    /\ UNCHANGED <<stopChan, listener, wg, stopVars, mgrVars, open, handlerVars>>

AcceptExit ==
    /\ acceptPc = "done"
    /\ wg' = wg \ {"acceptLoop"}
    /\ acceptPc' = "exited"
    /\ UNCHANGED <<stopChan, listener, stopVars, mgrVars, open, handlerVars>>

-----------------------------------------------------------------------------
(* handleConnection and handleDataEvents *)

AllocateServerFd(c) ==
    /\ pc[c] = "alloc"
    /\ fdOf' = [fdOf EXCEPT ![c] = serverNextFd]
    /\ serverNextFd' = serverNextFd + 1
    /\ Goto(c, "register")
    /\ UNCHANGED <<serverVars, stopVars, connMap, clientNextFd, open>>

Register(c) ==
    /\ pc[c] = "register"
    /\ connMap' = Put(connMap, fdOf[c], c)
    /\ Goto(c, IF c \in Conns THEN "connected" ELSE "established")
    /\ UNCHANGED <<serverVars, stopVars, serverNextFd, clientNextFd, open, fdOf>>

OnConnected(c) ==
    /\ pc[c] = "connected"
    /\ Goto(c, "check")
    /\ UNCHANGED <<serverVars, stopVars, mgrVars, open, fdOf>>

\* Mutant: the loop reads without looking at stopChan first.
CheckNothing(c) ==
    /\ pc[c] = "check"
    /\ Goto(c, "read")
    /\ UNCHANGED <<serverVars, stopVars, mgrVars, open, fdOf>>
CheckStop(c) ==
    /\ pc[c] = "check"
    /\ Goto(c, IF stopChan = "closed" THEN "report" ELSE "read")
    /\ UNCHANGED <<serverVars, stopVars, mgrVars, open, fdOf>>

\* Data arrives; OnDataReceived accepts it, or its result or a full buffer
\* ends the connection.
ReadData(c) ==
    /\ pc[c] = "read"
    /\ c \in open
    /\ \E next \in {"check", "report"} : Goto(c, next)
    /\ UNCHANGED <<serverVars, stopVars, mgrVars, open, fdOf>>

\* Read fails: closed by the peer or the network, or on this side.
\* Mutant: the loop tries again.
ReadFailsAndRetries(c) ==
    /\ pc[c] = "read"
    /\ Goto(c, "check")
    /\ UNCHANGED <<serverVars, stopVars, mgrVars, open, fdOf>>
ReadFails(c) ==
    /\ pc[c] = "read"
    /\ Goto(c, "report")
    /\ UNCHANGED <<serverVars, stopVars, mgrVars, open, fdOf>>

OnDisconnected(c) ==
    /\ pc[c] = "report"
    /\ Goto(c, "unregister")
    /\ UNCHANGED <<serverVars, stopVars, mgrVars, open, fdOf>>

\* The deferred calls, last one first.
Unregister(c) ==
    /\ pc[c] = "unregister"
    /\ UnregisterConn(fdOf[c])
    /\ Goto(c, "close")
    /\ UNCHANGED <<serverVars, stopVars, serverNextFd, clientNextFd, fdOf>>

Close(c) ==
    /\ pc[c] = "close"
    /\ open' = open \ {c}
    /\ wg' = wg \ {c}
    /\ Goto(c, "done")
    /\ UNCHANGED <<stopChan, listener, acceptPc, stopVars, mgrVars, fdOf>>

-----------------------------------------------------------------------------
(* The other users of the ConnectionManager: BaseClient registers what it  *)
(* dialled, and SocketDisconnectDevice unregisters any fd at any time.     *)

AllocateClientFd(k) ==
    /\ pc[k] = "none"
    /\ fdOf' = [fdOf EXCEPT ![k] = clientNextFd]
    /\ clientNextFd' = clientNextFd + 1
    /\ open' = open \cup {k}
    /\ Goto(k, "register")
    /\ UNCHANGED <<serverVars, stopVars, connMap, serverNextFd>>

DisconnectDevice(c) ==
    /\ fdOf[c] \in DOMAIN connMap
    /\ UnregisterConn(fdOf[c])
    /\ UNCHANGED <<serverVars, stopVars, serverNextFd, clientNextFd, handlerVars>>

-----------------------------------------------------------------------------
(* StopBaseListener *)

Stop ==
    /\ stopPc = "running"
    /\ stopChan' = "closed"
    /\ stopPc' = "closeListener"
    /\ UNCHANGED <<listener, wg, acceptPc, snapshot, target, mgrVars, open, handlerVars>>

CloseListener ==
    /\ stopPc = "closeListener"
    /\ listener' = "closed"
    /\ stopPc' = "snapshot"
    /\ UNCHANGED <<stopChan, wg, acceptPc, snapshot, target, mgrVars, open, handlerVars>>

GetAllFds ==
    /\ stopPc = "snapshot"
    /\ snapshot' = DOMAIN connMap
    /\ stopPc' = "getType"
    /\ UNCHANGED <<serverVars, target, mgrVars, open, handlerVars>>

GetConnType ==
    /\ stopPc = "getType"
    /\ \/ \E fd \in snapshot :
            /\ snapshot' = snapshot \ {fd}
            /\ IF IsServerFd(fd)
               THEN target' = fd /\ stopPc' = "unregister"
               ELSE UNCHANGED <<target, stopPc>>
       \/ /\ snapshot = {}
          /\ stopPc' = "wait"
          /\ UNCHANGED <<snapshot, target>>
    /\ UNCHANGED <<serverVars, mgrVars, open, handlerVars>>

UnregisterTarget ==
    /\ stopPc = "unregister"
    /\ UnregisterConn(target)
    /\ target' = None
    /\ stopPc' = "getType"
    /\ UNCHANGED <<serverVars, snapshot, serverNextFd, clientNextFd, handlerVars>>

Wait ==
    /\ stopPc = "wait"
    /\ wg = {}
    /\ stopPc' = "stopped"
    /\ UNCHANGED <<serverVars, snapshot, target, mgrVars, open, handlerVars>>

-----------------------------------------------------------------------------
HandlerStep(c) ==
    \/ AllocateServerFd(c)
    \/ OnConnected(c)
    \/ CheckStop(c)
    \/ OnDisconnected(c)
    \/ Unregister(c)
    \/ Close(c)

StopStep == CloseListener \/ GetAllFds \/ GetConnType \/ UnregisterTarget \/ Wait

Next ==
    \/ Start \/ Stop \/ StopStep
    \/ AcceptCheck \/ AcceptError \/ AcceptExit
    \/ \E c \in Conns : Accept(c) \/ HandlerStep(c) \/ ReadData(c) \/ ReadFails(c)
    \/ \E k \in Clients : AllocateClientFd(k)
    \/ \E c \in NetConns : Register(c) \/ DisconnectDevice(c)

Spec == Init /\ [][Next]_vars

\* Goroutines are scheduled, and a blocked Accept or Read returns when its
\* listener or connection has been closed.  Start and Stop are called, and
\* connections and data arrive, or not.
Fairness ==
    /\ WF_vars(StopStep)
    /\ WF_vars(AcceptCheck \/ AcceptExit)
    /\ WF_vars(listener = "closed" /\ AcceptError)
    /\ \A c \in Conns : WF_vars(HandlerStep(c)) /\ WF_vars(c \notin open /\ ReadFails(c))
    /\ \A c \in NetConns : WF_vars(Register(c))

FairSpec == Spec /\ Fairness

-----------------------------------------------------------------------------
Running(c) == pc[c] \notin {"none", "done"}

TypeOK ==
    /\ stopChan \in {"open", "closed"}
    /\ listener \in {"open", "closed"}
    /\ wg \subseteq Conns \cup {"acceptLoop"}
    /\ acceptPc \in {"check", "accept", "done", "exited"}
    /\ stopPc \in {"stopped", "running", "closeListener", "snapshot", "getType",
                   "unregister", "wait"}
    /\ snapshot \subseteq Nat
    /\ target \in Nat \cup {None}
    /\ IsMap(connMap, Nat, NetConns)
    /\ serverNextFd \in Nat
    /\ clientNextFd \in Nat
    /\ open \subseteq NetConns
    /\ pc \in [NetConns -> {"none", "alloc", "register", "connected", "check", "read",
                            "report", "unregister", "close", "done", "established"}]
    /\ fdOf \in [NetConns -> Nat \cup {None}]

\* When StopBaseListener has returned, no handler is left, every accepted
\* connection is closed and none is registered: also those accepted while it
\* was stopping, which its snapshot of the fds cannot contain.
StoppedClean ==
    stopPc = "stopped" =>
        /\ acceptPc = "exited"
        /\ \A c \in Conns : ~Running(c) /\ c \notin open
        /\ \A fd \in DOMAIN connMap : ~IsServerFd(fd)

\* The fd a connection was given leads to that connection, and the entry goes
\* together with the connection: whoever unregisters the fd closes it.
FdLeadsToConn ==
    \A c \in Conns :
        pc[c] \in {"connected", "check", "read", "report", "unregister"} =>
            /\ fdOf[c] \in DOMAIN connMap => connMap[fdOf[c]] = c
            /\ fdOf[c] \in DOMAIN connMap <=> c \in open

\* StopBaseListener returns, whenever it is called: a handler registered
\* before the snapshot gets a read error, a later one sees stopChan.
StopReturns == stopPc \notin {"stopped", "running"} ~> stopPc = "stopped"

\* A connection that was unregistered by an upper layer is reported to
\* OnDisconnected and its goroutine ends.
DisconnectedHandlerEnds ==
    \A c \in Conns : Running(c) /\ c \notin open ~> pc[c] = "done"

-----------------------------------------------------------------------------
(* The parts of the inductive invariant behind the safety properties.      *)

InLoop == {"connected", "check", "read", "report", "unregister"}

\* The WaitGroup counts exactly the goroutines that have not ended.
WgCounts ==
    /\ wg = {c \in Conns : Running(c)}
              \cup {g \in {"acceptLoop"} : acceptPc # "exited"}
    /\ stopPc = "stopped" => wg = {}

OpenRunning ==
    \A c \in Conns :
        /\ c \in open => Running(c)
        /\ pc[c] \in {"alloc", "register"} => c \in open

\* A server connection in the table is the one of a handler in its loop.
MapOwned ==
    \A fd \in DOMAIN connMap :
        /\ fdOf[connMap[fd]] = fd
        /\ connMap[fd] \in Conns => pc[connMap[fd]] \in InLoop
        /\ connMap[fd] \in Clients => pc[connMap[fd]] = "established"

FdsAllocated ==
    /\ \A c \in NetConns : fdOf[c] = None <=> pc[c] \in {"none", "alloc"}
    /\ \A c \in Conns : pc[c] # "established"
    /\ \A k \in Clients : pc[k] \in {"none", "register", "established"}
    /\ \A c \in Conns :
         fdOf[c] # None => ServerFdStart <= fdOf[c] /\ fdOf[c] < serverNextFd
    /\ \A k \in Clients :
         fdOf[k] # None => ClientFdStart <= fdOf[k] /\ fdOf[k] < clientNextFd
    /\ \A c, d \in Conns : fdOf[c] # None /\ fdOf[c] = fdOf[d] => c = d
    /\ ServerFdStart <= serverNextFd /\ ClientFdStart <= clientNextFd

\* Until the server fds reach the client range no fd has two owners, and
\* every entry leads to its connection.
RangesApart == serverNextFd <= ClientFdStart

IInv ==
    /\ TypeOK
    /\ WgCounts
    /\ OpenRunning
    /\ MapOwned
    /\ FdsAllocated
    /\ RangesApart => FdLeadsToConn

\* StopBaseListener at wg.Wait waits for nobody who waits for the network: the
\* accept loop is not blocked in Accept and no handler in a Read, because the
\* listener and the connection they block on have been closed on this side.
StopUnblocks ==
    stopPc = "wait" =>
        /\ acceptPc = "accept" => listener = "closed"
        /\ \A c \in Conns : pc[c] = "read" => c \notin open

\* A handler blocked in Read that StopBaseListener still has to look at.
StillToClose(c) == fdOf[c] \in snapshot \/ (stopPc = "unregister" /\ fdOf[c] = target)

\* How far StopBaseListener is, and what it has already closed.
StopProgress ==
    /\ stopPc \notin {"stopped", "running"} => stopChan = "closed"
    /\ stopPc \in {"snapshot", "getType", "unregister", "wait"} => listener = "closed"
    /\ stopPc \in {"getType", "unregister", "wait"} =>
         \A c \in Conns : pc[c] = "read" /\ c \in open => StillToClose(c)
    /\ stopPc = "wait" => snapshot = {}

-----------------------------------------------------------------------------
(* What the documentation says of the two fd ranges.                       *)

\* tcp_connection/README.md:8 says the two start values avoid conflicts: two
\* registered connections never have the same fd.
FdsDoNotConflict ==
    \A c, d \in NetConns : c # d /\ {c, d} \subseteq open /\ fdOf[c] # None
        => fdOf[c] # fdOf[d]
=============================================================================
