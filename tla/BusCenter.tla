----------------------------- MODULE BusCenter -----------------------------
(***************************************************************************)
(* The bus center (pkg/bus_center) above the authentication connections:   *)
(* JoinLNN opens a connection and is told the result through callbacks     *)
(* that frame/softbus_server.go passes on to every join there ever was; a  *)
(* device that was authenticated becomes a node of the ledger, LeaveLNN    *)
(* takes it out of service.                                                *)
(*                                                                         *)
(* The openers of AuthConn are the calls of JoinLNN, and RequestOf is the  *)
(* second of the clock that each of them reads: joins of the same second   *)
(* share a request id.  The frame leaves the NetworkID of a node empty, so *)
(* the ledger has one place.  A node is named by its authId.  The event    *)
(* callbacks, which only print, are left out.                              *)
(***************************************************************************)
EXTENDS AuthConn, FiniteSets

CONSTANTS
    Leavers,   \* goroutines that call LeaveLNN
    MaxJoins   \* how many of the openers come to make their call

ASSUME BusCenterAssumption ==
    /\ Leavers \cap Procs = {}
    /\ MaxJoins \in Nat

VARIABLES
    authCallbacks,   \* the joins whose callbacks are registered: they stay
    ownAuthId,       \* the authId that a join's open call allocated
    sessionRequest,  \* authSeq -> the RequestId of the session
    reporting,       \* sessions between AddNode and the authCallbacks
    answers,         \* per join, the results it has been called back with
    ledger,          \* the node in the ledger, or None
    online,          \* the nodes whose Status is StatusOnline
    leavePc,
    leaving          \* the node a leaver got from the ledger, local to it

joinVars  == <<authCallbacks, ownAuthId, sessionRequest, reporting, answers>>
nodeVars  == <<ledger, online>>
leaveVars == <<leavePc, leaving>>
busVars   == <<vars, joinVars, nodeVars, leaveVars>>

\* The result of a join: the authId, or None.
Failure == None

BusInit ==
    /\ Init
    /\ authCallbacks = {}
    /\ ownAuthId = [o \in Openers |-> None]
    /\ sessionRequest = EmptyMap
    /\ reporting = {}
    /\ answers = [o \in Openers |-> {}]
    /\ ledger = None
    /\ online = {}
    /\ leavePc = [l \in Leavers |-> "idle"]
    /\ leaving = [l \in Leavers |-> None]

-----------------------------------------------------------------------------
(* Joining.                                                                *)

\* RegisterAuthCallback, and AuthDeviceOpenConn up to its first lock.
JoinLNN(o) ==
    /\ Cardinality(authCallbacks) < MaxJoins
    /\ OpenConn(o)
    /\ authCallbacks' = authCallbacks \cup {o}
    /\ ownAuthId' = [ownAuthId EXCEPT ![o] = nextAuthId]
    /\ UNCHANGED <<sessionRequest, reporting, answers, nodeVars, leaveVars>>

\* A goroutine for each registered callback, which in its own time calls the
\* JoinLNNCallback if the request is its own.
\* Mutant: the callback does not compare the request ids.
NotifyEverybody(r, result) ==
    answers' = [o \in Openers |->
                  IF o \in authCallbacks THEN answers[o] \cup {result} ELSE answers[o]]
Notify(r, result) ==
    answers' = [o \in Openers |->
                  IF o \in authCallbacks /\ RequestOf[o] = r
                  THEN answers[o] \cup {result} ELSE answers[o]]

\* onAuthConnectResult with an error, and OnConnOpenFailed if it found a
\* manager.
\* Mutant: nobody is told.
FailSilently(o) ==
    /\ ReportFailure(o)
    /\ UNCHANGED <<joinVars, nodeVars, leaveVars>>
JoinFails(o) ==
    /\ ReportFailure(o)
    /\ \/ managers' # managers /\ Notify(RequestOf[o], Failure)
       \/ managers' = managers /\ UNCHANGED answers
    /\ UNCHANGED <<authCallbacks, ownAuthId, sessionRequest, reporting, nodeVars,
                   leaveVars>>

\* AuthSessionStartAuth gives a new session the request id it was called with.
JoinStartsSession(d) ==
    /\ StartSession(d)
    /\ \/ /\ local[d].authId \in DOMAIN sessions
          /\ Notify(local[d].req, Failure)
          /\ UNCHANGED sessionRequest
       \/ /\ local[d].authId \notin DOMAIN sessions
          /\ sessionRequest' = Put(sessionRequest, local[d].authId, local[d].req)
          /\ \/ sessions'[local[d].authId] = {} /\ UNCHANGED answers
             \/ sessions'[local[d].authId] # {} /\ Notify(local[d].req, Failure)
    /\ UNCHANGED <<authCallbacks, ownAuthId, reporting, nodeVars, leaveVars>>

AcceptStartsSession(s) ==
    /\ StartServerSession(s)
    /\ sessionRequest' = Put(sessionRequest, local[s].authId, 0)
    /\ UNCHANGED <<authCallbacks, ownAuthId, reporting, answers,
                   nodeVars, leaveVars>>

\* OnError and NotifyAuthFailed; or OnFinish, OnConnOpened and
\* NotifyNodeOnline, which puts the node in the place of the last one.  The
\* goroutine that reads the connection reports one result at a time.
AuthResult(a) ==
    /\ a \notin reporting
    /\ \/ /\ AuthDone(a, "failed")
          /\ Notify(sessionRequest[a], Failure)
          /\ UNCHANGED <<reporting, nodeVars>>
       \/ /\ AuthDone(a, "done")
          /\ reporting' = reporting \cup {a}
          /\ ledger' = a
          /\ online' = online \cup {a}
          /\ UNCHANGED answers
    /\ UNCHANGED <<authCallbacks, ownAuthId, sessionRequest, leaveVars>>

NotifyAuthSuccess(a) ==
    /\ a \in reporting
    /\ reporting' = reporting \ {a}
    /\ Notify(sessionRequest[a], a)
    /\ UNCHANGED <<vars, authCallbacks, ownAuthId, sessionRequest, nodeVars, leaveVars>>

-----------------------------------------------------------------------------
(* LeaveLNN: NotifyNodeOffline, which takes the node from the ledger,      *)
(* changes it, and then changes the one that is in the ledger.             *)

LeaveLNN(l) ==
    /\ leavePc[l] = "idle"
    /\ ledger # None
    /\ leaving' = [leaving EXCEPT ![l] = ledger]
    /\ leavePc' = [leavePc EXCEPT ![l] = "mark"]
    /\ UNCHANGED <<vars, joinVars, nodeVars>>

MarkOffline(l) ==
    /\ leavePc[l] = "mark"
    /\ online' = online \ {leaving[l]}
    /\ leavePc' = [leavePc EXCEPT ![l] = "update"]
    /\ UNCHANGED <<vars, joinVars, ledger, leaving>>

UpdateNodeStatus(l) ==
    /\ leavePc[l] = "update"
    /\ online' = online \ {ledger}
    /\ leavePc' = [leavePc EXCEPT ![l] = "done"]
    /\ UNCHANGED <<vars, joinVars, ledger, leaving>>

-----------------------------------------------------------------------------
LeaverStep(l) == MarkOffline(l) \/ UpdateNodeStatus(l)

Unseen == UNCHANGED <<joinVars, nodeVars, leaveVars>>

\* The steps of AuthConn that the bus center does not see.  A goroutine that
\* reports a result does nothing else.
ConnStep ==
    /\ \/ \E o \in Openers : StoreRequest(o) \/ DropRequest(o) \/ CleanupManager(o)
       \/ \E h \in ChannelOpeners : OpenChannel(h) \/ CloseChannel(h)
       \/ \E d \in Dialers :
            \/ DialOk(d) \/ DialFail(d) \/ MatchRequest(d) \/ NoRequest(d)
            \/ ConnectResult(d)
       \/ \E s \in Acceptors :
            /\ local[s].authId \notin reporting
            /\ \/ Accept(s) \/ GetConnInfo(s) \/ InsertServerConn(s) \/ ReceiveSdk(s)
               \/ Deliver(s) \/ ReadFails(s) \/ ForgetConn(s) \/ UnmapManager(s)
               \/ Unregister(s)
       \/ \E s \in Acceptors : StopListener(s)
       \/ \E c \in Closers : CloseConn(c) \/ CloserStep(c)
    /\ Unseen

BusNext ==
    \/ \E o \in Openers : JoinLNN(o) \/ JoinFails(o)
    \/ \E d \in Dialers : JoinStartsSession(d)
    \/ \E s \in Acceptors : AcceptStartsSession(s)
    \/ \E a \in DOMAIN sessions : AuthResult(a) \/ NotifyAuthSuccess(a)
    \/ \E l \in Leavers : LeaveLNN(l) \/ LeaverStep(l)
    \/ ConnStep

BusSpec == BusInit /\ [][BusNext]_busVars

\* What a goroutine that dials does once it has begun its call.
CallStep(d) ==
    \/ JoinFails(d)
    \/ JoinStartsSession(d)
    \/ /\ \/ StoreRequest(d) \/ DropRequest(d) \/ CleanupManager(d)
          \/ DialOk(d) \/ DialFail(d) \/ MatchRequest(d) \/ NoRequest(d)
          \/ ConnectResult(d)
       /\ Unseen

\* A call that has begun is scheduled until it returns, and so are the
\* goroutines of the callbacks.
BusFairness ==
    /\ \A d \in Dialers : WF_busVars(CallStep(d))
    /\ \A c \in Closers : WF_busVars(CloserStep(c) /\ Unseen)
    /\ WF_busVars(\E a \in reporting : NotifyAuthSuccess(a))
    /\ \A l \in Leavers : WF_busVars(LeaverStep(l))

FairBusSpec == BusSpec /\ BusFairness

-----------------------------------------------------------------------------
\* A success that a join is told of is that of its own open call, or that of
\* another join of the same second: although the result comes from a session on
\* a connection that any join may have dialled, and every join's callback hears
\* of it.
SuccessIsOwn ==
    \A o \in Openers : \A a \in answers[o] \ {Failure} :
        \E p \in Openers : RequestOf[p] = RequestOf[o] /\ ownAuthId[p] = a

\* A join whose call returned an error is told a result too, also when the
\* manager of its request has gone to another connection, or to another join of
\* the same second, in the meantime.
FailureIsTold ==
    <>[](\A o \in Openers : pc[o] = "failed" => answers[o] # {})

-----------------------------------------------------------------------------
(* The parts of the inductive invariant behind SuccessIsOwn.               *)

\* Keys, values and local variables have their types; every session has a
\* request.
BusTypeOK ==
    /\ authCallbacks \subseteq Openers
    /\ ownAuthId \in [Openers -> Nat \cup {None}]
    /\ IsMap(sessionRequest, Nat, Nat)
    /\ DOMAIN sessionRequest = DOMAIN sessions
    /\ reporting \subseteq DOMAIN sessions
    /\ answers \in [Openers -> SUBSET (Nat \cup {None})]
    /\ ledger \in Nat \cup {None}
    /\ online \subseteq Nat
    /\ leavePc \in [Leavers -> {"idle", "mark", "update", "done"}]
    /\ leaving \in [Leavers -> Nat \cup {None}]

\* The manager a was made by an open call with the request id r; 0 is the
\* request id of those that no open call made.
MadeFor(a, r) == r # 0 => \E o \in Openers : RequestOf[o] = r /\ ownAuthId[o] = a

\* So are the manager, the goroutine, the session and the success that carry a
\* request id.
OwnRequests ==
    /\ \A o \in Openers : pc[o] = "idle" => ownAuthId[o] = None
    /\ \A a \in DOMAIN managers : MadeFor(a, managers[a].req)
    /\ \A d \in Dialers : pc[d] = "session" => MadeFor(local[d].authId, local[d].req)
    /\ \A a \in DOMAIN sessionRequest : MadeFor(a, sessionRequest[a])
    /\ \A o \in Openers : \A a \in answers[o] \ {Failure} : MadeFor(a, RequestOf[o])

BusInv ==
    /\ IInv
    /\ BusTypeOK
    /\ OwnRequests

-----------------------------------------------------------------------------
(* What NotifyNodeOffline is meant to do.                                  *)

\* Only the node that was taken from the ledger goes offline.
OnlineUntilLeft ==
    ledger # None /\ ledger \notin online => \E l \in Leavers : leaving[l] = ledger
=============================================================================
