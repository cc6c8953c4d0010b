---------------------------- MODULE AuthSession ----------------------------
(***************************************************************************)
(* Authentication sessions between devices that run dsoftbus-go:           *)
(* auth_session.go on top of the HiChain service, with the part of         *)
(* auth_manager.go that creates sessions and routes AUTH_SDK packets.      *)
(*                                                                         *)
(* A connection of two such devices has a dialling handler, which starts a *)
(* session when it is connected, and an accepting one, which starts one    *)
(* with the first packet.  Each numbers its sessions by itself.            *)
(***************************************************************************)
EXTENDS HiChain

CONSTANTS
    Dialers,     \* the handlers of dialled connections
    Acceptors,   \* the handlers of accepted connections
    InitialSeq,  \* AuthManagerInitialSeq
    Breakable,   \* the dialled connections that may break
    MaxSeq       \* bound: no dial fails once a counter is here

ASSUME AuthSessionAssumption ==
    /\ Dialers \cap Acceptors = {}
    /\ Dialers \cup Acceptors \subseteq Handlers
    /\ \A p \in Dialers : Peer[p] \in Acceptors
    /\ InitialSeq \in Nat
    /\ MaxSeq \in Nat

VARIABLE seqCounter   \* device -> the last authSeq given

sessionVars == <<hichainVars, seqCounter>>

SessionInit ==
    /\ HiChainInit
    /\ seqCounter = [d \in Devices |-> InitialSeq]

\* OnTransmit posts to the connection of the session with Seq = authReqId.
SessionCallback(d, seq) == [conn |-> sessions[d][seq].conn, seq |-> seq, session |-> seq]

\* AuthSessionStartAuth up to the state machine.
NewSession(p, seq, server, state) ==
    sessions' = [sessions EXCEPT ![DeviceOf[p]] =
                    Put(@, seq, [conn |-> p, server |-> server, state |-> state])]

\* The context of startHiChainAuth, with the authSeq as key and RequestID.
SetContext(d, key, p) ==
    contexts' = [contexts EXCEPT ![d] = Put(@, key, [req |-> key, conn |-> p])]

-----------------------------------------------------------------------------
\* An AuthDeviceOpenConn whose dial fails has used up an authSeq.
DialFails(d) ==
    /\ seqCounter[d] < MaxSeq
    /\ seqCounter' = [seqCounter EXCEPT ![d] = @ + 1]
    /\ UNCHANGED hichainVars

\* onAuthConnectResult of a dialled connection: a session in state DeviceAuth
\* that authenticates at once.
Connected(p) ==
    LET d == DeviceOf[p]
        seq == seqCounter[d] + 1
    IN  /\ pc[p] = "idle"
        /\ seqCounter' = [seqCounter EXCEPT ![d] = seq]
        /\ NewSession(p, seq, FALSE, "auth")
        /\ SetContext(d, seq, p)
        /\ local' = [local EXCEPT ![p] =
               [NoLocal EXCEPT !.key = seq, !.cb = [conn |-> p, seq |-> seq, session |-> seq]]]
        /\ Goto(p, "auth")
        /\ UNCHANGED <<serviceVars, net, open>>

Accepted(p) ==
    /\ pc[p] = "idle"
    /\ Goto(p, "reading")
    /\ UNCHANGED <<serviceVars, callerVars, net, open, local, seqCounter>>

HasSession(p) == \E s \in DOMAIN sessions[DeviceOf[p]] : sessions[DeviceOf[p]][s].conn = p

\* onAuthDataReceived takes the next AUTH_SDK packet; an accepted connection
\* gets its session with the first one.
ReadSdk(p) ==
    LET d == DeviceOf[p]
    IN  /\ pc[p] = "reading"
        /\ net[p] # <<>>
        /\ net' = [net EXCEPT ![p] = Tail(@)]
        /\ local' = [local EXCEPT ![p].msg = Head(net[p])]
        /\ \/ /\ HasSession(p)
              /\ UNCHANGED <<sessions, seqCounter>>
           \/ /\ ~HasSession(p)
              /\ seqCounter' = [seqCounter EXCEPT ![d] = @ + 1]
              /\ NewSession(p, seqCounter[d] + 1, TRUE, "sync")
        /\ Goto(p, "route")
        /\ UNCHANGED <<serviceVars, contexts, open>>

\* session.mu of a dialled session is held until its AUTH_START is sent.
SessionFree(d, seq) ==
    \A q \in Dialers : DeviceOf[q] = d /\ pc[q] \in {"auth", "start"} /\ local[q].key = seq
                       => local[q].then # None

\* Mutant: the session goes on waiting for its first packet.
RouteAgain(p) ==
    LET d == DeviceOf[p]
        seq == local[p].msg.seq
    IN  /\ pc[p] = "route"
        /\ seq \in DOMAIN sessions[d]
        /\ SessionFree(d, seq)
        /\ IF sessions[d][seq].server
           THEN /\ SetContext(d, seq, sessions[d][seq].conn)
                /\ Goto(p, "auth")
           ELSE /\ UNCHANGED contexts
                /\ Goto(p, "lookup")
        /\ local' = [local EXCEPT ![p].key = seq,
                                  ![p].cb = SessionCallback(d, seq),
                                  ![p].then = IF sessions[d][seq].server THEN "lookup" ELSE None]
        /\ UNCHANGED <<serviceVars, sessions, net, open, seqCounter>>

\* AuthSessionProcessAuthData: the session is the one head.Seq names.  The
\* first packet of an accepting session starts an authentication of its own
\* before it is processed.
Route(p) ==
    LET d == DeviceOf[p]
        seq == local[p].msg.seq
    IN  /\ pc[p] = "route"
        /\ seq \in DOMAIN sessions[d]
        /\ SessionFree(d, seq)
        /\ \/ /\ sessions[d][seq].server /\ sessions[d][seq].state = "sync"
              /\ sessions' = [sessions EXCEPT ![d][seq].state = "auth"]
              /\ SetContext(d, seq, sessions[d][seq].conn)
              /\ local' = [local EXCEPT ![p].key = seq,
                                        ![p].cb = SessionCallback(d, seq),
                                        ![p].then = "lookup"]
              /\ Goto(p, "auth")
           \/ /\ ~(sessions[d][seq].server /\ sessions[d][seq].state = "sync")
              /\ local' = [local EXCEPT ![p].key = seq, ![p].cb = SessionCallback(d, seq)]
              /\ Goto(p, "lookup")
              /\ UNCHANGED callerVars
        /\ UNCHANGED <<serviceVars, net, open, seqCounter>>

\* "auth session not found": the packet is dropped.
RouteNowhere(p) ==
    /\ pc[p] = "route"
    /\ local[p].msg.seq \notin DOMAIN sessions[DeviceOf[p]]
    /\ Return(p)
    /\ UNCHANGED <<serviceVars, callerVars, net, open, seqCounter>>

\* The connection breaks; each side notices when it reads or sends.
Break(p) ==
    /\ p \in Breakable \cap open
    /\ pc[p] # "idle"
    /\ open' = open \ {p, Peer[p]}
    /\ UNCHANGED <<serviceVars, callerVars, net, procVars, seqCounter>>

SessionStep(p) ==
    \/ ReadSdk(p)
    \/ Route(p)
    \/ RouteNowhere(p)
    \/ ServiceStep(p) /\ UNCHANGED seqCounter

SessionNext ==
    \/ \E d \in Devices : DialFails(d)
    \/ \E p \in Dialers : Connected(p)
    \/ \E p \in Acceptors : Accepted(p)
    \/ \E p \in Dialers \cup Acceptors : SessionStep(p)
    \/ \E p \in Dialers : Break(p)

SessionSpec == SessionInit /\ [][SessionNext]_sessionVars

\* A handler goes on reading and finishes what it has begun.
SessionFairness ==
    \A p \in Dialers \cup Acceptors : WF_sessionVars(SessionStep(p))

SessionFairSpec == SessionSpec /\ SessionFairness

-----------------------------------------------------------------------------
Labels == {"idle", "reading", "route", "auth", "start", "lookup", "drop",
           "record", "create", "receive", "cleanup", "closed",
           "createGroup", "addMember", "answer"}

Nonces    == (Devices \X Nat \X Nat) \cup (Clients \X Nat) \cup {None}
Proofs    == (Nonces \X Nonces) \cup {None}
Types     == {"AuthStart", "PakeRequest", "PakeResponse", "ClientConfirm",
              "ServerConfirm", "ExchangeRequest", "ExchangeResponse", "Error",
              "AuthConfirm", "AuthRefuse",
              "Negotiate", "RespNegotiate", "RespAuthed", "ReqAuth", "RespAuth"}
Callbacks == [conn : Handlers, seq : Nat, session : Nat \cup {None}]
Packets   == [seq : Nat, type : Types, req : Nat \cup {None}, nonce : Nonces, proof : Proofs]
HandleRecords == [role : {"controller", "accessory"}, key : Nat, cb : Callbacks,
                  state : {"init", "started", "authenticating", "completed", "failed"},
                  nonce : Nat, sessionKey : Proofs, returned : Proofs]

SessionRecords == [conn : Dialers \cup Acceptors, server : BOOLEAN,
                   state : {"sync", "auth", "done", "failed"}]
LocalRecords == [key : Nat \cup {None}, cb : Callbacks \cup {None}, msg : Packets \cup {None},
                 handle : Nat \cup {None}, then : {"lookup", None}]

\* The tables of the service, the sessions and the packets on the wire have
\* the types of the code.
TypeOK ==
    /\ DOMAIN instances = Devices /\ DOMAIN dmRequestIds = Devices
    /\ DOMAIN contexts = Devices /\ DOMAIN sessions = Devices
    /\ handles \in [Devices -> Seq(HandleRecords)]
    /\ \A d \in Devices :
         /\ IsMap(instances[d], Nat, DOMAIN handles[d])
         /\ IsMap(dmRequestIds[d], Nat, Nat)
         /\ IsMap(contexts[d], Nat, [req : Nat, conn : Handlers])
         /\ IsMap(sessions[d], Nat, SessionRecords)
    /\ seqCounter \in [Devices -> Nat]
    /\ net \in [Ends -> Seq(Packets)]
    /\ open \subseteq Ends
    /\ pc \in [Handlers -> Labels]
    /\ local \in [Handlers -> LocalRecords]

\* A session sends AUTH_START at most once, although the handlers of several
\* connections may find it waiting for its first packet.
Starts(d, s) ==
    {h \in DOMAIN handles[d] : handles[d][h].role = "controller" /\ handles[d][h].key = s}

OneStart ==
    \A d \in Devices : \A s \in DOMAIN sessions[d] :
        \A g, h \in Starts(d, s) : g = h

\* Two devices answer an authentication request with a request of their own,
\* but not for ever: once the dialling and breaking stops, the wire is quiet.
ExchangeEnds == <>[](\A p \in Dialers \cup Acceptors : pc[p] \in {"idle", "reading"}
                                                       /\ (net[p] = <<>> \/ pc[p] = "idle"))

-----------------------------------------------------------------------------
(* The inductive invariant behind OneStart: what a handler has in hand is  *)
(* its own device's, and a session that has started is not started again.  *)

CallbacksOf(d) == {cb \in Callbacks : DeviceOf[cb.conn] = d}

\* What a handler needs where it is.
InHand(p) ==
    LET d == DeviceOf[p]
    IN  /\ pc[p] \in {"auth", "start", "lookup", "drop", "record", "create"} =>
             local[p].key \in Nat /\ local[p].cb \in CallbacksOf(d)
        /\ pc[p] \in {"route", "lookup", "drop", "record", "create", "receive"} =>
             local[p].msg \in Packets
        /\ pc[p] \in {"auth", "start"} /\ local[p].then # None => local[p].msg \in Packets
        /\ pc[p] \in {"start", "receive", "cleanup"} =>
             /\ local[p].handle \in DOMAIN handles[d]
             /\ handles[d][local[p].handle].key = local[p].key

\* An instance is filed under the authReqId it was made for and answers on a
\* connection of its device; a context is found under its RequestID.
Filed(d) ==
    /\ \A k \in DOMAIN instances[d] : handles[d][instances[d][k]].key = k
    /\ \A h \in DOMAIN handles[d] : handles[d][h].cb \in CallbacksOf(d)
    /\ \A k \in DOMAIN contexts[d] : contexts[d][k].req = k

\* A session is numbered below the counter and belongs to a connection of
\* its device.
Numbered(d) ==
    \A s \in DOMAIN sessions[d] :
        s <= seqCounter[d] /\ DeviceOf[sessions[d][s].conn] = d

ServiceInv ==
    /\ TypeOK
    /\ \A p \in Handlers : InHand(p)
    /\ \A d \in Devices : Filed(d) /\ Numbered(d)

\* A session that no longer waits for its first packet.
Begun(d, s) ==
    s \in DOMAIN sessions[d] /\ ~(sessions[d][s].server /\ sessions[d][s].state = "sync")

\* A handler about to send AUTH_START is the only one that does.
Starting(p) ==
    /\ Begun(DeviceOf[p], local[p].key)
    /\ Starts(DeviceOf[p], local[p].key) = {}
    /\ \A q \in Handlers :
         pc[q] = "auth" /\ DeviceOf[q] = DeviceOf[p] /\ local[q].key = local[p].key => q = p

StartInv ==
    /\ ServiceInv
    /\ \A p \in Handlers : pc[p] = "auth" => Starting(p)
    /\ \A d \in Devices : \A h \in DOMAIN handles[d] :
         handles[d][h].role = "controller" => Begun(d, handles[d][h].key)
    /\ OneStart

-----------------------------------------------------------------------------
(* What the documentation says of a connection of two such devices.        *)

\* A session that waits for its authentication and whose connection stays
\* open is told the result in the end.
AuthNotified ==
    \A p \in Dialers :
        pc[p] = "start" ~>
            \/ p \notin open
            \/ \E s \in DOMAIN sessions[DeviceOf[p]] :
                 /\ sessions[DeviceOf[p]][s].conn = p
                 /\ sessions[DeviceOf[p]][s].state \in {"done", "failed"}

\* What arrives on a connection is processed by the session of that
\* connection.
OwnSession ==
    \A p \in Dialers \cup Acceptors : local[p].cb # None => local[p].cb.conn = p
=============================================================================
