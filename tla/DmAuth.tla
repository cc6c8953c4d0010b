------------------------------- MODULE DmAuth -------------------------------
(***************************************************************************)
(* Pairing with a HarmonyOS device by PIN: the AUTH_MSG listener of        *)
(* transmission/trans_auth_manager.go on top of the HiChain service.       *)
(*                                                                         *)
(* The other device is not part of this repository.  It is modelled as the *)
(* code expects it: it asks on a device manager connection, which leaves a *)
(* context under the fd of that connection, and runs PAKE as the client on *)
(* a second one, naming the first in the requestId of its messages.        *)
(***************************************************************************)
EXTENDS AuthSession

CONSTANTS
    MsgHandlers,  \* the handlers of AUTH_MSG connections
    Users,        \* the ends at which HarmonyOS devices ask, one for each
    Pairers,      \* the users that negotiate and run PAKE; the others only
                  \* ask, and keep their connection
    PakeEnd,      \* the end at which such a device runs PAKE
    GroupOf,      \* what names a user's group: its device id cut off after
                  \* 16 characters
    MaxTries      \* bound: how often a device starts or confirms

PakeEnds == {PakeEnd[u] : u \in Pairers}

\* A user pairs with one device, and None is not mistaken for a key.
ASSUME DmAuthAssumption ==
    /\ MsgHandlers \subseteq Handlers \ (Dialers \cup Acceptors)
    /\ Users \subseteq Clients
    /\ Pairers \subseteq Users
    /\ PakeEnd \in [Pairers -> Clients \ Users]
    /\ \A u, v \in Pairers : PakeEnd[u] = PakeEnd[v] => u = v
    /\ \A e \in Users \cup PakeEnds : Peer[e] \in MsgHandlers
    /\ \A u \in Pairers : DeviceOf[Peer[PakeEnd[u]]] = DeviceOf[Peer[u]]
    /\ None \notin Nonces \X Nonces
    /\ DOMAIN GroupOf = Users
    /\ MaxTries \in [Users -> Nat]

VARIABLES
    groups,   \* device -> group id -> the HarmonyOS devices in the group
    client    \* HarmonyOS device -> its side of the pairing

dmVars == <<sessionVars, groups, client>>

DmInit ==
    /\ SessionInit
    /\ groups = [d \in Devices |-> EmptyMap]
    /\ client = [u \in Users |-> [state |-> "start", req |-> None, tries |-> 1,
                                  key |-> None, keys |-> {}]]

EndsOf(u) == {u} \cup {PakeEnd[v] : v \in Pairers \cap {u}}
UserOf(e) == CHOOSE u \in Users : e \in EndsOf(u)
Message(type, req, nonce, proof) == Packet(0, type, req, nonce, proof)
Deliver(e, msg) == net' = [net EXCEPT ![Peer[e]] = Append(@, msg)]

-----------------------------------------------------------------------------
(* The AUTH_MSG listener                                                   *)

Arrived(p, types) ==
    /\ pc[p] = "reading"
    /\ net[p] # <<>>
    /\ Head(net[p]).type \in types

\* The packet has been read and its answer, if the connection is still open,
\* is on its way.
Answer(p, msg) ==
    net' = IF p \in open
           THEN [net EXCEPT ![p] = Tail(@), ![Peer[p]] = Append(@, msg)]
           ELSE [net EXCEPT ![p] = Tail(@)]

\* checkDeviceAuthStatus: GetRelatedGroups finds a group with the device.
IsMember(d, u) == \E g \in DOMAIN groups[d] : u \in groups[d][g]

\* handleDMNegotiate: authed when the device is in a group.
HandleNegotiate(p) ==
    /\ Arrived(p, {"Negotiate"})
    /\ Answer(p, Message(IF IsMember(DeviceOf[p], UserOf(Peer[p])) THEN "RespAuthed"
                         ELSE "RespNegotiate", None, None, None))
    /\ UNCHANGED <<serviceVars, callerVars, open, procVars, seqCounter, groups, client>>

\* Mutant: no context is left for PAKE.
ReqAuthNoContext(p) ==
    /\ Arrived(p, {"ReqAuth"})
    /\ net' = [net EXCEPT ![p] = Tail(@)]
    /\ Goto(p, "createGroup")
    /\ UNCHANGED <<serviceVars, callerVars, open, local, seqCounter, groups, client>>

\* handleDMAuthRequest: a context under the fd, a group with the device, and
\* the answer with the fd as REQUESTID.
HandleReqAuth(p) ==
    /\ Arrived(p, {"ReqAuth"})
    /\ net' = [net EXCEPT ![p] = Tail(@)]
    /\ SetContext(DeviceOf[p], FdOf[p], p)
    /\ Goto(p, "createGroup")
    /\ UNCHANGED <<serviceVars, sessions, open, local, seqCounter, groups, client>>

\* Mutant: one group for all devices.
GroupOfAll(u) == "SOFTBUS_GROUP_"
GroupId(u) == GroupOf[u]

\* createDeviceGroup: a group that there is already is replaced by an empty
\* one.  Its id is noted in the context, where nobody reads it.
CreateGroup(p) ==
    /\ pc[p] = "createGroup"
    /\ groups' = [groups EXCEPT ![DeviceOf[p]] = Put(@, GroupId(UserOf(Peer[p])), {})]
    /\ Goto(p, "addMember")
    /\ UNCHANGED <<serviceVars, callerVars, net, open, local, seqCounter, client>>

AddMember(p) ==
    LET u == UserOf(Peer[p])
        g == GroupId(u)
    IN  /\ pc[p] = "addMember"
        /\ groups' = IF g \in DOMAIN groups[DeviceOf[p]]
                     THEN [groups EXCEPT ![DeviceOf[p]][g] = @ \cup {u}]
                     ELSE groups
        /\ Goto(p, "answer")
        /\ UNCHANGED <<serviceVars, callerVars, net, open, local, seqCounter, client>>

AnswerReqAuth(p) ==
    /\ pc[p] = "answer"
    /\ net' = IF p \in open
              THEN [net EXCEPT ![Peer[p]] = Append(@, Message("RespAuth", FdOf[p], None, None))]
              ELSE net
    /\ Goto(p, "reading")
    /\ UNCHANGED <<serviceVars, callerVars, open, local, seqCounter, groups, client>>

\* onAuthSdkDataRecv: a message of HiChain goes to ProcessData, with the fd as
\* authReqId and a callback that answers on this connection.
HandleHiChain(p) ==
    /\ Arrived(p, {"PakeRequest", "ClientConfirm", "ExchangeRequest", "Error",
                   "AuthConfirm", "AuthRefuse"})
    /\ local' = [local EXCEPT ![p] =
           [NoLocal EXCEPT !.key = FdOf[p],
                           !.cb = [conn |-> p, seq |-> Head(net[p]).seq, session |-> None],
                           !.msg = Head(net[p])]]
    /\ net' = [net EXCEPT ![p] = Tail(@)]
    /\ Goto(p, "lookup")
    /\ UNCHANGED <<serviceVars, callerVars, open, seqCounter, groups, client>>

\* onDisconnect, with what the connection had not delivered lost.  It is
\* called for every accepted connection, of whatever module.
Disconnected(p) ==
    /\ pc[p] = "reading"
    /\ p \notin open
    /\ contexts' = [contexts EXCEPT ![DeviceOf[p]] = Del(@, FdOf[p])]
    /\ net' = [net EXCEPT ![p] = <<>>]
    /\ Goto(p, "closed")
    /\ UNCHANGED <<serviceVars, sessions, open, local, seqCounter, groups, client>>

ListenerStep(p) ==
    \/ HandleNegotiate(p)
    \/ HandleReqAuth(p)
    \/ CreateGroup(p)
    \/ AddMember(p)
    \/ AnswerReqAuth(p)
    \/ HandleHiChain(p)
    \/ Accepted(p) /\ UNCHANGED <<groups, client>>
    \/ ServiceStep(p) /\ UNCHANGED <<seqCounter, groups, client>>

-----------------------------------------------------------------------------
(* The HarmonyOS device                                                    *)

clientFrame == <<serviceVars, callerVars, procVars, seqCounter, groups>>

Is(u, states) == client[u].state \in states
Become(u, state) == client' = [client EXCEPT ![u].state = state]

Send(e, msg) ==
    /\ e \in open
    /\ Deliver(e, msg)
    /\ UNCHANGED <<clientFrame, open>>

Negotiate(u) ==
    /\ u \in Pairers
    /\ Is(u, {"start"})
    /\ Become(u, "negotiating")
    /\ Send(u, Message("Negotiate", None, None, None))

Ask(u) ==
    /\ Is(u, {"start", "negotiated"})
    /\ Become(u, "asked")
    /\ Send(u, Message("ReqAuth", None, None, None))

StartPake(u) ==
    /\ u \in Pairers
    /\ Is(u, {"granted"})
    /\ Become(u, "pake")
    /\ Send(PakeEnd[u], Message("PakeRequest", client[u].req, None, None))

Takes(u, e, states, type) ==
    /\ Is(u, states)
    /\ net[e] # <<>>
    /\ Head(net[e]).type = type

Taken(e) ==
    /\ net' = [net EXCEPT ![e] = Tail(@)]
    /\ UNCHANGED <<clientFrame, open>>

\* A reply is written when the connection is open and lost otherwise.
Reply(e, msg) ==
    /\ net' = IF e \in open
              THEN [net EXCEPT ![e] = Tail(@), ![Peer[e]] = Append(@, msg)]
              ELSE [net EXCEPT ![e] = Tail(@)]
    /\ UNCHANGED <<clientFrame, open>>

OnNegotiated(u) ==
    \/ Takes(u, u, {"negotiating"}, "RespNegotiate") /\ Become(u, "negotiated") /\ Taken(u)
    \/ Takes(u, u, {"negotiating"}, "RespAuthed") /\ Become(u, "trusted") /\ Taken(u)

OnRespAuth(u) ==
    /\ Takes(u, u, {"asked"}, "RespAuth")
    /\ client' = [client EXCEPT ![u].state = "granted", ![u].req = Head(net[u]).req]
    /\ Taken(u)

\* The user types the PIN; with a wrong one the two sides derive different
\* keys, the one of the device with the nonces the other way round.
OnPakeResponse(u, pinRight) ==
    LET e == PakeEnd[u]
        nonce == <<u, client[u].tries>>
        key == IF pinRight THEN <<Head(net[e]).nonce, nonce>> ELSE <<nonce, Head(net[e]).nonce>>
    IN  /\ Takes(u, e, {"pake"}, "PakeResponse")
        /\ client' = [client EXCEPT ![u].state = "confirm",
                                    ![u].key = key,
                                    ![u].keys = IF pinRight THEN @ \cup {key} ELSE @]
        /\ Reply(e, Message("ClientConfirm", client[u].req, nonce, key))

OnServerConfirm(u) ==
    LET e == PakeEnd[u]
        right == Head(net[e]).proof = client[u].key
    IN  /\ Takes(u, e, {"confirm"}, "ServerConfirm")
        /\ Become(u, IF right THEN "exchange" ELSE "failed")
        /\ Reply(e, Message(IF right THEN "ExchangeRequest" ELSE "Error",
                            client[u].req, None, client[u].key))

OnExchangeResponse(u) ==
    /\ Takes(u, PakeEnd[u], {"exchange"}, "ExchangeResponse")
    /\ Become(u, IF Head(net[PakeEnd[u]]).proof = client[u].key THEN "done" ELSE "failed")
    /\ Taken(PakeEnd[u])

\* The states in which a message is waited for.
Waits(u, type) ==
    CASE type \in {"RespNegotiate", "RespAuthed"} -> Is(u, {"negotiating"})
      [] type = "RespAuth"         -> Is(u, {"asked"})
      [] type = "PakeResponse"     -> Is(u, {"pake"})
      [] type = "ServerConfirm"    -> Is(u, {"confirm"})
      [] type = "ExchangeResponse" -> Is(u, {"exchange"})

Ignore(u) ==
    \E e \in EndsOf(u) :
        /\ net[e] # <<>>
        /\ ~Waits(u, Head(net[e]).type)
        /\ Taken(e)
        /\ UNCHANGED client

GiveUp(u) ==
    /\ Is(u, {"pake", "confirm", "exchange"})
    /\ Become(u, "failed")
    /\ Send(PakeEnd[u], Message("Error", client[u].req, None, None))

\* AUTH_CONFIRM at any time, after which the device goes on where it was.
Confirm(u, result) ==
    /\ Is(u, {"pake", "confirm", "exchange"})
    /\ client[u].tries < MaxTries[u]
    /\ client' = [client EXCEPT ![u].tries = @ + 1]
    /\ Send(PakeEnd[u], Message(result, client[u].req, None, None))

\* Starts over, asking anew or with the request id it has.
Again(u) ==
    /\ client[u].tries < MaxTries[u]
    /\ ~Is(u, {"start", "done"})
    /\ \E state \in {"start", "granted"} :
         /\ state = "granted" => u \in Pairers /\ client[u].req # None
         /\ client' = [client EXCEPT ![u].state = state, ![u].tries = @ + 1, ![u].key = None]
    /\ UNCHANGED <<clientFrame, net, open>>

Close(e) ==
    /\ e \in open
    /\ open' = open \ {e, Peer[e]}
    /\ UNCHANGED <<clientFrame, net, client>>

ClientReads(u) ==
    \/ OnNegotiated(u)
    \/ OnRespAuth(u)
    \/ \E pinRight \in BOOLEAN : OnPakeResponse(u, pinRight)
    \/ OnServerConfirm(u)
    \/ OnExchangeResponse(u)
    \/ Ignore(u)

-----------------------------------------------------------------------------
DmNext ==
    \/ SessionNext /\ UNCHANGED <<groups, client>>
    \/ \E p \in MsgHandlers : ListenerStep(p)
    \/ \E p \in MsgHandlers \cup Acceptors : Disconnected(p)
    \/ \E u \in Users :
         \/ Negotiate(u)
         \/ Ask(u)
         \/ StartPake(u)
         \/ ClientReads(u)
         \/ GiveUp(u)
         \/ \E result \in {"AuthConfirm", "AuthRefuse"} : Confirm(u, result)
         \/ Again(u)
    \/ \E e \in Pairers \cup PakeEnds : Close(e)

DmSpec == DmInit /\ [][DmNext]_dmVars

\* A handler goes on reading and finishes what it has begun; a device reads
\* its connections and starts PAKE when it may.
DmFairness ==
    /\ \A p \in MsgHandlers : WF_dmVars(ListenerStep(p))
    /\ \A u \in Users : WF_dmVars(ClientReads(u))
    /\ \A u \in Pairers : WF_dmVars(StartPake(u))

DmFairSpec == DmSpec /\ DmFairness

-----------------------------------------------------------------------------
ClientRecords == [state : {"start", "negotiating", "negotiated", "trusted", "asked", "granted",
                           "pake", "confirm", "exchange", "done", "failed"},
                  req : Nat \cup {None}, tries : Nat, key : Proofs, keys : SUBSET Proofs]

\* The tables of the service, the groups and the messages have the types of
\* the code.
DmTypeOK ==
    /\ TypeOK
    /\ DOMAIN groups = Devices
    /\ \A d \in Devices : \A g \in DOMAIN groups[d] : groups[d][g] \subseteq Users
    /\ client \in [Users -> ClientRecords]

HandlesOf(u) ==
    LET p == Peer[PakeEnd[u]]
    IN  {h \in DOMAIN handles[DeviceOf[p]] : handles[DeviceOf[p]][h].cb.conn = p}
HandleAt(u, h) == handles[DeviceOf[Peer[PakeEnd[u]]]][h]

KeysProved ==
    \A u \in Pairers : \A h \in HandlesOf(u) :
        HandleAt(u, h).returned # None => HandleAt(u, h).returned \in client[u].keys

\* The packets on their way to an end.
Wire(e) == {net[e][i] : i \in DOMAIN net[e]}

ExchangesProved ==
    \A u \in Pairers : \A m \in Wire(PakeEnd[u]) :
        m.type = "ExchangeResponse" => m.proof \in client[u].keys

\* A key reaches the caller only when the other device has derived it with
\* the right PIN, and an exchange is answered only under such a key, whatever
\* confirmations and errors come in between.
PinProved == KeysProved /\ ExchangesProved

\* When the other device takes the pairing as done, an instance of its own
\* connection has completed with the same key.
KeyAgreement ==
    \A u \in Pairers : client[u].state = "done" =>
        \E h \in HandlesOf(u) : /\ HandleAt(u, h).state = "completed"
                                /\ HandleAt(u, h).sessionKey = client[u].key

\* A device that was answered is a member of its group from then on, and its
\* negotiation is answered accordingly, although every request replaces a
\* group by an empty one: except between two sections of a request of its own.
GrantedStays ==
    \A u \in Users :
        client[u].req # None /\ pc[Peer[u]] # "addMember" => IsMember(DeviceOf[Peer[u]], u)

\* The request is refused for want of a context only when the connection it
\* was granted on is closed: the two connections agree on the request id.
GrantHolds ==
    \A u \in Pairers :
        LET p == Peer[PakeEnd[u]]
        IN  /\ pc[p] = "receive"
            /\ local[p].msg.type = "PakeRequest"
            /\ ~HasContext(DeviceOf[p], HandleOf(p).key)
            => u \notin open

\* A device that types the right PIN, does not give up and keeps its
\* connections is paired at its first attempt.
PairingEnds ==
    \A u \in Pairers :
        (client[u].state = "asked" /\ client[u].tries = 1) ~>
            \/ client[u].state \in {"done", "failed"}
            \/ client[u].tries > 1
            \/ u \notin open
            \/ PakeEnd[u] \notin open
            \/ client[u].key # None /\ client[u].key \notin client[u].keys

-----------------------------------------------------------------------------
(* The inductive invariants behind PinProved, KeyAgreement, GrantHolds and *)
(* GrantedStays: where each key, request id and answer comes from.         *)

\* Only a pairer runs PAKE.
PairersPake == \A u \in Users : Is(u, {"pake", "confirm", "exchange", "done"}) => u \in Pairers

InService == {"lookup", "drop", "record", "create", "receive", "cleanup"}

\* A handler has a packet in hand.
Carries(p) ==
    \/ pc[p] \in InService \cup {"route"}
    \/ pc[p] \in {"auth", "start"} /\ local[p].then # None

\* A handler works for its own connection under its own fd, or for sessions
\* under their ids.
OwnWork(p) ==
    /\ p \in MsgHandlers =>
         /\ pc[p] \notin {"route", "auth", "start"}
         /\ pc[p] \in InService =>
              local[p].key = FdOf[p] /\ local[p].then = None /\ local[p].cb.conn = p
    /\ p \in Dialers \cup Acceptors =>
         /\ pc[p] \notin {"createGroup", "addMember", "answer"}
         /\ pc[p] \in InService \cup {"auth", "start"} =>
              /\ local[p].key \in DOMAIN sessions[DeviceOf[p]]
              /\ local[p].cb.conn \notin MsgHandlers
    /\ p \notin MsgHandlers \cup Dialers \cup Acceptors => pc[p] = "idle"

OwnHandles ==
    \A d \in Devices : \A h \in DOMAIN handles[d] :
        handles[d][h].cb.conn \in MsgHandlers => handles[d][h].key = FdOf[handles[d][h].cb.conn]

Owned == (\A p \in Handlers : OwnWork(p)) /\ OwnHandles

\* The two ends of a connection are closed together.
ClosedTogether == \A e \in Ends : e \in open <=> Peer[e] \in open

\* Keys: with the right PIN, made from a nonce of an instance that answers on
\* the connection of the other device; with a wrong one, begun with its own.
MadeBy(d, h, nonce) == h \in DOMAIN handles[d] /\ nonce \in {d} \X {h} \X Nat
AnswersOn(e, nonce) ==
    \E d \in Devices : \E h \in DOMAIN handles[d] :
        MadeBy(d, h, nonce) /\ handles[d][h].cb.conn = Peer[e]
Derived(k) == \E u \in Pairers : k \in client[u].keys
Wrong(k) == k[1] \in Clients \X Nat
ProofKnown(k) == k = None \/ Derived(k) \/ Wrong(k)

KeysKnown ==
    /\ \A u \in Users : ProofKnown(client[u].key)
    /\ \A u \in Pairers : \A k \in client[u].keys : AnswersOn(PakeEnd[u], k[1])
    /\ \A e \in Ends : \A m \in Wire(e) :
         /\ ProofKnown(m.proof)
         /\ m.type = "PakeResponse" => AnswersOn(e, m.nonce)
    /\ \A p \in Handlers : Carries(p) => ProofKnown(local[p].msg.proof)
    /\ \A d \in Devices : \A h \in DOMAIN handles[d] :
         /\ handles[d][h].sessionKey # None => MadeBy(d, h, handles[d][h].sessionKey[1])
         /\ handles[d][h].returned # None =>
              MadeBy(d, h, handles[d][h].returned[1]) /\ Derived(handles[d][h].returned)

\* Grants: a request id is the fd of the connection it was asked for on.
Member(u) ==
    LET d == DeviceOf[Peer[u]]
    IN  GroupId(u) \in DOMAIN groups[d] /\ u \in groups[d][GroupId(u)]
HasGrant(u) == FdOf[Peer[u]] \in DOMAIN contexts[DeviceOf[Peer[u]]]
Asks(u) == pc[Peer[u]] \in {"createGroup", "addMember", "answer"}

Asked(e, m) ==
    /\ m.type = "ReqAuth" => Peer[e] \in Users
    /\ m.type = "RespAuth" => m.req = FdOf[Peer[e]]
    /\ m.type = "PakeRequest" =>
         \E u \in Pairers : /\ e = Peer[PakeEnd[u]]
                            /\ client[u].req # None /\ m.req = client[u].req

Answered(u) == client[u].req # None \/ \E m \in Wire(u) : m.type = "RespAuth"

GrantsKnown ==
    /\ \A e \in Ends : \A m \in Wire(e) : Asked(e, m)
    /\ \A p \in MsgHandlers :
         /\ pc[p] \in InService => Asked(p, local[p].msg)
         /\ pc[p] \in {"createGroup", "addMember", "answer"} => Peer[p] \in Users
    /\ \A u \in Users :
         /\ client[u].req \in {None, FdOf[Peer[u]]}
         /\ client[u].state = "granted" => client[u].req # None
         /\ Answered(u) /\ u \in open => HasGrant(u)
         /\ Asks(u) => HasGrant(u)

GroupsKnown ==
    \A u \in Users :
        /\ pc[Peer[u]] = "addMember" => GroupId(u) \in DOMAIN groups[DeviceOf[Peer[u]]]
        /\ pc[Peer[u]] = "answer" => Member(u)
        /\ Answered(u) /\ pc[Peer[u]] # "addMember" => Member(u)

DmInv ==
    /\ ServiceInv /\ DmTypeOK /\ PairersPake /\ Owned /\ ClosedTogether
    /\ KeysKnown /\ GrantsKnown

\* The ids of a device's sessions and the fds of its AUTH_MSG connections,
\* which index the same tables, have not met.
IdsApart == \A p \in MsgHandlers : FdOf[p] \notin DOMAIN sessions[DeviceOf[p]]

\* While they have not, an instance of an AUTH_MSG connection that completed
\* is out of everybody's reach, and the request id recorded is the last one.
Frozen(d, h) ==
    LET p == handles[d][h].cb.conn
    IN  /\ pc[p] \in {"start", "receive"} => local[p].handle # h
        /\ FdOf[p] \in DOMAIN instances[d] /\ instances[d][FdOf[p]] = h =>
             pc[p] = "cleanup" /\ local[p].handle = h

Finished(u, k) ==
    \E h \in HandlesOf(u) : HandleAt(u, h).state = "completed" /\ HandleAt(u, h).sessionKey = k

PairInv ==
    /\ \A d \in Devices : \A h \in DOMAIN handles[d] :
         handles[d][h].cb.conn \in MsgHandlers /\ handles[d][h].state = "completed" =>
             Frozen(d, h)
    /\ \A u \in Pairers :
         /\ \A m \in Wire(PakeEnd[u]) :
              m.type = "ExchangeResponse" =>
                Finished(u, m.proof) /\ m.proof # None /\ Derived(m.proof)
         /\ client[u].state = "done" => Finished(u, client[u].key)
    /\ \A p \in MsgHandlers :
         pc[p] \in {"create", "receive"} /\ local[p].msg.type = "PakeRequest" =>
             /\ FdOf[p] \in DOMAIN dmRequestIds[DeviceOf[p]]
             /\ dmRequestIds[DeviceOf[p]][FdOf[p]] = local[p].msg.req

-----------------------------------------------------------------------------
(* What comments of the code say.                                          *)

\* Joining the group takes effect only after a successful authentication: a
\* device is answered as authenticated only after one.
AuthedAfterAuth ==
    \A u \in Pairers : client[u].state = "trusted" =>
        \E h \in HandlesOf(u) : HandleAt(u, h).state = "completed"

\* An instance reports success only when it has given its caller a key.
SuccessHasKey ==
    \A d \in Devices : \A h \in DOMAIN handles[d] :
        handles[d][h].state = "completed" => handles[d][h].returned # None

\* The request id of a pairing is unique: the context a session authenticates
\* with is the session's own.
UniqueRequestId ==
    \A d \in Devices : \A s \in DOMAIN sessions[d] :
        sessions[d][s].state = "auth" /\ s \in DOMAIN contexts[d]
            => contexts[d][s].conn = sessions[d][s].conn
=============================================================================
