------------------------------ MODULE HiChain ------------------------------
(***************************************************************************)
(* The device authentication service of pkg/device_auth: the table of      *)
(* HiChain instances of realGroupAuthManager (device_auth.go) and the PAKE *)
(* protocol an instance runs (hichain/hichain.go, hichain/protocol.go).    *)
(*                                                                         *)
(* A handler is the goroutine that reads one connection.  It enters        *)
(* ProcessData or AuthDevice by going to "lookup" or "auth" with its local *)
(* variables set, and goes on reading when the call has returned.  Several *)
(* handlers may be in the service at once; an action is one critical       *)
(* section of realGroupAuthManager.mu or one call into a HiChainHandle,    *)
(* which has no lock.                                                      *)
(*                                                                         *)
(* A key pair, a salt and a challenge of one side are one nonce, a shared  *)
(* key the two nonces it is derived from, and a proof (kcfData, signature, *)
(* ciphertext) the key it was made with.  An AUTH_CONFIRM is "AuthConfirm" *)
(* when its result is HCOk and "AuthRefuse" when it is not.                *)
(***************************************************************************)
EXTENDS Naturals, Sequences, GoMaps

CONSTANTS
    Devices,    \* devices that run dsoftbus-go
    Handlers,   \* the connections of these devices, each with its goroutine
    Clients,    \* the connections of other devices to these
    Peer,       \* the other end of a connection
    DeviceOf,   \* the device of a handler
    FdOf,       \* the virtual fd a handler's device has for its connection
    None        \* a field that is not set

Ends == Handlers \cup Clients

\* Every connection has two ends, and a device its own fd for each.
ASSUME HiChainAssumption ==
    /\ Handlers \cap Clients = {}
    /\ Peer \in [Ends -> Ends]
    /\ \A e \in Ends : Peer[e] # e /\ Peer[Peer[e]] = e
    /\ DeviceOf \in [Handlers -> Devices]
    /\ FdOf \in [Handlers -> Nat]
    /\ \A p, q \in Handlers : DeviceOf[p] = DeviceOf[q] /\ FdOf[p] = FdOf[q] => p = q
    /\ None \notin Nat \cup Ends

VARIABLES
    instances,     \* device -> authReqId -> index of a handle
    dmRequestIds,  \* device -> authReqId -> requestId of the PAKE request
    handles,       \* device -> every HiChainHandle created so far
    contexts,      \* device -> key -> context (context/session_context.go)
    sessions,      \* device -> authSeq -> session (auth_session.go)
    net,           \* end -> packets it has not read yet
    open,          \* the ends that can still send
    pc,            \* handler -> where it is
    local          \* handler -> its local variables

serviceVars == <<instances, dmRequestIds, handles>>
callerVars  == <<contexts, sessions>>
procVars    == <<pc, local>>
hichainVars == <<serviceVars, callerVars, net, open, procVars>>

\* A packet: its head.Seq, the message type and what a property can tell of
\* the payload.
Packet(seq, type, req, nonce, proof) ==
    [seq |-> seq, type |-> type, req |-> req, nonce |-> nonce, proof |-> proof]

NoLocal == [key |-> None, cb |-> None, msg |-> None, handle |-> None, then |-> None]

HiChainInit ==
    /\ instances = [d \in Devices |-> EmptyMap]
    /\ dmRequestIds = [d \in Devices |-> EmptyMap]
    /\ handles = [d \in Devices |-> <<>>]
    /\ contexts = [d \in Devices |-> EmptyMap]
    /\ sessions = [d \in Devices |-> EmptyMap]
    /\ net = [e \in Ends |-> <<>>]
    /\ open = Ends
    /\ pc = [p \in Handlers |-> "idle"]
    /\ local = [p \in Handlers |-> NoLocal]

Goto(p, label) == pc' = [pc EXCEPT ![p] = label]

\* A call into the service has returned.
Return(p) ==
    /\ Goto(p, "reading")
    /\ local' = [local EXCEPT ![p] = NoLocal]

Known(d, key) == key \in DOMAIN instances[d]
DelInstance(d, key) == instances' = [instances EXCEPT ![d] = Del(@, key)]

\* The OnTransmit of a callback: a packet on the connection the callback was
\* made for.  AuthPostChannelData fails when that connection is closed.
CanTransmit(cb) == cb.conn \in open

Transmit(cb, type, nonce, proof) ==
    net' = [net EXCEPT ![Peer[cb.conn]] =
                Append(@, Packet(cb.seq, type, None, nonce, proof))]

\* The handle a call works on.
HandleOf(p) == handles[DeviceOf[p]][local[p].handle]
SetHandle(p, handle) == handles' = [handles EXCEPT ![DeviceOf[p]][local[p].handle] = handle]

NewHandle(role, key, cb) ==
    [role |-> role, key |-> key, cb |-> cb, state |-> "init",
     nonce |-> 0, sessionKey |-> None, returned |-> None]

\* GetInstance and the entry of the instance under the caller's authReqId.
AddInstance(p, role) ==
    LET d == DeviceOf[p]
        h == Len(handles[d]) + 1
    IN  /\ handles' = [handles EXCEPT ![d] = Append(@, NewHandle(role, local[p].key, local[p].cb))]
        /\ instances' = [instances EXCEPT ![d] = Put(@, local[p].key, h)]
        /\ local' = [local EXCEPT ![p].handle = h]

\* OnFinish and OnError: the session that made the callback is told.
Notify(d, cb, state) ==
    sessions' = IF cb.session = None
                THEN sessions
                ELSE [sessions EXCEPT ![d][cb.session].state = state]

-----------------------------------------------------------------------------
(* realGroupAuthManager.AuthDevice                                         *)

AuthDevice(p) ==
    /\ pc[p] = "auth"
    /\ AddInstance(p, "controller")
    /\ Goto(p, "start")
    /\ UNCHANGED <<dmRequestIds, callerVars, net, open>>

\* HiChainHandle.StartAuth sends AUTH_START.
StartAuth(p) ==
    /\ pc[p] = "start"
    /\ HandleOf(p).state = "init"
    /\ CanTransmit(HandleOf(p).cb)
    /\ Transmit(HandleOf(p).cb, "AuthStart", None, None)
    /\ SetHandle(p, [HandleOf(p) EXCEPT !.state = "started"])
    /\ IF local[p].then = None
       THEN Return(p)
       ELSE Goto(p, local[p].then) /\ UNCHANGED local
    /\ UNCHANGED <<instances, dmRequestIds, callerVars, open>>

\* Mutant: tries until the connection is back.
StartAuthRetries(p) ==
    /\ pc[p] = "start"
    /\ \/ HandleOf(p).state # "init"
       \/ ~CanTransmit(HandleOf(p).cb)
    /\ UNCHANGED hichainVars

\* The error goes to startHiChainAuth, which fails the session.
StartAuthFails(p) ==
    /\ pc[p] = "start"
    /\ \/ HandleOf(p).state # "init"
       \/ ~CanTransmit(HandleOf(p).cb)
    /\ DelInstance(DeviceOf[p], local[p].key)
    /\ Notify(DeviceOf[p], HandleOf(p).cb, "failed")
    /\ Return(p)
    /\ UNCHANGED <<dmRequestIds, handles, contexts, net, open>>

-----------------------------------------------------------------------------
(* realGroupAuthManager.ProcessData                                        *)

PakeRequest == {"AuthStart", "PakeRequest"}

\* The instance is looked up under the read lock, dropped, created and used
\* in sections of their own.
Lookup(p) ==
    LET d == DeviceOf[p]
        key == local[p].key
        request == local[p].msg.type \in PakeRequest
    IN  /\ pc[p] = "lookup"
        /\ \/ /\ Known(d, key) /\ request
              /\ Goto(p, "drop")
              /\ UNCHANGED local
           \/ /\ Known(d, key) /\ ~request
              /\ local' = [local EXCEPT ![p].handle = instances[d][key]]
              /\ Goto(p, "receive")
           \/ /\ ~Known(d, key)
              /\ Goto(p, "record")
              /\ UNCHANGED local
        /\ UNCHANGED <<serviceVars, callerVars, net, open>>

DropInstance(p) ==
    /\ pc[p] = "drop"
    /\ DelInstance(DeviceOf[p], local[p].key)
    /\ dmRequestIds' = [dmRequestIds EXCEPT ![DeviceOf[p]] = Del(@, local[p].key)]
    /\ Goto(p, "record")
    /\ UNCHANGED <<handles, callerVars, net, open, local>>

\* Mutant: the id of the DM request is not taken from the message.
RecordKey(p) ==
    LET key == local[p].key
    IN  /\ pc[p] = "record"
        /\ dmRequestIds' = [dmRequestIds EXCEPT ![DeviceOf[p]] = Put(@, key, key)]
        /\ Goto(p, "create")
        /\ UNCHANGED <<instances, handles, callerVars, net, open, local>>

RecordRequest(p) ==
    LET key == local[p].key
        req == IF local[p].msg.req = None THEN key ELSE local[p].msg.req
    IN  /\ pc[p] = "record"
        /\ dmRequestIds' = [dmRequestIds EXCEPT ![DeviceOf[p]] = Put(@, key, req)]
        /\ Goto(p, "create")
        /\ UNCHANGED <<instances, handles, callerVars, net, open, local>>

CreateInstance(p) ==
    /\ pc[p] = "create"
    /\ AddInstance(p, "accessory")
    /\ Goto(p, "receive")
    /\ UNCHANGED <<dmRequestIds, callerVars, net, open>>

-----------------------------------------------------------------------------
(* HiChainHandle.ReceiveData, one action per message type                  *)

Receiving(p, types) ==
    /\ pc[p] = "receive"
    /\ local[p].msg.type \in types

\* GetProtocolParams finds the context of the request by its RequestID.
RequestIdOf(d, key) ==
    IF key \in DOMAIN dmRequestIds[d] THEN dmRequestIds[d][key] ELSE key

HasContext(d, key) ==
    \E k \in DOMAIN contexts[d] : contexts[d][k].req = RequestIdOf(d, key)

\* The nonces a handle makes.
Nonce(p, count) == <<DeviceOf[p], local[p].handle, count>>

\* handleAuthStart answers with salt, public key and challenge.
HandleAuthStart(p) ==
    LET h == HandleOf(p)
    IN  /\ Receiving(p, PakeRequest)
        /\ HasContext(DeviceOf[p], h.key)
        /\ SetHandle(p, [h EXCEPT !.nonce = @ + 1,
                                  !.state = IF CanTransmit(h.cb) THEN "authenticating" ELSE @])
        /\ IF CanTransmit(h.cb)
           THEN Transmit(h.cb, "PakeResponse", Nonce(p, h.nonce + 1), None)
           ELSE UNCHANGED net
        /\ Return(p)
        /\ UNCHANGED <<instances, dmRequestIds, callerVars, open>>

\* Without a context the device id is empty and the request is refused.
RefuseAuthStart(p) ==
    /\ Receiving(p, PakeRequest)
    /\ ~HasContext(DeviceOf[p], HandleOf(p).key)
    /\ Return(p)
    /\ UNCHANGED <<serviceVars, callerVars, net, open>>

\* Mutant: the confirmation is not compared.
ProofUnchecked(proof, key) == TRUE
ProofMatches(proof, key) == proof = key

\* handleAuthChallenge: the session key is stored before the proof of the
\* other side is compared and given to the caller after it; an error leaves the
\* state as it is.
HandleAuthChallenge(p) ==
    LET h == HandleOf(p)
        key == <<Nonce(p, h.nonce), local[p].msg.nonce>>
        matches == ProofMatches(local[p].msg.proof, key)
        sent == matches /\ CanTransmit(h.cb)
    IN  /\ Receiving(p, {"PakeResponse", "ClientConfirm"})
        /\ h.nonce > 0
        /\ SetHandle(p, [h EXCEPT !.sessionKey = key,
                                  !.returned = IF matches THEN key ELSE @,
                                  !.state = IF sent THEN "authenticating" ELSE @])
        /\ IF sent THEN Transmit(h.cb, "ServerConfirm", None, key) ELSE UNCHANGED net
        /\ Return(p)
        /\ UNCHANGED <<instances, dmRequestIds, callerVars, open>>

\* computeX25519SharedSecret refuses the empty private key.
ChallengeWithoutKey(p) ==
    /\ Receiving(p, {"PakeResponse", "ClientConfirm"})
    /\ HandleOf(p).nonce = 0
    /\ Return(p)
    /\ UNCHANGED <<serviceVars, callerVars, net, open>>

\* Mutant: the instance does not notice that it is done.
ExchangeUnrecorded(p) ==
    LET h == HandleOf(p)
    IN  /\ Receiving(p, {"ExchangeRequest"})
        /\ h.sessionKey # None
        /\ ProofMatches(local[p].msg.proof, h.sessionKey)
        /\ CanTransmit(h.cb)
        /\ Transmit(h.cb, "ExchangeResponse", None, h.sessionKey)
        /\ Notify(DeviceOf[p], h.cb, "done")
        /\ Goto(p, "cleanup")
        /\ UNCHANGED <<instances, dmRequestIds, handles, contexts, open, local>>

\* handleExchangeRequest: the last message, encrypted with the session key;
\* SetServiceResult reports success.
HandleExchangeRequest(p) ==
    LET h == HandleOf(p)
    IN  /\ Receiving(p, {"ExchangeRequest"})
        /\ h.sessionKey # None
        /\ ProofMatches(local[p].msg.proof, h.sessionKey)
        /\ CanTransmit(h.cb)
        /\ Transmit(h.cb, "ExchangeResponse", None, h.sessionKey)
        /\ SetHandle(p, [h EXCEPT !.state = "completed"])
        /\ Notify(DeviceOf[p], h.cb, "done")
        /\ Goto(p, "cleanup")
        /\ UNCHANGED <<instances, dmRequestIds, contexts, open, local>>

RefuseExchange(p) ==
    LET h == HandleOf(p)
    IN  /\ Receiving(p, {"ExchangeRequest"})
        /\ \/ h.sessionKey = None
           \/ ~ProofMatches(local[p].msg.proof, h.sessionKey)
           \/ ~CanTransmit(h.cb)
        /\ Return(p)
        /\ UNCHANGED <<serviceVars, callerVars, net, open>>

\* handleAuthConfirm takes the word of the other side, whatever this one has
\* come to: no key is looked at, and the result of a PAKE_SERVER_CONFIRM is
\* always HCOk.
HandleAuthConfirm(p) ==
    /\ Receiving(p, {"AuthConfirm", "ServerConfirm"})
    /\ SetHandle(p, [HandleOf(p) EXCEPT !.state = "completed"])
    /\ Notify(DeviceOf[p], HandleOf(p).cb, "done")
    /\ Goto(p, "cleanup")
    /\ UNCHANGED <<instances, dmRequestIds, contexts, net, open, local>>

\* The other side gave up, or confirms a failure.
HandleError(p) ==
    /\ Receiving(p, {"Error", "AuthRefuse"})
    /\ SetHandle(p, [HandleOf(p) EXCEPT !.state = "failed"])
    /\ Notify(DeviceOf[p], HandleOf(p).cb, "failed")
    /\ Goto(p, "cleanup")
    /\ UNCHANGED <<instances, dmRequestIds, contexts, net, open, local>>

\* The end of SetServiceResult: whatever instance has the authReqId goes.
Cleanup(p) ==
    /\ pc[p] = "cleanup"
    /\ DelInstance(DeviceOf[p], HandleOf(p).key)
    /\ Return(p)
    /\ UNCHANGED <<dmRequestIds, handles, callerVars, net, open>>

ServiceStep(p) ==
    \/ AuthDevice(p)
    \/ StartAuth(p)
    \/ StartAuthFails(p)
    \/ Lookup(p)
    \/ DropInstance(p)
    \/ RecordRequest(p)
    \/ CreateInstance(p)
    \/ HandleAuthStart(p)
    \/ RefuseAuthStart(p)
    \/ HandleAuthChallenge(p)
    \/ ChallengeWithoutKey(p)
    \/ HandleExchangeRequest(p)
    \/ RefuseExchange(p)
    \/ HandleAuthConfirm(p)
    \/ HandleError(p)
    \/ Cleanup(p)
=============================================================================
