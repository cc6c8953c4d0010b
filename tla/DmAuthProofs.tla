---------------------------- MODULE DmAuthProofs ----------------------------
(***************************************************************************)
(* Proofs about AuthSession, whose sessions and handlers are proved for    *)
(* every use of the service, and about DmAuth, which adds the AUTH_MSG     *)
(* listener and the HarmonyOS devices to it.                               *)
(***************************************************************************)
EXTENDS DmAuth, SequenceTheorems, TLAPS

-----------------------------------------------------------------------------
(* AuthSession: the service, its callers and the sessions                  *)

LEMMA PutIsMap ==
  ASSUME NEW m, NEW K, NEW V, IsMap(m, K, V), NEW k \in K, NEW v \in V
  PROVE  IsMap(Put(m, k, v), K, V)
BY DEF IsMap, Put

LEMMA DelIsMap ==
  ASSUME NEW m, NEW K, NEW V, IsMap(m, K, V), NEW k
  PROVE  IsMap(Del(m, k), K, V)
BY DEF IsMap, Del

LEMMA MapWidens ==
  ASSUME NEW m, NEW K, NEW V, NEW W, IsMap(m, K, V), V \subseteq W
  PROVE  IsMap(m, K, W)
BY DEF IsMap

-----------------------------------------------------------------------------
(* What the service does to its handles and what it sends                  *)

LEMMA HandleInHand ==
  ASSUME ServiceInv, NEW p \in Handlers, pc[p] \in {"start", "receive", "cleanup"}
  PROVE  /\ DeviceOf[p] \in Devices
         /\ local[p].handle \in 1 .. Len(handles[DeviceOf[p]])
         /\ handles[DeviceOf[p]] \in Seq(HandleRecords)
         /\ HandleOf(p) \in HandleRecords
         /\ HandleOf(p).cb \in CallbacksOf(DeviceOf[p])
         /\ HandleOf(p).key = local[p].key
<1>1. DeviceOf[p] \in Devices
  BY HiChainAssumption
<1>2. handles[DeviceOf[p]] \in Seq(HandleRecords)
  BY <1>1 DEF ServiceInv, TypeOK
<1>3. local[p].handle \in DOMAIN handles[DeviceOf[p]] /\ HandleOf(p).key = local[p].key
  BY DEF ServiceInv, InHand, HandleOf
<1>4. local[p].handle \in 1 .. Len(handles[DeviceOf[p]])
  BY <1>2, <1>3, LenProperties
<1>5. HandleOf(p) \in HandleRecords
  BY <1>2, <1>4, ElementOfSeq DEF HandleOf
<1>6. HandleOf(p).cb \in CallbacksOf(DeviceOf[p])
  BY <1>1, <1>3 DEF ServiceInv, Filed, HandleOf
<1> QED
  BY <1>1, <1>2, <1>3, <1>4, <1>5, <1>6

\* The handle at work is replaced by one of the same role, key and callback.
Revise(p) ==
  \E r \in HandleRecords :
    /\ SetHandle(p, r)
    /\ r.role = HandleOf(p).role /\ r.key = HandleOf(p).key /\ r.cb = HandleOf(p).cb

LEMMA NonceIsNonce ==
  ASSUME ServiceInv, NEW p \in Handlers, pc[p] = "receive", NEW n \in Nat
  PROVE  Nonce(p, n) \in Devices \X Nat \X Nat /\ Nonce(p, n) \in Nonces
<1>1. local[p].handle \in Nat /\ DeviceOf[p] \in Devices
  BY HandleInHand
<1> QED
  BY <1>1 DEF Nonce, Nonces

LEMMA PacketIsPacket ==
  ASSUME NEW seq \in Nat, NEW type \in Types, NEW req \in Nat \cup {None},
         NEW nonce \in Nonces, NEW proof \in Proofs
  PROVE  Packet(seq, type, req, nonce, proof) \in Packets
BY DEF Packet, Packets

LEMMA ServiceHandles ==
  ASSUME ServiceInv, NEW p \in Handlers, ServiceStep(p)
  PROVE  \/ UNCHANGED handles
         \/ pc[p] = "auth" /\ AddInstance(p, "controller")
         \/ pc[p] = "create" /\ AddInstance(p, "accessory")
         \/ pc[p] \in {"start", "receive"} /\ Revise(p)
<1>1. CASE AuthDevice(p) \/ CreateInstance(p)
  BY <1>1 DEF AuthDevice, CreateInstance
<1>2. CASE StartAuth(p) \/ HandleError(p)
  <2>1. HandleOf(p) \in HandleRecords
    BY <1>2, HandleInHand DEF StartAuth, HandleError, Receiving
  <2>2. ASSUME NEW s \in {"started", "failed"}
        PROVE  LET r == [HandleOf(p) EXCEPT !.state = s]
               IN  r \in HandleRecords /\ r.role = HandleOf(p).role /\ r.key = HandleOf(p).key
                   /\ r.cb = HandleOf(p).cb
    BY <2>1 DEF HandleRecords
  <2> QED
    BY <1>2, <2>2 DEF StartAuth, HandleError, Receiving, Revise
<1>3. CASE HandleAuthStart(p)
  <2> DEFINE h == HandleOf(p)
             r == [h EXCEPT !.nonce = @ + 1,
                            !.state = IF CanTransmit(h.cb) THEN "authenticating" ELSE @]
  <2>1. h \in HandleRecords
    BY <1>3, HandleInHand DEF HandleAuthStart, Receiving
  <2>2. h.nonce + 1 \in Nat
    BY <2>1 DEF HandleRecords
  <2>3. ASSUME NEW n \in Nat,
               NEW s \in {"init", "started", "authenticating", "completed", "failed"}
        PROVE  LET q == [h EXCEPT !.nonce = n, !.state = s]
               IN  q \in HandleRecords /\ q.role = h.role /\ q.key = h.key /\ q.cb = h.cb
    BY <2>1 DEF HandleRecords
  <2>4. (IF CanTransmit(h.cb) THEN "authenticating" ELSE h.state)
          \in {"init", "started", "authenticating", "completed", "failed"}
    BY <2>1 DEF HandleRecords
  <2>5. r \in HandleRecords /\ r.role = h.role /\ r.key = h.key /\ r.cb = h.cb
    BY <2>2, <2>3, <2>4
  <2> QED
    BY <1>3, <2>5 DEF HandleAuthStart, Receiving, Revise
<1>4. CASE HandleAuthChallenge(p)
  <2> DEFINE h == HandleOf(p)
             key == <<Nonce(p, h.nonce), local[p].msg.nonce>>
             matches == ProofMatches(local[p].msg.proof, key)
             sent == matches /\ CanTransmit(h.cb)
             r == [h EXCEPT !.sessionKey = key,
                            !.returned = IF matches THEN key ELSE @,
                            !.state = IF sent THEN "authenticating" ELSE @]
  <2>1. h \in HandleRecords /\ pc[p] = "receive"
    BY <1>4, HandleInHand DEF HandleAuthChallenge, Receiving
  <2>2. Nonce(p, h.nonce) \in Nonces
    BY <2>1, NonceIsNonce DEF HandleRecords
  <2>3. local[p].msg.nonce \in Nonces
    BY <2>1 DEF ServiceInv, InHand, Packets
  <2>4. key \in Proofs
    BY <2>2, <2>3 DEF Proofs
  <2>5. r \in HandleRecords /\ r.role = h.role /\ r.key = h.key /\ r.cb = h.cb
    BY <2>1, <2>4 DEF HandleRecords
  <2> QED
    BY <1>4, <2>1, <2>5 DEF HandleAuthChallenge, Revise
<1>5. CASE HandleExchangeRequest(p) \/ HandleAuthConfirm(p)
  <2> DEFINE r == [HandleOf(p) EXCEPT !.state = "completed"]
  <2>1. HandleOf(p) \in HandleRecords /\ pc[p] = "receive"
    BY <1>5, HandleInHand DEF HandleExchangeRequest, HandleAuthConfirm, Receiving
  <2>2. r \in HandleRecords /\ r.role = HandleOf(p).role /\ r.key = HandleOf(p).key
        /\ r.cb = HandleOf(p).cb
    BY <2>1 DEF HandleRecords
  <2> QED
    BY <1>5, <2>1, <2>2 DEF HandleExchangeRequest, HandleAuthConfirm, Revise
<1>6. CASE \/ StartAuthFails(p) \/ Lookup(p) \/ DropInstance(p) \/ RecordRequest(p)
           \/ RefuseAuthStart(p) \/ ChallengeWithoutKey(p) \/ RefuseExchange(p) \/ Cleanup(p)
  BY <1>6 DEF StartAuthFails, Lookup, DropInstance, RecordRequest, RefuseAuthStart,
              ChallengeWithoutKey, RefuseExchange, Cleanup, serviceVars
<1> QED
  BY <1>1, <1>2, <1>3, <1>4, <1>5, <1>6 DEF ServiceStep

\* Handles are never removed and keep their role, key and callback.
KeepsHandles(d) ==
  \A h \in DOMAIN handles[d] :
    /\ h \in DOMAIN handles'[d]
    /\ handles'[d][h].role = handles[d][h].role
    /\ handles'[d][h].key = handles[d][h].key
    /\ handles'[d][h].cb = handles[d][h].cb

Created(p, d, h) ==
  /\ d = DeviceOf[p]
  /\ pc[p] \in {"auth", "create"}
  /\ h = Len(handles[d]) + 1
  /\ handles'[d][h] = NewHandle(IF pc[p] = "auth" THEN "controller" ELSE "accessory",
                                local[p].key, local[p].cb)

LEMMA AppendIsLonger ==
  ASSUME NEW S, NEW s \in Seq(S), NEW x
  PROVE  Len(Append(s, x)) = Len(s) + 1
OBVIOUS

LEMMA NewHandleIsHandle ==
  ASSUME NEW role \in {"controller", "accessory"}, NEW key \in Nat, NEW cb \in Callbacks
  PROVE  NewHandle(role, key, cb) \in HandleRecords
BY DEF NewHandle, HandleRecords, Proofs

LEMMA HandlesGrow ==
  ASSUME ServiceInv, NEW p \in Handlers, ServiceStep(p)
  PROVE  /\ handles' \in [Devices -> Seq(HandleRecords)]
         /\ \A d \in Devices : KeepsHandles(d)
         /\ \A d \in Devices : \A h \in DOMAIN handles'[d] \ DOMAIN handles[d] : Created(p, d, h)
<1> DEFINE e == DeviceOf[p]
<1>1. handles \in [Devices -> Seq(HandleRecords)] /\ e \in Devices
  BY HiChainAssumption DEF ServiceInv, TypeOK
<1>2. CASE UNCHANGED handles
  BY <1>1, <1>2 DEF KeepsHandles
<1>3. ASSUME NEW role \in {"controller", "accessory"}, AddInstance(p, role),
             pc[p] \in {"auth", "create"},
             role = IF pc[p] = "auth" THEN "controller" ELSE "accessory"
      PROVE  /\ handles' \in [Devices -> Seq(HandleRecords)]
             /\ \A d \in Devices : KeepsHandles(d)
             /\ \A d \in Devices : \A h \in DOMAIN handles'[d] \ DOMAIN handles[d] : Created(p, d, h)
  <2> DEFINE r == NewHandle(role, local[p].key, local[p].cb)
  <2>1. r \in HandleRecords
    BY <1>3, NewHandleIsHandle DEF ServiceInv, InHand, CallbacksOf
  <2>2. handles' = [handles EXCEPT ![e] = Append(@, r)]
    BY <1>3 DEF AddInstance
  <2>3. /\ Append(handles[e], r) \in Seq(HandleRecords)
        /\ DOMAIN handles[e] = 1 .. Len(handles[e])
        /\ DOMAIN Append(handles[e], r) = 1 .. Len(handles[e]) + 1
        /\ \A h \in DOMAIN handles[e] : Append(handles[e], r)[h] = handles[e][h]
        /\ Append(handles[e], r)[Len(handles[e]) + 1] = r
        /\ Len(handles[e]) \in Nat
    BY <1>1, <2>1, AppendProperties, LenProperties
  <2>4. /\ handles'[e] = Append(handles[e], r)
        /\ \A d \in Devices \ {e} : handles'[d] = handles[d]
        /\ handles' \in [Devices -> Seq(HandleRecords)]
    BY <1>1, <2>2, <2>3
  <2>5. ASSUME NEW d \in Devices PROVE KeepsHandles(d)
    <3>1. ASSUME NEW h \in DOMAIN handles[d]
          PROVE  h \in DOMAIN handles'[d] /\ handles'[d][h] = handles[d][h]
      <4>1. CASE d = e
        BY <4>1, <3>1, <2>3, <2>4
      <4>2. CASE d # e
        BY <4>2, <3>1, <2>4
      <4> QED
        BY <4>1, <4>2
    <3> QED
      BY <3>1 DEF KeepsHandles
  <2>6. ASSUME NEW d \in Devices, NEW h \in DOMAIN handles'[d] \ DOMAIN handles[d]
        PROVE  Created(p, d, h)
    <3>1. d = e
      BY <2>4, <2>6
    <3>2. h = Len(handles[e]) + 1
      BY <3>1, <2>3, <2>4, <2>6
    <3> QED
      BY <3>1, <3>2, <1>3, <2>3, <2>4 DEF Created
  <2> QED
    BY <2>4, <2>5, <2>6
<1>4. CASE pc[p] \in {"start", "receive"} /\ Revise(p)
  <2>1. PICK r \in HandleRecords :
          /\ SetHandle(p, r)
          /\ r.role = HandleOf(p).role /\ r.key = HandleOf(p).key /\ r.cb = HandleOf(p).cb
    BY <1>4 DEF Revise
  <2> DEFINE i == local[p].handle
             s == [handles[e] EXCEPT ![i] = r]
  <2>2. i \in 1 .. Len(handles[e])
    BY <1>4, HandleInHand
  <2>3. /\ s \in Seq(HandleRecords) /\ DOMAIN s = DOMAIN handles[e]
        /\ s[i] = r /\ \A h \in DOMAIN handles[e] \ {i} : s[h] = handles[e][h]
    BY <1>1, <2>2, ExceptSeq
  <2>4. /\ handles'[e] = s
        /\ \A d \in Devices \ {e} : handles'[d] = handles[d]
        /\ handles' \in [Devices -> Seq(HandleRecords)]
    BY <1>1, <2>1, <2>3 DEF SetHandle
  <2> QED
    BY <2>1, <2>3, <2>4 DEF KeepsHandles, HandleOf
<1> QED
  BY <1>2, <1>3, <1>4, ServiceHandles

\* The other tables: an instance is added under the key at hand or removed, a
\* request id recorded or removed, a session told of its end.
LEMMA ServiceTables ==
  ASSUME ServiceInv, NEW p \in Handlers, ServiceStep(p)
  PROVE  /\ UNCHANGED <<contexts, open>>
         /\ \/ UNCHANGED instances
            \/ pc[p] = "auth" /\ AddInstance(p, "controller")
            \/ pc[p] = "create" /\ AddInstance(p, "accessory")
            \/ UNCHANGED handles /\ \E k : DelInstance(DeviceOf[p], k)
         /\ \/ UNCHANGED dmRequestIds
            \/ dmRequestIds' = [dmRequestIds EXCEPT ![DeviceOf[p]] = Del(@, local[p].key)]
            \/ /\ pc[p] = "record"
               /\ \E req \in Nat :
                    dmRequestIds' = [dmRequestIds EXCEPT ![DeviceOf[p]] = Put(@, local[p].key, req)]
         /\ \/ UNCHANGED sessions
            \/ \E state \in {"done", "failed"} :
                 sessions' = [sessions EXCEPT ![DeviceOf[p]][HandleOf(p).cb.session].state = state]
<1>1. CASE RecordRequest(p)
  <2>1. local[p].key \in Nat /\ local[p].msg \in Packets
    BY <1>1 DEF RecordRequest, ServiceInv, InHand
  <2>2. (IF local[p].msg.req = None THEN local[p].key ELSE local[p].msg.req) \in Nat
    BY <2>1 DEF Packets
  <2> QED
    BY <1>1, <2>2 DEF RecordRequest, callerVars
<1>2. CASE AuthDevice(p)
  BY <1>2 DEF AuthDevice, serviceVars, callerVars, Notify
<1>3. CASE CreateInstance(p)
  BY <1>3 DEF CreateInstance, serviceVars, callerVars, Notify
<1>4. CASE StartAuth(p)
  <2>1. UNCHANGED <<contexts, open, instances, dmRequestIds, sessions>>
    BY <1>4 DEF StartAuth, serviceVars, callerVars
  <2> QED
    BY <2>1, Zenon
<1>5. CASE StartAuthFails(p)
  BY <1>5 DEF StartAuthFails, serviceVars, callerVars, Notify
<1>6. CASE Lookup(p)
  <2>1. UNCHANGED <<contexts, open, instances, dmRequestIds, sessions>>
    BY <1>6 DEF Lookup, serviceVars, callerVars
  <2> QED
    BY <2>1, Zenon
<1>7. CASE DropInstance(p)
  BY <1>7 DEF DropInstance, serviceVars, callerVars, Notify
<1>8. CASE HandleAuthStart(p)
  BY <1>8 DEF HandleAuthStart, serviceVars, callerVars, Notify
<1>9. CASE RefuseAuthStart(p)
  <2>1. UNCHANGED <<contexts, open, instances, dmRequestIds, sessions>>
    BY <1>9 DEF RefuseAuthStart, serviceVars, callerVars
  <2> QED
    BY <2>1, Zenon
<1>10. CASE HandleAuthChallenge(p)
  BY <1>10 DEF HandleAuthChallenge, serviceVars, callerVars, Notify
<1>11. CASE ChallengeWithoutKey(p)
  <2>1. UNCHANGED <<contexts, open, instances, dmRequestIds, sessions>>
    BY <1>11 DEF ChallengeWithoutKey, serviceVars, callerVars
  <2> QED
    BY <2>1, Zenon
<1>12. CASE HandleExchangeRequest(p)
  BY <1>12 DEF HandleExchangeRequest, serviceVars, callerVars, Notify
<1>13. CASE RefuseExchange(p)
  <2>1. UNCHANGED <<contexts, open, instances, dmRequestIds, sessions>>
    BY <1>13 DEF RefuseExchange, serviceVars, callerVars
  <2> QED
    BY <2>1, Zenon
<1>14. CASE HandleError(p) \/ HandleAuthConfirm(p)
  BY <1>14 DEF HandleError, HandleAuthConfirm, serviceVars, callerVars, Notify
<1>15. CASE Cleanup(p)
  BY <1>15 DEF Cleanup, serviceVars, callerVars, Notify
<1> QED
  BY <1>1, <1>2, <1>3, <1>4, <1>5, <1>6, <1>7, <1>8,
     <1>9, <1>10, <1>11, <1>12, <1>13, <1>14, <1>15
  DEF ServiceStep

\* A session is told of its end and otherwise left alone.
KeepsSessions(d) ==
  /\ DOMAIN sessions'[d] = DOMAIN sessions[d]
  /\ \A s \in DOMAIN sessions[d] :
       /\ sessions'[d][s].conn = sessions[d][s].conn
       /\ sessions'[d][s].server = sessions[d][s].server
       /\ sessions'[d][s].state \in {sessions[d][s].state, "done", "failed"}

LEMMA ServiceSessions ==
  ASSUME ServiceInv, NEW p \in Handlers, ServiceStep(p)
  PROVE  /\ DOMAIN sessions' = Devices
         /\ \A d \in Devices : KeepsSessions(d) /\ IsMap(sessions'[d], Nat, SessionRecords)
<1>1. DOMAIN sessions = Devices /\ \A d \in Devices : IsMap(sessions[d], Nat, SessionRecords)
  BY DEF ServiceInv, TypeOK
<1>2. CASE UNCHANGED sessions
  BY <1>1, <1>2 DEF KeepsSessions
<1>3. ASSUME NEW state \in {"done", "failed"},
             sessions' = [sessions EXCEPT ![DeviceOf[p]][HandleOf(p).cb.session].state = state]
      PROVE  /\ DOMAIN sessions' = Devices
             /\ \A d \in Devices : KeepsSessions(d) /\ IsMap(sessions'[d], Nat, SessionRecords)
  <2>1. DOMAIN sessions' = Devices
    BY <1>1, <1>3
  <2>2. ASSUME NEW d \in Devices PROVE KeepsSessions(d) /\ IsMap(sessions'[d], Nat, SessionRecords)
    <3>1. DOMAIN sessions'[d] = DOMAIN sessions[d]
      BY <1>1, <1>3
    <3>2. ASSUME NEW s \in DOMAIN sessions[d]
          PROVE  /\ sessions'[d][s] \in SessionRecords
                 /\ sessions'[d][s].conn = sessions[d][s].conn
                 /\ sessions'[d][s].server = sessions[d][s].server
                 /\ sessions'[d][s].state \in {sessions[d][s].state, "done", "failed"}
      <4>1. sessions[d][s] \in SessionRecords
        BY <1>1, <3>2 DEF IsMap
      <4>2. \/ sessions'[d][s] = sessions[d][s]
            \/ sessions'[d][s] = [sessions[d][s] EXCEPT !.state = state]
        BY <1>1, <1>3, <3>2
      <4>3. CASE sessions'[d][s] = sessions[d][s]
        BY <4>1, <4>3
      <4>4. CASE sessions'[d][s] = [sessions[d][s] EXCEPT !.state = state]
        BY <4>1, <4>4, <1>3 DEF SessionRecords
      <4> QED
        BY <4>2, <4>3, <4>4
    <3>3. IsMap(sessions'[d], Nat, SessionRecords)
      <4>1. sessions'[d] = [s \in DOMAIN sessions[d] |-> sessions'[d][s]]
        BY <1>1, <1>3 DEF IsMap
      <4> QED
        BY <1>1, <3>1, <3>2, <4>1 DEF IsMap
    <3> QED
      BY <3>1, <3>2, <3>3 DEF KeepsSessions
  <2> QED
    BY <2>1, <2>2
<1> QED
  BY <1>2, <1>3, ServiceTables

LEMMA ServiceInstances ==
  ASSUME ServiceInv, NEW p \in Handlers, ServiceStep(p)
  PROVE  /\ DOMAIN instances' = Devices /\ DOMAIN dmRequestIds' = Devices
         /\ \A d \in Devices :
              /\ IsMap(instances'[d], Nat, DOMAIN handles'[d])
              /\ IsMap(dmRequestIds'[d], Nat, Nat)
              /\ \A k \in DOMAIN instances'[d] :
                   \/ k \in DOMAIN instances[d] /\ instances'[d][k] = instances[d][k]
                   \/ Created(p, d, instances'[d][k]) /\ k = local[p].key
<1> DEFINE e == DeviceOf[p]
<1>1. /\ e \in Devices /\ DOMAIN instances = Devices /\ DOMAIN dmRequestIds = Devices
      /\ \A d \in Devices : IsMap(instances[d], Nat, DOMAIN handles[d])
      /\ \A d \in Devices : IsMap(dmRequestIds[d], Nat, Nat)
      /\ handles \in [Devices -> Seq(HandleRecords)]
  BY HiChainAssumption DEF ServiceInv, TypeOK
<1>2. \A d \in Devices : DOMAIN handles[d] \subseteq DOMAIN handles'[d]
  BY HandlesGrow DEF KeepsHandles
<1>3. \A d \in Devices : IsMap(instances[d], Nat, DOMAIN handles'[d])
  BY <1>1, <1>2, MapWidens
<1>4. DOMAIN dmRequestIds' = Devices /\ \A d \in Devices : IsMap(dmRequestIds'[d], Nat, Nat)
  <2>1. CASE UNCHANGED dmRequestIds
    BY <1>1, <2>1
  <2>2. CASE dmRequestIds' = [dmRequestIds EXCEPT ![e] = Del(@, local[p].key)]
    BY <1>1, <2>2, DelIsMap
  <2>3. ASSUME pc[p] = "record", NEW req \in Nat,
               dmRequestIds' = [dmRequestIds EXCEPT ![e] = Put(@, local[p].key, req)]
        PROVE  DOMAIN dmRequestIds' = Devices /\ \A d \in Devices : IsMap(dmRequestIds'[d], Nat, Nat)
    <3>1. local[p].key \in Nat
      BY <2>3 DEF ServiceInv, InHand
    <3>2. IsMap(Put(dmRequestIds[e], local[p].key, req), Nat, Nat)
      BY <1>1, <3>1, PutIsMap
    <3> QED
      BY <1>1, <2>3, <3>2
  <2> QED
    BY <2>1, <2>2, <2>3, ServiceTables
<1>5. CASE UNCHANGED instances
  BY <1>1, <1>3, <1>4, <1>5
<1>6. ASSUME NEW k, DelInstance(e, k), UNCHANGED handles
      PROVE  /\ DOMAIN instances' = Devices
             /\ \A d \in Devices :
                  /\ IsMap(instances'[d], Nat, DOMAIN handles'[d])
                  /\ \A j \in DOMAIN instances'[d] :
                       j \in DOMAIN instances[d] /\ instances'[d][j] = instances[d][j]
  <2>1. IsMap(Del(instances[e], k), Nat, DOMAIN handles'[e])
    BY <1>3, <1>1, DelIsMap
  <2>2. instances' = [instances EXCEPT ![e] = Del(instances[e], k)]
    BY <1>6 DEF DelInstance
  <2>3. \A j \in DOMAIN Del(instances[e], k) :
          j \in DOMAIN instances[e] /\ Del(instances[e], k)[j] = instances[e][j]
    BY DEF Del
  <2> QED
    BY <1>1, <1>3, <2>1, <2>2, <2>3
<1>7. ASSUME NEW role, AddInstance(p, role), pc[p] \in {"auth", "create"}
      PROVE  /\ DOMAIN instances' = Devices
             /\ \A d \in Devices :
                  /\ IsMap(instances'[d], Nat, DOMAIN handles'[d])
                  /\ \A k \in DOMAIN instances'[d] :
                       \/ k \in DOMAIN instances[d] /\ instances'[d][k] = instances[d][k]
                       \/ Created(p, d, instances'[d][k]) /\ k = local[p].key
  <2> DEFINE h == Len(handles[e]) + 1
  <2>1. handles' = [handles EXCEPT ![e] = Append(@, NewHandle(role, local[p].key, local[p].cb))]
        /\ instances' = [instances EXCEPT ![e] = Put(@, local[p].key, h)]
    BY <1>7 DEF AddInstance
  <2>2. h \in DOMAIN handles'[e] \ DOMAIN handles[e]
    <3>1. handles[e] \in Seq(HandleRecords)
      BY <1>1
    <3>2. DOMAIN handles[e] = 1 .. Len(handles[e]) /\ Len(handles[e]) \in Nat
      BY <3>1, LenProperties
    <3>3. handles'[e] \in Seq(HandleRecords) /\ Len(handles'[e]) = h
      BY <1>1, <2>1, <3>1, HandlesGrow, AppendIsLonger
    <3> QED
      BY <3>2, <3>3, LenProperties
  <2>3. Created(p, e, h)
    BY <1>1, <2>2, HandlesGrow
  <2>4. local[p].key \in Nat
    BY <1>7 DEF ServiceInv, InHand
  <2>5. IsMap(Put(instances[e], local[p].key, h), Nat, DOMAIN handles'[e])
    BY <1>1, <1>3, <2>2, <2>4, PutIsMap
  <2>6. \A k \in DOMAIN Put(instances[e], local[p].key, h) :
          \/ k \in DOMAIN instances[e] /\ Put(instances[e], local[p].key, h)[k] = instances[e][k]
          \/ Put(instances[e], local[p].key, h)[k] = h /\ k = local[p].key
    BY DEF Put
  <2> QED
    BY <1>1, <1>3, <2>1, <2>3, <2>5, <2>6
<1> QED
  BY <1>4, <1>5, <1>6, <1>7, ServiceTables

\* What a step of the service sends: an answer with the nonce it made, or with
\* the proof it was given.
Sent(p, m) ==
  /\ m \in Packets
  /\ m.type \in {"AuthStart", "PakeResponse", "ServerConfirm", "ExchangeResponse"}
  /\ m.type = "PakeResponse" => m.nonce = Nonce(p, HandleOf(p).nonce + 1)
  /\ m.proof = None \/ (pc[p] = "receive" /\ m.proof = local[p].msg.proof)
  /\ m.type = "ExchangeResponse" => HandleExchangeRequest(p) /\ m.proof = HandleOf(p).sessionKey

LEMMA ServiceNet ==
  ASSUME ServiceInv, NEW p \in Handlers, ServiceStep(p)
  PROVE  \/ UNCHANGED net
         \/ /\ pc[p] \in {"start", "receive"}
            /\ \E m : Sent(p, m) /\ net' = [net EXCEPT ![Peer[HandleOf(p).cb.conn]] = Append(@, m)]
<1> DEFINE h == HandleOf(p)
<1>1. CASE StartAuth(p)
  <2> DEFINE m == Packet(h.cb.seq, "AuthStart", None, None, None)
  <2>1. h.cb.seq \in Nat /\ pc[p] = "start"
    BY <1>1, HandleInHand DEF StartAuth, CallbacksOf, Callbacks
  <2>2. m \in Packets
    BY <2>1, PacketIsPacket DEF Types, Nonces, Proofs
  <2>3. Sent(p, m)
    BY <2>2 DEF Sent, Packet
  <2> QED
    BY <1>1, <2>1, <2>3 DEF StartAuth, Transmit
<1>2. CASE HandleAuthStart(p)
  <2> DEFINE m == Packet(h.cb.seq, "PakeResponse", None, Nonce(p, h.nonce + 1), None)
  <2>1. h.cb.seq \in Nat /\ pc[p] = "receive" /\ h.nonce + 1 \in Nat
    BY <1>2, HandleInHand DEF HandleAuthStart, Receiving, CallbacksOf, Callbacks, HandleRecords
  <2>2. m \in Packets
    BY <2>1, NonceIsNonce, PacketIsPacket DEF Types, Proofs
  <2>3. Sent(p, m)
    BY <2>2 DEF Sent, Packet
  <2> QED
    BY <1>2, <2>1, <2>3 DEF HandleAuthStart, Transmit
<1>3. CASE HandleAuthChallenge(p)
  <2> DEFINE key == <<Nonce(p, h.nonce), local[p].msg.nonce>>
             m == Packet(h.cb.seq, "ServerConfirm", None, None, key)
  <2>1. h.cb.seq \in Nat /\ pc[p] = "receive" /\ local[p].msg \in Packets
    BY <1>3, HandleInHand, SMTT(30)
       DEF HandleAuthChallenge, Receiving, CallbacksOf, Callbacks, ServiceInv, InHand
  <2>2. CASE local[p].msg.proof = key /\ CanTransmit(h.cb)
    <3>0. key \in Proofs /\ None \in Nonces /\ "ServerConfirm" \in Types
      BY <2>1, <2>2 DEF Packets, Nonces, Types
    <3>1. m \in Packets
      BY <2>1, <3>0, PacketIsPacket
    <3>2. Sent(p, m)
      BY <2>1, <2>2, <3>1 DEF Sent, Packet
    <3>3. net' = [net EXCEPT ![Peer[h.cb.conn]] = Append(@, m)]
      BY <1>3, <2>2 DEF HandleAuthChallenge, ProofMatches, Transmit
    <3> QED
      BY <2>1, <3>2, <3>3
  <2>3. CASE ~(local[p].msg.proof = key /\ CanTransmit(h.cb))
    BY <1>3, <2>3, SMTT(30) DEF HandleAuthChallenge, ProofMatches
  <2> QED
    BY <2>2, <2>3
<1>4. CASE HandleExchangeRequest(p)
  <2> DEFINE m == Packet(h.cb.seq, "ExchangeResponse", None, None, h.sessionKey)
  <2>1. h.cb.seq \in Nat /\ pc[p] = "receive" /\ local[p].msg \in Packets
    BY <1>4, HandleInHand DEF HandleExchangeRequest, Receiving, CallbacksOf, Callbacks, ServiceInv, InHand
  <2>2. h.sessionKey = local[p].msg.proof
    BY <1>4 DEF HandleExchangeRequest, ProofMatches
  <2>3. m \in Packets
    BY <2>1, <2>2, PacketIsPacket DEF Types, Nonces, Packets
  <2>4. Sent(p, m)
    BY <1>4, <2>1, <2>2, <2>3 DEF Sent, Packet
  <2> QED
    BY <1>4, <2>1, <2>4 DEF HandleExchangeRequest, Transmit
<1>5. CASE \/ AuthDevice(p) \/ StartAuthFails(p) \/ Lookup(p) \/ DropInstance(p)
           \/ RecordRequest(p) \/ CreateInstance(p) \/ RefuseAuthStart(p) \/ ChallengeWithoutKey(p)
           \/ RefuseExchange(p) \/ HandleAuthConfirm(p) \/ HandleError(p) \/ Cleanup(p)
  BY <1>5 DEF AuthDevice, StartAuthFails, Lookup, DropInstance, RecordRequest, CreateInstance,
              RefuseAuthStart, ChallengeWithoutKey, RefuseExchange, HandleAuthConfirm, HandleError,
              Cleanup
<1> QED
  BY <1>1, <1>2, <1>3, <1>4, <1>5 DEF ServiceStep

LEMMA PostKeepsNet ==
  ASSUME net \in [Ends -> Seq(Packets)], NEW e, NEW m \in Packets,
         net' = [net EXCEPT ![e] = Append(@, m)]
  PROVE  net' \in [Ends -> Seq(Packets)]
<1>1. e \in Ends => Append(net[e], m) \in Seq(Packets)
  BY AppendProperties
<1> QED
  BY <1>1

-----------------------------------------------------------------------------
(* Where a handler goes                                                    *)

LEMMA ServiceMoves ==
  ASSUME ServiceInv, NEW p \in Handlers, ServiceStep(p)
  PROVE  /\ \E label \in {"reading", "start", "lookup", "drop", "record", "create", "receive",
                          "cleanup"} : pc' = [pc EXCEPT ![p] = label]
         /\ \/ UNCHANGED local
            \/ local' = [local EXCEPT ![p] = NoLocal]
            \/ \E h \in Nat : local' = [local EXCEPT ![p].handle = h]
<1>1. DeviceOf[p] \in Devices /\ handles[DeviceOf[p]] \in Seq(HandleRecords)
  BY HiChainAssumption DEF ServiceInv, TypeOK
<1>2. Len(handles[DeviceOf[p]]) + 1 \in Nat
  BY <1>1, LenProperties
<1>3. CASE StartAuth(p)
  <2>1. local[p].then \in {"lookup", None}
    BY DEF ServiceInv, TypeOK, LocalRecords
  <2> QED
    BY <1>3, <2>1 DEF StartAuth, Return, Goto
<1>4. CASE AuthDevice(p) \/ CreateInstance(p)
  BY <1>4, <1>2 DEF AuthDevice, CreateInstance, AddInstance, Goto
<1>5. CASE Lookup(p)
  <2>1. ASSUME NEW key, Known(DeviceOf[p], key) PROVE instances[DeviceOf[p]][key] \in Nat
    <3>1. instances[DeviceOf[p]][key] \in DOMAIN handles[DeviceOf[p]]
      BY <1>1, <2>1 DEF ServiceInv, TypeOK, IsMap, Known
    <3> QED
      BY <1>1, <3>1, LenProperties
  <2> QED
    BY <1>5, <2>1 DEF Lookup, Goto
<1>6. CASE \/ StartAuthFails(p) \/ DropInstance(p) \/ RecordRequest(p) \/ RefuseAuthStart(p)
           \/ ChallengeWithoutKey(p) \/ RefuseExchange(p) \/ HandleError(p) \/ Cleanup(p)
           \/ HandleAuthStart(p) \/ HandleAuthChallenge(p) \/ HandleExchangeRequest(p)
           \/ HandleAuthConfirm(p)
  BY <1>6 DEF StartAuthFails, DropInstance, RecordRequest, RefuseAuthStart, ChallengeWithoutKey,
              RefuseExchange, HandleError, Cleanup, HandleAuthStart, HandleAuthChallenge,
              HandleExchangeRequest, HandleAuthConfirm, Return, Goto
<1> QED
  BY <1>3, <1>4, <1>5, <1>6 DEF ServiceStep

\* The handler at work has in hand what it needs where it goes; the others
\* keep what they have.
LEMMA ServiceInHand ==
  ASSUME ServiceInv, NEW p \in Handlers, ServiceStep(p)
  PROVE  /\ pc' \in [Handlers -> Labels] /\ local' \in [Handlers -> LocalRecords]
         /\ \A q \in Handlers : InHand(q)'
<1> DEFINE d == DeviceOf[p]
<1>1. /\ d \in Devices /\ pc \in [Handlers -> Labels] /\ local \in [Handlers -> LocalRecords]
      /\ InHand(p)
  BY HiChainAssumption DEF ServiceInv, TypeOK
<1>2. pc' \in [Handlers -> Labels] /\ \A q \in Handlers \ {p} : pc'[q] = pc[q]
  BY <1>1, ServiceMoves DEF Labels
<1>3. local' \in [Handlers -> LocalRecords] /\ \A q \in Handlers \ {p} : local'[q] = local[q]
  <2>1. NoLocal \in LocalRecords
    BY DEF NoLocal, LocalRecords
  <2>2. ASSUME NEW h \in Nat PROVE [local EXCEPT ![p].handle = h] \in [Handlers -> LocalRecords]
    BY <1>1, <2>2 DEF LocalRecords
  <2> QED
    BY <1>1, <2>1, <2>2, ServiceMoves
<1>4. ASSUME NEW q \in Handlers, q # p PROVE InHand(q)'
  <2>1. InHand(q) /\ DeviceOf[q] \in Devices
    BY HiChainAssumption DEF ServiceInv
  <2>2. KeepsHandles(DeviceOf[q])
    BY <2>1, HandlesGrow
  <2> QED
    BY <1>2, <1>3, <1>4, <2>1, <2>2 DEF InHand, KeepsHandles
<1>5. KeepsHandles(d)
  BY <1>1, HandlesGrow
<1>6. ASSUME pc'[p] = "reading" PROVE InHand(p)'
  BY <1>6 DEF InHand
<1>7. CASE AuthDevice(p) \/ CreateInstance(p)
  <2>1. PICK role : AddInstance(p, role)
    BY <1>7 DEF AuthDevice, CreateInstance
  <2>2. pc[p] \in {"auth", "create"} /\ pc' = [pc EXCEPT ![p] = IF pc[p] = "auth" THEN "start" ELSE "receive"]
    BY <1>7 DEF AuthDevice, CreateInstance, Goto
  <2> DEFINE h == Len(handles[d]) + 1
  <2>3. local' = [local EXCEPT ![p].handle = h]
        /\ handles' = [handles EXCEPT ![d] = Append(@, NewHandle(role, local[p].key, local[p].cb))]
    BY <2>1 DEF AddInstance
  <2>4. /\ local'[p].key = local[p].key /\ local'[p].cb = local[p].cb
        /\ local'[p].msg = local[p].msg /\ local'[p].then = local[p].then
        /\ local'[p].handle = h
    BY <1>1, <2>3 DEF LocalRecords
  <2>5. h \in DOMAIN handles'[d] /\ handles'[d][h].key = local[p].key
    <3>1. handles[d] \in Seq(HandleRecords) /\ handles \in [Devices -> Seq(HandleRecords)]
      BY <1>1 DEF ServiceInv, TypeOK
    <3>2. handles'[d] = Append(handles[d], NewHandle(role, local[p].key, local[p].cb))
      BY <1>1, <2>3, <3>1
    <3>3. NewHandle(role, local[p].key, local[p].cb).key = local[p].key
      BY DEF NewHandle
    <3> QED
      BY <3>1, <3>2, <3>3
  <2>6. pc'[p] = IF pc[p] = "auth" THEN "start" ELSE "receive"
    BY <1>1, <2>2
  <2> QED
    BY <1>1, <1>4, <1>2, <1>3, <2>2, <2>4, <2>5, <2>6 DEF InHand
<1>8. CASE Lookup(p)
  <2>1. CASE pc'[p] = "receive"
    <3>1. pc'[p] = "receive" /\ local'[p].handle = instances[d][local[p].key]
          /\ local'[p].msg = local[p].msg /\ local'[p].key = local[p].key
          /\ local[p].key \in DOMAIN instances[d]
      BY <1>1, <1>8, <2>1 DEF Lookup, Goto, LocalRecords, Known
    <3>2. /\ instances[d][local[p].key] \in DOMAIN handles[d]
          /\ handles[d][instances[d][local[p].key]].key = local[p].key
      BY <1>1, <3>1 DEF ServiceInv, Filed, TypeOK, IsMap
    <3>3. pc[p] = "lookup" /\ UNCHANGED handles
      BY <1>8 DEF Lookup, serviceVars
    <3> QED
      BY <1>1, <1>2, <1>3, <1>4, <3>1, <3>2, <3>3 DEF InHand
  <2>2. CASE pc'[p] # "receive"
    <3>1. pc'[p] \in {"drop", "record"} /\ UNCHANGED local /\ pc[p] = "lookup"
      BY <1>1, <1>8, <2>2 DEF Lookup, Goto
    <3> QED
      BY <1>1, <1>2, <1>3, <1>4, <3>1 DEF InHand
  <2> QED
    BY <2>1, <2>2, SMTT(30)
<1>9. CASE StartAuth(p) /\ pc'[p] # "reading"
  <2>1. pc[p] = "start" /\ pc'[p] = "lookup" /\ UNCHANGED local /\ local[p].then # None
    BY <1>1, <1>9 DEF StartAuth, Return, Goto, LocalRecords
  <2> QED
    BY <1>1, <1>2, <1>3, <1>4, <2>1 DEF InHand
<1>10. CASE DropInstance(p) \/ RecordRequest(p)
  <2>1. pc[p] \in {"drop", "record"} /\ pc'[p] \in {"record", "create"} /\ UNCHANGED local
    BY <1>1, <1>10 DEF DropInstance, RecordRequest, Goto
  <2> QED
    BY <1>1, <1>2, <1>3, <1>4, <2>1 DEF InHand
<1>11. CASE HandleExchangeRequest(p) \/ HandleAuthConfirm(p) \/ HandleError(p)
  <2>1. pc[p] = "receive" /\ pc'[p] = "cleanup" /\ UNCHANGED local
    BY <1>1, <1>11 DEF HandleExchangeRequest, HandleAuthConfirm, HandleError, Receiving, Goto
  <2> QED
    BY <1>1, <1>2, <1>3, <1>4, <1>5, <2>1 DEF InHand, KeepsHandles
<1>12. CASE \/ StartAuthFails(p) \/ RefuseAuthStart(p) \/ ChallengeWithoutKey(p)
            \/ RefuseExchange(p) \/ Cleanup(p) \/ HandleAuthStart(p) \/ HandleAuthChallenge(p)
  <2>1. pc'[p] = "reading"
    BY <1>1, <1>12 DEF StartAuthFails, RefuseAuthStart, ChallengeWithoutKey, RefuseExchange, Cleanup,
                HandleAuthStart, HandleAuthChallenge, Return, Goto
  <2> QED
    BY <1>2, <1>3, <1>4, <1>6, <2>1
<1> QED
  BY <1>2, <1>3, <1>4, <1>6, <1>7, <1>8, <1>9, <1>10, <1>11, <1>12 DEF ServiceStep

LEMMA ServiceFiled ==
  ASSUME ServiceInv, NEW p \in Handlers, ServiceStep(p), NEW d \in Devices
  PROVE  Filed(d)'
<1>1. Filed(d) /\ KeepsHandles(d) /\ UNCHANGED contexts
  BY HandlesGrow, ServiceTables DEF ServiceInv
<1>2. ASSUME NEW h \in DOMAIN handles'[d] PROVE handles'[d][h].cb \in CallbacksOf(d)
  <2>1. CASE h \in DOMAIN handles[d]
    BY <1>1, <2>1 DEF Filed, KeepsHandles
  <2>2. CASE h \notin DOMAIN handles[d]
    <3>1. Created(p, d, h)
      BY <1>2, <2>2, HandlesGrow
    <3> QED
      BY <3>1 DEF Created, NewHandle, ServiceInv, InHand
  <2> QED
    BY <2>1, <2>2
<1>3. ASSUME NEW k \in DOMAIN instances'[d] PROVE handles'[d][instances'[d][k]].key = k
  <2>1. CASE k \in DOMAIN instances[d] /\ instances'[d][k] = instances[d][k]
    <3>1. instances[d][k] \in DOMAIN handles[d]
      BY <2>1 DEF ServiceInv, TypeOK, IsMap
    <3> QED
      BY <1>1, <2>1, <3>1 DEF Filed, KeepsHandles
  <2>2. CASE Created(p, d, instances'[d][k]) /\ k = local[p].key
    BY <2>2 DEF Created, NewHandle
  <2> QED
    BY <1>3, <2>1, <2>2, ServiceInstances
<1> QED
  BY <1>1, <1>2, <1>3 DEF Filed

LEMMA PeerIsEnd ==
  ASSUME NEW d \in Devices, NEW cb \in CallbacksOf(d)
  PROVE  cb.conn \in Handlers /\ Peer[cb.conn] \in Ends
BY HiChainAssumption DEF CallbacksOf, Callbacks, Ends

LEMMA ServiceStepInv ==
  ASSUME ServiceInv, NEW p \in Handlers, ServiceStep(p), UNCHANGED seqCounter
  PROVE  ServiceInv'
<1>1. net' \in [Ends -> Seq(Packets)]
  <2>1. net \in [Ends -> Seq(Packets)]
    BY DEF ServiceInv, TypeOK
  <2>2. CASE UNCHANGED net
    BY <2>1, <2>2
  <2>3. ASSUME NEW m, Sent(p, m), net' = [net EXCEPT ![Peer[HandleOf(p).cb.conn]] = Append(@, m)]
        PROVE  net' \in [Ends -> Seq(Packets)]
    BY <2>1, <2>3, PostKeepsNet DEF Sent
  <2> QED
    BY <2>2, <2>3, ServiceNet
<1>2. TypeOK'
  <2>1. DOMAIN contexts' = Devices /\ (\A d \in Devices : IsMap(contexts'[d], Nat, [req : Nat, conn : Handlers]))
        /\ open' \subseteq Ends /\ seqCounter' \in [Devices -> Nat]
    BY ServiceTables DEF ServiceInv, TypeOK
  <2> QED
    BY <1>1, <2>1, HandlesGrow, ServiceInstances, ServiceSessions, ServiceInHand DEF TypeOK
<1>3. ASSUME NEW d \in Devices PROVE Numbered(d)'
  <2>1. Numbered(d) /\ KeepsSessions(d)
    BY ServiceSessions DEF ServiceInv
  <2> QED
    BY <2>1 DEF Numbered, KeepsSessions
<1> QED
  BY <1>2, <1>3, ServiceFiled, ServiceInHand DEF ServiceInv

\* A session that has begun stays begun.
LEMMA ServiceKeepsBegun ==
  ASSUME ServiceInv, NEW p \in Handlers, ServiceStep(p), NEW d \in Devices, NEW s, Begun(d, s)
  PROVE  Begun(d, s)'
BY ServiceSessions DEF Begun, KeepsSessions

LEMMA ServiceStartInv ==
  ASSUME StartInv, NEW p \in Handlers, ServiceStep(p), UNCHANGED seqCounter
  PROVE  StartInv'
<1> DEFINE e == DeviceOf[p]
<1>1. ServiceInv /\ ServiceInv'
  BY ServiceStepInv DEF StartInv
<1>a. pc \in [Handlers -> Labels] /\ local \in [Handlers -> LocalRecords]
  BY <1>1 DEF ServiceInv, TypeOK
<1>2. \A q \in Handlers : pc'[q] = "auth" => pc[q] = "auth" /\ q # p
  BY <1>1, <1>a, ServiceMoves
<1>3. \A q \in Handlers \ {p} : pc'[q] = pc[q] /\ local'[q] = local[q]
  BY <1>1, <1>a, ServiceMoves
<1>4. ASSUME NEW d \in Devices, NEW h \in DOMAIN handles'[d] \ DOMAIN handles[d],
             handles'[d][h].role = "controller"
      PROVE  /\ pc[p] = "auth" /\ d = e /\ h = Len(handles[d]) + 1
             /\ handles'[d][h].key = local[p].key
  <2>1. Created(p, d, h)
    BY <1>1, <1>4, HandlesGrow
  <2> QED
    BY <2>1, <1>4 DEF Created, NewHandle
<1>5. ASSUME NEW d \in Devices, NEW s
      PROVE  \/ Starts(d, s)' \subseteq Starts(d, s)
             \/ /\ pc[p] = "auth" /\ d = e /\ s = local[p].key
                /\ Starts(d, s)' \subseteq Starts(d, s) \cup {Len(handles[d]) + 1}
  <2>1. KeepsHandles(d)
    BY <1>1, HandlesGrow
  <2>2. ASSUME NEW h \in Starts(d, s)', h \notin DOMAIN handles[d]
        PROVE  pc[p] = "auth" /\ d = e /\ s = local[p].key /\ h = Len(handles[d]) + 1
    BY <1>4, <2>2 DEF Starts
  <2>3. \A h \in Starts(d, s)' : h \in DOMAIN handles[d] => h \in Starts(d, s)
    BY <2>1 DEF Starts, KeepsHandles
  <2> QED
    BY <2>2, <2>3
<1>6. ASSUME NEW q \in Handlers, pc'[q] = "auth" PROVE Starting(q)'
  <2>1. /\ Starting(q) /\ pc[q] = "auth" /\ q # p /\ local'[q] = local[q]
        /\ DeviceOf[q] \in Devices
    BY <1>2, <1>3, <1>6, HiChainAssumption DEF StartInv
  <2>2. ~(pc[p] = "auth" /\ DeviceOf[q] = e /\ local[q].key = local[p].key)
    BY <2>1 DEF Starting
  <2>3. Starts(DeviceOf[q], local[q].key)' = {}
    BY <1>5, <2>1, <2>2 DEF Starting
  <2>4. Begun(DeviceOf[q], local[q].key)'
    BY <1>1, <2>1, ServiceKeepsBegun DEF Starting
  <2>5. \A r \in Handlers : pc'[r] = "auth" /\ DeviceOf[r] = DeviceOf[q] /\ local'[r].key = local'[q].key
                            => r = q
    BY <1>2, <1>3, <2>1 DEF Starting
  <2> QED
    BY <2>1, <2>3, <2>4, <2>5 DEF Starting, Begun, Starts
<1>7. ASSUME NEW d \in Devices, NEW h \in DOMAIN handles'[d], handles'[d][h].role = "controller"
      PROVE  Begun(d, handles[d][h].key)'
  <2>1. CASE h \in DOMAIN handles[d]
    <3>1. Begun(d, handles[d][h].key) /\ handles'[d][h].key = handles[d][h].key
      BY <1>1, <1>7, <2>1, HandlesGrow DEF KeepsHandles, StartInv
    <3> QED
      BY <1>1, <3>1, ServiceSessions DEF Begun, KeepsSessions
  <2>2. CASE h \notin DOMAIN handles[d]
    <3>1. pc[p] = "auth" /\ d = e /\ handles'[d][h].key = local[p].key
      BY <1>4, <1>7, <2>2
    <3>2. Begun(d, local[p].key)
      BY <3>1 DEF StartInv, Starting
    <3> QED
      BY <1>1, <3>1, <3>2, ServiceSessions DEF Begun, KeepsSessions
  <2> QED
    BY <2>1, <2>2
<1>8. OneStart'
  <2> SUFFICES ASSUME NEW d \in Devices, NEW s \in DOMAIN sessions'[d],
                      NEW g \in Starts(d, s)', NEW h \in Starts(d, s)'
               PROVE  g = h
    BY DEF OneStart
  <2>1. s \in DOMAIN sessions[d]
    BY <1>1, ServiceSessions DEF KeepsSessions
  <2>2. CASE Starts(d, s)' \subseteq Starts(d, s)
    BY <2>1, <2>2 DEF StartInv, OneStart
  <2>3. CASE /\ pc[p] = "auth" /\ d = e /\ s = local[p].key
             /\ Starts(d, s)' \subseteq Starts(d, s) \cup {Len(handles[d]) + 1}
    <3>1. Starts(d, s) = {}
      BY <2>3 DEF StartInv, Starting
    <3> QED
      BY <2>3, <3>1
  <2> QED
    BY <1>5, <2>2, <2>3
<1> QED
  BY <1>1, <1>6, <1>7, <1>8 DEF StartInv

-----------------------------------------------------------------------------
(* Steps of sessions                                                       *)

\* A handler is at work on nothing that the others or the tables change.
LEMMA OneHandlerMoves ==
  ASSUME ServiceInv, UNCHANGED handles, NEW p \in Handlers, InHand(p)',
         NEW label \in Labels, pc' = [pc EXCEPT ![p] = label],
         NEW l \in LocalRecords, local' = [local EXCEPT ![p] = l]
  PROVE  /\ pc' \in [Handlers -> Labels] /\ local' \in [Handlers -> LocalRecords]
         /\ \A q \in Handlers : InHand(q)'
<1>1. pc \in [Handlers -> Labels] /\ local \in [Handlers -> LocalRecords]
  BY DEF ServiceInv, TypeOK
<1>2. pc' \in [Handlers -> Labels] /\ local' \in [Handlers -> LocalRecords]
  BY <1>1
<1>3. ASSUME NEW q \in Handlers \ {p} PROVE InHand(q)'
  <2>1. pc'[q] = pc[q] /\ local'[q] = local[q] /\ InHand(q)
    BY <1>1 DEF ServiceInv
  <2> QED
    BY <2>1 DEF InHand
<1> QED
  BY <1>2, <1>3

LEMMA NewSessionInv ==
  ASSUME ServiceInv, NEW p \in Dialers \cup Acceptors,
         seqCounter' = [seqCounter EXCEPT ![DeviceOf[p]] = @ + 1],
         NEW server \in BOOLEAN, NEW state \in {"sync", "auth"},
         NewSession(p, seqCounter[DeviceOf[p]] + 1, server, state)
  PROVE  /\ seqCounter' \in [Devices -> Nat]
         /\ DOMAIN sessions' = Devices
         /\ \A d \in Devices : IsMap(sessions'[d], Nat, SessionRecords) /\ Numbered(d)'
         /\ \A d \in Devices : \A s \in DOMAIN sessions[d] :
              s \in DOMAIN sessions'[d] /\ sessions'[d][s] = sessions[d][s]
         /\ \A d \in Devices : \A s \in DOMAIN sessions'[d] \ DOMAIN sessions[d] :
              d = DeviceOf[p] /\ s = seqCounter[d] + 1
         /\ seqCounter[DeviceOf[p]] + 1 \in Nat
         /\ seqCounter[DeviceOf[p]] + 1 \notin DOMAIN sessions[DeviceOf[p]]
         /\ seqCounter[DeviceOf[p]] + 1 \in DOMAIN sessions'[DeviceOf[p]]
         /\ sessions'[DeviceOf[p]][seqCounter[DeviceOf[p]] + 1]
              = [conn |-> p, server |-> server, state |-> state]
<1> DEFINE e == DeviceOf[p]
           n == seqCounter[e] + 1
           r == [conn |-> p, server |-> server, state |-> state]
<1>1. e \in Devices /\ p \in Handlers
  BY HiChainAssumption, AuthSessionAssumption
<1>2. /\ seqCounter \in [Devices -> Nat] /\ DOMAIN sessions = Devices
      /\ \A d \in Devices : IsMap(sessions[d], Nat, SessionRecords) /\ Numbered(d)
  BY DEF ServiceInv, TypeOK
<1>3. n \in Nat /\ seqCounter' \in [Devices -> Nat] /\ seqCounter'[e] = n
      /\ \A d \in Devices \ {e} : seqCounter'[d] = seqCounter[d]
  BY <1>1, <1>2
<1>4. sessions' = [sessions EXCEPT ![e] = Put(sessions[e], n, r)]
  BY DEF NewSession
<1>5. r \in SessionRecords
  BY DEF SessionRecords
<1>6. n \notin DOMAIN sessions[e]
  <2>1. seqCounter[e] \in Nat /\ DOMAIN sessions[e] \subseteq Nat
    BY <1>1, <1>2 DEF IsMap
  <2>2. \A s \in DOMAIN sessions[e] : s <= seqCounter[e]
    BY <1>1, <1>2 DEF Numbered
  <2> QED
    BY <2>1, <2>2
<1>7. IsMap(Put(sessions[e], n, r), Nat, SessionRecords)
  BY <1>1, <1>2, <1>3, <1>5, PutIsMap
<1>8. /\ DOMAIN Put(sessions[e], n, r) = DOMAIN sessions[e] \cup {n}
      /\ Put(sessions[e], n, r)[n] = r
      /\ \A s \in DOMAIN sessions[e] : Put(sessions[e], n, r)[s] = sessions[e][s]
  BY <1>6 DEF Put
<1>9. /\ DOMAIN sessions' = Devices
      /\ sessions'[e] = Put(sessions[e], n, r)
      /\ \A d \in Devices \ {e} : sessions'[d] = sessions[d]
  BY <1>1, <1>2, <1>4
<1>10. ASSUME NEW d \in Devices PROVE Numbered(d)'
  <2>1. CASE d # e
    BY <1>2, <1>3, <1>9, <2>1 DEF Numbered
  <2>2. CASE d = e
    <3>1. seqCounter[e] \in Nat /\ DOMAIN sessions[e] \subseteq Nat
      BY <1>1, <1>2 DEF IsMap
    <3>2. \A s \in DOMAIN sessions[e] : s <= n
      BY <1>1, <1>2, <3>1 DEF Numbered
    <3>3. ASSUME NEW s \in DOMAIN sessions'[e]
          PROVE  s <= n /\ DeviceOf[sessions'[e][s].conn] = e
      <4>1. CASE s \in DOMAIN sessions[e]
        BY <1>1, <1>2, <1>8, <1>9, <3>2, <4>1 DEF Numbered
      <4>2. CASE s = n
        BY <1>3, <1>8, <1>9, <4>2
      <4> QED
        BY <1>8, <1>9, <3>3, <4>1, <4>2
    <3> QED
      BY <1>3, <2>2, <3>3 DEF Numbered
  <2> QED
    BY <2>1, <2>2
<1> QED
  BY <1>1, <1>2, <1>3, <1>6, <1>7, <1>8, <1>9, <1>10

LEMMA SetContextInv ==
  ASSUME ServiceInv, NEW e \in Devices, NEW key \in Nat, NEW p \in Handlers,
         SetContext(e, key, p)
  PROVE  /\ DOMAIN contexts' = Devices
         /\ \A d \in Devices :
              /\ IsMap(contexts'[d], Nat, [req : Nat, conn : Handlers])
              /\ DOMAIN contexts[d] \subseteq DOMAIN contexts'[d]
              /\ \A k \in DOMAIN contexts'[d] : contexts'[d][k].req = k
         /\ key \in DOMAIN contexts'[e]
<1> DEFINE r == [req |-> key, conn |-> p]
<1>1. /\ DOMAIN contexts = Devices
      /\ \A d \in Devices : IsMap(contexts[d], Nat, [req : Nat, conn : Handlers])
      /\ \A d \in Devices : \A k \in DOMAIN contexts[d] : contexts[d][k].req = k
  BY DEF ServiceInv, TypeOK, Filed
<1>2. contexts' = [contexts EXCEPT ![e] = Put(contexts[e], key, r)]
  BY DEF SetContext
<1>3. IsMap(Put(contexts[e], key, r), Nat, [req : Nat, conn : Handlers])
  BY <1>1, PutIsMap
<1>4. /\ DOMAIN Put(contexts[e], key, r) = DOMAIN contexts[e] \cup {key}
      /\ \A k \in DOMAIN Put(contexts[e], key, r) :
           Put(contexts[e], key, r)[k] = IF k = key THEN r ELSE contexts[e][k]
  BY DEF Put
<1>5. /\ DOMAIN contexts' = Devices /\ contexts'[e] = Put(contexts[e], key, r)
      /\ \A d \in Devices \ {e} : contexts'[d] = contexts[d]
  BY <1>1, <1>2
<1>6. \A k \in DOMAIN contexts'[e] : contexts'[e][k].req = k
  BY <1>1, <1>4, <1>5
<1> QED
  BY <1>1, <1>3, <1>4, <1>5, <1>6

\* What a step that leaves the service alone has to show.
LEMMA CallerStepInv ==
  ASSUME ServiceInv, UNCHANGED serviceVars,
         DOMAIN contexts' = Devices, DOMAIN sessions' = Devices,
         \A d \in Devices :
           /\ IsMap(contexts'[d], Nat, [req : Nat, conn : Handlers])
           /\ \A k \in DOMAIN contexts'[d] : contexts'[d][k].req = k
           /\ IsMap(sessions'[d], Nat, SessionRecords)
           /\ Numbered(d)',
         seqCounter' \in [Devices -> Nat],
         net' \in [Ends -> Seq(Packets)],
         open' \subseteq Ends,
         pc' \in [Handlers -> Labels], local' \in [Handlers -> LocalRecords],
         \A q \in Handlers : InHand(q)'
  PROVE  ServiceInv'
<1>1. TypeOK'
  BY DEF ServiceInv, TypeOK, serviceVars
<1>2. ASSUME NEW d \in Devices PROVE Filed(d)'
  BY DEF ServiceInv, Filed, serviceVars
<1> QED
  BY <1>1, <1>2 DEF ServiceInv

\* The facts a step that changes little starts from.
LEMMA CallerFacts ==
  ASSUME ServiceInv
  PROVE  /\ DOMAIN contexts = Devices /\ DOMAIN sessions = Devices
         /\ \A d \in Devices :
              /\ IsMap(contexts[d], Nat, [req : Nat, conn : Handlers])
              /\ \A k \in DOMAIN contexts[d] : contexts[d][k].req = k
              /\ IsMap(sessions[d], Nat, SessionRecords)
              /\ Numbered(d)
         /\ seqCounter \in [Devices -> Nat]
         /\ net \in [Ends -> Seq(Packets)]
         /\ open \subseteq Ends
         /\ pc \in [Handlers -> Labels] /\ local \in [Handlers -> LocalRecords]
BY DEF ServiceInv, TypeOK, Filed

LEMMA NumberedKept ==
  ASSUME ServiceInv, NEW d \in Devices, UNCHANGED sessions, seqCounter'[d] >= seqCounter[d],
         seqCounter'[d] \in Nat
  PROVE  Numbered(d)'
<1>1. Numbered(d) /\ DOMAIN sessions[d] \subseteq Nat /\ seqCounter[d] \in Nat
  BY DEF ServiceInv, TypeOK, IsMap
<1>2. \A s \in DOMAIN sessions[d] : s <= seqCounter'[d]
  BY <1>1 DEF Numbered
<1> QED
  BY <1>1, <1>2 DEF Numbered

LEMMA InHandKept ==
  ASSUME ServiceInv, UNCHANGED <<handles, pc, local>>
  PROVE  \A q \in Handlers : InHand(q)'
BY DEF ServiceInv, InHand

LEMMA DialFailsInv ==
  ASSUME ServiceInv, NEW e \in Devices, DialFails(e) PROVE ServiceInv'
<1>1. /\ seqCounter' \in [Devices -> Nat]
      /\ \A d \in Devices : seqCounter'[d] >= seqCounter[d]
  BY CallerFacts DEF DialFails
<1>2. UNCHANGED hichainVars
  BY DEF DialFails
<1>3. \A d \in Devices : Numbered(d)'
  BY <1>1, <1>2, NumberedKept DEF hichainVars, callerVars
<1> QED
  BY <1>1, <1>2, <1>3, CallerFacts, InHandKept, CallerStepInv DEF hichainVars, callerVars, serviceVars, procVars

LEMMA ConnectedInv ==
  ASSUME ServiceInv, NEW p \in Dialers, Connected(p) PROVE ServiceInv'
<1> DEFINE e == DeviceOf[p]
           n == seqCounter[e] + 1
           l == [NoLocal EXCEPT !.key = n, !.cb = [conn |-> p, seq |-> n, session |-> n]]
<1>1. p \in Handlers /\ e \in Devices
  BY HiChainAssumption, AuthSessionAssumption
<1>2. /\ n \in Nat /\ seqCounter' \in [Devices -> Nat] /\ DOMAIN sessions' = Devices
      /\ \A d \in Devices : IsMap(sessions'[d], Nat, SessionRecords) /\ Numbered(d)'
  BY NewSessionInv DEF Connected
<1>3. DOMAIN contexts' = Devices
      /\ \A d \in Devices :
           /\ IsMap(contexts'[d], Nat, [req : Nat, conn : Handlers])
           /\ \A k \in DOMAIN contexts'[d] : contexts'[d][k].req = k
  BY <1>1, <1>2, SetContextInv DEF Connected
<1>4. UNCHANGED <<serviceVars, net, open>>
  BY DEF Connected
<1>5. l \in LocalRecords /\ l.key = n /\ l.cb \in CallbacksOf(e) /\ l.then = None
  BY <1>1, <1>2 DEF NoLocal, LocalRecords, Callbacks, CallbacksOf
<1>6. local' = [local EXCEPT ![p] = l] /\ pc' = [pc EXCEPT ![p] = "auth"]
  BY DEF Connected, Goto
<1>7. InHand(p)'
  <2>1. local'[p] = l /\ pc'[p] = "auth"
    BY <1>1, <1>6, CallerFacts
  <2> QED
    BY <1>2, <1>5, <2>1 DEF InHand
<1>8. /\ pc' \in [Handlers -> Labels] /\ local' \in [Handlers -> LocalRecords]
      /\ \A q \in Handlers : InHand(q)'
  BY <1>1, <1>4, <1>5, <1>6, <1>7, OneHandlerMoves DEF Labels, serviceVars
<1> QED
  BY <1>2, <1>3, <1>4, <1>8, CallerFacts, CallerStepInv

LEMMA AcceptedInv ==
  ASSUME ServiceInv, NEW p \in Handlers, Accepted(p) PROVE ServiceInv'
<1>1. UNCHANGED <<serviceVars, callerVars, net, open, local, seqCounter>>
  BY DEF Accepted
<1>2. pc' = [pc EXCEPT ![p] = "reading"] /\ local' = [local EXCEPT ![p] = local[p]]
      /\ local[p] \in LocalRecords
  BY CallerFacts DEF Accepted, Goto
<1>3. InHand(p)'
  BY <1>2, CallerFacts DEF InHand
<1>4. /\ pc' \in [Handlers -> Labels] /\ local' \in [Handlers -> LocalRecords]
      /\ \A q \in Handlers : InHand(q)'
  BY <1>1, <1>2, <1>3, OneHandlerMoves DEF Labels, serviceVars
<1>5. \A d \in Devices : Numbered(d)'
  BY <1>1, CallerFacts DEF Numbered, callerVars
<1> QED
  BY <1>1, <1>4, <1>5, CallerFacts, CallerStepInv DEF callerVars

LEMMA TakeKeepsNet ==
  ASSUME net \in [Ends -> Seq(Packets)], NEW e \in Ends, net[e] # <<>>
  PROVE  /\ Tail(net[e]) \in Seq(Packets) /\ Head(net[e]) \in Packets
         /\ [net EXCEPT ![e] = Tail(@)] \in [Ends -> Seq(Packets)]
<1>1. Tail(net[e]) \in Seq(Packets) /\ Head(net[e]) \in Packets
  BY HeadTailProperties
<1> QED
  BY <1>1

LEMMA ReadSdkInv ==
  ASSUME ServiceInv, NEW p \in Dialers \cup Acceptors, ReadSdk(p) PROVE ServiceInv'
<1> DEFINE e == DeviceOf[p]
           l == [local[p] EXCEPT !.msg = Head(net[p])]
<1>1. p \in Handlers /\ e \in Devices /\ p \in Ends
  BY HiChainAssumption, AuthSessionAssumption DEF Ends
<1>2. /\ net' \in [Ends -> Seq(Packets)] /\ Head(net[p]) \in Packets
  BY <1>1, CallerFacts, TakeKeepsNet DEF ReadSdk
<1>3. /\ seqCounter' \in [Devices -> Nat] /\ DOMAIN sessions' = Devices
      /\ \A d \in Devices : IsMap(sessions'[d], Nat, SessionRecords) /\ Numbered(d)'
  <2>1. CASE HasSession(p)
    BY <2>1, CallerFacts DEF ReadSdk, Numbered
  <2>2. CASE ~HasSession(p)
    <3>1. seqCounter' = [seqCounter EXCEPT ![e] = @ + 1] /\ NewSession(p, seqCounter[e] + 1, TRUE, "sync")
      BY <2>2 DEF ReadSdk
    <3> QED
      BY <3>1, NewSessionInv
  <2> QED
    BY <2>1, <2>2
<1>4. UNCHANGED <<serviceVars, contexts, open>>
  BY DEF ReadSdk
<1>5. l \in LocalRecords /\ l.msg = Head(net[p]) /\ local[p] \in LocalRecords
  <2>1. local[p] \in LocalRecords
    BY <1>1, CallerFacts
  <2> QED
    BY <1>2, <2>1 DEF LocalRecords
<1>6. local' = [local EXCEPT ![p] = l] /\ pc' = [pc EXCEPT ![p] = "route"]
  BY DEF ReadSdk, Goto
<1>7. InHand(p)'
  BY <1>1, <1>2, <1>5, <1>6, CallerFacts DEF InHand
<1>8. /\ pc' \in [Handlers -> Labels] /\ local' \in [Handlers -> LocalRecords]
      /\ \A q \in Handlers : InHand(q)'
  BY <1>1, <1>4, <1>5, <1>6, <1>7, OneHandlerMoves DEF Labels, serviceVars
<1> QED
  BY <1>2, <1>3, <1>4, <1>8, CallerFacts, CallerStepInv

LEMMA BreakInv ==
  ASSUME ServiceInv, NEW p \in Dialers, Break(p) PROVE ServiceInv'
<1>1. UNCHANGED <<serviceVars, callerVars, net, procVars, seqCounter>> /\ open' \subseteq open
  BY DEF Break
<1>2. \A d \in Devices : Numbered(d)'
  BY <1>1, CallerFacts DEF Numbered, callerVars
<1> QED
  BY <1>1, <1>2, CallerFacts, InHandKept, CallerStepInv DEF callerVars, serviceVars, procVars

LEMMA RouteNowhereInv ==
  ASSUME ServiceInv, NEW p \in Handlers, RouteNowhere(p) PROVE ServiceInv'
<1>1. UNCHANGED <<serviceVars, callerVars, net, open, seqCounter>>
  BY DEF RouteNowhere
<1>2. pc' = [pc EXCEPT ![p] = "reading"] /\ local' = [local EXCEPT ![p] = NoLocal]
  BY DEF RouteNowhere, Return, Goto
<1>3. NoLocal \in LocalRecords
  BY DEF NoLocal, LocalRecords
<1>4. InHand(p)'
  BY <1>2, CallerFacts DEF InHand
<1>5. /\ pc' \in [Handlers -> Labels] /\ local' \in [Handlers -> LocalRecords]
      /\ \A q \in Handlers : InHand(q)'
  BY <1>1, <1>2, <1>3, <1>4, OneHandlerMoves DEF Labels, serviceVars
<1>6. \A d \in Devices : Numbered(d)'
  BY <1>1, CallerFacts DEF Numbered, callerVars
<1> QED
  BY <1>1, <1>5, <1>6, CallerFacts, CallerStepInv DEF callerVars

\* The session a packet is routed to begins or goes on.
RouteBegins(p) ==
  LET d == DeviceOf[p]
      seq == local[p].msg.seq
  IN  /\ sessions[d][seq].server /\ sessions[d][seq].state = "sync"
      /\ sessions' = [sessions EXCEPT ![d][seq].state = "auth"]
      /\ SetContext(d, seq, sessions[d][seq].conn)
      /\ local' = [local EXCEPT ![p].key = seq,
                                ![p].cb = SessionCallback(d, seq),
                                ![p].then = "lookup"]
      /\ Goto(p, "auth")
RouteGoesOn(p) ==
  LET d == DeviceOf[p]
      seq == local[p].msg.seq
  IN  /\ ~(sessions[d][seq].server /\ sessions[d][seq].state = "sync")
      /\ local' = [local EXCEPT ![p].key = seq, ![p].cb = SessionCallback(d, seq)]
      /\ Goto(p, "lookup")
      /\ UNCHANGED callerVars

LEMMA RouteFacts ==
  ASSUME ServiceInv, NEW p \in Handlers, Route(p)
  PROVE  LET d == DeviceOf[p]
             seq == local[p].msg.seq
         IN  /\ d \in Devices /\ pc[p] = "route" /\ local[p].msg \in Packets
             /\ seq \in Nat /\ seq \in DOMAIN sessions[d]
             /\ sessions[d][seq] \in SessionRecords
             /\ sessions[d][seq].conn \in Handlers
             /\ SessionCallback(d, seq) \in CallbacksOf(d)
             /\ UNCHANGED <<serviceVars, net, open, seqCounter>>
             /\ RouteBegins(p) \/ RouteGoesOn(p)
<1> DEFINE d == DeviceOf[p]
           seq == local[p].msg.seq
<1>1. d \in Devices /\ pc[p] = "route" /\ seq \in DOMAIN sessions[d]
      /\ UNCHANGED <<serviceVars, net, open, seqCounter>>
  BY HiChainAssumption DEF Route
<1>2. local[p].msg \in Packets /\ seq \in Nat
  BY <1>1 DEF ServiceInv, InHand, Packets
<1>3. sessions[d][seq] \in SessionRecords /\ DeviceOf[sessions[d][seq].conn] = d
  BY <1>1, CallerFacts DEF IsMap, Numbered
<1>4. sessions[d][seq].conn \in Handlers
  BY <1>3, AuthSessionAssumption, SMTT(30) DEF SessionRecords
<1>5. SessionCallback(d, seq) \in CallbacksOf(d)
  BY <1>2, <1>3, <1>4, SMTT(30) DEF SessionCallback, CallbacksOf, Callbacks
<1>6. RouteBegins(p) \/ RouteGoesOn(p)
  BY DEF Route, RouteBegins, RouteGoesOn
<1> QED
  BY <1>1, <1>2, <1>3, <1>4, <1>5, <1>6

\* A session changes its state and nothing else.
LEMMA SetStateInv ==
  ASSUME ServiceInv, NEW e \in Devices, NEW s \in DOMAIN sessions[e],
         NEW state \in {"sync", "auth", "done", "failed"},
         sessions' = [sessions EXCEPT ![e][s].state = state], UNCHANGED seqCounter
  PROVE  /\ DOMAIN sessions' = Devices
         /\ \A d \in Devices : IsMap(sessions'[d], Nat, SessionRecords) /\ Numbered(d)'
         /\ \A d \in Devices : DOMAIN sessions'[d] = DOMAIN sessions[d]
         /\ \A d \in Devices : \A t \in DOMAIN sessions[d] :
              d # e \/ t # s => sessions'[d][t] = sessions[d][t]
         /\ sessions'[e][s] = [sessions[e][s] EXCEPT !.state = state]
<1>1. DOMAIN sessions = Devices /\ \A d \in Devices : IsMap(sessions[d], Nat, SessionRecords) /\ Numbered(d)
  BY CallerFacts
<1>2. /\ DOMAIN sessions' = Devices
      /\ \A d \in Devices : DOMAIN sessions'[d] = DOMAIN sessions[d]
      /\ \A d \in Devices : \A t \in DOMAIN sessions[d] :
           d # e \/ t # s => sessions'[d][t] = sessions[d][t]
      /\ sessions'[e][s] = [sessions[e][s] EXCEPT !.state = state]
      /\ \A d \in Devices \ {e} : sessions'[d] = sessions[d]
  BY <1>1
<1>3. sessions[e][s] \in SessionRecords
  BY <1>1 DEF IsMap
<1>4. sessions'[e][s] \in SessionRecords /\ sessions'[e][s].conn = sessions[e][s].conn
  BY <1>2, <1>3 DEF SessionRecords
<1>5. sessions'[e] = [t \in DOMAIN sessions[e] |-> sessions'[e][t]]
  BY <1>1 DEF IsMap
<1>6. IsMap(sessions'[e], Nat, SessionRecords)
  BY <1>1, <1>2, <1>4, <1>5 DEF IsMap
<1>7. ASSUME NEW d \in Devices PROVE Numbered(d)'
  BY <1>1, <1>2, <1>4 DEF Numbered
<1> QED
  BY <1>1, <1>2, <1>6, <1>7

LEMMA RouteInv ==
  ASSUME ServiceInv, NEW p \in Handlers, Route(p) PROVE ServiceInv'
<1> DEFINE e == DeviceOf[p]
           seq == local[p].msg.seq
           cb == SessionCallback(e, seq)
<1>1. /\ e \in Devices /\ pc[p] = "route" /\ local[p].msg \in Packets
      /\ seq \in Nat /\ seq \in DOMAIN sessions[e] /\ sessions[e][seq].conn \in Handlers
      /\ cb \in CallbacksOf(e) /\ cb \in Callbacks
      /\ UNCHANGED <<serviceVars, net, open, seqCounter>>
      /\ local[p] \in LocalRecords
  BY RouteFacts, CallerFacts DEF CallbacksOf
<1>2. CASE RouteBegins(p)
  <2> DEFINE l == [local[p] EXCEPT !.key = seq, !.cb = cb, !.then = "lookup"]
  <2>1. l \in LocalRecords /\ l.key = seq /\ l.cb = cb /\ l.msg = local[p].msg
    BY <1>1 DEF LocalRecords
  <2>2. local' = [local EXCEPT ![p] = l] /\ pc' = [pc EXCEPT ![p] = "auth"]
    BY <1>2 DEF RouteBegins, Goto
  <2>3. InHand(p)'
    <3>1. local'[p] = l /\ pc'[p] = "auth"
      BY <2>2, CallerFacts, SMTT(30)
    <3> QED
      BY <1>1, <2>1, <3>1 DEF InHand
  <2>4. /\ pc' \in [Handlers -> Labels] /\ local' \in [Handlers -> LocalRecords]
        /\ \A q \in Handlers : InHand(q)'
    BY <1>1, <2>1, <2>2, <2>3, OneHandlerMoves DEF Labels, serviceVars
  <2>5. DOMAIN sessions' = Devices
        /\ \A d \in Devices : IsMap(sessions'[d], Nat, SessionRecords) /\ Numbered(d)'
    BY <1>1, <1>2, SetStateInv, ZenonT(40) DEF RouteBegins
  <2>6. DOMAIN contexts' = Devices
        /\ \A d \in Devices :
             /\ IsMap(contexts'[d], Nat, [req : Nat, conn : Handlers])
             /\ \A k \in DOMAIN contexts'[d] : contexts'[d][k].req = k
    BY <1>1, <1>2, SetContextInv DEF RouteBegins
  <2> QED
    BY <1>1, <2>4, <2>5, <2>6, CallerFacts, CallerStepInv
<1>3. CASE RouteGoesOn(p)
  <2> DEFINE l == [local[p] EXCEPT !.key = seq, !.cb = cb]
  <2>1. l \in LocalRecords /\ l.key = seq /\ l.cb = cb /\ l.msg = local[p].msg
    BY <1>1 DEF LocalRecords
  <2>2. local' = [local EXCEPT ![p] = l] /\ pc' = [pc EXCEPT ![p] = "lookup"]
    BY <1>3 DEF RouteGoesOn, Goto
  <2>3. InHand(p)'
    <3>1. local'[p] = l /\ pc'[p] = "lookup"
      BY <2>2, CallerFacts
    <3> QED
      BY <1>1, <2>1, <3>1 DEF InHand
  <2>4. /\ pc' \in [Handlers -> Labels] /\ local' \in [Handlers -> LocalRecords]
        /\ \A q \in Handlers : InHand(q)'
    BY <1>1, <2>1, <2>2, <2>3, OneHandlerMoves DEF Labels, serviceVars
  <2>5. UNCHANGED callerVars /\ \A d \in Devices : Numbered(d)'
    BY <1>1, <1>3, CallerFacts DEF RouteGoesOn, Numbered, callerVars
  <2> QED
    BY <1>1, <2>4, <2>5, CallerFacts, CallerStepInv DEF callerVars
<1> QED
  BY <1>2, <1>3, RouteFacts

-----------------------------------------------------------------------------
(* A session starts once                                                   *)

LEMMA StartsBegun ==
  ASSUME StartInv, NEW d \in Devices, NEW s, ~Begun(d, s)
  PROVE  /\ Starts(d, s) = {}
         /\ \A q \in Handlers : pc[q] = "auth" /\ DeviceOf[q] = d => local[q].key # s
<1>1. Starts(d, s) = {}
  BY DEF StartInv, Starts
<1> QED
  BY <1>1 DEF StartInv, Starting

\* One handler more, newcomer, may be about to send AUTH_START.
LEMMA StartInvKept ==
  ASSUME StartInv, ServiceInv', UNCHANGED handles, NEW newcomer,
         \A d \in Devices : \A s : Begun(d, s) => Begun(d, s)',
         \A q \in Handlers \ {newcomer} :
           pc'[q] = "auth" => pc[q] = "auth" /\ local'[q].key = local[q].key,
         newcomer \in Handlers /\ pc'[newcomer] = "auth" =>
           /\ pc[newcomer] # "auth"
           /\ ~Begun(DeviceOf[newcomer], local'[newcomer].key)
           /\ \E s : s = local'[newcomer].key /\ Begun(DeviceOf[newcomer], s)'
  PROVE  StartInv'
<1>1. \A d \in Devices : \A s : Starts(d, s)' = Starts(d, s)
  BY DEF Starts
<1>2. \A q \in Handlers : DeviceOf[q] \in Devices
  BY HiChainAssumption
<1>3. ASSUME NEW q \in Handlers, pc'[q] = "auth" PROVE Starting(q)'
  <2>1. CASE q # newcomer
    <3>1. Starting(q) /\ pc[q] = "auth" /\ local'[q].key = local[q].key
      BY <1>3, <2>1 DEF StartInv
    <3>2. Begun(DeviceOf[q], local[q].key)' /\ Starts(DeviceOf[q], local[q].key)' = {}
      <4>1. \A s : s = local[q].key => Begun(DeviceOf[q], s)'
        BY <1>2, <3>1 DEF Starting
      <4>2. Starts(DeviceOf[q], local[q].key) = {}
        BY <3>1 DEF Starting
      <4> QED
        BY <3>1, <4>1, <4>2 DEF Begun, Starts
    <3>3. ASSUME NEW r \in Handlers, pc'[r] = "auth", DeviceOf[r] = DeviceOf[q],
                 local'[r].key = local'[q].key
          PROVE  r = q
      <4>1. r # newcomer
        BY <3>1, <3>3 DEF Starting
      <4> QED
        BY <3>1, <3>3, <4>1 DEF Starting
    <3> QED
      BY <3>2, <3>3 DEF Starting
  <2>2. CASE q = newcomer
    <3>1. /\ ~Begun(DeviceOf[q], local'[q].key)
          /\ \E s : s = local'[q].key /\ Begun(DeviceOf[q], s)'
      BY <1>3, <2>2
    <3>2. PICK s : s = local'[q].key /\ Begun(DeviceOf[q], s)' /\ ~Begun(DeviceOf[q], s)
      BY <3>1
    <3>3. Starts(DeviceOf[q], s) = {}
          /\ \A r \in Handlers : pc[r] = "auth" /\ DeviceOf[r] = DeviceOf[q] => local[r].key # s
      BY <1>2, <3>2, StartsBegun
    <3>4. \A r \in Handlers : pc'[r] = "auth" /\ DeviceOf[r] = DeviceOf[q] /\ local'[r].key = s => r = q
      BY <2>2, <3>3
    <3>5. Starts(DeviceOf[q], s)' = {}
      BY <1>1, <1>2, <3>3
    <3> QED
      BY <3>2, <3>4, <3>5 DEF Starting, Begun, Starts
  <2> QED
    BY <2>1, <2>2
<1>4. ASSUME NEW d \in Devices, NEW h \in DOMAIN handles'[d], handles'[d][h].role = "controller"
      PROVE  Begun(d, handles[d][h].key)'
  BY <1>4 DEF StartInv, Begun
<1>5. OneStart'
  <2> SUFFICES ASSUME NEW d \in Devices, NEW s \in DOMAIN sessions'[d],
                      NEW g \in Starts(d, s), NEW h \in Starts(d, s)
               PROVE  g = h
    BY <1>1 DEF OneStart
  <2>1. s \in DOMAIN sessions[d]
    BY StartsBegun DEF Begun
  <2> QED
    BY <2>1 DEF StartInv, OneStart
<1> QED
  BY <1>3, <1>4, <1>5 DEF StartInv

LEMMA NewSessionBegun ==
  ASSUME ServiceInv, NEW p \in Dialers \cup Acceptors,
         seqCounter' = [seqCounter EXCEPT ![DeviceOf[p]] = @ + 1],
         NEW server \in BOOLEAN, NEW state \in {"sync", "auth"},
         NewSession(p, seqCounter[DeviceOf[p]] + 1, server, state)
  PROVE  \A d \in Devices : \A s : Begun(d, s) => Begun(d, s)'
<1> TAKE d \in Devices
<1>2. \A s \in DOMAIN sessions[d] : s \in DOMAIN sessions'[d] /\ sessions'[d][s] = sessions[d][s]
  BY NewSessionInv
<1> QED
  BY <1>2 DEF Begun

LEMMA SessionStartInv ==
  ASSUME StartInv, [SessionNext]_sessionVars PROVE StartInv'
<1> USE DEF StartInv
<1>0. pc \in [Handlers -> Labels] /\ local \in [Handlers -> LocalRecords]
      /\ Dialers \subseteq Handlers /\ Acceptors \subseteq Handlers /\ None \notin Handlers
  BY CallerFacts, AuthSessionAssumption, HiChainAssumption DEF Ends
<1>1. ASSUME NEW d \in Devices, DialFails(d) PROVE StartInv'
  <2>1. UNCHANGED <<handles, sessions, pc, local>>
    BY <1>1 DEF DialFails, hichainVars, serviceVars, callerVars, procVars
  <2>2. ServiceInv'
    BY <1>1, DialFailsInv
  <2> HIDE DEF StartInv
  <2> QED
    BY <2>1, <2>2, <1>0, StartInvKept DEF Begun
<1>2. ASSUME NEW p \in Dialers, Connected(p) PROVE StartInv'
  <2> DEFINE n == seqCounter[DeviceOf[p]] + 1
  <2>1. ServiceInv' /\ UNCHANGED handles
    BY <1>2, ConnectedInv DEF Connected, serviceVars
  <2>2. /\ \A d \in Devices : \A s : Begun(d, s) => Begun(d, s)'
        /\ n \notin DOMAIN sessions[DeviceOf[p]]
        /\ n \in DOMAIN sessions'[DeviceOf[p]]
        /\ sessions'[DeviceOf[p]][n] = [conn |-> p, server |-> FALSE, state |-> "auth"]
    BY <1>2, NewSessionInv, NewSessionBegun DEF Connected
  <2>3. ~Begun(DeviceOf[p], n)
    BY <2>2 DEF Begun
  <2>4. /\ \A q \in Handlers \ {p} : pc'[q] = pc[q] /\ local'[q] = local[q]
        /\ pc[p] = "idle" /\ local'[p].key = n
    BY <1>0, <1>2 DEF Connected, Goto, NoLocal
  <2> HIDE DEF StartInv
  <2>5. \E s : s = local'[p].key /\ Begun(DeviceOf[p], s)'
    BY <2>2, <2>4 DEF Begun
  <2> QED
    BY <1>0, <2>1, <2>2, <2>3, <2>4, <2>5, StartInvKept
<1>3. ASSUME NEW p \in Acceptors, Accepted(p) PROVE StartInv'
  <2>1. UNCHANGED <<handles, sessions, local>> /\ ServiceInv'
    BY <1>0, <1>3, AcceptedInv DEF Accepted, serviceVars, callerVars
  <2>2. \A q \in Handlers : pc'[q] = "auth" => pc[q] = "auth"
    BY <1>0, <1>3 DEF Accepted, Goto
  <2> HIDE DEF StartInv
  <2> QED
    BY <2>1, <2>2, <1>0, StartInvKept DEF Begun
<1>4. ASSUME NEW p \in Dialers \cup Acceptors, ReadSdk(p) PROVE StartInv'
  <2>1. UNCHANGED handles /\ ServiceInv'
    BY <1>4, ReadSdkInv DEF ReadSdk, serviceVars
  <2>2. \A q \in Handlers : pc'[q] = "auth" => pc[q] = "auth" /\ local'[q].key = local[q].key
    BY <1>0, <1>4 DEF ReadSdk, Goto
  <2>3. \A d \in Devices : \A s : Begun(d, s) => Begun(d, s)'
    <3>1. CASE HasSession(p)
      BY <1>4, <3>1 DEF ReadSdk, Begun
    <3>2. CASE ~HasSession(p)
      BY <1>4, <3>2, NewSessionBegun DEF ReadSdk
    <3> QED
      BY <3>1, <3>2
  <2> HIDE DEF StartInv
  <2> QED
    BY <2>1, <2>2, <2>3, <1>0, StartInvKept
<1>5. ASSUME NEW p \in Dialers \cup Acceptors, Route(p) PROVE StartInv'
  <2> DEFINE e == DeviceOf[p]
             seq == local[p].msg.seq
  <2>1. ServiceInv' /\ UNCHANGED handles /\ p \in Handlers
    BY <1>0, <1>5, RouteInv DEF Route, serviceVars
  <2>2. /\ e \in Devices /\ pc[p] = "route" /\ seq \in DOMAIN sessions[e]
        /\ RouteBegins(p) \/ RouteGoesOn(p)
        /\ UNCHANGED seqCounter /\ sessions[e][seq] \in SessionRecords
    BY <1>5, <2>1, RouteFacts
  <2>3. CASE RouteGoesOn(p)
    <3>1. UNCHANGED sessions
      BY <2>3 DEF RouteGoesOn, callerVars
    <3>2. \A q \in Handlers : pc'[q] = "auth" => pc[q] = "auth" /\ local'[q].key = local[q].key
      BY <1>0, <2>1, <2>3 DEF RouteGoesOn, Goto
    <3> HIDE DEF StartInv
    <3> QED
      BY <2>1, <3>1, <3>2, <1>0, StartInvKept DEF Begun
  <2>4. CASE RouteBegins(p)
    <3>1. /\ \A d \in Devices : DOMAIN sessions'[d] = DOMAIN sessions[d]
          /\ \A d \in Devices : \A t \in DOMAIN sessions[d] :
               d # e \/ t # seq => sessions'[d][t] = sessions[d][t]
          /\ sessions'[e][seq] = [sessions[e][seq] EXCEPT !.state = "auth"]
      BY <2>2, <2>4, SetStateInv DEF RouteBegins
    <3>2. sessions'[e][seq].state = "auth"
      BY <2>2, <3>1 DEF SessionRecords
    <3>3. \A d \in Devices : \A s : Begun(d, s) => Begun(d, s)'
      BY <3>1, <3>2, ZenonT(40) DEF Begun
    <3>4. ~Begun(e, seq) /\ \A s : s = seq => Begun(e, s)'
      BY <2>2, <2>4, <3>1, <3>2, ZenonT(40) DEF Begun, RouteBegins
    <3>5. local'[p].key = seq /\ \A q \in Handlers \ {p} : pc'[q] = pc[q] /\ local'[q] = local[q]
      BY <1>0, <2>1, <2>4 DEF RouteBegins, Goto, LocalRecords
    <3> HIDE DEF StartInv
    <3>6. \E s : s = local'[p].key /\ Begun(e, s)'
      BY <3>4, <3>5
    <3> QED
      BY <2>1, <2>2, <3>3, <3>4, <3>5, <3>6, StartInvKept, SMTT(30)
  <2> QED
    BY <2>2, <2>3, <2>4
<1>6. ASSUME NEW p \in Dialers \cup Acceptors, RouteNowhere(p) PROVE StartInv'
  <2>1. UNCHANGED <<handles, sessions>> /\ ServiceInv'
    BY <1>0, <1>6, RouteNowhereInv DEF RouteNowhere, serviceVars, callerVars
  <2>2. \A q \in Handlers : pc'[q] = "auth" => pc[q] = "auth" /\ local'[q] = local[q]
    BY <1>0, <1>6 DEF RouteNowhere, Return, Goto
  <2> HIDE DEF StartInv
  <2> QED
    BY <2>1, <2>2, <1>0, StartInvKept DEF Begun
<1>7. ASSUME NEW p \in Dialers \cup Acceptors, ServiceStep(p), UNCHANGED seqCounter PROVE StartInv'
  BY <1>0, <1>7, ServiceStartInv
<1>8. ASSUME NEW p \in Dialers, Break(p) PROVE StartInv'
  <2>1. UNCHANGED <<handles, sessions, pc, local>> /\ ServiceInv'
    BY <1>8, BreakInv DEF Break, serviceVars, callerVars, procVars
  <2> HIDE DEF StartInv
  <2> QED
    BY <2>1, <1>0, StartInvKept DEF Begun
<1>9. CASE UNCHANGED sessionVars
  <2>1. UNCHANGED <<serviceVars, callerVars, net, open, procVars, seqCounter>>
    BY <1>9 DEF sessionVars, hichainVars
  <2>2. \A d \in Devices : Numbered(d)'
    BY <2>1, CallerFacts DEF Numbered, callerVars
  <2>3. ServiceInv'
    BY <2>1, <2>2, CallerFacts, InHandKept, CallerStepInv DEF callerVars, serviceVars, procVars
  <2> HIDE DEF StartInv
  <2> QED
    BY <2>1, <2>3, <1>0, StartInvKept DEF Begun, callerVars, serviceVars, procVars
<1> QED
  BY <1>1, <1>2, <1>3, <1>4, <1>5, <1>6, <1>7, <1>8, <1>9 DEF SessionNext, SessionStep

LEMMA InitStartInv == SessionInit => StartInv
<1> SUFFICES ASSUME SessionInit PROVE StartInv
  OBVIOUS
<1> USE DEF SessionInit, HiChainInit
<1>1. TypeOK
  <2>1. IsMap(EmptyMap, Nat, Nat) /\ \A V : IsMap(EmptyMap, Nat, V)
    BY DEF IsMap, EmptyMap
  <2>2. NoLocal \in LocalRecords
    BY DEF NoLocal, LocalRecords
  <2>3. \A S : <<>> \in Seq(S)
    BY EmptySeq
  <2> QED
    BY <2>1, <2>2, <2>3, AuthSessionAssumption DEF TypeOK, Labels
<1>2. ServiceInv /\ \A p \in Handlers : pc[p] = "idle"
  BY <1>1 DEF ServiceInv, InHand, Filed, Numbered, EmptyMap
<1> QED
  BY <1>2 DEF StartInv, OneStart, EmptyMap

\* The inductive invariant holds in every reachable state.
THEOREM SessionInvariance == SessionSpec => []StartInv
BY InitStartInv, SessionStartInv, PTL DEF SessionSpec

\* The tables of the service and of the sessions, what a handler holds and
\* every packet on the wire have the types of the code.
THEOREM SessionTypeCorrect == SessionSpec => []TypeOK
<1>1. StartInv => TypeOK
  BY DEF StartInv, ServiceInv
<1> QED
  BY <1>1, SessionInvariance, PTL

\* AuthSessionProcessAuthData leaves the state it has checked before it lets
\* go of session.mu, so a session sends AUTH_START at most once, however many
\* connections deliver its first packet.
THEOREM AlwaysOneStart == SessionSpec => []OneStart
<1>1. StartInv => OneStart
  BY DEF StartInv
<1> QED
  BY <1>1, SessionInvariance, PTL

-----------------------------------------------------------------------------
(* Ends, users and what is on the wire                                     *)

LEMMA MsgFacts ==
  ASSUME NEW p \in MsgHandlers
  PROVE  /\ p \in Handlers /\ p \in Ends /\ DeviceOf[p] \in Devices
         /\ Peer[p] \in Ends /\ Peer[Peer[p]] = p /\ FdOf[p] \in Nat
         /\ p \notin Dialers /\ p \notin Acceptors
BY HiChainAssumption, DmAuthAssumption DEF Ends

LEMMA UserFacts ==
  ASSUME NEW u \in Users
  PROVE  /\ u \in Ends /\ u \notin Handlers
         /\ Peer[u] \in MsgHandlers /\ Peer[Peer[u]] = u
BY HiChainAssumption, DmAuthAssumption DEF Ends

LEMMA PairerFacts ==
  ASSUME NEW u \in Pairers
  PROVE  /\ u \in Users /\ PakeEnd[u] \in Ends /\ PakeEnd[u] \notin Handlers
         /\ PakeEnd[u] \notin Users
         /\ Peer[PakeEnd[u]] \in MsgHandlers /\ Peer[Peer[PakeEnd[u]]] = PakeEnd[u]
         /\ DeviceOf[Peer[PakeEnd[u]]] = DeviceOf[Peer[u]]
BY HiChainAssumption, DmAuthAssumption DEF Ends, PakeEnds

LEMMA UserOfUser ==
  ASSUME NEW u \in Users
  PROVE  UserOf(u) = u
<1>1. u \in EndsOf(u)
  BY DEF EndsOf
<1>2. ASSUME NEW v \in Users, u \in EndsOf(v) PROVE v = u
  BY <1>2, PairerFacts DEF EndsOf
<1> QED
  BY <1>1, <1>2 DEF UserOf

LEMMA SameFd ==
  ASSUME NEW p \in Handlers, NEW q \in Handlers, DeviceOf[p] = DeviceOf[q], FdOf[p] = FdOf[q]
  PROVE  p = q
BY HiChainAssumption

\* A step puts at most one packet on the wire.
Quiet == \A e \in Ends : \A x \in Wire(e)' : x \in Wire(e)
Posts(f, m) == \A e \in Ends : \A x \in Wire(e)' : x \in Wire(e) \/ (e = f /\ x = m)

LEMMA TailItems ==
  ASSUME NEW s \in Seq(Packets), s # <<>>, NEW i \in DOMAIN Tail(s)
  PROVE  \E j \in DOMAIN s : s[j] = Tail(s)[i]
<1>1. /\ Len(s) \in Nat /\ Len(s) # 0 /\ DOMAIN s = 1 .. Len(s)
      /\ Tail(s) \in Seq(Packets) /\ Len(Tail(s)) = Len(s) - 1
      /\ \A k \in 1 .. Len(Tail(s)) : Tail(s)[k] = s[k+1]
  BY HeadTailProperties, LenProperties, EmptySeq
<1>2. i \in 1 .. Len(s) - 1
  BY <1>1, LenProperties
<1> QED
  BY <1>1, <1>2

LEMMA HeadItem ==
  ASSUME NEW s \in Seq(Packets), s # <<>>
  PROVE  Head(s) \in Packets /\ \E j \in DOMAIN s : s[j] = Head(s)
<1>1. Len(s) \in Nat /\ Len(s) # 0 /\ DOMAIN s = 1 .. Len(s)
  BY LenProperties, EmptySeq
<1> QED
  BY <1>1, HeadTailProperties

LEMMA AppendItems ==
  ASSUME NEW s \in Seq(Packets), NEW m \in Packets, NEW i \in DOMAIN Append(s, m)
  PROVE  Append(s, m)[i] = m \/ \E j \in DOMAIN s : s[j] = Append(s, m)[i]
<1>1. /\ Len(s) \in Nat /\ DOMAIN s = 1 .. Len(s) /\ DOMAIN Append(s, m) = 1 .. Len(s) + 1
      /\ Append(s, m)[Len(s) + 1] = m
      /\ \A k \in 1 .. Len(s) : Append(s, m)[k] = s[k]
  BY AppendProperties, LenProperties
<1> QED
  BY <1>1

LEMMA HeadOnWire ==
  ASSUME net \in [Ends -> Seq(Packets)], NEW e \in Ends, net[e] # <<>>
  PROVE  Head(net[e]) \in Packets /\ Head(net[e]) \in Wire(e)
BY HeadItem DEF Wire

LEMMA QuietKept ==
  ASSUME UNCHANGED net
  PROVE  Quiet
BY DEF Quiet, Wire

LEMMA TakeQuiet ==
  ASSUME net \in [Ends -> Seq(Packets)], NEW e \in Ends, net[e] # <<>>,
         net' = [net EXCEPT ![e] = Tail(@)]
  PROVE  Quiet /\ net' \in [Ends -> Seq(Packets)]
<1>1. net[e] \in Seq(Packets) /\ net' \in [Ends -> Seq(Packets)]
  BY TakeKeepsNet
<1>2. ASSUME NEW f \in Ends, NEW i \in DOMAIN net'[f] PROVE \E j \in DOMAIN net[f] : net[f][j] = net'[f][i]
  <2>1. CASE f = e
    <3>1. net'[f] = Tail(net[e])
      BY <2>1
    <3> QED
      BY <1>1, <1>2, <2>1, <3>1, TailItems
  <2>2. CASE f # e
    BY <1>2, <2>2
  <2> QED
    BY <2>1, <2>2
<1> QED
  BY <1>1, <1>2 DEF Quiet, Wire

LEMMA LoseQuiet ==
  ASSUME net \in [Ends -> Seq(Packets)], NEW e \in Ends, net' = [net EXCEPT ![e] = <<>>]
  PROVE  Quiet /\ net' \in [Ends -> Seq(Packets)]
<1>1. net' \in [Ends -> Seq(Packets)] /\ DOMAIN net'[e] = {}
  BY EmptySeq
<1>2. \A f \in Ends : f # e => net'[f] = net[f]
  OBVIOUS
<1> QED
  BY <1>1, <1>2 DEF Quiet, Wire

LEMMA PostPosts ==
  ASSUME net \in [Ends -> Seq(Packets)], NEW f \in Ends, NEW m \in Packets,
         net' = [net EXCEPT ![f] = Append(@, m)]
  PROVE  Posts(f, m) /\ net' \in [Ends -> Seq(Packets)]
<1>1. net[f] \in Seq(Packets) /\ net' \in [Ends -> Seq(Packets)]
  BY PostKeepsNet
<1>2. ASSUME NEW e \in Ends, NEW i \in DOMAIN net'[e]
      PROVE  (\E j \in DOMAIN net[e] : net[e][j] = net'[e][i]) \/ (e = f /\ net'[e][i] = m)
  <2>1. CASE e = f
    <3>1. net'[e] = Append(net[f], m)
      BY <2>1
    <3> QED
      BY <1>1, <1>2, <2>1, <3>1, AppendItems
  <2>2. CASE e # f
    BY <1>2, <2>2
  <2> QED
    BY <2>1, <2>2
<1> QED
  BY <1>1, <1>2 DEF Posts, Wire

LEMMA PostsByItem ==
  ASSUME NEW f, NEW m,
         \A g \in Ends : \A i \in DOMAIN net'[g] :
           (\E j \in DOMAIN net[g] : net[g][j] = net'[g][i]) \/ (g = f /\ net'[g][i] = m)
  PROVE  Posts(f, m)
BY DEF Posts, Wire

LEMMA ReplyPosts ==
  ASSUME net \in [Ends -> Seq(Packets)], NEW e \in Ends, net[e] # <<>>, NEW f \in Ends, f # e,
         NEW m \in Packets, net' = [net EXCEPT ![e] = Tail(@), ![f] = Append(@, m)]
  PROVE  Posts(f, m) /\ net' \in [Ends -> Seq(Packets)]
<1>1. /\ net[e] \in Seq(Packets) /\ Tail(net[e]) \in Seq(Packets)
      /\ net[f] \in Seq(Packets) /\ Append(net[f], m) \in Seq(Packets)
  BY HeadTailProperties, AppendProperties
<1>2. /\ net' \in [Ends -> Seq(Packets)]
      /\ net'[e] = Tail(net[e]) /\ net'[f] = Append(net[f], m)
      /\ \A g \in Ends \ {e, f} : net'[g] = net[g]
  BY <1>1
<1>3. ASSUME NEW g \in Ends, NEW i \in DOMAIN net'[g]
      PROVE  (\E j \in DOMAIN net[g] : net[g][j] = net'[g][i]) \/ (g = f /\ net'[g][i] = m)
  <2>1. CASE g = e
    BY <1>1, <1>2, <1>3, <2>1, TailItems
  <2>2. CASE g = f
    BY <1>1, <1>2, <1>3, <2>2, AppendItems
  <2>3. CASE g \notin {e, f}
    BY <1>2, <1>3, <2>3
  <2> QED
    BY <2>1, <2>2, <2>3
<1>4. Posts(f, m)
  BY <1>3, PostsByItem
<1> QED
  BY <1>2, <1>4

-----------------------------------------------------------------------------
(* Each step keeps the invariant of the service                            *)

LEMMA SessionServiceInv ==
  ASSUME ServiceInv, [SessionNext]_sessionVars PROVE ServiceInv'
<1>0. Dialers \subseteq Handlers /\ Acceptors \subseteq Handlers
  BY AuthSessionAssumption
<1>1. CASE UNCHANGED sessionVars
  <2>1. UNCHANGED <<serviceVars, callerVars, net, open, procVars, seqCounter>>
    BY <1>1 DEF sessionVars, hichainVars
  <2>2. \A d \in Devices : Numbered(d)'
    BY <2>1, CallerFacts DEF Numbered, callerVars
  <2> QED
    BY <2>1, <2>2, CallerFacts, InHandKept, CallerStepInv DEF callerVars, serviceVars, procVars
<1>2. ASSUME NEW p \in Dialers \cup Acceptors, SessionStep(p) PROVE ServiceInv'
  BY <1>0, <1>2, ReadSdkInv, RouteInv, RouteNowhereInv, ServiceStepInv DEF SessionStep
<1> QED
  BY <1>0, <1>1, <1>2, DialFailsInv, ConnectedInv, AcceptedInv, BreakInv DEF SessionNext

\* Steps that only send, receive or close.
LEMMA WireStepInv ==
  ASSUME ServiceInv, UNCHANGED <<serviceVars, callerVars, procVars, seqCounter>>,
         net' \in [Ends -> Seq(Packets)], open' \subseteq Ends
  PROVE  ServiceInv'
<1>1. \A d \in Devices : Numbered(d)'
  BY CallerFacts DEF Numbered, callerVars
<1> QED
  BY <1>1, CallerFacts, InHandKept, CallerStepInv DEF callerVars, serviceVars, procVars

\* Steps at which a handler of the AUTH_MSG listener has nothing in hand.
LEMMA ListenerMoveInv ==
  ASSUME ServiceInv, NEW p \in Handlers,
         NEW label \in {"reading", "createGroup", "addMember", "answer", "closed"}, Goto(p, label),
         UNCHANGED <<serviceVars, sessions, local, seqCounter, open>>,
         net' \in [Ends -> Seq(Packets)],
         DOMAIN contexts' = Devices,
         \A d \in Devices :
           /\ IsMap(contexts'[d], Nat, [req : Nat, conn : Handlers])
           /\ \A k \in DOMAIN contexts'[d] : contexts'[d][k].req = k
  PROVE  ServiceInv'
<1>1. pc' = [pc EXCEPT ![p] = label] /\ local' = [local EXCEPT ![p] = local[p]]
      /\ local[p] \in LocalRecords
  BY CallerFacts DEF Goto
<1>2. InHand(p)'
  BY <1>1, CallerFacts DEF InHand
<1>3. /\ pc' \in [Handlers -> Labels] /\ local' \in [Handlers -> LocalRecords]
      /\ \A q \in Handlers : InHand(q)'
  BY <1>1, <1>2, OneHandlerMoves DEF Labels, serviceVars
<1>4. \A d \in Devices : Numbered(d)'
  BY CallerFacts DEF Numbered
<1> QED
  BY <1>3, <1>4, CallerFacts, CallerStepInv

LEMMA MessageIsPacket ==
  ASSUME NEW type \in Types, NEW req \in Nat \cup {None}, NEW nonce \in Nonces, NEW proof \in Proofs
  PROVE  /\ Message(type, req, nonce, proof) \in Packets
         /\ Message(type, req, nonce, proof).type = type
         /\ Message(type, req, nonce, proof).req = req
         /\ Message(type, req, nonce, proof).nonce = nonce
         /\ Message(type, req, nonce, proof).proof = proof
BY PacketIsPacket DEF Message, Packet

LEMMA NothingTyped == None \in Nonces /\ None \in Proofs
BY DEF Nonces, Proofs

LEMMA BareMessage ==
  ASSUME NEW type \in Types
  PROVE  /\ Message(type, None, None, None) \in Packets
         /\ Message(type, None, None, None).type = type
         /\ Message(type, None, None, None).proof = None
<1>1. None \in Nat \cup {None} /\ None \in Nonces /\ None \in Proofs
  BY NothingTyped
<1>2. Message(type, None, None, None)
        = [seq |-> 0, type |-> type, req |-> None, nonce |-> None, proof |-> None]
  BY DEF Message, Packet
<1> QED
  BY <1>1, <1>2 DEF Packets

LEMMA NegotiateFacts ==
  ASSUME ServiceInv, NEW p \in MsgHandlers, HandleNegotiate(p)
  PROVE  /\ UNCHANGED <<serviceVars, callerVars, open, procVars, seqCounter, groups, client>>
         /\ net' \in [Ends -> Seq(Packets)]
         /\ \/ Quiet
            \/ \E m \in Packets : /\ m.type \in {"RespAuthed", "RespNegotiate"} /\ m.proof = None
                                  /\ Posts(Peer[p], m)
<1> DEFINE kind == IF IsMember(DeviceOf[p], UserOf(Peer[p])) THEN "RespAuthed"
                    ELSE "RespNegotiate"
           m == Message(kind, None, None, None)
<1>1. UNCHANGED <<serviceVars, callerVars, open, procVars, seqCounter, groups, client>>
      /\ Answer(p, m) /\ net[p] # <<>>
  BY DEF HandleNegotiate, Arrived
<1>2. m \in Packets /\ m.type \in {"RespAuthed", "RespNegotiate"} /\ m.proof = None
  <2>1. kind \in {"RespAuthed", "RespNegotiate"} /\ kind \in Types
    BY DEF Types
  <2> HIDE DEF kind
  <2> QED
    BY <2>1, BareMessage
<1>3. p \in Ends /\ Peer[p] \in Ends /\ Peer[p] # p
  BY MsgFacts, HiChainAssumption
<1> HIDE DEF m
<1>4. CASE p \in open
  <2>1. net' = [net EXCEPT ![p] = Tail(@), ![Peer[p]] = Append(@, m)]
    BY <1>1, <1>4 DEF Answer
  <2> QED
    BY <1>1, <1>2, <1>3, <2>1, CallerFacts, ReplyPosts
<1>5. CASE p \notin open
  <2>1. net' = [net EXCEPT ![p] = Tail(@)]
    BY <1>1, <1>5 DEF Answer
  <2> QED
    BY <1>1, <1>3, <2>1, CallerFacts, TakeQuiet
<1> QED
  BY <1>4, <1>5

LEMMA AnswerFacts ==
  ASSUME ServiceInv, NEW p \in MsgHandlers, AnswerReqAuth(p)
  PROVE  /\ net' \in [Ends -> Seq(Packets)]
         /\ \/ Quiet
            \/ \E m \in Packets : /\ m.type = "RespAuth" /\ m.req = FdOf[p] /\ m.proof = None
                                  /\ Posts(Peer[p], m)
<1> DEFINE m == Message("RespAuth", FdOf[p], None, None)
<1>1. m \in Packets /\ m.type = "RespAuth" /\ m.req = FdOf[p] /\ m.proof = None
  BY MsgFacts, MessageIsPacket, NothingTyped DEF Types
<1> HIDE DEF m
<1>2. CASE p \in open
  <2>1. net' = [net EXCEPT ![Peer[p]] = Append(@, m)]
    BY <1>2 DEF AnswerReqAuth, m
  <2> QED
    BY <1>1, <2>1, MsgFacts, CallerFacts, PostPosts
<1>3. CASE p \notin open
  BY <1>3, CallerFacts, QuietKept DEF AnswerReqAuth
<1> QED
  BY <1>2, <1>3

LEMMA HiChainFacts ==
  ASSUME ServiceInv, NEW p \in MsgHandlers, HandleHiChain(p)
  PROVE  /\ UNCHANGED <<serviceVars, callerVars, open, seqCounter, groups, client>>
         /\ Quiet /\ net' \in [Ends -> Seq(Packets)]
         /\ pc[p] = "reading" /\ pc' = [pc EXCEPT ![p] = "lookup"]
         /\ Head(net[p]) \in Wire(p) /\ Head(net[p]) \in Packets
         /\ \E l \in LocalRecords :
              /\ local' = [local EXCEPT ![p] = l]
              /\ l.key = FdOf[p] /\ l.then = None /\ l.msg = Head(net[p])
              /\ l.cb \in CallbacksOf(DeviceOf[p]) /\ l.cb.conn = p
<1> DEFINE l == [NoLocal EXCEPT !.key = FdOf[p],
                                !.cb = [conn |-> p, seq |-> Head(net[p]).seq, session |-> None],
                                !.msg = Head(net[p])]
<1>1. /\ UNCHANGED <<serviceVars, callerVars, open, seqCounter, groups, client>>
      /\ net[p] # <<>> /\ net' = [net EXCEPT ![p] = Tail(@)] /\ local' = [local EXCEPT ![p] = l]
      /\ pc[p] = "reading" /\ pc' = [pc EXCEPT ![p] = "lookup"]
  BY DEF HandleHiChain, Arrived, Goto
<1>2. Quiet /\ net' \in [Ends -> Seq(Packets)] /\ Head(net[p]) \in Packets /\ Head(net[p]) \in Wire(p)
  BY <1>1, MsgFacts, CallerFacts, TakeQuiet, HeadOnWire
<1>3. Head(net[p]).seq \in Nat
  BY <1>2 DEF Packets
<1>4. /\ l \in LocalRecords /\ l.key = FdOf[p] /\ l.then = None /\ l.msg = Head(net[p])
      /\ l.cb \in CallbacksOf(DeviceOf[p]) /\ l.cb.conn = p
  BY <1>2, <1>3, MsgFacts DEF NoLocal, LocalRecords, CallbacksOf, Callbacks
<1> HIDE DEF l
<1> QED
  BY <1>1, <1>2, <1>4

LEMMA ListenerServiceInv ==
  ASSUME ServiceInv, NEW p \in MsgHandlers, ListenerStep(p) PROVE ServiceInv'
<1>0. p \in Handlers /\ p \in Ends /\ DeviceOf[p] \in Devices /\ FdOf[p] \in Nat /\ Peer[p] \in Ends
  BY MsgFacts
<1>1. CASE HandleNegotiate(p)
  BY <1>1, CallerFacts, NegotiateFacts, WireStepInv
<1>2. CASE HandleReqAuth(p)
  <2>1. net' \in [Ends -> Seq(Packets)]
    BY <1>0, <1>2, CallerFacts, TakeQuiet DEF HandleReqAuth, Arrived
  <2>2. DOMAIN contexts' = Devices
        /\ \A d \in Devices :
             /\ IsMap(contexts'[d], Nat, [req : Nat, conn : Handlers])
             /\ \A k \in DOMAIN contexts'[d] : contexts'[d][k].req = k
    BY <1>0, <1>2, SetContextInv DEF HandleReqAuth
  <2> QED
    BY <1>0, <1>2, <2>1, <2>2, ListenerMoveInv DEF HandleReqAuth
<1>3. CASE CreateGroup(p) \/ AddMember(p) \/ Accepted(p)
  <2>1. net' \in [Ends -> Seq(Packets)] /\ UNCHANGED callerVars
    BY <1>3, CallerFacts DEF CreateGroup, AddMember, Accepted
  <2> QED
    BY <1>0, <1>3, <2>1, CallerFacts, ListenerMoveInv DEF CreateGroup, AddMember, Accepted, callerVars
<1>4. CASE AnswerReqAuth(p)
  <2>1. net' \in [Ends -> Seq(Packets)] /\ UNCHANGED callerVars
    BY <1>4, AnswerFacts DEF AnswerReqAuth
  <2> QED
    BY <1>0, <1>4, <2>1, CallerFacts, ListenerMoveInv DEF AnswerReqAuth, callerVars
<1>5. CASE HandleHiChain(p)
  <2>1. PICK l \in LocalRecords :
          /\ local' = [local EXCEPT ![p] = l]
          /\ l.key = FdOf[p] /\ l.then = None /\ l.msg = Head(net[p])
          /\ l.cb \in CallbacksOf(DeviceOf[p]) /\ l.cb.conn = p
    BY <1>5, HiChainFacts
  <2>2. /\ UNCHANGED <<serviceVars, callerVars, open, seqCounter>> /\ net' \in [Ends -> Seq(Packets)]
        /\ pc' = [pc EXCEPT ![p] = "lookup"] /\ Head(net[p]) \in Packets
    BY <1>5, HiChainFacts
  <2>3. InHand(p)'
    <3>1. local'[p] = l /\ pc'[p] = "lookup"
      BY <1>0, <2>1, <2>2, CallerFacts
    <3> QED
      BY <1>0, <2>1, <2>2, <3>1 DEF InHand
  <2>4. /\ pc' \in [Handlers -> Labels] /\ local' \in [Handlers -> LocalRecords]
        /\ \A q \in Handlers : InHand(q)'
    BY <1>0, <2>1, <2>2, <2>3, OneHandlerMoves DEF Labels, serviceVars
  <2>5. \A d \in Devices : Numbered(d)'
    BY <2>2, CallerFacts DEF Numbered, callerVars
  <2> QED
    BY <2>2, <2>4, <2>5, CallerFacts, CallerStepInv DEF callerVars
<1>6. CASE ServiceStep(p) /\ UNCHANGED <<seqCounter, groups, client>>
  BY <1>0, <1>6, ServiceStepInv
<1> QED
  BY <1>1, <1>2, <1>3, <1>4, <1>5, <1>6 DEF ListenerStep

LEMMA DisconnectedFacts ==
  ASSUME ServiceInv, NEW p \in Handlers, Disconnected(p)
  PROVE  /\ Quiet /\ net' \in [Ends -> Seq(Packets)] /\ ServiceInv'
         /\ \A d \in Devices : \A k \in DOMAIN contexts[d] :
              k \in DOMAIN contexts'[d] \/ (d = DeviceOf[p] /\ k = FdOf[p])
<1>1. p \in Ends /\ DeviceOf[p] \in Devices
  BY HiChainAssumption DEF Ends
<1>2. Quiet /\ net' \in [Ends -> Seq(Packets)]
  BY <1>1, CallerFacts, LoseQuiet DEF Disconnected
<1> DEFINE m == Del(contexts[DeviceOf[p]], FdOf[p])
<1>3. IsMap(m, Nat, [req : Nat, conn : Handlers])
  BY <1>1, CallerFacts, DelIsMap
<1>4. \A k \in DOMAIN m : k \in DOMAIN contexts[DeviceOf[p]] /\ m[k] = contexts[DeviceOf[p]][k]
  BY DEF Del
<1>5. \A k \in DOMAIN contexts[DeviceOf[p]] : k \in DOMAIN m \/ k = FdOf[p]
  BY DEF Del
<1>6. contexts' = [contexts EXCEPT ![DeviceOf[p]] = m]
  BY DEF Disconnected
<1> HIDE DEF m
<1>7. DOMAIN contexts' = Devices /\ contexts'[DeviceOf[p]] = m
      /\ \A d \in Devices \ {DeviceOf[p]} : contexts'[d] = contexts[d]
  BY <1>1, <1>6, CallerFacts
<1>8. \A d \in Devices :
        /\ IsMap(contexts'[d], Nat, [req : Nat, conn : Handlers])
        /\ \A k \in DOMAIN contexts'[d] : contexts'[d][k].req = k
  <2> TAKE d \in Devices
  <2>1. CASE d = DeviceOf[p]
    BY <1>1, <1>3, <1>4, <1>7, <2>1, CallerFacts
  <2>2. CASE d # DeviceOf[p]
    BY <1>7, <2>2, CallerFacts
  <2> QED
    BY <2>1, <2>2
<1>9. ServiceInv'
  BY <1>2, <1>7, <1>8, CallerFacts, ListenerMoveInv DEF Disconnected
<1>10. ASSUME NEW d \in Devices, NEW k \in DOMAIN contexts[d]
       PROVE  k \in DOMAIN contexts'[d] \/ (d = DeviceOf[p] /\ k = FdOf[p])
  <2>1. CASE d = DeviceOf[p]
    BY <1>5, <1>7, <1>10, <2>1
  <2>2. CASE d # DeviceOf[p]
    BY <1>7, <1>10, <2>2
  <2> QED
    BY <2>1, <2>2
<1> QED
  BY <1>2, <1>9, <1>10

-----------------------------------------------------------------------------
(* Steps of a HarmonyOS device                                             *)

ClientStep(u) ==
  \/ Negotiate(u) \/ Ask(u) \/ StartPake(u) \/ ClientReads(u) \/ GiveUp(u)
  \/ (\E result \in {"AuthConfirm", "AuthRefuse"} : Confirm(u, result))
  \/ Again(u)

\* What a device sends: on the connection it asks on, or on its PAKE
\* connection with the request id it has.
ClientSends(u, f, m) ==
  /\ m \in Packets
  /\ \/ f = Peer[u] /\ m.type \in {"Negotiate", "ReqAuth"} /\ m.proof = None
     \/ /\ u \in Pairers /\ f = Peer[PakeEnd[u]]
        /\ m.type \in {"PakeRequest", "ClientConfirm", "ExchangeRequest", "Error",
                       "AuthConfirm", "AuthRefuse"}
        /\ m.req = client[u].req
        /\ m.type = "PakeRequest" => client[u].state = "granted"
        /\ m.proof \in {None, client'[u].key}

\* How the record of a device changes.
KeyChange(u) ==
  \/ client'[u].key \in {client[u].key, None} /\ client'[u].keys = client[u].keys
  \/ /\ u \in Pairers
     /\ \E m \in Wire(PakeEnd[u]) : \E own \in Clients \X Nat :
          /\ m.type = "PakeResponse" /\ m \in Packets
          /\ \/ /\ client'[u].key = <<m.nonce, own>>
                /\ client'[u].keys = client[u].keys \cup {<<m.nonce, own>>}
             \/ client'[u].key = <<own, m.nonce>> /\ client'[u].keys = client[u].keys

ReqChange(u) ==
  \/ /\ client'[u].req = client[u].req
     /\ client'[u].state = "granted" => client[u].state = "granted" \/ client[u].req # None
  \/ \E m \in Wire(u) : m.type = "RespAuth" /\ client'[u].req = m.req

DoneChange(u) ==
  client'[u].state = "done" =>
    /\ client'[u].key = client[u].key
    /\ \/ client[u].state = "done"
       \/ u \in Pairers /\ \E m \in Wire(PakeEnd[u]) : m.type = "ExchangeResponse" /\ m.proof = client[u].key

ClientMoves(u) ==
  /\ client' \in [Users -> ClientRecords]
  /\ \A v \in Users \ {u} : client'[v] = client[v]
  /\ client'[u].state \in {"pake", "confirm", "exchange", "done"} => u \in Pairers
  /\ KeyChange(u) /\ ReqChange(u) /\ DoneChange(u)

LEMMA BecomeFacts ==
  ASSUME client \in [Users -> ClientRecords], NEW u \in Users,
         NEW state \in {"start", "negotiating", "negotiated", "trusted", "asked", "granted",
                        "pake", "confirm", "exchange", "done", "failed"},
         Become(u, state),
         state = "granted" => client[u].req # None,
         state \in {"pake", "confirm", "exchange", "done"} => u \in Pairers,
         state = "done" =>
           u \in Pairers /\ \E m \in Wire(PakeEnd[u]) : m.type = "ExchangeResponse" /\ m.proof = client[u].key
  PROVE  ClientMoves(u) /\ client'[u].key = client[u].key
<1>1. client[u] \in ClientRecords
  OBVIOUS
<1>2. /\ [client[u] EXCEPT !.state = state] \in ClientRecords
      /\ [client[u] EXCEPT !.state = state].state = state
      /\ [client[u] EXCEPT !.state = state].key = client[u].key
      /\ [client[u] EXCEPT !.state = state].keys = client[u].keys
      /\ [client[u] EXCEPT !.state = state].req = client[u].req
  BY <1>1 DEF ClientRecords
<1>3. client'[u] = [client[u] EXCEPT !.state = state]
      /\ client' \in [Users -> ClientRecords]
      /\ \A v \in Users \ {u} : client'[v] = client[v]
  BY <1>2 DEF Become
<1> QED
  BY <1>2, <1>3 DEF ClientMoves, KeyChange, ReqChange, DoneChange

LEMMA SendFacts ==
  ASSUME ServiceInv, NEW e \in Ends, NEW m \in Packets, Send(e, m)
  PROVE  /\ UNCHANGED <<clientFrame, open>> /\ net' \in [Ends -> Seq(Packets)]
         /\ Posts(Peer[e], m)
<1>1. Peer[e] \in Ends
  BY HiChainAssumption
<1> QED
  BY <1>1, CallerFacts, PostPosts DEF Send, Deliver

LEMMA TakenFacts ==
  ASSUME ServiceInv, NEW e \in Ends, net[e] # <<>>, Taken(e)
  PROVE  /\ UNCHANGED <<clientFrame, open>> /\ net' \in [Ends -> Seq(Packets)]
         /\ Quiet
BY CallerFacts, TakeQuiet DEF Taken

LEMMA ReplyFacts ==
  ASSUME ServiceInv, NEW e \in Ends, net[e] # <<>>, NEW m \in Packets, Reply(e, m)
  PROVE  /\ UNCHANGED <<clientFrame, open>> /\ net' \in [Ends -> Seq(Packets)]
         /\ Quiet \/ Posts(Peer[e], m)
<1>1. Peer[e] \in Ends /\ Peer[e] # e
  BY HiChainAssumption
<1>2. CASE e \in open
  <2>1. net' = [net EXCEPT ![e] = Tail(@), ![Peer[e]] = Append(@, m)]
        /\ UNCHANGED <<clientFrame, open>>
    BY <1>2 DEF Reply
  <2>2. Posts(Peer[e], m) /\ net' \in [Ends -> Seq(Packets)]
    BY <1>1, <2>1, CallerFacts, ReplyPosts
  <2> QED
    BY <2>1, <2>2
<1>3. CASE e \notin open
  <2>1. net' = [net EXCEPT ![e] = Tail(@)] /\ UNCHANGED <<clientFrame, open>>
    BY <1>3 DEF Reply
  <2> QED
    BY <2>1, CallerFacts, TakeQuiet
<1> QED
  BY <1>2, <1>3

LEMMA ClientFacts ==
  ASSUME ServiceInv, client \in [Users -> ClientRecords], PairersPake,
         NEW u \in Users, ClientStep(u)
  PROVE  /\ UNCHANGED <<clientFrame, open>> /\ net' \in [Ends -> Seq(Packets)]
         /\ ClientMoves(u)
         /\ Quiet \/ \E f \in Ends : \E m : ClientSends(u, f, m) /\ Posts(f, m)
<1>0. /\ u \in Ends /\ Peer[u] \in Ends /\ net \in [Ends -> Seq(Packets)]
      /\ client[u] \in ClientRecords
  BY UserFacts, MsgFacts, CallerFacts
<1>a. client[u].req \in Nat \cup {None} /\ client[u].key \in Proofs /\ client[u].tries \in Nat
  BY <1>0 DEF ClientRecords
<1>1. CASE Negotiate(u)
  <2> DEFINE m == Message("Negotiate", None, None, None)
  <2>1. m \in Packets /\ m.type = "Negotiate" /\ m.proof = None
    BY BareMessage DEF Types
  <2> HIDE DEF m
  <2>2. Send(u, m) /\ Become(u, "negotiating")
    BY <1>1 DEF Negotiate, m
  <2>3. ClientMoves(u)
    BY <2>2, BecomeFacts
  <2> QED
    BY <1>0, <2>1, <2>2, <2>3, SendFacts DEF ClientSends
<1>2. CASE Ask(u)
  <2> DEFINE m == Message("ReqAuth", None, None, None)
  <2>1. m \in Packets /\ m.type = "ReqAuth" /\ m.proof = None
    BY BareMessage DEF Types
  <2> HIDE DEF m
  <2>2. Send(u, m) /\ Become(u, "asked")
    BY <1>2 DEF Ask, m
  <2>3. ClientMoves(u)
    BY <2>2, BecomeFacts
  <2> QED
    BY <1>0, <2>1, <2>2, <2>3, SendFacts DEF ClientSends
<1>3. CASE StartPake(u)
  <2> DEFINE m == Message("PakeRequest", client[u].req, None, None)
  <2>1. m \in Packets /\ m.type = "PakeRequest" /\ m.proof = None /\ m.req = client[u].req
    BY <1>a, NothingTyped DEF Message, Packet, Packets, Types
  <2> HIDE DEF m
  <2>2. Send(PakeEnd[u], m) /\ Become(u, "pake") /\ u \in Pairers /\ client[u].state = "granted"
    BY <1>3 DEF StartPake, Is, m
  <2>3. ClientMoves(u)
    BY <2>2, BecomeFacts
  <2>4. PakeEnd[u] \in Ends /\ Peer[PakeEnd[u]] \in Ends
    BY <2>2, PairerFacts, MsgFacts
  <2> QED
    BY <2>1, <2>2, <2>3, <2>4, SendFacts DEF ClientSends
<1>4. CASE OnNegotiated(u)
  <2>1. \E state \in {"negotiated", "trusted"} : Become(u, state) /\ Taken(u) /\ net[u] # <<>>
    BY <1>4 DEF OnNegotiated, Takes
  <2>2. ClientMoves(u)
    BY <2>1, BecomeFacts
  <2> QED
    BY <1>0, <2>1, <2>2, TakenFacts
<1>5. CASE OnRespAuth(u)
  <2> DEFINE head == Head(net[u])
  <2>1. /\ client' = [client EXCEPT ![u].state = "granted", ![u].req = head.req]
        /\ Taken(u) /\ net[u] # <<>> /\ head.type = "RespAuth"
    BY <1>5 DEF OnRespAuth, Takes
  <2>2. head \in Packets /\ head \in Wire(u)
    BY <1>0, <2>1, HeadOnWire
  <2> HIDE DEF head
  <2>3. head.req \in Nat \cup {None}
    BY <2>2 DEF Packets
  <2> DEFINE r == [client[u] EXCEPT !.state = "granted", !.req = head.req]
  <2>4. /\ r \in ClientRecords /\ r.state = "granted" /\ r.req = head.req
        /\ r.key = client[u].key /\ r.keys = client[u].keys
    BY <1>0, <2>3 DEF ClientRecords
  <2>5. client'[u] = r /\ client' \in [Users -> ClientRecords]
        /\ \A v \in Users \ {u} : client'[v] = client[v]
    BY <1>0, <2>1, <2>4
  <2> HIDE DEF r
  <2>6. ClientMoves(u)
    BY <2>1, <2>2, <2>4, <2>5 DEF ClientMoves, KeyChange, ReqChange, DoneChange
  <2> QED
    BY <1>0, <2>1, <2>6, TakenFacts
<1>6. ASSUME NEW pinRight \in BOOLEAN, OnPakeResponse(u, pinRight)
      PROVE  /\ UNCHANGED <<clientFrame, open>> /\ net' \in [Ends -> Seq(Packets)]
             /\ ClientMoves(u)
             /\ Quiet \/ \E f \in Ends : \E m : ClientSends(u, f, m) /\ Posts(f, m)
  <2> DEFINE e == PakeEnd[u]
             nonce == <<u, client[u].tries>>
             head == Head(net[e])
             key == IF pinRight THEN <<head.nonce, nonce>> ELSE <<nonce, head.nonce>>
             keys == IF pinRight THEN client[u].keys \cup {key} ELSE client[u].keys
             m == Message("ClientConfirm", client[u].req, nonce, key)
             r == [client[u] EXCEPT !.state = "confirm", !.key = key, !.keys = keys]
  <2>1. /\ Is(u, {"pake"}) /\ net[e] # <<>> /\ head.type = "PakeResponse"
        /\ client' = [client EXCEPT ![u].state = "confirm", ![u].key = key, ![u].keys = keys]
        /\ Reply(e, m)
    BY <1>6 DEF OnPakeResponse, Takes
  <2>2. u \in Pairers
    BY <2>1 DEF PairersPake, Is
  <2>3. e \in Ends /\ Peer[e] \in Ends
    BY <2>2, PairerFacts, MsgFacts
  <2>4. head \in Packets /\ head \in Wire(e)
    BY <1>0, <2>1, <2>3, HeadOnWire
  <2>5. u \in Clients
    BY DmAuthAssumption
  <2>6. nonce \in Clients \X Nat
    BY <1>a, <2>5
  <2>7. nonce \in Nonces /\ head.nonce \in Nonces
    BY <2>4, <2>6 DEF Nonces, Packets
  <2>8. key \in Proofs
    BY <2>7 DEF Proofs
  <2>9. /\ \/ key = <<head.nonce, nonce>> /\ keys = client[u].keys \cup {<<head.nonce, nonce>>}
           \/ key = <<nonce, head.nonce>> /\ keys = client[u].keys
    OBVIOUS
  <2> HIDE DEF key, nonce, head, e
  <2>10. keys \in SUBSET Proofs
    BY <1>0, <2>8 DEF ClientRecords
  <2> HIDE DEF keys
  <2>11. /\ m \in Packets /\ m.type = "ClientConfirm" /\ m.req = client[u].req /\ m.proof = key
    BY <1>a, <2>7, <2>8, NothingTyped DEF Message, Packet, Packets, Types
  <2> HIDE DEF m
  <2>12. /\ r \in ClientRecords /\ r.state = "confirm" /\ r.key = key /\ r.keys = keys
         /\ r.req = client[u].req
    BY <1>0, <2>8, <2>10 DEF ClientRecords
  <2>13. client'[u] = r /\ client' \in [Users -> ClientRecords]
         /\ \A v \in Users \ {u} : client'[v] = client[v]
    BY <1>0, <2>1, <2>12
  <2> HIDE DEF r
  <2>14. KeyChange(u)
    BY <2>1, <2>2, <2>4, <2>6, <2>9, <2>12, <2>13 DEF KeyChange, e
  <2>15. ClientMoves(u)
    BY <2>2, <2>12, <2>13, <2>14 DEF ClientMoves, ReqChange, DoneChange
  <2>16. ClientSends(u, Peer[e], m)
    BY <2>2, <2>11, <2>12, <2>13 DEF ClientSends, e
  <2>17. /\ UNCHANGED <<clientFrame, open>> /\ net' \in [Ends -> Seq(Packets)]
         /\ Quiet \/ Posts(Peer[e], m)
    BY <2>1, <2>3, <2>11, ReplyFacts
  <2> QED
    BY <2>3, <2>15, <2>16, <2>17
<1>7. CASE OnServerConfirm(u)
  <2> DEFINE e == PakeEnd[u]
             right == Head(net[e]).proof = client[u].key
             m == Message(IF right THEN "ExchangeRequest" ELSE "Error", client[u].req, None, client[u].key)
  <2>1. /\ Is(u, {"confirm"}) /\ net[e] # <<>> /\ Reply(e, m)
        /\ \E state \in {"exchange", "failed"} : Become(u, state)
    BY <1>7 DEF OnServerConfirm, Takes
  <2>2. u \in Pairers
    BY <2>1 DEF PairersPake, Is
  <2>3. e \in Ends /\ Peer[e] \in Ends
    BY <2>2, PairerFacts, MsgFacts
  <2>4. /\ m \in Packets /\ m.type \in {"ExchangeRequest", "Error"} /\ m.req = client[u].req
        /\ m.proof = client[u].key
    <3>1. CASE right
      BY <1>a, <3>1, NothingTyped DEF Message, Packet, Packets, Types
    <3>2. CASE ~right
      BY <1>a, <3>2, NothingTyped DEF Message, Packet, Packets, Types
    <3> QED
      BY <3>1, <3>2
  <2> HIDE DEF m
  <2>5. ClientMoves(u) /\ client'[u].key = client[u].key
    BY <2>1, <2>2, BecomeFacts
  <2>6. ClientSends(u, Peer[e], m)
    BY <2>2, <2>4, <2>5 DEF ClientSends
  <2>7. /\ UNCHANGED <<clientFrame, open>> /\ net' \in [Ends -> Seq(Packets)]
        /\ Quiet \/ Posts(Peer[e], m)
    BY <2>1, <2>3, <2>4, ReplyFacts
  <2> QED
    BY <2>3, <2>5, <2>6, <2>7
<1>8. CASE OnExchangeResponse(u)
  <2> DEFINE e == PakeEnd[u]
             head == Head(net[e])
  <2>1. /\ Is(u, {"exchange"}) /\ net[e] # <<>> /\ Taken(e) /\ head.type = "ExchangeResponse"
        /\ \/ Become(u, "done") /\ head.proof = client[u].key
           \/ Become(u, "failed")
    BY <1>8 DEF OnExchangeResponse, Takes
  <2>2. u \in Pairers
    BY <2>1 DEF PairersPake, Is
  <2>3. e \in Ends /\ Peer[e] \in Ends
    BY <2>2, PairerFacts, MsgFacts
  <2>4. head \in Packets /\ head \in Wire(e)
    BY <1>0, <2>1, <2>3, HeadOnWire
  <2>5. ClientMoves(u)
    BY <2>1, <2>2, <2>4, BecomeFacts
  <2> QED
    BY <2>1, <2>3, <2>5, TakenFacts
<1>9. CASE Ignore(u)
  <2>1. PICK e \in EndsOf(u) : net[e] # <<>> /\ Taken(e) /\ UNCHANGED client
    BY <1>9 DEF Ignore
  <2>2. e \in Ends
    BY <1>0, PairerFacts DEF EndsOf
  <2>3. ClientMoves(u)
    BY <2>1 DEF ClientMoves, KeyChange, ReqChange, DoneChange, PairersPake, Is
  <2> QED
    BY <2>1, <2>2, <2>3, TakenFacts
<1>10. CASE GiveUp(u)
  <2> DEFINE m == Message("Error", client[u].req, None, None)
  <2>1. m \in Packets /\ m.type = "Error" /\ m.proof = None /\ m.req = client[u].req
    BY <1>a, NothingTyped DEF Message, Packet, Packets, Types
  <2> HIDE DEF m
  <2>2. Send(PakeEnd[u], m) /\ Become(u, "failed") /\ u \in Pairers
    BY <1>10 DEF GiveUp, Is, PairersPake, m
  <2>3. ClientMoves(u)
    BY <2>2, BecomeFacts
  <2>4. PakeEnd[u] \in Ends /\ Peer[PakeEnd[u]] \in Ends
    BY <2>2, PairerFacts, MsgFacts
  <2> QED
    BY <2>1, <2>2, <2>3, <2>4, SendFacts DEF ClientSends
<1>11. CASE Again(u)
  <2>1. PICK state \in {"start", "granted"} :
          /\ state = "granted" => u \in Pairers /\ client[u].req # None
          /\ client' = [client EXCEPT ![u].state = state, ![u].tries = @ + 1, ![u].key = None]
    BY <1>11 DEF Again
  <2> DEFINE tries == client[u].tries + 1
             r == [client[u] EXCEPT !.state = state, !.tries = tries, !.key = None]
  <2>2. tries \in Nat
    BY <1>a
  <2>3. client' = [client EXCEPT ![u] = r]
    BY <2>1
  <2> HIDE DEF tries
  <2>4. /\ r \in ClientRecords /\ r.state = state /\ r.key = None /\ r.keys = client[u].keys
        /\ r.req = client[u].req
    BY <1>0, <2>2, NothingTyped DEF ClientRecords
  <2>5. client'[u] = r /\ client' \in [Users -> ClientRecords]
        /\ \A v \in Users \ {u} : client'[v] = client[v]
    BY <1>0, <2>3, <2>4
  <2> HIDE DEF r
  <2>6. ClientMoves(u)
    BY <2>1, <2>4, <2>5 DEF ClientMoves, KeyChange, ReqChange, DoneChange
  <2>7. UNCHANGED <<clientFrame, net, open>>
    BY <1>11 DEF Again
  <2> QED
    BY <1>0, <2>6, <2>7, QuietKept
<1>12. ASSUME NEW result \in {"AuthConfirm", "AuthRefuse"}, Confirm(u, result)
       PROVE  /\ UNCHANGED <<clientFrame, open>> /\ net' \in [Ends -> Seq(Packets)]
              /\ ClientMoves(u)
              /\ Quiet \/ \E f \in Ends : \E m : ClientSends(u, f, m) /\ Posts(f, m)
  <2> DEFINE m == Message(result, client[u].req, None, None)
             tries == client[u].tries + 1
             r == [client[u] EXCEPT !.tries = tries]
  <2>1. m \in Packets /\ m.type = result /\ m.proof = None /\ m.req = client[u].req
    BY <1>a, NothingTyped DEF Message, Packet, Packets, Types
  <2> HIDE DEF m
  <2>2. Send(PakeEnd[u], m) /\ client[u].state \in {"pake", "confirm", "exchange"} /\ u \in Pairers
    BY <1>12 DEF Confirm, Is, PairersPake, m
  <2>3. tries \in Nat /\ client' = [client EXCEPT ![u] = r]
    BY <1>a, <1>12 DEF Confirm
  <2> HIDE DEF tries
  <2>4. /\ r \in ClientRecords /\ r.state = client[u].state /\ r.key = client[u].key
        /\ r.keys = client[u].keys /\ r.req = client[u].req
    BY <1>0, <2>3 DEF ClientRecords
  <2>5. client'[u] = r /\ client' \in [Users -> ClientRecords]
        /\ \A v \in Users \ {u} : client'[v] = client[v]
    BY <1>0, <2>3, <2>4
  <2> HIDE DEF r
  <2>6. ClientMoves(u)
    BY <2>2, <2>4, <2>5 DEF ClientMoves, KeyChange, ReqChange, DoneChange
  <2>7. PakeEnd[u] \in Ends /\ Peer[PakeEnd[u]] \in Ends
    BY <2>2, PairerFacts, MsgFacts
  <2> QED
    BY <2>1, <2>2, <2>6, <2>7, SendFacts DEF ClientSends
<1> QED
  BY <1>1, <1>2, <1>3, <1>4, <1>5, <1>6, <1>7, <1>8, <1>9, <1>10, <1>11, <1>12
  DEF ClientStep, ClientReads

-----------------------------------------------------------------------------
(* Who works on what                                                       *)

\* The steps, for a reader of the cases below.
LEMMA StepKinds ==
  ASSUME [DmNext]_dmVars
  PROVE  \/ [SessionNext]_sessionVars /\ UNCHANGED <<groups, client>>
         \/ \E p \in MsgHandlers : ListenerStep(p)
         \/ \E p \in MsgHandlers \cup Acceptors : Disconnected(p)
         \/ \E u \in Users : ClientStep(u)
         \/ \E e \in Pairers \cup PakeEnds : Close(e)
BY DEF DmNext, dmVars, ClientStep

LEMMA CloseFacts ==
  ASSUME ServiceInv, NEW e \in Pairers \cup PakeEnds, Close(e)
  PROVE  /\ UNCHANGED <<clientFrame, net, client>> /\ ServiceInv' /\ e \in Ends
<1>1. e \in Ends
  BY PairerFacts, UserFacts DEF PakeEnds
<1>2. UNCHANGED <<serviceVars, callerVars, procVars, seqCounter, net>> /\ open' \subseteq open
  BY DEF Close, clientFrame
<1>3. ServiceInv'
  BY <1>2, CallerFacts, WireStepInv
<1> QED
  BY <1>1, <1>3 DEF Close

LEMMA DmServiceInv ==
  ASSUME DmInv, [DmNext]_dmVars PROVE ServiceInv'
<1>1. ServiceInv /\ client \in [Users -> ClientRecords] /\ PairersPake
  BY DEF DmInv, DmTypeOK
<1>2. ASSUME NEW u \in Users, ClientStep(u) PROVE ServiceInv'
  BY <1>1, <1>2, ClientFacts, CallerFacts, WireStepInv DEF clientFrame
<1>3. ASSUME NEW p \in MsgHandlers \cup Acceptors, Disconnected(p) PROVE ServiceInv'
  <2>1. p \in Handlers
    BY MsgFacts, AuthSessionAssumption
  <2> QED
    BY <1>1, <1>3, <2>1, DisconnectedFacts
<1> QED
  BY <1>1, <1>2, <1>3, StepKinds, SessionServiceInv, ListenerServiceInv, CloseFacts

\* What a step of the service does to the handler that takes it.
LEMMA ServiceWork ==
  ASSUME ServiceInv, NEW p \in Handlers, ServiceStep(p)
  PROVE  /\ pc[p] \in InService \cup {"auth", "start"}
         /\ pc'[p] \in InService \cup {"start", "reading"}
         /\ pc'[p] = "start" <=> pc[p] = "auth"
         /\ pc[p] = "start" /\ pc'[p] # "reading" => local[p].then # None
         /\ pc'[p] # "reading" =>
              /\ local'[p].key = local[p].key /\ local'[p].cb = local[p].cb
              /\ local'[p].msg = local[p].msg /\ local'[p].then = local[p].then
         /\ \A q \in Handlers \ {p} : pc'[q] = pc[q] /\ local'[q] = local[q]
<1>0. pc \in [Handlers -> Labels] /\ local \in [Handlers -> LocalRecords] /\ local[p] \in LocalRecords
  BY CallerFacts
<1>1. \A q \in Handlers \ {p} : pc'[q] = pc[q] /\ local'[q] = local[q]
  BY <1>0, ServiceMoves
<1>2. /\ pc[p] \in InService \cup {"auth", "start"}
      /\ pc'[p] \in InService \cup {"start", "reading"}
      /\ pc'[p] = "start" <=> pc[p] = "auth"
      /\ pc[p] = "start" /\ pc'[p] # "reading" => local[p].then # None
  <2>1. CASE StartAuth(p)
    BY <1>0, <2>1 DEF StartAuth, Return, Goto, InService, LocalRecords
  <2>2. CASE \/ AuthDevice(p) \/ StartAuthFails(p) \/ Lookup(p) \/ DropInstance(p)
             \/ RecordRequest(p) \/ CreateInstance(p)
    BY <1>0, <2>2 DEF AuthDevice, StartAuthFails, Lookup, DropInstance, RecordRequest,
                      CreateInstance, Return, Goto, InService
  <2>3. CASE \/ HandleAuthStart(p) \/ RefuseAuthStart(p) \/ HandleAuthChallenge(p)
             \/ ChallengeWithoutKey(p) \/ HandleExchangeRequest(p) \/ RefuseExchange(p)
             \/ HandleAuthConfirm(p) \/ HandleError(p) \/ Cleanup(p)
    BY <1>0, <2>3 DEF HandleAuthStart, RefuseAuthStart, HandleAuthChallenge, ChallengeWithoutKey,
                      HandleExchangeRequest, RefuseExchange, HandleAuthConfirm, HandleError,
                      Cleanup, Receiving, Return, Goto, InService
  <2> QED
    BY <2>1, <2>2, <2>3 DEF ServiceStep
<1>3. ASSUME pc'[p] # "reading"
      PROVE  /\ local'[p].key = local[p].key /\ local'[p].cb = local[p].cb
             /\ local'[p].msg = local[p].msg /\ local'[p].then = local[p].then
  <2>1. UNCHANGED local \/ \E h \in Nat : local' = [local EXCEPT ![p].handle = h]
    <3>1. CASE \/ StartAuthFails(p) \/ RefuseAuthStart(p) \/ ChallengeWithoutKey(p)
               \/ RefuseExchange(p) \/ Cleanup(p) \/ HandleAuthStart(p) \/ HandleAuthChallenge(p)
      BY <1>0, <1>3, <3>1 DEF StartAuthFails, RefuseAuthStart, ChallengeWithoutKey, RefuseExchange,
                  Cleanup, HandleAuthStart, HandleAuthChallenge, Return, Goto
    <3>2. CASE StartAuth(p)
      BY <1>0, <1>3, <3>2 DEF StartAuth, Return, Goto
    <3>3. CASE \/ DropInstance(p) \/ RecordRequest(p) \/ HandleExchangeRequest(p)
               \/ HandleAuthConfirm(p) \/ HandleError(p)
      BY <3>3 DEF DropInstance, RecordRequest, HandleExchangeRequest, HandleAuthConfirm, HandleError
    <3>4. CASE AuthDevice(p) \/ CreateInstance(p) \/ Lookup(p)
      <4>2. CASE AuthDevice(p) \/ CreateInstance(p)
        <5>1. DeviceOf[p] \in Devices
          BY HiChainAssumption
        <5>2. handles[DeviceOf[p]] \in Seq(HandleRecords)
          BY <5>1 DEF ServiceInv, TypeOK
        <5>3. Len(handles[DeviceOf[p]]) + 1 \in Nat
          BY <5>2, LenProperties
        <5> QED
          BY <4>2, <5>3 DEF AuthDevice, CreateInstance, AddInstance
      <4>3. CASE Lookup(p)
        <5>1. DeviceOf[p] \in Devices
          BY HiChainAssumption
        <5>2. DOMAIN handles[DeviceOf[p]] \subseteq Nat
          BY <5>1, LenProperties DEF ServiceInv, TypeOK
        <5>3. ASSUME NEW k, Known(DeviceOf[p], k) PROVE instances[DeviceOf[p]][k] \in Nat
          BY <5>1, <5>2, <5>3 DEF ServiceInv, TypeOK, IsMap, Known
        <5> QED
          BY <4>3, <5>3 DEF Lookup
      <4> QED
        BY <3>4, <4>2, <4>3
    <3> QED
      BY <3>1, <3>2, <3>3, <3>4 DEF ServiceStep
  <2>2. ASSUME NEW h \in Nat, local' = [local EXCEPT ![p].handle = h]
        PROVE  local'[p] = [local[p] EXCEPT !.handle = h]
    BY <1>0, <2>2
  <2> QED
    BY <1>0, <2>1, <2>2 DEF LocalRecords
<1> QED
  BY <1>1, <1>2, <1>3

\* Every packet a handler has in hand it had before or has just read.
HandsOn ==
  \A q \in Handlers : Carries(q)' =>
    \/ Carries(q) /\ local'[q].msg = local[q].msg
    \/ local'[q].msg \in Wire(q)

\* What the steps of sessions that do not enter the service have in common.
CallerQuiet ==
  /\ UNCHANGED serviceVars
  /\ Quiet
  /\ \A d \in Devices : /\ DOMAIN sessions[d] \subseteq DOMAIN sessions'[d]
                        /\ DOMAIN contexts[d] \subseteq DOMAIN contexts'[d]
  /\ open' = open \/ \E e \in Ends : open' = open \ {e, Peer[e]}
  /\ \A q \in Handlers \ (Dialers \cup Acceptors) : pc'[q] = pc[q] /\ local'[q] = local[q]
  /\ \A q \in Handlers : OwnWork(q)'
  /\ HandsOn

LEMMA OwnWorkKept ==
  ASSUME Owned, NEW q \in Handlers, pc'[q] = pc[q], local'[q] = local[q],
         \A d \in Devices : DOMAIN sessions[d] \subseteq DOMAIN sessions'[d]
  PROVE  OwnWork(q)'
<1>1. OwnWork(q) /\ DeviceOf[q] \in Devices
  BY HiChainAssumption DEF Owned
<1> QED
  BY <1>1 DEF OwnWork

LEMMA HandsKept ==
  ASSUME NEW q \in Handlers, pc'[q] = pc[q], local'[q] = local[q], Carries(q)'
  PROVE  Carries(q) /\ local'[q].msg = local[q].msg
BY DEF Carries

LEMMA OneMoves ==
  ASSUME Owned, NEW p \in Dialers \cup Acceptors,
         \A d \in Devices : DOMAIN sessions[d] \subseteq DOMAIN sessions'[d],
         \A q \in Handlers \ {p} : pc'[q] = pc[q] /\ local'[q] = local[q],
         OwnWork(p)',
         Carries(p)' => \/ Carries(p) /\ local'[p].msg = local[p].msg
                        \/ local'[p].msg \in Wire(p)
  PROVE  /\ \A q \in Handlers \ (Dialers \cup Acceptors) : pc'[q] = pc[q] /\ local'[q] = local[q]
         /\ \A q \in Handlers : OwnWork(q)'
         /\ HandsOn
<1>1. ASSUME NEW q \in Handlers PROVE OwnWork(q)'
  BY OwnWorkKept
<1>2. ASSUME NEW q \in Handlers, Carries(q)'
      PROVE  (Carries(q) /\ local'[q].msg = local[q].msg) \/ local'[q].msg \in Wire(q)
  BY <1>2, HandsKept
<1> QED
  BY <1>1, <1>2 DEF HandsOn

LEMMA CallerEffect ==
  ASSUME ServiceInv, Owned, [SessionNext]_sessionVars
  PROVE  \/ \E p \in Dialers \cup Acceptors : ServiceStep(p) /\ UNCHANGED seqCounter
         \/ CallerQuiet
<1>0. /\ pc \in [Handlers -> Labels] /\ local \in [Handlers -> LocalRecords]
      /\ Dialers \subseteq Handlers /\ Acceptors \subseteq Handlers
      /\ \A p \in Dialers \cup Acceptors : p \notin MsgHandlers /\ DeviceOf[p] \in Devices
  BY CallerFacts, AuthSessionAssumption, HiChainAssumption, DmAuthAssumption
<1>1. CASE UNCHANGED sessionVars \/ \E d \in Devices : DialFails(d)
  <2>1. UNCHANGED <<serviceVars, contexts, sessions, net, open, pc, local>>
    BY <1>1 DEF DialFails, sessionVars, hichainVars, callerVars, procVars
  <2>2. \A q \in Handlers : OwnWork(q)'
    BY <2>1, OwnWorkKept
  <2>3. HandsOn
    BY <2>1, HandsKept DEF HandsOn
  <2> QED
    BY <2>1, <2>2, <2>3, QuietKept DEF CallerQuiet
<1>2. ASSUME NEW p \in Dialers, Break(p) PROVE CallerQuiet
  <2>1. UNCHANGED <<serviceVars, contexts, sessions, net, pc, local>> /\ open' = open \ {p, Peer[p]}
        /\ p \in Ends
    BY <1>0, <1>2 DEF Break, callerVars, procVars, Ends
  <2>2. \A q \in Handlers : OwnWork(q)'
    BY <2>1, OwnWorkKept
  <2>3. HandsOn
    BY <2>1, HandsKept DEF HandsOn
  <2> QED
    BY <2>1, <2>2, <2>3, QuietKept DEF CallerQuiet
<1>3. ASSUME NEW p \in Dialers, Connected(p) PROVE CallerQuiet
  <2> DEFINE n == seqCounter[DeviceOf[p]] + 1
             l == [NoLocal EXCEPT !.key = n, !.cb = [conn |-> p, seq |-> n, session |-> n]]
  <2>1. /\ UNCHANGED <<serviceVars, net, open>> /\ SetContext(DeviceOf[p], n, p)
        /\ pc' = [pc EXCEPT ![p] = "auth"] /\ local' = [local EXCEPT ![p] = l]
    BY <1>3 DEF Connected, Goto
  <2>2. /\ \A d \in Devices : \A s \in DOMAIN sessions[d] : s \in DOMAIN sessions'[d]
        /\ n \in Nat /\ n \in DOMAIN sessions'[DeviceOf[p]]
    BY <1>3, NewSessionInv DEF Connected
  <2>3. \A d \in Devices : DOMAIN contexts[d] \subseteq DOMAIN contexts'[d]
    BY <1>0, <2>1, <2>2, SetContextInv
  <2>4. l.key = n /\ l.cb.conn = p /\ l.then = None
    BY DEF NoLocal
  <2>5. pc'[p] = "auth" /\ local'[p] = l /\ \A q \in Handlers \ {p} : pc'[q] = pc[q] /\ local'[q] = local[q]
    BY <1>0, <2>1
  <2> HIDE DEF l, n
  <2>6. OwnWork(p)' /\ ~Carries(p)'
    BY <1>0, <2>2, <2>4, <2>5 DEF OwnWork, Carries, InService
  <2> QED
    BY <2>1, <2>2, <2>3, <2>5, <2>6, OneMoves, QuietKept DEF CallerQuiet
<1>4. ASSUME NEW p \in Acceptors, Accepted(p) PROVE CallerQuiet
  <2>1. UNCHANGED <<serviceVars, contexts, sessions, net, open, local>> /\ pc' = [pc EXCEPT ![p] = "reading"]
    BY <1>4 DEF Accepted, Goto, callerVars
  <2>2. pc'[p] = "reading" /\ \A q \in Handlers \ {p} : pc'[q] = pc[q] /\ local'[q] = local[q]
    BY <1>0, <2>1
  <2>3. OwnWork(p)' /\ ~Carries(p)'
    BY <1>0, <2>2 DEF OwnWork, Carries, InService
  <2> QED
    BY <2>1, <2>2, <2>3, OneMoves, QuietKept DEF CallerQuiet
<1>5. ASSUME NEW p \in Dialers \cup Acceptors, ReadSdk(p) PROVE CallerQuiet
  <2>1. /\ UNCHANGED <<serviceVars, contexts, open>> /\ pc' = [pc EXCEPT ![p] = "route"]
        /\ net[p] # <<>> /\ net' = [net EXCEPT ![p] = Tail(@)]
        /\ local' = [local EXCEPT ![p].msg = Head(net[p])]
    BY <1>5 DEF ReadSdk, Goto
  <2>2. p \in Ends /\ net \in [Ends -> Seq(Packets)]
    BY <1>0, CallerFacts DEF Ends
  <2>3. Quiet /\ Head(net[p]) \in Wire(p)
    BY <2>1, <2>2, TakeQuiet, HeadOnWire
  <2>4. \A d \in Devices : DOMAIN sessions[d] \subseteq DOMAIN sessions'[d]
    <3>1. CASE HasSession(p)
      BY <1>5, <3>1 DEF ReadSdk
    <3>2. CASE ~HasSession(p)
      <4>1. seqCounter' = [seqCounter EXCEPT ![DeviceOf[p]] = @ + 1]
            /\ NewSession(p, seqCounter[DeviceOf[p]] + 1, TRUE, "sync")
        BY <1>5, <3>2 DEF ReadSdk
      <4>2. \A d \in Devices : \A s \in DOMAIN sessions[d] : s \in DOMAIN sessions'[d]
        BY <4>1, NewSessionInv
      <4> QED
        BY <4>2
    <3> QED
      BY <3>1, <3>2
  <2>5. pc'[p] = "route" /\ local'[p].msg = Head(net[p])
        /\ \A q \in Handlers \ {p} : pc'[q] = pc[q] /\ local'[q] = local[q]
    BY <1>0, <2>1 DEF LocalRecords
  <2>6. OwnWork(p)'
    BY <1>0, <2>5 DEF OwnWork, InService
  <2> QED
    BY <2>1, <2>3, <2>4, <2>5, <2>6, OneMoves DEF CallerQuiet
<1>6. ASSUME NEW p \in Dialers \cup Acceptors, Route(p) PROVE CallerQuiet
  <2> DEFINE e == DeviceOf[p]
             seq == local[p].msg.seq
  <2>0. p \in Handlers
    BY <1>0
  <2>1. /\ e \in Devices /\ pc[p] = "route" /\ seq \in Nat /\ seq \in DOMAIN sessions[e]
        /\ sessions[e][seq] \in SessionRecords /\ sessions[e][seq].conn \in Handlers
        /\ UNCHANGED <<serviceVars, net, open, seqCounter>>
        /\ RouteBegins(p) \/ RouteGoesOn(p)
    BY <1>6, <2>0, RouteFacts
  <2>2. SessionCallback(e, seq).conn = sessions[e][seq].conn /\ sessions[e][seq].conn \notin MsgHandlers
    BY <1>0, <2>1 DEF SessionCallback, SessionRecords
  <2>3. \A d \in Devices : /\ DOMAIN sessions'[d] = DOMAIN sessions[d]
                           /\ DOMAIN contexts[d] \subseteq DOMAIN contexts'[d]
    <3>1. CASE RouteBegins(p)
      <4>1. SetContext(e, seq, sessions[e][seq].conn) /\ sessions' = [sessions EXCEPT ![e][seq].state = "auth"]
        BY <3>1, ZenonT(40) DEF RouteBegins
      <4>2. \A d \in Devices : DOMAIN sessions'[d] = DOMAIN sessions[d]
        BY <2>1, <4>1, SetStateInv, ZenonT(40)
      <4>3. \A d \in Devices : DOMAIN contexts[d] \subseteq DOMAIN contexts'[d]
        BY <2>1, <4>1, SetContextInv
      <4> QED
        BY <4>2, <4>3, SMTT(30)
    <3>2. CASE RouteGoesOn(p)
      BY <3>2 DEF RouteGoesOn, callerVars
    <3> QED
      BY <2>1, <3>1, <3>2
  <2>4. /\ pc'[p] \in {"auth", "lookup"} /\ local'[p].msg = local[p].msg
        /\ local'[p].key = seq /\ local'[p].cb = SessionCallback(e, seq)
        /\ \A q \in Handlers \ {p} : pc'[q] = pc[q] /\ local'[q] = local[q]
    <3>1. CASE RouteBegins(p)
      BY <1>0, <2>0, <3>1 DEF RouteBegins, Goto, LocalRecords
    <3>2. CASE RouteGoesOn(p)
      BY <1>0, <2>0, <3>2 DEF RouteGoesOn, Goto, LocalRecords
    <3> QED
      BY <2>1, <3>1, <3>2, SMTT(30)
  <2>5. OwnWork(p)'
    BY <1>0, <2>1, <2>2, <2>3, <2>4 DEF OwnWork, InService
  <2>6. Carries(p)
    BY <2>1 DEF Carries
  <2> QED
    BY <2>1, <2>3, <2>4, <2>5, <2>6, OneMoves, QuietKept DEF CallerQuiet
<1>7. ASSUME NEW p \in Dialers \cup Acceptors, RouteNowhere(p) PROVE CallerQuiet
  <2>1. UNCHANGED <<serviceVars, contexts, sessions, net, open>> /\ pc' = [pc EXCEPT ![p] = "reading"]
        /\ local' = [local EXCEPT ![p] = NoLocal]
    BY <1>7 DEF RouteNowhere, Return, Goto, callerVars
  <2>2. pc'[p] = "reading" /\ \A q \in Handlers \ {p} : pc'[q] = pc[q] /\ local'[q] = local[q]
    BY <1>0, <2>1
  <2>3. OwnWork(p)' /\ ~Carries(p)'
    BY <1>0, <2>2 DEF OwnWork, Carries, InService
  <2> QED
    BY <2>1, <2>2, <2>3, OneMoves, QuietKept DEF CallerQuiet
<1> QED
  BY <1>1, <1>2, <1>3, <1>4, <1>5, <1>6, <1>7 DEF SessionNext, SessionStep

LEMMA ServiceHandsOn ==
  ASSUME ServiceInv, NEW p \in Handlers, ServiceStep(p) PROVE HandsOn
<1>1. ASSUME NEW q \in Handlers, q # p, Carries(q)' PROVE Carries(q) /\ local'[q].msg = local[q].msg
  BY <1>1, ServiceWork, HandsKept
<1>2. ASSUME Carries(p)' PROVE Carries(p) /\ local'[p].msg = local[p].msg
  BY <1>2, ServiceWork DEF Carries, InService
<1> QED
  BY <1>1, <1>2 DEF HandsOn

LEMMA ServiceOwned ==
  ASSUME ServiceInv, Owned, NEW p \in Handlers, ServiceStep(p) PROVE Owned'
<1>1. OwnWork(p)
  BY DEF Owned
<1>2. \A d \in Devices : DOMAIN sessions[d] = DOMAIN sessions'[d]
  BY ServiceSessions DEF KeepsSessions
<1>3. ASSUME NEW q \in Handlers, q # p PROVE OwnWork(q)'
  BY <1>2, <1>3, ServiceWork, OwnWorkKept
<1>4. DeviceOf[p] \in Devices
  BY HiChainAssumption
<1>5. OwnWork(p)'
  BY <1>1, <1>2, <1>4, ServiceWork DEF OwnWork, InService
<1>6. ASSUME NEW d \in Devices, NEW h \in DOMAIN handles'[d], handles'[d][h].cb.conn \in MsgHandlers
      PROVE  handles'[d][h].key = FdOf[handles'[d][h].cb.conn]
  <2>1. CASE h \in DOMAIN handles[d]
    <3>1. KeepsHandles(d)
      BY HandlesGrow
    <3> QED
      BY <1>6, <2>1, <3>1 DEF KeepsHandles, Owned, OwnHandles
  <2>2. CASE h \notin DOMAIN handles[d]
    <3>1. Created(p, d, h)
      BY <1>6, <2>2, HandlesGrow
    <3>2. handles'[d][h].cb = local[p].cb /\ handles'[d][h].key = local[p].key /\ pc[p] \in {"auth", "create"}
      BY <3>1 DEF Created, NewHandle
    <3> QED
      BY <1>1, <1>6, <3>2 DEF OwnWork, InService
  <2> QED
    BY <2>1, <2>2
<1> QED
  BY <1>3, <1>5, <1>6 DEF Owned, OwnHandles

\* The steps of the listener that do not enter the service.
ListenerMove(p) ==
  \/ HandleNegotiate(p)
  \/ HandleReqAuth(p)
  \/ CreateGroup(p)
  \/ AddMember(p)
  \/ AnswerReqAuth(p)
  \/ HandleHiChain(p)
  \/ Accepted(p) /\ UNCHANGED <<groups, client>>

LEMMA ListenerEffect ==
  ASSUME ServiceInv, NEW p \in MsgHandlers, ListenerMove(p)
  PROVE  /\ UNCHANGED <<serviceVars, sessions, open, client>>
         /\ \A d \in Devices : DOMAIN contexts[d] \subseteq DOMAIN contexts'[d]
         /\ \A q \in Handlers \ {p} : pc'[q] = pc[q] /\ local'[q] = local[q]
         /\ pc[p] \in {"idle", "reading", "createGroup", "addMember", "answer"}
         /\ OwnWork(p)'
         /\ Carries(p)' => local'[p].msg \in Wire(p)
<1>0. /\ pc \in [Handlers -> Labels] /\ local \in [Handlers -> LocalRecords]
      /\ p \in Handlers /\ p \in Ends /\ DeviceOf[p] \in Devices /\ FdOf[p] \in Nat
      /\ p \notin Dialers /\ p \notin Acceptors
  BY CallerFacts, MsgFacts
<1>1. CASE HandleNegotiate(p)
  <2>1. UNCHANGED <<serviceVars, callerVars, open, pc, local, client>> /\ pc[p] = "reading"
    BY <1>1 DEF HandleNegotiate, Arrived, procVars
  <2>2. OwnWork(p)' /\ ~Carries(p)'
    BY <1>0, <2>1 DEF OwnWork, Carries, InService
  <2> QED
    BY <2>1, <2>2 DEF callerVars
<1>2. CASE HandleReqAuth(p) \/ CreateGroup(p) \/ AddMember(p) \/ AnswerReqAuth(p) \/ Accepted(p)
  <2>1. /\ UNCHANGED <<serviceVars, sessions, open, local>> /\ (~Accepted(p) => UNCHANGED client)
        /\ pc[p] \in {"idle", "reading", "createGroup", "addMember", "answer"}
        /\ \E label \in {"createGroup", "addMember", "answer", "reading"} : pc' = [pc EXCEPT ![p] = label]
    BY <1>2 DEF HandleReqAuth, CreateGroup, AddMember, AnswerReqAuth, Accepted, Goto, callerVars, Arrived
  <2>2. \A d \in Devices : DOMAIN contexts[d] \subseteq DOMAIN contexts'[d]
    <3>1. CASE HandleReqAuth(p)
      BY <1>0, <3>1, SetContextInv DEF HandleReqAuth
    <3>2. CASE ~HandleReqAuth(p)
      BY <1>2, <3>2 DEF CreateGroup, AddMember, AnswerReqAuth, Accepted, callerVars
    <3> QED
      BY <3>1, <3>2
  <2>3. pc'[p] \in {"createGroup", "addMember", "answer", "reading"}
        /\ \A q \in Handlers \ {p} : pc'[q] = pc[q] /\ local'[q] = local[q]
    BY <1>0, <2>1
  <2>4. OwnWork(p)' /\ ~Carries(p)'
    BY <1>0, <2>3 DEF OwnWork, Carries, InService
  <2>5. UNCHANGED client
    BY <1>2, <2>1 DEF ListenerMove, HandleReqAuth, CreateGroup, AddMember, AnswerReqAuth, HandleNegotiate, HandleHiChain
  <2> QED
    BY <2>1, <2>2, <2>3, <2>4, <2>5
<1>3. CASE HandleHiChain(p)
  <2>1. PICK l \in LocalRecords :
          /\ local' = [local EXCEPT ![p] = l]
          /\ l.key = FdOf[p] /\ l.then = None /\ l.msg = Head(net[p])
          /\ l.cb \in CallbacksOf(DeviceOf[p]) /\ l.cb.conn = p
    BY <1>3, HiChainFacts
  <2>2. /\ UNCHANGED <<serviceVars, callerVars, open, client>> /\ Head(net[p]) \in Wire(p)
        /\ pc' = [pc EXCEPT ![p] = "lookup"] /\ pc[p] = "reading"
    BY <1>3, HiChainFacts
  <2>3. pc'[p] = "lookup" /\ local'[p] = l
        /\ \A q \in Handlers \ {p} : pc'[q] = pc[q] /\ local'[q] = local[q]
    BY <1>0, <2>1, <2>2
  <2>4. OwnWork(p)' /\ local'[p].msg \in Wire(p)
    BY <1>0, <2>1, <2>2, <2>3 DEF OwnWork, InService
  <2> QED
    BY <2>2, <2>3, <2>4 DEF callerVars
<1> QED
  BY <1>1, <1>2, <1>3 DEF ListenerMove

LEMMA DisconnectedEffect ==
  ASSUME ServiceInv, NEW p \in MsgHandlers \cup Acceptors, Disconnected(p)
  PROVE  /\ UNCHANGED <<serviceVars, sessions, open, local, groups, client>> /\ p \in Handlers
         /\ \A q \in Handlers \ {p} : pc'[q] = pc[q] /\ local'[q] = local[q]
         /\ pc[p] = "reading" /\ pc'[p] = "closed" /\ p \notin open
         /\ OwnWork(p)' /\ ~Carries(p)'
<1>1. p \in Handlers /\ pc \in [Handlers -> Labels]
  BY MsgFacts, AuthSessionAssumption, CallerFacts
<1>2. pc' = [pc EXCEPT ![p] = "closed"] /\ pc[p] = "reading" /\ p \notin open
      /\ UNCHANGED <<serviceVars, sessions, open, local, groups, client>>
  BY DEF Disconnected, Goto
<1>3. pc'[p] = "closed" /\ \A q \in Handlers \ {p} : pc'[q] = pc[q] /\ local'[q] = local[q]
  BY <1>1, <1>2
<1>4. OwnWork(p)' /\ ~Carries(p)'
  BY <1>3 DEF OwnWork, Carries, InService
<1> QED
  BY <1>1, <1>2, <1>3, <1>4

LEMMA OneHandsOn ==
  ASSUME NEW p \in Handlers,
         \A q \in Handlers \ {p} : pc'[q] = pc[q] /\ local'[q] = local[q],
         Carries(p)' => local'[p].msg \in Wire(p)
  PROVE  HandsOn
<1>1. ASSUME NEW q \in Handlers, q # p, Carries(q)' PROVE Carries(q) /\ local'[q].msg = local[q].msg
  BY <1>1, HandsKept
<1> QED
  BY <1>1 DEF HandsOn

LEMMA OneOwned ==
  ASSUME ServiceInv, Owned, NEW p \in Handlers, UNCHANGED <<handles, sessions>>,
         \A q \in Handlers \ {p} : pc'[q] = pc[q] /\ local'[q] = local[q],
         OwnWork(p)'
  PROVE  Owned'
<1>1. \A q \in Handlers : OwnWork(q)'
  BY OwnWorkKept
<1> QED
  BY <1>1 DEF Owned, OwnHandles

\* The six kinds of steps.
LEMMA StepCases ==
  ASSUME DmInv, [DmNext]_dmVars
  PROVE  \/ CallerQuiet /\ UNCHANGED <<groups, client>>
         \/ \E p \in MsgHandlers \cup Dialers \cup Acceptors :
              ServiceStep(p) /\ UNCHANGED <<seqCounter, groups, client>>
         \/ \E p \in MsgHandlers : ListenerMove(p)
         \/ \E p \in MsgHandlers \cup Acceptors : Disconnected(p)
         \/ \E u \in Users : ClientStep(u)
         \/ \E e \in Pairers \cup PakeEnds : Close(e)
BY StepKinds, CallerEffect DEF DmInv, ListenerStep, ListenerMove

LEMMA OwnedInv ==
  ASSUME DmInv, [DmNext]_dmVars PROVE Owned' /\ HandsOn
<1>0. ServiceInv /\ Owned /\ client \in [Users -> ClientRecords] /\ PairersPake
  BY DEF DmInv, DmTypeOK
<1>a. \A p \in MsgHandlers \cup Dialers \cup Acceptors : p \in Handlers
  BY MsgFacts, AuthSessionAssumption
<1>1. CASE CallerQuiet
  BY <1>0, <1>1 DEF CallerQuiet, Owned, OwnHandles, serviceVars
<1>2. ASSUME NEW p \in Handlers, ServiceStep(p) PROVE Owned' /\ HandsOn
  BY <1>0, <1>2, ServiceOwned, ServiceHandsOn
<1>3. ASSUME NEW p \in MsgHandlers, ListenerMove(p) PROVE Owned' /\ HandsOn
  BY <1>0, <1>a, <1>3, ListenerEffect, OneOwned, OneHandsOn DEF serviceVars
<1>4. ASSUME NEW p \in MsgHandlers \cup Acceptors, Disconnected(p) PROVE Owned' /\ HandsOn
  BY <1>0, <1>4, DisconnectedEffect, OneOwned, OneHandsOn DEF serviceVars
<1>5. ASSUME UNCHANGED <<handles, sessions, pc, local>> PROVE Owned' /\ HandsOn
  <2>1. HandsOn
    BY <1>5, HandsKept DEF HandsOn
  <2>2. \A q \in Handlers : OwnWork(q)'
    BY <1>0, <1>5, OwnWorkKept
  <2> QED
    BY <1>0, <1>5, <2>1, <2>2 DEF Owned, OwnHandles
<1>6. ASSUME NEW u \in Users, ClientStep(u) PROVE Owned' /\ HandsOn
  BY <1>0, <1>5, <1>6, ClientFacts DEF clientFrame, serviceVars, callerVars, procVars
<1>7. ASSUME NEW e \in Pairers \cup PakeEnds, Close(e) PROVE Owned' /\ HandsOn
  BY <1>0, <1>5, <1>7, CloseFacts DEF clientFrame, serviceVars, callerVars, procVars
<1> QED
  BY <1>a, <1>1, <1>2, <1>3, <1>4, <1>6, <1>7, StepCases

LEMMA ClosedTogetherInv ==
  ASSUME DmInv, [DmNext]_dmVars PROVE ClosedTogether'
<1>0. ServiceInv /\ client \in [Users -> ClientRecords] /\ PairersPake /\ ClosedTogether
  BY DEF DmInv, DmTypeOK
<1>a. \A p \in MsgHandlers \cup Dialers \cup Acceptors : p \in Handlers
  BY MsgFacts, AuthSessionAssumption
<1>1. ASSUME UNCHANGED open PROVE ClosedTogether'
  BY <1>0, <1>1 DEF ClosedTogether
<1>2. ASSUME NEW e \in Ends, open' = open \ {e, Peer[e]} PROVE ClosedTogether'
  BY <1>0, <1>2, HiChainAssumption DEF ClosedTogether
<1>3. ASSUME NEW e \in Pairers \cup PakeEnds, Close(e) PROVE ClosedTogether'
  BY <1>0, <1>2, <1>3, CloseFacts DEF Close
<1>4. CASE CallerQuiet
  BY <1>1, <1>2, <1>4 DEF CallerQuiet
<1>5. ASSUME NEW p \in Handlers, ServiceStep(p) PROVE ClosedTogether'
  BY <1>0, <1>1, <1>5, ServiceTables
<1> QED
  BY <1>0, <1>a, <1>1, <1>3, <1>4, <1>5, StepCases, ListenerEffect, DisconnectedEffect, ClientFacts

-----------------------------------------------------------------------------
(* What grows                                                              *)

LEMMA ClientsMove ==
  ASSUME DmInv, [DmNext]_dmVars
  PROVE  UNCHANGED client \/ \E u \in Users : ClientStep(u) /\ ClientMoves(u)
<1>0. ServiceInv /\ client \in [Users -> ClientRecords] /\ PairersPake
  BY DEF DmInv, DmTypeOK
<1> QED
  BY <1>0, StepCases, ListenerEffect, DisconnectedEffect, ClientFacts, CloseFacts

LEMMA TablesMove ==
  ASSUME DmInv, [DmNext]_dmVars
  PROVE  \/ UNCHANGED serviceVars
         \/ \E p \in MsgHandlers \cup Dialers \cup Acceptors :
              p \in Handlers /\ ServiceStep(p) /\ UNCHANGED <<seqCounter, groups, client>>
<1>0. ServiceInv /\ client \in [Users -> ClientRecords] /\ PairersPake
  BY DEF DmInv, DmTypeOK
<1>a. \A p \in MsgHandlers \cup Dialers \cup Acceptors : p \in Handlers
  BY MsgFacts, AuthSessionAssumption
<1>1. ASSUME NEW u \in Users, ClientStep(u) PROVE UNCHANGED serviceVars
  BY <1>0, <1>1, ClientFacts DEF clientFrame
<1>2. ASSUME NEW e \in Pairers \cup PakeEnds, Close(e) PROVE UNCHANGED serviceVars
  BY <1>0, <1>2, CloseFacts DEF clientFrame
<1>3. CASE CallerQuiet
  BY <1>3 DEF CallerQuiet
<1>4. ASSUME NEW p \in MsgHandlers, ListenerMove(p) PROVE UNCHANGED serviceVars
  BY <1>0, <1>4, ListenerEffect
<1>5. ASSUME NEW p \in MsgHandlers \cup Acceptors, Disconnected(p) PROVE UNCHANGED serviceVars
  BY <1>0, <1>5, DisconnectedEffect
<1> QED
  BY <1>a, <1>1, <1>2, <1>3, <1>4, <1>5, StepCases

LEMMA GroupsMove ==
  ASSUME DmInv, [DmNext]_dmVars
  PROVE  UNCHANGED groups \/ \E p \in MsgHandlers : CreateGroup(p) \/ AddMember(p)
<1>0. ServiceInv /\ client \in [Users -> ClientRecords] /\ PairersPake
  BY DEF DmInv, DmTypeOK
<1>1. ASSUME NEW u \in Users, ClientStep(u) PROVE UNCHANGED groups
  BY <1>0, <1>1, ClientFacts DEF clientFrame
<1>2. ASSUME NEW e \in Pairers \cup PakeEnds, Close(e) PROVE UNCHANGED groups
  BY <1>0, <1>2, CloseFacts DEF clientFrame
<1>3. ASSUME NEW p \in MsgHandlers, ListenerMove(p) PROVE UNCHANGED groups \/ CreateGroup(p) \/ AddMember(p)
  BY <1>3 DEF ListenerMove, HandleNegotiate, HandleReqAuth, AnswerReqAuth, HandleHiChain
<1>4. ASSUME NEW p \in MsgHandlers \cup Acceptors, Disconnected(p) PROVE UNCHANGED groups
  BY <1>4 DEF Disconnected
<1> QED
  BY <1>1, <1>2, <1>3, <1>4, StepCases

\* What a record of a device keeps.
LEMMA ClientKeeps ==
  ASSUME DmInv, [DmNext]_dmVars
  PROVE  /\ client' \in [Users -> ClientRecords]
         /\ PairersPake'
         /\ \A u \in Users : client[u].keys \subseteq client'[u].keys
<1>0. client \in [Users -> ClientRecords] /\ PairersPake
  BY DEF DmInv, DmTypeOK
<1>1. CASE UNCHANGED client
  BY <1>0, <1>1 DEF PairersPake, Is
<1>2. ASSUME NEW u \in Users, ClientMoves(u)
      PROVE  /\ client' \in [Users -> ClientRecords]
             /\ PairersPake'
             /\ \A v \in Users : client[v].keys \subseteq client'[v].keys
  <2>1. /\ client' \in [Users -> ClientRecords]
        /\ \A v \in Users \ {u} : client'[v] = client[v]
        /\ client'[u].state \in {"pake", "confirm", "exchange", "done"} => u \in Pairers
    BY <1>2 DEF ClientMoves
  <2>2. client[u].keys \subseteq client'[u].keys
    BY <1>2 DEF ClientMoves, KeyChange
  <2> QED
    BY <1>0, <2>1, <2>2 DEF PairersPake, Is
<1> QED
  BY <1>1, <1>2, ClientsMove

LEMMA HandlesKept ==
  ASSUME DmInv, [DmNext]_dmVars
  PROVE  \A d \in Devices : KeepsHandles(d)
<1>0. ServiceInv
  BY DEF DmInv
<1>1. CASE UNCHANGED handles
  BY <1>1 DEF KeepsHandles
<1> QED
  BY <1>0, <1>1, TablesMove, HandlesGrow DEF serviceVars

\* A request on a device's connection makes and fills the group of the device.
LEMMA GroupFacts ==
  ASSUME DmInv, NEW p \in MsgHandlers, CreateGroup(p) \/ AddMember(p)
  PROVE  LET d == DeviceOf[p]
             u == Peer[p]
             g == GroupId(u)
         IN  /\ u \in Users /\ Peer[u] = p /\ d \in Devices /\ UserOf(Peer[p]) = u
             /\ DOMAIN groups' = Devices
             /\ \A e \in Devices \ {d} : groups'[e] = groups[e]
             /\ DOMAIN groups[d] \subseteq DOMAIN groups'[d]
             /\ DOMAIN groups'[d] \subseteq DOMAIN groups[d] \cup {g}
             /\ \A f \in DOMAIN groups[d] \ {g} : groups'[d][f] = groups[d][f]
             /\ CreateGroup(p) => g \in DOMAIN groups'[d] /\ groups'[d][g] = {}
             /\ AddMember(p) => /\ DOMAIN groups'[d] = DOMAIN groups[d]
                                /\ g \in DOMAIN groups[d] => groups'[d][g] = groups[d][g] \cup {u}
<1> DEFINE d == DeviceOf[p]
           u == Peer[p]
           g == GroupId(u)
<1>1. pc[p] \in {"createGroup", "addMember"}
  BY DEF CreateGroup, AddMember
<1>2. u \in Users
  BY <1>1 DEF DmInv, GrantsKnown
<1>3. Peer[u] = p /\ d \in Devices /\ UserOf(u) = u
  BY <1>2, MsgFacts, UserOfUser
<1>4. DOMAIN groups = Devices
  BY DEF DmInv, DmTypeOK
<1>5. CASE CreateGroup(p)
  <2>1. groups' = [groups EXCEPT ![d] = Put(@, g, {})]
    BY <1>3, <1>5 DEF CreateGroup
  <2>2. ~AddMember(p)
    BY <1>5 DEF CreateGroup, AddMember
  <2>3. DOMAIN groups' = Devices /\ groups'[d] = Put(groups[d], g, {})
        /\ \A e \in Devices \ {d} : groups'[e] = groups[e]
    BY <1>3, <1>4, <2>1
  <2> HIDE DEF d, g, u
  <2>4. /\ DOMAIN groups'[d] = DOMAIN groups[d] \cup {g}
        /\ groups'[d][g] = {}
        /\ \A f \in DOMAIN groups[d] \ {g} : groups'[d][f] = groups[d][f]
    BY <2>3 DEF Put
  <2> QED
    BY <1>2, <1>3, <2>2, <2>3, <2>4 DEF d, g, u
<1>6. CASE AddMember(p)
  <2>1. ~CreateGroup(p)
    BY <1>6 DEF CreateGroup, AddMember
  <2>2. groups' = IF g \in DOMAIN groups[d] THEN [groups EXCEPT ![d][g] = @ \cup {u}] ELSE groups
    BY <1>3, <1>6 DEF AddMember
  <2> HIDE DEF d, g, u
  <2>3. /\ DOMAIN groups' = Devices
        /\ \A e \in Devices \ {d} : groups'[e] = groups[e]
        /\ DOMAIN groups'[d] = DOMAIN groups[d]
        /\ \A f \in DOMAIN groups[d] \ {g} : groups'[d][f] = groups[d][f]
        /\ g \in DOMAIN groups[d] => groups'[d][g] = groups[d][g] \cup {u}
    BY <1>3, <1>4, <2>2
  <2> QED
    BY <1>2, <1>3, <2>1, <2>3 DEF d, g, u
<1> QED
  BY <1>5, <1>6

LEMMA DmTypesKept ==
  ASSUME DmInv, [DmNext]_dmVars PROVE DmTypeOK' /\ PairersPake'
<1>1. TypeOK'
  BY DmServiceInv DEF ServiceInv
<1>2. DOMAIN groups = Devices /\ \A d \in Devices : \A g \in DOMAIN groups[d] : groups[d][g] \subseteq Users
  BY DEF DmInv, DmTypeOK
<1>3. DOMAIN groups' = Devices /\ \A d \in Devices : \A g \in DOMAIN groups'[d] : groups'[d][g] \subseteq Users
  <2>1. CASE UNCHANGED groups
    BY <1>2, <2>1
  <2>2. ASSUME NEW p \in MsgHandlers, CreateGroup(p) \/ AddMember(p)
        PROVE  DOMAIN groups' = Devices /\ \A d \in Devices : \A g \in DOMAIN groups'[d] : groups'[d][g] \subseteq Users
    <3>1. DOMAIN groups' = Devices
      BY <2>2, GroupFacts
    <3>2. ASSUME NEW d \in Devices, NEW g \in DOMAIN groups'[d] PROVE groups'[d][g] \subseteq Users
      <4>1. CASE d # DeviceOf[p]
        BY <1>2, <2>2, <3>2, <4>1, GroupFacts
      <4>2. CASE d = DeviceOf[p] /\ g # GroupId(Peer[p])
        BY <1>2, <2>2, <3>2, <4>2, GroupFacts
      <4>3. CASE d = DeviceOf[p] /\ g = GroupId(Peer[p])
        BY <1>2, <2>2, <3>2, <4>3, GroupFacts
      <4> QED
        BY <4>1, <4>2, <4>3
    <3> QED
      BY <3>1, <3>2
  <2> QED
    BY <2>1, <2>2, GroupsMove
<1> QED
  BY <1>1, <1>3, ClientKeeps DEF DmTypeOK

-----------------------------------------------------------------------------
(* Keys                                                                    *)

LEMMA SetHandleAt ==
  ASSUME ServiceInv, NEW p \in Handlers, pc[p] \in {"start", "receive"}, NEW r, SetHandle(p, r),
         NEW d \in Devices, NEW h \in DOMAIN handles[d]
  PROVE  \/ handles'[d][h] = handles[d][h]
         \/ d = DeviceOf[p] /\ h = local[p].handle /\ handles'[d][h] = r
<1>1. handles \in [Devices -> Seq(HandleRecords)]
  BY DEF ServiceInv, TypeOK
<1> QED
  BY <1>1 DEF SetHandle

LEMMA AddInstanceAt ==
  ASSUME ServiceInv, NEW p \in Handlers, NEW role, AddInstance(p, role),
         NEW d \in Devices, NEW h \in DOMAIN handles[d]
  PROVE  handles'[d][h] = handles[d][h]
<1> DEFINE r == NewHandle(role, local[p].key, local[p].cb)
<1>1. handles \in [Devices -> Seq(HandleRecords)] /\ handles[d] \in Seq(HandleRecords)
  BY DEF ServiceInv, TypeOK
<1>2. handles' = [handles EXCEPT ![DeviceOf[p]] = Append(@, r)]
  BY DEF AddInstance
<1> HIDE DEF r
<1>3. CASE d # DeviceOf[p]
  BY <1>1, <1>2, <1>3
<1>4. CASE d = DeviceOf[p]
  <2>1. handles'[d] = Append(handles[d], r)
    BY <1>1, <1>2, <1>4
  <2>2. h \in 1 .. Len(handles[d])
    BY <1>1, LenProperties
  <2> QED
    BY <1>1, <2>1, <2>2
<1> QED
  BY <1>3, <1>4

\* How a step of the service changes a handle.
Touches(p, old, new) ==
  /\ new.sessionKey = old.sessionKey /\ new.returned = old.returned
  /\ new.state \in {old.state, "started", "authenticating", "failed"}
DerivesKey(p, old, new) ==
  /\ pc[p] = "receive" /\ local[p].msg.type \in {"PakeResponse", "ClientConfirm"}
  /\ new.state \in {old.state, "authenticating"}
  /\ \E n \in Nat : \E k :
       /\ k = <<Nonce(p, n), local[p].msg.nonce>> /\ new.sessionKey = k
       /\ new.returned = old.returned \/ (new.returned = k /\ local[p].msg.proof = k)
Completes(p, old, new) ==
  /\ HandleExchangeRequest(p) \/ HandleAuthConfirm(p)
  /\ new.sessionKey = old.sessionKey /\ new.returned = old.returned
  /\ new.state = "completed"
Revises(p, old, new) == Touches(p, old, new) \/ DerivesKey(p, old, new) \/ Completes(p, old, new)

LEMMA ServiceRevises ==
  ASSUME ServiceInv, NEW p \in Handlers, ServiceStep(p), NEW d \in Devices, NEW h \in DOMAIN handles[d]
  PROVE  \/ handles'[d][h] = handles[d][h]
         \/ /\ d = DeviceOf[p] /\ h = local[p].handle /\ pc[p] \in {"start", "receive"}
            /\ handles[d][h] = HandleOf(p)
            /\ Revises(p, handles[d][h], handles'[d][h])
<1> DEFINE hand == HandleOf(p)
           Goal == \/ handles'[d][h] = handles[d][h]
                   \/ /\ d = DeviceOf[p] /\ h = local[p].handle /\ pc[p] \in {"start", "receive"}
                      /\ handles[d][h] = hand
                      /\ Revises(p, handles[d][h], handles'[d][h])
<1>0. ASSUME NEW r, SetHandle(p, r), pc[p] \in {"start", "receive"}, Revises(p, hand, r) PROVE Goal
  <2>1. CASE handles'[d][h] = handles[d][h]
    BY <2>1
  <2>2. CASE d = DeviceOf[p] /\ h = local[p].handle /\ handles'[d][h] = r
    <3>1. handles[d][h] = hand
      BY <2>2 DEF HandleOf
    <3> QED
      BY <1>0, <2>2, <3>1
  <2> QED
    BY <1>0, <2>1, <2>2, SetHandleAt
<1>1. CASE AuthDevice(p) \/ CreateInstance(p)
  BY <1>1, AddInstanceAt DEF AuthDevice, CreateInstance
<1>2. CASE StartAuth(p) \/ HandleError(p)
  <2>1. hand \in HandleRecords /\ pc[p] \in {"start", "receive"}
    BY <1>2, HandleInHand DEF StartAuth, HandleError, Receiving
  <2>2. ASSUME NEW s \in {"started", "failed"} PROVE Revises(p, hand, [hand EXCEPT !.state = s])
    BY <2>1 DEF HandleRecords, Revises, Touches
  <2> QED
    BY <1>0, <1>2, <2>1, <2>2 DEF StartAuth, HandleError
<1>3. CASE HandleAuthStart(p)
  <2> DEFINE r == [hand EXCEPT !.nonce = @ + 1,
                               !.state = IF CanTransmit(hand.cb) THEN "authenticating" ELSE @]
  <2>1. hand \in HandleRecords /\ pc[p] = "receive"
    BY <1>3, HandleInHand DEF HandleAuthStart, Receiving
  <2>2. r.sessionKey = hand.sessionKey /\ r.returned = hand.returned
        /\ r.state \in {hand.state, "authenticating"}
    BY <2>1 DEF HandleRecords
  <2>3. SetHandle(p, r)
    BY <1>3 DEF HandleAuthStart
  <2> HIDE DEF r
  <2>4. Revises(p, hand, r)
    BY <2>2 DEF Revises, Touches
  <2> QED
    BY <1>0, <2>1, <2>3, <2>4
<1>4. CASE HandleAuthChallenge(p)
  <2> DEFINE key == <<Nonce(p, hand.nonce), local[p].msg.nonce>>
             matches == ProofMatches(local[p].msg.proof, key)
             sent == matches /\ CanTransmit(hand.cb)
             r == [hand EXCEPT !.sessionKey = key,
                               !.returned = IF matches THEN key ELSE @,
                               !.state = IF sent THEN "authenticating" ELSE @]
  <2>1. hand \in HandleRecords /\ pc[p] = "receive" /\ local[p].msg.type \in {"PakeResponse", "ClientConfirm"}
    BY <1>4, HandleInHand DEF HandleAuthChallenge, Receiving
  <2>2. hand.nonce \in Nat
    BY <2>1 DEF HandleRecords
  <2>3. SetHandle(p, r)
    BY <1>4 DEF HandleAuthChallenge
  <2>4. r.sessionKey = key /\ (r.returned = hand.returned \/ (r.returned = key /\ local[p].msg.proof = key))
        /\ r.state \in {hand.state, "authenticating"}
    BY <2>1 DEF HandleRecords, ProofMatches
  <2> HIDE DEF r
  <2>5. Revises(p, hand, r)
    BY <2>1, <2>2, <2>4 DEF Revises, DerivesKey
  <2> QED
    BY <1>0, <2>1, <2>3, <2>5
<1>5. CASE HandleExchangeRequest(p) \/ HandleAuthConfirm(p)
  <2> DEFINE r == [hand EXCEPT !.state = "completed"]
  <2>1. hand \in HandleRecords /\ pc[p] = "receive"
    BY <1>5, HandleInHand DEF HandleExchangeRequest, HandleAuthConfirm, Receiving
  <2>2. SetHandle(p, r)
    BY <1>5 DEF HandleExchangeRequest, HandleAuthConfirm
  <2>3. r.sessionKey = hand.sessionKey /\ r.returned = hand.returned /\ r.state = "completed"
    BY <2>1 DEF HandleRecords
  <2> HIDE DEF r
  <2>4. Revises(p, hand, r)
    BY <1>5, <2>2, <2>3 DEF Revises, Completes
  <2> QED
    BY <1>0, <2>1, <2>2, <2>4
<1>6. CASE \/ StartAuthFails(p) \/ Lookup(p) \/ DropInstance(p) \/ RecordRequest(p)
           \/ RefuseAuthStart(p) \/ ChallengeWithoutKey(p) \/ RefuseExchange(p) \/ Cleanup(p)
  BY <1>6 DEF StartAuthFails, Lookup, DropInstance, RecordRequest, RefuseAuthStart,
              ChallengeWithoutKey, RefuseExchange, Cleanup, serviceVars
<1> QED
  BY <1>1, <1>2, <1>3, <1>4, <1>5, <1>6 DEF ServiceStep

\* A key that begins with a nonce of an instance does not begin with one of a
\* device's own.
LEMMA MadeNotWrong ==
  ASSUME NEW d, NEW h, NEW k, MadeBy(d, h, k[1])
  PROVE  ~Wrong(k)
<1>1. PICK n \in Nat : k[1] = <<d, h, n>>
  BY DEF MadeBy
<1> QED
  BY <1>1 DEF Wrong

\* The first half of a key tells who made it.
LEMMA MadeByOne ==
  ASSUME NEW d, NEW h, NEW e, NEW g, NEW n, MadeBy(d, h, n), MadeBy(e, g, n)
  PROVE  d = e /\ h = g
BY DEF MadeBy

LEMMA KnowledgeGrows ==
  ASSUME DmInv, [DmNext]_dmVars
  PROVE  /\ \A d \in Devices : \A h : \A n : MadeBy(d, h, n) => MadeBy(d, h, n)'
         /\ \A e : \A n : AnswersOn(e, n) => AnswersOn(e, n)'
         /\ \A k : Derived(k) => Derived(k)'
         /\ \A k : ProofKnown(k) => ProofKnown(k)'
<1>1. \A d \in Devices : KeepsHandles(d)
  BY HandlesKept
<1>2. \A u \in Users : client[u].keys \subseteq client'[u].keys
  BY ClientKeeps
<1>3. ASSUME NEW k, Derived(k) PROVE Derived(k)'
  BY <1>2, <1>3, PairerFacts DEF Derived
<1>4. ASSUME NEW d \in Devices, NEW h, NEW n, MadeBy(d, h, n) PROVE MadeBy(d, h, n)'
  BY <1>1, <1>4 DEF MadeBy, KeepsHandles
<1>5. ASSUME NEW e, NEW n, AnswersOn(e, n) PROVE AnswersOn(e, n)'
  <2>1. PICK d \in Devices : \E h \in DOMAIN handles[d] :
          MadeBy(d, h, n) /\ handles[d][h].cb.conn = Peer[e]
    BY <1>5 DEF AnswersOn
  <2>2. PICK h \in DOMAIN handles[d] : MadeBy(d, h, n) /\ handles[d][h].cb.conn = Peer[e]
    BY <2>1
  <2>3. h \in DOMAIN handles'[d] /\ handles'[d][h].cb.conn = Peer[e] /\ MadeBy(d, h, n)'
    BY <1>1, <1>4, <2>2 DEF KeepsHandles
  <2> QED
    BY <2>3 DEF AnswersOn
<1> QED
  BY <1>3, <1>4, <1>5 DEF ProofKnown, Wrong

-----------------------------------------------------------------------------
(* What is put on the wire                                                 *)

SentByService(f, m) ==
  \E p \in Handlers :
    /\ p \in MsgHandlers \cup Dialers \cup Acceptors
    /\ ServiceStep(p) /\ UNCHANGED <<groups, client>>
    /\ pc[p] \in {"start", "receive"} /\ Sent(p, m) /\ f = Peer[HandleOf(p).cb.conn]
SentByListener(f, m) ==
  \E p \in MsgHandlers :
    /\ ListenerMove(p) /\ f = Peer[p] /\ m \in Packets /\ m.proof = None
    /\ \/ m.type \in {"RespAuthed", "RespNegotiate"}
       \/ AnswerReqAuth(p) /\ m.type = "RespAuth" /\ m.req = FdOf[p]
SentByDevice(f, m) == \E u \in Users : ClientStep(u) /\ ClientMoves(u) /\ ClientSends(u, f, m)
Sends(f, m) == SentByService(f, m) \/ SentByListener(f, m) \/ SentByDevice(f, m)

LEMMA ListenerNet ==
  ASSUME ServiceInv, NEW p \in MsgHandlers, ListenerMove(p)
  PROVE  Quiet \/ \E f \in Ends : \E m : Posts(f, m) /\ SentByListener(f, m)
<1>0. p \in Ends /\ Peer[p] \in Ends
  BY MsgFacts
<1>1. CASE HandleNegotiate(p)
  BY <1>0, <1>1, NegotiateFacts DEF SentByListener
<1>2. CASE HandleReqAuth(p)
  BY <1>0, <1>2, CallerFacts, TakeQuiet DEF HandleReqAuth, Arrived
<1>3. CASE CreateGroup(p) \/ AddMember(p) \/ Accepted(p)
  BY <1>3, QuietKept DEF CreateGroup, AddMember, Accepted
<1>4. CASE AnswerReqAuth(p)
  BY <1>0, <1>4, AnswerFacts DEF SentByListener
<1>5. CASE HandleHiChain(p)
  BY <1>5, HiChainFacts
<1> QED
  BY <1>1, <1>2, <1>3, <1>4, <1>5 DEF ListenerMove

LEMMA ServiceSends ==
  ASSUME ServiceInv, NEW p \in Handlers, p \in MsgHandlers \cup Dialers \cup Acceptors,
         ServiceStep(p), UNCHANGED <<groups, client>>
  PROVE  Quiet \/ \E f \in Ends : \E m : Posts(f, m) /\ SentByService(f, m)
<1>1. CASE UNCHANGED net
  BY <1>1, QuietKept
<1>2. ASSUME pc[p] \in {"start", "receive"}, NEW m, Sent(p, m),
             net' = [net EXCEPT ![Peer[HandleOf(p).cb.conn]] = Append(@, m)]
      PROVE  \E f \in Ends : Posts(f, m) /\ SentByService(f, m)
  <2>1. HandleOf(p).cb.conn \in Ends
    BY <1>2, HandleInHand DEF CallbacksOf, Callbacks, Ends
  <2>2. Peer[HandleOf(p).cb.conn] \in Ends /\ m \in Packets
    BY <1>2, <2>1, HiChainAssumption DEF Sent
  <2> QED
    BY <1>2, <2>2, CallerFacts, PostPosts DEF SentByService
<1> QED
  BY <1>1, <1>2, ServiceNet

LEMMA NetMoves ==
  ASSUME DmInv, [DmNext]_dmVars
  PROVE  Quiet \/ \E f \in Ends : \E m : Posts(f, m) /\ Sends(f, m)
<1>0. ServiceInv /\ client \in [Users -> ClientRecords] /\ PairersPake
  BY DEF DmInv, DmTypeOK
<1>a. \A p \in MsgHandlers \cup Dialers \cup Acceptors : p \in Handlers
  BY MsgFacts, AuthSessionAssumption
<1>1. CASE CallerQuiet
  BY <1>1 DEF CallerQuiet
<1>2. ASSUME NEW p \in MsgHandlers \cup Dialers \cup Acceptors, ServiceStep(p), UNCHANGED <<groups, client>>
      PROVE  Quiet \/ \E f \in Ends : \E m : Posts(f, m) /\ Sends(f, m)
  BY <1>0, <1>a, <1>2, ServiceSends DEF Sends
<1>3. ASSUME NEW p \in MsgHandlers, ListenerMove(p)
      PROVE  Quiet \/ \E f \in Ends : \E m : Posts(f, m) /\ Sends(f, m)
  BY <1>0, <1>3, ListenerNet DEF Sends
<1>4. ASSUME NEW p \in MsgHandlers \cup Acceptors, Disconnected(p) PROVE Quiet
  BY <1>0, <1>a, <1>4, DisconnectedFacts
<1>5. ASSUME NEW u \in Users, ClientStep(u)
      PROVE  Quiet \/ \E f \in Ends : \E m : Posts(f, m) /\ Sends(f, m)
  BY <1>0, <1>5, ClientFacts DEF Sends, SentByDevice
<1>6. ASSUME NEW e \in Pairers \cup PakeEnds, Close(e) PROVE Quiet
  BY <1>0, <1>6, CloseFacts, QuietKept
<1> QED
  BY <1>1, <1>2, <1>3, <1>4, <1>5, <1>6, StepCases

\* A new packet knows of keys what its sender knows.
LEMMA SentKnown ==
  ASSUME DmInv, [DmNext]_dmVars, NEW f \in Ends, NEW m, Sends(f, m),
         \A u \in Users : ProofKnown(client[u].key)'
  PROVE  ProofKnown(m.proof)' /\ (m.type = "PakeResponse" => AnswersOn(f, m.nonce)')
<1>0. ServiceInv
  BY DEF DmInv
<1>1. CASE SentByListener(f, m)
  BY <1>1 DEF SentByListener, ProofKnown
<1>2. CASE SentByDevice(f, m)
  <2>1. PICK u \in Users : ClientSends(u, f, m)
    BY <1>2 DEF SentByDevice
  <2>2. m.proof \in {None, client'[u].key} /\ m.type # "PakeResponse"
    BY <2>1 DEF ClientSends
  <2> QED
    BY <2>2 DEF ProofKnown
<1>3. CASE SentByService(f, m)
  <2>1. PICK p \in Handlers : /\ ServiceStep(p) /\ pc[p] \in {"start", "receive"}
                              /\ Sent(p, m) /\ f = Peer[HandleOf(p).cb.conn]
    BY <1>3 DEF SentByService
  <2>2. ProofKnown(m.proof)
    <3>1. CASE m.proof = None
      BY <3>1 DEF ProofKnown
    <3>2. CASE pc[p] = "receive" /\ m.proof = local[p].msg.proof
      BY <3>2 DEF DmInv, KeysKnown, Carries, InService
    <3> QED
      BY <2>1, <3>1, <3>2 DEF Sent
  <2>3. ASSUME m.type = "PakeResponse" PROVE AnswersOn(f, m.nonce)
    <3> DEFINE h == HandleOf(p)
               d == DeviceOf[p]
    <3>1. m.nonce = <<d, local[p].handle, h.nonce + 1>>
      BY <2>1, <2>3 DEF Sent, Nonce
    <3>2. /\ d \in Devices /\ local[p].handle \in DOMAIN handles[d] /\ h.nonce + 1 \in Nat
          /\ h.cb.conn \in Ends
      <4>1. /\ d \in Devices /\ local[p].handle \in 1 .. Len(handles[d])
            /\ handles[d] \in Seq(HandleRecords) /\ h \in HandleRecords
            /\ h.cb \in CallbacksOf(d)
        BY <1>0, <2>1, HandleInHand
      <4>2. local[p].handle \in DOMAIN handles[d]
        BY <4>1, LenProperties
      <4>3. h.nonce + 1 \in Nat
        BY <4>1 DEF HandleRecords
      <4> QED
        BY <4>1, <4>2, <4>3 DEF CallbacksOf, Callbacks, Ends
    <3>3. Peer[f] = h.cb.conn
      BY <2>1, <3>2, HiChainAssumption
    <3>4. MadeBy(d, local[p].handle, m.nonce)
      BY <3>1, <3>2 DEF MadeBy
    <3> QED
      BY <3>2, <3>3, <3>4 DEF AnswersOn, HandleOf
  <2> QED
    BY <2>2, <2>3, KnowledgeGrows
<1> QED
  BY <1>1, <1>2, <1>3 DEF Sends

LEMMA DeviceKeysKnown ==
  ASSUME DmInv, [DmNext]_dmVars
  PROVE  /\ \A u \in Users : ProofKnown(client[u].key)'
         /\ \A u \in Pairers : \A k \in client'[u].keys : AnswersOn(PakeEnd[u], k[1])'
<1>1. /\ \A u \in Users : ProofKnown(client[u].key)
      /\ \A u \in Pairers : \A k \in client[u].keys : AnswersOn(PakeEnd[u], k[1])
      /\ \A e \in Ends : \A m \in Wire(e) : m.type = "PakeResponse" => AnswersOn(e, m.nonce)
  BY DEF DmInv, KeysKnown
<1>2. /\ \A k : ProofKnown(k) => ProofKnown(k)'
      /\ \A e : \A n : AnswersOn(e, n) => AnswersOn(e, n)'
  BY KnowledgeGrows
<1>3. CASE UNCHANGED client
  BY <1>1, <1>2, <1>3
<1>4. ASSUME NEW u \in Users, ClientMoves(u)
      PROVE  /\ \A v \in Users : ProofKnown(client[v].key)'
             /\ \A v \in Pairers : \A k \in client'[v].keys : AnswersOn(PakeEnd[v], k[1])'
  <2>1. \A v \in Users \ {u} : client'[v] = client[v]
    BY <1>4 DEF ClientMoves
  <2>2. /\ ProofKnown(client[u].key)'
        /\ u \in Pairers => \A k \in client'[u].keys : AnswersOn(PakeEnd[u], k[1])'
    <3>1. CASE client'[u].key \in {client[u].key, None} /\ client'[u].keys = client[u].keys
      <4>1. ProofKnown(client[u].key)'
        BY <1>1, <1>2, <3>1 DEF ProofKnown
      <4> QED
        BY <1>1, <1>2, <3>1, <4>1
    <3>2. ASSUME u \in Pairers, NEW m \in Wire(PakeEnd[u]), NEW own \in Clients \X Nat,
                 m.type = "PakeResponse",
                 client'[u].key = <<m.nonce, own>>,
                 client'[u].keys = client[u].keys \cup {<<m.nonce, own>>}
          PROVE  /\ ProofKnown(client[u].key)'
                 /\ \A k \in client'[u].keys : AnswersOn(PakeEnd[u], k[1])'
      <4>1. PakeEnd[u] \in Ends
        BY <3>2, PairerFacts
      <4>2. AnswersOn(PakeEnd[u], m.nonce)'
        BY <1>1, <1>2, <3>2, <4>1
      <4>3. Derived(client[u].key)'
        BY <3>2 DEF Derived
      <4>4. <<m.nonce, own>>[1] = m.nonce
        OBVIOUS
      <4> QED
        BY <1>1, <1>2, <3>2, <4>2, <4>3, <4>4 DEF ProofKnown
    <3>3. ASSUME u \in Pairers, NEW m, NEW own \in Clients \X Nat,
                 client'[u].key = <<own, m.nonce>>, client'[u].keys = client[u].keys
          PROVE  /\ ProofKnown(client[u].key)'
                 /\ \A k \in client'[u].keys : AnswersOn(PakeEnd[u], k[1])'
      <4>1. <<own, m.nonce>>[1] = own
        OBVIOUS
      <4>2. Wrong(client[u].key)'
        BY <3>3, <4>1 DEF Wrong
      <4> QED
        BY <1>1, <1>2, <3>3, <4>2 DEF ProofKnown
    <3> QED
      BY <1>4, <3>1, <3>2, <3>3 DEF ClientMoves, KeyChange
  <2>3. \A v \in Pairers : v \in Users
    BY PairerFacts
  <2> QED
    BY <1>1, <1>2, <2>1, <2>2, <2>3
<1> QED
  BY <1>3, <1>4, ClientsMove

\* What is known of the keys of a handle.
HandleKnown(d, h) ==
  /\ handles[d][h].sessionKey # None => MadeBy(d, h, handles[d][h].sessionKey[1])
  /\ handles[d][h].returned # None =>
       MadeBy(d, h, handles[d][h].returned[1]) /\ Derived(handles[d][h].returned)

LEMMA HandleKeysKnown ==
  ASSUME DmInv, [DmNext]_dmVars, NEW d \in Devices, NEW h \in DOMAIN handles'[d]
  PROVE  HandleKnown(d, h)'
<1>0. ServiceInv
  BY DEF DmInv
<1>1. ASSUME NEW g \in DOMAIN handles[d] PROVE HandleKnown(d, g)
  BY <1>1 DEF DmInv, KeysKnown, HandleKnown
<1>2. /\ \A g : \A n : MadeBy(d, g, n) => MadeBy(d, g, n)'
      /\ \A k : Derived(k) => Derived(k)'
  BY KnowledgeGrows
<1>3. ASSUME h \in DOMAIN handles[d],
             handles'[d][h].sessionKey = handles[d][h].sessionKey,
             handles'[d][h].returned = handles[d][h].returned
      PROVE  HandleKnown(d, h)'
  BY <1>1, <1>2, <1>3 DEF HandleKnown
<1>4. ASSUME NEW p \in Handlers, ServiceStep(p) PROVE HandleKnown(d, h)'
  <2>1. CASE h \notin DOMAIN handles[d]
    <3>1. Created(p, d, h)
      BY <1>0, <1>4, <2>1, HandlesGrow
    <3>2. handles'[d][h].sessionKey = None /\ handles'[d][h].returned = None
      BY <3>1 DEF Created, NewHandle
    <3> QED
      BY <3>2 DEF HandleKnown
  <2>2. ASSUME h \in DOMAIN handles[d], d = DeviceOf[p], h = local[p].handle,
               DerivesKey(p, handles[d][h], handles'[d][h])
        PROVE  HandleKnown(d, h)'
    <3>1. PICK n \in Nat : \E k :
            /\ k = <<Nonce(p, n), local[p].msg.nonce>> /\ handles'[d][h].sessionKey = k
            /\ \/ handles'[d][h].returned = handles[d][h].returned
               \/ handles'[d][h].returned = k /\ local[p].msg.proof = k
      BY <2>2 DEF DerivesKey
    <3>2. PICK k :
            /\ k = <<Nonce(p, n), local[p].msg.nonce>> /\ handles'[d][h].sessionKey = k
            /\ \/ handles'[d][h].returned = handles[d][h].returned
               \/ handles'[d][h].returned = k /\ local[p].msg.proof = k
      BY <3>1
    <3>3. k[1] = <<d, h, n>>
      <4>1. Nonce(p, n) = <<d, h, n>>
        BY <2>2 DEF Nonce
      <4>2. k[1] = Nonce(p, n)
        BY <3>2
      <4> QED
        BY <4>1, <4>2
    <3>4. MadeBy(d, h, k[1])
      BY <2>2, <3>3 DEF MadeBy
    <3>5. ASSUME local[p].msg.proof = k PROVE Derived(k)
      <4>1. pc[p] = "receive"
        BY <2>2 DEF DerivesKey
      <4>2. ProofKnown(k)
        BY <3>5, <4>1 DEF DmInv, KeysKnown, Carries, InService
      <4>3. k # None
        <5>1. Nonce(p, n) \in Nonces
          BY <1>0, <4>1, NonceIsNonce
        <5>2. local[p].msg.nonce \in Nonces
          BY <1>0, <4>1 DEF ServiceInv, InHand, Packets
        <5> QED
          BY <3>2, <5>1, <5>2, DmAuthAssumption
      <4>4. ~Wrong(k)
        BY <3>4, MadeNotWrong
      <4> QED
        BY <4>2, <4>3, <4>4, SMTT(30) DEF ProofKnown
    <3>6. MadeBy(d, h, k[1])' /\ (local[p].msg.proof = k => Derived(k)')
      BY <1>2, <3>4, <3>5
    <3>7. PICK r : r = handles[d][h].returned
      OBVIOUS
    <3>8. r # None => MadeBy(d, h, r[1]) /\ Derived(r)
      BY <1>1, <2>2, <3>7 DEF HandleKnown
    <3>9. r # None => MadeBy(d, h, r[1])' /\ Derived(r)'
      BY <1>2, <3>8
    <3> QED
      BY <3>2, <3>6, <3>7, <3>9, SMTT(30) DEF HandleKnown
  <2> QED
    BY <1>0, <1>3, <1>4, <2>1, <2>2, ServiceRevises DEF Revises, Touches, Completes
<1>5. CASE UNCHANGED handles
  BY <1>3, <1>5
<1> QED
  BY <1>4, <1>5, TablesMove DEF serviceVars

LEMMA KeysKnownInv ==
  ASSUME DmInv, [DmNext]_dmVars PROVE KeysKnown'
<1>1. /\ \A u \in Users : ProofKnown(client[u].key)'
      /\ \A u \in Pairers : \A k \in client'[u].keys : AnswersOn(PakeEnd[u], k[1])'
  BY DeviceKeysKnown
<1>2. /\ \A k : ProofKnown(k) => ProofKnown(k)'
      /\ \A e : \A n : AnswersOn(e, n) => AnswersOn(e, n)'
  BY KnowledgeGrows
<1>3. \A e \in Ends : \A m \in Wire(e) :
        ProofKnown(m.proof) /\ (m.type = "PakeResponse" => AnswersOn(e, m.nonce))
  BY DEF DmInv, KeysKnown
<1>4. ASSUME NEW e \in Ends, NEW m \in Wire(e)'
      PROVE  ProofKnown(m.proof)' /\ (m.type = "PakeResponse" => AnswersOn(e, m.nonce)')
  <2>1. CASE m \in Wire(e)
    BY <1>2, <1>3, <2>1
  <2>2. CASE m \notin Wire(e)
    <3>1. PICK f \in Ends : \E x : Posts(f, x) /\ Sends(f, x)
      BY <1>4, <2>2, NetMoves DEF Quiet
    <3>2. PICK x : Posts(f, x) /\ Sends(f, x)
      BY <3>1
    <3>3. e = f /\ m = x
      BY <1>4, <2>2, <3>2 DEF Posts
    <3> QED
      BY <1>1, <3>2, <3>3, SentKnown
  <2> QED
    BY <2>1, <2>2
<1>5. ASSUME NEW p \in Handlers, Carries(p)' PROVE ProofKnown(local[p].msg.proof)'
  <2>1. CASE Carries(p) /\ local'[p].msg = local[p].msg
    BY <1>2, <2>1 DEF DmInv, KeysKnown
  <2>2. CASE local'[p].msg \in Wire(p)
    <3>1. p \in Ends
      BY DEF Ends
    <3> QED
      BY <1>2, <1>3, <2>2, <3>1
  <2> QED
    BY <1>5, <2>1, <2>2, OwnedInv DEF HandsOn
<1>6. ASSUME NEW d \in Devices, NEW h \in DOMAIN handles'[d] PROVE HandleKnown(d, h)'
  BY <1>6, HandleKeysKnown
<1> QED
  BY <1>1, <1>4, <1>5, <1>6 DEF KeysKnown, HandleKnown

-----------------------------------------------------------------------------
(* Grants                                                                  *)

LEMMA ReqStable ==
  ASSUME DmInv, [DmNext]_dmVars, NEW u \in Users
  PROVE  /\ client'[u].req \in {None, FdOf[Peer[u]]}
         /\ client[u].req # None => client'[u].req = client[u].req
         /\ client'[u].state = "granted" => client'[u].req # None
         /\ client'[u].req # None => Answered(u)
<1>1. /\ client[u].req \in {None, FdOf[Peer[u]]}
      /\ client[u].state = "granted" => client[u].req # None
      /\ \A m \in Wire(u) : Asked(u, m)
  BY UserFacts DEF DmInv, GrantsKnown
<1>2. FdOf[Peer[u]] \in Nat /\ FdOf[Peer[u]] # None
  BY UserFacts, MsgFacts, HiChainAssumption
<1>3. CASE client'[u] = client[u]
  BY <1>1, <1>3 DEF Answered
<1>4. CASE ReqChange(u)
  BY <1>1, <1>2, <1>4 DEF ReqChange, Asked, Answered
<1>5. CASE client'[u] # client[u]
  <2>1. PICK v \in Users : ClientMoves(v)
    BY <1>5, ClientsMove
  <2>2. u = v
    BY <1>5, <2>1 DEF ClientMoves
  <2> QED
    BY <1>4, <2>1, <2>2 DEF ClientMoves
<1> QED
  BY <1>3, <1>5

LEMMA AskedKept ==
  ASSUME DmInv, [DmNext]_dmVars, NEW e, NEW m, Asked(e, m)
  PROVE  Asked(e, m)'
<1>1. \A u \in Users : client[u].req # None => client'[u].req = client[u].req
  BY ReqStable
<1>2. \A u \in Pairers : u \in Users
  BY PairerFacts
<1> QED
  BY <1>1, <1>2 DEF Asked

LEMMA SentAsked ==
  ASSUME DmInv, [DmNext]_dmVars, NEW f \in Ends, NEW m, Sends(f, m)
  PROVE  Asked(f, m)'
<1>1. CASE SentByService(f, m)
  BY <1>1 DEF SentByService, Sent, Asked
<1>2. CASE SentByListener(f, m)
  <2>1. PICK p \in MsgHandlers :
          /\ f = Peer[p]
          /\ \/ m.type \in {"RespAuthed", "RespNegotiate"}
             \/ m.type = "RespAuth" /\ m.req = FdOf[p]
    BY <1>2 DEF SentByListener
  <2> QED
    BY <2>1, MsgFacts DEF Asked
<1>3. CASE SentByDevice(f, m)
  <2>1. PICK u \in Users : ClientSends(u, f, m)
    BY <1>3 DEF SentByDevice
  <2>2. CASE f = Peer[u] /\ m.type \in {"Negotiate", "ReqAuth"}
    BY <2>2, UserFacts DEF Asked
  <2>3. CASE /\ u \in Pairers /\ f = Peer[PakeEnd[u]]
             /\ m.type \in {"PakeRequest", "ClientConfirm", "ExchangeRequest", "Error",
                           "AuthConfirm", "AuthRefuse"}
             /\ m.req = client[u].req
             /\ m.type = "PakeRequest" => client[u].state = "granted"
    <3>1. m.type = "PakeRequest" => client[u].req # None /\ client'[u].req = client[u].req
      BY <2>3, ReqStable DEF DmInv, GrantsKnown
    <3> QED
      BY <2>3, <3>1 DEF Asked
  <2> QED
    BY <2>1, <2>2, <2>3 DEF ClientSends
<1> QED
  BY <1>1, <1>2, <1>3 DEF Sends

LEMMA WireAsked ==
  ASSUME DmInv, [DmNext]_dmVars, NEW e \in Ends, NEW m \in Wire(e)'
  PROVE  Asked(e, m)'
<1>1. CASE m \in Wire(e)
  BY <1>1, AskedKept DEF DmInv, GrantsKnown
<1>2. CASE m \notin Wire(e)
  <2>1. PICK f \in Ends : \E x : Posts(f, x) /\ Sends(f, x)
    BY <1>2, NetMoves DEF Quiet
  <2>2. PICK x : Posts(f, x) /\ Sends(f, x)
    BY <2>1
  <2>3. e = f /\ m = x
    BY <1>2, <2>2 DEF Posts
  <2> QED
    BY <2>2, <2>3, SentAsked
<1> QED
  BY <1>1, <1>2

LEMMA HandsAsked ==
  ASSUME DmInv, [DmNext]_dmVars, NEW p \in MsgHandlers, pc'[p] \in InService
  PROVE  Asked(p, local[p].msg)'
<1>0. p \in Handlers /\ p \in Ends
  BY MsgFacts
<1>1. Carries(p)' /\ HandsOn
  BY OwnedInv DEF Carries
<1>2. CASE Carries(p) /\ local'[p].msg = local[p].msg
  <2>1. pc[p] \in InService
    BY <1>0, <1>2 DEF DmInv, Owned, OwnWork, Carries
  <2>2. Asked(p, local[p].msg)
    BY <2>1 DEF DmInv, GrantsKnown
  <2>3. PICK m : m = local[p].msg
    OBVIOUS
  <2>4. Asked(p, m)'
    BY <2>2, <2>3, AskedKept
  <2> QED
    BY <1>2, <2>3, <2>4
<1>3. CASE local'[p].msg \in Wire(p)
  <2>1. PICK m : m = local'[p].msg
    OBVIOUS
  <2>2. Asked(p, m)
    BY <1>0, <1>3, <2>1 DEF DmInv, GrantsKnown
  <2>3. Asked(p, m)'
    BY <2>2, AskedKept
  <2> QED
    BY <2>1, <2>3
<1> QED
  BY <1>0, <1>1, <1>2, <1>3 DEF HandsOn

\* How a handler goes through a request.
Asking == {"createGroup", "addMember", "answer"}

LEMMA AskingMoves ==
  ASSUME DmInv, [DmNext]_dmVars, NEW p \in MsgHandlers
  PROVE  \/ HandleReqAuth(p) /\ pc'[p] = "createGroup"
         \/ CreateGroup(p) /\ pc'[p] = "addMember"
         \/ AddMember(p) /\ pc'[p] = "answer"
         \/ /\ pc'[p] \in Asking => pc'[p] = pc[p]
            /\ pc[p] = "addMember" => pc'[p] = pc[p]
<1>0. /\ ServiceInv /\ client \in [Users -> ClientRecords] /\ PairersPake
      /\ p \in Handlers /\ p \notin Dialers /\ p \notin Acceptors /\ pc \in [Handlers -> Labels]
  BY MsgFacts, CallerFacts DEF DmInv, DmTypeOK
<1>a. \A q \in MsgHandlers \cup Dialers \cup Acceptors : q \in Handlers
  BY MsgFacts, AuthSessionAssumption
<1>1. CASE CallerQuiet
  BY <1>0, <1>1 DEF CallerQuiet
<1>2. ASSUME NEW q \in Handlers, ServiceStep(q)
      PROVE  /\ pc'[p] \in Asking => pc'[p] = pc[p]
             /\ pc[p] = "addMember" => pc'[p] = pc[p]
  BY <1>0, <1>2, ServiceWork DEF InService, Asking
<1>3. ASSUME NEW q \in MsgHandlers, ListenerMove(q), q # p PROVE pc'[p] = pc[p]
  BY <1>0, <1>3, ListenerEffect
<1>4. CASE ListenerMove(p)
  BY <1>0, <1>4 DEF ListenerMove, HandleNegotiate, HandleReqAuth, CreateGroup, AddMember,
                    AnswerReqAuth, HandleHiChain, Accepted, Goto, Asking, procVars, Arrived
<1>5. ASSUME NEW q \in MsgHandlers \cup Acceptors, Disconnected(q)
      PROVE  /\ pc'[p] \in Asking => pc'[p] = pc[p]
             /\ pc[p] = "addMember" => pc'[p] = pc[p]
  BY <1>0, <1>5, DisconnectedEffect DEF Asking
<1>6. ASSUME NEW u \in Users, ClientStep(u) PROVE pc'[p] = pc[p]
  BY <1>0, <1>6, ClientFacts DEF clientFrame, procVars
<1>7. ASSUME NEW e \in Pairers \cup PakeEnds, Close(e) PROVE pc'[p] = pc[p]
  BY <1>0, <1>7, CloseFacts DEF clientFrame, procVars
<1> QED
  BY <1>a, <1>1, <1>2, <1>3, <1>4, <1>5, <1>6, <1>7, StepCases

LEMMA OpenShrinks ==
  ASSUME DmInv, [DmNext]_dmVars PROVE open' \subseteq open
<1>0. ServiceInv /\ client \in [Users -> ClientRecords] /\ PairersPake
  BY DEF DmInv, DmTypeOK
<1>a. \A p \in MsgHandlers \cup Dialers \cup Acceptors : p \in Handlers
  BY MsgFacts, AuthSessionAssumption
<1>1. CASE CallerQuiet
  BY <1>1 DEF CallerQuiet
<1>2. ASSUME NEW p \in Handlers, ServiceStep(p) PROVE UNCHANGED open
  BY <1>0, <1>2, ServiceTables
<1>3. ASSUME NEW e \in Pairers \cup PakeEnds, Close(e) PROVE open' \subseteq open
  BY <1>3 DEF Close
<1> QED
  BY <1>0, <1>a, <1>1, <1>2, <1>3, StepCases, ListenerEffect, DisconnectedEffect, ClientFacts

\* A context goes only when the handler of its own connection finds it closed.
LEMMA ContextsKept ==
  ASSUME DmInv, [DmNext]_dmVars, NEW d \in Devices, NEW k \in DOMAIN contexts[d]
  PROVE  \/ k \in DOMAIN contexts'[d]
         \/ \E p \in MsgHandlers \cup Acceptors : Disconnected(p) /\ d = DeviceOf[p] /\ k = FdOf[p]
<1>0. ServiceInv /\ client \in [Users -> ClientRecords] /\ PairersPake
  BY DEF DmInv, DmTypeOK
<1>a. \A p \in MsgHandlers \cup Dialers \cup Acceptors : p \in Handlers
  BY MsgFacts, AuthSessionAssumption
<1>1. CASE CallerQuiet
  BY <1>1 DEF CallerQuiet
<1>2. ASSUME NEW p \in Handlers, ServiceStep(p) PROVE UNCHANGED contexts
  BY <1>0, <1>2, ServiceTables
<1>3. ASSUME NEW p \in MsgHandlers, ListenerMove(p) PROVE k \in DOMAIN contexts'[d]
  BY <1>0, <1>3, ListenerEffect
<1>4. ASSUME NEW p \in MsgHandlers \cup Acceptors, Disconnected(p)
      PROVE  k \in DOMAIN contexts'[d] \/ (d = DeviceOf[p] /\ k = FdOf[p])
  BY <1>0, <1>a, <1>4, DisconnectedFacts
<1>5. ASSUME NEW u \in Users, ClientStep(u) PROVE UNCHANGED contexts
  BY <1>0, <1>5, ClientFacts DEF clientFrame, callerVars
<1>6. ASSUME NEW e \in Pairers \cup PakeEnds, Close(e) PROVE UNCHANGED contexts
  BY <1>0, <1>6, CloseFacts DEF clientFrame, callerVars
<1> QED
  BY <1>a, <1>1, <1>2, <1>3, <1>4, <1>5, <1>6, StepCases

LEMMA GrantKept ==
  ASSUME DmInv, [DmNext]_dmVars, NEW u \in Users, HasGrant(u), u \in open' \/ Asks(u)'
  PROVE  HasGrant(u)'
<1> DEFINE p == Peer[u]
<1>0. p \in MsgHandlers /\ p \in Handlers /\ DeviceOf[p] \in Devices /\ u \in Ends /\ ServiceInv
  BY UserFacts, MsgFacts DEF DmInv
<1>1. ASSUME NEW q \in MsgHandlers \cup Acceptors, Disconnected(q), DeviceOf[p] = DeviceOf[q],
             FdOf[p] = FdOf[q]
      PROVE  FALSE
  <2>1. q \in Handlers /\ pc'[q] = "closed" /\ q \notin open /\ UNCHANGED open
    BY <1>0, <1>1, DisconnectedEffect
  <2>2. p = q
    BY <1>0, <1>1, <2>1, SameFd
  <2>3. u \notin open'
    BY <1>0, <2>1, <2>2 DEF DmInv, ClosedTogether
  <2>4. ~Asks(u)'
    BY <2>1, <2>2 DEF Asks
  <2> QED
    BY <2>3, <2>4
<1>2. FdOf[p] \in DOMAIN contexts[DeviceOf[p]]
  BY DEF HasGrant
<1>3. FdOf[p] \in DOMAIN contexts'[DeviceOf[p]]
  BY <1>0, <1>1, <1>2, ContextsKept
<1> QED
  BY <1>3 DEF HasGrant

LEMMA AnsweredMoves ==
  ASSUME DmInv, [DmNext]_dmVars, NEW u \in Users, Answered(u)'
  PROVE  Answered(u) \/ AnswerReqAuth(Peer[u])
<1>0. u \in Ends
  BY UserFacts
<1>1. CASE client'[u].req # None
  BY <1>1, ReqStable
<1>2. ASSUME NEW m \in Wire(u)', m.type = "RespAuth" PROVE Answered(u) \/ AnswerReqAuth(Peer[u])
  <2>1. CASE m \in Wire(u)
    BY <1>2, <2>1 DEF Answered
  <2>2. CASE m \notin Wire(u)
    <3>1. PICK f \in Ends : \E x : Posts(f, x) /\ Sends(f, x)
      BY <1>0, <1>2, <2>2, NetMoves DEF Quiet
    <3>2. PICK x : Posts(f, x) /\ Sends(f, x)
      BY <3>1
    <3>3. u = f /\ m = x
      BY <1>0, <1>2, <2>2, <3>2 DEF Posts
    <3>4. ~SentByService(u, m) /\ ~SentByDevice(u, m)
      BY <1>2 DEF SentByService, SentByDevice, Sent, ClientSends
    <3>5. PICK p \in MsgHandlers : u = Peer[p] /\ AnswerReqAuth(p)
      BY <1>2, <3>2, <3>3, <3>4 DEF Sends, SentByListener
    <3>6. Peer[u] = p
      BY <3>5, MsgFacts
    <3> QED
      BY <3>5, <3>6
  <2> QED
    BY <2>1, <2>2
<1> QED
  BY <1>1, <1>2 DEF Answered

LEMMA GrantsKnownInv ==
  ASSUME DmInv, [DmNext]_dmVars PROVE GrantsKnown'
<1>0. ServiceInv
  BY DEF DmInv
<1>1. \A p \in MsgHandlers : pc[p] \in Asking => Peer[p] \in Users
  BY DEF DmInv, GrantsKnown, Asking
<1>2. ASSUME NEW p \in MsgHandlers, pc'[p] \in Asking PROVE Peer[p] \in Users
  <2>1. CASE HandleReqAuth(p)
    <3>1. p \in Ends
      BY MsgFacts
    <3>2. Head(net[p]) \in Wire(p) /\ Head(net[p]).type = "ReqAuth"
      BY <1>0, <2>1, <3>1, CallerFacts, HeadOnWire DEF HandleReqAuth, Arrived
    <3> QED
      BY <3>1, <3>2 DEF DmInv, GrantsKnown, Asked
  <2>2. CASE CreateGroup(p) \/ AddMember(p)
    BY <1>1, <2>2 DEF CreateGroup, AddMember, Asking
  <2> QED
    BY <1>1, <1>2, <2>1, <2>2, AskingMoves
<1>3. ASSUME NEW u \in Users, Answered(u)', u \in open' PROVE HasGrant(u)'
  <2>1. u \in open
    BY <1>3, OpenShrinks
  <2>2. HasGrant(u)
    BY <1>3, <2>1, AnsweredMoves DEF DmInv, GrantsKnown, AnswerReqAuth, Asks
  <2> QED
    BY <1>3, <2>2, GrantKept
<1>4. ASSUME NEW u \in Users, Asks(u)' PROVE HasGrant(u)'
  <2> DEFINE p == Peer[u]
  <2>0. p \in MsgHandlers /\ p \in Handlers /\ DeviceOf[p] \in Devices /\ FdOf[p] \in Nat
    BY UserFacts, MsgFacts
  <2>1. CASE HandleReqAuth(p)
    <3>1. FdOf[p] \in DOMAIN contexts'[DeviceOf[p]]
      BY <1>0, <2>0, <2>1, SetContextInv DEF HandleReqAuth
    <3> QED
      BY <3>1 DEF HasGrant
  <2>2. CASE pc[p] \in Asking
    <3>1. HasGrant(u)
      BY <2>2 DEF DmInv, GrantsKnown, Asks, Asking
    <3> QED
      BY <1>4, <3>1, GrantKept
  <2>3. HandleReqAuth(p) \/ pc[p] \in Asking
    BY <1>4, <2>0, AskingMoves DEF CreateGroup, AddMember, Asks, Asking
  <2> QED
    BY <2>1, <2>2, <2>3
<1>5. ASSUME NEW u \in Users
      PROVE  /\ (client[u].req \in {None, FdOf[Peer[u]]})'
             /\ (client[u].state = "granted" => client[u].req # None)'
  BY ReqStable
<1> QED
  BY <1>2, <1>3, <1>4, <1>5, WireAsked, HandsAsked DEF GrantsKnown, Asking

\* The invariant holds at every step.
LEMMA DmStepInv ==
  ASSUME DmInv, [DmNext]_dmVars PROVE DmInv'
BY DmServiceInv, DmTypesKept, OwnedInv, ClosedTogetherInv, KeysKnownInv, GrantsKnownInv DEF DmInv

LEMMA InitDmInv ==
  ASSUME DmInit PROVE DmInv
<1> USE DEF DmInit
<1>0. SessionInit => StartInv
  BY InitStartInv
<1>1. ServiceInv
  BY <1>0 DEF StartInv
<1>2. /\ net = [e \in Ends |-> <<>>] /\ handles = [d \in Devices |-> <<>>]
      /\ contexts = [d \in Devices |-> EmptyMap] /\ open = Ends
      /\ \A p \in Handlers : pc[p] = "idle"
      /\ \A d \in Devices : DOMAIN handles[d] = {}
      /\ \A e \in Ends : Wire(e) = {}
  <2>1. DOMAIN <<>> = {}
    BY EmptySeq
  <2> QED
    BY <2>1 DEF SessionInit, HiChainInit, Wire
<1>3. /\ client \in [Users -> ClientRecords]
      /\ \A u \in Users : /\ client[u].state = "start" /\ client[u].req = None
                          /\ client[u].key = None /\ client[u].keys = {}
  BY NothingTyped DEF ClientRecords
<1>4. DmTypeOK /\ PairersPake
  BY <1>1, <1>3 DEF DmTypeOK, PairersPake, Is, ServiceInv, EmptyMap
<1>5. Owned
  BY <1>2 DEF Owned, OwnWork, OwnHandles, InService
<1>6. ClosedTogether
  BY <1>2, HiChainAssumption DEF ClosedTogether
<1>7. KeysKnown
  <2>1. \A p \in Handlers : ~Carries(p)
    BY <1>2 DEF Carries, InService
  <2> QED
    BY <1>2, <1>3, <2>1, PairerFacts DEF KeysKnown, ProofKnown
<1>8. GrantsKnown
  <2>1. \A u \in Users : u \in Ends /\ Peer[u] \in Handlers
    BY UserFacts, MsgFacts
  <2>2. \A u \in Users : ~Answered(u) /\ ~Asks(u)
    BY <1>2, <1>3, <2>1 DEF Answered, Asks
  <2>3. \A p \in MsgHandlers : pc[p] = "idle"
    BY <1>2, MsgFacts
  <2> QED
    BY <1>2, <1>3, <2>2, <2>3 DEF GrantsKnown, InService
<1> QED
  BY <1>1, <1>4, <1>5, <1>6, <1>7, <1>8 DEF DmInv

\* Whatever connections break, whatever PIN is typed and however the devices
\* start over: every handler works for its own connection, the two ends of a
\* connection close together, every key and proof there is was derived by a
\* device with the right PIN or begun with its own nonce, and every request
\* id is the fd of a connection whose context is still there.
THEOREM DmInvariance == DmSpec => []DmInv
<1>1. DmInit => DmInv
  BY InitDmInv
<1>2. DmInv /\ [DmNext]_dmVars => DmInv'
  BY DmStepInv
<1> QED
  BY <1>1, <1>2, PTL DEF DmSpec

\* The tables, the groups, the devices' records and every packet have the
\* types of the code.
THEOREM DmTypeCorrect == DmSpec => []DmTypeOK
<1>1. DmInv => DmTypeOK
  BY DEF DmInv
<1> QED
  BY <1>1, DmInvariance, PTL

\* A key that an instance on a device's connection made, and that some device
\* derived with the right PIN, was derived by that device.
LEMMA KeyOwner ==
  ASSUME KeysKnown, NEW u \in Pairers, NEW h \in HandlesOf(u), NEW k,
         MadeBy(DeviceOf[Peer[PakeEnd[u]]], h, k[1]), Derived(k)
  PROVE  k \in client[u].keys
<1> DEFINE d == DeviceOf[Peer[PakeEnd[u]]]
<1>1. PICK v \in Pairers : k \in client[v].keys
  BY DEF Derived
<1>2. AnswersOn(PakeEnd[v], k[1])
  BY <1>1 DEF KeysKnown
<1>3. PICK e \in Devices : \E g \in DOMAIN handles[e] :
        MadeBy(e, g, k[1]) /\ handles[e][g].cb.conn = Peer[PakeEnd[v]]
  BY <1>2 DEF AnswersOn
<1>4. PICK g \in DOMAIN handles[e] :
        MadeBy(e, g, k[1]) /\ handles[e][g].cb.conn = Peer[PakeEnd[v]]
  BY <1>3
<1>5. e = d /\ g = h
  BY <1>4, MadeByOne
<1>6. handles[d][h].cb.conn = Peer[PakeEnd[u]]
  BY DEF HandlesOf
<1>7. Peer[PakeEnd[u]] = Peer[PakeEnd[v]]
  BY <1>4, <1>5, <1>6
<1>8. PakeEnd[u] = PakeEnd[v]
  BY <1>7, PairerFacts
<1>9. u = v
  BY <1>8, DmAuthAssumption
<1> QED
  BY <1>1, <1>9

\* Whatever the ids, a session key reaches the caller of the service only when
\* the device at the other end has derived it with the right PIN: although
\* handleAuthChallenge stores the key before it compares the proof.
THEOREM KeysAlwaysProved == DmSpec => []KeysProved
<1>1. ASSUME DmInv PROVE KeysProved
  <2>1. KeysKnown
    BY <1>1 DEF DmInv
  <2>2. ASSUME NEW u \in Pairers, NEW h \in HandlesOf(u), HandleAt(u, h).returned # None
        PROVE  HandleAt(u, h).returned \in client[u].keys
    <3> DEFINE d == DeviceOf[Peer[PakeEnd[u]]]
               k == HandleAt(u, h).returned
    <3>1. d \in Devices /\ h \in DOMAIN handles[d]
      BY PairerFacts, MsgFacts DEF HandlesOf
    <3>2. MadeBy(d, h, k[1]) /\ Derived(k)
      BY <2>1, <2>2, <3>1 DEF KeysKnown, HandleAt
    <3> QED
      BY <2>1, <3>2, KeyOwner
  <2> QED
    BY <2>2 DEF KeysProved
<1>2. DmInv => KeysProved
  BY <1>1
<1> QED
  BY <1>2, DmInvariance, PTL

-----------------------------------------------------------------------------
(* Groups                                                                  *)

\* No two users of a device have the same first 16 characters of their ids.
GroupsDistinct ==
  \A u, v \in Users :
    DeviceOf[Peer[u]] = DeviceOf[Peer[v]] /\ GroupOf[u] = GroupOf[v] => u = v

LEMMA GroupDomainKept ==
  ASSUME DmInv, [DmNext]_dmVars, NEW d \in Devices
  PROVE  DOMAIN groups[d] \subseteq DOMAIN groups'[d]
<1>1. ASSUME NEW p \in MsgHandlers, CreateGroup(p) \/ AddMember(p)
      PROVE  DOMAIN groups[d] \subseteq DOMAIN groups'[d]
  <2>1. CASE d = DeviceOf[p]
    BY <1>1, <2>1, GroupFacts
  <2>2. CASE d # DeviceOf[p]
    <3>1. groups'[d] = groups[d]
      BY <1>1, <2>2, GroupFacts
    <3> QED
      BY <3>1
  <2> QED
    BY <2>1, <2>2
<1> QED
  BY <1>1, GroupsMove

\* Only a new request of its own takes a member out of its group.
LEMMA MemberKept ==
  ASSUME DmInv, [DmNext]_dmVars, GroupsDistinct, NEW u \in Users, Member(u), ~CreateGroup(Peer[u])
  PROVE  Member(u)'
<1> DEFINE d == DeviceOf[Peer[u]]
           g == GroupId(u)
<1>0. Peer[u] \in MsgHandlers /\ d \in Devices
  BY UserFacts, MsgFacts
<1>1. g \in DOMAIN groups[d] /\ u \in groups[d][g] /\ g \in DOMAIN groups'[d]
  BY <1>0, GroupDomainKept DEF Member
<1>2. ASSUME NEW p \in MsgHandlers, CreateGroup(p) \/ AddMember(p) PROVE u \in groups'[d][g]
  <2>0. Peer[p] \in Users /\ Peer[Peer[p]] = p
    BY <1>2, GroupFacts
  <2>1. CASE DeviceOf[p] # d
    <3>1. groups'[d] = groups[d]
      BY <1>0, <1>2, <2>1, GroupFacts
    <3> QED
      BY <1>1, <3>1
  <2>2. CASE DeviceOf[p] = d /\ Peer[p] # u
    <3>1. GroupId(Peer[p]) # g
      BY <2>0, <2>2 DEF GroupsDistinct, GroupId
    <3>2. groups'[d][g] = groups[d][g]
      BY <1>1, <1>2, <2>2, <3>1, GroupFacts
    <3> QED
      BY <1>1, <3>2
  <2>3. CASE DeviceOf[p] = d /\ Peer[p] = u
    <3>1. AddMember(p)
      BY <1>2, <2>0, <2>3
    <3>2. groups'[d][g] = groups[d][g] \cup {u}
      BY <1>1, <2>3, <3>1, GroupFacts
    <3> QED
      BY <3>2
  <2> QED
    BY <2>1, <2>2, <2>3
<1>3. u \in groups'[d][g]
  BY <1>1, <1>2, GroupsMove
<1> QED
  BY <1>1, <1>3 DEF Member

LEMMA GroupsKnownInv ==
  ASSUME DmInv, [DmNext]_dmVars, GroupsDistinct, GroupsKnown PROVE GroupsKnown'
<1> SUFFICES ASSUME NEW u \in Users
             PROVE  /\ pc'[Peer[u]] = "addMember" => GroupId(u) \in DOMAIN groups'[DeviceOf[Peer[u]]]
                    /\ pc'[Peer[u]] = "answer" => Member(u)'
                    /\ Answered(u)' /\ pc'[Peer[u]] # "addMember" => Member(u)'
  BY DEF GroupsKnown
<1> DEFINE p == Peer[u]
           d == DeviceOf[p]
           g == GroupId(u)
<1>0. p \in MsgHandlers /\ p \in Handlers /\ d \in Devices /\ Peer[p] = u /\ pc \in [Handlers -> Labels]
  BY UserFacts, MsgFacts, CallerFacts DEF DmInv
<1>1. /\ pc[p] = "addMember" => g \in DOMAIN groups[d]
      /\ pc[p] = "answer" => Member(u)
      /\ Answered(u) /\ pc[p] # "addMember" => Member(u)
  BY DEF GroupsKnown
<1>2. CreateGroup(p) => pc[p] = "createGroup" /\ pc'[p] = "addMember"
  BY <1>0 DEF CreateGroup, Goto
<1>3. AddMember(p) => pc[p] = "addMember" /\ pc'[p] = "answer"
  BY <1>0 DEF AddMember, Goto
<1>4. ASSUME pc'[p] = "addMember" PROVE g \in DOMAIN groups'[d]
  <2>1. CASE CreateGroup(p)
    BY <1>0, <2>1, GroupFacts
  <2>2. CASE pc[p] = "addMember"
    BY <1>0, <1>1, <2>2, GroupDomainKept
  <2> QED
    BY <1>0, <1>3, <1>4, <2>1, <2>2, AskingMoves DEF Asking
<1>5. ASSUME AddMember(p) PROVE Member(u)'
  <2>1. g \in DOMAIN groups[d]
    BY <1>1, <1>3, <1>5
  <2>2. groups'[d][g] = groups[d][g] \cup {u} /\ g \in DOMAIN groups'[d]
    BY <1>0, <1>5, <2>1, GroupFacts
  <2> QED
    BY <2>2 DEF Member
<1>6. ASSUME pc'[p] = "answer" PROVE Member(u)'
  <2>1. CASE AddMember(p)
    BY <1>5, <2>1
  <2>2. CASE pc[p] = "answer"
    BY <1>1, <1>2, <2>2, MemberKept
  <2> QED
    BY <1>0, <1>2, <1>6, <2>1, <2>2, AskingMoves DEF Asking
<1>7. ASSUME Answered(u)', pc'[p] # "addMember" PROVE Member(u)'
  <2>1. CASE pc[p] = "addMember"
    BY <1>0, <1>5, <1>7, <2>1, AskingMoves DEF HandleReqAuth, Arrived
  <2>2. CASE pc[p] # "addMember"
    <3>1. Member(u)
      BY <1>1, <1>7, <2>2, AnsweredMoves DEF AnswerReqAuth
    <3> QED
      BY <1>2, <1>7, <3>1, MemberKept
  <2> QED
    BY <2>1, <2>2
<1> QED
  BY <1>4, <1>6, <1>7

\* createDeviceGroup replaces a group by an empty one on every request, yet a
\* device that was answered stays a member, but for the moment between the two
\* sections of a request of its own: unless the ids of two devices agree on
\* their first 16 characters.
THEOREM GrantedAlwaysStays == GroupsDistinct /\ DmSpec => []GrantedStays
<1> DEFINE Inv == DmInv /\ GroupsDistinct /\ GroupsKnown
<1>1. ASSUME DmInit PROVE GroupsKnown
  <2>1. /\ \A u \in Users : Peer[u] \in Handlers /\ u \in Ends
        /\ \A p \in Handlers : pc[p] = "idle"
        /\ \A e \in Ends : net[e] = <<>>
        /\ \A u \in Users : client[u].req = None
    BY <1>1, UserFacts, MsgFacts DEF DmInit, SessionInit, HiChainInit
  <2>2. \A u \in Users : Wire(u) = {}
    BY <2>1, EmptySeq DEF Wire
  <2> QED
    BY <2>1, <2>2 DEF GroupsKnown, Answered
<1>2. GroupsDistinct /\ DmInit => Inv
  BY <1>1, InitDmInv
<1>3. Inv /\ [DmNext]_dmVars => Inv'
  <2>1. GroupsDistinct => GroupsDistinct'
    BY DEF GroupsDistinct
  <2> QED
    BY <2>1, DmStepInv, GroupsKnownInv
<1>4. Inv => GrantedStays
  BY DEF GroupsKnown, GrantedStays, Answered, Member, IsMember
<1> HIDE DEF Inv
<1> QED
  BY <1>2, <1>3, <1>4, PTL DEF DmSpec

-----------------------------------------------------------------------------
(* Pairings, while the ids of sessions keep away from the fds              *)

\* Then a handler of the AUTH_MSG listener alone works on its instances.
LEMMA OnlyOwn ==
  ASSUME ServiceInv, Owned, IdsApart, NEW q \in Handlers, q \in MsgHandlers \cup Dialers \cup Acceptors,
         pc[q] \in {"start", "receive", "cleanup"}, NEW p \in MsgHandlers, HandleOf(q).cb.conn = p
  PROVE  /\ q = p /\ local[p].key = FdOf[p] /\ HandleOf(p).key = FdOf[p]
         /\ pc[p] # "start"
<1> DEFINE d == DeviceOf[q]
<1>1. /\ d \in Devices /\ HandleOf(q).cb \in CallbacksOf(d)
      /\ HandleOf(q).key = local[q].key
      /\ local[q].handle \in 1 .. Len(handles[d]) /\ handles[d] \in Seq(HandleRecords)
  BY HandleInHand
<1>2. local[q].handle \in DOMAIN handles[d]
  BY <1>1, LenProperties
<1>3. local[q].key = FdOf[p]
  BY <1>1, <1>2 DEF Owned, OwnHandles, HandleOf
<1>4. DeviceOf[p] = d
  BY <1>1 DEF CallbacksOf
<1>5. OwnWork(q)
  BY DEF Owned
<1>6. q \in MsgHandlers
  BY <1>3, <1>4, <1>5 DEF OwnWork, InService, IdsApart
<1>7. FdOf[q] = FdOf[p] /\ pc[q] # "start"
  BY <1>3, <1>5, <1>6 DEF OwnWork, InService
<1>8. q = p
  BY <1>4, <1>6, <1>7, MsgFacts, SameFd
<1> QED
  BY <1>1, <1>3, <1>7, <1>8

\* How a handler gets to an instance and leaves it.
LEMMA ServiceComesTo ==
  ASSUME ServiceInv, NEW p \in Handlers, ServiceStep(p)
  PROVE  /\ pc'[p] = "receive" =>
              \/ /\ Lookup(p) /\ local[p].key \in DOMAIN instances[DeviceOf[p]]
                 /\ local'[p].handle = instances[DeviceOf[p]][local[p].key]
                 /\ local[p].msg.type \notin PakeRequest
              \/ /\ CreateInstance(p)
                 /\ local'[p].handle = Len(handles[DeviceOf[p]]) + 1
         /\ pc'[p] = "create" => RecordRequest(p)
         /\ pc[p] = "cleanup" => Cleanup(p)
<1>0. pc \in [Handlers -> Labels] /\ local \in [Handlers -> LocalRecords] /\ local[p] \in LocalRecords
  BY CallerFacts
<1>1. CASE Lookup(p)
  <2>1. ASSUME local' = [local EXCEPT ![p].handle = instances[DeviceOf[p]][local[p].key]]
        PROVE  local'[p].handle = instances[DeviceOf[p]][local[p].key]
    BY <1>0, <2>1 DEF LocalRecords
  <2> QED
    BY <1>0, <1>1, <2>1 DEF Lookup, Goto, Known
<1>2. CASE CreateInstance(p)
  <2>1. local' = [local EXCEPT ![p].handle = Len(handles[DeviceOf[p]]) + 1] /\ pc' = [pc EXCEPT ![p] = "receive"]
        /\ pc[p] = "create"
    BY <1>2 DEF CreateInstance, AddInstance, Goto
  <2>2. local'[p].handle = Len(handles[DeviceOf[p]]) + 1
    BY <1>0, <2>1 DEF LocalRecords
  <2> QED
    BY <1>0, <1>2, <2>1, <2>2
<1>3. CASE StartAuth(p)
  BY <1>0, <1>3 DEF StartAuth, Return, Goto, LocalRecords
<1>4. CASE \/ AuthDevice(p) \/ StartAuthFails(p) \/ DropInstance(p) \/ RecordRequest(p) \/ Cleanup(p)
  BY <1>0, <1>4 DEF AuthDevice, StartAuthFails, DropInstance, RecordRequest, Cleanup, Return, Goto
<1>5. CASE \/ HandleAuthStart(p) \/ RefuseAuthStart(p) \/ HandleAuthChallenge(p)
           \/ ChallengeWithoutKey(p) \/ HandleExchangeRequest(p) \/ RefuseExchange(p)
           \/ HandleAuthConfirm(p) \/ HandleError(p)
  BY <1>0, <1>5 DEF HandleAuthStart, RefuseAuthStart, HandleAuthChallenge, ChallengeWithoutKey,
                    HandleExchangeRequest, RefuseExchange, HandleAuthConfirm, HandleError,
                    Receiving, Return, Goto
<1> QED
  BY <1>1, <1>2, <1>3, <1>4, <1>5 DEF ServiceStep

\* Outside the service a handler of the listener does not get further into it
\* than the lookup.
LEMMA HandlersMove ==
  ASSUME DmInv, [DmNext]_dmVars, NEW p \in MsgHandlers
  PROVE  \/ ServiceStep(p)
         \/ pc'[p] = pc[p] /\ local'[p] = local[p]
         \/ pc[p] \notin InService /\ pc'[p] \notin InService \ {"lookup"} /\ pc'[p] # "start"
<1>0. /\ ServiceInv /\ client \in [Users -> ClientRecords] /\ PairersPake
      /\ p \in Handlers /\ p \notin Dialers /\ p \notin Acceptors /\ pc \in [Handlers -> Labels]
  BY MsgFacts, CallerFacts DEF DmInv, DmTypeOK
<1>a. \A q \in MsgHandlers \cup Dialers \cup Acceptors : q \in Handlers
  BY MsgFacts, AuthSessionAssumption
<1>1. CASE CallerQuiet
  BY <1>0, <1>1 DEF CallerQuiet
<1>2. ASSUME NEW q \in Handlers, ServiceStep(q), q # p
      PROVE  pc'[p] = pc[p] /\ local'[p] = local[p]
  BY <1>0, <1>2, ServiceWork
<1>3. ASSUME NEW q \in MsgHandlers, ListenerMove(q), q # p
      PROVE  pc'[p] = pc[p] /\ local'[p] = local[p]
  BY <1>0, <1>3, ListenerEffect
<1>4. ASSUME ListenerMove(p)
      PROVE  pc[p] \notin InService /\ pc'[p] \notin InService \ {"lookup"} /\ pc'[p] # "start"
  <2>1. pc[p] \in {"idle", "reading", "createGroup", "addMember", "answer"}
    BY <1>0, <1>4, ListenerEffect
  <2>2. UNCHANGED pc \/ \E label \in {"createGroup", "addMember", "answer", "reading", "lookup"} :
                          pc' = [pc EXCEPT ![p] = label]
    BY <1>4 DEF ListenerMove, HandleNegotiate, HandleReqAuth, CreateGroup, AddMember,
                AnswerReqAuth, HandleHiChain, Accepted, Goto, procVars
  <2>3. pc'[p] \in {pc[p], "createGroup", "addMember", "answer", "reading", "lookup"}
    BY <1>0, <2>2
  <2> QED
    BY <2>1, <2>3 DEF InService
<1>5. ASSUME NEW q \in MsgHandlers \cup Acceptors, Disconnected(q)
      PROVE  \/ pc'[p] = pc[p] /\ local'[p] = local[p]
             \/ pc[p] \notin InService /\ pc'[p] \notin InService \ {"lookup"} /\ pc'[p] # "start"
  BY <1>0, <1>5, DisconnectedEffect DEF InService
<1>6. ASSUME NEW u \in Users, ClientStep(u) PROVE pc'[p] = pc[p] /\ local'[p] = local[p]
  BY <1>0, <1>6, ClientFacts DEF clientFrame, procVars
<1>7. ASSUME NEW e \in Pairers \cup PakeEnds, Close(e) PROVE pc'[p] = pc[p] /\ local'[p] = local[p]
  BY <1>0, <1>7, CloseFacts DEF clientFrame, procVars
<1> QED
  BY <1>a, <1>1, <1>2, <1>3, <1>4, <1>5, <1>6, <1>7, StepCases

\* An instance of the listener that has completed is left alone.
LEMMA CompletedStays ==
  ASSUME DmInv, PairInv, IdsApart, [DmNext]_dmVars,
         NEW d \in Devices, NEW h \in DOMAIN handles[d],
         handles[d][h].cb.conn \in MsgHandlers, handles[d][h].state = "completed"
  PROVE  h \in DOMAIN handles'[d] /\ handles'[d][h] = handles[d][h]
<1> DEFINE p == handles[d][h].cb.conn
<1>0. ServiceInv /\ Owned
  BY DEF DmInv
<1>1. h \in DOMAIN handles'[d]
  BY HandlesKept, SMTT(30) DEF KeepsHandles
<1>2. ASSUME NEW q \in MsgHandlers \cup Dialers \cup Acceptors, q \in Handlers, ServiceStep(q),
             d = DeviceOf[q], h = local[q].handle, pc[q] \in {"start", "receive"}
      PROVE  FALSE
  <2>1. HandleOf(q).cb.conn = p
    BY <1>2 DEF HandleOf
  <2>2. q = p
    BY <1>0, <1>2, <2>1, OnlyOwn
  <2>3. Frozen(d, h)
    BY DEF PairInv
  <2> QED
    BY <1>2, <2>2, <2>3 DEF Frozen
<1>3. CASE UNCHANGED serviceVars
  BY <1>1, <1>3 DEF serviceVars
<1> QED
  BY <1>0, <1>1, <1>2, <1>3, TablesMove, ServiceRevises

\* An instance of the listener completes when its own handler takes the
\* exchange request or a confirmation.
LEMMA NewlyCompleted ==
  ASSUME DmInv, IdsApart, [DmNext]_dmVars,
         NEW d \in Devices, NEW h \in DOMAIN handles'[d], NEW p \in MsgHandlers,
         handles'[d][h].cb.conn = p, handles'[d][h].state = "completed",
         ~(h \in DOMAIN handles[d] /\ handles[d][h].state = "completed")
  PROVE  /\ HandleExchangeRequest(p) \/ HandleAuthConfirm(p)
         /\ d = DeviceOf[p] /\ h = local[p].handle /\ h \in DOMAIN handles[d]
<1>0. ServiceInv /\ Owned
  BY DEF DmInv
<1>1. ~UNCHANGED serviceVars
  BY DEF serviceVars
<1>2. PICK q \in Handlers : q \in MsgHandlers \cup Dialers \cup Acceptors /\ ServiceStep(q)
  BY <1>1, TablesMove
<1>3. h \in DOMAIN handles[d]
  <2>1. ASSUME h \notin DOMAIN handles[d] PROVE FALSE
    <3>1. Created(q, d, h)
      BY <1>0, <1>2, <2>1, HandlesGrow
    <3> QED
      BY <3>1 DEF Created, NewHandle
  <2> QED
    BY <2>1
<1>4. /\ d = DeviceOf[q] /\ h = local[q].handle /\ pc[q] \in {"start", "receive"}
      /\ handles[d][h] = HandleOf(q)
      /\ Revises(q, handles[d][h], handles'[d][h])
  BY <1>0, <1>2, <1>3, ServiceRevises
<1>5. handles[d][h].cb = handles'[d][h].cb
  BY <1>3, HandlesKept DEF KeepsHandles
<1>6. q = p
  BY <1>0, <1>2, <1>4, <1>5, OnlyOwn, SMTT(30)
<1>7. Completes(p, handles[d][h], handles'[d][h])
  BY <1>3, <1>4, <1>6 DEF Revises, Touches, DerivesKey
<1> QED
  BY <1>3, <1>4, <1>6, <1>7 DEF Completes

LEMMA FrozenKept ==
  ASSUME DmInv, IdsApart, [DmNext]_dmVars,
         NEW d \in Devices, NEW h \in DOMAIN handles[d], handles[d][h].cb.conn \in MsgHandlers,
         Frozen(d, h)
  PROVE  Frozen(d, h)'
<1>0. ServiceInv /\ Owned
  BY DEF DmInv
<1>1. PICK p \in MsgHandlers : p = handles[d][h].cb.conn
  OBVIOUS
<1>2. /\ p \in Handlers /\ DeviceOf[p] = d
      /\ handles[d] \in Seq(HandleRecords) /\ handles[d][h].key = FdOf[p]
      /\ h # Len(handles[d]) + 1
  <2>1. handles[d] \in Seq(HandleRecords) /\ handles[d][h].cb \in CallbacksOf(d)
    BY <1>0 DEF ServiceInv, TypeOK, Filed
  <2>2. h \in 1 .. Len(handles[d]) /\ Len(handles[d]) \in Nat
    BY <2>1, LenProperties
  <2> QED
    BY <1>0, <1>1, <2>1, <2>2, MsgFacts DEF CallbacksOf, Owned, OwnHandles
<1>3. handles'[d][h].cb.conn = p
  BY <1>1, HandlesKept DEF KeepsHandles
<1>4. /\ pc[p] \in {"start", "receive"} => local[p].handle # h
      /\ FdOf[p] \in DOMAIN instances[d] /\ instances[d][FdOf[p]] = h =>
           pc[p] = "cleanup" /\ local[p].handle = h
  BY <1>1 DEF Frozen
<1>5. OwnWork(p) /\ OwnWork(p)'
  BY <1>2, OwnedInv DEF DmInv, Owned
<1>6. ASSUME pc'[p] \in {"start", "receive"} PROVE local'[p].handle # h
  <2>1. CASE pc'[p] = pc[p] /\ local'[p] = local[p]
    BY <1>4, <1>6, <2>1
  <2>2. CASE ServiceStep(p)
    <3>1. pc'[p] = "receive"
      BY <1>1, <1>5, <1>6 DEF OwnWork
    <3>2. CASE CreateInstance(p) /\ local'[p].handle = Len(handles[DeviceOf[p]]) + 1
      BY <1>2, <3>2
    <3>3. CASE Lookup(p) /\ local[p].key \in DOMAIN instances[DeviceOf[p]]
               /\ local'[p].handle = instances[DeviceOf[p]][local[p].key]
      <4>1. pc[p] = "lookup"
        BY <3>3, SMTT(30) DEF Lookup
      <4>2. local[p].key = FdOf[p]
        BY <1>1, <1>5, <4>1 DEF OwnWork, InService
      <4> QED
        BY <1>2, <1>4, <3>3, <4>1, <4>2
    <3> QED
      BY <1>0, <1>2, <2>2, <3>1, <3>2, <3>3, ServiceComesTo, SMTT(30)
  <2> QED
    BY <1>6, <2>1, <2>2, HandlersMove DEF InService
<1>7. ASSUME FdOf[p] \in DOMAIN instances'[d], instances'[d][FdOf[p]] = h
      PROVE  pc'[p] = "cleanup" /\ local'[p].handle = h
  <2>1. FdOf[p] \in DOMAIN instances[d] /\ instances[d][FdOf[p]] = h
    <3>1. CASE UNCHANGED serviceVars
      BY <1>7, <3>1 DEF serviceVars
    <3>2. ASSUME NEW q \in Handlers, ServiceStep(q)
          PROVE  FdOf[p] \in DOMAIN instances[d] /\ instances[d][FdOf[p]] = h
      <4>1. ~Created(q, d, h)
        BY <1>2 DEF Created
      <4> QED
        BY <1>0, <1>7, <3>2, <4>1, ServiceInstances
    <3> QED
      BY <3>1, <3>2, TablesMove
  <2>2. pc[p] = "cleanup" /\ local[p].handle = h
    BY <1>4, <2>1
  <2>3. ~ServiceStep(p)
    <3>1. ASSUME Cleanup(p) PROVE FALSE
      <4>1. HandleOf(p).key = FdOf[p]
        BY <1>2, <2>2 DEF HandleOf
      <4>2. instances' = [instances EXCEPT ![d] = Del(@, FdOf[p])]
        BY <1>2, <3>1, <4>1 DEF Cleanup, DelInstance
      <4>3. DOMAIN instances = Devices
        BY <1>0 DEF ServiceInv, TypeOK
      <4>4. instances'[d] = Del(instances[d], FdOf[p])
        BY <4>2, <4>3
      <4> QED
        BY <1>7, <4>4 DEF Del
    <3> QED
      BY <1>0, <1>2, <2>2, <3>1, ServiceComesTo
  <2> QED
    BY <2>2, <2>3, HandlersMove DEF InService
<1> QED
  BY <1>3, <1>6, <1>7 DEF Frozen

LEMMA CompletedInv ==
  ASSUME DmInv, PairInv, IdsApart, [DmNext]_dmVars,
         NEW d \in Devices, NEW h \in DOMAIN handles'[d],
         handles'[d][h].cb.conn \in MsgHandlers, handles'[d][h].state = "completed"
  PROVE  Frozen(d, h)'
<1>0. ServiceInv /\ Owned
  BY DEF DmInv
<1>1. PICK p \in MsgHandlers : p = handles'[d][h].cb.conn
  OBVIOUS
<1>3. CASE h \in DOMAIN handles[d] /\ handles[d][h].state = "completed"
  <2>1. handles[d][h].cb = handles'[d][h].cb
    BY <1>3, HandlesKept DEF KeepsHandles
  <2>2. Frozen(d, h)
    BY <1>3, <2>1 DEF PairInv
  <2> QED
    BY <1>3, <2>1, <2>2, FrozenKept
<1>4. CASE ~(h \in DOMAIN handles[d] /\ handles[d][h].state = "completed")
  <2>1. /\ HandleExchangeRequest(p) \/ HandleAuthConfirm(p)
        /\ d = DeviceOf[p] /\ h = local[p].handle /\ h \in DOMAIN handles[d]
    BY <1>1, <1>4, NewlyCompleted, SMTT(30)
  <2>2. pc[p] = "receive" /\ UNCHANGED local /\ pc' = [pc EXCEPT ![p] = "cleanup"]
    BY <2>1 DEF HandleExchangeRequest, HandleAuthConfirm, Receiving, Goto
  <2>3. p \in Handlers /\ pc'[p] = "cleanup"
    BY <1>0, <2>2, MsgFacts, CallerFacts
  <2> QED
    BY <1>1, <2>1, <2>2, <2>3, ZenonT(40) DEF Frozen
<1> QED
  BY <1>3, <1>4

LEMMA FinishedKept ==
  ASSUME DmInv, PairInv, IdsApart, [DmNext]_dmVars, NEW u \in Pairers, NEW k, Finished(u, k)
  PROVE  Finished(u, k)'
<1> DEFINE p == Peer[PakeEnd[u]]
           d == DeviceOf[p]
<1>1. PICK h \in HandlesOf(u) : HandleAt(u, h).state = "completed" /\ HandleAt(u, h).sessionKey = k
  BY DEF Finished
<1>2. p \in MsgHandlers /\ d \in Devices
  BY PairerFacts, MsgFacts
<1>3. /\ h \in DOMAIN handles[d] /\ handles[d][h].cb.conn = p
      /\ handles[d][h].state = "completed" /\ handles[d][h].sessionKey = k
  BY <1>1 DEF HandlesOf, HandleAt
<1>4. h \in DOMAIN handles'[d] /\ handles'[d][h] = handles[d][h]
  BY <1>2, <1>3, CompletedStays
<1> QED
  BY <1>3, <1>4 DEF Finished, HandlesOf, HandleAt

\* An exchange is answered when it is completed, and under a key that the
\* device at the other end has derived: the proof the handler has in hand is
\* that of the session key, which begins with a nonce of the instance.
LEMMA SentFinished ==
  ASSUME DmInv, IdsApart, [DmNext]_dmVars, NEW u \in Pairers, NEW m,
         Sends(PakeEnd[u], m), m.type = "ExchangeResponse"
  PROVE  Finished(u, m.proof)' /\ m.proof # None /\ Derived(m.proof)'
<1> DEFINE p == Peer[PakeEnd[u]]
           d == DeviceOf[p]
<1>0. ServiceInv /\ Owned /\ p \in MsgHandlers /\ d \in Devices /\ PakeEnd[u] \in Ends
  BY PairerFacts, MsgFacts DEF DmInv
<1>1. SentByService(PakeEnd[u], m)
  BY DEF Sends, SentByListener, SentByDevice, ClientSends
<1>2. PICK q \in Handlers :
        /\ q \in MsgHandlers \cup Dialers \cup Acceptors
        /\ pc[q] \in {"start", "receive"} /\ Sent(q, m) /\ PakeEnd[u] = Peer[HandleOf(q).cb.conn]
  BY <1>1 DEF SentByService
<1>3. HandleExchangeRequest(q) /\ m.proof = HandleOf(q).sessionKey
  BY <1>2 DEF Sent
<1>4. HandleOf(q).cb.conn = p
  <2>1. HandleOf(q).cb.conn \in Ends
    BY <1>0, <1>2, HandleInHand DEF CallbacksOf, Callbacks, Ends
  <2> QED
    BY <1>2, <2>1, HiChainAssumption
<1>5. q = p
  BY <1>0, <1>2, <1>4, OnlyOwn, ZenonT(40)
<1> DEFINE h == local[p].handle
           r == [HandleOf(p) EXCEPT !.state = "completed"]
<1>6. /\ h \in 1 .. Len(handles[d]) /\ handles[d] \in Seq(HandleRecords) /\ HandleOf(p) \in HandleRecords
  BY <1>0, <1>2, <1>5, HandleInHand
<1>7. h \in DOMAIN handles[d] /\ handles \in [Devices -> Seq(HandleRecords)]
  BY <1>0, <1>6, LenProperties DEF ServiceInv, TypeOK
<1>8. handles' = [handles EXCEPT ![d][h] = r]
  BY <1>3, <1>5 DEF HandleExchangeRequest, SetHandle
<1>9. r.state = "completed" /\ r.sessionKey = m.proof /\ r.cb.conn = p
  BY <1>3, <1>4, <1>5, <1>6 DEF HandleRecords
<1> HIDE DEF r
<1>10. h \in DOMAIN handles'[d] /\ handles'[d][h] = r
  BY <1>0, <1>7, <1>8
<1>11. m.proof # None /\ Derived(m.proof)
  <2>1. pc[p] = "receive" /\ m.proof # None /\ m.proof = local[p].msg.proof
    BY <1>3, <1>5 DEF HandleExchangeRequest, Receiving, ProofMatches
  <2>2. ProofKnown(m.proof)
    BY <1>0, <2>1, MsgFacts DEF DmInv, KeysKnown, Carries, InService
  <2>3. m.proof = handles[d][h].sessionKey
    BY <1>3, <1>5 DEF HandleOf
  <2>4. MadeBy(d, h, m.proof[1])
    BY <1>0, <1>7, <2>1, <2>3 DEF DmInv, KeysKnown
  <2> QED
    BY <2>1, <2>2, <2>4, MadeNotWrong DEF ProofKnown
<1>12. Derived(m.proof)'
  BY <1>11, KnowledgeGrows, SMTT(30)
<1> HIDE DEF h
<1> QED
  BY <1>9, <1>10, <1>11, <1>12 DEF Finished, HandlesOf, HandleAt

LEMMA ResponsesFinished ==
  ASSUME DmInv, PairInv, IdsApart, [DmNext]_dmVars, NEW u \in Pairers
  PROVE  /\ \A m \in Wire(PakeEnd[u])' :
              m.type = "ExchangeResponse" => Finished(u, m.proof)' /\ m.proof # None /\ Derived(m.proof)'
         /\ client'[u].state = "done" => Finished(u, client[u].key)'
<1>0. u \in Users /\ PakeEnd[u] \in Ends
  BY PairerFacts
<1>1. /\ \A m \in Wire(PakeEnd[u]) :
           m.type = "ExchangeResponse" => Finished(u, m.proof) /\ m.proof # None /\ Derived(m.proof)
      /\ client[u].state = "done" => Finished(u, client[u].key)
  BY DEF PairInv
<1>2. ASSUME NEW m \in Wire(PakeEnd[u])', m.type = "ExchangeResponse"
      PROVE  Finished(u, m.proof)' /\ m.proof # None /\ Derived(m.proof)'
  <2>1. CASE m \in Wire(PakeEnd[u])
    BY <1>1, <1>2, <2>1, FinishedKept, KnowledgeGrows
  <2>2. CASE m \notin Wire(PakeEnd[u])
    <3>1. PICK f \in Ends : \E x : Posts(f, x) /\ Sends(f, x)
      BY <1>0, <1>2, <2>2, NetMoves DEF Quiet
    <3>2. PICK x : Posts(f, x) /\ Sends(f, x)
      BY <3>1
    <3>3. PakeEnd[u] = f /\ m = x
      BY <1>0, <1>2, <2>2, <3>2 DEF Posts
    <3> QED
      BY <1>2, <3>2, <3>3, SentFinished
  <2> QED
    BY <2>1, <2>2
<1>3. ASSUME client'[u].state = "done" PROVE Finished(u, client[u].key)'
  <2>1. client'[u].key = client[u].key /\ Finished(u, client[u].key)
    <3>1. CASE client'[u] = client[u]
      BY <1>1, <1>3, <3>1
    <3>2. CASE client'[u] # client[u]
      <4>1. PICK v \in Users : ClientMoves(v)
        BY <3>2, ClientsMove
      <4>2. v = u
        BY <1>0, <3>2, <4>1 DEF ClientMoves
      <4> QED
        BY <1>1, <1>3, <4>1, <4>2 DEF ClientMoves, DoneChange
    <3> QED
      BY <3>1, <3>2
  <2>2. PICK k : k = client[u].key
    OBVIOUS
  <2>3. Finished(u, k)'
    BY <2>1, <2>2, FinishedKept
  <2> QED
    BY <2>1, <2>2, <2>3
<1> QED
  BY <1>2, <1>3

\* The request id recorded under the fd of a listener's connection is the one
\* of the message in hand.
Recorded(p) ==
  /\ FdOf[p] \in DOMAIN dmRequestIds[DeviceOf[p]]
  /\ dmRequestIds[DeviceOf[p]][FdOf[p]] = local[p].msg.req

LEMMA OthersIds ==
  ASSUME DmInv, IdsApart, [DmNext]_dmVars, NEW p \in MsgHandlers, ~ServiceStep(p),
         FdOf[p] \in DOMAIN dmRequestIds[DeviceOf[p]]
  PROVE  /\ FdOf[p] \in DOMAIN dmRequestIds'[DeviceOf[p]]
         /\ dmRequestIds'[DeviceOf[p]][FdOf[p]] = dmRequestIds[DeviceOf[p]][FdOf[p]]
<1> DEFINE d == DeviceOf[p]
           fd == FdOf[p]
<1>0. ServiceInv /\ Owned /\ p \in Handlers /\ d \in Devices /\ DOMAIN dmRequestIds = Devices
  BY MsgFacts DEF DmInv, ServiceInv, TypeOK
<1>1. CASE UNCHANGED serviceVars
  BY <1>1 DEF serviceVars
<1>2. ASSUME NEW q \in Handlers, q \in MsgHandlers \cup Dialers \cup Acceptors, ServiceStep(q)
      PROVE  fd \in DOMAIN dmRequestIds'[d] /\ dmRequestIds'[d][fd] = dmRequestIds[d][fd]
  <2>1. DeviceOf[q] = d => local[q].key # fd
    <3>1. OwnWork(q) /\ pc[q] \in InService \cup {"auth", "start"}
      BY <1>0, <1>2, ServiceWork DEF Owned
    <3>2. CASE q \in MsgHandlers
      BY <1>0, <1>2, <3>1, <3>2, SameFd DEF OwnWork
    <3>3. CASE q \in Dialers \cup Acceptors
      BY <3>1, <3>3 DEF OwnWork, IdsApart
    <3> QED
      BY <1>2, <3>2, <3>3
  <2>2. ASSUME NEW e \in Devices, NEW k, NEW req, e = d => k # fd,
               \/ dmRequestIds' = [dmRequestIds EXCEPT ![e] = Del(@, k)]
               \/ dmRequestIds' = [dmRequestIds EXCEPT ![e] = Put(@, k, req)]
        PROVE  fd \in DOMAIN dmRequestIds'[d] /\ dmRequestIds'[d][fd] = dmRequestIds[d][fd]
    <3>1. CASE e # d
      BY <1>0, <2>2, <3>1
    <3>2. CASE e = d
      <4>1. dmRequestIds'[d] \in {Del(dmRequestIds[d], k), Put(dmRequestIds[d], k, req)}
        BY <1>0, <2>2, <3>2
      <4> QED
        BY <2>2, <3>2, <4>1 DEF Del, Put
    <3> QED
      BY <3>1, <3>2
  <2>3. DeviceOf[q] \in Devices
    BY HiChainAssumption
  <2>4. \/ UNCHANGED dmRequestIds
        \/ dmRequestIds' = [dmRequestIds EXCEPT ![DeviceOf[q]] = Del(@, local[q].key)]
        \/ \E req \in Nat :
             dmRequestIds' = [dmRequestIds EXCEPT ![DeviceOf[q]] = Put(@, local[q].key, req)]
    BY <1>0, <1>2, ServiceTables
  <2>5. CASE UNCHANGED dmRequestIds
    BY <2>5
  <2>6. CASE dmRequestIds' = [dmRequestIds EXCEPT ![DeviceOf[q]] = Del(@, local[q].key)]
    BY <2>1, <2>2, <2>3, <2>6
  <2>7. ASSUME NEW req, dmRequestIds' = [dmRequestIds EXCEPT ![DeviceOf[q]] = Put(@, local[q].key, req)]
        PROVE  fd \in DOMAIN dmRequestIds'[d] /\ dmRequestIds'[d][fd] = dmRequestIds[d][fd]
    BY <2>1, <2>2, <2>3, <2>7
  <2> QED
    BY <2>4, <2>5, <2>6, <2>7
<1> QED
  BY <1>1, <1>2, TablesMove

LEMMA RecordedInv ==
  ASSUME DmInv, PairInv, IdsApart, [DmNext]_dmVars, NEW p \in MsgHandlers,
         pc'[p] \in {"create", "receive"}, local'[p].msg.type = "PakeRequest"
  PROVE  Recorded(p)'
<1> DEFINE d == DeviceOf[p]
<1>0. ServiceInv /\ Owned /\ p \in Handlers /\ d \in Devices /\ DOMAIN dmRequestIds = Devices
  BY MsgFacts DEF DmInv, ServiceInv, TypeOK
<1>1. CASE ServiceStep(p)
  <2>1. local'[p].msg = local[p].msg
    BY <1>0, <1>1, ServiceWork
  <2>2. CASE CreateInstance(p)
    <3>1. pc[p] = "create" /\ UNCHANGED dmRequestIds
      BY <2>2 DEF CreateInstance
    <3> QED
      BY <2>1, <3>1 DEF PairInv, Recorded
  <2>3. CASE RecordRequest(p)
    <3>1. pc[p] = "record"
      BY <2>3 DEF RecordRequest
    <3>2. local[p].key = FdOf[p]
      BY <1>0, <3>1 DEF Owned, OwnWork, InService
    <3>3. local[p].msg.req # None
      <4>1. Asked(p, local[p].msg)
        BY <3>1 DEF DmInv, GrantsKnown, InService
      <4> QED
        BY <2>1, <4>1 DEF Asked
    <3>4. dmRequestIds' = [dmRequestIds EXCEPT ![d] = Put(@, FdOf[p], local[p].msg.req)]
      BY <2>3, <3>2, <3>3 DEF RecordRequest
    <3>5. dmRequestIds'[d] = Put(dmRequestIds[d], FdOf[p], local[p].msg.req)
      BY <1>0, <3>4
    <3>6. FdOf[p] \in DOMAIN dmRequestIds'[d] /\ dmRequestIds'[d][FdOf[p]] = local[p].msg.req
      BY <3>5 DEF Put
    <3> QED
      BY <2>1, <3>6 DEF Recorded
  <2> QED
    BY <1>0, <1>1, <2>1, <2>2, <2>3, ServiceComesTo DEF PakeRequest
<1>2. CASE ~ServiceStep(p)
  <2>1. pc'[p] = pc[p] /\ local'[p] = local[p]
    BY <1>2, HandlersMove DEF InService
  <2>2. Recorded(p)
    BY <2>1 DEF PairInv, Recorded
  <2> QED
    BY <1>2, <2>1, <2>2, OthersIds DEF Recorded
<1> QED
  BY <1>1, <1>2

LEMMA PairStepInv ==
  ASSUME DmInv, PairInv, IdsApart, [DmNext]_dmVars PROVE PairInv'
<1>1. ASSUME NEW d \in Devices, NEW h \in DOMAIN handles'[d],
             handles'[d][h].cb.conn \in MsgHandlers, handles'[d][h].state = "completed"
      PROVE  Frozen(d, h)'
  BY <1>1, CompletedInv
<1> QED
  BY <1>1, ResponsesFinished, RecordedInv DEF PairInv, Recorded

\* With DmInv in every state, PairInv holds as long as the ids of sessions keep
\* away from the fds.
LEMMA PairInvariance == DmSpec /\ []IdsApart => [](DmInv /\ PairInv)
<1>1. DmInit => DmInv /\ PairInv
  <2>1. ASSUME DmInit PROVE PairInv
    <3>1. /\ \A p \in Handlers : pc[p] = "idle"
          /\ \A d \in Devices : DOMAIN handles[d] = {}
          /\ \A e \in Ends : Wire(e) = {}
          /\ \A u \in Users : client[u].state = "start"
      <4>1. DOMAIN <<>> = {}
        BY EmptySeq
      <4> QED
        BY <2>1, <4>1 DEF DmInit, SessionInit, HiChainInit, Wire
    <3> QED
      BY <3>1, PairerFacts, MsgFacts DEF PairInv
  <2> QED
    BY <2>1, InitDmInv
<1>2. DmInv /\ PairInv /\ IdsApart /\ [DmNext]_dmVars => (DmInv /\ PairInv)'
  BY DmStepInv, PairStepInv
<1> QED
  BY <1>1, <1>2, PTL DEF DmSpec

\* A key reaches the caller, and an exchange is answered, only under a key the
\* device at the other end has derived with the right PIN, whatever it confirms
\* or gives up in between: handleAuthConfirm completes an instance without a
\* look at its key, but the instance is gone before another message finds it.
THEOREM PinAlwaysProved == DmSpec /\ []IdsApart => []PinProved
<1>1. ASSUME DmInv, PairInv PROVE ExchangesProved
  <2>1. ASSUME NEW u \in Pairers, NEW m \in Wire(PakeEnd[u]), m.type = "ExchangeResponse"
        PROVE  m.proof \in client[u].keys
    <3> DEFINE d == DeviceOf[Peer[PakeEnd[u]]]
               k == m.proof
    <3>1. Finished(u, k) /\ k # None /\ Derived(k)
      BY <1>1, <2>1 DEF PairInv
    <3>2. PICK h \in HandlesOf(u) : HandleAt(u, h).sessionKey = k
      BY <3>1 DEF Finished
    <3>3. d \in Devices /\ h \in DOMAIN handles[d]
      BY PairerFacts, MsgFacts DEF HandlesOf
    <3>4. KeysKnown
      BY <1>1, SMTT(30) DEF DmInv
    <3>5. MadeBy(d, h, k[1])
      BY <3>1, <3>2, <3>3, <3>4 DEF KeysKnown, HandleAt
    <3> QED
      BY <3>1, <3>4, <3>5, KeyOwner
  <2> QED
    BY <2>1 DEF ExchangesProved
<1>2. DmInv /\ PairInv => ExchangesProved
  BY <1>1
<1> QED
  BY <1>2, PairInvariance, KeysAlwaysProved, PTL DEF PinProved

\* A device that takes the pairing as done is not alone: an instance of its
\* connection has completed with the same key, whatever was lost or repeated.
THEOREM KeysAlwaysAgree == DmSpec /\ []IdsApart => []KeyAgreement
<1>1. PairInv => KeyAgreement
  BY DEF PairInv, KeyAgreement, Finished
<1> QED
  BY <1>1, PairInvariance, PTL

\* The two connections of a device agree on the request id, across whatever
\* requests the handlers of others record meanwhile: PAKE is refused for want
\* of a context only after the connection of the request was closed.
THEOREM GrantAlwaysHolds == DmSpec /\ []IdsApart => []GrantHolds
<1>1. ASSUME DmInv, PairInv, NEW u \in Pairers,
             pc[Peer[PakeEnd[u]]] = "receive",
             local[Peer[PakeEnd[u]]].msg.type = "PakeRequest",
             u \in open
      PROVE  HasContext(DeviceOf[Peer[PakeEnd[u]]], HandleOf(Peer[PakeEnd[u]]).key)
  <2> DEFINE p == Peer[PakeEnd[u]]
             d == DeviceOf[p]
             fd == FdOf[Peer[u]]
  <2>0. /\ p \in MsgHandlers /\ p \in Handlers /\ d \in Devices /\ u \in Users
        /\ d = DeviceOf[Peer[u]] /\ ServiceInv
    BY <1>1, PairerFacts, MsgFacts DEF DmInv
  <2>1. HandleOf(p).key = FdOf[p]
    BY <1>1, <2>0, HandleInHand DEF DmInv, Owned, OwnWork, InService
  <2>2. RequestIdOf(d, FdOf[p]) = local[p].msg.req
    BY <1>1, <2>0 DEF PairInv, RequestIdOf
  <2>3. PICK v \in Pairers : p = Peer[PakeEnd[v]] /\ client[v].req # None /\ local[p].msg.req = client[v].req
    BY <1>1, <2>0 DEF DmInv, GrantsKnown, InService, Asked
  <2>4. v = u
    <3>1. PakeEnd[v] = PakeEnd[u]
      BY <2>3, PairerFacts
    <3> QED
      BY <3>1, DmAuthAssumption
  <2>5. client[u].req # None /\ client[u].req = fd
    BY <1>1, <2>0, <2>3, <2>4 DEF DmInv, GrantsKnown
  <2>6. fd \in DOMAIN contexts[d]
    BY <1>1, <2>0, <2>5 DEF DmInv, GrantsKnown, Answered, HasGrant
  <2>7. contexts[d][fd].req = fd
    BY <2>0, <2>6, CallerFacts
  <2> QED
    BY <2>1, <2>2, <2>3, <2>4, <2>5, <2>6, <2>7 DEF HasContext
<1>2. DmInv /\ PairInv => GrantHolds
  BY <1>1 DEF GrantHolds
<1> QED
  BY <1>2, PairInvariance, PTL

-----------------------------------------------------------------------------
(* When the ids of sessions keep away from the fds                         *)

\* The ids of sessions come after InitialSeq.
NumbersAbove ==
  \A d \in Devices :
    /\ seqCounter[d] >= InitialSeq
    /\ \A s \in DOMAIN sessions[d] : s > InitialSeq

LEMMA NumbersAboveInv ==
  ASSUME DmInv, [DmNext]_dmVars, NumbersAbove PROVE NumbersAbove'
<1>0. /\ ServiceInv /\ client \in [Users -> ClientRecords] /\ PairersPake
      /\ seqCounter \in [Devices -> Nat] /\ InitialSeq \in Nat
      /\ \A p \in MsgHandlers \cup Dialers \cup Acceptors : p \in Handlers /\ DeviceOf[p] \in Devices
  BY CallerFacts, MsgFacts, AuthSessionAssumption, HiChainAssumption DEF DmInv, DmTypeOK
<1>1. CASE UNCHANGED <<sessions, seqCounter>>
  BY <1>1 DEF NumbersAbove
<1>2. ASSUME NEW p \in MsgHandlers \cup Dialers \cup Acceptors, ServiceStep(p), UNCHANGED seqCounter
      PROVE  NumbersAbove'
  <2>1. \A d \in Devices : DOMAIN sessions'[d] = DOMAIN sessions[d]
    BY <1>0, <1>2, ServiceSessions DEF KeepsSessions
  <2> QED
    BY <1>2, <2>1 DEF NumbersAbove
<1>3. ASSUME NEW e \in Devices, DialFails(e) PROVE NumbersAbove'
  <2>1. sessions' = sessions /\ seqCounter' = [seqCounter EXCEPT ![e] = @ + 1]
    BY <1>3 DEF DialFails, hichainVars, callerVars
  <2>2. \A d \in Devices : seqCounter'[d] >= seqCounter[d] /\ seqCounter[d] \in Nat /\ seqCounter'[d] \in Nat
    BY <1>0, <2>1
  <2> QED
    BY <1>0, <2>1, <2>2 DEF NumbersAbove
<1>4. ASSUME NEW p \in Dialers \cup Acceptors, NEW server \in BOOLEAN, NEW state \in {"sync", "auth"},
             seqCounter' = [seqCounter EXCEPT ![DeviceOf[p]] = @ + 1],
             NewSession(p, seqCounter[DeviceOf[p]] + 1, server, state)
      PROVE  NumbersAbove'
  <2>1. /\ \A d \in Devices : seqCounter'[d] >= seqCounter[d] /\ seqCounter[d] \in Nat /\ seqCounter'[d] \in Nat
    BY <1>0, <1>4
  <2>2. \A d \in Devices : \A s \in DOMAIN sessions'[d] \ DOMAIN sessions[d] : s = seqCounter[d] + 1
    BY <1>0, <1>4, NewSessionInv
  <2>3. ASSUME NEW d \in Devices, NEW s \in DOMAIN sessions'[d] PROVE s > InitialSeq
    <3>1. CASE s \in DOMAIN sessions[d]
      BY <3>1 DEF NumbersAbove
    <3>2. CASE s \notin DOMAIN sessions[d]
      BY <1>0, <2>1, <2>2, <2>3, <3>2 DEF NumbersAbove
    <3> QED
      BY <3>1, <3>2
  <2> QED
    BY <1>0, <2>1, <2>3 DEF NumbersAbove
<1>5. ASSUME [SessionNext]_sessionVars PROVE NumbersAbove'
  <2>1. CASE UNCHANGED sessionVars
    BY <1>1, <2>1 DEF sessionVars, hichainVars, callerVars
  <2>2. ASSUME NEW p \in Dialers, Connected(p) PROVE NumbersAbove'
    BY <1>4, <2>2 DEF Connected
  <2>3. ASSUME NEW p \in Dialers \cup Acceptors, ReadSdk(p) PROVE NumbersAbove'
    BY <1>1, <1>4, <2>3 DEF ReadSdk
  <2>4. ASSUME NEW p \in Dialers \cup Acceptors, Route(p) PROVE NumbersAbove'
    <3>1. UNCHANGED seqCounter /\ DOMAIN sessions = Devices
      BY <1>0, <2>4, CallerFacts, ZenonT(40) DEF Route
    <3>2. \/ UNCHANGED sessions
          \/ \E s : sessions' = [sessions EXCEPT ![DeviceOf[p]][s].state = "auth"]
      BY <2>4 DEF Route, callerVars
    <3>3. \A d \in Devices : DOMAIN sessions'[d] = DOMAIN sessions[d]
      BY <1>0, <3>1, <3>2
    <3> QED
      BY <3>1, <3>3 DEF NumbersAbove
  <2>5. ASSUME NEW p \in Dialers \cup Acceptors, RouteNowhere(p) \/ Accepted(p) \/ Break(p)
        PROVE  NumbersAbove'
    BY <1>1, <2>5 DEF RouteNowhere, Accepted, Break, callerVars
  <2> QED
    BY <1>2, <1>3, <1>5, <2>1, <2>2, <2>3, <2>4, <2>5 DEF SessionNext, SessionStep
<1>6. ASSUME NEW p \in MsgHandlers, ListenerStep(p) PROVE NumbersAbove'
  BY <1>1, <1>2, <1>6
     DEF ListenerStep, HandleNegotiate, HandleReqAuth, CreateGroup, AddMember, AnswerReqAuth,
         HandleHiChain, Accepted, callerVars
<1>7. ASSUME NEW p \in MsgHandlers \cup Acceptors, Disconnected(p) PROVE NumbersAbove'
  BY <1>1, <1>7 DEF Disconnected
<1>8. ASSUME NEW u \in Users, ClientStep(u) PROVE NumbersAbove'
  BY <1>0, <1>1, <1>8, ClientFacts DEF clientFrame, callerVars
<1>9. ASSUME NEW e \in Pairers \cup PakeEnds, Close(e) PROVE NumbersAbove'
  BY <1>0, <1>1, <1>9, CloseFacts DEF clientFrame, callerVars
<1> QED
  BY <1>5, <1>6, <1>7, <1>8, <1>9, StepKinds

\* An AUTH_MSG connection whose fd is not past InitialSeq, or on a device that
\* has no connection of another one that runs dsoftbus-go.
NeverMeet ==
  \A p \in MsgHandlers :
    \/ FdOf[p] <= InitialSeq
    \/ \A q \in Dialers \cup Acceptors : DeviceOf[q] # DeviceOf[p]

\* Where the fds of HarmonyOS devices and the ids of sessions cannot meet, no
\* session ever has such an fd as its id, and every theorem above that supposes
\* IdsApart holds of all behaviours.
THEOREM IdsStayApart == NeverMeet /\ DmSpec => []IdsApart
<1> DEFINE Inv == DmInv /\ NeverMeet /\ NumbersAbove
<1>1. ASSUME DmInit PROVE NumbersAbove
  <2>1. /\ \A d \in Devices : DOMAIN sessions[d] = {} /\ seqCounter[d] = InitialSeq
        /\ InitialSeq \in Nat
    BY <1>1, AuthSessionAssumption DEF DmInit, SessionInit, HiChainInit, EmptyMap
  <2> QED
    BY <2>1 DEF NumbersAbove
<1>2. NeverMeet /\ DmInit => Inv
  BY <1>1, InitDmInv
<1>3. Inv /\ [DmNext]_dmVars => Inv'
  <2>1. NeverMeet => NeverMeet'
    BY DEF NeverMeet
  <2> QED
    BY <2>1, DmStepInv, NumbersAboveInv
<1>4. ASSUME DmInv, NeverMeet, NumbersAbove PROVE IdsApart
  <2>1. ASSUME NEW p \in MsgHandlers, FdOf[p] \in DOMAIN sessions[DeviceOf[p]] PROVE FALSE
    <3> DEFINE d == DeviceOf[p]
               r == sessions[d][FdOf[p]]
    <3>1. d \in Devices /\ FdOf[p] \in Nat /\ InitialSeq \in Nat /\ ServiceInv
      BY <1>4, MsgFacts, AuthSessionAssumption DEF DmInv
    <3>2. r.conn \in Dialers \cup Acceptors
      <4>1. r \in SessionRecords
        BY <2>1, <3>1, CallerFacts DEF IsMap
      <4> QED
        BY <4>1 DEF SessionRecords
    <3>3. DeviceOf[r.conn] = d
      BY <2>1, <3>1, CallerFacts DEF Numbered
    <3>4. FdOf[p] > InitialSeq
      BY <1>4, <2>1, <3>1 DEF NumbersAbove
    <3> QED
      BY <1>4, <3>1, <3>2, <3>3, <3>4 DEF NeverMeet
  <2> QED
    BY <2>1 DEF IdsApart
<1>5. Inv => IdsApart
  BY <1>4
<1> HIDE DEF Inv
<1> QED
  BY <1>2, <1>3, <1>5, PTL DEF DmSpec
=============================================================================
