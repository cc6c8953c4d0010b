------------------------ MODULE AuthLifecycleProofs ------------------------
(***************************************************************************)
(* The layers of the authentication module are up together or down         *)
(* together, for any number of overlapping calls of AuthDeviceInit and     *)
(* AuthDeviceDeinit and any connections.                                   *)
(***************************************************************************)
EXTENDS AuthLifecycle, FiniteSetTheorems, TLAPS

\* A manager that AuthConnInit makes has a generation of its own to bear.
LEMMA NextGeneration ==
  ASSUME NEW done \in SUBSET Inits, NEW p \in Inits \ done
  PROVE  Cardinality(done) + 1 \in Generations
<1>1. IsFiniteSet(Inits) /\ IsFiniteSet(done)
  BY LifecycleAssumption, FS_Subset
<1>2. Cardinality(done) \in Nat /\ Cardinality(Inits) \in Nat
  BY <1>1, FS_CardinalityType
<1>3. Cardinality(done) < Cardinality(Inits)
  <2>1. done \subseteq Inits \ {p} /\ IsFiniteSet(Inits \ {p})
    BY <1>1, FS_RemoveElement
  <2>2. Cardinality(Inits \ {p}) = Cardinality(Inits) - 1
    BY <1>1, FS_RemoveElement
  <2>3. Cardinality(done) <= Cardinality(Inits \ {p})
    BY <2>1, FS_Subset
  <2> QED
    BY <1>2, <2>2, <2>3
<1> QED
  BY <1>2, <1>3 DEF Generations

LEMMA InitLifecycleInv ==
  ASSUME Init PROVE LifecycleInv
<1> USE LifecycleAssumption DEF Init
<1>1. TypeOK
  BY DEF TypeOK, Labels, Procs, Callers, Conns
<1>2. MappedLate
  BY DEF MappedLate
<1>3. LockHeld
  BY DEF LockHeld, Holding, Procs
<1>4. \A p \in Callers : StageOf(p)
  BY DEF StageOf, Procs
<1>5. LayersAgree
  BY DEF LayersAgree, InSync
<1> QED
  BY <1>1, <1>2, <1>3, <1>4, <1>5 DEF LifecycleInv

-----------------------------------------------------------------------------
(* Steps of connections                                                    *)

\* A connection has no part in the locks and flags of the layers.
ConnAction(c) == Open(c) \/ Accept(c) \/ Packet(c) \/ PeerCloses(c) \/ ConnStep(c)

LEMMA ConnLeavesLayers ==
  ASSUME NEW c \in Conns, ConnAction(c)
  PROVE  /\ UNCHANGED <<serviceMu, globalMu, layerVars, targets>>
         /\ \/ UNCHANGED pc
            \/ \E label \in Labels : pc' = [pc EXCEPT ![c] = label]
         /\ \/ UNCHANGED mine
            \/ mine' = [mine EXCEPT ![c] = current]
BY DEF ConnAction, ConnStep, Open, Accept, Packet, PeerCloses, Store, Request, Dial, OpenFailed,
       Connected, Insert, Result, Start, Unlock, Lookup, Deliver, DeliverSession, ReadFails,
       Forget, Unmap, Goto, Fetch, locks, layerVars, callerFrame, Labels

LEMMA ConnKeepsStages ==
  ASSUME LifecycleInv, NEW c \in Conns, ConnAction(c)
  PROVE  LockHeld' /\ (\A p \in Callers : StageOf(p)') /\ LayersAgree'
<1>1. /\ UNCHANGED <<serviceMu, current, initialized, sessionInit, deviceAuth>>
      /\ \A p \in Callers : pc'[p] = pc[p] /\ mine'[p] = mine[p]
  <2>1. \A p \in Callers : p # c
    BY LifecycleAssumption
  <2> QED
    BY <2>1, ConnLeavesLayers DEF LifecycleInv, TypeOK, Procs, layerVars
<1>2. LockHeld'
  BY <1>1 DEF LifecycleInv, LockHeld
<1>3. ASSUME NEW p \in Callers PROVE StageOf(p)'
  BY <1>1 DEF LifecycleInv, StageOf, InSync
<1>4. LayersAgree'
  BY <1>1 DEF LifecycleInv, LayersAgree, InSync
<1> QED
  BY <1>2, <1>3, <1>4

LEMMA ConnKeepsTypes ==
  ASSUME LifecycleInv, NEW c \in Conns, ConnAction(c)
  PROVE  TypeOK' /\ MappedLate'
<1> USE LifecycleAssumption DEF TypeOK, MappedLate, LifecycleInv
<1>1. c \in Procs /\ c \notin Callers
  BY DEF Procs
<1>2. pc' \in [Procs -> Labels] /\ mine' \in [Procs -> Generations \cup {None}]
  BY <1>1, ConnLeavesLayers
<1>3. UNCHANGED <<serviceMu, globalMu, current, initialized, sessionInit, deviceAuth, targets>>
  BY ConnLeavesLayers DEF layerVars
<1>4. /\ managerMu' \in [Generations -> Clients \cup {None}]
      /\ table' \in [Generations -> SUBSET Conns]
      /\ sockets' \subseteq Conns /\ sessions' \subseteq Conns
  BY <1>1 DEF ConnAction, ConnStep, Open, Accept, Packet, PeerCloses, Store, Request, Dial, OpenFailed,
       Connected, Insert, Result, Start, Unlock, Lookup, Deliver, DeliverSession, ReadFails,
       Forget, Unmap, StartSession, Enter, Leave, locks, serviceVars, netVars
<1>5. managers' \subseteq Conns /\ mapped' \subseteq managers'
  BY <1>1 DEF ConnAction, ConnStep, Open, Accept, Packet, PeerCloses, Store, Request, Dial, OpenFailed,
       Connected, Insert, Result, Start, Unlock, Lookup, Deliver, DeliverSession, ReadFails,
       Forget, Unmap, serviceVars, Unreported
<1>6. /\ mapped' \subseteq mapped \cup {c}
      /\ c \in mapped' => c \in mapped \/ pc[c] \in {"result", "deliver"}
  BY DEF ConnAction, ConnStep, Open, Accept, Packet, PeerCloses, Store, Request, Dial, OpenFailed,
       Connected, Insert, Result, Start, Unlock, Lookup, Deliver, DeliverSession, ReadFails,
       Forget, Unmap, serviceVars
<1>7. c \notin mapped' \/ pc'[c] \notin Unreported
  BY <1>1, <1>6 DEF ConnAction, ConnStep, Open, Accept, Packet, PeerCloses, Store, Request, Dial, OpenFailed,
       Connected, Insert, Result, Start, Unlock, Lookup, Deliver, DeliverSession, ReadFails,
       Forget, Unmap, serviceVars, Unreported, Goto
<1>8. MappedLate'
  <2>1. \A b \in Conns \ {c} : pc'[b] = pc[b]
    BY <1>1, ConnLeavesLayers DEF Procs
  <2> QED
    BY <2>1, <1>6, <1>7
<1> QED
  BY <1>2, <1>3, <1>4, <1>5, <1>8

-----------------------------------------------------------------------------
(* Steps of callers                                                        *)

LEMMA ConnInitGeneration ==
  ASSUME LifecycleInv, NEW p \in Callers, ConnInit(p)
  PROVE  current' \in Generations
<1> DEFINE done == {q \in Inits : pc[q] = "done"}
<1>1. p \in Inits \ done
  BY DEF LifecycleInv, ConnInit, StageOf
<1>2. Cardinality(done) + 1 \in Generations
  BY <1>1, NextGeneration
<1> QED
  BY <1>2 DEF ConnInit

\* Where a caller is, its type and what it holds change for itself only.
LEMMA CallerKeepsTypes ==
  ASSUME LifecycleInv, NEW p \in Callers, CallerStep(p)
  PROVE  TypeOK' /\ MappedLate'
<1> USE LifecycleAssumption DEF TypeOK, LifecycleInv
<1>1. p \in Procs /\ p \notin Conns
  BY DEF Procs
<1>2. /\ pc' \in [Procs -> Labels]
      /\ \A c \in Conns : pc'[c] = pc[c]
  <2>1. \E label \in Labels : pc' = [pc EXCEPT ![p] = label]
    BY DEF CallerStep, Begin, FetchManager, Disconnect, Relock, ConnDeinit, Snapshot, DropNext, Drop,
         Dropped, Down, Up, ConnInit, Goto, Labels
  <2> QED
    BY <1>1, <2>1 DEF Procs
<1>3. mine' \in [Procs -> Generations \cup {None}]
  BY <1>1 DEF CallerStep, Begin, FetchManager, Disconnect, Relock, ConnDeinit, Snapshot, DropNext, Drop,
       Dropped, Down, Up, ConnInit, Fetch
<1>4. /\ serviceMu' \in Callers \cup {None}
      /\ globalMu' \in Callers \cup {None}
      /\ managerMu' = managerMu
      /\ initialized' \in BOOLEAN /\ sessionInit' \in BOOLEAN /\ deviceAuth' \in BOOLEAN
  BY DEF CallerStep, Begin, FetchManager, Disconnect, Relock, ConnDeinit, Snapshot, DropNext, Drop,
       Dropped, Down, Up, ConnInit, locks, layerVars
<1>5. /\ managers' \subseteq Conns /\ mapped' \subseteq managers'
      /\ mapped' \subseteq mapped /\ sessions' \subseteq Conns
  BY DEF CallerStep, Begin, FetchManager, Disconnect, Relock, ConnDeinit, Snapshot, DropNext, Drop,
       Dropped, Down, Up, ConnInit, serviceVars
<1>6. current' \in Generations \cup {None}
  <2>1. CASE ConnInit(p)
    BY <2>1, ConnInitGeneration
  <2>2. CASE ~ConnInit(p)
    BY <2>2 DEF CallerStep, Begin, FetchManager, Disconnect, Relock, ConnDeinit, Snapshot, DropNext, Drop,
       Dropped, Down, Up, layerVars
  <2> QED
    BY <2>1, <2>2
<1>7. targets' \in [Callers -> SUBSET Conns]
  BY <1>1 DEF CallerStep, Begin, FetchManager, Disconnect, Relock, ConnDeinit, Snapshot, DropNext, Drop,
       Dropped, Down, Up, ConnInit, StageOf
<1>8. table' \in [Generations -> SUBSET Conns] /\ sockets' \subseteq Conns
  BY DEF CallerStep, Begin, FetchManager, Disconnect, Relock, ConnDeinit, Snapshot, DropNext, Drop,
       Dropped, Down, Up, ConnInit, netVars, Leave
<1>9. MappedLate'
  BY <1>2, <1>5 DEF MappedLate
<1> QED
  BY <1>2, <1>3, <1>4, <1>5, <1>6, <1>7, <1>8, <1>9

LEMMA CallerKeepsLock ==
  ASSUME LifecycleInv, NEW p \in Callers, CallerStep(p)
  PROVE  /\ LockHeld'
         /\ \A q \in Callers \ {p} : pc'[q] = pc[q] /\ mine'[q] = mine[q]
         /\ pc[p] \in Holding \/ serviceMu = None \/ (UNCHANGED layerVars /\ UNCHANGED serviceMu)
<1> USE LifecycleAssumption DEF TypeOK, LifecycleInv
<1>1. p \in Procs /\ Callers \subseteq Procs
  BY DEF Procs
<1>2. \A q \in Callers \ {p} : pc'[q] = pc[q] /\ mine'[q] = mine[q]
  BY <1>1 DEF CallerStep, Begin, FetchManager, Disconnect, Relock, ConnDeinit, Snapshot, DropNext, Drop,
       Dropped, Down, Up, ConnInit, Goto, Fetch
<1>3. LockHeld'
  BY <1>1, <1>2 DEF CallerStep, Begin, FetchManager, Disconnect, Relock, ConnDeinit, Snapshot, DropNext, Drop,
       Dropped, Down, Up, ConnInit, Goto, locks, LockHeld, Holding
<1>4. pc[p] \in Holding \/ serviceMu = None \/ (UNCHANGED layerVars /\ UNCHANGED serviceMu)
  BY DEF CallerStep, Begin, FetchManager, Disconnect, Relock, ConnDeinit, Snapshot, DropNext, Drop,
       Dropped, Down, Up, ConnInit, locks, Holding
<1> QED
  BY <1>2, <1>3, <1>4

\* Only the caller inside service.mu changes a layer; it finds them as it or
\* the caller before it left them.
LEMMA CallerKeepsStages ==
  ASSUME LifecycleInv, NEW p \in Callers, CallerStep(p)
  PROVE  (\A q \in Callers : StageOf(q)') /\ LayersAgree'
<1> USE LifecycleAssumption DEF LifecycleInv
<1>1. p \in Procs /\ p # None
  BY DEF Procs
<1>2. StageOf(p)
  OBVIOUS
<1>3. StageOf(p)'
  BY <1>1, <1>2 DEF CallerStep, Begin, FetchManager, Disconnect, Relock, ConnDeinit, Snapshot, DropNext, Drop,
       Dropped, Down, Up, ConnInit, Goto, locks, layerVars, StageOf, InSync, TypeOK, LayersAgree
<1>4. ASSUME NEW q \in Callers, q # p PROVE StageOf(q)'
  <2>1. pc'[q] = pc[q] /\ mine'[q] = mine[q]
    BY <1>4, CallerKeepsLock
  <2>2. CASE pc[q] \notin Holding
    BY <2>1, <2>2 DEF StageOf, Holding
  <2>3. CASE pc[q] \in Holding
    <3>1. serviceMu = q /\ q # None /\ pc[p] \notin Holding
      BY <2>3, <1>4 DEF LockHeld, Procs
    <3>2. UNCHANGED layerVars
      BY <3>1, CallerKeepsLock
    <3> QED
      BY <2>1, <3>2 DEF StageOf, InSync, layerVars
  <2> QED
    BY <2>2, <2>3
<1>5. LayersAgree'
  <2>1. CASE Begin(p) \/ FetchManager(p) \/ Disconnect(p) \/ DropNext(p) \/ Dropped(p)
    BY <2>1 DEF Begin, FetchManager, Disconnect, Drop, DropNext, Dropped, locks, layerVars,
                LayersAgree, InSync
  <2>2. CASE Relock(p) \/ ConnDeinit(p) \/ Snapshot(p) \/ Up(p)
    <3>1. serviceMu' = p
      BY <2>2 DEF Relock, ConnDeinit, Snapshot, Up, LockHeld, Holding, locks
    <3> QED
      BY <3>1, <1>1 DEF LayersAgree
  <2>3. CASE Down(p)
    BY <2>3, <1>1, <1>2 DEF Down, StageOf, LayersAgree, InSync
  <2>4. CASE ConnInit(p)
    <3>1. current' # None
      BY <2>4, ConnInitGeneration DEF Generations
    <3> QED
      BY <2>4, <3>1, <1>2 DEF ConnInit, StageOf, LayersAgree, InSync
  <2> QED
    BY <2>1, <2>2, <2>3, <2>4 DEF CallerStep
<1> QED
  BY <1>3, <1>4, <1>5

-----------------------------------------------------------------------------

LEMMA NextLifecycleInv ==
  ASSUME LifecycleInv, [Next]_vars PROVE LifecycleInv'
<1>1. ASSUME NEW p \in Callers, CallerStep(p) PROVE LifecycleInv'
  BY <1>1, CallerKeepsTypes, CallerKeepsLock, CallerKeepsStages DEF LifecycleInv
<1>2. ASSUME NEW c \in Conns, ConnAction(c) PROVE LifecycleInv'
  BY <1>2, ConnKeepsTypes, ConnKeepsStages DEF LifecycleInv
<1>3. CASE UNCHANGED vars
  <2>1. TypeOK' /\ MappedLate' /\ LockHeld' /\ LayersAgree'
    BY <1>3 DEF LifecycleInv, vars, locks, layerVars, serviceVars, netVars, TypeOK, MappedLate,
                LockHeld, LayersAgree, InSync
  <2>2. ASSUME NEW p \in Callers PROVE StageOf(p)'
    BY <1>3 DEF LifecycleInv, vars, layerVars, StageOf, InSync
  <2> QED
    BY <2>1, <2>2 DEF LifecycleInv
<1> QED
  BY <1>1, <1>2, <1>3 DEF Next, ConnAction

\* The caller inside service.mu, of whom there is one at most, knows which
\* layers AuthDeviceInit and AuthDeviceDeinit have taken down or brought up.
THEOREM LifecycleInvariance == Spec => []LifecycleInv
<1> QED
  BY InitLifecycleInv, NextLifecycleInv, PTL DEF Spec

\* The locks, flags and tables have the types of the code.
THEOREM LifecycleTypeCorrect == Spec => []TypeOK
<1>1. LifecycleInv => TypeOK
  BY DEF LifecycleInv
<1> QED
  BY <1>1, LifecycleInvariance, PTL

\* Between two calls the service, the session manager, device_auth and the
\* connection manager are all up or all down: deinitInternal, which gives
\* service.mu up in the middle, leaves no mixture behind.
THEOREM LayersAlwaysAgree == Spec => []LayersAgree
<1>1. LifecycleInv => LayersAgree
  BY DEF LifecycleInv
<1> QED
  BY <1>1, LifecycleInvariance, PTL

\* AuthConnInit finds no manager that it would replace.
THEOREM ManagerNeverReplaced == Spec => NeverReplaced
<1>1. ASSUME LifecycleInv, [Next]_vars
      PROVE  [current # None => current' \in {current, None}]_current
  <2>1. ASSUME NEW p \in Callers, CallerStep(p), current # None
        PROVE  current' \in {current, None}
    <3>1. StageOf(p)
      BY <1>1 DEF LifecycleInv
    <3> QED
      BY <2>1, <3>1 DEF CallerStep, Begin, FetchManager, Disconnect, Relock, ConnDeinit, Snapshot, DropNext, Drop,
       Dropped, Down, Up, ConnInit, layerVars, StageOf
  <2>2. ASSUME NEW c \in Conns, ConnAction(c) PROVE current' = current
    BY <2>2, ConnLeavesLayers DEF layerVars
  <2> QED
    BY <1>1, <2>1, <2>2 DEF Next, ConnAction, vars, layerVars
<1> QED
  BY <1>1, LifecycleInvariance, PTL DEF Spec, NeverReplaced
=============================================================================
