-------------------------- MODULE BusCenterProofs --------------------------
(***************************************************************************)
(* Proofs about AuthConn and about BusCenter, which is a user of it.       *)
(***************************************************************************)
EXTENDS BusCenter, TLAPS

-----------------------------------------------------------------------------
(* The invariants of AuthConn hold for any number of goroutines.           *)
(*                                                                         *)
(* IInv is inductive.  Its core is that a virtual fd is handed out once:   *)
(* FdsUnique and RecordedOnce say that a new connection is in no table,    *)
(* and GivenOnce that no manager and no closing goroutine holds its        *)
(* connId, so inserting it disturbs nobody.  On top of it TableInv follows *)
(* a connection through its goroutine, for FinishedForgotten and the       *)
(* refinement of ConnLifecycle, and RequestInv a request from the open     *)
(* call to the connection that takes it, for MatchedHasManager.            *)

USE DEF Dialers, Procs, Owners, Goto, MuFree

-----------------------------------------------------------------------------
(* Go maps keep the types of their keys and values.                        *)

LEMMA PutIsMap ==
    ASSUME NEW K, NEW V, NEW m, IsMap(m, K, V), NEW k \in K, NEW v \in V
    PROVE  IsMap(Put(m, k, v), K, V)
  BY DEF IsMap, Put

LEMMA DelIsMap ==
    ASSUME NEW K, NEW V, NEW m, IsMap(m, K, V), NEW k
    PROVE  IsMap(Del(m, k), K, V)
  BY DEF IsMap, Del

LEMMA EmptyIsMap ==
    ASSUME NEW K, NEW V PROVE IsMap(EmptyMap, K, V)
  BY DEF IsMap, EmptyMap

-----------------------------------------------------------------------------

(* Setting one field of one goroutine's local variables sets that field and *)
(* nothing else.                                                           *)
LEMMA SetFd ==
    ASSUME TypeOK, NEW p \in Procs, NEW v \in Nat, local' = [local EXCEPT ![p].fd = v]
    PROVE  /\ local' \in [Procs -> Locals]
           /\ local'[p].fd = v
           /\ \A q \in Procs : q # p => local'[q] = local[q]
           /\ \A q \in Procs : /\ local'[q].conn = local[q].conn
                               /\ local'[q].authId = local[q].authId
                               /\ local'[q].req = local[q].req
  BY DEF TypeOK, Locals

LEMMA SetAuthId ==
    ASSUME TypeOK, NEW p \in Procs, NEW v \in Nat, local' = [local EXCEPT ![p].authId = v]
    PROVE  /\ local' \in [Procs -> Locals]
           /\ local'[p].authId = v
           /\ \A q \in Procs : q # p => local'[q] = local[q]
           /\ \A q \in Procs : /\ local'[q].conn = local[q].conn
                               /\ local'[q].fd = local[q].fd
                               /\ local'[q].req = local[q].req
  BY DEF TypeOK, Locals

LEMMA SetConn ==
    ASSUME TypeOK, NEW p \in Procs, NEW v \in ConnIds \cup {None},
           local' = [local EXCEPT ![p].conn = v]
    PROVE  /\ local' \in [Procs -> Locals]
           /\ local'[p].conn = v
           /\ \A q \in Procs : q # p => local'[q] = local[q]
           /\ \A q \in Procs : /\ local'[q].fd = local[q].fd
                               /\ local'[q].authId = local[q].authId
                               /\ local'[q].req = local[q].req
  BY DEF TypeOK, Locals

(* A step that moves the program counter, and changes no table and no local *)
(* variable, keeps the invariant if it only leads away from the phases in   *)
(* which a connection is new.                                               *)
LEMMA PcStep ==
    ASSUME IInv, TypeOK', LocalsSet', LockKept',
           UNCHANGED <<managers, connIdToAuthId, connections, fdToConnId,
                       nextServerFd, nextClientFd, local>>,
           \A p \in Owners : (Unrecorded(p)' => Unrecorded(p)) /\ (Ungiven(p)' => Ungiven(p)),
           \A c \in Closers : pc'[c] = "disconnect" => pc[c] = "disconnect"
    PROVE  IInv'
<1>1. FdsUnique'
  BY DEF IInv, FdsUnique
<1>2. RecordedOnce'
  BY DEF IInv, RecordedOnce, Allocated
<1>3. GivenOnce'
  BY DEF IInv, GivenOnce, Given, Allocated
<1>4. TablesAgree' /\ ManagersMapped' /\ ClientManagerConnected'
  BY DEF IInv, TablesAgree, ManagersMapped, ClientManagerConnected
<1>5. ClientManagerKept'
  BY DEF IInv, ClientManagerKept
<1> QED
  BY <1>1, <1>2, <1>3, <1>4, <1>5 DEF IInv


-----------------------------------------------------------------------------
(* The steps that move only the program counter, as far as the tables are  *)
(* concerned.                                                              *)

LEMMA StoreRequestKeeps ==
    ASSUME IInv, NEW o \in Openers, StoreRequest(o) PROVE IInv'
<1> USE DEF StoreRequest, sockVars, svcVars, connVars, procVars
<1>1. TypeOK'
  <2>1. /\ RequestOf[o] \in Requests
        /\ [type |-> LinkTypeOf[o], start |-> clock] \in [type : LinkTypes, start : Nat]
    BY DEF IInv, TypeOK, Requests, LinkTypes
  <2>2. IsMap(requests', Requests, [type : LinkTypes, start : Nat])
    BY <2>1, PutIsMap DEF IInv, TypeOK
  <2> QED
    BY <2>2, AuthConnAssumption DEF IInv, TypeOK, Labels
<1>2. LocalsSet'
  BY AuthConnAssumption DEF IInv, TypeOK, LocalsSet
<1>3. LockKept'
  BY AuthConnAssumption DEF IInv, TypeOK, LockKept
<1> QED
  BY <1>1, <1>2, <1>3, PcStep, AuthConnAssumption DEF IInv, TypeOK, Unrecorded, Ungiven

LEMMA OpenChannelKeeps ==
    ASSUME IInv, NEW h \in ChannelOpeners, OpenChannel(h) PROVE IInv'
<1> USE DEF OpenChannel, sockVars, svcVars, connVars, procVars
<1>1. TypeOK'
  BY AuthConnAssumption DEF IInv, TypeOK, Labels
<1>2. LocalsSet'
  BY AuthConnAssumption DEF IInv, TypeOK, LocalsSet
<1>3. LockKept'
  BY AuthConnAssumption DEF IInv, TypeOK, LockKept
<1> QED
  BY <1>1, <1>2, <1>3, PcStep, AuthConnAssumption DEF IInv, TypeOK, Unrecorded, Ungiven

LEMMA DialFailKeeps ==
    ASSUME IInv, NEW d \in Dialers, DialFail(d) PROVE IInv'
<1> USE DEF DialFail, sockVars, svcVars, connVars, procVars
<1>1. TypeOK'
  BY AuthConnAssumption DEF IInv, TypeOK, Labels
<1>2. LocalsSet'
  BY AuthConnAssumption DEF IInv, TypeOK, LocalsSet
<1>3. LockKept'
  BY AuthConnAssumption DEF IInv, TypeOK, LockKept
<1> QED
  BY <1>1, <1>2, <1>3, PcStep, AuthConnAssumption DEF IInv, TypeOK, Unrecorded, Ungiven

LEMMA DropRequestKeeps ==
    ASSUME IInv, NEW o \in Openers, DropRequest(o) PROVE IInv'
<1> USE DEF DropRequest, sockVars, svcVars, connVars, procVars
<1>1. TypeOK'
  BY DelIsMap, AuthConnAssumption DEF IInv, TypeOK, Labels
<1>2. LocalsSet'
  BY AuthConnAssumption DEF IInv, TypeOK, LocalsSet
<1>3. LockKept'
  BY AuthConnAssumption DEF IInv, TypeOK, LockKept
<1> QED
  BY <1>1, <1>2, <1>3, PcStep, AuthConnAssumption DEF IInv, TypeOK, Unrecorded, Ungiven

LEMMA NoRequestKeeps ==
    ASSUME IInv, NEW d \in Dialers, NoRequest(d) PROVE IInv'
<1> USE DEF NoRequest, sockVars, svcVars, connVars, procVars
<1>1. TypeOK'
  BY AuthConnAssumption DEF IInv, TypeOK, Labels
<1>2. LocalsSet'
  BY AuthConnAssumption DEF IInv, TypeOK, LocalsSet
<1>3. LockKept'
  BY AuthConnAssumption DEF IInv, TypeOK, LockKept
<1> QED
  BY <1>1, <1>2, <1>3, PcStep, AuthConnAssumption DEF IInv, TypeOK, Unrecorded, Ungiven

LEMMA StartSessionKeeps ==
    ASSUME IInv, NEW d \in Dialers, StartSession(d) PROVE IInv'
<1> USE DEF StartSession, sockVars, svcVars, connVars, procVars
<1>1. TypeOK'
  <2>1. local[d].authId \in Nat
    BY DEF IInv, TypeOK, LocalsSet, Locals
  <2>2. /\ IsMap(sessions', Nat, SUBSET Results)
        /\ mu' \in Dialers \cup {None}
    <3>1. {} \in SUBSET Results /\ {"failed"} \in SUBSET Results
      BY DEF Results
    <3> QED
      BY <2>1, <3>1, PutIsMap DEF IInv, TypeOK
  <2> QED
    BY <2>2, AuthConnAssumption DEF IInv, TypeOK, Labels
<1>2. LocalsSet'
  BY AuthConnAssumption DEF IInv, TypeOK, LocalsSet
<1>3. LockKept'
  BY AuthConnAssumption DEF IInv, TypeOK, LockKept
<1> QED
  BY <1>1, <1>2, <1>3, PcStep, AuthConnAssumption DEF IInv, TypeOK, Unrecorded, Ungiven

LEMMA CloseChannelKeeps ==
    ASSUME IInv, NEW h \in ChannelOpeners, CloseChannel(h) PROVE IInv'
<1> USE DEF CloseChannel, sockVars, svcVars, connVars, procVars
<1>1. TypeOK'
  BY AuthConnAssumption DEF IInv, TypeOK, Labels
<1>2. LocalsSet'
  BY AuthConnAssumption DEF IInv, TypeOK, LocalsSet
<1>3. LockKept'
  BY AuthConnAssumption DEF IInv, TypeOK, LockKept
<1> QED
  BY <1>1, <1>2, <1>3, PcStep, AuthConnAssumption DEF IInv, TypeOK, Unrecorded, Ungiven

LEMMA GetConnInfoKeeps ==
    ASSUME IInv, NEW s \in Acceptors, GetConnInfo(s) PROVE IInv'
<1> USE DEF GetConnInfo, sockVars, svcVars, connVars, procVars
<1>1. TypeOK'
  BY AuthConnAssumption DEF IInv, TypeOK, Labels
<1>2. LocalsSet'
  BY AuthConnAssumption DEF IInv, TypeOK, LocalsSet
<1>3. LockKept'
  BY AuthConnAssumption DEF IInv, TypeOK, LockKept
<1> QED
  BY <1>1, <1>2, <1>3, PcStep, AuthConnAssumption DEF IInv, TypeOK, Unrecorded, Ungiven

LEMMA StartServerSessionKeeps ==
    ASSUME IInv, NEW s \in Acceptors, StartServerSession(s) PROVE IInv'
<1> USE DEF StartServerSession, sockVars, svcVars, connVars, procVars
<1>1. TypeOK'
  <2>1. local[s].authId \in Nat
    BY DEF IInv, TypeOK, LocalsSet, Locals
  <2>2. /\ IsMap(sessions', Nat, SUBSET Results)
        /\ mu' \in Dialers \cup {None}
    <3>1. {} \in SUBSET Results /\ {"failed"} \in SUBSET Results
      BY DEF Results
    <3> QED
      BY <2>1, <3>1, PutIsMap DEF IInv, TypeOK
  <2> QED
    BY <2>2, AuthConnAssumption DEF IInv, TypeOK, Labels
<1>2. LocalsSet'
  BY AuthConnAssumption DEF IInv, TypeOK, LocalsSet
<1>3. LockKept'
  BY AuthConnAssumption DEF IInv, TypeOK, LockKept
<1> QED
  BY <1>1, <1>2, <1>3, PcStep, AuthConnAssumption DEF IInv, TypeOK, Unrecorded, Ungiven

LEMMA StopListenerKeeps ==
    ASSUME IInv, NEW s \in Acceptors, StopListener(s) PROVE IInv'
<1> USE DEF StopListener, sockVars, svcVars, connVars, procVars
<1>1. TypeOK'
  BY AuthConnAssumption DEF IInv, TypeOK, Labels
<1>2. LocalsSet'
  BY AuthConnAssumption DEF IInv, TypeOK, LocalsSet
<1>3. LockKept'
  BY AuthConnAssumption DEF IInv, TypeOK, LockKept
<1> QED
  BY <1>1, <1>2, <1>3, PcStep, AuthConnAssumption DEF IInv, TypeOK, Unrecorded, Ungiven

LEMMA ReadFailsKeeps ==
    ASSUME IInv, NEW s \in Acceptors, ReadFails(s) PROVE IInv'
<1> USE DEF ReadFails, sockVars, svcVars, connVars, procVars
<1>1. TypeOK'
  BY AuthConnAssumption DEF IInv, TypeOK, Labels
<1>2. LocalsSet'
  BY AuthConnAssumption DEF IInv, TypeOK, LocalsSet
<1>3. LockKept'
  BY AuthConnAssumption DEF IInv, TypeOK, LockKept
<1> QED
  BY <1>1, <1>2, <1>3, PcStep, AuthConnAssumption DEF IInv, TypeOK, Unrecorded, Ungiven

LEMMA UnregisterKeeps ==
    ASSUME IInv, NEW s \in Acceptors, Unregister(s) PROVE IInv'
<1> USE DEF Unregister, sockVars, svcVars, connVars, procVars
<1>1. TypeOK'
  BY AuthConnAssumption DEF IInv, TypeOK, Labels
<1>2. LocalsSet'
  BY AuthConnAssumption DEF IInv, TypeOK, LocalsSet
<1>3. LockKept'
  BY AuthConnAssumption DEF IInv, TypeOK, LockKept
<1> QED
  BY <1>1, <1>2, <1>3, PcStep, AuthConnAssumption DEF IInv, TypeOK, Unrecorded, Ungiven

LEMMA CloseSocketKeeps ==
    ASSUME IInv, NEW c \in Closers, CloseSocket(c) PROVE IInv'
<1> USE DEF CloseSocket, sockVars, svcVars, connVars, procVars
<1>1. TypeOK'
  BY AuthConnAssumption DEF IInv, TypeOK, Labels
<1>2. LocalsSet'
  BY AuthConnAssumption DEF IInv, TypeOK, LocalsSet
<1>3. LockKept'
  BY AuthConnAssumption DEF IInv, TypeOK, LockKept
<1> QED
  BY <1>1, <1>2, <1>3, PcStep, AuthConnAssumption DEF IInv, TypeOK, Unrecorded, Ungiven

LEMMA NoManagerKeeps ==
    ASSUME IInv, NEW d \in Dialers, pc[d] = "result", NoManager(d) PROVE IInv'
<1> USE DEF NoManager, sockVars, svcVars, connVars, procVars
<1>1. TypeOK'
  BY AuthConnAssumption DEF IInv, TypeOK, Labels
<1>2. LocalsSet'
  BY AuthConnAssumption DEF IInv, TypeOK, LocalsSet
<1>3. LockKept'
  BY AuthConnAssumption DEF IInv, TypeOK, LockKept
<1> QED
  BY <1>1, <1>2, <1>3, PcStep, AuthConnAssumption DEF IInv, TypeOK, Unrecorded, Ungiven

LEMMA AuthDoneKeeps ==
    ASSUME IInv, NEW a \in DOMAIN sessions, NEW result \in Results, AuthDone(a, result)
    PROVE  IInv'
<1> USE DEF AuthDone, sockVars, svcVars, connVars, procVars
<1>1. TypeOK'
  <2>1. IsMap(sessions', Nat, SUBSET Results)
    BY DEF IInv, TypeOK, IsMap
  <2> QED
    BY <2>1, AuthConnAssumption DEF IInv, TypeOK, Labels
<1>2. LocalsSet'
  BY AuthConnAssumption DEF IInv, TypeOK, LocalsSet
<1>3. LockKept'
  BY AuthConnAssumption DEF IInv, TypeOK, LockKept
<1> QED
  BY <1>1, <1>2, <1>3, PcStep, AuthConnAssumption DEF IInv, TypeOK, Unrecorded, Ungiven

-----------------------------------------------------------------------------
(* The steps of an open call that change the table of managers.            *)

LEMMA OpenConnKeeps ==
    ASSUME IInv, NEW o \in Openers, OpenConn(o) PROVE IInv'
<1> USE DEF OpenConn, sockVars, connVars
<1>0. /\ local' \in [Procs -> Locals]
      /\ \A q \in Procs : local'[q].fd = local[q].fd /\ local'[q].conn = local[q].conn
      /\ local'[o].authId = nextAuthId
      /\ \A q \in Procs : q # o => local'[q] = local[q]
  BY SetAuthId DEF IInv, TypeOK
<1>1. TypeOK'
  <2>1. [req |-> RequestOf[o], conn |-> None, server |-> FALSE] \in Managers
    BY AuthConnAssumption DEF Managers
  <2>2. IsMap(managers', Nat, Managers)
    BY <2>1, PutIsMap DEF IInv, TypeOK
  <2> QED
    BY <1>0, <2>2, AuthConnAssumption DEF IInv, TypeOK, Labels
<1>2. LocalsSet' /\ FdsUnique'
  BY <1>0, AuthConnAssumption DEF IInv, TypeOK, LocalsSet, FdsUnique
<1>3. RecordedOnce' /\ TablesAgree'
  BY <1>0 DEF IInv, TypeOK, RecordedOnce, TablesAgree, Allocated, Unrecorded
<1>4. GivenOnce'
  BY <1>0 DEF IInv, TypeOK, GivenOnce, Given, Allocated, Ungiven, Unrecorded, Put
<1>5. ManagersMapped' /\ ClientManagerConnected'
  BY DEF IInv, TypeOK, ManagersMapped, ClientManagerConnected, Put
<1>6. LockKept'
  BY <1>0, AuthConnAssumption DEF IInv, TypeOK, LockKept
<1>7. ClientManagerKept'
  BY <1>0, AuthConnAssumption DEF IInv, TypeOK, ClientManagerKept, Put
<1> QED
  BY <1>1, <1>2, <1>3, <1>4, <1>5, <1>6, <1>7 DEF IInv

(* A step that only deletes managers and moves the program counter away    *)
(* from the phases in which a connection is new.                           *)
LEMMA ManagersShrink ==
    ASSUME IInv,
           \A a \in DOMAIN managers' : a \in DOMAIN managers /\ managers'[a] = managers[a],
           TypeOK', LocalsSet', LockKept',
           UNCHANGED <<connIdToAuthId, connections, fdToConnId,
                       nextServerFd, nextClientFd, local>>,
           \A p \in Owners : (Unrecorded(p)' => Unrecorded(p)) /\ (Ungiven(p)' => Ungiven(p)),
           \A c \in Closers : pc'[c] = "disconnect" => pc[c] = "disconnect"
    PROVE  IInv'
<1>1. FdsUnique'
  BY DEF IInv, FdsUnique
<1>2. RecordedOnce' /\ TablesAgree'
  BY DEF IInv, RecordedOnce, TablesAgree, Allocated
<1>3. GivenOnce'
  BY DEF IInv, GivenOnce, Given, Allocated
<1>4. ManagersMapped' /\ ClientManagerConnected'
  BY DEF IInv, ManagersMapped, ClientManagerConnected
<1>5. ClientManagerKept'
  BY DEF IInv, ClientManagerKept
<1> QED
  BY <1>1, <1>2, <1>3, <1>4, <1>5 DEF IInv

LEMMA ReportFailureKeeps ==
    ASSUME IInv, NEW o \in Openers, ReportFailure(o) PROVE IInv'
<1> USE DEF ReportFailure, sockVars, connVars
<1>1. \A a \in DOMAIN managers' : a \in DOMAIN managers /\ managers'[a] = managers[a]
  BY DEF Del
<1>2. IsMap(managers', Nat, Managers)
  BY DelIsMap DEF IInv, TypeOK
<1>3. TypeOK'
  BY <1>2, AuthConnAssumption DEF IInv, TypeOK, Labels
<1>4. LocalsSet' /\ LockKept'
  BY AuthConnAssumption DEF IInv, TypeOK, LocalsSet, LockKept
<1>5. \A p \in Owners : (Unrecorded(p)' => Unrecorded(p)) /\ (Ungiven(p)' => Ungiven(p))
  BY AuthConnAssumption DEF IInv, TypeOK, Unrecorded, Ungiven
<1>6. \A c \in Closers : pc'[c] = "disconnect" => pc[c] = "disconnect"
  BY AuthConnAssumption DEF IInv, TypeOK
<1> QED
  BY <1>1, <1>3, <1>4, <1>5, <1>6, ManagersShrink

LEMMA CleanupManagerKeeps ==
    ASSUME IInv, NEW o \in Openers, CleanupManager(o) PROVE IInv'
<1> USE DEF CleanupManager, sockVars, connVars
<1>1. \A a \in DOMAIN managers' : a \in DOMAIN managers /\ managers'[a] = managers[a]
  BY DEF Del
<1>2. TypeOK'
  BY DelIsMap, AuthConnAssumption DEF IInv, TypeOK, Labels
<1>3. LocalsSet' /\ LockKept'
  BY AuthConnAssumption DEF IInv, TypeOK, LocalsSet, LockKept
<1> QED
  BY <1>1, <1>2, <1>3, ManagersShrink, AuthConnAssumption
  DEF IInv, TypeOK, Unrecorded, Ungiven

-----------------------------------------------------------------------------
(* The steps that hand out a virtual fd.                                   *)

LEMMA DialOkKeeps ==
    ASSUME IInv, NEW d \in Dialers, DialOk(d) PROVE IInv'
<1> USE DEF DialOk, AllocateFd, svcVars, connVars
<1>0. /\ local' \in [Procs -> Locals]
      /\ local'[d].fd = nextClientFd
      /\ \A q \in Procs : q # d => local'[q] = local[q]
      /\ \A q \in Procs : local'[q].conn = local[q].conn /\ local'[q].authId = local[q].authId
  BY SetFd DEF IInv, TypeOK
<1>1. TypeOK'
  BY <1>0, AuthConnAssumption DEF IInv, TypeOK, Labels
<1>2. LocalsSet'
  BY <1>0, AuthConnAssumption DEF IInv, TypeOK, LocalsSet
<1>3. FdsUnique'
  <2>1. \A q \in Owners : local[q].fd # nextClientFd
    BY AuthConnAssumption DEF IInv, TypeOK, FdsUnique
  <2> QED
    BY <1>0, <2>1, AuthConnAssumption DEF IInv, TypeOK, FdsUnique, Locals
<1>4. RecordedOnce' /\ TablesAgree'
  BY <1>0, AuthConnAssumption
  DEF IInv, TypeOK, IsMap, FdsUnique, RecordedOnce, TablesAgree, Allocated, Unrecorded
<1>5. GivenOnce'
  <2>1. \A c \in ConnIds : Given(c) => Given(c)'
    BY <1>0, AuthConnAssumption
    DEF IInv, TypeOK, FdsUnique, Given, Allocated, Ungiven, Unrecorded, ConnIds
  <2>2. \A q \in Owners : local'[q].conn # None => local'[q].conn[2] = local'[q].fd
    BY <1>0, AuthConnAssumption DEF IInv, TypeOK, GivenOnce, LocalsSet, Locals, ConnIds
  <2> QED
    BY <1>0, <2>1, <2>2, AuthConnAssumption
    DEF IInv, TypeOK, IsMap, Managers, Locals, GivenOnce
<1>6. ManagersMapped' /\ ClientManagerConnected'
  BY DEF IInv, ManagersMapped, ClientManagerConnected
<1>7. LockKept' /\ ClientManagerKept'
  BY <1>0, AuthConnAssumption DEF IInv, TypeOK, LockKept, ClientManagerKept
<1> QED
  BY <1>1, <1>2, <1>3, <1>4, <1>5, <1>6, <1>7 DEF IInv

LEMMA AcceptKeeps ==
    ASSUME IInv, NEW s \in Acceptors, Accept(s) PROVE IInv'
<1> USE DEF Accept, AllocateFd, svcVars, connVars
<1>0. /\ local' \in [Procs -> Locals]
      /\ local'[s].fd = nextServerFd
      /\ \A q \in Procs : q # s => local'[q] = local[q]
      /\ \A q \in Procs : local'[q].conn = local[q].conn /\ local'[q].authId = local[q].authId
  BY SetFd DEF IInv, TypeOK
<1>1. TypeOK'
  BY <1>0, AuthConnAssumption DEF IInv, TypeOK, Labels
<1>2. LocalsSet'
  BY <1>0, AuthConnAssumption DEF IInv, TypeOK, LocalsSet
<1>3. FdsUnique'
  <2>1. \A q \in Owners : local[q].fd # nextServerFd
    BY AuthConnAssumption DEF IInv, TypeOK, FdsUnique
  <2>2. /\ ServerFdStart <= nextServerFd' /\ nextServerFd' <= ClientFdStart
        /\ ClientFdStart <= nextClientFd'
    BY AuthConnAssumption DEF IInv, TypeOK, FdsUnique
  <2>3. \A d \in Dialers : local'[d] = local[d]
    BY <1>0, AuthConnAssumption
  <2>4. \A q \in Acceptors : local'[q].fd # None =>
            ServerFdStart <= local'[q].fd /\ local'[q].fd < nextServerFd'
    BY <1>0, AuthConnAssumption DEF IInv, TypeOK, FdsUnique, Locals
  <2>5. \A q, r \in Owners : local'[q].fd # None /\ local'[q].fd = local'[r].fd => q = r
    BY <1>0, <2>1 DEF IInv, FdsUnique
  <2> QED
    BY <2>2, <2>3, <2>4, <2>5 DEF IInv, FdsUnique
<1>4. RecordedOnce' /\ TablesAgree'
  BY <1>0, AuthConnAssumption
  DEF IInv, TypeOK, IsMap, FdsUnique, RecordedOnce, TablesAgree, Allocated, Unrecorded
<1>5. GivenOnce'
  <2>1. \A c \in ConnIds : Given(c) => Given(c)'
    BY <1>0, AuthConnAssumption
    DEF IInv, TypeOK, FdsUnique, Given, Allocated, Ungiven, Unrecorded, ConnIds
  <2>2. \A q \in Owners : local'[q].conn # None => local'[q].conn[2] = local'[q].fd
    BY <1>0, AuthConnAssumption DEF IInv, TypeOK, GivenOnce, LocalsSet, Locals, ConnIds
  <2> QED
    BY <1>0, <2>1, <2>2, AuthConnAssumption
    DEF IInv, TypeOK, IsMap, Managers, Locals, GivenOnce
<1>6. ManagersMapped' /\ ClientManagerConnected'
  BY DEF IInv, ManagersMapped, ClientManagerConnected
<1>7. LockKept' /\ ClientManagerKept'
  BY <1>0, AuthConnAssumption DEF IInv, TypeOK, LockKept, ClientManagerKept
<1> QED
  BY <1>1, <1>2, <1>3, <1>4, <1>5, <1>6, <1>7 DEF IInv

-----------------------------------------------------------------------------
(* The steps that record a connection.                                     *)

LEMMA MatchRequestKeeps ==
    ASSUME IInv, NEW d \in Dialers, MatchRequest(d) PROVE IInv'
<1> USE DEF MatchRequest, InsertConn, svcVars, sockVars
<1>1. PICK r \in DOMAIN requests :
        LET c == GenConnId(requests[r].type, local[d].fd) IN
          /\ connections' = Put(connections, c, [fd |-> local[d].fd, server |-> FALSE])
          /\ fdToConnId' = Put(fdToConnId, local[d].fd, c)
          /\ local' = [local EXCEPT ![d].req = r, ![d].conn = c]
          /\ requests' = Del(requests, r)
  OBVIOUS
<1> DEFINE fd == local[d].fd
           c == GenConnId(requests[r].type, fd)
<1>2. fd \in Nat /\ r \in Nat /\ requests[r].type \in LinkTypes
  BY AuthConnAssumption, SMTT(30) DEF IInv, TypeOK, LocalsSet, Locals, IsMap, Requests
<1>3. c \in ConnIds /\ c[2] = fd
  BY <1>2 DEF GenConnId, ConnIds
<1>4. /\ connections' = Put(connections, c, [fd |-> fd, server |-> FALSE])
      /\ fdToConnId' = Put(fdToConnId, fd, c)
  BY <1>1
<1>5. /\ local' \in [Procs -> Locals]
      /\ local'[d].conn = c
      /\ local'[d].req # None
      /\ \A q \in Procs : q # d => local'[q] = local[q]
      /\ \A q \in Procs : local'[q].fd = local[q].fd /\ local'[q].authId = local[q].authId
  <2> HIDE DEF c
  <2> QED
    BY <1>1, <1>2, <1>3, AuthConnAssumption DEF IInv, TypeOK, Locals, c
<1>6. /\ fd \notin DOMAIN fdToConnId
      /\ c \notin DOMAIN connections
      /\ \A p \in Owners : p # d => local[p].fd # fd
  <2>1. fd \notin DOMAIN fdToConnId
    BY <1>2 DEF IInv, RecordedOnce, Unrecorded
  <2>2. c \notin DOMAIN connections
    BY <2>1, <1>3 DEF IInv, RecordedOnce, TablesAgree
  <2> QED
    BY <2>1, <2>2, <1>2, AuthConnAssumption DEF IInv, FdsUnique
<1>7. requests' = Del(requests, r)
  BY <1>1
<1> HIDE DEF c
<1>8. TypeOK'
  <2>1. [fd |-> fd, server |-> FALSE] \in Connections
    BY <1>2 DEF Connections
  <2>2. IsMap(connections', ConnIds, Connections)
    BY <2>1, <1>3, <1>4, PutIsMap DEF IInv, TypeOK
  <2>3. IsMap(fdToConnId', Nat, ConnIds)
    BY <1>2, <1>3, <1>4, PutIsMap DEF IInv, TypeOK
  <2>4. IsMap(requests', Requests, [type : LinkTypes, start : Nat])
    BY <1>7, DelIsMap DEF IInv, TypeOK
  <2> QED
    BY <1>5, <2>2, <2>3, <2>4, AuthConnAssumption DEF IInv, TypeOK, Labels
<1>9. LocalsSet' /\ FdsUnique'
  BY <1>3, <1>5, AuthConnAssumption DEF IInv, TypeOK, LocalsSet, FdsUnique
<1>10. RecordedOnce'
  BY <1>2, <1>3, <1>4, <1>5, <1>6, AuthConnAssumption
  DEF IInv, TypeOK, IsMap, FdsUnique, RecordedOnce, Allocated, Unrecorded, Put
<1>11. TablesAgree'
  BY <1>3, <1>4, <1>6, ZenonT(40) DEF IInv, TypeOK, IsMap, TablesAgree, Put
<1>12. GivenOnce'
  BY <1>3, <1>5, AuthConnAssumption
  DEF IInv, TypeOK, GivenOnce, Given, Allocated, Ungiven, Unrecorded
<1>13. ManagersMapped' /\ ClientManagerConnected'
  BY <1>4 DEF IInv, ManagersMapped, ClientManagerConnected, Put
<1>14. LockKept'
  <2>1. \A q \in Dialers : pc[q] \notin {"result", "session"}
    BY AuthConnAssumption DEF IInv, TypeOK, LockKept
  <2>2. c \in DOMAIN connections'
    BY <1>4 DEF Put
  <2> QED
    BY <1>5, <2>1, <2>2 DEF IInv, TypeOK, LockKept
<1>15. ClientManagerKept'
  BY <1>5, AuthConnAssumption DEF IInv, TypeOK, ClientManagerKept
<1> QED
  BY <1>8, <1>9, <1>10, <1>11, <1>12, <1>13, <1>14, <1>15 DEF IInv

LEMMA InsertServerConnKeeps ==
    ASSUME IInv, NEW s \in Acceptors, InsertServerConn(s) PROVE IInv'
<1> USE DEF InsertServerConn, InsertConn, svcVars, sockVars
<1> DEFINE fd == local[s].fd
           c == GenConnId(Wifi, fd)
<1>1. fd \in Nat /\ c \in ConnIds /\ c[2] = fd
  BY DEF IInv, TypeOK, LocalsSet, Locals, GenConnId, ConnIds, LinkTypes
<1>2. /\ connections' = Put(connections, c, [fd |-> fd, server |-> TRUE])
      /\ fdToConnId' = Put(fdToConnId, fd, c)
  OBVIOUS
<1>3. /\ fd \notin DOMAIN fdToConnId
      /\ c \notin DOMAIN connections
      /\ \A p \in Owners : p # s => local[p].fd # fd
  <2>1. fd \notin DOMAIN fdToConnId
    BY <1>1 DEF IInv, RecordedOnce, Unrecorded
  <2>2. c \notin DOMAIN connections
    BY <2>1, <1>1 DEF IInv, RecordedOnce, TablesAgree
  <2> QED
    BY <2>1, <2>2, <1>1, AuthConnAssumption DEF IInv, FdsUnique
<1> HIDE DEF c
<1>4. TypeOK'
  <2>1. [fd |-> fd, server |-> TRUE] \in Connections
    BY <1>1 DEF Connections
  <2>2. IsMap(connections', ConnIds, Connections)
    BY <2>1, <1>1, <1>2, PutIsMap DEF IInv, TypeOK
  <2>3. IsMap(fdToConnId', Nat, ConnIds)
    BY <1>1, <1>2, PutIsMap DEF IInv, TypeOK
  <2> QED
    BY <2>2, <2>3, AuthConnAssumption DEF IInv, TypeOK, Labels
<1>5. LocalsSet' /\ FdsUnique'
  BY AuthConnAssumption DEF IInv, TypeOK, LocalsSet, FdsUnique
<1>6. RecordedOnce'
  BY <1>1, <1>2, <1>3, AuthConnAssumption
  DEF IInv, TypeOK, IsMap, FdsUnique, RecordedOnce, Allocated, Unrecorded, Put
<1>7. TablesAgree'
  BY <1>1, <1>2, <1>3 DEF IInv, TypeOK, IsMap, TablesAgree, Put
<1>8. GivenOnce'
  BY AuthConnAssumption DEF IInv, TypeOK, GivenOnce, Given, Allocated, Ungiven, Unrecorded
<1>9. ManagersMapped' /\ ClientManagerConnected'
  BY <1>2 DEF IInv, ManagersMapped, ClientManagerConnected, Put
<1>10. LockKept' /\ ClientManagerKept'
  BY <1>2, AuthConnAssumption DEF IInv, TypeOK, LockKept, ClientManagerKept, Put
<1> QED
  BY <1>4, <1>5, <1>6, <1>7, <1>8, <1>9, <1>10 DEF IInv

-----------------------------------------------------------------------------
(* The steps that give a connection to a manager.                          *)

LEMMA ManagerFoundKeeps ==
    ASSUME IInv, NEW d \in Dialers, pc[d] = "result", ManagerFound(d) PROVE IInv'
<1> USE DEF ManagerFound, connVars, sockVars
<1>1. PICK a \in DOMAIN managers :
        /\ managers' = [managers EXCEPT ![a].conn = local[d].conn]
        /\ connIdToAuthId' = Put(connIdToAuthId, local[d].conn, a)
        /\ local' = [local EXCEPT ![d].authId = a]
  OBVIOUS
<1>0. PICK c : c = local[d].conn
  OBVIOUS
<1>2. /\ a \in Nat
      /\ managers[a] \in Managers
      /\ c \in ConnIds
      /\ c[2] = local[d].fd /\ local[d].fd \in Nat
  BY <1>0, AuthConnAssumption, SMTT(30) DEF IInv, TypeOK, IsMap, LocalsSet, Locals, GivenOnce
<1>3. /\ local' \in [Procs -> Locals]
      /\ local'[d].authId = a
      /\ \A q \in Procs : q # d => local'[q] = local[q]
      /\ \A q \in Procs : local'[q].fd = local[q].fd /\ local'[q].conn = local[q].conn
  BY <1>0, <1>1, <1>2, SetAuthId DEF IInv
<1>4. /\ DOMAIN managers' = DOMAIN managers
      /\ managers'[a].conn = c
      /\ managers'[a] \in Managers
      /\ \A b \in DOMAIN managers : b # a => managers'[b] = managers[b]
      /\ \A b \in DOMAIN managers : managers'[b].server = managers[b].server
  BY <1>0, <1>1, <1>2 DEF IInv, TypeOK, IsMap, Managers
<1>5. /\ \A b \in DOMAIN managers : managers[b].conn # c
      /\ \A e \in Closers : local[e].conn # c
  BY <1>0, <1>2, AuthConnAssumption DEF IInv, GivenOnce, Given, Ungiven
<1>6. /\ ClientFdStart <= c[2] /\ c[2] < nextClientFd
      /\ \A q \in Owners : q # d => local[q].fd # c[2]
  BY <1>0, <1>2, AuthConnAssumption DEF IInv, FdsUnique
<1>7. TypeOK'
  <2>1. IsMap(managers', Nat, Managers)
    BY <1>0, <1>1, <1>4 DEF IInv, TypeOK, IsMap
  <2>2. IsMap(connIdToAuthId', ConnIds, Nat)
    BY <1>0, <1>1, <1>2, PutIsMap DEF IInv, TypeOK
  <2> QED
    BY <1>3, <2>1, <2>2, AuthConnAssumption DEF IInv, TypeOK, Labels
<1>8. LocalsSet' /\ FdsUnique'
  BY <1>0, <1>2, <1>3, AuthConnAssumption DEF IInv, TypeOK, LocalsSet, FdsUnique
<1>9. RecordedOnce' /\ TablesAgree'
  BY <1>3, AuthConnAssumption
  DEF IInv, TypeOK, RecordedOnce, TablesAgree, Allocated, Unrecorded
<1>10. GivenOnce'
  <2>1. \A e \in ConnIds : Given(e) => Given(e)'
    BY <1>3, AuthConnAssumption DEF IInv, TypeOK, Given, Allocated, Ungiven, Unrecorded
  <2>2. Given(c)'
    BY <1>3, <1>6 DEF IInv, TypeOK, Given, Allocated, Ungiven, Unrecorded
  <2> QED
    BY <1>3, <1>4, <2>1, <2>2 DEF IInv, TypeOK, IsMap, Managers, Locals, GivenOnce
<1>11. ManagersMapped'
  BY <1>0, <1>1, <1>4, <1>5 DEF IInv, ManagersMapped, Put
<1>12. LockKept'
  BY <1>3, AuthConnAssumption DEF IInv, TypeOK, LockKept
<1>13. ClientManagerKept'
  BY <1>3, <1>4, <1>5, <1>6, AuthConnAssumption DEF IInv, TypeOK, ClientManagerKept
<1>14. ClientManagerConnected'
  BY <1>0, <1>4 DEF IInv, LockKept, ClientManagerConnected
<1> QED
  BY <1>7, <1>8, <1>9, <1>10, <1>11, <1>12, <1>13, <1>14 DEF IInv

(* A step that sets the conn variable of one accepting goroutine to the    *)
(* connId of its own fd and moves it on.                                   *)
LEMMA ReceiveSdkKeeps ==
    ASSUME IInv, NEW s \in Acceptors, ReceiveSdk(s) PROVE IInv'
<1> USE DEF ReceiveSdk, svcVars, connVars, sockVars
<1> DEFINE c == fdToConnId[local[s].fd]
<1>1. c \in ConnIds /\ c[2] = local[s].fd
  BY DEF IInv, TypeOK, IsMap, TablesAgree, RecordedOnce
<1>2. /\ local' \in [Procs -> Locals]
      /\ local'[s].conn = c
      /\ \A q \in Procs : q # s => local'[q] = local[q]
      /\ \A q \in Procs : local'[q].fd = local[q].fd /\ local'[q].authId = local[q].authId
  BY <1>1, SetConn DEF IInv
<1> HIDE DEF c
<1>3. TypeOK'
  BY <1>2, AuthConnAssumption DEF IInv, TypeOK, Labels
<1>4. LocalsSet' /\ FdsUnique'
  BY <1>1, <1>2, AuthConnAssumption DEF IInv, TypeOK, LocalsSet, FdsUnique
<1>5. RecordedOnce' /\ TablesAgree'
  BY <1>2, AuthConnAssumption
  DEF IInv, TypeOK, RecordedOnce, TablesAgree, Allocated, Unrecorded
<1>6. GivenOnce'
  BY <1>1, <1>2, AuthConnAssumption
  DEF IInv, TypeOK, GivenOnce, Given, Allocated, Ungiven, Unrecorded
<1>7. ManagersMapped' /\ ClientManagerConnected'
  BY DEF IInv, ManagersMapped, ClientManagerConnected
<1>8. LockKept' /\ ClientManagerKept'
  BY <1>2, AuthConnAssumption DEF IInv, TypeOK, LockKept, ClientManagerKept
<1> QED
  BY <1>3, <1>4, <1>5, <1>6, <1>7, <1>8 DEF IInv

LEMMA DeliverKeeps ==
    ASSUME IInv, NEW s \in Acceptors, Deliver(s) PROVE IInv'
<1> USE DEF Deliver, connVars, sockVars
<1>0. PICK c : c = local[s].conn
  OBVIOUS
<1>1. CASE c \in DOMAIN connIdToAuthId
  <2>0. UNCHANGED <<managers, connIdToAuthId, nextAuthId, local>> /\ Goto(s, "reading")
    BY <1>0, <1>1
  <2>1. TypeOK' /\ LocalsSet'
    BY <2>0, AuthConnAssumption DEF IInv, TypeOK, Labels, LocalsSet
  <2>2. LockKept'
    BY <2>0, AuthConnAssumption DEF IInv, TypeOK, LockKept
  <2> QED
    BY <2>0, <2>1, <2>2, PcStep, AuthConnAssumption DEF IInv, TypeOK, Unrecorded, Ungiven
<1>2. CASE c \notin DOMAIN connIdToAuthId
  <2> DEFINE m == [req |-> 0, conn |-> c, server |-> TRUE]
  <2>0. /\ managers' = Put(managers, nextAuthId, m)
        /\ connIdToAuthId' = Put(connIdToAuthId, c, nextAuthId)
        /\ nextAuthId' = nextAuthId + 1
        /\ local' = [local EXCEPT ![s].authId = nextAuthId]
        /\ Goto(s, "accepted")
    BY <1>0, <1>2
  <2>1. /\ c \in ConnIds
        /\ c[2] = local[s].fd /\ local[s].fd \in Nat
        /\ nextAuthId \in Nat
    BY <1>0, AuthConnAssumption DEF IInv, TypeOK, LocalsSet, Locals, GivenOnce
  <2>2. /\ local' \in [Procs -> Locals]
        /\ local'[s].authId = nextAuthId
        /\ \A q \in Procs : q # s => local'[q] = local[q]
        /\ \A q \in Procs : local'[q].fd = local[q].fd /\ local'[q].conn = local[q].conn
    BY <2>0, <2>1, SetAuthId DEF IInv
  <2>3. m \in Managers /\ m.conn = c /\ m.server = TRUE
    BY <2>1 DEF Managers
  <2> HIDE DEF m
  <2>4. TypeOK'
    <3>1. IsMap(managers', Nat, Managers)
      BY <2>0, <2>1, <2>3, PutIsMap DEF IInv, TypeOK
    <3>2. IsMap(connIdToAuthId', ConnIds, Nat)
      BY <2>0, <2>1, PutIsMap DEF IInv, TypeOK
    <3> QED
      BY <2>0, <2>2, <3>1, <3>2, AuthConnAssumption DEF IInv, TypeOK, Labels
  <2>5. LocalsSet' /\ FdsUnique'
    BY <1>0, <2>0, <2>1, <2>2, AuthConnAssumption DEF IInv, TypeOK, LocalsSet, FdsUnique
  <2>6. RecordedOnce' /\ TablesAgree'
    BY <2>0, <2>2, AuthConnAssumption
    DEF IInv, TypeOK, RecordedOnce, TablesAgree, Allocated, Unrecorded
  <2>7. GivenOnce'
    <3>1. \A e \in ConnIds : Given(e) => Given(e)'
      BY <2>0, <2>2, AuthConnAssumption DEF IInv, TypeOK, Given, Allocated, Ungiven, Unrecorded
    <3>2. Given(c)'
      BY <2>0, <2>1, <2>2, AuthConnAssumption
      DEF IInv, TypeOK, FdsUnique, Given, Allocated, Ungiven, Unrecorded
    <3> QED
      BY <2>0, <2>2, <2>3, <3>1, <3>2 DEF IInv, TypeOK, IsMap, Managers, Locals, GivenOnce, Put
  <2>8. ManagersMapped'
    BY <1>2, <2>0, <2>3 DEF IInv, ManagersMapped, Put
  <2>9. LockKept'
    BY <2>0, <2>2, AuthConnAssumption DEF IInv, TypeOK, LockKept
  <2>10. ClientManagerKept' /\ ClientManagerConnected'
    BY <2>0, <2>2, <2>3, AuthConnAssumption
    DEF IInv, TypeOK, ClientManagerKept, ClientManagerConnected, Put
  <2> QED
    BY <2>4, <2>5, <2>6, <2>7, <2>8, <2>9, <2>10 DEF IInv
<1> QED
  BY <1>1, <1>2

-----------------------------------------------------------------------------
(* The steps that take a connection or its manager away.                   *)

LEMMA UnmapManagerKeeps ==
    ASSUME IInv, NEW s \in Acceptors, UnmapManager(s) PROVE IInv'
<1> USE DEF UnmapManager, RemoveManager, connVars, sockVars
<1>1. TypeOK'
  <2>1. IsMap(managers', Nat, Managers) /\ IsMap(connIdToAuthId', ConnIds, Nat)
    BY DelIsMap DEF IInv, TypeOK
  <2> QED
    BY <2>1, AuthConnAssumption DEF IInv, TypeOK, Labels
<1>2. LocalsSet' /\ FdsUnique'
  BY AuthConnAssumption DEF IInv, TypeOK, LocalsSet, FdsUnique
<1>3. RecordedOnce' /\ TablesAgree'
  BY AuthConnAssumption DEF IInv, TypeOK, RecordedOnce, TablesAgree, Allocated, Unrecorded
<1>4. \A a \in DOMAIN managers' : a \in DOMAIN managers /\ managers'[a] = managers[a]
  BY DEF Del
<1>5. GivenOnce'
  BY <1>4, AuthConnAssumption DEF IInv, TypeOK, GivenOnce, Given, Allocated, Ungiven, Unrecorded
<1>6. ManagersMapped'
  BY DEF IInv, ManagersMapped, Del
<1>7. LockKept'
  BY AuthConnAssumption DEF IInv, TypeOK, LockKept
<1>8. ClientManagerKept' /\ ClientManagerConnected'
  BY <1>4, AuthConnAssumption DEF IInv, TypeOK, ClientManagerKept, ClientManagerConnected
<1> QED
  BY <1>1, <1>2, <1>3, <1>5, <1>6, <1>7, <1>8 DEF IInv

LEMMA ForgetConnKeeps ==
    ASSUME IInv, NEW s \in Acceptors, ForgetConn(s) PROVE IInv'
<1> USE DEF ForgetConn, RemoveConn, svcVars, sockVars
<1>0. PICK fd : fd = local[s].fd
  OBVIOUS
<1>1. CASE fd \notin DOMAIN fdToConnId
  <2>0. UNCHANGED <<connections, fdToConnId, local>> /\ Goto(s, "unregister")
    BY <1>0, <1>1
  <2>1. TypeOK' /\ LocalsSet'
    BY <2>0, AuthConnAssumption DEF IInv, TypeOK, Labels, LocalsSet
  <2>2. LockKept'
    BY <2>0, AuthConnAssumption DEF IInv, TypeOK, LockKept
  <2> QED
    BY <2>0, <2>1, <2>2, PcStep, AuthConnAssumption DEF IInv, TypeOK, Unrecorded, Ungiven
<1>2. CASE fd \in DOMAIN fdToConnId
  <2>0. PICK c : c = fdToConnId[fd]
    OBVIOUS
  <2>1. /\ connections' = Del(connections, c)
        /\ fdToConnId' = Del(fdToConnId, fd)
        /\ local' = [local EXCEPT ![s].conn = c]
        /\ Goto(s, "unmap")
    BY <1>0, <1>2, <2>0
  <2>2. /\ c \in ConnIds /\ c[2] = fd
        /\ \A e \in DOMAIN fdToConnId : fdToConnId[e] = c => e = fd
        /\ \A e \in DOMAIN connections : connections[e].fd = fd => e = c
        /\ fd < ClientFdStart
    BY <1>0, <1>2, <2>0, AuthConnAssumption, SMTT(40)
    DEF IInv, TypeOK, IsMap, TablesAgree, RecordedOnce, FdsUnique, LocalsSet
  <2>3. /\ local' \in [Procs -> Locals]
        /\ local'[s].conn = c
        /\ \A q \in Procs : q # s => local'[q] = local[q]
        /\ \A q \in Procs : local'[q].fd = local[q].fd /\ local'[q].authId = local[q].authId
    BY <2>1, <2>2, SetConn DEF IInv
  <2>4. TypeOK'
    <3>1. IsMap(connections', ConnIds, Connections) /\ IsMap(fdToConnId', Nat, ConnIds)
      BY <2>1, DelIsMap DEF IInv, TypeOK
    <3> QED
      BY <2>1, <2>3, <3>1, AuthConnAssumption DEF IInv, TypeOK, Labels
  <2>5. LocalsSet' /\ FdsUnique'
    BY <2>1, <2>2, <2>3, AuthConnAssumption DEF IInv, TypeOK, LocalsSet, FdsUnique
  <2>6. RecordedOnce'
    BY <2>1, <2>3, AuthConnAssumption
    DEF IInv, TypeOK, RecordedOnce, Allocated, Unrecorded, Del
  <2>7. TablesAgree'
    BY <2>1, <2>2 DEF IInv, TablesAgree, Del
  <2>8. GivenOnce'
    BY <1>0, <2>1, <2>2, <2>3, AuthConnAssumption
    DEF IInv, TypeOK, GivenOnce, Given, Allocated, Ungiven, Unrecorded
  <2>9. ManagersMapped'
    BY DEF IInv, ManagersMapped
  <2>10. LockKept'
    BY <2>1, <2>3, AuthConnAssumption DEF IInv, TypeOK, LockKept
  <2>11. ClientManagerKept'
    BY <2>1, <2>3, AuthConnAssumption DEF IInv, TypeOK, ClientManagerKept
  <2>12. ClientManagerConnected'
    BY <2>1, <2>2, AuthConnAssumption
    DEF IInv, TypeOK, IsMap, Managers, ConnIds, ClientManagerKept, ClientManagerConnected, Del
  <2> QED
    BY <2>4, <2>5, <2>6, <2>7, <2>8, <2>9, <2>10, <2>11, <2>12 DEF IInv
<1> QED
  BY <1>1, <1>2

LEMMA CloseConnKeeps ==
    ASSUME IInv, NEW e \in Closers, CloseConn(e) PROVE IInv'
<1> USE DEF CloseConn, RemoveManager, connVars, sockVars
<1>1. CASE UNCHANGED <<managers, connIdToAuthId, local>> /\ Goto(e, "done")
  <2>1. TypeOK' /\ LocalsSet'
    BY <1>1, AuthConnAssumption DEF IInv, TypeOK, Labels, LocalsSet
  <2>2. LockKept'
    BY <1>1, AuthConnAssumption DEF IInv, TypeOK, LockKept
  <2> QED
    BY <1>1, <2>1, <2>2, PcStep, AuthConnAssumption DEF IInv, TypeOK, Unrecorded, Ungiven
<1>2. ASSUME NEW a \in DOMAIN managers, NEW c, c = managers[a].conn,
             managers' = Del(managers, a),
             connIdToAuthId' = Del(connIdToAuthId, c),
             local' = [local EXCEPT ![e].conn = c],
             Goto(e, "disconnect")
      PROVE  IInv'
  <2>1. c \in ConnIds \cup {None}
    BY <1>2 DEF IInv, TypeOK, IsMap, Managers
  <2>2. /\ local' \in [Procs -> Locals]
        /\ local'[e].conn = c
        /\ \A q \in Procs : q # e => local'[q] = local[q]
        /\ \A q \in Procs : local'[q].fd = local[q].fd /\ local'[q].authId = local[q].authId
    BY <1>2, <2>1, SetConn DEF IInv
  <2>3. TypeOK'
    <3>1. IsMap(managers', Nat, Managers) /\ IsMap(connIdToAuthId', ConnIds, Nat)
      BY <1>2, DelIsMap DEF IInv, TypeOK
    <3> QED
      BY <1>2, <2>2, <3>1, AuthConnAssumption DEF IInv, TypeOK, Labels
  <2>4. LocalsSet' /\ FdsUnique'
    BY <1>2, <2>2, AuthConnAssumption DEF IInv, TypeOK, LocalsSet, FdsUnique
  <2>5. RecordedOnce' /\ TablesAgree'
    BY <1>2, <2>2, AuthConnAssumption
    DEF IInv, TypeOK, RecordedOnce, TablesAgree, Allocated, Unrecorded
  <2>6. \A b \in DOMAIN managers' : b \in DOMAIN managers /\ b # a /\ managers'[b] = managers[b]
    BY <1>2 DEF Del
  <2>7. \A b \in DOMAIN managers' : managers[b].conn # None => managers[b].conn # c
    BY <1>2, <2>6 DEF IInv, ManagersMapped
  <2>8. GivenOnce'
    BY <1>2, <2>2, <2>6, AuthConnAssumption
    DEF IInv, TypeOK, GivenOnce, Given, Allocated, Ungiven, Unrecorded
  <2>9. ManagersMapped'
    BY <1>2, <2>6, <2>7 DEF IInv, ManagersMapped, Del
  <2>10. LockKept'
    BY <1>2, <2>2, AuthConnAssumption DEF IInv, TypeOK, LockKept
  <2>11. ClientManagerKept' /\ ClientManagerConnected'
    BY <1>2, <2>2, <2>6, <2>7, AuthConnAssumption
    DEF IInv, TypeOK, ClientManagerKept, ClientManagerConnected
  <2> QED
    BY <2>3, <2>4, <2>5, <2>8, <2>9, <2>10, <2>11 DEF IInv
<1> QED
  BY <1>1, <1>2

LEMMA DisconnectKeeps ==
    ASSUME IInv, NEW e \in Closers, Disconnect(e) PROVE IInv'
<1> USE DEF Disconnect, RemoveConn, svcVars, sockVars
<1>0. PICK c : c = local[e].conn
  OBVIOUS
<1>1. CASE c \notin DOMAIN connections
  <2>0. UNCHANGED <<connections, fdToConnId, local>> /\ Goto(e, "done")
    BY <1>0, <1>1
  <2>1. TypeOK' /\ LocalsSet'
    BY <2>0, AuthConnAssumption DEF IInv, TypeOK, Labels, LocalsSet
  <2>2. LockKept'
    BY <2>0, AuthConnAssumption DEF IInv, TypeOK, LockKept
  <2> QED
    BY <2>0, <2>1, <2>2, PcStep, AuthConnAssumption DEF IInv, TypeOK, Unrecorded, Ungiven
<1>2. CASE c \in DOMAIN connections
  <2>0. PICK fd : fd = connections[c].fd
    OBVIOUS
  <2>1. /\ connections' = Del(connections, c)
        /\ fdToConnId' = Del(fdToConnId, fd)
        /\ local' = [local EXCEPT ![e].fd = fd]
        /\ Goto(e, "close")
    BY <1>0, <1>2, <2>0
  <2>2. /\ fd \in DOMAIN fdToConnId /\ fd \in Nat
        /\ \A b \in DOMAIN fdToConnId : fdToConnId[b] = c => b = fd
        /\ \A b \in DOMAIN connections : connections[b].fd = fd => b = c
    BY <1>2, <2>0 DEF IInv, TypeOK, IsMap, TablesAgree
  <2>3. /\ local' \in [Procs -> Locals]
        /\ local'[e].fd = fd
        /\ \A q \in Procs : q # e => local'[q] = local[q]
        /\ \A q \in Procs : local'[q].conn = local[q].conn /\ local'[q].authId = local[q].authId
    BY <2>1, <2>2, SetFd DEF IInv
  <2>4. TypeOK'
    <3>1. IsMap(connections', ConnIds, Connections) /\ IsMap(fdToConnId', Nat, ConnIds)
      BY <2>1, DelIsMap DEF IInv, TypeOK
    <3> QED
      BY <2>1, <2>3, <3>1, AuthConnAssumption DEF IInv, TypeOK, Labels
  <2>5. LocalsSet' /\ FdsUnique'
    BY <2>1, <2>2, <2>3, AuthConnAssumption DEF IInv, TypeOK, LocalsSet, FdsUnique
  <2>6. RecordedOnce'
    BY <2>1, <2>3, AuthConnAssumption
    DEF IInv, TypeOK, RecordedOnce, Allocated, Unrecorded, Del
  <2>7. TablesAgree'
    BY <2>1, <2>2 DEF IInv, TablesAgree, Del
  <2>8. GivenOnce'
    BY <2>1, <2>3, AuthConnAssumption
    DEF IInv, TypeOK, GivenOnce, Given, Allocated, Ungiven, Unrecorded
  <2>9. ManagersMapped'
    BY DEF IInv, ManagersMapped
  <2>10. LockKept'
    BY <2>1, <2>3, AuthConnAssumption DEF IInv, TypeOK, LockKept
  <2>11. ClientManagerKept'
    BY <2>1, <2>3, AuthConnAssumption DEF IInv, TypeOK, ClientManagerKept
  <2>12. ClientManagerConnected'
    BY <1>0, <2>1 DEF IInv, ClientManagerKept, ClientManagerConnected, Del
  <2> QED
    BY <2>4, <2>5, <2>6, <2>7, <2>8, <2>9, <2>10, <2>11, <2>12 DEF IInv
<1> QED
  BY <1>1, <1>2

-----------------------------------------------------------------------------
LEMMA InitIInv == Init => IInv
<1> SUFFICES ASSUME Init PROVE IInv
  OBVIOUS
<1>1. TypeOK
  BY EmptyIsMap, AuthConnAssumption DEF Init, TypeOK, Labels, Locals
<1>2. LocalsSet /\ FdsUnique
  BY AuthConnAssumption DEF Init, LocalsSet, FdsUnique
<1>3. RecordedOnce /\ TablesAgree /\ GivenOnce
  BY AuthConnAssumption DEF Init, EmptyMap, RecordedOnce, TablesAgree, GivenOnce
<1>4. ManagersMapped /\ LockKept /\ ClientManagerKept /\ ClientManagerConnected
  BY AuthConnAssumption
  DEF Init, EmptyMap, ManagersMapped, LockKept, ClientManagerKept, ClientManagerConnected
<1> QED
  BY <1>1, <1>2, <1>3, <1>4 DEF IInv

(* Every step keeps the invariant. *)
LEMMA NextKeeps == IInv /\ [Next]_vars => IInv'
<1> SUFFICES ASSUME IInv, [Next]_vars PROVE IInv'
  OBVIOUS
<1>1. ASSUME NEW o \in Openers, OpenConn(o) \/ OpenerStep(o) PROVE IInv'
  BY <1>1, OpenConnKeeps, StoreRequestKeeps, DropRequestKeeps, ReportFailureKeeps,
     CleanupManagerKeeps DEF OpenerStep
<1>2. ASSUME NEW h \in ChannelOpeners, OpenChannel(h) \/ CloseChannel(h) PROVE IInv'
  BY <1>2, OpenChannelKeeps, CloseChannelKeeps
<1>3. ASSUME NEW d \in Dialers, DialerStep(d) PROVE IInv'
  BY <1>3, DialOkKeeps, DialFailKeeps, MatchRequestKeeps, NoRequestKeeps,
     ManagerFoundKeeps, NoManagerKeeps, StartSessionKeeps DEF DialerStep, ConnectResult
<1>4. ASSUME NEW s \in Acceptors,
             \/ Accept(s) \/ ReceiveSdk(s) \/ StopListener(s) \/ ReadFails(s)
             \/ AcceptorStep(s)
      PROVE  IInv'
  BY <1>4, AcceptKeeps, ReceiveSdkKeeps, StopListenerKeeps, ReadFailsKeeps,
     GetConnInfoKeeps, InsertServerConnKeeps, DeliverKeeps, StartServerSessionKeeps,
     ForgetConnKeeps, UnmapManagerKeeps, UnregisterKeeps DEF AcceptorStep
<1>5. ASSUME NEW c \in Closers, CloseConn(c) \/ CloserStep(c) PROVE IInv'
  BY <1>5, CloseConnKeeps, DisconnectKeeps, CloseSocketKeeps DEF CloserStep
<1>6. ASSUME NEW a \in DOMAIN sessions, NEW result \in Results, AuthDone(a, result)
      PROVE  IInv'
  BY <1>6, AuthDoneKeeps
<1>7. CASE UNCHANGED vars
  <2> USE <1>7 DEF vars, svcVars, connVars, sockVars, procVars
  <2>1. TypeOK' /\ LocalsSet' /\ LockKept'
    BY DEF IInv, TypeOK, LocalsSet, LockKept
  <2> QED
    BY <2>1, PcStep DEF IInv, Unrecorded, Ungiven
<1> QED
  BY <1>1, <1>2, <1>3, <1>4, <1>5, <1>6, <1>7 DEF Next

THEOREM Invariance == Spec => []IInv
  BY InitIInv, NextKeeps, PTL DEF Spec

(* The maps, counters and local variables of the connection layer keep     *)
(* their declared types, in any number of open, close and accept calls.    *)
THEOREM TypeCorrect == Spec => []TypeOK
<1>1. IInv => TypeOK
  BY DEF IInv
<1> QED
  BY <1>1, Invariance, PTL

(* connections and fdToConnId of auth_connection.go describe the same      *)
(* connections.                                                            *)
THEOREM TablesAlwaysAgree == Spec => []TablesAgree
<1>1. IInv => TablesAgree
  BY DEF IInv
<1> QED
  BY <1>1, Invariance, PTL

(* A manager of auth_manager.go that has a connection is the one            *)
(* connIdToAuthId leads to from its connId; so no two managers claim one    *)
(* connection.                                                             *)
THEOREM ManagersAlwaysMapped == Spec => []ManagersMapped
<1>1. IInv => ManagersMapped
  BY DEF IInv
<1> QED
  BY <1>1, Invariance, PTL

(* PostAuthData finds the connection of a manager that dialled it, unless  *)
(* the manager itself was closed.                                          *)
THEOREM ClientManagersStayConnected == Spec => []ClientManagerConnected
<1>1. IInv => ClientManagerConnected
  BY DEF IInv
<1> QED
  BY <1>1, Invariance, PTL

-----------------------------------------------------------------------------
(* The connection table: what leaves it and what is left behind.           *)

\* A goroutine whose connection is recorded, or will never be.
Settled(p) == local[p].fd # None /\ ~Unrecorded(p)

SettledFds == {local[p].fd : p \in {q \in Owners : Settled(q)}}

LEMMA RetiredAre ==
    /\ Retired = SettledFds \ DOMAIN fdToConnId
    /\ Retired' = SettledFds' \ DOMAIN fdToConnId'
  BY DEF Retired, SettledFds, Settled, Unrecorded

(* No goroutine settles in a step that leaves the fds alone.               *)
LEMMA SettledAlone ==
    ASSUME \A q \in Owners : /\ Settled(q)' <=> Settled(q)
                             /\ Settled(q) => local'[q].fd = local[q].fd
    PROVE  SettledFds' = SettledFds
<1>1. ASSUME NEW fd \in SettledFds PROVE fd \in SettledFds'
  <2>1. PICK q \in Owners : Settled(q) /\ local[q].fd = fd
    BY <1>1 DEF SettledFds
  <2>2. Settled(q)' /\ local'[q].fd = fd
    BY <2>1
  <2> QED
    BY <2>2 DEF SettledFds
<1>2. ASSUME NEW fd \in SettledFds' PROVE fd \in SettledFds
  <2>1. PICK q \in Owners : Settled(q)' /\ local'[q].fd = fd
    BY <1>2 DEF SettledFds
  <2>2. Settled(q) /\ local[q].fd = fd
    BY <2>1
  <2> QED
    BY <2>2 DEF SettledFds
<1> QED
  BY <1>1, <1>2

LEMMA RecordedSettled ==
    ASSUME TableInv
    PROVE  DOMAIN fdToConnId \subseteq SettledFds
<1> SUFFICES ASSUME NEW fd \in DOMAIN fdToConnId PROVE fd \in SettledFds
  OBVIOUS
<1>1. PICK p \in Owners : local[p].fd = fd
  BY DEF TableInv, RecordedHeld
<1>2. fd \in Nat
  BY DEF TableInv, IInv, TypeOK, IsMap
<1>3. Settled(p)
  BY <1>1, <1>2, AuthConnAssumption DEF TableInv, IInv, RecordedOnce, Settled
<1> QED
  BY <1>1, <1>3 DEF SettledFds

\* What a step does to the table of ConnLifecycle.
TableStep ==
    /\ RecordedHeld'
    /\ LeftBehind'
    /\ [Table!Next]_<<DOMAIN fdToConnId, Retired>>

\* A step that records and drops nothing, and settles no goroutine.
TableQuiet ==
    /\ UNCHANGED fdToConnId
    /\ \A q \in Owners :
         /\ Settled(q)' <=> Settled(q)
         /\ Settled(q) => local'[q].fd = local[q].fd
    /\ \A s \in Acceptors :
         /\ pc'[s] \in {"unmap", "unregister", "done"} => local'[s].fd \notin DOMAIN fdToConnId
         /\ pc'[s] = "done" => local'[s].fd \notin sockets'

LEMMA TableStutters ==
    ASSUME TableInv, TableQuiet PROVE TableStep
<1>1. SettledFds' = SettledFds
  BY SettledAlone DEF TableQuiet
<1>2. UNCHANGED <<DOMAIN fdToConnId, Retired>>
  BY <1>1, RetiredAre DEF TableQuiet
<1>3. RecordedHeld'
  <2>1. DOMAIN fdToConnId' \subseteq SettledFds'
    BY <1>1, RecordedSettled DEF TableQuiet
  <2> QED
    BY <2>1 DEF RecordedHeld, SettledFds
<1>4. LeftBehind'
  BY DEF LeftBehind, TableQuiet
<1> QED
  BY <1>2, <1>3, <1>4 DEF TableStep

(* The goroutine p settles, and its connection is recorded or abandoned.   *)
LEMMA SettledBy ==
    ASSUME NEW p \in Owners, ~Settled(p), Settled(p)',
           \A q \in Owners : q # p =>
               /\ Settled(q)' <=> Settled(q)
               /\ Settled(q) => local'[q].fd = local[q].fd
    PROVE  SettledFds' = SettledFds \cup {local'[p].fd}
  BY DEF SettledFds

LEMMA RecordStep ==
    ASSUME TableInv, NEW p \in Owners, NEW fd \in Nat, local[p].fd = fd, Unrecorded(p),
           ~Unrecorded(p)', local'[p].fd = fd,
           DOMAIN fdToConnId' = DOMAIN fdToConnId \cup {fd},
           \A q \in Owners : q # p => pc'[q] = pc[q] /\ local'[q] = local[q],
           pc'[p] \notin {"unmap", "unregister", "done"} \/ p \notin Acceptors,
           UNCHANGED sockets
    PROVE  TableStep
<1>1. fd # None
  BY AuthConnAssumption
<1>2. ~Settled(p) /\ Settled(p)'
  BY <1>1 DEF Settled
<1>3. SettledFds' = SettledFds \cup {fd}
  BY <1>2, SettledBy DEF Settled, Unrecorded
<1>4. fd \notin SettledFds
  BY <1>1, <1>2 DEF TableInv, IInv, FdsUnique, SettledFds
<1>5. fd \notin DOMAIN fdToConnId
  BY <1>4, RecordedSettled
<1>6. Retired' = Retired
  BY <1>3, <1>4, <1>5, RetiredAre
<1>7. Table!Establish(fd) /\ fd \in DOMAIN fdToConnId'
  BY <1>4, <1>5, <1>6, RetiredAre DEF Table!Establish
<1>8. RecordedHeld'
  <2>1. DOMAIN fdToConnId' \subseteq SettledFds'
    BY <1>3, RecordedSettled
  <2> QED
    BY <2>1 DEF RecordedHeld, SettledFds
<1>9. LeftBehind'
  <2> SUFFICES ASSUME NEW s \in Acceptors, pc'[s] \in {"unmap", "unregister", "done"}
               PROVE  /\ local'[s].fd \notin DOMAIN fdToConnId'
                      /\ pc'[s] = "done" => local'[s].fd \notin sockets'
    BY DEF LeftBehind
  <2>1. s # p /\ pc'[s] = pc[s] /\ local'[s] = local[s]
    OBVIOUS
  <2>2. local[s].fd # fd
    BY <1>1, <2>1 DEF TableInv, IInv, FdsUnique
  <2> QED
    BY <2>1, <2>2 DEF TableInv, LeftBehind
<1> QED
  BY <1>7, <1>8, <1>9 DEF TableStep, Table!Next

LEMMA AbandonStep ==
    ASSUME TableInv, NEW p \in Owners, NEW fd \in Nat, local[p].fd = fd, Unrecorded(p),
           ~Unrecorded(p)', UNCHANGED <<fdToConnId, local, sockets>>,
           \A q \in Owners : q # p => pc'[q] = pc[q],
           pc'[p] \notin {"unmap", "unregister", "done"} \/ p \notin Acceptors
    PROVE  TableStep
<1>1. fd # None
  BY AuthConnAssumption
<1>2. ~Settled(p) /\ Settled(p)'
  BY <1>1 DEF Settled
<1>3. SettledFds' = SettledFds \cup {fd}
  BY <1>2, SettledBy DEF Settled, Unrecorded
<1>4. fd \notin SettledFds
  BY <1>1, <1>2 DEF TableInv, IInv, FdsUnique, SettledFds
<1>5. fd \notin DOMAIN fdToConnId
  BY <1>4, RecordedSettled
<1>6. Retired' = Retired \cup {fd}
  BY <1>3, <1>5, RetiredAre
<1>7. Table!Abandon(fd) /\ fd \in Retired'
  BY <1>4, <1>5, <1>6, RetiredAre DEF Table!Abandon
<1>8. RecordedHeld'
  BY DEF TableInv, RecordedHeld
<1>9. LeftBehind'
  BY DEF TableInv, LeftBehind
<1> QED
  BY <1>7, <1>8, <1>9 DEF TableStep, Table!Next

LEMMA DropStep ==
    ASSUME TableInv, NEW fd \in DOMAIN fdToConnId,
           DOMAIN fdToConnId' = DOMAIN fdToConnId \ {fd},
           \A q \in Owners : /\ local'[q].fd = local[q].fd
                             /\ Unrecorded(q)' <=> Unrecorded(q),
           \A s \in Acceptors :
               \/ pc'[s] = pc[s]
               \/ pc'[s] = "unmap" /\ local[s].fd = fd,
           UNCHANGED sockets
    PROVE  TableStep
<1>1. SettledFds' = SettledFds
  BY SettledAlone DEF Settled
<1>2. fd \in SettledFds
  BY RecordedSettled
<1>3. Retired' = Retired \cup {fd}
  BY <1>1, <1>2, RetiredAre
<1>4. Table!Drop(fd)
  BY <1>3 DEF Table!Drop
<1>5. RecordedHeld'
  BY DEF TableInv, RecordedHeld
<1>6. LeftBehind'
  <2> SUFFICES ASSUME NEW s \in Acceptors, pc'[s] \in {"unmap", "unregister", "done"}
               PROVE  /\ local'[s].fd \notin DOMAIN fdToConnId'
                      /\ pc'[s] = "done" => local'[s].fd \notin sockets'
    BY DEF LeftBehind
  <2>1. local'[s].fd = local[s].fd
    OBVIOUS
  <2> QED
    BY <2>1 DEF TableInv, LeftBehind
<1> QED
  BY <1>4, <1>5, <1>6 DEF TableStep, Table!Next

(* The steps that only move goroutines between phases after their          *)
(* connection was settled, or before it exists.                            *)
LEMMA OpenerQuiet ==
    ASSUME TableInv, NEW o \in Openers, OpenConn(o) \/ OpenerStep(o)
    PROVE  TableQuiet
<1> USE AuthConnAssumption DEF TableQuiet, Settled, Unrecorded, TableInv, LeftBehind, IInv,
                               TypeOK, LocalsSet
<1>1. CASE OpenConn(o)
  BY <1>1, SetAuthId DEF OpenConn, connVars, sockVars
<1>2. CASE StoreRequest(o)
  BY <1>2 DEF StoreRequest, sockVars
<1>3. CASE DropRequest(o)
  BY <1>3 DEF DropRequest, sockVars
<1>4. CASE ReportFailure(o)
  BY <1>4 DEF ReportFailure, connVars, sockVars
<1>5. CASE CleanupManager(o)
  BY <1>5 DEF CleanupManager, connVars, sockVars
<1> QED
  BY <1>1, <1>2, <1>3, <1>4, <1>5 DEF OpenerStep

LEMMA ChannelOpenerQuiet ==
    ASSUME TableInv, NEW h \in ChannelOpeners, OpenChannel(h) \/ CloseChannel(h)
    PROVE  TableQuiet
  BY AuthConnAssumption
  DEF OpenChannel, CloseChannel, TableQuiet, Settled, Unrecorded, TableInv, LeftBehind, IInv,
      TypeOK, LocalsSet, connVars, sockVars

LEMMA DialerQuiet ==
    ASSUME TableInv, NEW d \in Dialers,
           \/ DialOk(d) \/ DialFail(d) \/ ConnectResult(d) \/ StartSession(d)
    PROVE  TableQuiet
<1> USE AuthConnAssumption DEF TableQuiet, Settled, Unrecorded, TableInv, LeftBehind, IInv,
                               TypeOK, LocalsSet
<1>1. CASE DialOk(d)
  <2>1. /\ local'[d].fd = nextClientFd
        /\ \A q \in Procs : q # d => local'[q] = local[q]
        /\ sockets' = sockets \cup {nextClientFd}
        /\ pc' = [pc EXCEPT ![d] = "connected"] /\ pc[d] = "dial"
        /\ UNCHANGED fdToConnId
    BY <1>1, SetFd DEF DialOk, connVars
  <2>2. \A s \in Acceptors : local[s].fd # nextClientFd
    BY DEF FdsUnique
  <2> QED
    BY <2>1, <2>2
<1>2. CASE DialFail(d)
  BY <1>2 DEF DialFail, connVars, sockVars
<1>3. CASE pc[d] = "result" /\ ManagerFound(d)
  BY <1>3, SetAuthId DEF ManagerFound, connVars, sockVars
<1>4. CASE pc[d] = "result" /\ NoManager(d)
  BY <1>4 DEF NoManager, sockVars
<1>5. CASE StartSession(d)
  BY <1>5 DEF StartSession, sockVars
<1> QED
  BY <1>1, <1>2, <1>3, <1>4, <1>5 DEF ConnectResult

LEMMA AcceptorQuiet ==
    ASSUME TableInv, NEW s \in Acceptors,
           \/ Accept(s) \/ ReceiveSdk(s) \/ Deliver(s) \/ StartServerSession(s)
           \/ StopListener(s) \/ ReadFails(s) \/ UnmapManager(s) \/ Unregister(s)
    PROVE  TableQuiet
<1> USE AuthConnAssumption DEF TableQuiet, Settled, Unrecorded, TableInv, LeftBehind, IInv,
                               TypeOK, LocalsSet
<1>1. CASE Accept(s)
  <2>1. /\ local'[s].fd = nextServerFd
        /\ \A q \in Procs : q # s => local'[q] = local[q]
        /\ sockets' = sockets \cup {nextServerFd}
        /\ pc' = [pc EXCEPT ![s] = "info"] /\ pc[s] = "idle"
        /\ UNCHANGED fdToConnId
    BY <1>1, SetFd DEF Accept, connVars
  <2>2. \A q \in Acceptors : local[q].fd # nextServerFd
    BY DEF FdsUnique
  <2> QED
    BY <2>1, <2>2
<1>2. CASE ReceiveSdk(s)
  <2>1. fdToConnId[local[s].fd] \in ConnIds
    BY <1>2 DEF ReceiveSdk, IsMap
  <2> QED
    BY <1>2, <2>1, SetConn DEF ReceiveSdk, connVars, sockVars
<1>3. CASE Deliver(s)
  <2>1. \A q \in Procs : local'[q].fd = local[q].fd
    <3>1. UNCHANGED local \/ local' = [local EXCEPT ![s].authId = nextAuthId]
      BY <1>3 DEF Deliver
    <3>2. nextAuthId \in Nat
      OBVIOUS
    <3> QED
      BY <3>1, <3>2, SetAuthId
  <2>2. /\ UNCHANGED <<fdToConnId, sockets>>
        /\ pc[s] = "deliver"
        /\ pc' = [pc EXCEPT ![s] = "reading"] \/ pc' = [pc EXCEPT ![s] = "accepted"]
    BY <1>3 DEF Deliver, connVars, sockVars
  <2> QED
    BY <2>1, <2>2
<1>4. CASE StartServerSession(s) \/ StopListener(s) \/ ReadFails(s)
  BY <1>4 DEF StartServerSession, StopListener, ReadFails, connVars, sockVars, procVars
<1>5. CASE UnmapManager(s)
  BY <1>5 DEF UnmapManager, connVars, sockVars
<1>6. CASE Unregister(s)
  BY <1>6 DEF Unregister, connVars
<1> QED
  BY <1>1, <1>2, <1>3, <1>4, <1>5, <1>6

LEMMA CloserQuiet ==
    ASSUME TableInv, NEW c \in Closers, CloseConn(c) \/ CloseSocket(c)
    PROVE  TableQuiet
<1> USE AuthConnAssumption DEF TableQuiet, Settled, Unrecorded, TableInv, LeftBehind, IInv,
                               TypeOK, LocalsSet
<1>1. CASE CloseConn(c)
  <2>1. \A a \in DOMAIN managers : managers[a].conn \in ConnIds \cup {None}
    BY DEF IsMap, Managers
  <2> QED
    BY <1>1, <2>1, SetConn DEF CloseConn, connVars, sockVars
<1>2. CASE CloseSocket(c)
  BY <1>2 DEF CloseSocket, connVars
<1> QED
  BY <1>1, <1>2

(* The steps that record, drop or abandon a connection.                    *)
LEMMA MatchRequestRecords ==
    ASSUME TableInv, NEW d \in Dialers, MatchRequest(d) PROVE TableStep
<1> PICK fd : fd = local[d].fd
  OBVIOUS
<1>1. fd \in Nat
  BY DEF MatchRequest, TableInv, IInv, TypeOK, LocalsSet, Locals
<1>2. PICK r \in DOMAIN requests :
        LET c == GenConnId(requests[r].type, fd) IN
          /\ fdToConnId' = Put(fdToConnId, fd, c)
          /\ local' = [local EXCEPT ![d].req = r, ![d].conn = c]
  BY DEF MatchRequest, InsertConn
<1>3. DOMAIN fdToConnId' = DOMAIN fdToConnId \cup {fd}
  BY <1>2 DEF Put
<1>4. /\ local'[d].fd = fd
      /\ \A q \in Procs : q # d => local'[q] = local[q]
  BY <1>2 DEF TableInv, IInv, TypeOK, Locals
<1>5. pc[d] = "connected" /\ pc' = [pc EXCEPT ![d] = "result"] /\ UNCHANGED sockets
  BY DEF MatchRequest, sockVars
<1> QED
  BY <1>1, <1>3, <1>4, <1>5, RecordStep DEF TableInv, IInv, TypeOK, Unrecorded

LEMMA InsertServerConnRecords ==
    ASSUME TableInv, NEW s \in Acceptors, InsertServerConn(s) PROVE TableStep
<1> PICK fd : fd = local[s].fd
  OBVIOUS
<1>1. fd \in Nat
  BY DEF InsertServerConn, TableInv, IInv, TypeOK, LocalsSet, Locals
<1>2. DOMAIN fdToConnId' = DOMAIN fdToConnId \cup {fd}
  BY DEF InsertServerConn, InsertConn, Put
<1>3. /\ pc[s] = "insert" /\ pc' = [pc EXCEPT ![s] = "reading"]
      /\ UNCHANGED <<sockets, local>>
  BY DEF InsertServerConn, sockVars
<1> QED
  BY <1>1, <1>2, <1>3, RecordStep DEF TableInv, IInv, TypeOK, Unrecorded

LEMMA NoRequestAbandons ==
    ASSUME TableInv, NEW d \in Dialers, NoRequest(d) PROVE TableStep
<1>1. local[d].fd \in Nat
  BY DEF NoRequest, TableInv, IInv, TypeOK, LocalsSet, Locals
<1>2. /\ pc[d] = "connected" /\ pc' = [pc EXCEPT ![d] = "returned"]
      /\ UNCHANGED <<fdToConnId, local, sockets>>
  BY DEF NoRequest, connVars, sockVars
<1> QED
  BY <1>1, <1>2, AbandonStep DEF TableInv, IInv, TypeOK, Unrecorded

LEMMA GetConnInfoAbandons ==
    ASSUME TableInv, NEW s \in Acceptors, GetConnInfo(s) PROVE TableStep
<1>1. local[s].fd \in Nat
  BY DEF GetConnInfo, TableInv, IInv, TypeOK, LocalsSet, Locals
<1>2. pc[s] = "info" /\ UNCHANGED <<fdToConnId, local, sockets>>
  BY DEF GetConnInfo, connVars, sockVars
<1>3. CASE pc' = [pc EXCEPT ![s] = "reading"]
  BY <1>1, <1>2, <1>3, AbandonStep DEF TableInv, IInv, TypeOK, Unrecorded
<1>4. CASE pc' = [pc EXCEPT ![s] = "insert"]
  <2>1. TableQuiet
    BY <1>2, <1>4, AuthConnAssumption
    DEF TableQuiet, Settled, Unrecorded, TableInv, LeftBehind, IInv, TypeOK
  <2> QED
    BY <2>1, TableStutters
<1> QED
  BY <1>3, <1>4 DEF GetConnInfo

LEMMA ForgetConnDrops ==
    ASSUME TableInv, NEW s \in Acceptors, ForgetConn(s) PROVE TableStep
<1> PICK fd : fd = local[s].fd
  OBVIOUS
<1>1. pc[s] = "forget" /\ UNCHANGED sockets
  BY DEF ForgetConn, sockVars
<1>2. CASE fd \in DOMAIN fdToConnId
  <2>1. fdToConnId[fd] \in ConnIds
    BY <1>2 DEF TableInv, IInv, TypeOK, IsMap
  <2>2. /\ local' = [local EXCEPT ![s].conn = fdToConnId[fd]]
        /\ fdToConnId' = Del(fdToConnId, fd)
        /\ pc' = [pc EXCEPT ![s] = "unmap"]
    BY <1>2 DEF ForgetConn, RemoveConn
  <2>3. \A q \in Procs : local'[q].fd = local[q].fd
    BY <2>1, <2>2, SetConn DEF TableInv, IInv
  <2>4. DOMAIN fdToConnId' = DOMAIN fdToConnId \ {fd}
    BY <2>2 DEF Del
  <2> QED
    BY <1>1, <1>2, <2>2, <2>3, <2>4, DropStep, AuthConnAssumption
    DEF TableInv, IInv, TypeOK, Unrecorded
<1>3. CASE fd \notin DOMAIN fdToConnId
  <2>1. UNCHANGED <<fdToConnId, local>> /\ pc' = [pc EXCEPT ![s] = "unregister"]
    BY <1>3 DEF ForgetConn
  <2>2. TableQuiet
    BY <1>1, <1>3, <2>1, AuthConnAssumption
    DEF TableQuiet, Settled, Unrecorded, TableInv, LeftBehind, IInv, TypeOK
  <2> QED
    BY <2>2, TableStutters
<1> QED
  BY <1>2, <1>3

LEMMA DisconnectDrops ==
    ASSUME TableInv, NEW c \in Closers, Disconnect(c) PROVE TableStep
<1>1. pc[c] = "disconnect" /\ UNCHANGED sockets
  BY DEF Disconnect, sockVars
<1>2. CASE local[c].conn \in DOMAIN connections
  <2> PICK fd : fd = connections[local[c].conn].fd
    OBVIOUS
  <2>1. fd \in DOMAIN fdToConnId /\ fd \in Nat
    BY <1>2 DEF TableInv, IInv, TablesAgree, TypeOK, IsMap
  <2>2. /\ local' = [local EXCEPT ![c].fd = fd]
        /\ fdToConnId' = Del(fdToConnId, fd)
        /\ pc' = [pc EXCEPT ![c] = "close"]
    BY <1>2 DEF Disconnect, RemoveConn
  <2>3. \A q \in Procs : q # c => local'[q] = local[q]
    BY <2>1, <2>2, SetFd DEF TableInv, IInv
  <2>4. DOMAIN fdToConnId' = DOMAIN fdToConnId \ {fd}
    BY <2>2 DEF Del
  <2> QED
    BY <1>1, <2>1, <2>2, <2>3, <2>4, DropStep, AuthConnAssumption
    DEF TableInv, IInv, TypeOK, Unrecorded
<1>3. CASE local[c].conn \notin DOMAIN connections
  <2>1. UNCHANGED <<fdToConnId, local>> /\ pc' = [pc EXCEPT ![c] = "done"]
    BY <1>3 DEF Disconnect
  <2>2. TableQuiet
    BY <1>1, <2>1, AuthConnAssumption
    DEF TableQuiet, Settled, Unrecorded, TableInv, LeftBehind, IInv, TypeOK
  <2> QED
    BY <2>2, TableStutters
<1> QED
  BY <1>2, <1>3

LEMMA NextTable ==
    ASSUME TableInv, [Next]_vars
    PROVE  TableInv' /\ [Table!Next]_<<DOMAIN fdToConnId, Retired>>
<1>1. CASE UNCHANGED vars
  <2>1. TableQuiet
    BY <1>1 DEF vars, svcVars, connVars, sockVars, procVars, TableQuiet, Settled, Unrecorded,
                TableInv, LeftBehind
  <2> QED
    BY <2>1, TableStutters, NextKeeps DEF TableStep, TableInv
<1>2. ASSUME NEW o \in Openers, OpenConn(o) \/ OpenerStep(o) PROVE TableStep
  BY <1>2, OpenerQuiet, TableStutters
<1>3. ASSUME NEW h \in ChannelOpeners, OpenChannel(h) \/ CloseChannel(h) PROVE TableStep
  BY <1>3, ChannelOpenerQuiet, TableStutters
<1>4. ASSUME NEW d \in Dialers, DialerStep(d) PROVE TableStep
  BY <1>4, DialerQuiet, TableStutters, MatchRequestRecords, NoRequestAbandons DEF DialerStep
<1>5. ASSUME NEW s \in Acceptors,
             \/ Accept(s) \/ ReceiveSdk(s) \/ StopListener(s) \/ ReadFails(s)
             \/ AcceptorStep(s)
      PROVE  TableStep
  BY <1>5, AcceptorQuiet, TableStutters, InsertServerConnRecords, GetConnInfoAbandons,
     ForgetConnDrops DEF AcceptorStep
<1>6. ASSUME NEW c \in Closers, CloseConn(c) \/ CloserStep(c) PROVE TableStep
  BY <1>6, CloserQuiet, TableStutters, DisconnectDrops DEF CloserStep
<1>7. ASSUME NEW a \in DOMAIN sessions, NEW result \in Results, AuthDone(a, result)
      PROVE  TableStep
  <2>1. TableQuiet
    BY <1>7 DEF AuthDone, connVars, sockVars, procVars, TableQuiet, Settled, Unrecorded,
                TableInv, LeftBehind
  <2> QED
    BY <2>1, TableStutters
<1>8. CASE Next
  <2>1. TableStep
    BY <1>2, <1>3, <1>4, <1>5, <1>6, <1>7, <1>8 DEF Next
  <2> QED
    BY <2>1, NextKeeps DEF TableStep, TableInv
<1> QED
  BY <1>1, <1>8

LEMMA InitTable == Init => TableInv /\ Table!Init
<1> SUFFICES ASSUME Init PROVE TableInv /\ Table!Init
  OBVIOUS
<1>1. DOMAIN fdToConnId = {}
  BY DEF Init, EmptyMap
<1>2. Retired = {}
  <2>1. \A q \in Owners : local[q].fd = None
    BY DEF Init
  <2> QED
    BY <2>1 DEF Retired
<1>3. RecordedHeld /\ LeftBehind
  BY <1>1 DEF Init, RecordedHeld, LeftBehind
<1> QED
  BY <1>1, <1>2, <1>3, InitIInv DEF TableInv, Table!Init

THEOREM TableInvariance == Spec => []TableInv
  BY InitTable, NextTable, PTL DEF Spec

(* What handleConnection leaves in no table when it has returned, whoever  *)
(* closed the connection: neither its fd in fdToConnId nor its socket.     *)
THEOREM FinishedAreForgotten == Spec => []FinishedForgotten
<1>1. TableInv => FinishedForgotten
  BY DEF TableInv, LeftBehind, FinishedForgotten
<1> QED
  BY <1>1, TableInvariance, PTL

(* The connection table implements ConnLifecycle: every step of every      *)
(* goroutine records, drops or abandons one connection, or none.           *)
THEOREM ImplementsConnLifecycle == Spec => TableSpec
<1>1. Init => Table!Init
  BY InitTable
<1>2. TableInv /\ [Next]_vars => [Table!Next]_<<DOMAIN fdToConnId, Retired>>
  BY NextTable
<1> QED
  BY <1>1, <1>2, TableInvariance, PTL DEF Spec, TableSpec, Table!Spec

-----------------------------------------------------------------------------
(* Requests and managers: a request that is awaited, and that is the one of *)
(* one open call only, has its manager.                                    *)

RequestStep ==
    /\ AuthIdsGiven' /\ UsedConnected' /\ AwaitedHasManager'
    /\ RequestsDistinct' /\ TakenOnce' /\ RequestsMade'

\* What an opener is in the middle of when its manager waits.
Opening(o) == pc[o] \in {"store", "dial", "drop", "report", "cleanup"}

\* A step that changes no manager it leaves, lets nobody wait that has not
\* waited, and takes no manager that is waited for.
NobodyWaitsMore ==
    /\ \A a \in DOMAIN managers' : a \in DOMAIN managers /\ managers'[a] = managers[a]
    /\ AuthIdsGiven'
    /\ TakenOnce'
    /\ \A a \in DOMAIN managers : InUse(a)' => InUse(a)
    /\ \A r \in Requests : Awaited(r)' /\ Alone(r) =>
         /\ Awaited(r)
         /\ \A a \in DOMAIN managers :
              managers[a].req = r /\ managers[a].conn = None => a \in DOMAIN managers'
    /\ \A o \in Openers :
         /\ pc'[o] = "idle" => pc[o] = "idle"
         /\ pc'[o] \in {"report", "cleanup"} /\ Alone(RequestOf[o]) => ~Awaited(RequestOf[o])'
         /\ Opening(o)' => Opening(o) /\ local'[o].authId = local[o].authId

LEMMA NobodyWaitsMoreKeeps ==
    ASSUME RequestInv, NobodyWaitsMore PROVE RequestStep
<1>1. UsedConnected'
  BY DEF RequestInv, UsedConnected, NobodyWaitsMore
<1>2. AwaitedHasManager'
  <2> SUFFICES ASSUME NEW r \in Requests, Awaited(r)', Alone(r)
               PROVE  \E a \in DOMAIN managers' : managers'[a].req = r /\ managers'[a].conn = None
    BY DEF AwaitedHasManager
  <2>1. PICK a \in DOMAIN managers : managers[a].req = r /\ managers[a].conn = None
    BY DEF RequestInv, AwaitedHasManager, NobodyWaitsMore
  <2>2. a \in DOMAIN managers' /\ managers'[a] = managers[a]
    BY <2>1 DEF NobodyWaitsMore
  <2> QED
    BY <2>1, <2>2
<1>3. RequestsDistinct'
  BY DEF RequestInv, RequestsDistinct, NobodyWaitsMore
<1>4. RequestsMade'
  <2> SUFFICES ASSUME NEW o \in Openers
               PROVE  /\ pc'[o] = "idle" /\ Alone(RequestOf[o]) =>
                           \A a \in DOMAIN managers' : managers'[a].req # RequestOf[o]
                      /\ pc'[o] \in {"idle", "report", "cleanup"} /\ Alone(RequestOf[o]) =>
                           ~Awaited(RequestOf[o])'
                      /\ Opening(o)' =>
                           /\ local'[o].authId # None
                           /\ local'[o].authId \in DOMAIN managers' =>
                                managers'[local'[o].authId].req = RequestOf[o]
    BY DEF RequestsMade, Opening
  <2>1. RequestOf[o] \in Requests
    BY DEF Requests
  <2>2. pc'[o] = "idle" /\ Alone(RequestOf[o]) =>
          \A a \in DOMAIN managers' : managers'[a].req # RequestOf[o]
    BY DEF RequestInv, RequestsMade, NobodyWaitsMore
  <2>3. pc'[o] \in {"idle", "report", "cleanup"} /\ Alone(RequestOf[o]) =>
          ~Awaited(RequestOf[o])'
    BY <2>1 DEF RequestInv, RequestsMade, NobodyWaitsMore
  <2>4. Opening(o)' => /\ local'[o].authId # None
                       /\ local'[o].authId \in DOMAIN managers' =>
                           managers'[local'[o].authId].req = RequestOf[o]
    BY DEF RequestInv, RequestsMade, NobodyWaitsMore, Opening
  <2> QED
    BY <2>2, <2>3, <2>4
<1> QED
  BY <1>1, <1>2, <1>3, <1>4 DEF RequestStep, NobodyWaitsMore

\* A step below the managers: no table of AuthManagerService changes, no
\* request, and no goroutine enters a phase that waits for a manager or has one.
BelowManagers ==
    /\ UNCHANGED <<managers, connIdToAuthId, nextAuthId, requests>>
    /\ DOMAIN sessions' = DOMAIN sessions
    /\ \A p \in Procs :
         /\ local'[p].authId = local[p].authId
         /\ local'[p].req = local[p].req
         /\ \A l \in {"idle", "store", "result", "session", "accepted"} : pc'[p] = l => pc[p] = l
         /\ pc'[p] \in {"report", "cleanup"} => pc'[p] = pc[p]
         /\ pc'[p] \in {"dial", "drop"} => pc[p] = "dial" \/ pc'[p] = pc[p] \/ p \notin Openers

LEMMA BelowManagersKeeps ==
    ASSUME RequestInv, BelowManagers PROVE RequestStep
<1>1. AuthIdsGiven'
  BY DEF RequestInv, AuthIdsGiven, BelowManagers
<1>2. \A a \in DOMAIN managers : InUse(a)' => InUse(a)
  BY DEF InUse, BelowManagers
<1>3. \A r \in Requests : Awaited(r)' => Awaited(r)
  BY DEF Awaited, BelowManagers
<1>4. \A o \in Openers :
        /\ pc'[o] = "idle" => pc[o] = "idle"
        /\ pc'[o] \in {"report", "cleanup"} /\ Alone(RequestOf[o]) => ~Awaited(RequestOf[o])'
        /\ Opening(o)' => Opening(o) /\ local'[o].authId = local[o].authId
  BY <1>3 DEF Requests, RequestInv, RequestsMade, BelowManagers, Opening
<1>5. TakenOnce'
  BY DEF RequestInv, TakenOnce, BelowManagers
<1>6. NobodyWaitsMore
  BY <1>1, <1>2, <1>3, <1>4, <1>5 DEF NobodyWaitsMore, BelowManagers
<1> QED
  BY <1>6, NobodyWaitsMoreKeeps

LEMMA BelowManagersSteps ==
    ASSUME RequestInv,
           \/ \E h \in ChannelOpeners : OpenChannel(h) \/ CloseChannel(h)
           \/ \E d \in Dialers :
                \/ DialOk(d) \/ DialFail(d) \/ NoRequest(d)
                \/ pc[d] = "result" /\ NoManager(d)
           \/ \E s \in Acceptors :
                \/ Accept(s) \/ GetConnInfo(s) \/ InsertServerConn(s) \/ ReceiveSdk(s)
                \/ StopListener(s) \/ ReadFails(s) \/ ForgetConn(s) \/ Unregister(s)
           \/ \E c \in Closers : CloserStep(c)
           \/ \E a \in DOMAIN sessions, result \in Results : AuthDone(a, result)
    PROVE  BelowManagers
<1> USE AuthConnAssumption DEF BelowManagers, RequestInv, IInv, TypeOK, LocalsSet, svcVars,
                               connVars, sockVars, procVars
<1>1. ASSUME NEW h \in ChannelOpeners, OpenChannel(h) \/ CloseChannel(h) PROVE BelowManagers
  BY <1>1 DEF OpenChannel, CloseChannel
<1>2. ASSUME NEW d \in Dialers, DialOk(d) PROVE BelowManagers
  BY <1>2, SetFd DEF DialOk
<1>3. ASSUME NEW d \in Dialers,
             DialFail(d) \/ NoRequest(d) \/ (pc[d] = "result" /\ NoManager(d))
      PROVE  BelowManagers
  BY <1>3 DEF DialFail, NoRequest, NoManager
<1>4. ASSUME NEW s \in Acceptors, Accept(s) PROVE BelowManagers
  BY <1>4, SetFd DEF Accept
<1>5. ASSUME NEW s \in Acceptors, GetConnInfo(s) \/ InsertServerConn(s) PROVE BelowManagers
  BY <1>5, ZenonT(40) DEF GetConnInfo, InsertServerConn
<1>6. ASSUME NEW s \in Acceptors, ReceiveSdk(s) PROVE BelowManagers
  <2>1. fdToConnId[local[s].fd] \in ConnIds
    BY <1>6 DEF ReceiveSdk, IsMap
  <2> QED
    BY <1>6, <2>1, SetConn DEF ReceiveSdk
<1>7. ASSUME NEW s \in Acceptors, StopListener(s) \/ ReadFails(s) \/ Unregister(s)
      PROVE  BelowManagers
  BY <1>7 DEF StopListener, ReadFails, Unregister
<1>8. ASSUME NEW s \in Acceptors, ForgetConn(s) PROVE BelowManagers
  <2>1. \A fd \in DOMAIN fdToConnId : fdToConnId[fd] \in ConnIds
    BY DEF IsMap
  <2>2. \A p \in Procs : local'[p].authId = local[p].authId /\ local'[p].req = local[p].req
    BY <1>8, <2>1, SetConn DEF ForgetConn
  <2> QED
    BY <1>8, <2>2 DEF ForgetConn
<1>9. ASSUME NEW c \in Closers, Disconnect(c) PROVE BelowManagers
  <2>1. \A e \in DOMAIN connections : connections[e].fd \in Nat
    BY DEF IsMap, Connections
  <2>2. \A p \in Procs : local'[p].authId = local[p].authId /\ local'[p].req = local[p].req
    <3>1. \/ UNCHANGED local
          \/ local' = [local EXCEPT ![c].fd = connections[local[c].conn].fd]
             /\ local[c].conn \in DOMAIN connections
      BY <1>9 DEF Disconnect
    <3>2. CASE local[c].conn \in DOMAIN connections
      <4>1. PICK fd \in Nat : fd = connections[local[c].conn].fd
        BY <2>1, <3>2
      <4>2. UNCHANGED local \/ local' = [local EXCEPT ![c].fd = fd]
        BY <3>1, <4>1
      <4> QED
        BY <4>2 DEF Locals
    <3> QED
      BY <3>1, <3>2
  <2> QED
    BY <1>9, <2>2 DEF Disconnect
<1>10. ASSUME NEW c \in Closers, CloseSocket(c) PROVE BelowManagers
  BY <1>10 DEF CloseSocket
<1>11. ASSUME NEW a \in DOMAIN sessions, NEW result \in Results, AuthDone(a, result)
       PROVE  BelowManagers
  BY <1>11 DEF AuthDone
<1> QED
  BY <1>1, <1>2, <1>3, <1>4, <1>5, <1>6, <1>7, <1>8, <1>9, <1>10, <1>11 DEF CloserStep

(* Somebody who reports a result holds manager.mu: when it is free nobody  *)
(* does.                                                                   *)
LEMMA MuFreeNoResult ==
    ASSUME RequestInv, MuFree PROVE \A d \in Dialers : pc[d] # "result"
  BY AuthConnAssumption DEF RequestInv, IInv, LockKept

LEMMA RequestIds ==
    /\ \A o \in Openers : RequestOf[o] \in Requests
    /\ 0 \notin Requests /\ Requests \subseteq Nat
  BY AuthConnAssumption DEF Requests

LEMMA StoreRequestWaits ==
    ASSUME RequestInv, NEW o \in Openers, StoreRequest(o) PROVE NobodyWaitsMore
<1> USE AuthConnAssumption DEF RequestInv, IInv, TypeOK, StoreRequest, svcVars, sockVars
<1>1. \A d \in Dialers : pc[d] # "result"
  BY MuFreeNoResult
<1>2. DOMAIN requests' = DOMAIN requests \cup {RequestOf[o]}
  BY DEF Put
<1>3. pc[o] = "store" /\ pc' = [pc EXCEPT ![o] = "dial"]
      /\ UNCHANGED <<managers, connIdToAuthId, nextAuthId, sessions, local>>
  OBVIOUS
<1>4. AuthIdsGiven' /\ \A a \in DOMAIN managers : InUse(a)' => InUse(a)
  BY <1>3 DEF AuthIdsGiven, InUse
<1>5. TakenOnce'
  BY <1>1, <1>2, <1>3 DEF TakenOnce, Alone
<1>6. \A r \in Requests : Awaited(r)' => Awaited(r)
  BY <1>2, <1>3 DEF Awaited
<1>7. \A p \in Openers :
        /\ pc'[p] = "idle" => pc[p] = "idle"
        /\ pc'[p] \in {"report", "cleanup"} /\ Alone(RequestOf[p]) => ~Awaited(RequestOf[p])'
        /\ Opening(p)' => Opening(p) /\ local'[p].authId = local[p].authId
  BY <1>3, <1>6, RequestIds DEF RequestsMade, Opening
<1> QED
  BY <1>3, <1>4, <1>5, <1>6, <1>7 DEF NobodyWaitsMore

LEMMA DropRequestWaits ==
    ASSUME RequestInv, NEW o \in Openers, DropRequest(o) PROVE NobodyWaitsMore
<1> USE AuthConnAssumption DEF RequestInv, IInv, TypeOK, DropRequest, svcVars, sockVars
<1>1. \A d \in Dialers : pc[d] # "result"
  BY MuFreeNoResult
<1>2. DOMAIN requests' = DOMAIN requests \ {RequestOf[o]}
  BY DEF Del
<1>3. pc[o] = "drop" /\ pc' = [pc EXCEPT ![o] = "report"]
      /\ UNCHANGED <<managers, connIdToAuthId, nextAuthId, sessions, local>>
  OBVIOUS
<1>4. AuthIdsGiven' /\ \A a \in DOMAIN managers : InUse(a)' => InUse(a)
  BY <1>3 DEF AuthIdsGiven, InUse
<1>5. TakenOnce'
  BY <1>1, <1>2, <1>3 DEF TakenOnce
<1>6. \A r \in Requests : Awaited(r)' => Awaited(r)
  BY <1>2, <1>3 DEF Awaited
<1>7. Alone(RequestOf[o]) => ~Awaited(RequestOf[o])'
  BY <1>1, <1>2, <1>3 DEF Awaited, Alone
<1>8. \A p \in Openers :
        /\ pc'[p] = "idle" => pc[p] = "idle"
        /\ pc'[p] \in {"report", "cleanup"} /\ Alone(RequestOf[p]) => ~Awaited(RequestOf[p])'
        /\ Opening(p)' => Opening(p) /\ local'[p].authId = local[p].authId
  BY <1>3, <1>6, <1>7, RequestIds DEF RequestsMade, Opening
<1> QED
  BY <1>3, <1>4, <1>5, <1>6, <1>8 DEF NobodyWaitsMore

(* An open call that fails removes managers of its own request id, which    *)
(* nobody awaits any more unless another open call has it too.             *)
LEMMA FailureWaits ==
    ASSUME RequestInv, NEW o \in Openers, ReportFailure(o) \/ CleanupManager(o)
    PROVE  NobodyWaitsMore
<1> USE AuthConnAssumption DEF RequestInv, IInv, TypeOK, connVars, sockVars
<1>1. /\ pc[o] \in {"report", "cleanup"}
      /\ pc' = [pc EXCEPT ![o] = "cleanup"] \/ pc' = [pc EXCEPT ![o] = "failed"]
      /\ UNCHANGED <<connIdToAuthId, nextAuthId, sessions, requests, local>>
  BY DEF ReportFailure, CleanupManager
<1>2. /\ \A a \in DOMAIN managers' : a \in DOMAIN managers /\ managers'[a] = managers[a]
      /\ \A a \in DOMAIN managers : managers[a].req # RequestOf[o] => a \in DOMAIN managers'
  <2>1. CASE ReportFailure(o)
    BY <2>1 DEF ReportFailure, Del
  <2>2. CASE CleanupManager(o)
    BY <2>2 DEF CleanupManager, Del, RequestsMade
  <2> QED
    BY <2>1, <2>2
<1>3. AuthIdsGiven' /\ \A a \in DOMAIN managers : InUse(a)' => InUse(a)
  BY <1>1, <1>2 DEF AuthIdsGiven, InUse
<1>4. TakenOnce'
  BY <1>1 DEF TakenOnce
<1>5. \A r \in Requests : Awaited(r)' => Awaited(r)
  BY <1>1 DEF Awaited
<1>6. Alone(RequestOf[o]) => ~Awaited(RequestOf[o])
  BY <1>1 DEF RequestsMade
<1>7. \A p \in Openers :
        /\ pc'[p] = "idle" => pc[p] = "idle"
        /\ pc'[p] \in {"report", "cleanup"} /\ Alone(RequestOf[p]) => ~Awaited(RequestOf[p])'
        /\ Opening(p)' => Opening(p) /\ local'[p].authId = local[p].authId
  BY <1>1, <1>5, <1>6, RequestIds DEF RequestsMade, Opening
<1> QED
  BY <1>2, <1>3, <1>4, <1>5, <1>6, <1>7 DEF NobodyWaitsMore

LEMMA MatchRequestWaits ==
    ASSUME RequestInv, NEW d \in Dialers, MatchRequest(d) PROVE NobodyWaitsMore
<1> USE AuthConnAssumption DEF RequestInv, IInv, TypeOK, MatchRequest, svcVars, sockVars
<1>1. \A e \in Dialers : pc[e] # "result"
  BY MuFreeNoResult
<1>2. PICK r \in DOMAIN requests :
        /\ requests' = Del(requests, r)
        /\ local' = [local EXCEPT ![d].req = r,
                                  ![d].conn = GenConnId(requests[r].type, local[d].fd)]
  OBVIOUS
<1>3. r \in Requests
  BY DEF IsMap
<1>4. /\ local'[d].req = r
      /\ \A p \in Procs : local'[p].authId = local[p].authId
  BY <1>2 DEF Locals
<1>5. DOMAIN requests' = DOMAIN requests \ {r}
  BY <1>2 DEF Del
<1>6. pc[d] = "connected" /\ pc' = [pc EXCEPT ![d] = "result"]
      /\ UNCHANGED <<managers, connIdToAuthId, nextAuthId, sessions>>
  OBVIOUS
<1>7. AuthIdsGiven' /\ \A a \in DOMAIN managers : InUse(a)' => InUse(a)
  BY <1>4, <1>6 DEF AuthIdsGiven, InUse
<1>8. TakenOnce'
  BY <1>1, <1>3, <1>4, <1>5, <1>6 DEF TakenOnce
<1>9. \A q \in Requests : Awaited(q)' => Awaited(q)
  BY <1>1, <1>4, <1>5, <1>6 DEF Awaited
<1>10. \A p \in Openers :
        /\ pc'[p] = "idle" => pc[p] = "idle"
        /\ pc'[p] \in {"report", "cleanup"} /\ Alone(RequestOf[p]) => ~Awaited(RequestOf[p])'
        /\ Opening(p)' => Opening(p) /\ local'[p].authId = local[p].authId
  BY <1>4, <1>6, <1>9, RequestIds DEF RequestsMade, Opening
<1> QED
  BY <1>6, <1>7, <1>8, <1>9, <1>10 DEF NobodyWaitsMore

(* A session starts for a manager that has its connection.                 *)
LEMMA SessionWaits ==
    ASSUME RequestInv, NEW p \in Owners,
           \/ p \in Dialers /\ StartSession(p)
           \/ p \in Acceptors /\ StartServerSession(p)
    PROVE  NobodyWaitsMore
<1> USE AuthConnAssumption DEF RequestInv, IInv, TypeOK, connVars, sockVars
<1>1. /\ pc[p] \in {"session", "accepted"}
      /\ pc' = [pc EXCEPT ![p] = "returned"] \/ pc' = [pc EXCEPT ![p] = "reading"]
      /\ UNCHANGED <<managers, connIdToAuthId, nextAuthId, requests, local>>
      /\ DOMAIN sessions' \subseteq DOMAIN sessions \cup {local[p].authId}
  BY DEF StartSession, StartServerSession, Put
<1>2. local[p].authId # None
  BY <1>1 DEF LocalsSet
<1>3. AuthIdsGiven'
  BY <1>1, <1>2 DEF AuthIdsGiven
<1>4. \A a \in DOMAIN managers : InUse(a)' => InUse(a)
  BY <1>1 DEF InUse
<1>5. TakenOnce'
  BY <1>1 DEF TakenOnce
<1>6. \A r \in Requests : Awaited(r)' => Awaited(r)
  BY <1>1 DEF Awaited
<1>7. \A o \in Openers :
        /\ pc'[o] = "idle" => pc[o] = "idle"
        /\ pc'[o] \in {"report", "cleanup"} /\ Alone(RequestOf[o]) => ~Awaited(RequestOf[o])'
        /\ Opening(o)' => Opening(o) /\ local'[o].authId = local[o].authId
  BY <1>1, <1>6, RequestIds DEF RequestsMade, Opening
<1> QED
  BY <1>1, <1>3, <1>4, <1>5, <1>6, <1>7 DEF NobodyWaitsMore

(* A close or a disconnect takes a manager that is in use.                 *)
LEMMA UnmapManagerWaits ==
    ASSUME RequestInv, NEW s \in Acceptors, UnmapManager(s) PROVE NobodyWaitsMore
<1> USE AuthConnAssumption DEF RequestInv, IInv, TypeOK, UnmapManager, connVars, sockVars
<1>1. /\ pc[s] = "unmap" /\ pc' = [pc EXCEPT ![s] = "unregister"]
      /\ UNCHANGED <<nextAuthId, sessions, requests, local>>
  OBVIOUS
<1>2. /\ \A a \in DOMAIN managers' : a \in DOMAIN managers /\ managers'[a] = managers[a]
      /\ \A c \in DOMAIN connIdToAuthId' :
           c \in DOMAIN connIdToAuthId /\ connIdToAuthId'[c] = connIdToAuthId[c]
      /\ \A a \in DOMAIN managers : InUse(a) \/ a \in DOMAIN managers'
  BY DEF RemoveManager, Del, InUse
<1>3. AuthIdsGiven'
  BY <1>1, <1>2 DEF AuthIdsGiven
<1>4. \A a \in DOMAIN managers : InUse(a)' => InUse(a)
  BY <1>1, <1>2 DEF InUse
<1>5. TakenOnce'
  BY <1>1 DEF TakenOnce
<1>6. \A r \in Requests : Awaited(r)' => Awaited(r)
  BY <1>1 DEF Awaited
<1>7. \A o \in Openers :
        /\ pc'[o] = "idle" => pc[o] = "idle"
        /\ pc'[o] \in {"report", "cleanup"} /\ Alone(RequestOf[o]) => ~Awaited(RequestOf[o])'
        /\ Opening(o)' => Opening(o) /\ local'[o].authId = local[o].authId
  BY <1>1, <1>6, RequestIds DEF RequestsMade, Opening
<1>8. \A a \in DOMAIN managers : managers[a].conn = None => a \in DOMAIN managers'
  BY <1>2 DEF UsedConnected
<1> QED
  BY <1>2, <1>3, <1>4, <1>5, <1>6, <1>7, <1>8 DEF NobodyWaitsMore

LEMMA CloseConnWaits ==
    ASSUME RequestInv, NEW e \in Closers, CloseConn(e) PROVE NobodyWaitsMore
<1> USE AuthConnAssumption DEF RequestInv, IInv, TypeOK, CloseConn, connVars, sockVars
<1>1. /\ pc[e] = "idle" /\ UNCHANGED <<nextAuthId, sessions, requests>>
      /\ pc' = [pc EXCEPT ![e] = "disconnect"] \/ pc' = [pc EXCEPT ![e] = "done"]
  OBVIOUS
<1>2. /\ \A a \in DOMAIN managers' : a \in DOMAIN managers /\ managers'[a] = managers[a]
      /\ \A c \in DOMAIN connIdToAuthId' :
           c \in DOMAIN connIdToAuthId /\ connIdToAuthId'[c] = connIdToAuthId[c]
      /\ \A a \in DOMAIN managers : InUse(a) \/ a \in DOMAIN managers'
  BY DEF RemoveManager, Del, InUse
<1>0. \A p \in Procs : local'[p].authId = local[p].authId /\ local'[p].req = local[p].req
  <2>1. \/ UNCHANGED local
        \/ \E a \in DOMAIN managers : local' = [local EXCEPT ![e].conn = managers[a].conn]
    OBVIOUS
  <2>2. \A a \in DOMAIN managers : managers[a].conn \in ConnIds \cup {None}
    BY DEF IsMap, Managers
  <2> QED
    BY <2>1, <2>2, SetConn
<1>3. AuthIdsGiven'
  BY <1>0, <1>1, <1>2 DEF AuthIdsGiven
<1>4. \A a \in DOMAIN managers : InUse(a)' => InUse(a)
  BY <1>0, <1>1, <1>2 DEF InUse
<1>5. TakenOnce'
  BY <1>0, <1>1 DEF TakenOnce
<1>6. \A r \in Requests : Awaited(r)' => Awaited(r)
  BY <1>0, <1>1 DEF Awaited
<1>7. \A o \in Openers :
        /\ pc'[o] = "idle" => pc[o] = "idle"
        /\ pc'[o] \in {"report", "cleanup"} /\ Alone(RequestOf[o]) => ~Awaited(RequestOf[o])'
        /\ Opening(o)' => Opening(o) /\ local'[o].authId = local[o].authId
  BY <1>0, <1>1, <1>6, RequestIds DEF RequestsMade, Opening
<1>8. \A a \in DOMAIN managers : managers[a].conn = None => a \in DOMAIN managers'
  BY <1>2 DEF UsedConnected
<1> QED
  BY <1>2, <1>3, <1>4, <1>5, <1>6, <1>7, <1>8 DEF NobodyWaitsMore

(* The manager of a new open call waits; nobody else does or ceases to.    *)
LEMMA OpenConnRequests ==
    ASSUME RequestInv, NEW o \in Openers, OpenConn(o) PROVE RequestStep
<1> USE AuthConnAssumption DEF RequestInv, IInv, TypeOK, OpenConn, connVars, sockVars
<1>1. /\ pc[o] = "idle" /\ pc' = [pc EXCEPT ![o] = "store"]
      /\ nextAuthId' = nextAuthId + 1 /\ nextAuthId \in Nat
      /\ UNCHANGED <<connIdToAuthId, sessions, requests>>
  OBVIOUS
<1>2. /\ local'[o].authId = nextAuthId
      /\ \A p \in Procs : p # o => local'[p] = local[p]
      /\ \A p \in Procs : local'[p].req = local[p].req
  BY SetAuthId
<1>3. nextAuthId \notin DOMAIN managers
  BY <1>1 DEF AuthIdsGiven
<1>4. /\ DOMAIN managers' = DOMAIN managers \cup {nextAuthId}
      /\ managers'[nextAuthId].req = RequestOf[o]
      /\ managers'[nextAuthId].conn = None
      /\ \A a \in DOMAIN managers : managers'[a] = managers[a]
  BY <1>3 DEF Put
<1>5. AuthIdsGiven'
  <2>1. \A a \in DOMAIN managers \cup DOMAIN sessions : a \in Nat /\ a < nextAuthId
    BY DEF IsMap, AuthIdsGiven
  <2>2. \A c \in DOMAIN connIdToAuthId :
          connIdToAuthId[c] \in Nat /\ connIdToAuthId[c] < nextAuthId
    BY DEF IsMap, AuthIdsGiven
  <2>3. \A p \in Procs : local[p].authId # None =>
          local[p].authId \in Nat /\ local[p].authId < nextAuthId
    BY DEF Locals, AuthIdsGiven
  <2>4. \A p \in Procs : local'[p].authId # None => local'[p].authId < nextAuthId'
    BY <1>1, <1>2, <2>3
  <2>5. \A a \in DOMAIN managers' \cup DOMAIN sessions' : a < nextAuthId'
    BY <1>1, <1>4, <2>1
  <2>6. \A c \in DOMAIN connIdToAuthId' : connIdToAuthId'[c] < nextAuthId'
    BY <1>1, <2>2
  <2> QED
    BY <2>4, <2>5, <2>6 DEF AuthIdsGiven
<1>6. \A a : InUse(a)' => InUse(a)
  BY <1>1, <1>2 DEF InUse
<1>7. ~InUse(nextAuthId)
  BY <1>1 DEF InUse, AuthIdsGiven, LocalsSet
<1>8. UsedConnected'
  BY <1>4, <1>6, <1>7 DEF UsedConnected
<1>9. \A r \in Requests : Awaited(r)' => Awaited(r) \/ r = RequestOf[o]
  BY <1>1, <1>2 DEF Awaited
<1>10. AwaitedHasManager'
  <2> SUFFICES ASSUME NEW r \in Requests, Awaited(r)', Alone(r)
               PROVE  \E a \in DOMAIN managers' : managers'[a].req = r /\ managers'[a].conn = None
    BY DEF AwaitedHasManager
  <2>1. CASE r = RequestOf[o]
    BY <1>4, <2>1
  <2>2. CASE Awaited(r)
    <3>1. PICK a \in DOMAIN managers : managers[a].req = r /\ managers[a].conn = None
      BY <2>2 DEF AwaitedHasManager
    <3> QED
      BY <1>4, <3>1
  <2> QED
    BY <1>9, <2>1, <2>2
<1>11. Alone(RequestOf[o]) => \A a \in DOMAIN managers : managers[a].req # RequestOf[o]
  BY <1>1 DEF RequestsMade
<1>12. RequestsDistinct'
  <2> SUFFICES ASSUME NEW a \in DOMAIN managers', NEW b \in DOMAIN managers',
                      managers'[a].req # 0, Alone(managers'[a].req),
                      managers'[a].req = managers'[b].req
               PROVE  a = b
    BY DEF RequestsDistinct
  <2>1. CASE a \in DOMAIN managers /\ b \in DOMAIN managers
    BY <1>4, <2>1 DEF RequestsDistinct
  <2>2. CASE a = nextAuthId \/ b = nextAuthId
    BY <1>4, <1>11, <2>2
  <2> QED
    BY <1>4, <2>1, <2>2
<1>13. Alone(RequestOf[o]) => ~Awaited(RequestOf[o])
  BY <1>1 DEF RequestsMade
<1>14. TakenOnce'
  BY <1>1, <1>2, <1>13 DEF TakenOnce, Awaited, Alone
<1>15. RequestsMade'
  <2> SUFFICES ASSUME NEW p \in Openers
               PROVE  /\ pc'[p] = "idle" /\ Alone(RequestOf[p]) =>
                           \A a \in DOMAIN managers' : managers'[a].req # RequestOf[p]
                      /\ pc'[p] \in {"idle", "report", "cleanup"} /\ Alone(RequestOf[p]) =>
                           ~Awaited(RequestOf[p])'
                      /\ Opening(p)' =>
                           /\ local'[p].authId # None
                           /\ local'[p].authId \in DOMAIN managers' =>
                                managers'[local'[p].authId].req = RequestOf[p]
    BY DEF RequestsMade, Opening
  <2>1. CASE p = o
    BY <1>1, <1>2, <1>4, <2>1
  <2>2. CASE p # o
    <3>1. /\ Alone(RequestOf[p]) => RequestOf[p] # RequestOf[o]
          /\ RequestOf[p] \in Requests
      BY <2>2, RequestIds DEF Alone
    <3>2. pc'[p] = pc[p] /\ local'[p] = local[p]
      BY <1>1, <1>2, <2>2
    <3>3. local[p].authId # nextAuthId
      BY <1>1 DEF AuthIdsGiven
    <3>4. ASSUME pc'[p] = "idle", Alone(RequestOf[p]), NEW a \in DOMAIN managers'
          PROVE  managers'[a].req # RequestOf[p]
      <4>1. CASE a = nextAuthId
        BY <1>4, <3>1, <3>4, <4>1
      <4>2. CASE a \in DOMAIN managers
        <5>1. managers[a].req # RequestOf[p]
          BY <3>2, <3>4, <4>2 DEF RequestsMade
        <5> QED
          BY <1>4, <4>2, <5>1
      <4> QED
        BY <1>4, <4>1, <4>2
    <3>5. pc'[p] \in {"idle", "report", "cleanup"} /\ Alone(RequestOf[p]) =>
            ~Awaited(RequestOf[p])'
      BY <1>9, <3>1, <3>2 DEF RequestsMade
    <3>6. ASSUME Opening(p)'
          PROVE  /\ local'[p].authId # None
                 /\ local'[p].authId \in DOMAIN managers' =>
                      managers'[local'[p].authId].req = RequestOf[p]
      BY <1>4, <3>2, <3>3, <3>6 DEF RequestsMade, Opening
    <3> QED
      BY <3>4, <3>5, <3>6
  <2> QED
    BY <2>1, <2>2
<1> QED
  BY <1>5, <1>8, <1>10, <1>12, <1>14, <1>15 DEF RequestStep

(* A connection is given to the manager of the request that it took; the   *)
(* managers of other requests wait on.                                     *)
LEMMA ManagerFoundRequests ==
    ASSUME RequestInv, NEW d \in Dialers, pc[d] = "result", ManagerFound(d)
    PROVE  RequestStep
<1> USE AuthConnAssumption DEF RequestInv, IInv, TypeOK, ManagerFound, connVars, sockVars
<1> PICK r, c : r = local[d].req /\ c = local[d].conn
  OBVIOUS
<1>1. /\ pc[d] = "result" /\ pc' = [pc EXCEPT ![d] = "session"]
      /\ UNCHANGED <<nextAuthId, sessions, requests>>
  OBVIOUS
<1>2. PICK a \in DOMAIN managers :
        /\ managers[a].req = r
        /\ managers' = [managers EXCEPT ![a].conn = c]
        /\ connIdToAuthId' = Put(connIdToAuthId, c, a)
        /\ local' = [local EXCEPT ![d].authId = a]
  OBVIOUS
<1>3. a \in Nat /\ managers[a] \in Managers /\ a < nextAuthId
  BY DEF IsMap, AuthIdsGiven
<1>4. /\ local'[d].authId = a
      /\ \A p \in Procs : p # d => local'[p] = local[p]
      /\ \A p \in Procs : local'[p].req = local[p].req
  BY <1>2, <1>3, SetAuthId, ZenonT(40)
<1>5. /\ DOMAIN managers' = DOMAIN managers
      /\ managers'[a].conn = c
      /\ \A b \in DOMAIN managers : b # a => managers'[b] = managers[b]
      /\ \A b \in DOMAIN managers : managers'[b].req = managers[b].req
  BY <1>2, <1>3 DEF Managers, IsMap
<1>6. \A e \in DOMAIN connIdToAuthId' :
        \/ connIdToAuthId'[e] = a
        \/ e \in DOMAIN connIdToAuthId /\ connIdToAuthId'[e] = connIdToAuthId[e]
  BY <1>2 DEF Put
<1>7. r \in Requests /\ (Alone(r) => r \notin DOMAIN requests)
  BY <1>1 DEF TakenOnce
<1>8. c # None
  BY <1>1 DEF LocalsSet
<1>9. AuthIdsGiven'
  BY <1>1, <1>3, <1>4, <1>5, <1>6 DEF AuthIdsGiven
<1>10. \A b \in DOMAIN managers : InUse(b)' => InUse(b) \/ b = a
  BY <1>1, <1>4, <1>6 DEF InUse
<1>11. UsedConnected'
  BY <1>5, <1>8, <1>10 DEF UsedConnected
<1>12. /\ Alone(r) => ~Awaited(r)'
       /\ \A q \in Requests : Awaited(q)' => Awaited(q)
  <2>1. \A e \in Dialers : pc'[e] # "result"
    BY <1>1 DEF LockKept
  <2>2. \A p \in Openers : pc'[p] = "store" =>
          pc[p] = "store" /\ (Alone(r) => RequestOf[p] # r)
    BY <1>1 DEF TakenOnce
  <2> QED
    BY <1>1, <1>7, <2>1, <2>2 DEF Awaited
<1>13. AwaitedHasManager'
  <2> SUFFICES ASSUME NEW q \in Requests, Awaited(q)', Alone(q)
               PROVE  \E b \in DOMAIN managers' : managers'[b].req = q /\ managers'[b].conn = None
    BY DEF AwaitedHasManager
  <2>1. Awaited(q) /\ q # r
    BY <1>12
  <2>2. PICK b \in DOMAIN managers : managers[b].req = q /\ managers[b].conn = None
    BY <2>1 DEF AwaitedHasManager
  <2>3. b # a
    BY <1>2, <2>1, <2>2
  <2> QED
    BY <1>5, <2>2, <2>3
<1>14. RequestsDistinct'
  BY <1>5 DEF RequestsDistinct
<1>15. TakenOnce'
  BY <1>1, <1>4 DEF TakenOnce
<1>16. RequestsMade'
  <2> SUFFICES ASSUME NEW p \in Openers
               PROVE  /\ pc'[p] = "idle" /\ Alone(RequestOf[p]) =>
                           \A b \in DOMAIN managers' : managers'[b].req # RequestOf[p]
                      /\ pc'[p] \in {"idle", "report", "cleanup"} /\ Alone(RequestOf[p]) =>
                           ~Awaited(RequestOf[p])'
                      /\ Opening(p)' =>
                           /\ local'[p].authId # None
                           /\ local'[p].authId \in DOMAIN managers' =>
                                managers'[local'[p].authId].req = RequestOf[p]
    BY DEF RequestsMade, Opening
  <2>1. pc'[p] = "idle" /\ Alone(RequestOf[p]) =>
          \A b \in DOMAIN managers' : managers'[b].req # RequestOf[p]
    BY <1>1, <1>5 DEF RequestsMade
  <2>2. pc'[p] \in {"idle", "report", "cleanup"} /\ Alone(RequestOf[p]) =>
          ~Awaited(RequestOf[p])'
    BY <1>1, <1>12, RequestIds DEF RequestsMade
  <2>3. ASSUME Opening(p)'
        PROVE  /\ local'[p].authId # None
               /\ local'[p].authId \in DOMAIN managers' =>
                    managers'[local'[p].authId].req = RequestOf[p]
    BY <1>1, <1>4, <1>5, <2>3 DEF RequestsMade, Opening
  <2> QED
    BY <2>1, <2>2, <2>3
<1> QED
  BY <1>9, <1>11, <1>13, <1>14, <1>15, <1>16 DEF RequestStep

(* A connection that came in gets a manager of its own, which waits for    *)
(* nothing.                                                                *)
LEMMA DeliverRequests ==
    ASSUME RequestInv, NEW s \in Acceptors, Deliver(s) PROVE RequestStep
<1> USE AuthConnAssumption DEF RequestInv, IInv, TypeOK, connVars, sockVars
<1>1. CASE local[s].conn \in DOMAIN connIdToAuthId
  <2>1. BelowManagers
    BY <1>1 DEF Deliver, BelowManagers
  <2> QED
    BY <2>1, BelowManagersKeeps
<1>2. CASE local[s].conn \notin DOMAIN connIdToAuthId
  <2>1. /\ pc[s] = "deliver" /\ pc' = [pc EXCEPT ![s] = "accepted"]
        /\ nextAuthId' = nextAuthId + 1 /\ nextAuthId \in Nat
        /\ local' = [local EXCEPT ![s].authId = nextAuthId]
        /\ managers' = Put(managers, nextAuthId,
                           [req |-> 0, conn |-> local[s].conn, server |-> TRUE])
        /\ connIdToAuthId' = Put(connIdToAuthId, local[s].conn, nextAuthId)
        /\ UNCHANGED <<sessions, requests>>
    BY <1>2 DEF Deliver
  <2>2. /\ local'[s].authId = nextAuthId
        /\ \A p \in Procs : p # s => local'[p] = local[p]
        /\ \A p \in Procs : local'[p].req = local[p].req
    BY <2>1, SetAuthId
  <2>3. nextAuthId \notin DOMAIN managers /\ local[s].conn # None
    BY <2>1 DEF AuthIdsGiven, LocalsSet
  <2>4. /\ DOMAIN managers' = DOMAIN managers \cup {nextAuthId}
        /\ managers'[nextAuthId].req = 0
        /\ managers'[nextAuthId].conn # None
        /\ \A a \in DOMAIN managers : managers'[a] = managers[a]
    BY <2>1, <2>3 DEF Put
  <2>5. \A c \in DOMAIN connIdToAuthId' :
          \/ connIdToAuthId'[c] = nextAuthId
          \/ c \in DOMAIN connIdToAuthId /\ connIdToAuthId'[c] = connIdToAuthId[c]
    BY <2>1 DEF Put
  <2>6. AuthIdsGiven'
    <3>1. \A a \in DOMAIN managers \cup DOMAIN sessions : a \in Nat /\ a < nextAuthId
      BY DEF IsMap, AuthIdsGiven
    <3>2. \A c \in DOMAIN connIdToAuthId :
            connIdToAuthId[c] \in Nat /\ connIdToAuthId[c] < nextAuthId
      BY DEF IsMap, AuthIdsGiven
    <3>3. \A p \in Procs : local[p].authId # None =>
            local[p].authId \in Nat /\ local[p].authId < nextAuthId
      BY DEF Locals, AuthIdsGiven
    <3>4. \A p \in Procs : local'[p].authId # None => local'[p].authId < nextAuthId'
      BY <2>1, <2>2, <3>3
    <3>5. \A a \in DOMAIN managers' \cup DOMAIN sessions' : a < nextAuthId'
      BY <2>1, <2>4, <3>1
    <3>6. \A c \in DOMAIN connIdToAuthId' : connIdToAuthId'[c] < nextAuthId'
      BY <2>1, <2>5, <3>2
    <3> QED
      BY <3>4, <3>5, <3>6 DEF AuthIdsGiven
  <2>7. \A a \in DOMAIN managers : InUse(a)' => InUse(a) \/ a = nextAuthId
    BY <2>1, <2>2, <2>5 DEF InUse
  <2>8. UsedConnected'
    BY <2>3, <2>4, <2>7 DEF UsedConnected
  <2>9. \A r \in Requests : Awaited(r)' => Awaited(r)
    BY <2>1, <2>2 DEF Awaited
  <2>10. AwaitedHasManager'
    BY <2>4, <2>9 DEF AwaitedHasManager
  <2>11. RequestsDistinct'
    BY <2>4 DEF RequestsDistinct
  <2>12. TakenOnce'
    BY <2>1, <2>2 DEF TakenOnce
  <2>13. RequestsMade'
    <3> SUFFICES ASSUME NEW p \in Openers
                 PROVE  /\ pc'[p] = "idle" /\ Alone(RequestOf[p]) =>
                             \A b \in DOMAIN managers' : managers'[b].req # RequestOf[p]
                        /\ pc'[p] \in {"idle", "report", "cleanup"} /\ Alone(RequestOf[p]) =>
                           ~Awaited(RequestOf[p])'
                        /\ Opening(p)' =>
                             /\ local'[p].authId # None
                             /\ local'[p].authId \in DOMAIN managers' =>
                                  managers'[local'[p].authId].req = RequestOf[p]
      BY DEF RequestsMade, Opening
    <3>1. pc'[p] = pc[p] /\ local'[p] = local[p] /\ local[p].authId # nextAuthId
      BY <2>1, <2>2 DEF AuthIdsGiven
    <3>2. RequestOf[p] # 0
      OBVIOUS
    <3>3. ASSUME pc'[p] = "idle", Alone(RequestOf[p]), NEW b \in DOMAIN managers'
          PROVE  managers'[b].req # RequestOf[p]
      <4>1. CASE b = nextAuthId
        BY <2>4, <3>2, <4>1
      <4>2. CASE b \in DOMAIN managers
        <5>1. managers[b].req # RequestOf[p]
          BY <3>1, <3>3, <4>2 DEF RequestsMade
        <5> QED
          BY <2>4, <4>2, <5>1
      <4> QED
        BY <2>4, <4>1, <4>2
    <3>4. pc'[p] \in {"idle", "report", "cleanup"} /\ Alone(RequestOf[p]) =>
            ~Awaited(RequestOf[p])'
      BY <2>9, <3>1, RequestIds DEF RequestsMade
    <3>5. ASSUME Opening(p)'
          PROVE  /\ local'[p].authId # None
                 /\ local'[p].authId \in DOMAIN managers' =>
                      managers'[local'[p].authId].req = RequestOf[p]
      BY <2>4, <3>1, <3>5 DEF RequestsMade, Opening
    <3> QED
      BY <3>3, <3>4, <3>5
  <2> QED
    BY <2>6, <2>8, <2>10, <2>11, <2>12, <2>13 DEF RequestStep
<1> QED
  BY <1>1, <1>2

LEMMA InitRequests == Init => RequestInv
<1> SUFFICES ASSUME Init PROVE RequestInv
  OBVIOUS
<1>1. AuthIdsGiven /\ UsedConnected
  BY DEF Init, EmptyMap, AuthIdsGiven, UsedConnected
<1>2. \A r : ~Awaited(r)
  BY AuthConnAssumption DEF Init, EmptyMap, Awaited
<1>3. AwaitedHasManager /\ RequestsDistinct /\ TakenOnce /\ RequestsMade
  BY <1>2, AuthConnAssumption
  DEF Init, EmptyMap, AwaitedHasManager, RequestsDistinct, TakenOnce, RequestsMade
<1> QED
  BY <1>1, <1>3, InitIInv DEF RequestInv

LEMMA NextRequests == RequestInv /\ [Next]_vars => RequestInv'
<1> SUFFICES ASSUME RequestInv, [Next]_vars PROVE RequestStep
  BY NextKeeps DEF RequestInv, RequestStep
<1>1. ASSUME NEW o \in Openers, OpenConn(o) \/ OpenerStep(o) PROVE RequestStep
  BY <1>1, OpenConnRequests, StoreRequestWaits, DropRequestWaits, FailureWaits,
     NobodyWaitsMoreKeeps DEF OpenerStep
<1>2. ASSUME NEW h \in ChannelOpeners, OpenChannel(h) \/ CloseChannel(h) PROVE RequestStep
  BY <1>2, BelowManagersSteps, BelowManagersKeeps
<1>3. ASSUME NEW d \in Dialers, DialerStep(d) PROVE RequestStep
  <2>1. CASE DialOk(d) \/ DialFail(d) \/ NoRequest(d) \/ (pc[d] = "result" /\ NoManager(d))
    BY <2>1, BelowManagersSteps, BelowManagersKeeps
  <2>2. CASE MatchRequest(d) \/ StartSession(d)
    BY <2>2, MatchRequestWaits, SessionWaits, NobodyWaitsMoreKeeps
  <2> QED
    BY <1>3, <2>1, <2>2, ManagerFoundRequests DEF DialerStep, ConnectResult
<1>4. ASSUME NEW s \in Acceptors,
             \/ Accept(s) \/ ReceiveSdk(s) \/ StopListener(s) \/ ReadFails(s)
             \/ AcceptorStep(s)
      PROVE  RequestStep
  <2>1. CASE \/ Accept(s) \/ GetConnInfo(s) \/ InsertServerConn(s) \/ ReceiveSdk(s)
             \/ StopListener(s) \/ ReadFails(s) \/ ForgetConn(s) \/ Unregister(s)
    BY <2>1, BelowManagersSteps, BelowManagersKeeps
  <2>2. CASE StartServerSession(s) \/ UnmapManager(s)
    BY <2>2, SessionWaits, UnmapManagerWaits, NobodyWaitsMoreKeeps
  <2> QED
    BY <1>4, <2>1, <2>2, DeliverRequests DEF AcceptorStep
<1>5. ASSUME NEW c \in Closers, CloseConn(c) \/ CloserStep(c) PROVE RequestStep
  BY <1>5, CloseConnWaits, NobodyWaitsMoreKeeps, BelowManagersSteps, BelowManagersKeeps
<1>6. ASSUME NEW a \in DOMAIN sessions, NEW result \in Results, AuthDone(a, result)
      PROVE  RequestStep
  BY <1>6, BelowManagersSteps, BelowManagersKeeps
<1>7. CASE UNCHANGED vars
  <2>1. BelowManagers
    BY <1>7 DEF vars, svcVars, connVars, procVars, BelowManagers
  <2> QED
    BY <2>1, BelowManagersKeeps
<1> QED
  BY <1>1, <1>2, <1>3, <1>4, <1>5, <1>6, <1>7 DEF Next

THEOREM RequestInvariance == Spec => []RequestInv
  BY InitRequests, NextRequests, PTL DEF Spec

(* onAuthConnectResult of a dialled connection finds the manager of the    *)
(* request that the connection took, though open calls that fail remove    *)
(* managers, and close calls and disconnects do: for every request id that  *)
(* no other open call has.  The ids are seconds of the clock, so two open   *)
(* calls may share one; of those nothing is said.                          *)
THEOREM MatchedAlwaysHasManager == Spec => []MatchedHasManager
<1>1. RequestInv => MatchedHasManager
  BY DEF RequestInv, AwaitedHasManager, Awaited, TakenOnce, MatchedHasManager
<1> QED
  BY <1>1, RequestInvariance, PTL

-----------------------------------------------------------------------------
(* The bus center is a user of AuthConn, so what AuthConn promises it may  *)
(* rely on; and a success that a join is told of is that of a join of the  *)
(* same second.                                                            *)
(*                                                                         *)
(* The argument follows the request id from the manager of the open call   *)
(* to the goroutine whose connection took it, to the session and to the    *)
(* callback: at each of them the authId is the one that an open call with  *)
(* this request id allocated.                                              *)

-----------------------------------------------------------------------------
(* The bus center only adds to AuthConn.                                   *)

LEMMA ConnStepIsNext == ConnStep => Next
  BY DEF ConnStep, Next, OpenerStep, DialerStep, AcceptorStep, CloserStep

LEMMA BusStepIsNext == [BusNext]_busVars => [Next]_vars
<1> SUFFICES ASSUME [BusNext]_busVars PROVE [Next]_vars
  OBVIOUS
<1>1. CASE UNCHANGED busVars
  BY <1>1 DEF busVars
<1>2. ASSUME NEW o \in Openers, JoinLNN(o) \/ JoinFails(o) PROVE Next
  BY <1>2 DEF JoinLNN, JoinFails, Next, OpenerStep
<1>3. ASSUME NEW d \in Dialers, JoinStartsSession(d) PROVE Next
  BY <1>3 DEF JoinStartsSession, Next, DialerStep
<1>4. ASSUME NEW s \in Acceptors, AcceptStartsSession(s) PROVE Next
  BY <1>4 DEF AcceptStartsSession, Next, AcceptorStep
<1>5. ASSUME NEW a \in DOMAIN sessions, AuthResult(a) PROVE Next
  <2>1. AuthDone(a, "failed") \/ AuthDone(a, "done")
    BY <1>5 DEF AuthResult
  <2> QED
    BY <1>5, <2>1 DEF Next, Results
<1>6. ASSUME NEW a, NotifyAuthSuccess(a) PROVE UNCHANGED vars
  BY <1>6 DEF NotifyAuthSuccess
<1>7. ASSUME NEW l \in Leavers, LeaveLNN(l) \/ LeaverStep(l) PROVE UNCHANGED vars
  BY <1>7 DEF LeaveLNN, LeaverStep, MarkOffline, UpdateNodeStatus
<1> QED
  BY <1>1, <1>2, <1>3, <1>4, <1>5, <1>6, <1>7, ConnStepIsNext DEF BusNext

(* Whatever AuthConn promises holds below the bus center: each of its      *)
(* handlers is one of AuthConn's or leaves the connections alone.          *)
THEOREM BusImplementsAuthConn == BusSpec => Spec
<1>1. BusInit => Init
  BY DEF BusInit
<1> QED
  BY <1>1, BusStepIsNext, PTL DEF BusSpec, Spec

-----------------------------------------------------------------------------
(* The callbacks of a result.                                              *)

BusStep == BusTypeOK' /\ OwnRequests'

\* A callback adds its result to the answers of joins with the request id.
LEMMA NotifyTells ==
    ASSUME BusTypeOK, NEW r, NEW result \in Nat \cup {None}, Notify(r, result)
    PROVE  /\ answers' \in [Openers -> SUBSET (Nat \cup {None})]
           /\ \A o \in Openers :
                /\ answers'[o] \subseteq answers[o] \cup {result}
                /\ RequestOf[o] # r => answers'[o] = answers[o]
  BY DEF Notify, BusTypeOK

-----------------------------------------------------------------------------
(* The steps of AuthConn.                                                  *)

\* A step that makes no manager and starts no session carries no request
\* further.
CarriesNothing ==
    /\ UNCHANGED <<ownAuthId, sessionRequest>>
    /\ DOMAIN sessions' = DOMAIN sessions
    /\ \A a \in DOMAIN managers' : a \in DOMAIN managers /\ managers'[a].req = managers[a].req
    /\ \A o \in Openers : pc'[o] = "idle" => pc[o] = "idle"
    /\ \A p \in Owners : pc'[p] \in {"session", "accepted"} =>
         /\ pc'[p] = pc[p]
         /\ local'[p].authId = local[p].authId
         /\ local'[p].req = local[p].req

\* A step that calls back no success.
TellsNoSuccess ==
    \/ UNCHANGED answers
    \/ \E r : Notify(r, Failure)

LEMMA TellsNoSuccessKeeps ==
    ASSUME BusTypeOK, TellsNoSuccess
    PROVE  /\ answers' \in [Openers -> SUBSET (Nat \cup {None})]
           /\ \A o \in Openers : answers'[o] \ {Failure} \subseteq answers[o] \ {Failure}
<1>1. CASE UNCHANGED answers
  BY <1>1 DEF BusTypeOK
<1>2. CASE \E r : Notify(r, Failure)
  BY <1>2, NotifyTells DEF Failure
<1> QED
  BY <1>1, <1>2 DEF TellsNoSuccess

LEMMA CarriesNothingKeeps ==
    ASSUME BusTypeOK, OwnRequests, CarriesNothing, TellsNoSuccess
    PROVE  OwnRequests'
<1>2. \A o \in Openers : pc'[o] = "idle" => ownAuthId'[o] = None
  BY DEF OwnRequests, CarriesNothing
<1>3. ASSUME NEW a \in DOMAIN managers' PROVE MadeFor(a, managers[a].req)'
  <2> PICK r : r = managers[a].req
    OBVIOUS
  <2>1. MadeFor(a, r) /\ managers'[a].req = r
    BY <1>3 DEF OwnRequests, CarriesNothing
  <2> QED
    BY <2>1 DEF MadeFor, CarriesNothing
<1>4. ASSUME NEW d \in Dialers, pc'[d] = "session"
      PROVE  MadeFor(local[d].authId, local[d].req)'
  <2>1. /\ MadeFor(local[d].authId, local[d].req)
        /\ local'[d].authId = local[d].authId
        /\ local'[d].req = local[d].req
    BY <1>4 DEF OwnRequests, CarriesNothing
  <2> QED
    BY <2>1 DEF MadeFor, CarriesNothing
<1>5. ASSUME NEW a \in DOMAIN sessionRequest' PROVE MadeFor(a, sessionRequest[a])'
  BY <1>5 DEF OwnRequests, CarriesNothing, MadeFor
<1>6. ASSUME NEW o \in Openers, NEW a \in answers'[o] \ {Failure}
      PROVE  MadeFor(a, RequestOf[o])'
  <2>1. MadeFor(a, RequestOf[o])
    BY <1>6, TellsNoSuccessKeeps DEF OwnRequests
  <2> QED
    BY <2>1 DEF MadeFor, CarriesNothing
<1> QED
  BY <1>2, <1>3, <1>4, <1>5, <1>6 DEF OwnRequests, Failure

LEMMA QuietKeeps ==
    ASSUME BusInv, CarriesNothing, UNCHANGED sessions, UNCHANGED <<joinVars, nodeVars, leaveVars>>
    PROVE  BusStep
<1>1. TellsNoSuccess
  BY DEF TellsNoSuccess, joinVars
<1>2. BusTypeOK'
  BY DEF BusInv, BusTypeOK, joinVars, nodeVars, leaveVars
<1> QED
  BY <1>1, <1>2, CarriesNothingKeeps DEF BusInv, BusStep

\* A connection's result takes the request to the session of its manager.
LEMMA ManagerFoundKeepsBus ==
    ASSUME BusInv, NEW d \in Dialers, pc[d] = "result", ManagerFound(d),
           UNCHANGED <<joinVars, nodeVars, leaveVars>>
    PROVE  BusStep
<1> USE DEF BusInv, IInv
<1>1. PICK a \in DOMAIN managers :
        /\ managers[a].req = local[d].req
        /\ managers' = [managers EXCEPT ![a].conn = local[d].conn]
        /\ local' = [local EXCEPT ![d].authId = a]
        /\ pc' = [pc EXCEPT ![d] = "session"]
        /\ UNCHANGED sessions
  BY DEF ManagerFound
<1>2. /\ \A p \in Owners : p # d => local'[p] = local[p] /\ pc'[p] = pc[p]
      /\ local'[d].authId = a
      /\ local'[d].req = local[d].req
      /\ \A o \in Openers : pc'[o] = "idle" => pc[o] = "idle"
  BY <1>1 DEF TypeOK, Locals
<1>3. /\ DOMAIN managers' = DOMAIN managers
      /\ \A b \in DOMAIN managers : managers'[b].req = managers[b].req
  BY <1>1 DEF TypeOK, IsMap, Managers
<1>4. BusTypeOK'
  BY <1>1 DEF BusTypeOK, joinVars, nodeVars, leaveVars
<1>5. UNCHANGED <<ownAuthId, sessionRequest, answers>>
  BY DEF joinVars
<1>6. ASSUME NEW e \in Dialers, pc'[e] = "session"
      PROVE  MadeFor(local[e].authId, local[e].req)'
  <2>1. CASE e = d
    <3>1. MadeFor(a, managers[a].req)
      BY DEF OwnRequests
    <3> QED
      BY <1>1, <1>2, <1>5, <2>1, <3>1 DEF MadeFor
  <2>2. CASE e # d
    <3>1. local'[e] = local[e] /\ MadeFor(local[e].authId, local[e].req)
      BY <1>2, <1>6, <2>2 DEF OwnRequests
    <3> QED
      BY <1>5, <3>1 DEF MadeFor
  <2> QED
    BY <2>1, <2>2
<1>7. ASSUME NEW b \in DOMAIN managers' PROVE MadeFor(b, managers[b].req)'
  <2>1. MadeFor(b, managers[b].req) /\ managers'[b].req = managers[b].req
    BY <1>3, <1>7 DEF OwnRequests
  <2> QED
    BY <1>5, <2>1 DEF MadeFor
<1>8. /\ \A b \in DOMAIN sessionRequest' : MadeFor(b, sessionRequest[b])'
      /\ \A o \in Openers : \A b \in answers'[o] \ {Failure} : MadeFor(b, RequestOf[o])'
  BY <1>5 DEF OwnRequests, MadeFor
<1>9. OwnRequests'
  BY <1>2, <1>5, <1>6, <1>7, <1>8 DEF OwnRequests, Failure
<1> QED
  BY <1>4, <1>9 DEF BusStep

\* A packet on a connection without a manager makes a new one.
LEMMA DeliverKeepsBus ==
    ASSUME BusInv, NEW s \in Acceptors, Deliver(s),
           UNCHANGED <<joinVars, nodeVars, leaveVars>>
    PROVE  BusStep
<1> USE DEF BusInv, IInv
<1>1. CASE UNCHANGED <<managers, local>> /\ pc' = [pc EXCEPT ![s] = "reading"]
  <2>1. CarriesNothing /\ UNCHANGED sessions
    BY <1>1, AuthConnAssumption DEF CarriesNothing, Deliver, TypeOK, joinVars
  <2> QED
    BY <2>1, QuietKeeps
<1>2. CASE /\ managers' = Put(managers, nextAuthId,
                              [req |-> 0, conn |-> local[s].conn, server |-> TRUE])
           /\ local' = [local EXCEPT ![s].authId = nextAuthId]
           /\ pc' = [pc EXCEPT ![s] = "accepted"]
  <2>1. UNCHANGED sessions
    BY DEF Deliver
  <2>2. /\ \A p \in Owners : p # s => local'[p] = local[p] /\ pc'[p] = pc[p]
        /\ \A o \in Openers : pc'[o] = "idle" => pc[o] = "idle"
        /\ \A d \in Dialers : d # s
    BY <1>2, AuthConnAssumption DEF TypeOK, Locals
  <2>3. \A a \in DOMAIN managers' :
          \/ managers'[a].req = 0
          \/ a \in DOMAIN managers /\ managers'[a].req = managers[a].req
    BY <1>2 DEF Put
  <2>4. UNCHANGED <<ownAuthId, sessionRequest, answers>>
    BY DEF joinVars
  <2>5. BusTypeOK'
    BY <2>1 DEF BusTypeOK, joinVars, nodeVars, leaveVars
  <2>6. ASSUME NEW e \in Dialers, pc'[e] = "session"
        PROVE  MadeFor(local[e].authId, local[e].req)'
    <3>1. local'[e] = local[e] /\ MadeFor(local[e].authId, local[e].req)
      BY <2>2, <2>6 DEF OwnRequests
    <3> QED
      BY <2>4, <3>1 DEF MadeFor
  <2>7. ASSUME NEW b \in DOMAIN managers' PROVE MadeFor(b, managers[b].req)'
    <3>1. CASE managers'[b].req = 0
      BY <3>1 DEF MadeFor
    <3>2. CASE b \in DOMAIN managers /\ managers'[b].req = managers[b].req
      <4>1. MadeFor(b, managers[b].req)
        BY <3>2 DEF OwnRequests
      <4> QED
        BY <2>4, <3>2, <4>1 DEF MadeFor
    <3> QED
      BY <2>3, <2>7, <3>1, <3>2
  <2>8. /\ \A b \in DOMAIN sessionRequest' : MadeFor(b, sessionRequest[b])'
        /\ \A o \in Openers : \A b \in answers'[o] \ {Failure} : MadeFor(b, RequestOf[o])'
    BY <2>4 DEF OwnRequests, MadeFor
  <2>9. OwnRequests'
    BY <2>2, <2>4, <2>6, <2>7, <2>8 DEF OwnRequests, Failure
  <2> QED
    BY <2>5, <2>9 DEF BusStep
<1> QED
  BY <1>1, <1>2 DEF Deliver

\* The other steps of AuthConn carry nothing.
LEMMA OpenerCarriesNothing ==
    ASSUME BusInv, UNCHANGED <<joinVars, nodeVars, leaveVars>>, NEW o \in Openers,
           StoreRequest(o) \/ DropRequest(o) \/ ReportFailure(o) \/ CleanupManager(o)
    PROVE  CarriesNothing /\ UNCHANGED sessions
<1> USE DEF BusInv, IInv, TypeOK
<1>1. CASE StoreRequest(o)
  BY <1>1 DEF StoreRequest, CarriesNothing, joinVars, svcVars
<1>2. CASE DropRequest(o)
  BY <1>2 DEF DropRequest, CarriesNothing, joinVars, svcVars
<1>3. CASE ReportFailure(o)
  BY <1>3 DEF ReportFailure, CarriesNothing, joinVars, Del
<1>4. CASE CleanupManager(o)
  BY <1>4 DEF CleanupManager, CarriesNothing, joinVars, Del
<1> QED
  BY <1>1, <1>2, <1>3, <1>4

LEMMA DialerCarriesNothing ==
    ASSUME BusInv, UNCHANGED <<joinVars, nodeVars, leaveVars>>, NEW d \in Dialers,
           \/ DialOk(d) \/ DialFail(d) \/ MatchRequest(d) \/ NoRequest(d)
           \/ pc[d] = "result" /\ NoManager(d)
           \/ OpenChannel(d) \/ CloseChannel(d)
    PROVE  CarriesNothing /\ UNCHANGED sessions
<1> USE DEF BusInv, IInv, TypeOK
<1>1. CASE DialOk(d)
  BY <1>1 DEF DialOk, CarriesNothing, joinVars, svcVars
<1>2. CASE DialFail(d)
  BY <1>2 DEF DialFail, CarriesNothing, joinVars, svcVars
<1>3. CASE MatchRequest(d)
  <2>1. PICK r, c : local' = [local EXCEPT ![d].req = r, ![d].conn = c]
    BY <1>3 DEF MatchRequest
  <2>2. /\ pc' = [pc EXCEPT ![d] = "result"]
        /\ UNCHANGED svcVars
    BY <1>3 DEF MatchRequest
  <2> QED
    BY <2>1, <2>2 DEF CarriesNothing, joinVars, svcVars
<1>4. CASE NoRequest(d)
  BY <1>4 DEF NoRequest, CarriesNothing, joinVars, svcVars
<1>5. CASE OpenChannel(d)
  BY <1>5 DEF OpenChannel, CarriesNothing, joinVars, svcVars
<1>6. CASE CloseChannel(d)
  BY <1>6 DEF CloseChannel, CarriesNothing, joinVars, svcVars
<1>7. CASE pc[d] = "result" /\ NoManager(d)
  BY <1>7 DEF NoManager, CarriesNothing, joinVars, svcVars
<1> QED
  BY <1>1, <1>2, <1>3, <1>4, <1>5, <1>6, <1>7

LEMMA AcceptorCarriesNothing ==
    ASSUME BusInv, UNCHANGED <<joinVars, nodeVars, leaveVars>>, NEW s \in Acceptors,
           \/ Accept(s) \/ GetConnInfo(s) \/ InsertServerConn(s) \/ ReceiveSdk(s)
           \/ ReadFails(s) \/ ForgetConn(s) \/ UnmapManager(s) \/ Unregister(s)
           \/ StopListener(s)
    PROVE  CarriesNothing /\ UNCHANGED sessions
<1> USE DEF BusInv, IInv, TypeOK
<1>1. CASE Accept(s)
  BY <1>1 DEF Accept, CarriesNothing, joinVars, svcVars
<1>2. CASE GetConnInfo(s)
  BY <1>2 DEF GetConnInfo, CarriesNothing, joinVars, svcVars
<1>3. CASE InsertServerConn(s)
  BY <1>3 DEF InsertServerConn, CarriesNothing, joinVars, svcVars
<1>4. CASE ReceiveSdk(s)
  BY <1>4 DEF ReceiveSdk, CarriesNothing, joinVars, svcVars
<1>5. CASE ReadFails(s)
  BY <1>5 DEF ReadFails, CarriesNothing, joinVars, svcVars
<1>6. CASE ForgetConn(s)
  <2>1. \/ UNCHANGED local
        \/ \E c : local' = [local EXCEPT ![s].conn = c]
    BY <1>6 DEF ForgetConn
  <2>2. /\ \/ pc' = [pc EXCEPT ![s] = "unmap"]
           \/ pc' = [pc EXCEPT ![s] = "unregister"]
        /\ UNCHANGED svcVars
    BY <1>6 DEF ForgetConn
  <2> QED
    BY <2>1, <2>2 DEF CarriesNothing, joinVars, svcVars
<1>7. CASE UnmapManager(s)
  BY <1>7 DEF UnmapManager, RemoveManager, CarriesNothing, joinVars, Del
<1>8. CASE Unregister(s)
  BY <1>8 DEF Unregister, CarriesNothing, joinVars, svcVars
<1>9. CASE StopListener(s)
  BY <1>9 DEF StopListener, CarriesNothing, joinVars, svcVars, procVars
<1> QED
  BY <1>1, <1>2, <1>3, <1>4, <1>5, <1>6, <1>7, <1>8, <1>9

LEMMA CloserCarriesNothing ==
    ASSUME BusInv, UNCHANGED <<joinVars, nodeVars, leaveVars>>, NEW c \in Closers,
           CloseConn(c) \/ Disconnect(c) \/ CloseSocket(c)
    PROVE  CarriesNothing /\ UNCHANGED sessions
<1> USE DEF BusInv, IInv, TypeOK
<1>1. c \notin Owners
  BY AuthConnAssumption
<1>2. /\ \A p \in Owners : pc'[p] = pc[p] /\ local'[p].authId = local[p].authId
                           /\ local'[p].req = local[p].req
      /\ UNCHANGED sessions
  <2>1. CASE CloseConn(c)
    <3>1. /\ UNCHANGED sessions
          /\ \/ UNCHANGED local
             \/ \E x : local' = [local EXCEPT ![c].conn = x]
          /\ \E l : pc' = [pc EXCEPT ![c] = l]
      BY <2>1 DEF CloseConn
    <3> QED
      BY <1>1, <3>1
  <2>2. CASE Disconnect(c)
    <3>1. /\ UNCHANGED sessions
          /\ \/ UNCHANGED local
             \/ \E x : local' = [local EXCEPT ![c].fd = x]
          /\ \E l : pc' = [pc EXCEPT ![c] = l]
      BY <2>2 DEF Disconnect, svcVars
    <3> QED
      BY <1>1, <3>1
  <2>3. CASE CloseSocket(c)
    BY <1>1, <2>3 DEF CloseSocket, svcVars
  <2> QED
    BY <2>1, <2>2, <2>3
<1>3. \A a \in DOMAIN managers' : a \in DOMAIN managers /\ managers'[a] = managers[a]
  <2>1. CASE CloseConn(c)
    <3>1. UNCHANGED managers \/ \E a : managers' = Del(managers, a)
      BY <2>1 DEF CloseConn, RemoveManager
    <3> QED
      BY <3>1 DEF Del
  <2>2. CASE Disconnect(c) \/ CloseSocket(c)
    BY <2>2 DEF Disconnect, CloseSocket, svcVars
  <2> QED
    BY <2>1, <2>2
<1> QED
  BY <1>2, <1>3 DEF CarriesNothing, joinVars

LEMMA ConnStepKeepsBus == BusInv /\ ConnStep => BusStep
<1> SUFFICES ASSUME BusInv, ConnStep PROVE BusStep
  OBVIOUS
<1>1. UNCHANGED <<joinVars, nodeVars, leaveVars>>
  BY DEF ConnStep, Unseen
<1>2. CASE \E d \in Dialers : pc[d] = "result" /\ ManagerFound(d)
  BY <1>1, <1>2, ManagerFoundKeepsBus
<1>3. CASE \E s \in Acceptors : Deliver(s)
  BY <1>1, <1>3, DeliverKeepsBus
<1>4. CASE \E o \in Openers : StoreRequest(o) \/ DropRequest(o) \/ CleanupManager(o)
  BY <1>1, <1>4, OpenerCarriesNothing, QuietKeeps
<1>5. CASE \E d \in Dialers :
             \/ DialOk(d) \/ DialFail(d) \/ MatchRequest(d) \/ NoRequest(d)
             \/ pc[d] = "result" /\ NoManager(d)
             \/ OpenChannel(d) \/ CloseChannel(d)
  BY <1>1, <1>5, DialerCarriesNothing, QuietKeeps
<1>6. CASE \E s \in Acceptors :
             \/ Accept(s) \/ GetConnInfo(s) \/ InsertServerConn(s) \/ ReceiveSdk(s)
             \/ ReadFails(s) \/ ForgetConn(s) \/ UnmapManager(s) \/ Unregister(s)
             \/ StopListener(s)
  BY <1>1, <1>6, AcceptorCarriesNothing, QuietKeeps
<1>7. CASE \E c \in Closers : CloseConn(c) \/ Disconnect(c) \/ CloseSocket(c)
  BY <1>1, <1>7, CloserCarriesNothing, QuietKeeps
<1> QED
  BY <1>2, <1>3, <1>4, <1>5, <1>6, <1>7 DEF ConnStep, ConnectResult, CloserStep

-----------------------------------------------------------------------------
(* The steps of the bus center.                                            *)

LEMMA JoinLNNKeepsBus ==
    ASSUME BusInv, NEW o \in Openers, JoinLNN(o)
    PROVE  BusStep
<1> USE DEF BusInv, IInv
<1> PICK n \in Nat : n = nextAuthId
  BY DEF TypeOK
<1>1. /\ pc[o] = "idle"
      /\ pc' = [pc EXCEPT ![o] = "store"]
      /\ local' = [local EXCEPT ![o].authId = n]
      /\ managers' = Put(managers, n, [req |-> RequestOf[o], conn |-> None, server |-> FALSE])
      /\ authCallbacks' = authCallbacks \cup {o}
      /\ ownAuthId' = [ownAuthId EXCEPT ![o] = n]
      /\ UNCHANGED <<sessions, sessionRequest, reporting, answers, nodeVars, leaveVars>>
  BY DEF JoinLNN, OpenConn
<1>2. /\ \A p \in Owners : p # o => local'[p] = local[p] /\ pc'[p] = pc[p]
      /\ pc'[o] = "store"
  BY <1>1 DEF TypeOK
<1>3. /\ ownAuthId'[o] = n
      /\ \A q \in Openers : q # o => ownAuthId'[q] = ownAuthId[q]
      /\ ownAuthId[o] = None
  BY <1>1 DEF BusTypeOK, OwnRequests
<1>4. BusTypeOK'
  BY <1>1 DEF BusTypeOK, nodeVars, leaveVars
<1>5. ASSUME NEW a, NEW r, a # None, MadeFor(a, r) PROVE MadeFor(a, r)'
  BY <1>3, <1>5 DEF MadeFor
<1>6. ASSUME NEW b \in DOMAIN managers' PROVE MadeFor(b, managers[b].req)'
  <2>1. CASE b = n
    <3>1. managers'[b].req = RequestOf[o]
      BY <1>1, <2>1 DEF Put
    <3> QED
      BY <1>3, <2>1, <3>1 DEF MadeFor
  <2>2. CASE b # n
    <3>1. b \in DOMAIN managers /\ managers'[b] = managers[b]
      BY <1>1, <1>6, <2>2 DEF Put
    <3>2. b # None /\ MadeFor(b, managers[b].req)
      BY <3>1, AuthConnAssumption DEF OwnRequests, TypeOK, IsMap
    <3> QED
      BY <1>3, <3>1, <3>2 DEF MadeFor
  <2> QED
    BY <2>1, <2>2
<1>7. ASSUME NEW d \in Dialers, pc'[d] = "session"
      PROVE  MadeFor(local[d].authId, local[d].req)'
  <2>1. d # o /\ local'[d] = local[d] /\ pc[d] = "session"
    BY <1>2, <1>7
  <2>2. local[d].authId # None /\ MadeFor(local[d].authId, local[d].req)
    BY <2>1 DEF LocalsSet, OwnRequests
  <2> QED
    BY <1>3, <2>1, <2>2 DEF MadeFor
<1>8. ASSUME NEW b \in DOMAIN sessionRequest' PROVE MadeFor(b, sessionRequest[b])'
  <2>1. b # None /\ MadeFor(b, sessionRequest[b])
    BY <1>1, <1>8, AuthConnAssumption DEF OwnRequests, BusTypeOK, IsMap
  <2> QED
    BY <1>1, <1>3, <2>1 DEF MadeFor
<1>9. ASSUME NEW q \in Openers, NEW b \in answers'[q] \ {Failure}
      PROVE  MadeFor(b, RequestOf[q])'
  <2>1. b # None /\ MadeFor(b, RequestOf[q])
    BY <1>1, <1>9 DEF OwnRequests, Failure
  <2> QED
    BY <1>5, <2>1
<1>10. OwnRequests'
  BY <1>2, <1>3, <1>6, <1>7, <1>8, <1>9 DEF OwnRequests, Failure
<1> QED
  BY <1>4, <1>10 DEF BusStep

LEMMA JoinFailsKeepsBus ==
    ASSUME BusInv, NEW o \in Openers, JoinFails(o)
    PROVE  BusStep
<1> USE DEF BusInv
<1>1. CarriesNothing
  BY DEF JoinFails, ReportFailure, CarriesNothing, Del, IInv, TypeOK
<1>2. TellsNoSuccess
  BY DEF JoinFails, ReportFailure, TellsNoSuccess
<1>3. /\ UNCHANGED sessions
      /\ UNCHANGED <<authCallbacks, ownAuthId, sessionRequest, reporting, nodeVars, leaveVars>>
  BY DEF JoinFails, ReportFailure
<1>4. BusTypeOK'
  BY <1>2, <1>3, TellsNoSuccessKeeps DEF BusTypeOK, nodeVars, leaveVars
<1> QED
  BY <1>1, <1>2, <1>4, CarriesNothingKeeps DEF BusStep

\* A session begins with the request of its manager: what OwnRequests then says
\* of the sessions follows.
LEMMA SessionBegins ==
    ASSUME BusInv, NEW p \in Owners, NEW r \in Nat, MadeFor(local[p].authId, r),
           local[p].authId # None,
           DOMAIN sessions' = DOMAIN sessions \cup {local[p].authId},
           sessionRequest' = Put(sessionRequest, local[p].authId, r),
           pc' = [pc EXCEPT ![p] = "returned"] \/ pc' = [pc EXCEPT ![p] = "reading"],
           TellsNoSuccess,
           UNCHANGED <<managers, local>>,
           UNCHANGED <<authCallbacks, ownAuthId, reporting, nodeVars, leaveVars>>
    PROVE  BusStep
<1> USE DEF BusInv, IInv
<1> PICK a : a = local[p].authId
  OBVIOUS
<1>1. a \in Nat
  BY DEF TypeOK, Locals
<1>2. \A o \in Procs : /\ pc'[o] = "idle" => pc[o] = "idle"
                       /\ pc'[o] = "session" => pc[o] = "session"
  BY DEF TypeOK
<1>3. /\ answers' \in [Openers -> SUBSET (Nat \cup {None})]
      /\ \A o \in Openers : answers'[o] \ {Failure} \subseteq answers[o] \ {Failure}
  BY TellsNoSuccessKeeps
<1>4. BusTypeOK'
  <2>1. IsMap(sessionRequest', Nat, Nat)
    BY <1>1, PutIsMap DEF BusTypeOK
  <2>2. DOMAIN sessionRequest' = DOMAIN sessions'
    BY DEF Put, BusTypeOK
  <2> QED
    BY <1>3, <2>1, <2>2 DEF BusTypeOK, nodeVars, leaveVars
<1>5. ASSUME NEW b \in DOMAIN sessionRequest' PROVE MadeFor(b, sessionRequest[b])'
  <2>1. CASE b = a
    <3>1. sessionRequest'[b] = r
      BY <2>1 DEF Put
    <3> QED
      BY <2>1, <3>1 DEF MadeFor
  <2>2. CASE b # a
    <3>1. b \in DOMAIN sessionRequest /\ sessionRequest'[b] = sessionRequest[b]
      BY <1>5, <2>2 DEF Put
    <3> QED
      BY <3>1 DEF MadeFor, OwnRequests
  <2> QED
    BY <2>1, <2>2
<1>6. /\ \A b \in DOMAIN managers' : MadeFor(b, managers[b].req)'
      /\ \A d \in Dialers : pc'[d] = "session" => MadeFor(local[d].authId, local[d].req)'
      /\ \A o \in Openers : pc'[o] = "idle" => ownAuthId'[o] = None
  BY <1>2 DEF OwnRequests, MadeFor
<1>7. \A o \in Openers : \A b \in answers'[o] \ {Failure} : MadeFor(b, RequestOf[o])'
  BY <1>3 DEF OwnRequests, MadeFor
<1>8. OwnRequests'
  BY <1>5, <1>6, <1>7 DEF OwnRequests, Failure
<1> QED
  BY <1>4, <1>8 DEF BusStep

LEMMA JoinStartsSessionKeepsBus ==
    ASSUME BusInv, NEW d \in Dialers, JoinStartsSession(d)
    PROVE  BusStep
<1> USE DEF BusInv, IInv
<1>1. /\ pc[d] = "session"
      /\ pc' = [pc EXCEPT ![d] = "returned"]
      /\ UNCHANGED <<managers, local>>
      /\ TellsNoSuccess
      /\ UNCHANGED <<authCallbacks, ownAuthId, reporting, nodeVars, leaveVars>>
  BY DEF JoinStartsSession, StartSession, TellsNoSuccess
<1>2. CASE local[d].authId \in DOMAIN sessions
  <2>1. UNCHANGED <<sessions, sessionRequest>>
    BY <1>2 DEF JoinStartsSession, StartSession
  <2>2. CarriesNothing
    BY <1>1, <2>1 DEF CarriesNothing, TypeOK
  <2>3. BusTypeOK'
    BY <1>1, <2>1, TellsNoSuccessKeeps DEF BusTypeOK, nodeVars, leaveVars
  <2> QED
    BY <1>1, <2>2, <2>3, CarriesNothingKeeps DEF BusStep
<1>3. CASE local[d].authId \notin DOMAIN sessions
  <2>1. /\ sessionRequest' = Put(sessionRequest, local[d].authId, local[d].req)
        /\ DOMAIN sessions' = DOMAIN sessions \cup {local[d].authId}
    BY <1>3 DEF JoinStartsSession, StartSession, Put
  <2>2. local[d].authId # None /\ local[d].req \in Nat
    BY <1>1 DEF LocalsSet, TypeOK, Locals
  <2>3. MadeFor(local[d].authId, local[d].req)
    BY <1>1 DEF OwnRequests
  <2> QED
    BY <1>1, <2>1, <2>2, <2>3, SessionBegins
<1> QED
  BY <1>2, <1>3

LEMMA AcceptStartsSessionKeepsBus ==
    ASSUME BusInv, NEW s \in Acceptors, AcceptStartsSession(s)
    PROVE  BusStep
<1> USE DEF BusInv, IInv
<1>1. /\ pc[s] = "accepted"
      /\ pc' = [pc EXCEPT ![s] = "reading"]
      /\ sessionRequest' = Put(sessionRequest, local[s].authId, 0)
      /\ DOMAIN sessions' = DOMAIN sessions \cup {local[s].authId}
      /\ UNCHANGED <<managers, local>>
      /\ TellsNoSuccess
      /\ UNCHANGED <<authCallbacks, ownAuthId, reporting, nodeVars, leaveVars>>
  BY DEF AcceptStartsSession, StartServerSession, TellsNoSuccess, Put
<1>2. local[s].authId # None /\ MadeFor(local[s].authId, 0)
  BY <1>1 DEF LocalsSet, MadeFor
<1> QED
  BY <1>1, <1>2, SessionBegins

LEMMA AuthResultKeepsBus ==
    ASSUME BusInv, NEW a \in DOMAIN sessions, AuthResult(a)
    PROVE  BusStep
<1> USE DEF BusInv, IInv
<1>1. /\ \/ Notify(sessionRequest[a], Failure) /\ UNCHANGED <<reporting, nodeVars>>
         \/ /\ reporting' = reporting \cup {a} /\ UNCHANGED answers
            /\ ledger' = a /\ online' = online \cup {a}
      /\ DOMAIN sessions' = DOMAIN sessions
      /\ UNCHANGED <<managers, pc, local>>
      /\ UNCHANGED <<authCallbacks, ownAuthId, sessionRequest, leaveVars>>
  BY DEF AuthResult, AuthDone, procVars
<1>2. a \in Nat
  BY DEF TypeOK, IsMap
<1>3. CarriesNothing
  BY <1>1 DEF CarriesNothing
<1>4. TellsNoSuccess
  BY <1>1 DEF TellsNoSuccess
<1>5. BusTypeOK'
  <2>1. answers' \in [Openers -> SUBSET (Nat \cup {None})]
    BY <1>4, TellsNoSuccessKeeps
  <2>2. /\ reporting' \subseteq DOMAIN sessions'
        /\ ledger' \in Nat \cup {None}
        /\ online' \subseteq Nat
    BY <1>1, <1>2 DEF BusTypeOK, nodeVars
  <2> QED
    BY <1>1, <2>1, <2>2 DEF BusTypeOK, leaveVars
<1> QED
  BY <1>3, <1>4, <1>5, CarriesNothingKeeps DEF BusStep

\* The joins that are told have the request id of the session, which is that of
\* the open call that made its manager.
LEMMA NotifyAuthSuccessKeepsBus ==
    ASSUME BusInv, NEW a \in DOMAIN sessions, NotifyAuthSuccess(a)
    PROVE  BusStep
<1> USE DEF BusInv, IInv
<1>1. /\ reporting' = reporting \ {a}
      /\ Notify(sessionRequest[a], a)
      /\ UNCHANGED <<managers, sessions, pc, local>>
      /\ UNCHANGED <<authCallbacks, ownAuthId, sessionRequest, nodeVars, leaveVars>>
  BY DEF NotifyAuthSuccess, vars, svcVars, procVars
<1>2. a \in Nat /\ a \in DOMAIN sessionRequest
  BY DEF TypeOK, IsMap, BusTypeOK
<1>3. /\ answers' \in [Openers -> SUBSET (Nat \cup {None})]
      /\ \A o \in Openers :
           /\ answers'[o] \subseteq answers[o] \cup {a}
           /\ RequestOf[o] # sessionRequest[a] => answers'[o] = answers[o]
  BY <1>1, <1>2, NotifyTells
<1>4. BusTypeOK'
  BY <1>1, <1>3 DEF BusTypeOK, nodeVars, leaveVars
<1>5. ASSUME NEW o \in Openers, NEW b \in answers'[o] \ {Failure}
      PROVE  MadeFor(b, RequestOf[o])'
  <2>1. CASE b \in answers[o]
    BY <1>1, <1>5, <2>1 DEF OwnRequests, MadeFor
  <2>2. CASE b \notin answers[o]
    <3>1. b = a /\ RequestOf[o] = sessionRequest[a]
      BY <1>3, <1>5, <2>2
    <3>2. MadeFor(a, sessionRequest[a])
      BY <1>2 DEF OwnRequests
    <3> QED
      BY <1>1, <3>1, <3>2 DEF MadeFor
  <2> QED
    BY <2>1, <2>2
<1>6. /\ \A b \in DOMAIN managers' : MadeFor(b, managers[b].req)'
      /\ \A d \in Dialers : pc'[d] = "session" => MadeFor(local[d].authId, local[d].req)'
      /\ \A b \in DOMAIN sessionRequest' : MadeFor(b, sessionRequest[b])'
      /\ \A o \in Openers : pc'[o] = "idle" => ownAuthId'[o] = None
  BY <1>1 DEF OwnRequests, MadeFor
<1>7. OwnRequests'
  BY <1>5, <1>6 DEF OwnRequests, Failure
<1> QED
  BY <1>4, <1>7 DEF BusStep

LEMMA LeaverKeepsBus ==
    ASSUME BusInv, NEW l \in Leavers, LeaveLNN(l) \/ LeaverStep(l)
    PROVE  BusStep
<1> USE DEF BusInv
<1>1. /\ UNCHANGED <<vars, joinVars>>
      /\ ledger' = ledger
      /\ online' \subseteq online
      /\ leavePc' \in [Leavers -> {"idle", "mark", "update", "done"}]
      /\ leaving' \in [Leavers -> Nat \cup {None}]
  BY DEF LeaveLNN, LeaverStep, MarkOffline, UpdateNodeStatus, BusTypeOK, nodeVars
<1>2. CarriesNothing /\ TellsNoSuccess
  BY <1>1 DEF CarriesNothing, TellsNoSuccess, vars, svcVars, procVars, joinVars
<1>3. BusTypeOK'
  BY <1>1 DEF BusTypeOK, joinVars, vars, svcVars
<1> QED
  BY <1>2, <1>3, CarriesNothingKeeps DEF BusStep

-----------------------------------------------------------------------------
LEMMA InitBus == BusInit => BusInv
<1> SUFFICES ASSUME BusInit PROVE BusInv
  OBVIOUS
<1>1. IInv
  BY InitIInv DEF BusInit
<1>2. /\ \A p \in Procs : pc[p] = "idle"
      /\ DOMAIN managers = {} /\ DOMAIN sessions = {}
  BY DEF BusInit, Init, EmptyMap
<1>3. BusTypeOK
  BY <1>2, EmptyIsMap DEF BusInit, BusTypeOK, EmptyMap
<1>4. OwnRequests
  BY <1>2 DEF OwnRequests, BusInit, EmptyMap
<1> QED
  BY <1>1, <1>3, <1>4 DEF BusInv

LEMMA NextBus == BusInv /\ [BusNext]_busVars => BusInv'
<1> SUFFICES ASSUME BusInv, [BusNext]_busVars PROVE BusInv'
  OBVIOUS
<1>1. IInv'
  BY BusStepIsNext, NextKeeps DEF BusInv
<1>2. BusStep
  <2>1. CASE UNCHANGED busVars
    <3>1. CarriesNothing /\ UNCHANGED sessions
      BY <2>1 DEF busVars, vars, svcVars, procVars, joinVars, CarriesNothing
    <3> QED
      BY <2>1, <3>1, QuietKeeps DEF busVars
  <2>2. CASE BusNext
    BY <2>2, JoinLNNKeepsBus, JoinFailsKeepsBus, JoinStartsSessionKeepsBus,
       AcceptStartsSessionKeepsBus, AuthResultKeepsBus, NotifyAuthSuccessKeepsBus,
       LeaverKeepsBus, ConnStepKeepsBus DEF BusNext
  <2> QED
    BY <2>1, <2>2
<1> QED
  BY <1>1, <1>2 DEF BusInv, BusStep

\* The parts of the inductive invariant, for any joins: of the same second or of
\* different ones, each session with any number of results.
THEOREM BusInvariance == BusSpec => []BusInv
  BY InitBus, NextBus, PTL DEF BusSpec

\* A success that a join is told of has the authId that its own open call
\* returned, or that of another join of the same second, whatever the
\* goroutines of the callbacks and of the connections do and however often a
\* session reports.
THEOREM SuccessIsAlwaysOwn == BusSpec => []SuccessIsOwn
<1>1. BusInv => SuccessIsOwn
  <2> SUFFICES ASSUME BusInv, NEW o \in Openers, NEW a \in answers[o] \ {Failure}
               PROVE  \E p \in Openers : RequestOf[p] = RequestOf[o] /\ ownAuthId[p] = a
    BY DEF SuccessIsOwn
  <2>1. MadeFor(a, RequestOf[o]) /\ RequestOf[o] # 0
    BY AuthConnAssumption DEF BusInv, OwnRequests
  <2> QED
    BY <2>1 DEF MadeFor
<1> QED
  BY <1>1, BusInvariance, PTL
=============================================================================
