-------------------------- MODULE AuthSocketProofs --------------------------
(***************************************************************************)
(* Proofs about TcpClient and about AuthSocket, which adds the packets to  *)
(* its byte stream.                                                        *)
(***************************************************************************)
EXTENDS AuthSocket, SequenceTheorems, TLAPS

-----------------------------------------------------------------------------
(* The safety of BaseClient, for any number of callers and of connections: *)
(* the inductive invariant of TcpClient is kept by every step of a caller, *)
(* of a reading goroutine and of the ConnectionManager.                    *)

LEMMA InitIInv ==
  ASSUME Init PROVE IInv
<1> USE TcpClientAssumption DEF Init, Fds
<1>a. nextFd \in ClientFdStart .. ClientFdStart + MaxDials
  OBVIOUS
<1>1. TypeOK
  BY <1>a DEF TypeOK
<1>2. LockHeld /\ FdsGiven /\ OneReader /\ ReaderCounts
  BY DEF LockHeld, FdsGiven, OneReader, ReaderCounts, Reading
<1>3. OneCloser /\ ReportedIsPast /\ CallbacksInOrder /\ ReportedIsGone
  BY DEF OneCloser, Closing, ReportedIsPast, CallbacksInOrder, ReportedIsGone
<1> QED
  BY <1>1, <1>2, <1>3 DEF IInv

-----------------------------------------------------------------------------
(* Connect                                                                 *)

LEMMA ConnectIInv ==
  ASSUME IInv, ~panicked, NEW p \in Callers, Connect(p) PROVE IInv'
<1> USE TcpClientAssumption
    DEF IInv, Connect, Goto, readerVars, mgrVars, appVars
<1>1. TypeOK'
  BY DEF TypeOK
<1>2. LockHeld'
  BY DEF TypeOK, LockHeld
<1>3. FdsGiven' /\ ReportedIsPast'
  BY DEF FdsGiven, ReportedIsPast
<1>4. OneReader' /\ ReaderCounts' /\ CallbacksInOrder' /\ ReportedIsGone'
  BY DEF OneReader, ReaderCounts, Reading, CallbacksInOrder, ReportedIsGone
<1>5. OneCloser'
  BY DEF TypeOK, OneCloser, Closing, Reading
<1> QED
  BY <1>1, <1>2, <1>3, <1>4, <1>5

LEMMA DialFailsIInv ==
  ASSUME IInv, ~panicked, NEW p \in Callers, DialFails(p) PROVE IInv'
<1> USE TcpClientAssumption
    DEF IInv, DialFails, Goto, readerVars, mgrVars, appVars
<1>1. TypeOK'
  BY DEF TypeOK
<1>2. LockHeld'
  BY DEF TypeOK, LockHeld
<1>3. FdsGiven' /\ ReportedIsPast'
  BY DEF LockHeld, FdsGiven, ReportedIsPast
<1>4. OneReader' /\ ReaderCounts' /\ CallbacksInOrder' /\ ReportedIsGone'
  BY DEF OneReader, ReaderCounts, Reading, CallbacksInOrder, ReportedIsGone
<1>5. OneCloser'
  BY DEF TypeOK, OneCloser, Closing, Reading
<1> QED
  BY <1>1, <1>2, <1>3, <1>4, <1>5

LEMMA RegisterIInv ==
  ASSUME IInv, ~panicked, NEW p \in Callers, Register(p) PROVE IInv'
<1> USE TcpClientAssumption
    DEF IInv, Register, Goto, readerVars, appVars
<1>b. nextFd \in Nat /\ nextFd # None /\ Fds \subseteq Nat
  BY DEF TypeOK, Fds
<1>a. curFd = None /\ mu = p /\ readerPc[nextFd] = "none" /\ nextFd \notin connected
  BY <1>b DEF LockHeld, FdsGiven
<1>1. TypeOK'
  BY DEF TypeOK, Fds
<1>2. LockHeld'
  BY <1>a DEF TypeOK, LockHeld
<1>3. FdsGiven'
  BY <1>a, <1>b DEF TypeOK, LockHeld, FdsGiven
<1>4. OneReader' /\ ReaderCounts' /\ CallbacksInOrder'
  BY <1>a, <1>b DEF OneReader, ReaderCounts, Reading, CallbacksInOrder
<1>5. ReportedIsPast' /\ ReportedIsGone'
  BY <1>a, <1>b DEF TypeOK, FdsGiven, ReportedIsPast, ReportedIsGone, Reading
<1>6. OneCloser'
  <2>1. ~panicked => \A q \in Callers :
           /\ Closing(q) => pc[q] = "report" /\ seen[q] # nextFd
           /\ pc[q] \in {"select", "closeChan"} => stopChan = "closed"
    BY <1>a, <1>b DEF TypeOK, OneCloser, Closing, FdsGiven
  <2> QED
    BY <1>a, <1>b, <2>1 DEF TypeOK, OneCloser, Closing, Reading
<1> QED
  BY <1>1, <1>2, <1>3, <1>4, <1>5, <1>6

LEMMA SpawnIInv ==
  ASSUME IInv, ~panicked, NEW p \in Callers, Spawn(p) PROVE IInv'
<1> USE TcpClientAssumption
    DEF IInv, Spawn, Goto, ReaderGoto, mgrVars, appVars
<1>a. mu = p /\ curFd \in Fds \ connected /\ readerPc[curFd] = "none"
  BY DEF LockHeld
<1>b. \A r \in Fds : ~Reading(r)
  BY <1>a DEF OneReader, Reading
<1>1. TypeOK'
  BY <1>a DEF TypeOK
<1>2. LockHeld'
  BY <1>a DEF TypeOK, LockHeld
<1>3. FdsGiven'
  BY <1>a DEF TypeOK, FdsGiven, Fds
<1>4. OneReader' /\ ReaderCounts'
  BY <1>a, <1>b DEF TypeOK, OneReader, ReaderCounts, Reading
<1>5. CallbacksInOrder' /\ ReportedIsPast' /\ ReportedIsGone'
  BY <1>a DEF TypeOK, CallbacksInOrder, ReportedIsPast, ReportedIsGone, Reading
<1>6. OneCloser'
  BY <1>a DEF TypeOK, OneCloser, Closing, Reading
<1> QED
  BY <1>1, <1>2, <1>3, <1>4, <1>5, <1>6

LEMMA OnConnectedIInv ==
  ASSUME IInv, ~panicked, NEW p \in Callers, OnConnected(p) PROVE IInv'
<1> USE TcpClientAssumption
    DEF IInv, OnConnected, Goto, readerVars, mgrVars
<1>a. mu = p /\ curFd \in Fds \ connected
  BY DEF LockHeld
<1>1. TypeOK'
  BY <1>a DEF TypeOK
<1>2. LockHeld'
  BY <1>a DEF TypeOK, LockHeld
<1>3. FdsGiven'
  BY <1>a DEF TypeOK, FdsGiven, Fds
<1>4. OneReader' /\ ReaderCounts' /\ CallbacksInOrder'
  BY DEF OneReader, ReaderCounts, Reading, CallbacksInOrder
<1>5. ReportedIsPast' /\ ReportedIsGone'
  BY DEF ReportedIsPast, ReportedIsGone, Reading
<1>6. OneCloser'
  BY <1>a DEF TypeOK, OneCloser, Closing, Reading
<1> QED
  BY <1>1, <1>2, <1>3, <1>4, <1>5, <1>6

-----------------------------------------------------------------------------
(* Close                                                                   *)

LEMMA CloseBeginIInv ==
  ASSUME IInv, ~panicked, NEW p \in Callers, CloseBegin(p) PROVE IInv'
<1> USE TcpClientAssumption
    DEF IInv, CloseBegin, Goto, clientVars, readerVars, mgrVars, appVars
<1>a. curFd \in connected
  BY DEF FdsGiven
<1>1. TypeOK'
  BY DEF TypeOK
<1>2. LockHeld'
  BY DEF TypeOK, LockHeld
<1>3. FdsGiven' /\ ReportedIsPast'
  BY DEF TypeOK, FdsGiven, ReportedIsPast
<1>4. OneReader' /\ ReaderCounts'
  BY DEF TypeOK, OneReader, ReaderCounts, Reading
<1>5. CallbacksInOrder' /\ ReportedIsGone'
  BY DEF TypeOK, CallbacksInOrder, ReportedIsGone, Reading
<1>6. OneCloser'
  BY <1>a DEF TypeOK, OneCloser, Closing, Reading
<1> QED
  BY <1>1, <1>2, <1>3, <1>4, <1>5, <1>6

LEMMA SelectStopIInv ==
  ASSUME IInv, ~panicked, NEW p \in Callers, SelectStop(p) PROVE IInv'
<1> USE TcpClientAssumption
    DEF IInv, SelectStop, Goto, Return, clientVars, readerVars, mgrVars, appVars
<1>1. TypeOK'
  BY DEF TypeOK
<1>2. LockHeld'
  BY DEF TypeOK, LockHeld
<1>3. FdsGiven' /\ ReportedIsPast'
  BY DEF TypeOK, FdsGiven, ReportedIsPast
<1>4. OneReader' /\ ReaderCounts'
  BY DEF TypeOK, OneReader, ReaderCounts, Reading
<1>5. CallbacksInOrder' /\ ReportedIsGone'
  BY DEF TypeOK, CallbacksInOrder, ReportedIsGone, Reading
<1>6. OneCloser'
  BY DEF TypeOK, OneCloser, Closing, Reading
<1> QED
  BY <1>1, <1>2, <1>3, <1>4, <1>5, <1>6

LEMMA CloseStopChanIInv ==
  ASSUME IInv, ~panicked, NEW p \in Callers, CloseStopChan(p) PROVE IInv'
<1> USE TcpClientAssumption
    DEF IInv, CloseStopChan, Goto, readerVars, mgrVars, appVars
<1>a. /\ seen[p] \in connected
      /\ stopChan = "open" => seen[p] = curFd /\ reported[seen[p]] = 0
  BY DEF TypeOK, OneCloser, ReportedIsPast
<1>1. TypeOK'
  BY DEF TypeOK
<1>2. LockHeld'
  BY DEF TypeOK, LockHeld
<1>3. FdsGiven' /\ ReportedIsPast'
  BY DEF TypeOK, FdsGiven, ReportedIsPast
<1>4. OneReader' /\ ReaderCounts'
  BY DEF TypeOK, OneReader, ReaderCounts, Reading
<1>5. CallbacksInOrder' /\ ReportedIsGone'
  BY DEF TypeOK, CallbacksInOrder, ReportedIsGone, Reading
<1>6. OneCloser'
  BY <1>a, ZenonT(40) DEF TypeOK, OneCloser, Closing, Reading
<1> QED
  BY <1>1, <1>2, <1>3, <1>4, <1>5, <1>6

LEMMA CloseConnIInv ==
  ASSUME IInv, ~panicked, NEW p \in Callers, CloseConn(p) PROVE IInv'
<1> USE TcpClientAssumption
    DEF IInv, CloseConn, Goto, clientVars, readerVars, appVars
<1>1. TypeOK'
  BY DEF TypeOK
<1>2. LockHeld'
  BY DEF TypeOK, LockHeld
<1>3. FdsGiven' /\ ReportedIsPast'
  BY DEF TypeOK, FdsGiven, ReportedIsPast
<1>4. OneReader' /\ ReaderCounts'
  BY DEF TypeOK, OneReader, ReaderCounts, Reading
<1>5. CallbacksInOrder' /\ ReportedIsGone'
  BY DEF TypeOK, CallbacksInOrder, ReportedIsGone, Reading
<1>6. OneCloser'
  BY DEF TypeOK, OneCloser, Closing, Reading
<1> QED
  BY <1>1, <1>2, <1>3, <1>4, <1>5, <1>6

LEMMA WaitReaderIInv ==
  ASSUME IInv, ~panicked, NEW p \in Callers, WaitReader(p) PROVE IInv'
<1> USE TcpClientAssumption
    DEF IInv, WaitReader, Goto, clientVars, readerVars, mgrVars, appVars
<1>a. \A r \in Fds : ~Reading(r)
  BY DEF ReaderCounts
<1>1. TypeOK'
  BY DEF TypeOK
<1>2. LockHeld'
  BY DEF TypeOK, LockHeld
<1>3. FdsGiven' /\ ReportedIsPast'
  BY DEF TypeOK, FdsGiven, ReportedIsPast
<1>4. OneReader' /\ ReaderCounts'
  BY DEF TypeOK, OneReader, ReaderCounts, Reading
<1>5. CallbacksInOrder' /\ ReportedIsGone'
  BY DEF TypeOK, CallbacksInOrder, ReportedIsGone, Reading
<1>6. OneCloser'
  BY <1>a DEF TypeOK, OneCloser, Closing, Reading
<1> QED
  BY <1>1, <1>2, <1>3, <1>4, <1>5, <1>6

LEMMA UnregisterIInv ==
  ASSUME IInv, ~panicked, NEW p \in Callers, Unregister(p) PROVE IInv'
<1> USE TcpClientAssumption
    DEF IInv, Unregister, Goto, clientVars, readerVars, appVars
<1>1. TypeOK'
  BY DEF TypeOK
<1>2. LockHeld'
  BY DEF TypeOK, LockHeld
<1>3. FdsGiven' /\ ReportedIsPast'
  BY DEF TypeOK, FdsGiven, ReportedIsPast
<1>4. OneReader' /\ ReaderCounts'
  BY DEF TypeOK, OneReader, ReaderCounts, Reading
<1>5. CallbacksInOrder' /\ ReportedIsGone'
  BY DEF TypeOK, CallbacksInOrder, ReportedIsGone, Reading
<1>6. OneCloser'
  BY DEF TypeOK, OneCloser, Closing, Reading
<1> QED
  BY <1>1, <1>2, <1>3, <1>4, <1>5, <1>6

LEMMA ResetIInv ==
  ASSUME IInv, ~panicked, NEW p \in Callers, Reset(p) PROVE IInv'
<1> USE TcpClientAssumption
    DEF IInv, Reset, Goto, readerVars, mgrVars, appVars
<1>a. ~panicked => \A r \in Fds : ~Reading(r)
  BY DEF OneCloser, Closing, OneReader
<1>b. None \notin Fds
  BY DEF Fds
<1>1. TypeOK'
  BY DEF TypeOK
<1>2. LockHeld'
  BY DEF TypeOK, LockHeld
<1>3. FdsGiven' /\ ReportedIsPast'
  BY <1>a, <1>b DEF TypeOK, FdsGiven, ReportedIsPast
<1>4. OneReader' /\ ReaderCounts'
  BY <1>a DEF TypeOK, OneReader, ReaderCounts, Reading
<1>5. CallbacksInOrder' /\ ReportedIsGone'
  BY DEF TypeOK, CallbacksInOrder, ReportedIsGone, Reading
<1>6. OneCloser'
  BY <1>a, <1>b DEF TypeOK, OneCloser, Closing, Reading
<1> QED
  BY <1>1, <1>2, <1>3, <1>4, <1>5, <1>6

LEMMA OnDisconnectedIInv ==
  ASSUME IInv, ~panicked, NEW p \in Callers, OnDisconnected(p) PROVE IInv'
<1> USE TcpClientAssumption
    DEF IInv, OnDisconnected, Goto, Return, clientVars, readerVars, mgrVars
<1>a. seen[p] \in connected /\ seen[p] # curFd /\ reported[seen[p]] = 0 /\ stopChan = "closed"
  BY DEF OneCloser, Closing
<1>b. seen[p] \in Fds /\ nextFd \in ClientFdStart .. ClientFdStart + MaxDials
  BY <1>a DEF TypeOK
<1>c. seen[p] \in Nat /\ nextFd \in Nat
  BY <1>b DEF Fds
<1>d. seen[p] < nextFd
  BY <1>a, <1>b, <1>c DEF FdsGiven
<1>1. TypeOK'
  BY <1>a, <1>b, <1>c, <1>d DEF TypeOK
<1>2. LockHeld'
  BY DEF TypeOK, LockHeld
<1>3. FdsGiven' /\ ReportedIsPast'
  BY <1>a, <1>b, <1>c, <1>d DEF TypeOK, FdsGiven, ReportedIsPast
<1>4. OneReader' /\ ReaderCounts'
  BY DEF TypeOK, OneReader, ReaderCounts, Reading
<1>5. CallbacksInOrder' /\ ReportedIsGone'
  BY <1>a, <1>b, <1>c, <1>d DEF OneCloser, Closing, TypeOK, CallbacksInOrder, ReportedIsGone, Reading
<1>6. OneCloser'
  BY DEF TypeOK, OneCloser, Closing, Reading
<1> QED
  BY <1>1, <1>2, <1>3, <1>4, <1>5, <1>6

-----------------------------------------------------------------------------
(* The reading goroutine and the ConnectionManager                         *)

LEMMA ReaderCheckIInv ==
  ASSUME IInv, ~panicked, NEW r \in Fds, ReaderCheck(r) PROVE IInv'
<1> USE TcpClientAssumption
    DEF IInv, ReaderCheck, ReaderGoto, ReaderExit, clientVars, callerVars, mgrVars, appVars
<1>w. wg = 1
  BY DEF ReaderCounts, Reading
<1>1. TypeOK'
  BY <1>w DEF TypeOK
<1>2. LockHeld'
  BY DEF TypeOK, LockHeld
<1>3. FdsGiven' /\ ReportedIsPast'
  BY DEF TypeOK, FdsGiven, ReportedIsPast
<1>4. OneReader' /\ ReaderCounts'
  BY DEF TypeOK, OneReader, ReaderCounts, Reading
<1>5. CallbacksInOrder' /\ ReportedIsGone'
  BY DEF TypeOK, CallbacksInOrder, ReportedIsGone, Reading
<1>6. OneCloser'
  BY DEF TypeOK, OneCloser, Closing, Reading
<1> QED
  BY <1>1, <1>2, <1>3, <1>4, <1>5, <1>6

LEMMA ReaderLockIInv ==
  ASSUME IInv, ~panicked, NEW r \in Fds, ReaderLock(r) PROVE IInv'
<1> USE TcpClientAssumption
    DEF IInv, ReaderLock, ReaderGoto, ReaderExit, clientVars, callerVars, mgrVars, appVars
<1>w. wg = 1
  BY DEF ReaderCounts, Reading
<1>a. curFd = r /\ r \in connected /\ r # None
  BY DEF OneReader, Reading, FdsGiven, Fds
<1>1. TypeOK'
  BY <1>w DEF TypeOK
<1>2. LockHeld'
  BY DEF TypeOK, LockHeld
<1>3. FdsGiven' /\ ReportedIsPast'
  BY DEF TypeOK, FdsGiven, ReportedIsPast
<1>4. OneReader' /\ ReaderCounts'
  BY <1>a, <1>w DEF TypeOK, OneReader, ReaderCounts, Reading
<1>5. CallbacksInOrder' /\ ReportedIsGone'
  BY DEF TypeOK, CallbacksInOrder, ReportedIsGone, Reading
<1>6. OneCloser'
  BY DEF TypeOK, OneCloser, Closing, Reading
<1> QED
  BY <1>1, <1>2, <1>3, <1>4, <1>5, <1>6

LEMMA ReadDataIInv ==
  ASSUME IInv, ~panicked, NEW r \in Fds, ReadData(r) PROVE IInv'
<1> USE TcpClientAssumption
    DEF IInv, ReadData, ReaderGoto, ReaderExit, clientVars, callerVars, mgrVars, appVars
<1>a. reported[r] = 0 /\ r \in connected
  BY DEF TypeOK, ReportedIsPast, OneReader, Reading, ReaderCounts
<1>1. TypeOK'
  BY DEF TypeOK
<1>2. LockHeld'
  BY DEF TypeOK, LockHeld
<1>3. FdsGiven' /\ ReportedIsPast'
  BY DEF TypeOK, FdsGiven, ReportedIsPast
<1>4. OneReader' /\ ReaderCounts'
  BY DEF TypeOK, OneReader, ReaderCounts, Reading
<1>5. CallbacksInOrder' /\ ReportedIsGone'
  BY <1>a DEF TypeOK, CallbacksInOrder, ReportedIsGone, Reading
<1>6. OneCloser'
  BY DEF TypeOK, OneCloser, Closing, Reading
<1> QED
  BY <1>1, <1>2, <1>3, <1>4, <1>5, <1>6

LEMMA ReadFailsIInv ==
  ASSUME IInv, ~panicked, NEW r \in Fds, ReadFails(r) PROVE IInv'
<1> USE TcpClientAssumption
    DEF IInv, ReadFails, ReaderGoto, ReaderExit, clientVars, callerVars, mgrVars, appVars
<1>w. wg = 1
  BY DEF ReaderCounts, Reading
<1>1. TypeOK'
  BY <1>w DEF TypeOK
<1>2. LockHeld'
  BY DEF TypeOK, LockHeld
<1>3. FdsGiven' /\ ReportedIsPast'
  BY DEF TypeOK, FdsGiven, ReportedIsPast
<1>4. OneReader' /\ ReaderCounts'
  BY DEF TypeOK, OneReader, ReaderCounts, Reading
<1>5. CallbacksInOrder' /\ ReportedIsGone'
  BY DEF TypeOK, CallbacksInOrder, ReportedIsGone, Reading
<1>6. OneCloser'
  BY DEF TypeOK, OneCloser, Closing, Reading
<1> QED
  BY <1>1, <1>2, <1>3, <1>4, <1>5, <1>6

LEMMA OnDataReceivedIInv ==
  ASSUME IInv, ~panicked, NEW r \in Fds, OnDataReceived(r) PROVE IInv'
<1> USE TcpClientAssumption
    DEF IInv, OnDataReceived, ReaderGoto, ReaderExit, clientVars, callerVars, mgrVars, appVars
<1>w. wg = 1
  BY DEF ReaderCounts, Reading
<1>1. TypeOK'
  BY <1>w DEF TypeOK
<1>2. LockHeld'
  BY DEF TypeOK, LockHeld
<1>3. FdsGiven' /\ ReportedIsPast'
  BY DEF TypeOK, FdsGiven, ReportedIsPast
<1>4. OneReader' /\ ReaderCounts'
  BY DEF TypeOK, OneReader, ReaderCounts, Reading
<1>5. CallbacksInOrder' /\ ReportedIsGone'
  BY DEF TypeOK, CallbacksInOrder, ReportedIsGone, Reading
<1>6. OneCloser'
  BY DEF TypeOK, OneCloser, Closing, Reading
<1> QED
  BY <1>1, <1>2, <1>3, <1>4, <1>5, <1>6

LEMMA DisconnectDeviceIInv ==
  ASSUME IInv, ~panicked, NEW fd \in Fds, DisconnectDevice(fd) PROVE IInv'
<1> USE TcpClientAssumption
    DEF IInv, DisconnectDevice, clientVars, callerVars, readerVars, appVars
<1>1. TypeOK'
  BY DEF TypeOK
<1>2. LockHeld'
  BY DEF TypeOK, LockHeld
<1>3. FdsGiven' /\ ReportedIsPast'
  BY DEF TypeOK, FdsGiven, ReportedIsPast
<1>4. OneReader' /\ ReaderCounts'
  BY DEF TypeOK, OneReader, ReaderCounts, Reading
<1>5. CallbacksInOrder' /\ ReportedIsGone'
  BY DEF TypeOK, CallbacksInOrder, ReportedIsGone, Reading
<1>6. OneCloser'
  BY DEF TypeOK, OneCloser, Closing, Reading
<1> QED
  BY <1>1, <1>2, <1>3, <1>4, <1>5, <1>6

-----------------------------------------------------------------------------
\* Every step of the client keeps the invariant.
LEMMA NextIInv ==
  ASSUME IInv, [Next]_vars PROVE IInv'
<1>1. CASE UNCHANGED vars
  BY <1>1 DEF vars, clientVars, callerVars, readerVars, mgrVars, appVars, IInv, TypeOK,
              LockHeld, FdsGiven, OneReader, ReaderCounts, OneCloser, Closing, Reading,
              ReportedIsPast, CallbacksInOrder, ReportedIsGone
<1>2. ASSUME ~panicked, NEW p \in Callers,
             \/ Connect(p) \/ DialFails(p) \/ Register(p)
             \/ CloseBegin(p) \/ CallerStep(p)
      PROVE  IInv'
  BY <1>2, ConnectIInv, DialFailsIInv, RegisterIInv, CloseBeginIInv, SpawnIInv,
     OnConnectedIInv, SelectStopIInv, CloseStopChanIInv, CloseConnIInv, WaitReaderIInv,
     UnregisterIInv, ResetIInv, OnDisconnectedIInv
     DEF CallerStep
<1>3. ASSUME ~panicked, NEW r \in Fds,
             ReaderStep(r) \/ ReadData(r) \/ ReadFails(r) \/ DisconnectDevice(r)
      PROVE  IInv'
  BY <1>3, ReaderCheckIInv, ReaderLockIInv, ReadDataIInv, ReadFailsIInv, OnDataReceivedIInv,
     DisconnectDeviceIInv
     DEF ReaderStep
<1> QED
  BY <1>1, <1>2, <1>3 DEF Next

\* The invariant holds in every reachable state.
THEOREM Invariance == Spec => []IInv
<1> QED
  BY InitIInv, NextIInv, PTL DEF Spec

\* The client's variables keep their types.
THEOREM TypeCorrect == Spec => []TypeOK
<1>1. IInv => TypeOK
  BY DEF IInv
<1> QED
  BY <1>1, Invariance, PTL

\* Whoever connects, closes and connects again, one goroutine reads, and from
\* the connection it was started for.
THEOREM AlwaysOneReader == Spec => []OneReader
<1>1. IInv => OneReader
  BY DEF IInv
<1> QED
  BY <1>1, Invariance, PTL

\* The callbacks of a connection come in the order an application expects.
THEOREM CallbacksAlwaysInOrder == Spec => []CallbacksInOrder
<1>1. IInv => CallbacksInOrder
  BY DEF IInv
<1> QED
  BY <1>1, Invariance, PTL

\* OnDisconnected leaves nothing of the connection behind.
THEOREM ReportedIsAlwaysGone == Spec => []ReportedIsGone
<1>1. IInv => ReportedIsGone
  BY DEF IInv
<1> QED
  BY <1>1, Invariance, PTL

\* One step more: what a Close at wg.Wait has closed stays closed, since
\* nobody dials while the client has a connection.
LEMMA ClosedStaysClosedStep ==
  ASSUME IInv, ClosedStaysClosed, Next PROVE ClosedStaysClosed'
<1> USE DEF IInv, TypeOK
<1> SUFFICES ASSUME NEW p \in Callers, ~panicked, ~panicked', pc'[p] = "wait"
             PROVE  seen'[p] \notin open'
  BY DEF ClosedStaysClosed, Next
<1>1. ASSUME NEW q \in Callers, CloseConn(q) PROVE seen'[p] \notin open'
  BY <1>1 DEF CloseConn, Goto, ClosedStaysClosed
<1>2. ASSUME NEW q \in Callers, Register(q) PROVE seen'[p] \notin open'
  <2>1. pc[p] = "wait" /\ seen'[p] = seen[p]
    BY <1>2 DEF Register, Goto
  <2>2. seen[p] = curFd /\ seen[p] \in connected
    BY <2>1 DEF OneCloser, Closing
  <2>3. curFd = None
    BY <1>2 DEF Register, LockHeld
  <2> QED
    BY <2>2, <2>3, TcpClientAssumption DEF Fds
<1>3. ASSUME NEW q \in Callers,
             \/ Connect(q) \/ DialFails(q) \/ Spawn(q) \/ OnConnected(q) \/ CloseBegin(q)
             \/ SelectStop(q) \/ CloseStopChan(q)
      PROVE  seen'[p] \notin open'
  BY <1>3 DEF Connect, DialFails, Spawn, OnConnected, CloseBegin, SelectStop, CloseStopChan,
              Return, Goto, ClosedStaysClosed, callerVars, mgrVars
<1>4. ASSUME NEW q \in Callers,
             WaitReader(q) \/ Unregister(q) \/ Reset(q) \/ OnDisconnected(q)
      PROVE  seen'[p] \notin open'
  BY <1>4 DEF WaitReader, Unregister, Reset, OnDisconnected, Return, Goto,
              ClosedStaysClosed, mgrVars
<1>5. ASSUME NEW r \in Fds,
             ReaderStep(r) \/ ReadData(r) \/ ReadFails(r) \/ DisconnectDevice(r)
      PROVE  seen'[p] \notin open'
  BY <1>5 DEF ReaderStep, ReaderCheck, ReaderLock, OnDataReceived, ReadData, ReadFails,
              DisconnectDevice, ClosedStaysClosed, callerVars, mgrVars
<1> QED
  BY <1>1, <1>2, <1>3, <1>4, <1>5 DEF Next, CallerStep

\* A Close that waits for the reading goroutine waits neither for the network
\* nor for another caller: c.mu is free, and the only Read the goroutine can
\* be in is on the connection that this Close has closed.
THEOREM CloseNeverBlocks == Spec => []CloseUnblocks
<1>1. Init => ClosedStaysClosed
  BY DEF Init, ClosedStaysClosed
<1>2. ASSUME IInv, ClosedStaysClosed, [Next]_vars PROVE ClosedStaysClosed'
  <2>1. CASE UNCHANGED vars
    BY <1>2, <2>1 DEF vars, callerVars, mgrVars, ClosedStaysClosed
  <2> QED
    BY <1>2, <2>1, ClosedStaysClosedStep
<1>3. ASSUME IInv, ClosedStaysClosed PROVE CloseUnblocks
  <2> USE DEF IInv
  <2> SUFFICES ASSUME NEW p \in Callers, ~panicked, pc[p] = "wait"
               PROVE  /\ mu = None
                      /\ \A r \in Fds : readerPc[r] = "read" => readFd[r] \notin open
    BY DEF CloseUnblocks
  <2>1. seen[p] = curFd /\ seen[p] \in connected /\ seen[p] \notin open
    BY <1>3 DEF OneCloser, Closing, ClosedStaysClosed
  <2>2. mu = None
    <3>1. ASSUME NEW q \in Callers, mu = q PROVE FALSE
      <4>1. pc[q] \in {"dial", "spawn", "onConnected"}
        BY <1>3, <3>1 DEF LockHeld
      <4>2. curFd = None \/ curFd \notin connected
        BY <1>3, <4>1 DEF LockHeld
      <4> QED
        BY <1>3, <2>1, <4>2, TcpClientAssumption DEF TypeOK, Fds
    <3> QED
      BY <1>3, <3>1 DEF TypeOK
  <2>3. \A r \in Fds : readerPc[r] = "read" => readFd[r] = curFd
    BY <1>3 DEF OneReader, Reading
  <2> QED
    BY <2>1, <2>2, <2>3
<1> QED
  BY <1>1, <1>2, <1>3, Invariance, PTL DEF Spec

-----------------------------------------------------------------------------
(* The packets in the byte stream, for every size of header, buffer and    *)
(* packets and every way the stream is cut: handlers get what was posted,  *)
(* and a connection is given up only for what was posted.                  *)

\* A step of the socket is one of the client or leaves it alone.
LEMMA StepIsClientStep ==
  ASSUME [SocketNext]_socketVars PROVE [Next]_vars
<1>1. ASSUME ClientStep, ~panicked PROVE [Next]_vars
  BY <1>1 DEF ClientStep, Next, ReaderStep
<1>2. ASSUME NEW s \in Streams, Post(s) PROVE [Next]_vars
  BY <1>2 DEF Post
<1>3. ASSUME NEW module \in ChannelModules,
             RegAuthChannelListener(module) \/ UnregAuthChannelListener(module)
      PROVE  [Next]_vars
  BY <1>3 DEF RegAuthChannelListener, UnregAuthChannelListener
<1>4. ASSUME SetSocketCallback \/ UnsetSocketCallback PROVE [Next]_vars
  BY <1>4 DEF SetSocketCallback, UnsetSocketCallback
<1>5. ASSUME NEW r \in Fds, ReadBytes(r), ~panicked PROVE [Next]_vars
  BY <1>5 DEF ReadBytes, Next
<1>6. ASSUME NEW r \in Fds, ParseStep(r), ~panicked PROVE [Next]_vars
  BY <1>6 DEF ParseStep, Dispatch, HandlerReturns, Reject, Keep, Next, ReaderStep
<1>7. ASSUME UNCHANGED socketVars PROVE [Next]_vars
  BY <1>7 DEF socketVars
<1> QED
  BY <1>1, <1>2, <1>3, <1>4, <1>5, <1>6, <1>7 DEF SocketNext

\* The socket implements the client.
THEOREM SocketImplementsClient == SocketSpec => Spec
<1>1. SocketInit => Init
  BY DEF SocketInit
<1> QED
  BY <1>1, StepIsClientStep, PTL DEF SocketSpec, Spec

-----------------------------------------------------------------------------
(* Where the packets are.                                                  *)

\* The end of the packets before is where the next one begins.
LEMMA EndsAreBytes ==
  ASSUME SocketTypeOK, NEW k \in 0 .. Len(posted)
  PROVE  /\ EndOf(k) \in Int
         /\ k # 0 => posted[k].at \in Nat /\ posted[k].len \in Nat
         /\ k # 0 => EndOf(k) = posted[k].at + HeadLen + posted[k].len - 1
<1>1. CASE k = 0
  BY <1>1 DEF EndOf
<1>2. CASE k # 0
  <2>1. k \in 1 .. Len(posted)
    BY <1>2
  <2>2. posted[k] \in [module : Modules, len : Nat, at : Nat]
    BY <2>1, ElementOfSeq, Zenon DEF SocketTypeOK
  <2> QED
    BY <1>2, <2>2, AuthSocketAssumption DEF EndOf
<1> QED
  BY <1>1, <1>2

\* A header that is found is that of the next packet.
LEMMA HeadIsNext ==
  ASSUME SocketInv, NEW k \in DOMAIN posted, IsHead(posted[k])
  PROVE  k = Len(handled) + 1
<1> DEFINE n == Len(handled)
<1> USE AuthSocketAssumption
<1>1. /\ n \in Nat /\ n <= Len(posted) /\ Len(posted) \in Nat
      /\ DOMAIN posted = 1 .. Len(posted)
  BY SMTT(30) DEF SocketInv, SocketTypeOK, BufferInPlace
<1>2. posted[k].at = EndOf(n) + 1
  <2>1. /\ Len(buf) \in Nat /\ got \in Nat /\ processed \in Nat
        /\ DOMAIN buf = 1 .. Len(buf)
    BY DEF SocketInv, SocketTypeOK
  <2>6. processed + 1 \in 1 .. Len(buf)
    BY <2>1 DEF IsHead, HeadRead
  <2>2. buf[processed + 1] = posted[k].at + 1 - 1
    BY DEF IsHead
  <2>3. buf[processed + 1] = got - Len(buf) + (processed + 1)
    BY <2>1, <2>6 DEF SocketInv, BufferInPlace
  <2>4. got - Len(buf) + processed = EndOf(n)
    BY DEF SocketInv, BufferInPlace
  <2>5. posted[k].at \in Nat
    BY <1>1, EndsAreBytes DEF SocketInv
  <2> QED
    BY <2>1, <2>2, <2>3, <2>4, <2>5
<1>3. \A j \in DOMAIN posted : posted[j].at = EndOf(j - 1) + 1
  BY DEF SocketInv, PostedInPlace
<1>4. \A i, j \in DOMAIN posted : i < j => posted[i].at < posted[j].at
  BY DEF SocketInv, PostedInPlace
<1>5. \A j \in DOMAIN posted : posted[j].at \in Nat /\ j \in Nat
  BY <1>1, EndsAreBytes DEF SocketInv
<1>6. n < Len(posted)
  <2>1. SUFFICES ASSUME n = Len(posted), n # 0 PROVE FALSE
    BY <1>1
  <2>2. EndOf(n) = posted[n].at + HeadLen + posted[n].len - 1 /\ posted[n].len \in Nat
    BY <2>1, <1>1, EndsAreBytes DEF SocketInv
  <2>3. posted[k].at > posted[n].at /\ n \in DOMAIN posted
    BY <2>1, <2>2, <1>1, <1>2, <1>5, SMTT(30)
  <2> QED
    BY <2>1, <2>3, <1>1, <1>4, <1>5
<1>7. n + 1 \in DOMAIN posted /\ posted[n + 1].at = posted[k].at
  <2>1. n + 1 \in DOMAIN posted /\ n + 1 - 1 = n
    BY <1>1, <1>6
  <2> QED
    BY <2>1, <1>2, <1>3
<1> QED
  BY <1>4, <1>5, <1>7

\* Where a header can be read, the next packet's is found.
LEMMA NextIsHead ==
  ASSUME SocketInv, HeadRead
  PROVE  /\ Len(handled) < Len(posted)
         /\ Len(handled) + 1 \in DOMAIN posted
         /\ IsHead(NextPacket)
<1> DEFINE n == Len(handled)
<1> USE AuthSocketAssumption
<1>1. /\ n \in Nat /\ n <= Len(posted) /\ Len(posted) \in Nat
      /\ DOMAIN posted = 1 .. Len(posted)
  BY DEF SocketInv, SocketTypeOK, BufferInPlace
<1>2. /\ Len(buf) \in Nat /\ got \in Nat /\ processed \in Nat
      /\ DOMAIN buf = 1 .. Len(buf) /\ processed + HeadLen <= Len(buf)
  BY DEF SocketInv, SocketTypeOK, HeadRead
<1>3. got - Len(buf) + processed = EndOf(n) /\ got <= EndOf(Len(posted))
  BY DEF SocketInv, BufferInPlace, Sent
<1>4. n < Len(posted)
  BY <1>1, <1>2, <1>3
<1>5. n + 1 \in DOMAIN posted /\ n + 1 - 1 = n
  BY <1>1, <1>4
<1>6. NextPacket.at = EndOf(n) + 1
  BY <1>5 DEF NextPacket, SocketInv, PostedInPlace
<1>7. \A i \in DOMAIN buf : buf[i] = got - Len(buf) + i
  BY DEF SocketInv, BufferInPlace
<1>8. ASSUME NEW i \in 1 .. HeadLen PROVE buf[processed + i] = NextPacket.at + i - 1
  <2>1. processed + i \in DOMAIN buf
    BY <1>2
  <2>2. buf[processed + i] = got - Len(buf) + (processed + i)
    BY <2>1, <1>7
  <2> QED
    BY <2>2, <1>2, <1>3, <1>6
<1> QED
  BY <1>4, <1>5, <1>8 DEF IsHead

-----------------------------------------------------------------------------
(* The invariant.  That of the client is kept by every step of the client. *)

LEMMA InitSocketInv ==
  ASSUME SocketInit PROVE SocketInv
<1> USE AuthSocketAssumption DEF SocketInit
<1>e. Len(<<>>) = 0 /\ DOMAIN <<>> = {}
  OBVIOUS
<1>1. IInv
  BY InitIInv
<1>2. SocketTypeOK
  BY EmptySeq DEF SocketTypeOK
<1>3. PostedInPlace /\ InOrder /\ Blame
  BY <1>e DEF PostedInPlace, InOrder, Blame
<1>4. BufferInPlace
  <2>1. EndOf(0) = 0 /\ Sent = 0
    BY <1>e, Zenon DEF EndOf, Sent
  <2>2. \A i \in DOMAIN buf : buf[i] = got - Len(buf) + i
    BY <1>e
  <2> QED
    BY <1>e, <2>1, <2>2 DEF BufferInPlace
<1>5. LoopInPlace
  BY DEF LoopInPlace, Init, Reading
<1> QED
  BY <1>1, <1>2, <1>3, <1>4, <1>5 DEF SocketInv

\* Whoever leaves the stream alone keeps what is said of it.
LEMMA StreamUntouched ==
  ASSUME SocketInv, UNCHANGED streamVars,
         listeners' \subseteq ChannelModules, hasCallback' \in BOOLEAN
  PROVE  SocketTypeOK' /\ PostedInPlace' /\ BufferInPlace' /\ InOrder' /\ Blame'
<1>1. SocketTypeOK'
  BY DEF SocketInv, streamVars, SocketTypeOK
<1>2. PostedInPlace' /\ BufferInPlace'
  BY DEF SocketInv, streamVars, PostedInPlace, BufferInPlace, Sent, EndOf
<1>3. InOrder' /\ Blame'
  BY DEF SocketInv, streamVars, InOrder, Expected, Blame, NextPacket
<1> QED
  BY <1>1, <1>2, <1>3

LEMMA RegisterSocketInv ==
  ASSUME SocketInv, NEW p \in Callers, Register(p), NewStream, UNCHANGED handlerVars
  PROVE  SocketTypeOK' /\ PostedInPlace' /\ BufferInPlace' /\ LoopInPlace' /\ InOrder' /\ Blame'
<1> USE AuthSocketAssumption DEF NewStream
<1>e. Len(<<>>) = 0 /\ DOMAIN <<>> = {}
  OBVIOUS
<1>1. SocketTypeOK'
  BY EmptySeq DEF SocketInv, handlerVars, SocketTypeOK
<1>2. PostedInPlace' /\ InOrder' /\ Blame'
  BY <1>e DEF PostedInPlace, InOrder, Blame
<1>3. BufferInPlace'
  <2>1. EndOf(0)' = 0 /\ Sent' = 0
    BY <1>e, Zenon DEF EndOf, Sent
  <2>2. \A i \in DOMAIN buf' : buf[i]' = got' - Len(buf)' + i
    BY <1>e
  <2> QED
    BY <1>e, <2>1, <2>2 DEF BufferInPlace
<1>4. LoopInPlace'
  BY DEF LoopInPlace
<1> QED
  BY <1>1, <1>2, <1>3, <1>4

\* A goroutine begins to read with nothing processed.
LEMMA ClientStepSocketInv ==
  ASSUME SocketInv, ClientStep
  PROVE  SocketTypeOK' /\ PostedInPlace' /\ BufferInPlace' /\ LoopInPlace' /\ InOrder' /\ Blame'
<1>a. listeners' \subseteq ChannelModules /\ hasCallback' \in BOOLEAN
  BY DEF SocketInv, SocketTypeOK, ClientStep, handlerVars
<1>b. UNCHANGED streamVars => processed' = processed /\ why' = why
  BY DEF streamVars
<1>c. readerPc \in [Fds -> {"none", "check", "lock", "read", "callback", "done"}]
  BY DEF SocketInv, IInv, TypeOK
<1>d. pc \in [Callers -> {"idle", "dial", "spawn", "onConnected", "select", "closeChan",
                          "closeConn", "wait", "unregister", "reset", "report"}]
  BY DEF SocketInv, IInv, TypeOK
<1>1. ASSUME NEW p \in Callers, UNCHANGED streamVars, Spawn(p) PROVE LoopInPlace'
  <2>1. curFd \in Fds
    BY <1>1 DEF SocketInv, IInv, LockHeld, Spawn
  <2> QED
    BY <1>1, <1>b, <1>c, <1>d, <2>1
       DEF SocketInv, LoopInPlace, Reading, Spawn, ReaderGoto, Goto
<1>2. ASSUME NEW p \in Callers, UNCHANGED streamVars,
             UNCHANGED readerPc, \E label \in {"idle", "dial", "select", "closeChan",
               "closeConn", "wait", "unregister", "reset", "report"} : Goto(p, label)
      PROVE  LoopInPlace'
  BY <1>2, <1>b, <1>d DEF SocketInv, LoopInPlace, Reading, Goto
<1>3. ASSUME NEW p \in Callers, UNCHANGED streamVars,
             \/ Connect(p) \/ DialFails(p) \/ CloseBegin(p) \/ CallerStep(p)
      PROVE  LoopInPlace'
  BY <1>1, <1>2, <1>3
     DEF Connect, DialFails, CloseBegin, CallerStep, OnConnected, SelectStop, CloseStopChan,
         CloseConn, WaitReader, Unregister, Reset, OnDisconnected, Return, readerVars
<1>4. ASSUME NEW r \in Fds, UNCHANGED streamVars,
             ReaderCheck(r) \/ ReaderLock(r) \/ ReadFails(r) \/ DisconnectDevice(r)
      PROVE  LoopInPlace'
  BY <1>4, <1>b, <1>c
     DEF SocketInv, LoopInPlace, Reading, ReaderCheck, ReaderLock, ReadFails, DisconnectDevice,
         ReaderGoto, ReaderExit, callerVars, readerVars
<1>5. CASE \E p \in Callers : Register(p) /\ NewStream
  BY <1>5, RegisterSocketInv DEF ClientStep
<1>6. CASE UNCHANGED streamVars
  <2>1. LoopInPlace'
    BY <1>3, <1>4, <1>6, RegisterSocketInv DEF ClientStep
  <2> QED
    BY <1>6, <1>a, <2>1, StreamUntouched
<1> QED
  BY <1>5, <1>6 DEF ClientStep

\* A new packet leaves those before it where they are.
LEMMA PostSocketInv ==
  ASSUME SocketInv, NEW s \in Streams, Post(s)
  PROVE  SocketTypeOK' /\ PostedInPlace' /\ BufferInPlace' /\ LoopInPlace' /\ InOrder' /\ Blame'
<1> DEFINE T == [module : Modules, len : Nat, at : Nat]
<1> USE AuthSocketAssumption
<1>0. PICK n \in Nat : n = Len(posted)
  BY LenProperties DEF SocketInv, SocketTypeOK
<1>1. n \in Nat /\ DOMAIN posted = 1 .. n /\ posted \in Seq(T)
  BY <1>0, LenProperties DEF SocketInv, SocketTypeOK
<1>2. Sent \in Nat
  <2>1. Sent \in Int
    BY <1>0, <1>1, EndsAreBytes DEF SocketInv, Sent
  <2>2. got \in Nat /\ got <= Sent
    BY DEF SocketInv, SocketTypeOK, BufferInPlace
  <2> QED
    BY <2>1, <2>2
<1>3. s[n + 1].module \in Modules /\ s[n + 1].len \in Nat
  <2>1. s \in Seq([module : Modules, len : Nat]) /\ n < Len(s)
    BY <1>0 DEF Post
  <2>2. n + 1 \in 1 .. Len(s)
    BY <1>1, <2>1
  <2>3. s[n + 1] \in [module : Modules, len : Nat]
    BY <2>1, <2>2, ElementOfSeq, Zenon
  <2> QED
    BY <2>3
<1> DEFINE next == [module |-> s[n + 1].module, len |-> s[n + 1].len, at |-> Sent + 1]
<1>4. next \in T /\ next.at = Sent + 1 /\ next.len \in Nat
  BY <1>2, <1>3
<1>5. posted' = Append(posted, next) /\ Len(posted) = n
  BY <1>0 DEF Post
<1> HIDE DEF next, T
<1>6. /\ posted' \in Seq(T)
      /\ Len(posted') = n + 1
      /\ \A k \in 1 .. n : posted'[k] = posted[k]
      /\ posted'[n + 1] = next
      /\ DOMAIN posted' = 1 .. n + 1
  <2>1. /\ posted' \in Seq(T)
        /\ Len(posted') = n + 1
        /\ \A k \in 1 .. n : posted'[k] = posted[k]
        /\ posted'[n + 1] = next
    <3>1. /\ Append(posted, next) \in Seq(T)
          /\ Len(Append(posted, next)) = Len(posted) + 1
          /\ \A k \in 1 .. Len(posted) : Append(posted, next)[k] = posted[k]
          /\ Append(posted, next)[Len(posted) + 1] = next
      BY <1>1, <1>4, AppendProperties
    <3> QED
      BY <3>1, <1>5
  <2> QED
    BY <2>1, LenProperties
<1>7. \A k \in 0 .. n : EndOf(k)' = EndOf(k)
  BY <1>1, <1>6 DEF EndOf
<1>8. Sent' = Sent + HeadLen + next.len
  <2>1. EndOf(n + 1)' = next.at + HeadLen + next.len - 1
    BY <1>1, <1>6 DEF EndOf
  <2>2. Sent' = EndOf(n + 1)'
    BY <1>6 DEF Sent
  <2> QED
    BY <2>1, <2>2, <1>2, <1>4
<1>9. /\ UNCHANGED <<got, buf, processed, handled, calling, why, listeners, hasCallback>>
      /\ UNCHANGED <<pc, readerPc>>
  BY DEF Post, handlerVars, vars, callerVars, readerVars
<1>10. SocketTypeOK'
  BY <1>6, <1>9 DEF SocketInv, SocketTypeOK, T
<1>11. PostedInPlace'
  <2>1. /\ \A k \in 1 .. n : posted[k].at = EndOf(k - 1) + 1
        /\ \A j, k \in 1 .. n : j < k => posted[j].at < posted[k].at
    BY <1>1 DEF SocketInv, PostedInPlace
  <2>2. \A k \in 1 .. n : posted[k].at \in Nat /\ posted[k].at <= Sent
    <3>1. ASSUME NEW k \in 1 .. n PROVE posted[k].at \in Nat /\ posted[k].at <= Sent
      <4>1. /\ posted[k].at \in Nat /\ posted[n].at \in Nat /\ posted[n].len \in Nat
            /\ EndOf(n) = posted[n].at + HeadLen + posted[n].len - 1
        BY <1>1, <1>5, EndsAreBytes DEF SocketInv
      <4>2. k < n => posted[k].at < posted[n].at
        BY <1>1, <2>1
      <4> QED
        BY <1>1, <1>5, <4>1, <4>2, SMTT(30) DEF Sent
    <3> QED
      BY <3>1
  <2>3. ASSUME NEW k \in 1 .. n + 1 PROVE posted'[k].at = EndOf(k - 1)' + 1
    <3>1. CASE k \in 1 .. n
      <4>1. k - 1 \in 0 .. n
        BY <3>1, <1>1
      <4> QED
        BY <3>1, <4>1, <2>1, <1>6, <1>7
    <3>2. CASE k = n + 1
      <4>1. EndOf(n)' = Sent
        <5>1. Sent = EndOf(n) /\ n \in 0 .. n
          BY <1>1, <1>5 DEF Sent
        <5> QED
          BY <5>1, <1>7
      <4>2. k - 1 = n /\ posted'[k] = next
        BY <3>2, <1>1, <1>6
      <4> QED
        BY <4>1, <4>2, <1>4
    <3> QED
      BY <1>1, <3>1, <3>2
  <2>4. ASSUME NEW j \in 1 .. n + 1, NEW k \in 1 .. n + 1, j < k
        PROVE  posted'[j].at < posted'[k].at
    <3>1. CASE k \in 1 .. n
      <4>1. j \in 1 .. n
        BY <2>4, <3>1, <1>1
      <4> QED
        BY <2>4, <3>1, <4>1, <2>1, <1>6
    <3>2. CASE k = n + 1
      <4>1. j \in 1 .. n
        BY <2>4, <3>2, <1>1
      <4> QED
        BY <3>2, <4>1, <2>2, <1>2, <1>4, <1>6, SMTT(30)
    <3> QED
      BY <1>1, <3>1, <3>2
  <2> QED
    BY <2>3, <2>4, <1>6 DEF PostedInPlace
<1>12. Len(handled) \in 0 .. n /\ DOMAIN handled = 1 .. Len(handled)
  BY <1>1, <1>5, LenProperties DEF SocketInv, SocketTypeOK, BufferInPlace
<1>13. BufferInPlace'
  <2>1. EndOf(Len(handled))' = EndOf(Len(handled))
    BY <1>7, <1>9, <1>12
  <2>2. got <= Sent'
    BY <1>2, <1>4, <1>8, SMTT(30) DEF SocketInv, SocketTypeOK, BufferInPlace
  <2>3. Len(handled') <= Len(posted')
    BY <1>1, <1>6, <1>9, <1>12
  <2> QED
    BY <2>1, <2>2, <2>3, <1>9 DEF SocketInv, BufferInPlace
<1>14. LoopInPlace'
  BY <1>9 DEF SocketInv, LoopInPlace, Reading
<1>15. InOrder'
  <2>1. \A k \in 1 .. n : Expected(posted[k])' = Expected(posted[k])
    BY <1>6 DEF Expected
  <2> QED
    BY <2>1, <1>1, <1>6, <1>9, <1>12 DEF SocketInv, InOrder
<1>16. Blame'
  <2>1. Len(handled) < n => posted'[Len(handled) + 1] = posted[Len(handled) + 1]
    BY <1>1, <1>6, <1>12
  <2> QED
    BY <2>1, <1>1, <1>5, <1>6, <1>9, <1>12 DEF SocketInv, Blame, NextPacket, InRange
<1> QED
  BY <1>10, <1>11, <1>13, <1>14, <1>15, <1>16

LEMMA HandlersSocketInv ==
  ASSUME SocketInv,
         \/ \E module \in ChannelModules :
              RegAuthChannelListener(module) \/ UnregAuthChannelListener(module)
         \/ SetSocketCallback \/ UnsetSocketCallback
  PROVE  SocketTypeOK' /\ PostedInPlace' /\ BufferInPlace' /\ LoopInPlace' /\ InOrder' /\ Blame'
<1>1. /\ UNCHANGED <<vars, streamVars>>
      /\ listeners' \subseteq ChannelModules /\ hasCallback' \in BOOLEAN
  BY DEF SocketInv, SocketTypeOK, RegAuthChannelListener, UnregAuthChannelListener,
         SetSocketCallback, UnsetSocketCallback
<1>2. LoopInPlace'
  BY <1>1 DEF SocketInv, LoopInPlace, Reading, vars, streamVars, callerVars, readerVars
<1> QED
  BY <1>1, <1>2, StreamUntouched

\* While a goroutine has data at hand, it is the only one, its loop has not
\* given up and nobody is about to start another.
LEMMA InTheLoop ==
  ASSUME SocketInv, NEW r \in Fds, readerPc[r] \in {"read", "callback"}
  PROVE  /\ \A q \in Fds : Reading(q) => q = r
         /\ \A p \in Callers : pc[p] # "spawn"
         /\ why = None
<1>1. Reading(r) /\ \A q \in Fds : Reading(q) => q = r
  BY DEF SocketInv, IInv, OneReader, Reading
<1>2. why = None
  BY <1>1 DEF SocketInv, SocketTypeOK, LoopInPlace
<1>3. \A p \in Callers : pc[p] # "spawn"
  BY <1>1 DEF SocketInv, IInv, LockHeld, OneReader, Reading
<1> QED
  BY <1>1, <1>2, <1>3

LEMMA ReadBytesSocketInv ==
  ASSUME SocketInv, NEW r \in Fds, ReadBytes(r)
  PROVE  SocketTypeOK' /\ PostedInPlace' /\ BufferInPlace' /\ LoopInPlace' /\ InOrder' /\ Blame'
<1> USE AuthSocketAssumption
<1>1. PICK n \in 1 .. BufSize - Len(buf) :
        /\ got + n <= Sent
        /\ buf' = buf \o [i \in 1 .. n |-> got + i]
        /\ got' = got + n
  BY DEF ReadBytes
<1>2. /\ UNCHANGED <<posted, handled, calling, why, listeners, hasCallback, pc>>
      /\ processed' = 0 /\ processed = 0
      /\ readerPc[r] = "read"
  BY DEF ReadBytes, ReadData, handlerVars, callerVars, SocketInv, LoopInPlace
<1>3. /\ buf \in Seq(Nat) /\ Len(buf) \in Nat /\ got \in Nat
      /\ Len(buf) <= got /\ DOMAIN buf = 1 .. Len(buf)
      /\ \A i \in 1 .. Len(buf) : buf[i] = got - Len(buf) + i
  BY LenProperties DEF SocketInv, SocketTypeOK, BufferInPlace
<1> DEFINE bytes == [i \in 1 .. n |-> got + i]
<1>4. n \in Nat /\ n <= BufSize - Len(buf)
  BY <1>3
<1>5. bytes \in Seq(Nat) /\ Len(bytes) = n /\ \A j \in 1 .. n : bytes[j] = got + j
  <2>1. bytes \in [1 .. n -> Nat]
    BY <1>3, <1>4
  <2> QED
    BY <2>1, <1>4
<1>a. buf' = buf \o bytes
  BY <1>1
<1> HIDE DEF bytes
<1>6. /\ buf' \in Seq(Nat)
      /\ Len(buf') = Len(buf) + n
      /\ \A i \in 1 .. Len(buf) + n :
           buf'[i] = IF i <= Len(buf) THEN buf[i] ELSE bytes[i - Len(buf)]
  <2>1. /\ buf \o bytes \in Seq(Nat)
        /\ Len(buf \o bytes) = Len(buf) + Len(bytes)
        /\ \A i \in 1 .. Len(buf) + Len(bytes) :
             (buf \o bytes)[i] = IF i <= Len(buf) THEN buf[i] ELSE bytes[i - Len(buf)]
    <3>1. buf \in Seq(Nat) /\ bytes \in Seq(Nat)
      BY <1>3, <1>5, Zenon
    <3> QED
      BY <3>1, ConcatProperties, Zenon
  <2> QED
    BY <2>1, <1>a, <1>5
<1>7. \A i \in 1 .. Len(buf') : buf'[i] = got' - Len(buf') + i
  <2>1. ASSUME NEW i \in 1 .. Len(buf') PROVE buf'[i] = got' - Len(buf') + i
    <3>1. CASE i <= Len(buf)
      BY <3>1, <1>1, <1>3, <1>4, <1>6
    <3>2. CASE i > Len(buf)
      <4>1. i - Len(buf) \in 1 .. n
        BY <3>2, <1>3, <1>4, <1>6
      <4>2. buf'[i] = got + (i - Len(buf))
        BY <3>2, <4>1, <1>3, <1>5, <1>6
      <4> QED
        BY <4>1, <4>2, <1>1, <1>3, <1>4, <1>6
    <3> QED
      BY <1>3, <1>6, <3>1, <3>2
  <2> QED
    BY <2>1
<1>8. SocketTypeOK'
  BY <1>1, <1>2, <1>3, <1>4, <1>6 DEF SocketInv, SocketTypeOK
<1>9. PostedInPlace' /\ InOrder' /\ Blame'
  BY <1>2 DEF SocketInv, PostedInPlace, EndOf, InOrder, Expected, Blame, NextPacket
<1>10. BufferInPlace'
  <2>1. Sent' = Sent /\ EndOf(Len(handled))' = EndOf(Len(handled))
    BY <1>2 DEF Sent, EndOf
  <2>2. DOMAIN buf' = 1 .. Len(buf')
    BY <1>6, LenProperties
  <2>3. got' - Len(buf') + processed' = EndOf(Len(handled))'
    BY <2>1, <1>1, <1>2, <1>3, <1>4, <1>6 DEF SocketInv, BufferInPlace
  <2>4. got' <= Sent' /\ Len(buf') <= got' /\ Len(buf') <= BufSize /\ processed' <= Len(buf')
    BY <2>1, <1>1, <1>2, <1>3, <1>4, <1>6
  <2> QED
    BY <2>2, <2>3, <2>4, <1>2, <1>7 DEF SocketInv, BufferInPlace
<1>11. LoopInPlace'
  <2>1. why = None /\ why' = None
    BY <1>2, InTheLoop
  <2> QED
    BY <2>1, <1>2, InTheLoop DEF LoopInPlace
<1> QED
  BY <1>8, <1>9, <1>10, <1>11

\* A packet whose header is found and that is complete lies in the buffer as
\* it was posted.
LEMMA PayloadIsExpected ==
  ASSUME SocketInv, NEW k \in DOMAIN posted, IsHead(posted[k]), Complete(posted[k])
  PROVE  /\ Payload(posted[k]) = Expected(posted[k])
         /\ Payload(posted[k]) \in Seq(Nat)
<1> USE AuthSocketAssumption
<1>1. PICK len \in Nat, at \in Nat : len = posted[k].len /\ at = posted[k].at
  <2>1. k \in 1 .. Len(posted) /\ Len(posted) \in Nat
    BY LenProperties DEF SocketInv, SocketTypeOK
  <2> QED
    BY <2>1, EndsAreBytes DEF SocketInv
<1>2. /\ buf \in Seq(Nat) /\ Len(buf) \in Nat /\ got \in Nat /\ processed \in Nat
      /\ Len(buf) <= got /\ DOMAIN buf = 1 .. Len(buf)
      /\ \A i \in 1 .. Len(buf) : buf[i] = got - Len(buf) + i
  BY LenProperties DEF SocketInv, SocketTypeOK, BufferInPlace
<1>3. at = got - Len(buf) + processed + 1
  <2>1. processed + 1 \in 1 .. Len(buf)
    BY <1>2 DEF IsHead, HeadRead
  <2>2. buf[processed + 1] = at + 1 - 1
    BY <1>1 DEF IsHead
  <2> QED
    BY <2>1, <2>2, <1>1, <1>2, SMTT(30)
<1> DEFINE first == processed + HeadLen + 1
           last  == processed + HeadLen + len
<1>4. first \in Nat /\ last \in Nat /\ first >= 1 /\ last <= Len(buf)
      /\ last - first + 1 = len
  BY <1>1, <1>2, SMTT(30) DEF Complete
<1>5. \A i \in first .. last : buf[i] \in Nat
  BY <1>2, <1>4, ElementOfSeq
<1> DEFINE data == SubSeq(buf, first, last)
<1>6. /\ data \in Seq(Nat)
      /\ Len(data) = IF first <= last THEN last - first + 1 ELSE 0
      /\ \A i \in 1 .. last - first + 1 : data[i] = buf[first + i - 1]
  <2> HIDE DEF first, last
  <2> QED
    BY <1>4, <1>5, SubSeqProperties
<1> HIDE DEF data
<1>7. Len(data) = len
  BY <1>1, <1>4, <1>6
<1>8. \A i \in 1 .. len : data[i] = at + HeadLen + i - 1
  <2>1. ASSUME NEW i \in 1 .. len PROVE data[i] = at + HeadLen + i - 1
    <3>1. data[i] = buf[first + i - 1] /\ first + i - 1 \in 1 .. Len(buf)
      BY <1>1, <1>4, <1>6, SMTT(30)
    <3>2. buf[first + i - 1] = got - Len(buf) + (first + i - 1)
      BY <3>1, <1>2
    <3> QED
      BY <3>1, <3>2, <1>1, <1>2, <1>3
  <2> QED
    BY <2>1
<1>9. data = [i \in 1 .. len |-> at + HeadLen + i - 1]
  <2>1. data \in [1 .. len -> Nat]
    BY <1>6, <1>7, LenProperties
  <2> QED
    BY <2>1, <1>8
<1> QED
  BY <1>1, <1>6, <1>9 DEF Payload, Expected, data

LEMMA DispatchSocketInv ==
  ASSUME SocketInv, NEW r \in Fds, Dispatch(r)
  PROVE  SocketTypeOK' /\ PostedInPlace' /\ BufferInPlace' /\ LoopInPlace' /\ InOrder' /\ Blame'
<1> USE AuthSocketAssumption
<1> DEFINE T == [module : Modules, data : Seq(Nat), to : Modules \cup {"SocketCallback", None}]
<1>0. PICK n \in Nat : n = Len(handled)
  BY LenProperties DEF SocketInv, SocketTypeOK
<1>1. PICK k \in DOMAIN posted :
        /\ IsHead(posted[k])
        /\ InRange(posted[k].len)
        /\ Complete(posted[k])
        /\ handled' = Append(handled, [module |-> posted[k].module, data |-> Payload(posted[k]),
                                       to |-> Handler(posted[k].module)])
        /\ calling' = Handler(posted[k].module)
        /\ processed' = processed + HeadLen + posted[k].len
  BY DEF Dispatch
<1>2. k = n + 1 /\ k \in 1 .. Len(posted) /\ Len(posted) \in Nat
  BY <1>0, <1>1, HeadIsNext, LenProperties DEF SocketInv, SocketTypeOK
<1>3. /\ UNCHANGED <<posted, got, buf, why, listeners, hasCallback, pc, readerPc>>
      /\ readerPc[r] = "callback"
  BY DEF Dispatch, handlerVars, vars, callerVars, readerVars
<1>4. posted[k] \in [module : Modules, len : Nat, at : Nat]
  BY <1>2, ElementOfSeq DEF SocketInv, SocketTypeOK
<1>5. Handler(posted[k].module) \in Modules \cup {"SocketCallback", None}
  BY <1>4 DEF Handler
<1> DEFINE entry == [module |-> posted[k].module, data |-> Payload(posted[k]),
                     to |-> Handler(posted[k].module)]
<1>6. /\ entry \in T
      /\ entry.module = posted[k].module /\ entry.data = Expected(posted[k])
  BY <1>1, <1>4, <1>5, PayloadIsExpected
<1>7. handled' = Append(handled, entry) /\ handled \in Seq(T)
  BY <1>1 DEF SocketInv, SocketTypeOK
<1> HIDE DEF entry, T
<1>8. /\ handled' \in Seq(T)
      /\ Len(handled') = n + 1
      /\ \A j \in 1 .. n : handled'[j] = handled[j]
      /\ handled'[n + 1] = entry
      /\ DOMAIN handled' = 1 .. n + 1
      /\ DOMAIN handled = 1 .. n
  <2>1. /\ Append(handled, entry) \in Seq(T)
        /\ Len(Append(handled, entry)) = Len(handled) + 1
        /\ \A j \in 1 .. Len(handled) : Append(handled, entry)[j] = handled[j]
        /\ Append(handled, entry)[Len(handled) + 1] = entry
    BY <1>6, <1>7, AppendProperties
  <2> QED
    BY <2>1, <1>0, <1>7, LenProperties
<1>9. SocketTypeOK'
  <2>1. processed' \in Nat
    BY <1>1, <1>4, SMTT(30) DEF SocketInv, SocketTypeOK
  <2> QED
    BY <2>1, <1>1, <1>3, <1>5, <1>8 DEF SocketInv, SocketTypeOK, T
<1>10. PostedInPlace'
  BY <1>3 DEF SocketInv, PostedInPlace, EndOf
<1>11. BufferInPlace'
  <2>1. Sent' = Sent /\ \A j \in 0 .. Len(posted) : EndOf(j)' = EndOf(j)
    BY <1>3 DEF Sent, EndOf
  <2>2. EndOf(n + 1) = EndOf(n) + HeadLen + posted[k].len
    <3>1. EndOf(k) = posted[k].at + HeadLen + posted[k].len - 1
      BY <1>2, EndsAreBytes DEF SocketInv
    <3>2. posted[k].at = EndOf(k - 1) + 1
      BY <1>1 DEF SocketInv, PostedInPlace
    <3>3. k - 1 = n /\ n \in 0 .. Len(posted)
      BY <1>0, <1>2
    <3>4. EndOf(n) \in Int
      BY <3>3, EndsAreBytes DEF SocketInv
    <3> QED
      BY <3>1, <3>2, <3>3, <3>4, <1>2, <1>4, SMTT(30)
  <2>3. got - Len(buf) + processed = EndOf(n)
    BY <1>0 DEF SocketInv, BufferInPlace
  <2>4. Len(buf) \in Nat /\ got \in Nat /\ processed \in Nat
    BY LenProperties DEF SocketInv, SocketTypeOK
  <2>5. got' - Len(buf') + processed' = EndOf(n + 1)
    BY <2>2, <2>3, <2>4, <1>1, <1>3, <1>4, SMTT(30)
  <2>6. EndOf(Len(handled))' = EndOf(n + 1)
    <3>1. EndOf(Len(handled))' = EndOf(n + 1)'
      BY <1>8 DEF EndOf
    <3> QED
      BY <3>1, <2>1, <1>2
  <2>7. processed' <= Len(buf') /\ Len(handled') <= Len(posted')
    BY <1>1, <1>2, <1>3, <1>8 DEF Complete
  <2> QED
    BY <2>1, <2>5, <2>6, <2>7, <1>3 DEF SocketInv, BufferInPlace
<1>12. why = None /\ why' = None
  BY <1>3, InTheLoop
<1>13. LoopInPlace'
  BY <1>3, <1>12, InTheLoop DEF LoopInPlace, Reading
<1>14. InOrder'
  <2>1. \A j \in DOMAIN posted : Expected(posted[j])' = Expected(posted[j])
    BY <1>3 DEF Expected
  <2>2. \A j \in 1 .. n : /\ handled[j].module = posted[j].module
                        /\ handled[j].data = Expected(posted[j])
    BY <1>8 DEF SocketInv, InOrder
  <2>3. ASSUME NEW j \in 1 .. n + 1
        PROVE  handled'[j].module = posted[j].module /\ handled'[j].data = Expected(posted[j])
    <3>1. CASE j \in 1 .. n
      BY <3>1, <2>2, <1>8
    <3>2. CASE j = n + 1
      BY <3>2, <1>2, <1>6, <1>8
    <3> QED
      BY <1>0, <3>1, <3>2
  <2>4. \A j \in 1 .. n + 1 : j \in DOMAIN posted
    BY <1>2, LenProperties DEF SocketInv, SocketTypeOK
  <2>5. Len(handled') <= Len(posted')
    BY <1>2, <1>3, <1>8
  <2> QED
    BY <2>1, <2>3, <2>4, <2>5, <1>3, <1>8 DEF InOrder
<1>15. Blame'
  BY <1>12 DEF Blame
<1> QED
  BY <1>9, <1>10, <1>11, <1>13, <1>14, <1>15

LEMMA HandlerReturnsSocketInv ==
  ASSUME SocketInv, NEW r \in Fds, HandlerReturns(r)
  PROVE  SocketTypeOK' /\ PostedInPlace' /\ BufferInPlace' /\ LoopInPlace' /\ InOrder' /\ Blame'
<1>1. /\ UNCHANGED <<posted, got, buf, processed, handled, why, listeners, hasCallback>>
      /\ UNCHANGED <<pc, readerPc>> /\ calling' = None
  BY DEF HandlerReturns, handlerVars, vars, callerVars, readerVars
<1>2. SocketTypeOK'
  BY <1>1 DEF SocketInv, SocketTypeOK
<1>3. PostedInPlace' /\ BufferInPlace'
  BY <1>1 DEF SocketInv, PostedInPlace, BufferInPlace, Sent, EndOf
<1>4. LoopInPlace' /\ InOrder' /\ Blame'
  BY <1>1 DEF SocketInv, LoopInPlace, Reading, InOrder, Expected, Blame, NextPacket
<1> QED
  BY <1>2, <1>3, <1>4

\* What happens to the goroutines when a callback ends.
LEMMA LoopGoesOnOrEnds ==
  ASSUME SocketInv, NEW r \in Fds, OnDataReceived(r),
         readerPc'[r] = "check" => processed' = 0 /\ why' \notin {"rejected", "overflow"}
  PROVE  LoopInPlace'
<1>1. readerPc[r] = "callback" /\ pc' = pc
  BY DEF OnDataReceived, callerVars
<1>2. readerPc \in [Fds -> {"none", "check", "lock", "read", "callback", "done"}]
  BY DEF SocketInv, IInv, TypeOK
<1>3. readerPc'[r] \in {"check", "done"} /\ \A q \in Fds \ {r} : readerPc'[q] = readerPc[q]
  BY <1>2 DEF OnDataReceived, ReaderGoto, ReaderExit
<1>4. \A q \in Fds \ {r} : ~Reading(q)'
  BY <1>1, <1>3, InTheLoop DEF Reading
<1> QED
  BY <1>1, <1>3, <1>4, InTheLoop DEF LoopInPlace, Reading

\* A header is there and none is found that is in range: the next packet's is
\* found, so its length is out of range.
LEMMA RejectSocketInv ==
  ASSUME SocketInv, NEW r \in Fds, Reject(r)
  PROVE  SocketTypeOK' /\ PostedInPlace' /\ BufferInPlace' /\ LoopInPlace' /\ InOrder' /\ Blame'
<1> USE AuthSocketAssumption
<1>1. /\ UNCHANGED <<posted, got, buf, processed, handled, calling, listeners, hasCallback>>
      /\ why' = "rejected"
  BY DEF Reject, handlerVars
<1>2. SocketTypeOK'
  BY <1>1 DEF SocketInv, SocketTypeOK
<1>3. PostedInPlace' /\ BufferInPlace' /\ InOrder'
  BY <1>1 DEF SocketInv, PostedInPlace, BufferInPlace, Sent, EndOf, InOrder, Expected
<1>4. LoopInPlace'
  BY LoopGoesOnOrEnds DEF Reject
<1>5. Len(handled) < Len(posted) /\ ~InRange(NextPacket.len)
  BY NextIsHead DEF Reject, NextPacket
<1>6. Blame'
  BY <1>1, <1>5 DEF Blame, NextPacket, InRange
<1> QED
  BY <1>2, <1>3, <1>4, <1>6

\* The rest of the buffer moves to the front.  If it fills the buffer and is
\* no packet, the next packet is longer than the buffer.
LEMMA KeepSocketInv ==
  ASSUME SocketInv, NEW r \in Fds, Keep(r)
  PROVE  SocketTypeOK' /\ PostedInPlace' /\ BufferInPlace' /\ LoopInPlace' /\ InOrder' /\ Blame'
<1> USE AuthSocketAssumption
<1>1. /\ UNCHANGED <<posted, got, handled, calling, listeners, hasCallback>>
      /\ processed' = 0
      /\ buf' = SubSeq(buf, processed + 1, Len(buf))
      /\ \/ readerPc'[r] = "check" /\ why' = why
         \/ Len(buf') >= BufSize /\ readerPc'[r] = "done" /\ why' = "overflow"
      /\ readerPc[r] = "callback"
      /\ OnDataReceived(r)
  BY DEF Keep, Compacted, handlerVars
<1>2. /\ buf \in Seq(Nat) /\ Len(buf) \in Nat /\ got \in Nat /\ processed \in Nat
      /\ Len(buf) <= got /\ Len(buf) <= BufSize /\ processed <= Len(buf)
      /\ DOMAIN buf = 1 .. Len(buf)
      /\ \A i \in 1 .. Len(buf) : buf[i] = got - Len(buf) + i
  BY LenProperties DEF SocketInv, SocketTypeOK, BufferInPlace
<1>n. /\ Len(buf) \in Nat /\ got \in Nat /\ processed \in Nat
      /\ Len(buf) <= got /\ Len(buf) <= BufSize /\ processed <= Len(buf)
  BY <1>2
<1>3. why = None
  BY <1>1, InTheLoop
<1>4. /\ buf' \in Seq(Nat)
      /\ Len(buf') = Len(buf) - processed
      /\ \A i \in 1 .. Len(buf) - processed : buf'[i] = buf[processed + i]
      /\ DOMAIN buf' = 1 .. Len(buf')
  <2>1. \A i \in processed + 1 .. Len(buf) : buf[i] \in Nat
    BY <1>2, ElementOfSeq
  <2> DEFINE rest == SubSeq(buf, processed + 1, Len(buf))
  <2>2. /\ rest \in Seq(Nat)
        /\ Len(rest) = IF processed + 1 <= Len(buf) THEN Len(buf) - (processed + 1) + 1 ELSE 0
        /\ \A i \in 1 .. Len(buf) - (processed + 1) + 1 : rest[i] = buf[processed + 1 + i - 1]
    <3>1. processed + 1 \in Int /\ Len(buf) \in Int
      BY <1>2
    <3> QED
      BY <3>1, <2>1, SubSeqProperties
  <2>3. buf' = rest
    BY <1>1
  <2> HIDE DEF rest
  <2>4. Len(rest) = Len(buf) - processed
    <3>1. Len(rest) = IF processed + 1 <= Len(buf) THEN Len(buf) - (processed + 1) + 1 ELSE 0
      BY <2>2
    <3> QED
      BY <3>1, <1>n
  <2>5. \A i \in 1 .. Len(buf) - processed : rest[i] = buf[processed + i]
    <3>1. \A i \in 1 .. Len(buf) - (processed + 1) + 1 : rest[i] = buf[processed + 1 + i - 1]
      BY <2>2
    <3>2. Len(buf) - (processed + 1) + 1 = Len(buf) - processed
      BY <1>n
    <3>3. \A i \in 1 .. Len(buf) - processed : processed + 1 + i - 1 = processed + i
      BY <1>n
    <3> QED
      BY <3>1, <3>2, <3>3
  <2>6. DOMAIN rest = 1 .. Len(rest)
    BY <2>2, LenProperties
  <2> QED
    BY <2>2, <2>3, <2>4, <2>5, <2>6
<1>5. SocketTypeOK'
  BY <1>1, <1>4 DEF SocketInv, SocketTypeOK
<1>6. PostedInPlace' /\ InOrder'
  BY <1>1 DEF SocketInv, PostedInPlace, EndOf, InOrder, Expected
<1>7. BufferInPlace'
  <2>1. Sent' = Sent /\ EndOf(Len(handled))' = EndOf(Len(handled))
    BY <1>1 DEF Sent, EndOf
  <2>2. \A i \in DOMAIN buf' : buf'[i] = got' - Len(buf') + i
    <3>1. ASSUME NEW i \in 1 .. Len(buf) - processed
          PROVE  buf'[i] = got - (Len(buf) - processed) + i
      <4>1. processed + i \in 1 .. Len(buf)
        BY <1>2
      <4> QED
        BY <4>1, <1>2, <1>4
    <3> QED
      BY <3>1, <1>1, <1>4
  <2>3. got' - Len(buf') + processed' = EndOf(Len(handled))
    <3>1. got - Len(buf) + processed = EndOf(Len(handled))
      BY DEF SocketInv, BufferInPlace
    <3>2. got' = got /\ processed' = 0 /\ Len(buf') = Len(buf) - processed
      BY <1>1, <1>4
    <3> QED
      BY <3>1, <3>2, <1>n
  <2>4. Len(buf') <= got' /\ Len(buf') <= BufSize /\ processed' <= Len(buf')
    <3>1. got' = got /\ processed' = 0 /\ Len(buf') = Len(buf) - processed
      BY <1>1, <1>4
    <3> QED
      BY <3>1, <1>n
  <2> QED
    BY <2>1, <2>2, <2>3, <2>4, <1>1 DEF SocketInv, BufferInPlace
<1>8. LoopInPlace'
  BY <1>1, <1>3, LoopGoesOnOrEnds
<1>9. Blame'
  <2>1. CASE why' = None
    BY <2>1 DEF Blame
  <2>2. CASE why' = "overflow" /\ Len(buf') >= BufSize
    <3>1. HeadRead
      BY <2>2, <1>2, <1>4 DEF HeadRead
    <3>2. PICK k \in DOMAIN posted : IsHead(posted[k]) /\ ~Complete(posted[k])
      BY <3>1 DEF Keep
    <3>3. /\ k = Len(handled) + 1
          /\ Len(handled) < Len(posted)
          /\ NextPacket = posted[k]
      BY <3>1, <3>2, HeadIsNext, NextIsHead DEF NextPacket
    <3>4. posted[k].len \in Nat
      <4>1. k \in 1 .. Len(posted) /\ Len(posted) \in Nat
        BY LenProperties DEF SocketInv, SocketTypeOK
      <4> QED
        BY <4>1, EndsAreBytes DEF SocketInv
    <3>5. HeadLen + NextPacket.len > BufSize
      <4>1. ~(processed + HeadLen + posted[k].len <= Len(buf))
        BY <3>2 DEF Complete
      <4>2. Len(buf) - processed >= BufSize
        BY <2>2, <1>4
      <4> QED
        BY <4>1, <4>2, <3>3, <3>4, <1>n
    <3> QED
      BY <2>2, <3>3, <3>5, <1>1 DEF Blame, NextPacket
  <2> QED
    BY <2>1, <2>2, <1>1, <1>3
<1> QED
  BY <1>5, <1>6, <1>7, <1>8, <1>9

-----------------------------------------------------------------------------
\* Every step of the socket keeps the invariant.
LEMMA NextSocketInv ==
  ASSUME SocketInv, [SocketNext]_socketVars PROVE SocketInv'
<1>1. IInv'
  BY StepIsClientStep, NextIInv DEF SocketInv
<1>2. SocketTypeOK' /\ PostedInPlace' /\ BufferInPlace' /\ LoopInPlace' /\ InOrder' /\ Blame'
  <2>1. CASE ClientStep
    BY <2>1, ClientStepSocketInv
  <2>2. CASE \E s \in Streams : Post(s)
    BY <2>2, PostSocketInv
  <2>3. CASE \/ \E module \in ChannelModules :
                RegAuthChannelListener(module) \/ UnregAuthChannelListener(module)
             \/ SetSocketCallback \/ UnsetSocketCallback
    BY <2>3, HandlersSocketInv
  <2>4. CASE \E r \in Fds : ReadBytes(r) \/ ParseStep(r)
    BY <2>4, ReadBytesSocketInv, DispatchSocketInv, HandlerReturnsSocketInv, RejectSocketInv,
       KeepSocketInv
       DEF ParseStep
  <2>5. CASE UNCHANGED socketVars
    <3>1. /\ UNCHANGED <<vars, streamVars>>
          /\ listeners' \subseteq ChannelModules /\ hasCallback' \in BOOLEAN
      BY <2>5 DEF socketVars, handlerVars, SocketInv, SocketTypeOK
    <3>2. LoopInPlace'
      BY <3>1 DEF SocketInv, LoopInPlace, Reading, vars, streamVars, callerVars, readerVars
    <3> QED
      BY <3>1, <3>2, StreamUntouched
  <2> QED
    BY <2>1, <2>2, <2>3, <2>4, <2>5 DEF SocketNext
<1> QED
  BY <1>1, <1>2 DEF SocketInv

\* The invariant holds in every reachable state.
THEOREM SocketInvariance == SocketSpec => []SocketInv
<1> QED
  BY InitSocketInv, NextSocketInv, PTL DEF SocketSpec

\* The variables of the stream and of the handlers keep their types.
THEOREM SocketTypeCorrect == SocketSpec => []SocketTypeOK
<1>1. SocketInv => SocketTypeOK
  BY DEF SocketInv
<1> QED
  BY <1>1, SocketInvariance, PTL

\* However a stream is cut into pieces, packets are handled once, in order and
\* with their own data.
THEOREM PacketsAlwaysInOrder == SocketSpec => []InOrder
<1>1. SocketInv => InOrder
  BY DEF SocketInv
<1> QED
  BY <1>1, SocketInvariance, PTL

\* A connection is given up only for a packet that is out of range or longer
\* than the buffer.
THEOREM PacketsAlwaysToBlame == SocketSpec => []Blame
<1>1. SocketInv => Blame
  BY DEF SocketInv
<1> QED
  BY <1>1, SocketInvariance, PTL
=============================================================================
