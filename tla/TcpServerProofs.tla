-------------------------- MODULE TcpServerProofs --------------------------
(***************************************************************************)
(* The safety of the listening side, for every number of connections and   *)
(* clients: each part of TcpServer's inductive invariant is kept by each   *)
(* action.  Actions that touch no handler, and handlers that only move     *)
(* inside their loop, are treated together first.                          *)
(***************************************************************************)
EXTENDS TcpServer, TLAPS

LEMMA InitIInv ==
  ASSUME Init PROVE IInv
<1>1. TypeOK
  BY TcpServerAssumption DEF Init, TypeOK, NetConns, IsMap, EmptyMap
<1>2. FdsAllocated
  BY TcpServerAssumption DEF Init, FdsAllocated, NetConns
<1> QED
  BY <1>1, <1>2
     DEF Init, IInv, WgCounts, Running, OpenRunning, MapOwned, FdLeadsToConn, EmptyMap,
         NetConns

\* The accept loop and StopBaseListener do not disturb what the invariant
\* says of the handlers and the table, when they leave both alone.
LEMMA HandlersUntouched ==
  ASSUME IInv, UNCHANGED <<mgrVars, open, handlerVars>>
  PROVE  /\ OpenRunning'
         /\ MapOwned'
         /\ FdsAllocated'
         /\ (RangesApart => FdLeadsToConn)'
<1>1. OpenRunning'
  BY DEF IInv, handlerVars, Running, OpenRunning
<1>2. MapOwned'
  BY DEF IInv, mgrVars, handlerVars, MapOwned
<1>3. FdsAllocated'
  BY DEF IInv, mgrVars, handlerVars, FdsAllocated
<1>4. (RangesApart => FdLeadsToConn)'
  BY DEF IInv, mgrVars, handlerVars, RangesApart, FdLeadsToConn
<1> QED
  BY <1>1, <1>2, <1>3, <1>4

\* Removing an entry together with its connection, whoever does it.
LEMMA EntryRemoved ==
  ASSUME IInv, NEW fd, UnregisterConn(fd),
         UNCHANGED <<serverNextFd, clientNextFd, handlerVars>>
  PROVE  /\ OpenRunning'
         /\ MapOwned'
         /\ FdsAllocated'
         /\ (RangesApart => FdLeadsToConn)'
<1>1. OpenRunning'
  BY DEF IInv, handlerVars, UnregisterConn, Running, InLoop, OpenRunning, MapOwned
<1>2. MapOwned'
  BY DEF IInv, handlerVars, UnregisterConn, MapOwned, Del
<1>3. FdsAllocated'
  BY DEF IInv, handlerVars, FdsAllocated
<1>4. (RangesApart => FdLeadsToConn)'
  BY DEF IInv, handlerVars, UnregisterConn, RangesApart, FdLeadsToConn, MapOwned, Del
<1> QED
  BY <1>1, <1>2, <1>3, <1>4

\* A handler that goes on inside its loop.
LEMMA MoveInLoop ==
  ASSUME IInv, NEW c \in Conns, NEW label \in InLoop, pc[c] \in InLoop,
         Goto(c, label), UNCHANGED <<serverVars, stopVars, mgrVars, open, fdOf>>
  PROVE  IInv'
<1>1. TypeOK'
  BY DEF IInv, serverVars, stopVars, mgrVars, Goto, NetConns, InLoop, TypeOK
<1>2. WgCounts'
  BY DEF IInv, serverVars, stopVars, Goto, Running, InLoop, WgCounts
<1>3. OpenRunning'
  BY DEF IInv, Goto, Running, InLoop, OpenRunning
<1>4. MapOwned'
  BY DEF IInv, mgrVars, Goto, InLoop, MapOwned
<1>5. FdsAllocated'
  BY DEF IInv, mgrVars, Goto, InLoop, FdsAllocated
<1>6. (RangesApart => FdLeadsToConn)'
  BY DEF IInv, mgrVars, Goto, InLoop, RangesApart, FdLeadsToConn
<1> QED
  BY <1>1, <1>2, <1>3, <1>4, <1>5, <1>6 DEF IInv

-----------------------------------------------------------------------------
LEMMA NextIInv ==
  ASSUME IInv, Next PROVE IInv'
<1>1. CASE Start
  <2>1. TypeOK'
    BY <1>1 DEF IInv, Start, mgrVars, handlerVars, TypeOK
  <2>2. WgCounts'
    BY <1>1 DEF IInv, Start, handlerVars, Running, WgCounts
  <2>3. UNCHANGED <<mgrVars, open, handlerVars>>
    BY <1>1 DEF Start
  <2> QED
    BY <2>1, <2>2, <2>3, HandlersUntouched DEF IInv
<1>2. CASE Stop
  <2>1. TypeOK'
    BY <1>2 DEF IInv, Stop, mgrVars, handlerVars, TypeOK
  <2>2. WgCounts'
    BY <1>2 DEF IInv, Stop, handlerVars, Running, WgCounts
  <2>3. UNCHANGED <<mgrVars, open, handlerVars>>
    BY <1>2 DEF Stop
  <2> QED
    BY <2>1, <2>2, <2>3, HandlersUntouched DEF IInv
<1>3. CASE CloseListener
  <2>1. TypeOK'
    BY <1>3 DEF IInv, CloseListener, mgrVars, handlerVars, TypeOK
  <2>2. WgCounts'
    BY <1>3 DEF IInv, CloseListener, handlerVars, Running, WgCounts
  <2>3. UNCHANGED <<mgrVars, open, handlerVars>>
    BY <1>3 DEF CloseListener
  <2> QED
    BY <2>1, <2>2, <2>3, HandlersUntouched DEF IInv
<1>4. CASE GetAllFds
  <2>1. TypeOK'
    BY <1>4 DEF IInv, GetAllFds, serverVars, mgrVars, handlerVars, TypeOK, IsMap
  <2>2. WgCounts'
    BY <1>4 DEF IInv, GetAllFds, serverVars, handlerVars, Running, WgCounts
  <2>3. UNCHANGED <<mgrVars, open, handlerVars>>
    BY <1>4 DEF GetAllFds
  <2> QED
    BY <2>1, <2>2, <2>3, HandlersUntouched DEF IInv
<1>5. CASE GetConnType
  <2>1. TypeOK'
    BY <1>5 DEF IInv, GetConnType, serverVars, mgrVars, handlerVars, TypeOK, IsMap
  <2>2. WgCounts'
    BY <1>5 DEF IInv, GetConnType, serverVars, handlerVars, Running, WgCounts
  <2>3. UNCHANGED <<mgrVars, open, handlerVars>>
    BY <1>5 DEF GetConnType
  <2> QED
    BY <2>1, <2>2, <2>3, HandlersUntouched DEF IInv
<1>6. CASE Wait
  <2>1. TypeOK'
    BY <1>6 DEF IInv, Wait, serverVars, mgrVars, handlerVars, TypeOK
  <2>2. WgCounts'
    BY <1>6 DEF IInv, Wait, serverVars, handlerVars, Running, WgCounts
  <2>3. UNCHANGED <<mgrVars, open, handlerVars>>
    BY <1>6 DEF Wait
  <2> QED
    BY <2>1, <2>2, <2>3, HandlersUntouched DEF IInv
<1>7. CASE AcceptCheck
  <2>1. TypeOK'
    BY <1>7 DEF IInv, AcceptCheck, stopVars, mgrVars, handlerVars, TypeOK
  <2>2. WgCounts'
    BY <1>7 DEF IInv, AcceptCheck, stopVars, handlerVars, Running, WgCounts
  <2>3. UNCHANGED <<mgrVars, open, handlerVars>>
    BY <1>7 DEF AcceptCheck
  <2> QED
    BY <2>1, <2>2, <2>3, HandlersUntouched DEF IInv
<1>8. CASE AcceptError
  <2>1. TypeOK'
    BY <1>8 DEF IInv, AcceptError, stopVars, mgrVars, handlerVars, TypeOK
  <2>2. WgCounts'
    BY <1>8 DEF IInv, AcceptError, stopVars, handlerVars, Running, WgCounts
  <2>3. UNCHANGED <<mgrVars, open, handlerVars>>
    BY <1>8 DEF AcceptError
  <2> QED
    BY <2>1, <2>2, <2>3, HandlersUntouched DEF IInv
<1>9. CASE AcceptExit
  <2>1. TypeOK'
    BY <1>9 DEF IInv, AcceptExit, stopVars, mgrVars, handlerVars, TypeOK
  <2>2. WgCounts'
    BY <1>9, TcpServerAssumption DEF IInv, AcceptExit, stopVars, handlerVars,
           NetConns, Running, WgCounts
  <2>3. UNCHANGED <<mgrVars, open, handlerVars>>
    BY <1>9 DEF AcceptExit
  <2> QED
    BY <2>1, <2>2, <2>3, HandlersUntouched DEF IInv
<1>10. ASSUME NEW c \in Conns, OnConnected(c) PROVE IInv'
  BY <1>10, MoveInLoop DEF OnConnected, InLoop
<1>11. ASSUME NEW c \in Conns, CheckStop(c) PROVE IInv'
  BY <1>11, MoveInLoop DEF CheckStop, InLoop
<1>12. ASSUME NEW c \in Conns, OnDisconnected(c) PROVE IInv'
  BY <1>12, MoveInLoop DEF OnDisconnected, InLoop
<1>13. ASSUME NEW c \in Conns, ReadData(c) PROVE IInv'
  BY <1>13, MoveInLoop DEF ReadData, InLoop
<1>14. ASSUME NEW c \in Conns, ReadFails(c) PROVE IInv'
  BY <1>14, MoveInLoop DEF ReadFails, InLoop
<1>15. ASSUME NEW c \in Conns, Accept(c) PROVE IInv'
  <2>1. TypeOK'
    BY <1>15 DEF IInv, Accept, stopVars, mgrVars, Goto, NetConns, TypeOK
  <2>2. WgCounts'
    BY <1>15 DEF IInv, Accept, stopVars, Goto, NetConns, Running, TypeOK, WgCounts
  <2>3. OpenRunning'
    BY <1>15 DEF IInv, Accept, Goto, NetConns, Running, TypeOK, OpenRunning
  <2>4. MapOwned'
    BY <1>15 DEF IInv, Accept, mgrVars, Goto, InLoop, MapOwned
  <2>5. FdsAllocated'
    BY <1>15, TcpServerAssumption DEF IInv, Accept, mgrVars, Goto, FdsAllocated
  <2>6. (RangesApart => FdLeadsToConn)'
    BY <1>15 DEF IInv, Accept, mgrVars, Goto, RangesApart, FdLeadsToConn
  <2> QED
    BY <2>1, <2>2, <2>3, <2>4, <2>5, <2>6 DEF IInv
<1>16. ASSUME NEW c \in Conns, AllocateServerFd(c) PROVE IInv'
  <2>1. TypeOK'
    BY <1>16 DEF IInv, AllocateServerFd, serverVars, stopVars, Goto, NetConns,
           TypeOK
  <2>2. WgCounts'
    BY <1>16 DEF IInv, AllocateServerFd, serverVars, stopVars, Goto, Running,
           WgCounts
  <2>3. OpenRunning'
    BY <1>16 DEF IInv, AllocateServerFd, Goto, Running, OpenRunning
  <2>4. MapOwned'
    BY <1>16 DEF IInv, AllocateServerFd, Goto, InLoop, MapOwned
  <2>5. FdsAllocated'
    BY <1>16, TcpServerAssumption DEF IInv, AllocateServerFd, Goto, NetConns,
           TypeOK, FdsAllocated
  <2>6. (RangesApart => FdLeadsToConn)'
    BY <1>16, TcpServerAssumption DEF IInv, AllocateServerFd, Goto, RangesApart,
           FdLeadsToConn, TypeOK
  <2> QED
    BY <2>1, <2>2, <2>3, <2>4, <2>5, <2>6 DEF IInv
<1>17. ASSUME NEW c \in Conns, Unregister(c) PROVE IInv'
  <2>1. TypeOK'
    BY <1>17 DEF IInv, Unregister, serverVars, stopVars, Goto, UnregisterConn,
           NetConns, TypeOK, Del, IsMap
  <2>2. WgCounts'
    BY <1>17 DEF IInv, Unregister, serverVars, stopVars, Goto, Running, WgCounts
  <2>3. OpenRunning'
    BY <1>17 DEF IInv, Unregister, Goto, UnregisterConn, Running, InLoop,
           OpenRunning, MapOwned
  <2>4. MapOwned'
    BY <1>17 DEF IInv, Unregister, Goto, UnregisterConn, MapOwned, Del
  <2>5. FdsAllocated'
    BY <1>17 DEF IInv, Unregister, Goto, FdsAllocated
  <2>6. (RangesApart => FdLeadsToConn)'
    BY <1>17 DEF IInv, Unregister, Goto, UnregisterConn, RangesApart,
           FdLeadsToConn, Del
  <2> QED
    BY <2>1, <2>2, <2>3, <2>4, <2>5, <2>6 DEF IInv
<1>18. ASSUME NEW c \in Conns, Close(c) PROVE IInv'
  <2>1. TypeOK'
    BY <1>18 DEF IInv, Close, stopVars, mgrVars, Goto, NetConns, TypeOK
  <2>2. WgCounts'
    BY <1>18, TcpServerAssumption DEF IInv, Close, stopVars, Goto, NetConns,
           Running, TypeOK, WgCounts
  <2>3. OpenRunning'
    BY <1>18 DEF IInv, Close, Goto, Running, OpenRunning
  <2>4. MapOwned'
    BY <1>18 DEF IInv, Close, mgrVars, Goto, InLoop, MapOwned
  <2>5. FdsAllocated'
    BY <1>18 DEF IInv, Close, mgrVars, Goto, FdsAllocated
  <2>6. (RangesApart => FdLeadsToConn)'
    BY <1>18 DEF IInv, Close, mgrVars, Goto, RangesApart, FdLeadsToConn
  <2> QED
    BY <2>1, <2>2, <2>3, <2>4, <2>5, <2>6 DEF IInv
<1>19. ASSUME NEW c \in Clients, AllocateClientFd(c) PROVE IInv'
  <2>1. TypeOK'
    BY <1>19 DEF IInv, AllocateClientFd, serverVars, stopVars, Goto, NetConns,
           TypeOK
  <2>2. WgCounts'
    BY <1>19, TcpServerAssumption DEF IInv, AllocateClientFd, serverVars, stopVars,
           Goto, Running, WgCounts
  <2>3. OpenRunning'
    BY <1>19 DEF IInv, AllocateClientFd, Goto, NetConns, Running, TypeOK,
           OpenRunning
  <2>4. MapOwned'
    BY <1>19 DEF IInv, AllocateClientFd, Goto, MapOwned
  <2>5. FdsAllocated'
    BY <1>19, TcpServerAssumption DEF IInv, AllocateClientFd, Goto, NetConns,
           TypeOK, FdsAllocated
  <2>6. (RangesApart => FdLeadsToConn)'
    BY <1>19 DEF IInv, AllocateClientFd, Goto, RangesApart, FdLeadsToConn
  <2> QED
    BY <2>1, <2>2, <2>3, <2>4, <2>5, <2>6 DEF IInv
<1>20. ASSUME NEW c \in NetConns, Register(c) PROVE IInv'
  <2>1. TypeOK'
    BY <1>20 DEF IInv, Register, serverVars, stopVars, Goto, TypeOK, FdsAllocated,
           Put, IsMap
  <2>2. WgCounts'
    BY <1>20 DEF IInv, Register, serverVars, stopVars, Goto, Running, WgCounts
  <2>3. OpenRunning'
    BY <1>20 DEF IInv, Register, Goto, Running, OpenRunning
  <2>4. MapOwned'
    BY <1>20, TcpServerAssumption DEF IInv, Register, Goto, InLoop, TypeOK,
           MapOwned, Put
  <2>5. FdsAllocated'
    BY <1>20, TcpServerAssumption DEF IInv, Register, Goto, FdsAllocated
  <2>6. (RangesApart => FdLeadsToConn)'
    BY <1>20, TcpServerAssumption DEF IInv, Register, Goto, NetConns, RangesApart,
           FdLeadsToConn, TypeOK, OpenRunning, FdsAllocated, Put
  <2> QED
    BY <2>1, <2>2, <2>3, <2>4, <2>5, <2>6 DEF IInv
<1>21. ASSUME NEW c \in NetConns, DisconnectDevice(c) PROVE IInv'
  <2>1. TypeOK'
    BY <1>21 DEF IInv, DisconnectDevice, serverVars, stopVars, handlerVars,
           UnregisterConn, TypeOK, Del, IsMap
  <2>2. WgCounts'
    BY <1>21 DEF IInv, DisconnectDevice, serverVars, stopVars, handlerVars,
           Running, WgCounts
  <2> QED
    BY <1>21, <2>1, <2>2, EntryRemoved DEF DisconnectDevice, IInv
<1>22. CASE UnregisterTarget
  <2>1. TypeOK'
    BY <1>22 DEF IInv, UnregisterTarget, serverVars, handlerVars, UnregisterConn,
           TypeOK, Del, IsMap
  <2>2. WgCounts'
    BY <1>22 DEF IInv, UnregisterTarget, serverVars, handlerVars, Running, WgCounts
  <2> QED
    BY <1>22, <2>1, <2>2, EntryRemoved DEF UnregisterTarget, IInv
<1> QED
  BY <1>1, <1>2, <1>3, <1>4, <1>5, <1>6, <1>7, <1>8,
     <1>9, <1>10, <1>11, <1>12, <1>13, <1>14, <1>15,
     <1>16, <1>17, <1>18, <1>19, <1>20, <1>21, <1>22
     DEF Next, StopStep, HandlerStep, NetConns

-----------------------------------------------------------------------------
\* The WaitGroup, the table, the open connections and the handlers always
\* agree, for any number of connections, clients, starts and stops.
THEOREM Invariance == Spec => []IInv
<1>1. ASSUME IInv, UNCHANGED vars PROVE IInv'
  <2>1. TypeOK' /\ WgCounts'
    BY <1>1 DEF vars, IInv, serverVars, stopVars, mgrVars, handlerVars, TypeOK, WgCounts,
                Running
  <2> QED
    BY <1>1, <2>1, HandlersUntouched DEF vars, IInv
<1> QED
  BY <1>1, InitIInv, NextIInv, PTL DEF Spec

\* The variables of BaseServer and ConnectionManager keep their types.
THEOREM TypeCorrect == Spec => []TypeOK
<1>1. IInv => TypeOK
  BY DEF IInv
<1> QED
  BY <1>1, Invariance, PTL

\* When StopBaseListener has returned, no handler runs and no accepted
\* connection is open or registered, however the accepts, reads, disconnects
\* and its own loop over the fds were interleaved.
THEOREM AlwaysStoppedClean == Spec => []StoppedClean
<1>1. ASSUME IInv PROVE StoppedClean
  <2> SUFFICES ASSUME stopPc = "stopped"
               PROVE  /\ acceptPc = "exited"
                      /\ \A c \in Conns : ~Running(c) /\ c \notin open
                      /\ \A fd \in DOMAIN connMap : ~IsServerFd(fd)
    BY DEF StoppedClean
  <2>1. acceptPc = "exited" /\ \A c \in Conns : ~Running(c)
    BY <1>1 DEF IInv, WgCounts
  <2>2. \A c \in Conns : c \notin open
    BY <1>1, <2>1 DEF IInv, OpenRunning
  <2>3. \A fd \in DOMAIN connMap : ~IsServerFd(fd)
    BY <1>1, <2>1 DEF IInv, MapOwned, IsServerFd, InLoop, Running
  <2> QED
    BY <2>1, <2>2, <2>3
<1> QED
  BY <1>1, Invariance, PTL

\* As long as fewer server connections were accepted than there are fds below
\* ClientFdStart (1000 of them), a handler's fd leads to its own connection
\* and to no other.
THEOREM FdsLeadToConns == Spec => [](RangesApart => FdLeadsToConn)
<1>1. IInv => (RangesApart => FdLeadsToConn)
  BY DEF IInv
<1> QED
  BY <1>1, Invariance, PTL

-----------------------------------------------------------------------------
(* StopBaseListener never waits for the network.                           *)

\* The fd ranges stay apart backwards: serverNextFd only grows.
LEMMA RangesWereApart ==
  ASSUME IInv, [Next]_vars, RangesApart'
  PROVE  RangesApart
<1> USE DEF IInv, TypeOK, RangesApart
<1>1. serverNextFd' \in {serverNextFd, serverNextFd + 1} /\ clientNextFd' \in {clientNextFd, clientNextFd + 1}
  BY DEF Next, vars, mgrVars, Start, Stop, StopStep, CloseListener, GetAllFds, GetConnType,
         UnregisterTarget, Wait, AcceptCheck, AcceptError, AcceptExit, Accept, HandlerStep,
         AllocateServerFd, OnConnected, CheckStop, OnDisconnected, Unregister, Close,
         ReadData, ReadFails, AllocateClientFd, Register, DisconnectDevice
<1> QED
  BY <1>1, TcpServerAssumption

\* A step of anybody but StopBaseListener: as long as it lets no handler into
\* a Read on an open connection once stopChan is closed, nothing is added to
\* what StopBaseListener still has to close.
LEMMA ReadersOnlyLeave ==
  ASSUME StopProgress,
         UNCHANGED <<stopChan, listener, stopVars>>,
         \A c \in Conns : pc'[c] = "read" /\ c \in open' =>
             \/ pc[c] = "read" /\ c \in open /\ fdOf'[c] = fdOf[c]
             \/ stopChan = "open"
  PROVE  StopProgress'
<1>1. UNCHANGED <<stopPc, snapshot, target>>
  BY DEF stopVars
<1>2. ASSUME stopPc \in {"getType", "unregister", "wait"},
             NEW c \in Conns, pc'[c] = "read", c \in open'
      PROVE  StillToClose(c)'
  <2>1. stopChan = "closed"
    BY <1>2 DEF StopProgress
  <2>2. pc[c] = "read" /\ c \in open /\ fdOf'[c] = fdOf[c]
    BY <1>2, <2>1
  <2> QED
    BY <1>1, <1>2, <2>2 DEF StopProgress, StillToClose
<1> QED
  BY <1>1, <1>2 DEF StopProgress

\* The handlers and the other users of the manager.
LEMMA OthersKeepStopProgress ==
  ASSUME IInv, StopProgress,
         \/ AcceptCheck \/ AcceptError \/ AcceptExit
         \/ \E c \in Conns : Accept(c) \/ HandlerStep(c) \/ ReadData(c) \/ ReadFails(c)
         \/ \E k \in Clients : AllocateClientFd(k)
         \/ \E c \in NetConns : Register(c) \/ DisconnectDevice(c)
  PROVE  StopProgress'
<1> USE DEF IInv, TypeOK, NetConns
<1>1. CASE AcceptCheck \/ AcceptError \/ AcceptExit
  BY <1>1, ReadersOnlyLeave DEF AcceptCheck, AcceptError, AcceptExit, handlerVars
<1>2. ASSUME NEW c \in Conns, Accept(c) \/ AllocateServerFd(c) \/ OnConnected(c)
                              \/ ReadData(c) \/ ReadFails(c) \/ OnDisconnected(c)
      PROVE  StopProgress'
  BY <1>2, ReadersOnlyLeave
     DEF Accept, AllocateServerFd, OnConnected, ReadData, ReadFails, OnDisconnected, Goto,
         serverVars
<1>3. ASSUME NEW c \in Conns, CheckStop(c) PROVE StopProgress'
  BY <1>3, ReadersOnlyLeave DEF CheckStop, Goto, serverVars
<1>4. ASSUME NEW c \in Conns, Unregister(c) \/ Close(c) PROVE StopProgress'
  BY <1>4, ReadersOnlyLeave DEF Unregister, Close, UnregisterConn, Goto, serverVars
<1>5. ASSUME NEW k \in Clients, AllocateClientFd(k) PROVE StopProgress'
  BY <1>5, ReadersOnlyLeave, TcpServerAssumption DEF AllocateClientFd, Goto, serverVars
<1>6. ASSUME NEW c \in NetConns, Register(c) PROVE StopProgress'
  BY <1>6, ReadersOnlyLeave DEF Register, Goto, serverVars
<1>7. ASSUME NEW c \in NetConns, DisconnectDevice(c) PROVE StopProgress'
  BY <1>7, ReadersOnlyLeave DEF DisconnectDevice, UnregisterConn, serverVars, handlerVars
<1> QED
  BY <1>1, <1>2, <1>3, <1>4, <1>5, <1>6, <1>7 DEF HandlerStep

\* StopBaseListener itself: the snapshot holds the fd of every open connection
\* somebody reads, and an fd leaves it only together with its connection.
LEMMA StopKeepsStopProgress ==
  ASSUME IInv, RangesApart, StopProgress, Start \/ Stop \/ StopStep
  PROVE  StopProgress'
<1> USE DEF IInv, TypeOK
<1>0. FdLeadsToConn
  OBVIOUS
<1>1. CASE Start \/ Stop \/ CloseListener \/ Wait
  BY <1>1 DEF Start, Stop, CloseListener, Wait, StopProgress, serverVars
<1>2. CASE GetAllFds
  <2>1. \A c \in Conns : pc[c] = "read" /\ c \in open => fdOf[c] \in DOMAIN connMap
    BY <1>0 DEF FdLeadsToConn
  <2> QED
    BY <1>2, <2>1 DEF GetAllFds, StopProgress, StillToClose, serverVars, mgrVars, handlerVars
<1>3. ASSUME GetConnType, NEW fd \in snapshot, snapshot' = snapshot \ {fd}, IsServerFd(fd),
             target' = fd, stopPc' = "unregister"
      PROVE  StopProgress'
  BY <1>3 DEF GetConnType, StopProgress, StillToClose, serverVars, mgrVars, handlerVars
<1>4. ASSUME GetConnType, NEW fd \in snapshot, snapshot' = snapshot \ {fd}, ~IsServerFd(fd),
             UNCHANGED <<target, stopPc>>
      PROVE  StopProgress'
  <2>1. \A c \in Conns : pc[c] = "read" /\ c \in open => fdOf[c] # fd
    BY <1>0, <1>4 DEF FdLeadsToConn, IsServerFd
  <2> QED
    BY <1>4, <2>1 DEF GetConnType, StopProgress, StillToClose, serverVars, mgrVars, handlerVars
<1>5. ASSUME GetConnType, snapshot = {}, stopPc' = "wait", UNCHANGED <<snapshot, target>>
      PROVE  StopProgress'
  BY <1>5 DEF GetConnType, StopProgress, StillToClose, serverVars, mgrVars, handlerVars
<1>6. CASE UnregisterTarget
  <2>1. ASSUME NEW c \in Conns, pc[c] = "read", c \in open' PROVE fdOf[c] \in snapshot
    <3>1. c \in open
      BY <1>6, <2>1 DEF UnregisterTarget, UnregisterConn
    <3>2. fdOf[c] \in DOMAIN connMap /\ connMap[fdOf[c]] = c
      BY <1>0, <2>1, <3>1 DEF FdLeadsToConn
    <3>3. fdOf[c] # target
      BY <1>6, <2>1, <3>2 DEF UnregisterTarget, UnregisterConn
    <3> QED
      BY <1>6, <2>1, <3>1, <3>3 DEF UnregisterTarget, StopProgress, StillToClose
  <2> QED
    BY <1>6, <2>1 DEF UnregisterTarget, StopProgress, StillToClose, serverVars, handlerVars
<1> QED
  BY <1>1, <1>2, <1>3, <1>4, <1>5, <1>6 DEF StopStep, GetConnType

\* What StopBaseListener has closed stays closed, up to the next start.
LEMMA StopProgressInvariance == Spec => [](IInv /\ (RangesApart => StopProgress))
<1>1. Init => StopProgress
  BY DEF Init, StopProgress
<1>2. ASSUME IInv, RangesApart => StopProgress, [Next]_vars, RangesApart'
      PROVE  StopProgress'
  <2>1. StopProgress /\ RangesApart
    BY <1>2, RangesWereApart
  <2>2. CASE UNCHANGED vars
    BY <2>1, <2>2 DEF vars, serverVars, stopVars, handlerVars, StopProgress, StillToClose
  <2> QED
    BY <1>2, <2>1, <2>2, OthersKeepStopProgress, StopKeepsStopProgress DEF Next
<1>3. (IInv /\ (RangesApart => StopProgress)) /\ IInv' /\ [Next]_vars
        => (IInv /\ (RangesApart => StopProgress))'
  BY <1>2
<1> QED
  BY <1>1, <1>3, Invariance, PTL DEF Spec

\* As long as the fd ranges are apart, StopBaseListener at wg.Wait waits for
\* nobody blocked in Accept or in a Read, whatever was accepted, registered
\* or disconnected while it was going through its snapshot of the fds.
THEOREM StopNeverBlocks == Spec => [](RangesApart => StopUnblocks)
<1>1. (IInv /\ (RangesApart => StopProgress)) => (RangesApart => StopUnblocks)
  BY DEF StopProgress, StillToClose, StopUnblocks
<1> QED
  BY <1>1, StopProgressInvariance, PTL
=============================================================================
