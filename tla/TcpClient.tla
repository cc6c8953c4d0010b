----------------------------- MODULE TcpClient -----------------------------
(***************************************************************************)
(* BaseClient (pkg/utils/tcp_connection/client.go): one client object that *)
(* several goroutines may connect and close, with a reading goroutine per  *)
(* connection and the callbacks it makes.                                  *)
(*                                                                         *)
(* A connection is named by the fd it was registered under.  An action is  *)
(* one critical section of c.mu or of the ConnectionManager, one operation *)
(* on stopChan, the net.Conn or the WaitGroup, or one callback.  Callbacks *)
(* return and do not call back into the client: a Close from OnConnected   *)
(* or OnDataReceived would wait for itself.                                *)
(***************************************************************************)
EXTENDS Naturals, FiniteSets

CONSTANTS
    Callers,        \* the goroutines that call Connect and Close
    ClientFdStart,
    MaxDials,       \* bound: connections established in a behaviour
    None

ASSUME TcpClientAssumption ==
    /\ ClientFdStart \in Nat
    /\ MaxDials \in Nat \ {0}
    /\ None \notin Nat
    /\ None \notin Callers

Fds == ClientFdStart .. ClientFdStart + MaxDials - 1

VARIABLES
    mu,          \* the caller that holds c.mu across several steps, or None
    curFd,       \* c.fd and c.conn, which are set and cleared together
    stopChan,    \* "open" or "closed"
    wg,          \* the WaitGroup's counter
    pc,          \* per caller
    seen,        \* the fd a caller of Close read, local to it
    readerPc,    \* handleDataEvents, one per connection
    readFd,      \* the fd that goroutine read from c.fd, local to it
    nextFd,      \* clientNextFd of the ConnectionManager
    connMap,     \* the fds in the ConnectionManager's maps
    open,        \* the fds whose net.Conn is open on this side
    connected,   \* the fds whose OnConnected has returned
    reported,    \* how often OnDisconnected was called for an fd
    panicked     \* a channel was closed twice and the program is gone

clientVars == <<mu, curFd, stopChan, wg>>
callerVars == <<pc, seen>>
readerVars == <<readerPc, readFd>>
mgrVars    == <<nextFd, connMap, open>>
appVars    == <<connected, reported>>
vars == <<clientVars, callerVars, readerVars, mgrVars, appVars, panicked>>

Goto(p, label) == pc' = [pc EXCEPT ![p] = label]
ReaderGoto(r, label) == readerPc' = [readerPc EXCEPT ![r] = label]

Init ==
    /\ mu = None
    /\ curFd = None
    /\ stopChan = "open"
    /\ wg = 0
    /\ pc = [p \in Callers |-> "idle"]
    /\ seen = [p \in Callers |-> None]
    /\ readerPc = [r \in Fds |-> "none"]
    /\ readFd = [r \in Fds |-> None]
    /\ nextFd = ClientFdStart
    /\ connMap = {}
    /\ open = {}
    /\ connected = {}
    /\ reported = [fd \in Fds |-> 0]
    /\ panicked = FALSE

-----------------------------------------------------------------------------
(* Connect: c.mu is held until OnConnected has returned.  A call that      *)
(* finds a connection, or whose dial fails, changes nothing.               *)

\* Mutant: the check that there is no connection is missing.
ConnectAgain(p) ==
    /\ pc[p] = "idle"
    /\ mu = None
    /\ mu' = p
    /\ Goto(p, "dial")
    /\ UNCHANGED <<curFd, stopChan, wg, seen, readerVars, mgrVars, appVars, panicked>>
Connect(p) ==
    /\ pc[p] = "idle"
    /\ mu = None
    /\ curFd = None
    /\ mu' = p
    /\ Goto(p, "dial")
    /\ UNCHANGED <<curFd, stopChan, wg, seen, readerVars, mgrVars, appVars, panicked>>

DialFails(p) ==
    /\ pc[p] = "dial"
    /\ mu' = None
    /\ Goto(p, "idle")
    /\ UNCHANGED <<curFd, stopChan, wg, seen, readerVars, mgrVars, appVars, panicked>>

\* RegisterConn, and the fields that only holders of c.mu look at.
Register(p) ==
    /\ pc[p] = "dial"
    /\ nextFd \in Fds
    /\ curFd' = nextFd
    /\ nextFd' = nextFd + 1
    /\ connMap' = connMap \cup {nextFd}
    /\ open' = open \cup {nextFd}
    /\ Goto(p, "spawn")
    /\ UNCHANGED <<mu, stopChan, wg, seen, readerVars, appVars, panicked>>

Spawn(p) ==
    /\ pc[p] = "spawn"
    /\ wg' = wg + 1
    /\ ReaderGoto(curFd, "check")
    /\ Goto(p, "onConnected")
    /\ UNCHANGED <<mu, curFd, stopChan, seen, readFd, mgrVars, appVars, panicked>>

OnConnected(p) ==
    /\ pc[p] = "onConnected"
    /\ connected' = connected \cup {curFd}
    /\ mu' = None
    /\ Goto(p, "idle")
    /\ UNCHANGED <<curFd, stopChan, wg, seen, readerVars, mgrVars, reported, panicked>>

-----------------------------------------------------------------------------
(* Close *)

\* It returns at once when there is no connection.
CloseBegin(p) ==
    /\ pc[p] = "idle"
    /\ mu = None
    /\ curFd # None
    /\ seen' = [seen EXCEPT ![p] = curFd]
    /\ Goto(p, "select")
    /\ UNCHANGED <<clientVars, readerVars, mgrVars, appVars, panicked>>

Return(p) ==
    /\ seen' = [seen EXCEPT ![p] = None]
    /\ Goto(p, "idle")

\* The select: an open channel is closed in another step.
SelectStop(p) ==
    /\ pc[p] = "select"
    /\ IF stopChan = "closed" THEN Return(p) ELSE Goto(p, "closeChan") /\ UNCHANGED seen
    /\ UNCHANGED <<clientVars, readerVars, mgrVars, appVars, panicked>>

\* close(c.stopChan) panics when another caller closed it in between.
CloseStopChan(p) ==
    /\ pc[p] = "closeChan"
    /\ panicked' = (stopChan = "closed")
    /\ stopChan' = "closed"
    /\ Goto(p, "closeConn")
    /\ UNCHANGED <<mu, curFd, wg, seen, readerVars, mgrVars, appVars>>

\* Mutant: the connection is not closed before the wait.
CloseConnNot(p) ==
    /\ pc[p] = "closeConn"
    /\ Goto(p, "wait")
    /\ UNCHANGED <<clientVars, seen, readerVars, mgrVars, appVars, panicked>>
CloseConn(p) ==
    /\ pc[p] = "closeConn"
    /\ open' = open \ {seen[p]}
    /\ Goto(p, "wait")
    /\ UNCHANGED <<clientVars, seen, readerVars, nextFd, connMap, appVars, panicked>>

\* Mutant: the reader is not waited for.
WaitNot(p) ==
    /\ pc[p] = "wait"
    /\ Goto(p, "unregister")
    /\ UNCHANGED <<clientVars, seen, readerVars, mgrVars, appVars, panicked>>
WaitReader(p) ==
    /\ pc[p] = "wait"
    /\ wg = 0
    /\ Goto(p, "unregister")
    /\ UNCHANGED <<clientVars, seen, readerVars, mgrVars, appVars, panicked>>

Unregister(p) ==
    /\ pc[p] = "unregister"
    /\ connMap' = connMap \ {seen[p]}
    /\ open' = open \ {seen[p]}
    /\ Goto(p, "reset")
    /\ UNCHANGED <<clientVars, seen, readerVars, nextFd, appVars, panicked>>

Reset(p) ==
    /\ pc[p] = "reset"
    /\ mu = None
    /\ curFd' = None
    /\ Goto(p, "report")
    /\ UNCHANGED <<mu, stopChan, wg, seen, readerVars, mgrVars, appVars, panicked>>

OnDisconnected(p) ==
    /\ pc[p] = "report"
    /\ reported' = [reported EXCEPT ![seen[p]] = @ + 1]
    /\ Return(p)
    /\ UNCHANGED <<clientVars, readerVars, mgrVars, connected, panicked>>

-----------------------------------------------------------------------------
(* handleDataEvents *)

ReaderExit(r) ==
    /\ ReaderGoto(r, "done")
    /\ wg' = wg - 1
    /\ UNCHANGED <<mu, curFd, stopChan>>

ReaderCheck(r) ==
    /\ readerPc[r] = "check"
    /\ IF stopChan = "closed"
       THEN ReaderExit(r)
       ELSE ReaderGoto(r, "lock") /\ UNCHANGED clientVars
    /\ UNCHANGED <<callerVars, readFd, mgrVars, appVars, panicked>>

\* Mutant: c.conn and c.fd are read without the lock.
ReaderPeek(r) ==
    /\ readerPc[r] = "lock"
    /\ IF curFd = None
       THEN ReaderExit(r) /\ UNCHANGED readFd
       ELSE /\ readFd' = [readFd EXCEPT ![r] = curFd]
            /\ ReaderGoto(r, "read")
            /\ UNCHANGED clientVars
    /\ UNCHANGED <<callerVars, mgrVars, appVars, panicked>>
ReaderLock(r) ==
    /\ readerPc[r] = "lock"
    /\ mu = None
    /\ IF curFd = None
       THEN ReaderExit(r) /\ UNCHANGED readFd
       ELSE /\ readFd' = [readFd EXCEPT ![r] = curFd]
            /\ ReaderGoto(r, "read")
            /\ UNCHANGED clientVars
    /\ UNCHANGED <<callerVars, mgrVars, appVars, panicked>>

ReadData(r) ==
    /\ readerPc[r] = "read"
    /\ readFd[r] \in open
    /\ ReaderGoto(r, "callback")
    /\ UNCHANGED <<clientVars, callerVars, readFd, mgrVars, appVars, panicked>>

\* End of file or an error: of the network at any time, and always once the
\* connection is closed on this side.
ReadFails(r) ==
    /\ readerPc[r] = "read"
    /\ ReaderExit(r)
    /\ UNCHANGED <<callerVars, readFd, mgrVars, appVars, panicked>>

\* OnDataReceived: the loop goes on, or a negative result or a full buffer
\* ends it.
OnDataReceived(r) ==
    /\ readerPc[r] = "callback"
    /\ \/ ReaderGoto(r, "check") /\ UNCHANGED clientVars
       \/ ReaderExit(r)
    /\ UNCHANGED <<callerVars, readFd, mgrVars, appVars, panicked>>

\* Another user of the shared ConnectionManager unregisters the fd.
DisconnectDevice(fd) ==
    /\ fd \in connMap
    /\ connMap' = connMap \ {fd}
    /\ open' = open \ {fd}
    /\ UNCHANGED <<clientVars, callerVars, readerVars, nextFd, appVars, panicked>>

-----------------------------------------------------------------------------
CallerStep(p) ==
    \/ Spawn(p) \/ OnConnected(p)
    \/ SelectStop(p) \/ CloseStopChan(p) \/ CloseConn(p) \/ WaitReader(p)
    \/ Unregister(p) \/ Reset(p) \/ OnDisconnected(p)

ReaderStep(r) == ReaderCheck(r) \/ ReaderLock(r) \/ OnDataReceived(r)

Next ==
    /\ ~panicked
    /\ \/ \E p \in Callers :
            \/ Connect(p) \/ DialFails(p) \/ Register(p)
            \/ CloseBegin(p) \/ CallerStep(p)
       \/ \E r \in Fds :
            ReaderStep(r) \/ ReadData(r) \/ ReadFails(r) \/ DisconnectDevice(r)

Spec == Init /\ [][Next]_vars

\* Goroutines are scheduled; DialTimeout returns; Read returns when the
\* connection was closed on this side; sync.Mutex does not starve a waiter,
\* so a step that needs c.mu and is enabled again and again is taken.
Fairness ==
    /\ \A p \in Callers :
         /\ SF_vars(~panicked /\ CallerStep(p))
         /\ WF_vars(~panicked /\ (DialFails(p) \/ Register(p)))
    /\ \A r \in Fds :
         /\ SF_vars(~panicked /\ ReaderStep(r))
         /\ WF_vars(~panicked /\ readFd[r] \notin open /\ ReadFails(r))

FairSpec == Spec /\ Fairness

-----------------------------------------------------------------------------
Reading(r) == readerPc[r] \notin {"none", "done"}

TypeOK ==
    /\ mu \in Callers \cup {None}
    /\ curFd \in Fds \cup {None}
    /\ stopChan \in {"open", "closed"}
    /\ wg \in Nat
    /\ pc \in [Callers -> {"idle", "dial", "spawn", "onConnected", "select", "closeChan",
                           "closeConn", "wait", "unregister", "reset", "report"}]
    /\ seen \in [Callers -> Fds \cup {None}]
    /\ readerPc \in [Fds -> {"none", "check", "lock", "read", "callback", "done"}]
    /\ readFd \in [Fds -> Fds \cup {None}]
    /\ nextFd \in ClientFdStart .. ClientFdStart + MaxDials
    /\ connMap \subseteq Fds
    /\ open \subseteq Fds
    /\ connected \subseteq Fds
    /\ reported \in [Fds -> Nat]
    /\ panicked \in BOOLEAN

\* At most one goroutine reads, and it reads the connection it was started
\* for: although it fetches c.conn anew for every read, and the client may
\* be connected again.
OneReader ==
    \A r \in Fds : Reading(r) =>
        /\ curFd = r
        /\ readerPc[r] \in {"read", "callback"} => readFd[r] = r

\* An application hears of a connection in order: data only after
\* OnConnected has returned, nothing after OnDisconnected, which comes once.
CallbacksInOrder ==
    \A fd \in Fds :
        /\ readerPc[fd] = "callback" => fd \in connected /\ reported[fd] = 0
        /\ reported[fd] > 0 => fd \in connected
        /\ reported[fd] <= 1

\* When OnDisconnected is called, nothing of the connection is left: its
\* goroutine has ended, the fd is not registered, the socket is closed.
ReportedIsGone ==
    \A fd \in Fds : reported[fd] > 0 =>
        ~Reading(fd) /\ fd \notin connMap /\ fd \notin open

\* Connect and Close return, whatever the other callers and the reader do:
\* Close waits for a goroutine that itself waits for c.mu, and only the Read
\* that its own conn.Close ends can keep that goroutine.
CallsReturn == \A p \in Callers : pc[p] # "idle" ~> pc[p] = "idle" \/ panicked

-----------------------------------------------------------------------------
(* The inductive invariant behind the safety properties.                   *)

\* c.mu is held from the dial to the return of OnConnected, by one caller,
\* which finds no connection and starts the goroutine of the new one.
LockHeld ==
    \A p \in Callers :
        /\ mu = p <=> pc[p] \in {"dial", "spawn", "onConnected"}
        /\ pc[p] = "dial" => curFd = None
        /\ pc[p] \in {"spawn", "onConnected"} => curFd \in Fds \ connected
        /\ pc[p] = "spawn" => readerPc[curFd] = "none"

\* An fd that was not given yet has no past, and the current one was given;
\* while nobody holds c.mu its OnConnected has returned.
FdsGiven ==
    /\ \A fd \in Fds : fd >= nextFd =>
         readerPc[fd] = "none" /\ fd \notin connected /\ reported[fd] = 0
    /\ curFd # None => curFd < nextFd
    /\ curFd # None /\ mu = None => curFd \in connected

\* The WaitGroup counts the goroutine; it got c.conn when OnConnected had
\* returned.
ReaderCounts ==
    /\ wg = IF \E r \in Fds : Reading(r) THEN 1 ELSE 0
    /\ \A r \in Fds : readerPc[r] \in {"read", "callback"} => r \in connected

\* stopChan is closed once in the life of a client, so one caller goes
\* through with Close; what it has reached is done.
Closing(p) == pc[p] \in {"closeConn", "wait", "unregister", "reset", "report"}

OneCloser ==
    /\ \A p \in Callers : pc[p] \in {"select", "closeChan"} \/ Closing(p) => seen[p] \in connected
    /\ ~panicked =>
         /\ \A p, q \in Callers : Closing(p) /\ Closing(q) => p = q
         /\ \A p \in Callers :
              /\ \/ Closing(p) /\ pc[p] # "report"
                 \/ pc[p] \in {"select", "closeChan"} /\ stopChan = "open"
                 => seen[p] = curFd
              /\ Closing(p) =>
                   stopChan = "closed" /\ seen[p] \in connected /\ reported[seen[p]] = 0
              /\ pc[p] \in {"unregister", "reset", "report"} => ~Reading(seen[p])
              /\ pc[p] \in {"reset", "report"} => seen[p] \notin connMap \cup open
              /\ pc[p] = "report" => seen[p] # curFd

\* An fd that was reported is past.
ReportedIsPast ==
    \A fd \in Fds : reported[fd] > 0 =>
        fd < nextFd /\ fd # curFd /\ stopChan = "closed"

IInv ==
    /\ TypeOK
    /\ LockHeld
    /\ FdsGiven
    /\ OneReader
    /\ ReaderCounts
    /\ OneCloser
    /\ ReportedIsPast
    /\ CallbacksInOrder
    /\ ReportedIsGone

\* Close at wg.Wait waits for a reader that can go on: the reader finds c.mu
\* free, and a Read it is blocked in is on a connection closed on this side.
CloseUnblocks ==
    \A p \in Callers : ~panicked /\ pc[p] = "wait" =>
        /\ mu = None
        /\ \A r \in Fds : readerPc[r] = "read" => readFd[r] \notin open

\* The connection that Close has closed is not opened again under its fd.
ClosedStaysClosed ==
    \A p \in Callers : ~panicked /\ pc[p] = "wait" => seen[p] \notin open

-----------------------------------------------------------------------------
(* What tcp_connection/README.md says of the client.                       *)

\* README.md:573 says that every public method may be called from several
\* goroutines: two calls of Close do not end the program.
NoPanic == ~panicked

\* README.md:575 says that Close makes the OnDisconnected callback: for the
\* connection that a call of Close found, it comes.
CloseReports ==
    \A p \in Callers, fd \in Fds : seen[p] = fd ~> reported[fd] > 0 \/ panicked

\* README.md:495 says that OnDisconnected comes when the connection was lost,
\* actively or passively: also when the reader found it closed.
LossReported ==
    \A fd \in Fds : readerPc[fd] = "done" ~> reported[fd] > 0 \/ panicked
=============================================================================
