------------------------ MODULE SoftBusServerProofs ------------------------
(***************************************************************************)
(* The modules of the daemon are up together, for any number of callers    *)
(* of the frame, publishers, services and ports.                           *)
(*                                                                         *)
(* UpTogether says nothing while a call into the frame runs; FrameInv says *)
(* how far the modules are up at each of its points.  Only the holder of   *)
(* gMutex changes them, so that what the publishers and the read loop do   *)
(* matters for none of it.                                                 *)
(***************************************************************************)
EXTENDS SoftBusServer, TLAPS

USE DEF Procs

\* What FrameInv speaks of, apart from program counters.
frameState == <<frameVars, upperVars, announcedPort>>

\* A step of a publisher or of the read loop.
LEMMA OthersKeep ==
    ASSUME FrameInv, UNCHANGED frameState, pc' \in [Procs -> Labels],
           \A f \in Frames : pc'[f] = pc[f]
    PROVE  FrameInv'
  BY DEF FrameInv, FrameAlone, Stage, Up, Down, frameState, frameVars, upperVars

\* The step of a caller of the frame: it holds gMutex, takes it or releases
\* it, and everybody else is idle.
LEMMA FrameMoves ==
    ASSUME FrameInv, NEW f \in Frames, pc[f] # "idle" \/ gMutex = None,
           NEW l \in Labels \ {"ready", "release"},
           pc' = [pc EXCEPT ![f] = l],
           gMutex' = IF l = "idle" THEN None ELSE f,
           l # "idle" => Stage(l)',
           l = "idle" => (Up \/ Down)'
    PROVE  FrameInv'
<1>1. \A g \in Frames : g # f => pc[g] = "idle"
  BY SoftBusAssumption DEF FrameInv, FrameAlone
<1>2. /\ pc' \in [Procs -> Labels]
      /\ pc'[f] = l
      /\ \A g \in Frames : g # f => pc'[g] = "idle"
  BY <1>1 DEF FrameInv, FrameAlone
<1>3. FrameAlone'
  BY <1>2, SoftBusAssumption DEF FrameAlone
<1>4. \A g \in Frames : pc'[g] # "idle" => Stage(l)' /\ pc'[g] = l
  BY <1>2
<1>5. (gMutex = None)' => (Up \/ Down)'
  BY SoftBusAssumption
<1>6. (\A g \in Frames : pc[g] # "idle" => Stage(pc[g]))'
  BY <1>4 DEF Stage
<1> QED
  BY <1>3, <1>5, <1>6 DEF FrameInv

-----------------------------------------------------------------------------
(* The way up.                                                             *)

LEMMA InitSteps ==
    ASSUME FrameInv, NEW f \in Frames,
           \/ InitSoftBusServer(f) \/ InitServiceRefused(f) \/ InitServiceFails(f)
           \/ InitService(f) \/ BusCenterServerInit(f) \/ AuthInit(f) \/ ListenFails(f)
           \/ Listen(f) \/ UpdatePorts(f) \/ TransServerInit(f)
    PROVE  FrameInv'
<1> USE DEF Goto, Labels, FrameLabels
<1>0. pc[f] # "idle" => Stage(pc[f]) /\ gMutex = f
  BY DEF FrameInv, FrameAlone
<1>1. CASE InitSoftBusServer(f)
  <2>1. Stage("disc")'
    <3>1. Down
      BY <1>1 DEF InitSoftBusServer, FrameInv, Up
    <3> QED
      BY <1>1, <3>1 DEF InitSoftBusServer, Stage, Down, upperVars
  <2> QED
    BY <1>1, <2>1, FrameMoves DEF InitSoftBusServer
<1>2. CASE InitServiceRefused(f) \/ InitServiceFails(f)
  <2>1. /\ pc[f] = "disc"
        /\ pc' = [pc EXCEPT ![f] = "return"]
        /\ UNCHANGED <<frameVars, upperVars>>
    BY <1>2 DEF InitServiceRefused, InitServiceFails, BeginService
  <2>2. Stage("return")'
    BY <1>0, <2>1 DEF Stage, Down, frameVars, upperVars
  <2> QED
    BY <1>0, <2>1, <2>2, FrameMoves DEF frameVars
<1>3. CASE InitService(f)
  <2>1. /\ pc[f] = "disc"
        /\ pc' = [pc EXCEPT ![f] = "bus"]
        /\ UNCHANGED <<frameVars, upperVars>>
    BY <1>3 DEF InitService, BeginService
  <2>2. Stage("bus")'
    BY <1>0, <2>1 DEF Stage, Down, frameVars, upperVars
  <2> QED
    BY <1>0, <2>1, <2>2, FrameMoves DEF frameVars
<1>4. CASE BusCenterServerInit(f)
  <2>1. Stage("auth")'
    BY <1>0, <1>4 DEF BusCenterServerInit, Stage, Down, frameVars
  <2> QED
    BY <1>0, <1>4, <2>1, FrameMoves DEF BusCenterServerInit, frameVars
<1>5. CASE AuthInit(f)
  <2>1. Stage("listen")'
    BY <1>0, <1>5 DEF AuthInit, Stage, frameVars
  <2> QED
    BY <1>0, <1>5, <2>1, FrameMoves DEF AuthInit, frameVars
<1>6. CASE ListenFails(f)
  <2>1. Stage("transDown")'
    BY DEF Stage
  <2> QED
    BY <1>0, <1>6, <2>1, FrameMoves DEF ListenFails, frameVars
<1>7. CASE Listen(f)
  <2>1. Stage("ports")'
    BY <1>0, <1>7, SoftBusAssumption DEF Listen, Stage, frameVars
  <2> QED
    BY <1>0, <1>7, <2>1, FrameMoves DEF Listen, frameVars
<1>8. CASE UpdatePorts(f)
  <2>1. Stage("trans")'
    BY <1>0, <1>8 DEF UpdatePorts, Stage, frameVars
  <2> QED
    BY <1>0, <1>8, <2>1, FrameMoves DEF UpdatePorts, frameVars
<1>9. CASE TransServerInit(f)
  <2>1. announcedPort' = announcedPort
    BY <1>9 DEF TransServerInit, discoveryVars, deviceVars
  <2>2. Stage("return")'
    BY <1>0, <1>9, <2>1 DEF TransServerInit, Stage, Up
  <2> QED
    BY <1>0, <1>9, <2>2, FrameMoves DEF TransServerInit
<1> QED
  BY <1>1, <1>2, <1>3, <1>4, <1>5, <1>6, <1>7, <1>8, <1>9

-----------------------------------------------------------------------------
(* The way down.                                                           *)

LEMMA DeinitSteps ==
    ASSUME FrameInv, NEW f \in Frames,
           \/ DeinitSoftBusServer(f) \/ TransServerDeinit(f) \/ StopSocketListening(f)
           \/ AuthDeviceDeinit(f) \/ AuthDeviceDeinitHangs(f) \/ BusCenterStop(f)
           \/ Return(f) \/ DeinitStep(f)
    PROVE  FrameInv'
<1> USE DEF Goto, Labels, FrameLabels
<1>0. pc[f] # "idle" => Stage(pc[f]) /\ gMutex = f
  BY DEF FrameInv, FrameAlone
<1>1. CASE DeinitSoftBusServer(f)
  <2>1. Stage("transDown")'
    BY DEF Stage
  <2> QED
    BY <1>1, <2>1, FrameMoves DEF DeinitSoftBusServer
<1>2. CASE TransServerDeinit(f)
  <2>1. Stage("stopListen")'
    BY <1>2 DEF TransServerDeinit, Stage
  <2> QED
    BY <1>0, <1>2, <2>1, FrameMoves DEF TransServerDeinit, frameVars
<1>3. CASE StopSocketListening(f)
  <2>1. Stage("authDown")'
    BY <1>0, <1>3 DEF StopSocketListening, Stage
  <2> QED
    BY <1>0, <1>3, <2>1, FrameMoves DEF StopSocketListening, frameVars
<1>4. CASE AuthDeviceDeinit(f)
  <2>1. Stage("stopReading")'
    BY <1>0, <1>4 DEF AuthDeviceDeinit, Stage
  <2> QED
    BY <1>0, <1>4, <2>1, FrameMoves DEF AuthDeviceDeinit, frameVars
<1>5. CASE DeinitStep(f)
  <2>1. /\ UNCHANGED <<frameVars, upperVars>>
        /\ \/ pc[f] = "stopReading" /\ pc' = [pc EXCEPT ![f] = "closeSocket"]
           \/ pc[f] = "closeSocket" /\ pc' = [pc EXCEPT ![f] = "waitReader"]
           \/ pc[f] = "waitReader" /\ pc' = [pc EXCEPT ![f] = "busStop"]
    BY <1>5 DEF DeinitStep, StopReading, CloseSocket, StopMonitor
  <2>2. /\ Stage("closeSocket")'
        /\ Stage("waitReader")'
        /\ Stage("busStop")'
    BY <1>0, <2>1 DEF Stage, upperVars
  <2> QED
    BY <1>0, <2>1, <2>2, FrameMoves DEF frameVars
<1>6. CASE BusCenterStop(f)
  <2>1. Stage("return")'
    BY <1>0, <1>6 DEF BusCenterStop, Stage, Down
  <2> QED
    BY <1>0, <1>6, <2>1, FrameMoves DEF BusCenterStop
<1>7. CASE Return(f)
  <2>1. (Up \/ Down)'
    <3>1. Up \/ Down
      BY <1>0, <1>7 DEF Return, Stage
    <3> QED
      BY <1>7, <3>1 DEF Return, Up, Down, upperVars, discoveryVars, deviceVars
  <2> QED
    BY <1>0, <1>7, <2>1, FrameMoves DEF Return
<1>8. CASE AuthDeviceDeinitHangs(f)
  <2>1. Stage("hung")'
    BY <1>0, <1>8 DEF AuthDeviceDeinitHangs, Stage, upperVars
  <2> QED
    BY <1>0, <1>8, <2>1, FrameMoves DEF AuthDeviceDeinitHangs, frameVars
<1> QED
  BY <1>1, <1>2, <1>3, <1>4, <1>5, <1>6, <1>7, <1>8

-----------------------------------------------------------------------------
(* The publishers and the read loop.                                       *)

LEMMA OtherSteps ==
    ASSUME FrameInv,
           \/ \E p \in Publishers :
                \/ GetServerIsInit(p) \/ PublishPanics(p) \/ PublishRefused(p)
                \/ PublishService(p) \/ UnPublishService(p) \/ Release(p) \/ DeinitStep(p)
           \/ ReaderStep \/ Receive
    PROVE  FrameInv'
<1>1. ASSUME NEW p \in Publishers,
             \/ GetServerIsInit(p) \/ PublishPanics(p) \/ PublishRefused(p)
             \/ PublishService(p) \/ UnPublishService(p) \/ Release(p) \/ DeinitStep(p)
      PROVE  FrameInv'
  <2>1. UNCHANGED frameState
    BY <1>1 DEF GetServerIsInit, PublishPanics, PublishRefused, PublishService, Release,
         UnPublishService, UpdateCoapService, DeinitStep, StopReading, CloseSocket,
         StopMonitor, discoveryVars, deviceVars, frameState
  <2>2. UNCHANGED pc \/ \E l \in Labels : pc' = [pc EXCEPT ![p] = l]
    BY <1>1, SoftBusAssumption
       DEF GetServerIsInit, PublishPanics, PublishRefused, PublishService, UnPublishService,
         Release, DeinitStep, StopReading, CloseSocket, StopMonitor, Goto, Labels,
         FrameLabels
  <2>3. p \notin Frames /\ pc \in [Procs -> Labels]
    BY SoftBusAssumption DEF FrameInv, FrameAlone
  <2> QED
    BY <2>1, <2>2, <2>3, OthersKeep
<1>2. CASE ReaderStep \/ Receive
  <2>1. UNCHANGED frameState /\ UNCHANGED pc
    BY <1>2 DEF ReaderStep, CheckTerminal, Receive, ReceiveFails, HandleReadEvent,
         ReaderGoto, frameState, deviceVars
  <2> QED
    BY <2>1, OthersKeep DEF FrameInv, FrameAlone
<1> QED
  BY <1>1, <1>2

-----------------------------------------------------------------------------
LEMMA InitFrameInv == Init => FrameInv
  BY SoftBusAssumption
     DEF Init, FrameInv, FrameAlone, Down, Labels, FrameLabels

LEMMA NextFrameInv == FrameInv /\ [Next]_vars => FrameInv'
<1> SUFFICES ASSUME FrameInv, [Next]_vars PROVE FrameInv'
  OBVIOUS
<1>1. CASE UNCHANGED vars
  BY <1>1, OthersKeep DEF vars, discoveryVars, deviceVars, frameState, FrameInv, FrameAlone
<1>2. CASE Next
  BY <1>2, InitSteps, DeinitSteps, OtherSteps DEF Next, FrameStep
<1> QED
  BY <1>1, <1>2

\* How far the modules are up at each point of the calls into the frame.
THEOREM FrameInvariance == Spec => []FrameInv
  BY InitFrameInv, NextFrameInv, PTL DEF Spec

\* Between two calls into the frame the modules are all up, with the port in
\* use told to everybody, or all down: whatever failed on the way, and
\* whatever applications publish or withdraw meanwhile.
THEOREM AlwaysUpTogether == Spec => []UpTogether
<1>1. FrameInv => UpTogether
  BY DEF FrameInv, UpTogether, Up, Down
<1> QED
  BY <1>1, FrameInvariance, PTL

=============================================================================
