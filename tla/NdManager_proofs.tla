--------------------------- MODULE NdManager_proofs ---------------------------
(***************************************************************************)
(* A stream notices that its sink has ended, never runs without a session  *)
(* of the portal and takes its audio sink with it.                         *)
(***************************************************************************)
EXTENDS NdManager, TLAPS

LEMMA SignalTypes ==
    ASSUME NEW s \in Signals, NEW x \in {"pending", "spent"},
           sig \in [Signals -> {"armed", "pending", "spent"}],
           sig' = [sig EXCEPT ![s] = x]
    PROVE  sig' \in [Signals -> {"armed", "pending", "spent"}]
  OBVIOUS

LEMMA TypeStep == TypeOK /\ [Next]_vars => TypeOK'
  <1> SUFFICES ASSUME TypeOK, [Next]_vars PROVE TypeOK'
    OBVIOUS
  <1> USE DEF TypeOK, StreamTypeOK, Unready, Initing
  <1>1. CASE SinkListed \/ SystemdChanged
    BY <1>1 DEF SinkListed, SystemdChanged, process
  <1>2. CASE StartStream
    BY <1>2 DEF StartStream, Fresh
  <1>3. CASE StopStream
    BY <1>3, SignalTypes DEF StopStream, SignalSent, pulse, Signals
  <1>4. CASE SignalSent("int") /\ Idle
    BY <1>4, SignalTypes DEF SignalSent, Idle, pulse, Signals
  <1>5. ASSUME Idle, ScreencastCreated \/ ScreencastStarted \/ SessionClosed \/ WakeUp
        PROVE  TypeOK'
    BY <1>5 DEF Idle, ScreencastCreated, ScreencastStarted, SessionClosed, WakeUp, Noticed,
                StopSink, Looks, QuitNow, pulse
  <1>6. ASSUME Idle, SinkEnds \/ AskSources \/ MakeVideo \/ MakeAudio
        PROVE  TypeOK'
    BY <1>6 DEF Idle, SinkEnds, AskSources, MakeVideo, MakeAudio, pulse
  <1>7. ASSUME Idle, PaConnected \/ SinkGotInfo \/ ModuleLoaded \/ PaFails \/ PaInitialised
        PROVE  TypeOK'
    BY <1>7 DEF Idle, PaConnected, SinkGotInfo, SinkFound, LoadModule, ModuleLoaded, PaFails,
                PaInitialised, Looks
  <1>8. ASSUME Idle, NEW s \in Signals, SignalHandled(s)
        PROVE  TypeOK'
    BY <1>8, SignalTypes DEF Idle, SignalHandled, StopSink, Looks, QuitNow, pulse
  <1>9. CASE Shutdown /\ Idle
    <2>1. pa' \in {pa, "refused"} /\ alive' \in {alive, FALSE} /\ module' \in {module, FALSE}
      BY <1>9 DEF Shutdown, Unload, Requested, Unloaded
    <2>2. app' \in {"exited", "stuck", "crashed"}
      BY <1>9 DEF Shutdown, Unload
    <2> QED BY <1>9, <2>1, <2>2 DEF Shutdown, Idle
  <1>10. CASE UNCHANGED vars
    BY <1>10 DEF vars, process
  <1> QED
    BY <1>1, <1>2, <1>3, <1>4, <1>5, <1>6, <1>7, <1>8, <1>9, <1>10 DEF Next, Steps

\* Every variable keeps its type.
THEOREM TypeCorrect == Spec => []TypeOK
  <1>1. Init => TypeOK
    BY DEF Init, TypeOK, StreamTypeOK, Unready, Initing
  <1> QED BY <1>1, TypeStep, PTL DEF Spec
-----------------------------------------------------------------------------
(* The strengthening of the three invariants *)

\* The start finds a session, and the module of a null sink that is loaded is known.
Grounded ==
    /\ Running /\ portal = "starting" => session
    /\ pa \in {"loaded", "ready"} => index

IInv == Grounded /\ FailuresNoticed /\ SourcesHaveSession /\ AudioCleanedUp

LEMMA InvStep == TypeOK /\ IInv /\ [Next]_vars => IInv'
  <1> SUFFICES ASSUME TypeOK, IInv, [Next]_vars PROVE IInv'
    OBVIOUS
  <1> USE DEF IInv, Grounded, FailuresNoticed, SourcesHaveSession, AudioCleanedUp, Running
  <1>1. CASE SinkListed \/ SystemdChanged
    BY <1>1 DEF SinkListed, SystemdChanged, process
  <1>2. CASE StartStream
    BY <1>2 DEF StartStream, Fresh
  <1>3. CASE StopStream \/ SignalSent("int")
    BY <1>3 DEF StopStream, SignalSent, pulse
  <1>4. CASE ScreencastCreated
    BY <1>4 DEF ScreencastCreated, QuitNow, Looks
  <1>5. CASE ScreencastStarted
    BY <1>5 DEF ScreencastStarted, Noticed, QuitNow, Looks, pulse
  <1>6. CASE SessionClosed
    BY <1>6 DEF SessionClosed, StopSink, QuitNow, Looks, pulse, TypeOK, StreamTypeOK
  <1>7. CASE SinkEnds
    BY <1>7 DEF SinkEnds, pulse
  <1>8. CASE AskSources \/ MakeVideo \/ MakeAudio
    BY <1>8 DEF AskSources, MakeVideo, MakeAudio, pulse
  <1>9. CASE PaConnected \/ SinkGotInfo \/ ModuleLoaded \/ PaFails \/ PaInitialised
    BY <1>9 DEF PaConnected, SinkGotInfo, SinkFound, LoadModule, ModuleLoaded, PaFails,
                PaInitialised, Looks, Initing
  <1>10. ASSUME NEW s \in Signals, SignalHandled(s)
         PROVE  IInv'
    BY <1>10 DEF SignalHandled, StopSink, Looks, QuitNow, pulse
  <1>11. CASE WakeUp
    BY <1>11 DEF WakeUp, Looks, pulse
  <1>12. CASE Shutdown
    <2>1. app' # "running" /\ pa' \in {pa, "refused"} /\ UNCHANGED index
      BY <1>12 DEF Shutdown, Unload, Requested
    <2>2. ASSUME pa' = "ready", alive'
          PROVE  ~ module'
      <3>1. alive
        BY <1>12, <2>2 DEF Shutdown, Unload, Requested
      <3>2. pa = "ready" /\ index
        BY <2>1, <2>2
      <3>3. Unloaded
        BY <1>12, <2>2, <3>1 DEF Shutdown, Unload, Requested
      <3> QED BY <3>2, <3>3 DEF Unloaded
    <2>3. Grounded' /\ FailuresNoticed' /\ SourcesHaveSession'
      BY <2>1
    <2> QED BY <2>2, <2>3
  <1>13. CASE UNCHANGED vars
    BY <1>13 DEF vars, process
  <1> QED
    BY <1>1, <1>2, <1>3, <1>4, <1>5, <1>6, <1>7, <1>8, <1>9, <1>10, <1>11, <1>12, <1>13
    DEF Next, Steps

LEMMA InvHolds == Spec => []IInv
  <1>1. Init => IInv
    BY DEF Init, IInv, Grounded, FailuresNoticed, SourcesHaveSession, AudioCleanedUp, Running
  <1> QED BY <1>1, InvStep, TypeCorrect, PTL DEF Spec

\* No end of the sink is missed, not even one inside start_stream.
THEOREM AlwaysNoticed == Spec => []FailuresNoticed
  <1>1. IInv => FailuresNoticed
    BY DEF IInv
  <1> QED BY <1>1, InvHolds, PTL

\* The g_error of nd_stream_get_source is met only when the session closes while a
\* source is being made.
THEOREM AlwaysInSession == Spec => []SourcesHaveSession
  <1>1. IInv => SourcesHaveSession
    BY DEF IInv
  <1> QED BY <1>1, InvHolds, PTL

\* A process that exits with its audio ready leaves no null sink, its own or an adopted one,
\* unless PulseAudio refuses to unload it or the context fails before or during the request.
THEOREM AlwaysCleanedUp == Spec => []AudioCleanedUp
  <1>1. IInv => AudioCleanedUp
    BY DEF IInv
  <1> QED BY <1>1, InvHolds, PTL
=============================================================================
