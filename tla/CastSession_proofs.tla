------------------------ MODULE CastSession_proofs ------------------------
(***************************************************************************)
(* Types and resource life times of a Chromecast session; the chains of    *)
(* calls below its callbacks: why senders are connected and media served   *)
(* and stopped, and why only a dead link lets the clean-up recurse.        *)
(***************************************************************************)
EXTENDS CastSession, TLAPS

\* A frame waits on the stack.
Waiting(f) == \E i \in 1 .. Len(stack) : stack[i] = f

\* The stack is a sequence of frames the C stack has room for.
StackOK == stack \in Seq(Frames) /\ Len(stack) =< MaxStack

Ends == {"no", "http", "ctrl", "con", "stack", "freed"}

\* What a return leaves on the stack: the called frames and what was below.
LEMMA ReturnKeeps ==
    ASSUME StackOK, aborted \in Ends,
           stack # <<>>, NEW fs \in Seq(Frames), Return(fs)
    PROVE  /\ StackOK'
           /\ aborted' \in Ends
           /\ \A f \in Frames : Waiting(f)' =>
                (\E i \in 1 .. Len(fs) : fs[i] = f) \/ (\E i \in 2 .. Len(stack) : stack[i] = f)
  <1> USE CastAssumption DEF StackOK, Ends
  <1>1. CASE Len(fs \o Tail(stack)) > MaxStack
    BY <1>1 DEF Return, Waiting
  <1>2. CASE ~ (Len(fs \o Tail(stack)) > MaxStack)
    <2>1. stack' = fs \o Tail(stack) /\ aborted' = aborted
      BY <1>2 DEF Return
    <2>2. Tail(stack) \in Seq(Frames) /\ Len(Tail(stack)) = Len(stack) - 1
      OBVIOUS
    <2>3. stack' \in Seq(Frames) /\ Len(stack') = Len(fs) + Len(stack) - 1
      BY <2>1, <2>2
    <2>4. ASSUME NEW f \in Frames, NEW i \in 1 .. Len(stack'), stack'[i] = f
          PROVE  (\E j \in 1 .. Len(fs) : fs[j] = f) \/ (\E j \in 2 .. Len(stack) : stack[j] = f)
      <3>1. CASE i =< Len(fs)
        <4>1. stack'[i] = fs[i] /\ i \in 1 .. Len(fs)
          BY <2>1, <2>2, <3>1
        <4> QED BY <2>4, <4>1
      <3>2. CASE i > Len(fs)
        <4>1. stack'[i] = Tail(stack)[i - Len(fs)] /\ i - Len(fs) \in 1 .. Len(Tail(stack))
          BY <2>1, <2>2, <2>3, <3>2
        <4>2. stack'[i] = stack[i - Len(fs) + 1] /\ i - Len(fs) + 1 \in 2 .. Len(stack)
          BY <2>2, <4>1
        <4> QED BY <2>4, <4>2
      <3> QED BY <3>1, <3>2, <2>3
    <2> QED BY <1>2, <2>1, <2>3, <2>4 DEF Waiting
  <1> QED BY <1>1, <1>2

-----------------------------------------------------------------------------
\* The variables that are not sequences.
FlatOK ==
    /\ sink \in SinkStates
    /\ ctrl \in CtrlStates
    /\ con \in {"none", "plain", "tls"}
    /\ handshake \in BOOLEAN
    /\ link \in {"up", "down"}
    /\ ping \in BOOLEAN
    /\ src \in BOOLEAN
    /\ http \in {"none", "created"}
    /\ current \in BOOLEAN
    /\ stray \subseteq Strays
    /\ rxApp \in Apps
    /\ loaded \in BOOLEAN
    /\ changes \in 0 .. MaxChanges

InboxOK == inbox \in Seq(Messages)

\* The type invariant, part by part.
LEMMA PartsOfType == TypeOK => FlatOK /\ InboxOK /\ StackOK /\ aborted \in Ends
  BY DEF TypeOK, FlatOK, InboxOK, StackOK, Ends

\* The states the code assigns to ctrl->state.
LEMMA StateValues ==
    {DISCONNECTED, CONNECTED, LAUNCH_SENT, APP_OPEN, READY, ERROR} \subseteq CtrlStates
  BY DEF CtrlStates, DISCONNECTED, CONNECTED, LAUNCH_SENT, APP_OPEN, READY, ERROR

\* What the functions call before they return.
Calls == {<<>>, <<"get_status">>, <<"init_serve">>, <<"init_load">>, <<"close">>,
          <<"close", "close">>, <<"stop", "close">>, <<"stop", "close_tail">>,
          <<"finish", "stop_tail">>, <<"finish_con", "finish_tail">>,
          <<"finish_app", "finish_con", "finish_tail">>}

LEMMA CallsAreFrames == Calls \subseteq Seq(Frames)
  BY DEF Calls, Frames

\* A function that returns leaves a proper stack.
LEMMA CallsKeep ==
    ASSUME StackOK, aborted \in Ends, stack # <<>>, NEW fs \in Calls, Return(fs)
    PROVE  StackOK' /\ aborted' \in Ends
  BY CallsAreFrames, ReturnKeeps

\* A message handler starts one function at most.
LEMMA HandlerTypes ==
    ASSUME NEW m \in Messages
    PROVE  Handler(m) \in Seq(Frames) /\ Len(Handler(m)) =< 1
  <1>1. <<>> \in Seq(Frames) /\ Len(<<>>) = 0
    OBVIOUS
  <1>2. ASSUME NEW f \in Frames
        PROVE  <<f>> \in Seq(Frames) /\ Len(<<f>>) = 1
    OBVIOUS
  <1>3. Handler(m) = <<>> \/ \E f \in Frames : Handler(m) = <<f>>
    <2>1. CASE m \in Apps
      BY <2>1 DEF Handler, Apps, Frames
    <2>2. CASE m \in {"available", "close_app"}
      BY <2>2 DEF Handler, Frames
    <2>3. CASE m \in {"unavailable", "launch_error", "error", "load_failed", "close_receiver"}
      BY <2>3 DEF Handler, Frames
    <2> QED BY <2>1, <2>2, <2>3 DEF Messages
  <1> HIDE DEF Handler
  <1>4. CASE Handler(m) = <<>>
    BY <1>1, <1>4
  <1>5. ASSUME NEW f \in Frames, Handler(m) = <<f>>
        PROVE  Handler(m) \in Seq(Frames) /\ Len(Handler(m)) =< 1
    BY <1>2, <1>5
  <1> QED BY <1>3, <1>4, <1>5

\* Appending a message to the inbox.
LEMMA ReplyTypes ==
    ASSUME InboxOK, NEW m \in Messages, NEW n \in Messages,
           Reply(<<>>) \/ Reply(<<m>>) \/ Reply(<<m, n>>)
    PROVE  InboxOK'
  <1>1. <<>> \in Seq(Messages) /\ <<m>> \in Seq(Messages) /\ <<m, n>> \in Seq(Messages)
    OBVIOUS
  <1>2. \A ms \in Seq(Messages) : Reply(ms) => InboxOK'
    BY DEF InboxOK, Reply
  <1> QED BY <1>1, <1>2

\* The types hold initially.
LEMMA InitTypes == Init => TypeOK
  <1> SUFFICES ASSUME Init PROVE TypeOK
    OBVIOUS
  <1>1. FlatOK
    <2>1. ctrl \in CtrlStates
      BY StateValues DEF Init
    <2>2. changes \in 0 .. MaxChanges
      BY CastAssumption DEF Init
    <2>3. sink \in SinkStates /\ rxApp \in Apps
      BY DEF Init, SinkStates, Apps
    <2> QED BY <2>1, <2>2, <2>3 DEF Init, FlatOK
  <1>2. InboxOK /\ StackOK /\ aborted \in Ends
    BY CastAssumption DEF Init, InboxOK, StackOK, Ends
  <1> QED BY <1>1, <1>2 DEF TypeOK, FlatOK, InboxOK, StackOK, Ends

\* What the user does keeps the types.
LEMMA UserTypes == TypeOK /\ User => TypeOK'
  <1> SUFFICES ASSUME TypeOK, User PROVE TypeOK'
    OBVIOUS
  <1> USE PartsOfType DEF comm, media, receiver, SinkStates
  <1>1. FlatOK'
    BY DEF User, StartAsserts, Leftover, StartLacksCodecs, StartConnects, StopStream, FlatOK
  <1>2. InboxOK'
    BY DEF User, StartAsserts, Leftover, StartLacksCodecs, StartConnects, StopStream, InboxOK
  <1>3. StackOK' /\ aborted' \in Ends
    <2>1. CASE StopStream
      <3>1. stack' = <<"stop">> /\ aborted' = aborted
        BY <2>1 DEF StopStream, Call
      <3> QED BY <3>1, CastAssumption DEF StackOK, Frames
    <2>2. CASE StartAsserts \/ StartLacksCodecs \/ StartConnects
      <3>1. stack' = stack /\ (aborted' = aborted \/ aborted' \in {"http", "ctrl", "con"})
        BY <2>2 DEF StartAsserts, Leftover, StartLacksCodecs, StartConnects
      <3> QED BY <3>1 DEF StackOK, Ends
    <2> QED BY <2>1, <2>2 DEF User
  <1> QED BY <1>1, <1>2, <1>3 DEF TypeOK, FlatOK, InboxOK, StackOK, Ends

\* The running callback keeps the types.
LEMMA CallbackTypes == TypeOK /\ Callback => TypeOK'
  <1> SUFFICES ASSUME TypeOK, Callback PROVE TypeOK'
    OBVIOUS
  <1> USE PartsOfType DEF comm, media, receiver
  <1> DEFINE LaunchFrames == {"launch", "launch_available", "launch_again"}
  <1>1. stack # <<>> /\ \E fs \in Calls : Return(fs)
    <2>1. CASE Stop \/ StopTail \/ Close \/ CloseTail
      BY <2>1 DEF Stop, StopTail, FinalServer, PipelineFreed, Close, CloseTail, At, Calls
    <2>2. CASE Finish
      BY <2>2 DEF Finish, HasSession, Goodbyes, At, Calls
    <2>3. CASE FinishApp \/ FinishCon \/ FinishTail
      BY <2>3 DEF FinishApp, FinishCon, FinishTail, At, Calls
    <2>4. CASE Greet \/ GetStatus \/ Query \/ \E f \in LaunchFrames : Launch(f)
      BY <2>4 DEF Greet, GetStatus, Query, Launch, At, Calls
    <2>5. CASE InitConnect \/ InitServe \/ InitLoad
      BY <2>5 DEF InitConnect, InitServe, Forgotten, NoPort, InitLoad, At, Calls
    <2> QED BY <2>1, <2>2, <2>3, <2>4, <2>5 DEF Callback
  <1>2. StackOK' /\ aborted' \in Ends
    BY <1>1, CallsKeep
  <1>3. FlatOK'
    <2> USE StateValues DEF FlatOK
    <2>1. CASE Stop \/ Close \/ CloseTail
      BY <2>1 DEF Stop, Close, CloseTail
    <2>6. CASE StopTail
      <3>1. stray' \subseteq Strays
        BY <2>6 DEF StopTail, PipelineFreed, Strays
      <3>2. sink' = "disconnected" /\ http' = "none" /\ current' = FALSE
        BY <2>6 DEF StopTail, FinalServer
      <3>3. UNCHANGED <<ctrl, con, handshake, link, src, ping, rxApp, loaded, changes>>
        BY <2>6 DEF StopTail
      <3> QED BY <3>1, <3>2, <3>3 DEF SinkStates
    <2>2. CASE Finish \/ FinishApp \/ FinishCon \/ FinishTail
      BY <2>2 DEF Finish, HasSession, Goodbyes, FinishApp, FinishCon, FinishTail, Apps
    <2>3. CASE Greet \/ GetStatus \/ Query
      BY <2>3 DEF Greet, GetStatus, Query
    <2>4. ASSUME NEW f \in LaunchFrames, Launch(f)
          PROVE  FlatOK'
      <3>1. ctrl' \in CtrlStates /\ rxApp' \in Apps /\ loaded' \in BOOLEAN
        BY <2>4 DEF Launch, Apps
      <3>2. UNCHANGED <<sink, con, handshake, link, src, ping, http, current, stray, changes>>
        BY <2>4 DEF Launch
      <3> QED BY <3>1, <3>2
    <2>5. CASE InitConnect \/ InitLoad
      BY <2>5 DEF InitConnect, InitLoad
    <2>7. CASE InitServe
      <3>1. stray' \subseteq Strays /\ current' \in BOOLEAN
        BY <2>7 DEF InitServe, Forgotten, Strays
      <3>2. UNCHANGED <<sink, ctrl, comm, ping, http, receiver>>
        BY <2>7 DEF InitServe
      <3> QED BY <3>1, <3>2
    <2> QED BY <2>1, <2>2, <2>3, <2>4, <2>5, <2>6, <2>7 DEF Callback
  <1>4. InboxOK'
    <2>1. CASE inbox' \in {inbox, <<>>}
      <3>1. <<>> \in Seq(Messages)
        OBVIOUS
      <3> QED BY <2>1, <3>1 DEF InboxOK
    <2>2. CASE \E m \in Messages : Reply(<<>>) \/ Reply(<<m>>)
      BY <2>2, ReplyTypes
    <2>3. CASE Stop \/ StopTail \/ Close \/ CloseTail \/ Finish \/ FinishApp \/ FinishCon \/ FinishTail
      BY <2>1, <2>3 DEF Stop, StopTail, FinalServer, PipelineFreed, Close, CloseTail, Finish, HasSession, Goodbyes, FinishApp, FinishCon, FinishTail
    <2>4. CASE Greet \/ GetStatus \/ Query
      BY <2>1, <2>2, <2>4 DEF Greet, GetStatus, Query, FlatOK, Messages
    <2>5. CASE \E f \in LaunchFrames : Launch(f)
      BY <2>1, <2>2, <2>5 DEF Launch, Messages, Apps
    <2>6. CASE InitConnect \/ InitServe \/ InitLoad
      BY <2>1, <2>2, <2>6 DEF InitConnect, InitServe, Forgotten, NoPort, InitLoad, Messages
    <2> QED BY <2>3, <2>4, <2>5, <2>6 DEF Callback
  <1> QED BY <1>2, <1>3, <1>4 DEF TypeOK, FlatOK, InboxOK, StackOK, Ends

\* The events of the main loop keep the types.
LEMMA EventTypes ==
    ASSUME TypeOK, \/ HandshakeReturns \/ PingFails \/ ReadMessage \/ ReadEnd
                   \/ HttpGet \/ PipelineFails \/ StrayCrash
    PROVE  TypeOK'
  <1> USE PartsOfType DEF comm, media, receiver
  <1>1. CASE HandshakeReturns \/ PingFails \/ PipelineFails
    <2> USE <1>1 DEF HandshakeReturns, HandshakeDone, HandshakeFails, HandshakeError, PingFails, PipelineFails
    <2>1. FlatOK' /\ InboxOK'
      BY DEF FlatOK, InboxOK
    <2>2. \E f \in Frames : Call(f)
      BY DEF Frames
    <2>3. StackOK' /\ aborted' \in Ends
      BY <2>2, CastAssumption DEF Call, StackOK
    <2> QED BY <2>1, <2>3 DEF TypeOK, FlatOK, InboxOK, StackOK, Ends
  <1>2. CASE ReadMessage
    <2>1. Head(inbox) \in Messages /\ InboxOK'
      BY <1>2 DEF ReadMessage, InboxOK
    <2>2. StackOK' /\ aborted' \in Ends
      <3>1. stack' \in Seq(Frames) /\ Len(stack') =< 1
        BY <1>2, <2>1, HandlerTypes DEF ReadMessage
      <3>2. aborted' = aborted
        BY <1>2 DEF ReadMessage
      <3>3. Len(stack') \in Nat /\ MaxStack \in Nat /\ MaxStack >= 1
        BY <3>1, CastAssumption
      <3>4. StackOK'
        BY <3>1, <3>3 DEF StackOK
      <3> QED BY <3>2, <3>4
    <2>3. FlatOK'
      BY <1>2, StateValues DEF ReadMessage, FlatOK
    <2> QED BY <2>1, <2>2, <2>3 DEF TypeOK, FlatOK, InboxOK, StackOK, Ends
  <1>3. CASE ReadEnd \/ HttpGet \/ StrayCrash
    <2> USE <1>3 DEF ReadEnd, HttpGet, StrayCrash
    <2>1. FlatOK'
      BY DEF FlatOK, SinkStates
    <2>2. InboxOK' /\ StackOK' /\ aborted' \in Ends
      BY DEF InboxOK, StackOK, Ends
    <2> QED BY <2>1, <2>2 DEF TypeOK, FlatOK, InboxOK, StackOK, Ends
  <1> QED BY <1>1, <1>2, <1>3

\* The connection and the receiver keep the types.
LEMMA EnvironmentTypes == TypeOK /\ Environment => TypeOK'
  <1> SUFFICES ASSUME TypeOK, Environment PROVE TypeOK'
    OBVIOUS
  <1> USE PartsOfType DEF comm, media, receiver
  <1>1. StackOK' /\ aborted' \in Ends
    BY DEF Environment, LinkFails, AppChanges, ReceiverSays, Spontaneous, StackOK
  <1>2. FlatOK'
    <2>1. CASE LinkFails
      BY <2>1 DEF LinkFails, FlatOK
    <2>2. ASSUME Spontaneous
          PROVE  changes' \in 0 .. MaxChanges
      BY <2>2, CastAssumption DEF Spontaneous, FlatOK
    <2>3. CASE AppChanges
      BY <2>2, <2>3 DEF AppChanges, Spontaneous, FlatOK
    <2>4. CASE ReceiverSays
      BY <2>2, <2>4 DEF ReceiverSays, Spontaneous, FlatOK
    <2> QED BY <2>1, <2>3, <2>4 DEF Environment
  <1>3. InboxOK'
    <2>1. CASE LinkFails
      BY <2>1 DEF LinkFails, InboxOK
    <2>2. CASE AppChanges \/ ReceiverSays
      <3>1. \E m, n \in Messages : Reply(<<m>>) \/ Reply(<<m, n>>)
        BY <2>2 DEF AppChanges, ReceiverSays, FlatOK, Messages
      <3> QED BY <3>1, ReplyTypes
    <2> QED BY <2>1, <2>2 DEF Environment
  <1> QED BY <1>1, <1>2, <1>3 DEF TypeOK, FlatOK, InboxOK, StackOK, Ends

\* Every step keeps the types.
LEMMA NextTypes == TypeOK /\ [Next]_vars => TypeOK'
  <1>1. ASSUME TypeOK, UNCHANGED vars PROVE TypeOK'
    BY <1>1 DEF vars, comm, media, receiver, TypeOK
  <1> QED BY <1>1, UserTypes, CallbackTypes, EventTypes, EnvironmentTypes DEF Next

\* The variables keep their types, however deep the callbacks nest and however
\* much the receiver says.
THEOREM TypeCorrect == Spec => []TypeOK
  BY InitTypes, NextTypes, PTL DEF Spec
-----------------------------------------------------------------------------
\* No server is left behind: each step that disconnects the sink drops it.
LEMMA NextRestartable == Restartable /\ [Next]_vars => Restartable'
  <1> SUFFICES ASSUME Restartable, [Next]_vars PROVE Restartable'
    OBVIOUS
  <1> USE DEF Restartable, comm, media, receiver
  <1>1. CASE UNCHANGED vars
    BY <1>1 DEF vars
  <1>2. CASE User
    BY <1>2 DEF User, StartAsserts, Leftover, StartLacksCodecs, StartConnects, StartGuard, StopStream
  <1>3. CASE Stop \/ StopTail \/ Close \/ CloseTail \/ Finish \/ FinishApp \/ FinishCon \/ FinishTail
    BY <1>3 DEF Stop, StopTail, FinalServer, PipelineFreed, Close, CloseTail, Finish, HasSession, Goodbyes, FinishApp, FinishCon, FinishTail
  <1>4. CASE \/ Greet \/ GetStatus \/ Query \/ InitConnect \/ InitServe \/ InitLoad
            \/ \E f \in {"launch", "launch_available", "launch_again"} : Launch(f)
    BY <1>4 DEF Greet, GetStatus, Query, InitConnect, InitServe, Forgotten, NoPort, InitLoad, Launch
  <1>5. CASE HandshakeReturns \/ PingFails \/ ReadMessage \/ ReadEnd
    BY <1>5 DEF HandshakeReturns, HandshakeDone, HandshakeFails, HandshakeError, PingFails, ReadMessage, ReadEnd
  <1>6. CASE HttpGet \/ PipelineFails \/ StrayCrash \/ Environment
    BY <1>6 DEF HttpGet, PipelineFails, StrayCrash, Environment, LinkFails, AppChanges, ReceiverSays, Spontaneous
  <1> QED BY <1>1, <1>2, <1>3, <1>4, <1>5, <1>6 DEF Next, Callback

\* The assertion of start_stream on the media server cannot fail, however many
\* sessions ended in whatever way before.
THEOREM AlwaysRestartable == Spec => []Restartable
  <1>1. Init => Restartable
    BY DEF Init, Restartable
  <1> QED BY <1>1, NextRestartable, PTL DEF Spec
-----------------------------------------------------------------------------
\* When the connection is closed the timer is already gone; the timer is only
\* installed by a callback that has nothing left to do; and while a handshake is
\* pending the running callback can only stop the sink, not the session.
LifeInv ==
    /\ SourcesConnected
    /\ Waiting("finish_tail") => ~ ping
    /\ Waiting("greet") => stack = <<"greet">>
    /\ handshake =>
        /\ con = "tls" /\ ~ src /\ ~ ping /\ ctrl = DISCONNECTED
        /\ \A f \in Frames : Waiting(f) => f \in {"stop", "stop_tail", "finish"}

\* After a return the called frames wait, and some of those that waited before.
LEMMA ReturnWaits ==
    ASSUME TypeOK, stack # <<>>, NEW fs \in Calls, Return(fs), NEW f \in Frames, Waiting(f)'
    PROVE  (\E i \in 1 .. Len(fs) : fs[i] = f)
             \/ (Waiting(f) /\ \E i \in 2 .. Len(stack) : stack[i] = f)
  <1>1. StackOK /\ aborted \in Ends /\ fs \in Seq(Frames)
    BY PartsOfType, CallsAreFrames
  <1>2. (\E i \in 1 .. Len(fs) : fs[i] = f) \/ (\E i \in 2 .. Len(stack) : stack[i] = f)
    BY <1>1, ReturnKeeps
  <1>3. (\E i \in 2 .. Len(stack) : stack[i] = f) => Waiting(f)
    BY <1>1 DEF Waiting, StackOK
  <1> QED BY <1>2, <1>3

\* The frame that runs waits on the stack.
LEMMA TopWaits ==
    ASSUME TypeOK, NEW f, At(f)
    PROVE  Waiting(f) /\ stack # <<>>
  BY PartsOfType DEF At, Waiting, StackOK

\* No function calls the rest of the handshake.
LEMMA NobodyGreets ==
    ASSUME TypeOK, LifeInv, stack # <<>>, NEW fs \in Calls, Return(fs)
    PROVE  ~ Waiting("greet")'
  <1> SUFFICES ASSUME Waiting("greet")' PROVE FALSE
    OBVIOUS
  <1>1. "greet" \in Frames /\ \A i \in 1 .. Len(fs) : fs[i] # "greet"
    BY DEF Calls, Frames
  <1>2. Waiting("greet") /\ \E i \in 2 .. Len(stack) : stack[i] = "greet"
    BY <1>1, ReturnWaits
  <1>3. Len(stack) = 1
    BY <1>2 DEF LifeInv
  <1> QED BY <1>2, <1>3

\* The functions that end a session.
LEMMA EndingLife ==
    ASSUME TypeOK, LifeInv, \/ Stop \/ StopTail \/ Close \/ CloseTail
                            \/ Finish \/ FinishApp \/ FinishCon \/ FinishTail
    PROVE  LifeInv'
  <1> USE DEF comm, media, receiver
  <1>1. PICK fs \in Calls : Return(fs) /\ stack # <<>>
    BY DEF Stop, StopTail, FinalServer, PipelineFreed, Close, CloseTail, Finish, HasSession, Goodbyes, FinishApp, FinishCon, FinishTail, At, Calls
  <1>2. ~ Waiting("greet")'
    BY <1>1, NobodyGreets
  <1>3. UNCHANGED <<handshake>> /\ (ping' = ping \/ ping' = FALSE)
    BY DEF Stop, StopTail, FinalServer, PipelineFreed, Close, CloseTail, Finish, HasSession, Goodbyes, FinishApp, FinishCon, FinishTail
  <1>4. SourcesConnected'
    <2>1. CASE FinishTail
      <3>1. ~ ping
        BY <2>1, TopWaits DEF FinishTail, LifeInv
      <3> QED BY <2>1, <3>1 DEF FinishTail, SourcesConnected
    <2>2. CASE \/ Stop \/ StopTail \/ Close \/ CloseTail \/ Finish \/ FinishApp \/ FinishCon
      <3>1. UNCHANGED <<src, con>>
        BY <2>2 DEF Stop, StopTail, FinalServer, PipelineFreed, Close, CloseTail, Finish, HasSession, Goodbyes, FinishApp, FinishCon
      <3> QED BY <1>3, <3>1 DEF LifeInv, SourcesConnected
    <2> QED BY <2>1, <2>2
  <1>5. Waiting("finish_tail")' => ~ ping'
    <2> SUFFICES ASSUME Waiting("finish_tail")' PROVE ~ ping'
      OBVIOUS
    <2>1. CASE Waiting("finish_tail")
      BY <1>3, <2>1 DEF LifeInv
    <2>2. CASE ~ Waiting("finish_tail")
      <3>1. ASSUME NEW gs \in Calls, Return(gs)
            PROVE  \E i \in 1 .. Len(gs) : gs[i] = "finish_tail"
        BY <1>1, <2>2, <3>1, ReturnWaits DEF Frames
      <3>2. Finish /\ ctrl \notin {DISCONNECTED, ERROR}
        BY <3>1 DEF Stop, StopTail, FinalServer, PipelineFreed, Close, CloseTail, Finish, HasSession, Goodbyes, FinishApp, FinishCon, FinishTail, Calls
      <3> QED BY <3>2 DEF Finish, HasSession, Goodbyes
    <2> QED BY <2>1, <2>2
  <1>6. handshake' =>
          /\ con' = "tls" /\ ~ src' /\ ~ ping' /\ ctrl' = DISCONNECTED
          /\ \A f \in Frames : Waiting(f)' => f \in {"stop", "stop_tail", "finish"}
    <2> SUFFICES ASSUME handshake
                 PROVE  /\ con' = "tls" /\ ~ src' /\ ~ ping' /\ ctrl' = DISCONNECTED
                        /\ \A f \in Frames : Waiting(f)' => f \in {"stop", "stop_tail", "finish"}
      BY <1>3
    <2>1. \A f \in Frames : At(f) => f \in {"stop", "stop_tail", "finish"}
      BY TopWaits DEF LifeInv
    <2>2. Stop \/ StopTail \/ Finish
      BY <2>1 DEF Close, CloseTail, FinishApp, FinishCon, FinishTail, Frames
    <2>3. con' = "tls" /\ ~ src' /\ ~ ping' /\ ctrl' = DISCONNECTED
      BY <1>3, <2>2 DEF Stop, StopTail, FinalServer, PipelineFreed, Finish, HasSession, Goodbyes, LifeInv
    <2>4. ASSUME NEW f \in Frames, Waiting(f)'
          PROVE  f \in {"stop", "stop_tail", "finish"}
      <3>1. PICK gs \in {<<>>, <<"finish", "stop_tail">>} : Return(gs)
        BY <2>2 DEF Stop, StopTail, FinalServer, PipelineFreed, Finish, HasSession, Goodbyes, LifeInv
      <3>2. (\E i \in 1 .. Len(gs) : gs[i] = f) \/ Waiting(f)
        BY <1>1, <2>4, <3>1, ReturnWaits DEF Calls
      <3> QED BY <3>1, <3>2 DEF LifeInv
    <2> QED BY <2>3, <2>4
  <1> QED BY <1>2, <1>4, <1>5, <1>6 DEF LifeInv

\* The functions that run a session: the timer is installed on a connection that
\* is there, with nothing else on the stack.
LEMMA RunningLife ==
    ASSUME TypeOK, LifeInv, \/ Greet \/ GetStatus \/ Query
                            \/ InitConnect \/ InitServe \/ InitLoad
                            \/ \E f \in {"launch", "launch_available", "launch_again"} : Launch(f)
    PROVE  LifeInv'
  <1> USE DEF comm, media, receiver
  <1>1. PICK fs \in Calls : /\ Return(fs) /\ stack # <<>>
                            /\ \A i \in 1 .. Len(fs) : fs[i] # "finish_tail"
    BY DEF Greet, GetStatus, Query, InitConnect, InitServe, Forgotten, NoPort, InitLoad, Launch, At, Calls
  <1>2. ~ Waiting("greet")'
    BY <1>1, NobodyGreets
  <1>3. UNCHANGED <<con, handshake, src>>
    BY DEF Greet, GetStatus, Query, InitConnect, InitServe, Forgotten, NoPort, InitLoad, Launch
  <1>4. ~ handshake
    <2>1. \E f \in Frames \ {"stop", "stop_tail", "finish"} : At(f)
      BY DEF Greet, GetStatus, Query, InitConnect, InitServe, Forgotten, NoPort, InitLoad, Launch, Frames
    <2> QED BY <2>1, TopWaits DEF LifeInv
  <1>5. Waiting("finish_tail")' => Waiting("finish_tail") /\ \E i \in 2 .. Len(stack) : TRUE
    BY <1>1, ReturnWaits DEF Frames
  <1>6. CASE Greet /\ CanSend
    <2>1. Len(stack) = 1
      BY <1>6, TopWaits DEF Greet, LifeInv
    <2>2. ~ Waiting("finish_tail")'
      BY <1>5, <2>1
    <2> QED BY <1>2, <1>3, <1>4, <1>6, <2>2 DEF CanSend, LifeInv, SourcesConnected
  <1>7. CASE ~ (Greet /\ CanSend)
    <2>1. ping' = ping
      BY <1>7 DEF Greet, GetStatus, Query, InitConnect, InitServe, Forgotten, NoPort, InitLoad, Launch
    <2> QED BY <1>2, <1>3, <1>4, <1>5, <2>1 DEF LifeInv, SourcesConnected
  <1> QED BY <1>6, <1>7

\* The events.  They start a callback on an empty stack, or none.
LEMMA EventLife ==
    ASSUME TypeOK, LifeInv, \/ User \/ HandshakeReturns \/ PingFails \/ ReadMessage \/ ReadEnd
                            \/ HttpGet \/ PipelineFails \/ StrayCrash \/ Environment
    PROVE  LifeInv'
  <1> USE DEF comm, media, receiver
  <1>1. ASSUME NEW fs \in {<<>>, <<"stop">>, <<"close">>, <<"launch">>, <<"init_connect">>,
                           <<"query">>, <<"launch_available">>, <<"launch_again">>},
               stack' = fs
        PROVE  /\ ~ Waiting("greet")' /\ ~ Waiting("finish_tail")'
               /\ fs \in {<<>>, <<"stop">>} =>
                    \A f \in Frames : Waiting(f)' => f \in {"stop", "stop_tail", "finish"}
    BY <1>1 DEF Waiting
  <1>2. CASE StartConnects
    <2>1. stack' = <<>> /\ ~ ping /\ ~ src /\ ~ handshake /\ ctrl' = DISCONNECTED
      BY <1>2 DEF StartConnects, Leftover, StartGuard, MainLoop, LifeInv, SourcesConnected
    <2>2. ~ ping' /\ ~ src' /\ (handshake' => con' = "tls")
      BY <1>2, <2>1 DEF StartConnects
    <2> QED BY <1>1, <2>1, <2>2 DEF LifeInv, SourcesConnected
  <1>3. CASE StartAsserts \/ StartLacksCodecs \/ ReadEnd \/ HttpGet \/ StrayCrash \/ Environment
    <2>1. UNCHANGED <<stack, con, handshake, ping, ctrl>> /\ (src' = src \/ src' = FALSE)
      BY <1>3 DEF StartAsserts, Leftover, StartLacksCodecs, ReadEnd, HttpGet, StrayCrash, Environment, LinkFails, AppChanges, ReceiverSays, Spontaneous
    <2> QED BY <2>1 DEF LifeInv, SourcesConnected, Waiting
  <1>4. CASE StopStream \/ PipelineFails
    <2>1. stack' = <<"stop">> /\ UNCHANGED <<con, handshake, ping, src, ctrl>>
      BY <1>4 DEF StopStream, PipelineFails, Call
    <2> QED BY <1>1, <2>1 DEF LifeInv, SourcesConnected
  <1>5. CASE HandshakeDone
    <2>1. stack' = <<"greet">> /\ con' = "tls" /\ ~ handshake' /\ ~ ping'
      BY <1>5 DEF HandshakeDone, Call, LifeInv
    <2>2. ~ Waiting("finish_tail")'
      BY <2>1 DEF Waiting
    <2> QED BY <2>1, <2>2 DEF LifeInv, SourcesConnected
  <1>6. CASE HandshakeFails \/ PingFails
    <2>1. /\ stack' = <<"close">> /\ UNCHANGED <<con, src>>
          /\ ~ handshake' /\ (ping' => ping)
      BY <1>6 DEF HandshakeFails, HandshakeError, PingFails, Call, LifeInv
    <2> QED BY <1>1, <2>1 DEF LifeInv, SourcesConnected
  <1>7. CASE ReadMessage
    <2>1. UNCHANGED <<con, handshake, ping, src>> /\ ~ handshake
      BY <1>7 DEF ReadMessage, LifeInv
    <2>2. Head(inbox) \in Messages
      BY <1>7, PartsOfType DEF ReadMessage, InboxOK
    <2>3. ~ Waiting("greet")' /\ ~ Waiting("finish_tail")'
      BY <1>1, <1>7, <2>2 DEF ReadMessage, Handler, Messages, Apps
    <2> QED BY <2>1, <2>3 DEF LifeInv, SourcesConnected
  <1> QED BY <1>2, <1>3, <1>4, <1>5, <1>6, <1>7 DEF User, HandshakeReturns

\* The timer and the input source never outlive the connection they use, whatever
\* fails at whatever point of whatever callback.
THEOREM SourcesAlwaysConnected == Spec => []SourcesConnected
  <1>1. Init => LifeInv
    BY DEF Init, LifeInv, SourcesConnected, Waiting
  <1>2. TypeOK /\ LifeInv /\ [Next]_vars => LifeInv'
    <2>1. ASSUME LifeInv, UNCHANGED vars PROVE LifeInv'
      BY <2>1 DEF vars, comm, media, LifeInv, SourcesConnected, Waiting
    <2> QED BY <2>1, EndingLife, RunningLife, EventLife DEF Next, Callback
  <1>3. LifeInv => SourcesConnected
    BY DEF LifeInv
  <1> QED BY <1>1, <1>2, <1>3, TypeCorrect, PTL DEF Spec
-----------------------------------------------------------------------------
\* Three places set the state: start_stream, its counterpart and the server that is
\* fetched from.
LEMMA SinkMoves == TypeOK /\ [Next]_vars => sink' = sink \/ <<sink, sink'>> \in Life!Moves("cc")
  <1> SUFFICES ASSUME TypeOK, [Next]_vars
               PROVE  sink' = sink \/ <<sink, sink'>> \in Life!Moves("cc")
    OBVIOUS
  <1>1. UNCHANGED sink \/ StartLacksCodecs \/ StartConnects \/ StopTail \/ HttpGet
    <2>1. CASE UNCHANGED vars
      BY <2>1 DEF vars
    <2>2. CASE User
      BY <2>2 DEF User, StartAsserts, StopStream
    <2>3. CASE Stop \/ StopTail \/ Close \/ CloseTail \/ Finish \/ FinishApp \/ FinishCon \/ FinishTail
      BY <2>3 DEF Stop, Close, CloseTail, Finish, HasSession, Goodbyes, FinishApp, FinishCon, FinishTail
    <2>4. CASE \/ Greet \/ GetStatus \/ Query \/ InitConnect \/ InitServe \/ InitLoad
              \/ \E f \in {"launch", "launch_available", "launch_again"} : Launch(f)
      BY <2>4 DEF Greet, GetStatus, Query, InitConnect, InitServe, Forgotten, NoPort, InitLoad, Launch
    <2>5. CASE HandshakeReturns \/ PingFails \/ ReadMessage \/ ReadEnd
      BY <2>5 DEF HandshakeReturns, HandshakeDone, HandshakeFails, HandshakeError, PingFails, ReadMessage, ReadEnd
    <2>6. CASE HttpGet \/ PipelineFails \/ StrayCrash \/ Environment
      BY <2>6 DEF PipelineFails, StrayCrash, Environment, LinkFails, AppChanges, ReceiverSays, Spontaneous
    <2> QED BY <2>1, <2>2, <2>3, <2>4, <2>5, <2>6 DEF Next, Callback
  <1>2. sink \in SinkStates
    BY DEF TypeOK, FlatOK
  <1>3. CASE StartLacksCodecs \/ StartConnects
    <2>1. sink = "disconnected" /\ sink' \in {"wait_socket", "error"}
      BY <1>3 DEF StartLacksCodecs, StartConnects, StartGuard
    <2> QED BY <2>1 DEF Life!Moves, Life!Starts
  <1>4. CASE StopTail
    <2>1. sink' = "disconnected"
      BY <1>4 DEF StopTail
    <2> QED BY <1>2, <2>1 DEF SinkStates, Life!Moves, Life!Stops, Life!LifeStates, Life!Waiting
  <1>5. CASE HttpGet
    <2>1. sink' = "streaming"
      BY <1>5 DEF HttpGet
    <2> QED BY <1>2, <2>1 DEF SinkStates, Life!Moves, Life!Advances, Life!Revives
  <1> QED BY <1>1, <1>3, <1>4, <1>5

\* The Chromecast sink lives the life of NdSink: none of the callbacks that call each
\* other back shows a listener a session that starts in the middle or fails late.
THEOREM SinkImplemented == Spec => ImplementsSink
  <1>1. Init => Life!Init
    BY DEF Init, Life!Init, Life!Kinds
  <1>2. TypeOK /\ [Next]_vars => [Life!Next]_<<"cc", sink, TRUE>>
    BY SinkMoves DEF Life!Next, Life!Lives
  <1> QED BY <1>1, <1>2, TypeCorrect, PTL DEF Spec, ImplementsSink, Life!Spec
-----------------------------------------------------------------------------
(* The calls of a session *)

\* The stacks with f on top of one of these
OnTop(f, S) == {s \in Seq(Frames) : s # <<>> /\ Head(s) = f /\ Tail(s) \in S}

\* A second clean-up waits, or none.
Once == {<<>>, <<"close">>}

\* What stop_stream can be called from, and the rests of the functions it ends in
CloseTails == OnTop("close_tail", Once)
Below == Once \union CloseTails
StopTails == OnTop("stop_tail", Below)
FinishTails == OnTop("finish_tail", StopTails)
FinishCons == OnTop("finish_con", FinishTails)

\* The functions that set the session up
Turns == {"greet", "get_status", "launch", "launch_available", "launch_again", "query",
          "init_connect", "init_serve", "init_load"}

\* The stacks of a program in which no clean-up calls itself again
Chains ==
    Below \union OnTop("close", Once) \union OnTop("stop", Below) \union OnTop("finish", StopTails)
      \union OnTop("finish_app", FinishCons) \union FinishCons \union FinishTails \union StopTails
      \union UNION {OnTop(f, {<<>>}) : f \in Turns}

\* The calls of a session that cannot be ended, which end in themselves
Loop == {"close", "stop", "finish", "finish_app", "finish_con"}

Recursing ==
    /\ link = "down" /\ HasSession /\ sink # "disconnected"
    /\ stack # <<>> /\ Head(stack) \in Loop

\* What frame f relies on when it runs
Relies(f) ==
    /\ f \in Turns => con = "tls"
    /\ f = "greet" => ctrl = DISCONNECTED
    /\ f = "launch" => ctrl \in {DISCONNECTED, CONNECTED}
    /\ f \in {"init_connect", "init_serve", "init_load"} => ctrl = APP_OPEN
    /\ f = "init_load" => Serving
    /\ f \in {"finish", "finish_app", "finish_con"} => sink # "disconnected"
    /\ f \in {"finish_app", "finish_con", "finish_tail"} => HasSession
    /\ f \in {"finish_con", "finish_tail"} => ~ loaded
    /\ f = "stop_tail" => ~ HasSession

\* A session has its connection; the media plays on one that works, in an application
\* that was opened; and once it was to be loaded, it is served.
Linked ==
    /\ HasSession => con = "tls"
    /\ loaded => con = "tls" /\ link = "up" /\ ctrl \in {APP_OPEN, READY, ERROR}
    /\ ctrl = READY => Serving

Running == (stack \in Chains \/ Recursing) /\ (stack # <<>> => Relies(Head(stack)))

SessionInv == Linked /\ (aborted = "no" => Running)

\* A stack overflows only while nothing can be written.
Overflows == MaxStack >= 6 /\ aborted' = "stack" => link' = "down"

LEMMA Pushes ==
    ASSUME NEW t \in Seq(Frames), NEW a \in Frames, NEW b \in Frames, NEW c \in Frames
    PROVE  /\ <<>> \o t = t
           /\ <<a>> \o t \in Seq(Frames) \ {<<>>} /\ Head(<<a>> \o t) = a /\ Tail(<<a>> \o t) = t
           /\ /\ <<a, b>> \o t \in Seq(Frames) \ {<<>>}
              /\ Head(<<a, b>> \o t) = a /\ Tail(<<a, b>> \o t) = <<b>> \o t
           /\ /\ <<a, b, c>> \o t \in Seq(Frames) \ {<<>>}
              /\ Head(<<a, b, c>> \o t) = a /\ Tail(<<a, b, c>> \o t) = <<b, c>> \o t
  <1>1. <<a>> \in Seq(Frames) /\ <<a, b>> \in Seq(Frames) /\ <<b, c>> \in Seq(Frames)
        /\ <<a, b, c>> \in Seq(Frames)
    OBVIOUS
  <1>2. <<>> \o t = t
    OBVIOUS
  <1>3. <<a>> \o t \in Seq(Frames) \ {<<>>} /\ Head(<<a>> \o t) = a /\ Tail(<<a>> \o t) = t
    BY <1>1
  <1>4. /\ <<a, b>> \o t \in Seq(Frames) \ {<<>>}
        /\ Head(<<a, b>> \o t) = a /\ Tail(<<a, b>> \o t) = <<b>> \o t
    BY <1>1
  <1>5. /\ <<a, b, c>> \o t \in Seq(Frames) \ {<<>>}
        /\ Head(<<a, b, c>> \o t) = a /\ Tail(<<a, b, c>> \o t) = <<b, c>> \o t
    BY <1>1
  <1> QED BY <1>2, <1>3, <1>4, <1>5

\* What is called on top of one of these
LEMMA Stacks ==
    \A S, t, a : t \in S /\ t \in Seq(Frames) /\ a \in Frames => <<a>> \o t \in OnTop(a, S)
  BY Pushes DEF OnTop

LEMMA StacksTwo ==
    \A S, t, a, b :
        t \in S /\ t \in Seq(Frames) /\ {a, b} \subseteq Frames => <<a, b>> \o t \in OnTop(a, OnTop(b, S))
  <1> SUFFICES ASSUME NEW S, NEW t, NEW a, NEW b, t \in S, t \in Seq(Frames), {a, b} \subseteq Frames
               PROVE  <<a, b>> \o t \in OnTop(a, OnTop(b, S))
    OBVIOUS
  <1>1. /\ <<a, b>> \o t \in Seq(Frames) \ {<<>>}
        /\ Head(<<a, b>> \o t) = a /\ Tail(<<a, b>> \o t) = <<b>> \o t
    BY Pushes
  <1>2. <<b>> \o t \in OnTop(b, S)
    BY Stacks
  <1> QED BY <1>1, <1>2 DEF OnTop

LEMMA StacksThree ==
    \A S, t, a, b, c :
        t \in S /\ t \in Seq(Frames) /\ {a, b, c} \subseteq Frames
            => <<a, b, c>> \o t \in OnTop(a, OnTop(b, OnTop(c, S)))
  <1> SUFFICES ASSUME NEW S, NEW t, NEW a, NEW b, NEW c, t \in S, t \in Seq(Frames),
                      {a, b, c} \subseteq Frames
               PROVE  <<a, b, c>> \o t \in OnTop(a, OnTop(b, OnTop(c, S)))
    OBVIOUS
  <1>1. /\ <<a, b, c>> \o t \in Seq(Frames) \ {<<>>}
        /\ Head(<<a, b, c>> \o t) = a /\ Tail(<<a, b, c>> \o t) = <<b, c>> \o t
    BY Pushes
  <1>2. <<b, c>> \o t \in OnTop(b, OnTop(c, S))
    BY StacksTwo
  <1> QED BY <1>1, <1>2 DEF OnTop

\* Everything above is a stack of frames, and what is on top tells what is below.
LEMMA ChainTops ==
    ASSUME NEW s \in Chains
    PROVE  /\ s \in Seq(Frames)
           /\ s # <<>> =>
                /\ Head(s) \in {"close", "close_tail"} => Tail(s) \in Once
                /\ Head(s) \in {"stop", "stop_tail"} => Tail(s) \in Below
                /\ Head(s) \in {"finish", "finish_tail"} => Tail(s) \in StopTails
                /\ Head(s) = "finish_con" => Tail(s) \in FinishTails
                /\ Head(s) = "finish_app" => Tail(s) \in FinishCons
                /\ Head(s) \in Turns => Tail(s) = <<>>
  <1>1. \A S, f : \A x \in OnTop(f, S) : x \in Seq(Frames) /\ x # <<>> /\ Head(x) = f /\ Tail(x) \in S
    BY DEF OnTop
  <1>2. \A x \in Once : x \in Seq(Frames) /\ (x # <<>> => Head(x) = "close" /\ Tail(x) \in Once)
    <2>1. <<"close">> \in Seq(Frames) /\ Head(<<"close">>) = "close" /\ Tail(<<"close">>) = <<>>
      BY DEF Frames
    <2>2. <<>> \in Seq(Frames)
      OBVIOUS
    <2> QED BY <2>1, <2>2 DEF Once
  <1>3. CASE s \in Once
    BY <1>2, <1>3 DEF Turns
  <1>4. CASE s \in CloseTails
    BY <1>1, <1>4 DEF CloseTails, Turns
  <1>5. CASE s \in OnTop("close", Once)
    BY <1>1, <1>5 DEF Turns
  <1>6. CASE s \in OnTop("stop", Below) \/ s \in StopTails
    BY <1>1, <1>6 DEF StopTails, Turns
  <1>7. CASE s \in OnTop("finish", StopTails) \/ s \in FinishTails
    BY <1>1, <1>7 DEF FinishTails, Turns
  <1>8. CASE s \in OnTop("finish_app", FinishCons) \/ s \in FinishCons
    BY <1>1, <1>8 DEF FinishCons, Turns
  <1>9. CASE \E f \in Turns : s \in OnTop(f, {<<>>})
    <2>1. PICK f \in Turns : s \in OnTop(f, {<<>>})
      BY <1>9
    <2>2. s \in Seq(Frames) /\ s # <<>> /\ Head(s) = f /\ Tail(s) = <<>>
      BY <1>1, <2>1
    <2> QED BY <2>1, <2>2 DEF Turns
  <1> QED
    BY <1>3, <1>4, <1>5, <1>6, <1>7, <1>8, <1>9 DEF Chains, Below

\* The heads of what is left when a function has returned
LEMMA RestTops ==
    /\ \A s \in Once : s # <<>> => Head(s) = "close"
    /\ \A s \in Below : s # <<>> => Head(s) \in {"close", "close_tail"}
    /\ \A s \in StopTails : s # <<>> /\ Head(s) = "stop_tail"
    /\ \A s \in FinishTails : s # <<>> /\ Head(s) = "finish_tail"
    /\ \A s \in FinishCons : s # <<>> /\ Head(s) = "finish_con"
  <1>1. \A s \in Once : s # <<>> => Head(s) = "close"
    BY DEF Once
  <1> QED BY <1>1 DEF Below, CloseTails, StopTails, FinishTails, FinishCons, OnTop

\* The stacks of at most n frames
Short(n) == {s \in Seq(Frames) : Len(s) \in 0 .. n}

\* No such stack is deeper than six frames.
LEMMA ChainDepth == Chains \subseteq Short(6)
  <1>1. ASSUME NEW S, NEW f, NEW n \in Nat, NEW m \in Nat, m = n + 1, S \subseteq Short(n)
        PROVE  OnTop(f, S) \subseteq Short(m)
    <2> SUFFICES ASSUME NEW x \in OnTop(f, S) PROVE x \in Short(m)
      OBVIOUS
    <2>1. x \in Seq(Frames) /\ x # <<>> /\ Tail(x) \in S
      BY DEF OnTop
    <2>2. Len(Tail(x)) = Len(x) - 1 /\ Len(x) \in Nat
      BY <2>1
    <2>3. Len(Tail(x)) \in 0 .. n
      BY <1>1, <2>1 DEF Short
    <2>4. Len(x) \in 0 .. m
      BY <1>1, <2>2, <2>3
    <2> QED BY <2>1, <2>4 DEF Short
  <1>2. \A S, f :
           /\ S \subseteq Short(0) => OnTop(f, S) \subseteq Short(1)
           /\ S \subseteq Short(1) => OnTop(f, S) \subseteq Short(2)
           /\ S \subseteq Short(2) => OnTop(f, S) \subseteq Short(3)
           /\ S \subseteq Short(3) => OnTop(f, S) \subseteq Short(4)
           /\ S \subseteq Short(4) => OnTop(f, S) \subseteq Short(5)
           /\ S \subseteq Short(5) => OnTop(f, S) \subseteq Short(6)
    <2> TAKE S, f
    <2>1. /\ 1 = 0 + 1 /\ 2 = 1 + 1 /\ 3 = 2 + 1 /\ 4 = 3 + 1 /\ 5 = 4 + 1 /\ 6 = 5 + 1
          /\ {0, 1, 2, 3, 4, 5, 6} \subseteq Nat
      OBVIOUS
    <2>2. S \subseteq Short(0) => OnTop(f, S) \subseteq Short(1)
      BY <1>1, <2>1
    <2>3. S \subseteq Short(1) => OnTop(f, S) \subseteq Short(2)
      BY <1>1, <2>1
    <2>4. S \subseteq Short(2) => OnTop(f, S) \subseteq Short(3)
      BY <1>1, <2>1
    <2>5. S \subseteq Short(3) => OnTop(f, S) \subseteq Short(4)
      BY <1>1, <2>1
    <2>6. S \subseteq Short(4) => OnTop(f, S) \subseteq Short(5)
      BY <1>1, <2>1
    <2>7. S \subseteq Short(5) => OnTop(f, S) \subseteq Short(6)
      BY <1>1, <2>1
    <2> QED BY <2>2, <2>3, <2>4, <2>5, <2>6, <2>7
  <1>3. \A s : /\ s \in Short(0) => s \in Short(6)
               /\ s \in Short(1) => s \in Short(2) /\ s \in Short(6)
               /\ s \in Short(2) \/ s \in Short(3) \/ s \in Short(4) \/ s \in Short(5) => s \in Short(6)
    BY DEF Short
  <1>4. {<<>>} \subseteq Short(0) /\ Once \subseteq Short(1)
    BY DEF Short, Once, Frames
  <1>5. Below \subseteq Short(2)
    BY <1>2, <1>3, <1>4 DEF Below, CloseTails
  <1>6. StopTails \subseteq Short(3)
    BY <1>2, <1>5 DEF StopTails
  <1>7. FinishTails \subseteq Short(4)
    BY <1>2, <1>6 DEF FinishTails
  <1>8. FinishCons \subseteq Short(5)
    BY <1>2, <1>7 DEF FinishCons
  <1>9. /\ OnTop("close", Once) \subseteq Short(2) /\ OnTop("stop", Below) \subseteq Short(3)
        /\ OnTop("finish", StopTails) \subseteq Short(4)
        /\ OnTop("finish_app", FinishCons) \subseteq Short(6)
        /\ \A f \in Turns : OnTop(f, {<<>>}) \subseteq Short(1)
    BY <1>2, <1>4, <1>5, <1>6, <1>8
  <1>10. ASSUME NEW s \in Chains PROVE s \in Short(6)
    <2>1. CASE s \in UNION {OnTop(f, {<<>>}) : f \in Turns}
      BY <1>3, <1>9, <2>1
    <2> QED BY <1>3, <1>5, <1>6, <1>7, <1>8, <1>9, <1>10, <2>1 DEF Chains
  <1> QED BY <1>10

\* A function that returns or calls others on such a stack does not overflow it.
LEMMA ReturnsTo ==
    ASSUME aborted = "no", NEW fs, Return(fs), fs \o Tail(stack) \in Chains
    PROVE  /\ aborted' = "no" => stack' = fs \o Tail(stack) /\ stack' \in Chains
           /\ MaxStack >= 6 => aborted' # "stack"
  <1>1. Len(fs \o Tail(stack)) \in 0 .. 6
    BY ChainDepth DEF Short
  <1>2. MaxStack >= 6 => ~ (Len(fs \o Tail(stack)) > MaxStack)
    <2>1. \A l \in 0 .. 6 : MaxStack >= 6 => ~ (l > MaxStack)
      BY CastAssumption
    <2> QED BY <1>1, <2>1
  <1> QED BY <1>2 DEF Return

\* The first steps of a session that cannot be ended
LEMMA Recurs ==
    ASSUME StackOK, aborted = "no", stack # <<>>, link' = "down", HasSession', sink' # "disconnected",
           NEW fs \in {<<"close">>, <<"stop", "close_tail">>, <<"finish", "stop_tail">>,
                       <<"finish_con", "finish_tail">>, <<"finish_app", "finish_con", "finish_tail">>},
           Return(fs)
    PROVE  aborted' = "no" => Recursing' /\ Head(stack') = Head(fs)
  <1>1. Tail(stack) \in Seq(Frames)
    BY DEF StackOK
  <1>2. PICK h \in Loop : fs \o Tail(stack) \in Seq(Frames) \ {<<>>}
                       /\ Head(fs \o Tail(stack)) = h /\ h = Head(fs)
    <2>1. Loop \subseteq Frames /\ {"close_tail", "stop_tail", "finish_con", "finish_tail"} \subseteq Frames
      BY DEF Loop, Frames
    <2>2. <<>> \in Seq(Frames)
      OBVIOUS
    <2>3. \A a, b, c \in Frames : Head(<<a>>) = a /\ Head(<<a, b>>) = a /\ Head(<<a, b, c>>) = a
      OBVIOUS
    <2>4. \A a, b, c \in Frames :
             /\ <<a>> \o Tail(stack) \in Seq(Frames) \ {<<>>} /\ Head(<<a>> \o Tail(stack)) = a
             /\ <<a, b>> \o Tail(stack) \in Seq(Frames) \ {<<>>} /\ Head(<<a, b>> \o Tail(stack)) = a
             /\ <<a, b, c>> \o Tail(stack) \in Seq(Frames) \ {<<>>} /\ Head(<<a, b, c>> \o Tail(stack)) = a
      BY <1>1, Pushes
    <2>5. CASE fs = <<"close">>
      BY <2>1, <2>2, <2>3, <2>4, <2>5 DEF Loop
    <2>6. CASE fs = <<"stop", "close_tail">>
      BY <2>1, <2>2, <2>3, <2>4, <2>6 DEF Loop
    <2>7. CASE fs = <<"finish", "stop_tail">>
      BY <2>1, <2>2, <2>3, <2>4, <2>7 DEF Loop
    <2>8. CASE fs = <<"finish_con", "finish_tail">>
      BY <2>1, <2>2, <2>3, <2>4, <2>8 DEF Loop
    <2>9. CASE fs = <<"finish_app", "finish_con", "finish_tail">>
      BY <2>1, <2>2, <2>3, <2>4, <2>9 DEF Loop
    <2> QED BY <2>5, <2>6, <2>7, <2>8, <2>9
  <1>3. aborted' = "no" => stack' = fs \o Tail(stack)
    BY DEF Return
  <1> QED BY <1>2, <1>3 DEF Recursing

\* A function that returns to, or calls, what finds what it relies on
LEMMA Comes ==
    ASSUME aborted = "no", NEW fs, Return(fs), NEW t \in Chains, t = fs \o Tail(stack), Linked',
           \A h : t # <<>> /\ h = Head(t) => Relies(h)'
    PROVE  SessionInv' /\ Overflows
  <1>1. /\ aborted' = "no" => stack' = t
        /\ MaxStack >= 6 => aborted' # "stack"
    BY ReturnsTo
  <1>2. ASSUME aborted' = "no", stack' # <<>> PROVE Relies(Head(stack))'
    <2>1. \A h : h = Head(stack') => Relies(h)'
      BY <1>1, <1>2
    <2> QED BY <2>1 DEF Relies
  <1> QED BY <1>1, <1>2 DEF SessionInv, Running, Overflows

LEMMA Loops ==
    ASSUME StackOK, aborted = "no", stack # <<>>, link' = "down", HasSession', sink' # "disconnected",
           NEW fs \in {<<"close">>, <<"stop", "close_tail">>, <<"finish", "stop_tail">>,
                       <<"finish_con", "finish_tail">>, <<"finish_app", "finish_con", "finish_tail">>},
           Return(fs), Linked'
    PROVE  SessionInv' /\ Overflows
  <1>1. aborted' = "no" => Recursing'
    BY Recurs
  <1>2. ASSUME aborted' = "no" PROVE Relies(Head(stack))'
    <2>1. Head(stack') \in Loop /\ ~ loaded' /\ HasSession' /\ sink' # "disconnected"
      BY <1>1, <1>2 DEF Recursing, Linked
    <2>2. ASSUME NEW h \in Loop, h = Head(stack') PROVE Relies(h)'
      BY <2>1, <2>2 DEF Relies, Loop, Turns
    <2> QED BY <2>1, <2>2 DEF Relies
  <1> QED BY <1>1, <1>2 DEF SessionInv, Running, Overflows

\* stop_stream, on its own or called by a clean-up
LEMMA StopSession ==
    ASSUME TypeOK, SessionInv, Stop \/ StopTail
    PROVE  SessionInv' /\ Overflows
  <1> USE DEF comm, media, receiver
  <1>0. /\ aborted = "no" /\ stack # <<>> /\ Running /\ Linked /\ StackOK
        /\ Relies(Head(stack))
    BY PartsOfType DEF SessionInv, Stop, StopTail, At, Running
  <1>1. CASE Stop
    <2>1. /\ UNCHANGED <<sink, ctrl, con, link, current, stray, loaded>> /\ Head(stack) = "stop"
          /\ Return(IF sink = "disconnected" THEN <<>> ELSE <<"finish", "stop_tail">>)
      BY <1>1 DEF Stop, At
    <2>2. Linked'
      BY <1>0, <2>1 DEF Linked, HasSession, Serving
    <2>3. CASE stack \in Chains
      <3>1. Tail(stack) \in Below /\ Tail(stack) \in Seq(Frames)
        BY <1>0, <2>1, <2>3, ChainTops DEF StackOK
      <3>2. CASE sink = "disconnected"
        <4>1. <<>> \o Tail(stack) = Tail(stack)
          BY <3>1
        <4>2. \A h : Tail(stack) # <<>> /\ h = Head(Tail(stack)) => Relies(h)'
          BY <3>1, RestTops DEF Relies, Turns
        <4>3. Tail(stack) \in Chains
          BY <3>1 DEF Chains
        <4> QED BY <1>0, <2>1, <2>2, <3>2, <4>1, <4>2, <4>3, Comes
      <3>3. CASE sink # "disconnected"
        <4> DEFINE t == <<"finish", "stop_tail">> \o Tail(stack)
        <4>1. t \in OnTop("finish", StopTails)
          BY <3>1, StacksTwo DEF StopTails, Frames
        <4>2. \A h : h = Head(t) => Relies(h)'
          BY <2>1, <3>3, <4>1 DEF OnTop, Relies, Turns
        <4>3. t \in Chains
          BY <4>1 DEF Chains
        <4> HIDE DEF t
        <4>4. Return(<<"finish", "stop_tail">>) /\ t = <<"finish", "stop_tail">> \o Tail(stack)
          BY <2>1, <3>3 DEF t
        <4> QED BY <1>0, <2>2, <4>2, <4>3, <4>4, Comes
      <3> QED BY <3>2, <3>3
    <2>4. CASE Recursing
      <3>1. Return(<<"finish", "stop_tail">>) /\ link' = "down" /\ HasSession' /\ sink' # "disconnected"
        BY <2>1, <2>4 DEF Recursing, HasSession
      <3> QED BY <1>0, <2>2, <3>1, Loops
    <2> QED BY <1>0, <2>3, <2>4 DEF Running
  <1>2. CASE StopTail
    <2>1. /\ UNCHANGED <<ctrl, con, link, loaded>> /\ Head(stack) = "stop_tail"
          /\ Return(<<>>)
      BY <1>2 DEF StopTail, At
    <2>2. ~ HasSession
      BY <1>0, <2>1 DEF Relies
    <2>3. Linked'
      BY <1>0, <2>1, <2>2 DEF Linked, HasSession, READY, DISCONNECTED, ERROR
    <2>4. stack \in Chains
      BY <1>0, <2>1 DEF Running, Recursing, Loop
    <2>5. Tail(stack) \in Below /\ Tail(stack) \in Seq(Frames)
      BY <1>0, <2>1, <2>4, ChainTops DEF StackOK
    <2>6. <<>> \o Tail(stack) = Tail(stack) /\ Tail(stack) \in Chains
      BY <2>5 DEF Chains
    <2>7. \A h : Tail(stack) # <<>> /\ h = Head(Tail(stack)) => Relies(h)'
      BY <2>5, RestTops DEF Relies, Turns
    <2> QED BY <1>0, <2>1, <2>3, <2>6, <2>7, Comes
  <1> QED BY <1>1, <1>2

\* cc_ctrl_close_connection
LEMMA CloseSession ==
    ASSUME TypeOK, SessionInv, Close \/ CloseTail
    PROVE  SessionInv' /\ Overflows
  <1> USE DEF comm, media, receiver
  <1>0. /\ aborted = "no" /\ stack # <<>> /\ Running /\ Linked /\ StackOK
        /\ Relies(Head(stack))
    BY PartsOfType DEF SessionInv, Close, CloseTail, At, Running
  <1>1. UNCHANGED <<sink, con, link, current, stray, loaded>>
    BY DEF Close, CloseTail
  <1>2. CASE Close
    <2>1. /\ UNCHANGED ctrl /\ Head(stack) = "close"
          /\ Return(IF ctrl = ERROR THEN <<>> ELSE <<"stop", "close_tail">>)
      BY <1>2 DEF Close, At
    <2>2. Linked'
      BY <1>0, <1>1, <2>1 DEF Linked, HasSession, Serving
    <2>3. CASE stack \in Chains
      <3>1. Tail(stack) \in Once /\ Tail(stack) \in Seq(Frames)
        BY <1>0, <2>1, <2>3, ChainTops DEF StackOK
      <3>2. CASE ctrl = ERROR
        <4>1. <<>> \o Tail(stack) = Tail(stack)
          BY <3>1
        <4>2. \A h : Tail(stack) # <<>> /\ h = Head(Tail(stack)) => Relies(h)'
          BY <3>1, RestTops DEF Relies, Turns
        <4>3. Tail(stack) \in Chains
          BY <3>1 DEF Chains, Below
        <4> QED BY <1>0, <2>1, <2>2, <3>2, <4>1, <4>2, <4>3, Comes
      <3>3. CASE ctrl # ERROR
        <4> DEFINE t == <<"stop", "close_tail">> \o Tail(stack)
        <4>1. t \in OnTop("stop", CloseTails)
          BY <3>1, StacksTwo DEF CloseTails, Frames
        <4>2. \A h : h = Head(t) => Relies(h)'
          BY <4>1 DEF OnTop, Relies, Turns
        <4>3. t \in Chains
          BY <4>1 DEF Chains, Below, OnTop
        <4> HIDE DEF t
        <4>4. Return(<<"stop", "close_tail">>) /\ t = <<"stop", "close_tail">> \o Tail(stack)
          BY <2>1, <3>3 DEF t
        <4> QED BY <1>0, <2>2, <4>2, <4>3, <4>4, Comes
      <3> QED BY <3>2, <3>3
    <2>4. CASE Recursing
      <3>1. /\ Return(<<"stop", "close_tail">>) /\ link' = "down" /\ HasSession'
            /\ sink' # "disconnected"
        BY <1>1, <2>1, <2>4 DEF Recursing, HasSession
      <3> QED BY <1>0, <2>2, <3>1, Loops
    <2> QED BY <1>0, <2>3, <2>4 DEF Running
  <1>3. CASE CloseTail
    <2>1. ctrl' = ERROR /\ Head(stack) = "close_tail" /\ Return(<<>>)
      BY <1>3 DEF CloseTail, At
    <2>2. Linked'
      BY <1>0, <1>1, <2>1 DEF Linked, HasSession, READY, ERROR
    <2>3. stack \in Chains
      BY <1>0, <2>1 DEF Running, Recursing, Loop
    <2>4. Tail(stack) \in Once /\ Tail(stack) \in Seq(Frames)
      BY <1>0, <2>1, <2>3, ChainTops DEF StackOK
    <2>5. <<>> \o Tail(stack) = Tail(stack) /\ Tail(stack) \in Chains
      BY <2>4 DEF Chains, Below
    <2>6. \A h : Tail(stack) # <<>> /\ h = Head(Tail(stack)) => Relies(h)'
      BY <2>4, RestTops DEF Relies, Turns
    <2> QED BY <1>0, <2>1, <2>2, <2>5, <2>6, Comes
  <1> QED BY <1>2, <1>3

\* cc_ctrl_finish: the session is told good-bye while it can be written to.
LEMMA FinishSession ==
    ASSUME TypeOK, SessionInv, Finish \/ FinishApp \/ FinishCon \/ FinishTail
    PROVE  SessionInv' /\ Overflows
  <1> USE DEF comm, media, receiver
  <1>0. /\ aborted = "no" /\ stack # <<>> /\ Running /\ Linked /\ StackOK
        /\ Relies(Head(stack)) /\ FlatOK
    BY PartsOfType DEF SessionInv, Finish, FinishApp, FinishCon, FinishTail, At, Running
  <1>1. CASE Finish
    <2>1. /\ UNCHANGED <<sink, ctrl, con, link, current, stray, loaded>> /\ Head(stack) = "finish"
          /\ Return(IF HasSession THEN Goodbyes ELSE <<>>) /\ sink # "disconnected"
      BY <1>0, <1>1 DEF Finish, At, Relies
    <2>2. Linked'
      BY <1>0, <2>1 DEF Linked, HasSession, Serving
    <2>3. CASE stack \in Chains
      <3>1. Tail(stack) \in StopTails /\ Tail(stack) \in Seq(Frames)
        BY <1>0, <2>1, <2>3, ChainTops DEF StackOK
      <3>2. CASE ~ HasSession
        <4>1. <<>> \o Tail(stack) = Tail(stack)
          BY <3>1
        <4>2. \A h : Tail(stack) # <<>> /\ h = Head(Tail(stack)) => Relies(h)'
          BY <2>1, <3>1, <3>2, RestTops DEF Relies, Turns, HasSession
        <4>3. Tail(stack) \in Chains
          BY <3>1 DEF Chains
        <4> QED BY <1>0, <2>1, <2>2, <3>2, <4>1, <4>2, <4>3, Comes
      <3>3. CASE HasSession /\ ctrl >= APP_OPEN
        <4> DEFINE t == <<"finish_app", "finish_con", "finish_tail">> \o Tail(stack)
        <4>1. t \in OnTop("finish_app", FinishCons)
          BY <3>1, StacksThree DEF FinishCons, FinishTails, Frames
        <4>2. \A h : h = Head(t) => Relies(h)'
          BY <2>1, <3>3, <4>1 DEF OnTop, Relies, Turns, HasSession
        <4>3. t \in Chains
          BY <4>1 DEF Chains
        <4> HIDE DEF t
        <4>4. /\ Return(<<"finish_app", "finish_con", "finish_tail">>)
              /\ t = <<"finish_app", "finish_con", "finish_tail">> \o Tail(stack)
          BY <2>1, <3>3 DEF t, Goodbyes
        <4> QED BY <1>0, <2>2, <4>2, <4>3, <4>4, Comes
      <3>4. CASE HasSession /\ ~ (ctrl >= APP_OPEN)
        <4> DEFINE t == <<"finish_con", "finish_tail">> \o Tail(stack)
        <4>1. t \in OnTop("finish_con", FinishTails)
          BY <3>1, StacksTwo DEF FinishTails, Frames
        <4>2. ~ loaded
          BY <1>0, <3>4 DEF Linked, APP_OPEN, READY, ERROR
        <4>3. \A h : h = Head(t) => Relies(h)'
          BY <2>1, <3>4, <4>1, <4>2 DEF OnTop, Relies, Turns, HasSession
        <4>4. t \in Chains
          BY <4>1 DEF Chains, FinishCons
        <4> HIDE DEF t
        <4>5. Return(<<"finish_con", "finish_tail">>) /\ t = <<"finish_con", "finish_tail">> \o Tail(stack)
          BY <2>1, <3>4 DEF t, Goodbyes
        <4> QED BY <1>0, <2>2, <4>3, <4>4, <4>5, Comes
      <3> QED BY <3>2, <3>3, <3>4
    <2>4. CASE Recursing
      <3>1. Return(Goodbyes) /\ link' = "down" /\ HasSession' /\ sink' # "disconnected"
        BY <2>1, <2>4 DEF Recursing, HasSession
      <3>2. Goodbyes \in {<<"finish_con", "finish_tail">>, <<"finish_app", "finish_con", "finish_tail">>}
        BY DEF Goodbyes
      <3> QED BY <1>0, <2>2, <3>1, <3>2, Loops
    <2> QED BY <1>0, <2>3, <2>4 DEF Running
  <1>2. CASE (FinishApp \/ FinishCon) /\ ~ CanSend
    <2>1. /\ UNCHANGED <<sink, ctrl, con, link, current, stray, loaded>>
          /\ Return(<<"close">>) /\ Head(stack) \in {"finish_app", "finish_con"}
      BY <1>2 DEF FinishApp, FinishCon, At
    <2>2. HasSession /\ sink # "disconnected" /\ link = "down"
      BY <1>0, <1>2, <2>1 DEF Relies, Linked, CanSend, FlatOK
    <2>3. Linked' /\ HasSession' /\ link' = "down" /\ sink' # "disconnected"
      BY <1>0, <2>1, <2>2 DEF Linked, HasSession, Serving
    <2> QED BY <1>0, <2>1, <2>3, Loops
  <1>3. CASE (FinishApp \/ FinishCon) /\ CanSend
    <2>1. /\ UNCHANGED <<sink, ctrl, con, link, current, stray>> /\ (loaded' => loaded)
          /\ Return(<<>>) /\ Head(stack) \in {"finish_app", "finish_con"}
      BY <1>0, <1>3 DEF FinishApp, FinishCon, At, FlatOK
    <2>2. ~ loaded'
      <3>1. CASE FinishApp
        BY <1>3, <3>1 DEF FinishApp
      <3>2. CASE FinishCon
        BY <1>0, <3>2 DEF FinishCon, At, Relies
      <3> QED BY <1>3, <3>1, <3>2
    <2>3. Linked'
      BY <1>0, <2>1, <2>2 DEF Linked, HasSession, Serving
    <2>4. stack \in Chains
      BY <1>0, <1>3 DEF Running, Recursing, CanSend
    <2>5. /\ Tail(stack) \in FinishCons \/ Tail(stack) \in FinishTails
          /\ Tail(stack) \in Seq(Frames)
      BY <1>0, <2>1, <2>4, ChainTops DEF StackOK
    <2>6. <<>> \o Tail(stack) = Tail(stack) /\ Tail(stack) \in Chains
      BY <2>5 DEF Chains
    <2>7. HasSession' /\ sink' # "disconnected"
      BY <1>0, <2>1 DEF Relies, HasSession
    <2>8. \A h : Tail(stack) # <<>> /\ h = Head(Tail(stack)) => Relies(h)'
      BY <2>2, <2>5, <2>7, RestTops DEF Relies, Turns
    <2> QED BY <1>0, <2>1, <2>3, <2>6, <2>8, Comes
  <1>4. CASE FinishTail
    <2>1. /\ UNCHANGED <<sink, link, current, stray, loaded>> /\ Head(stack) = "finish_tail"
          /\ con' = "none" /\ ctrl' = DISCONNECTED /\ Return(<<>>) /\ ~ loaded
      BY <1>0, <1>4 DEF FinishTail, At, Relies
    <2>2. Linked' /\ ~ HasSession'
      BY <1>0, <2>1 DEF Linked, HasSession, READY, DISCONNECTED
    <2>3. stack \in Chains
      BY <1>0, <2>1 DEF Running, Recursing, Loop
    <2>4. Tail(stack) \in StopTails /\ Tail(stack) \in Seq(Frames)
      BY <1>0, <2>1, <2>3, ChainTops DEF StackOK
    <2>5. <<>> \o Tail(stack) = Tail(stack) /\ Tail(stack) \in Chains
      BY <2>4 DEF Chains
    <2>6. \A h : Tail(stack) # <<>> /\ h = Head(Tail(stack)) => Relies(h)'
      BY <2>2, <2>4, RestTops DEF Relies, Turns
    <2> QED BY <1>0, <2>1, <2>2, <2>5, <2>6, Comes
  <1> QED BY <1>1, <1>2, <1>3, <1>4

\* The functions that set the session up have nothing below them.
LEMMA TurnCalls ==
    ASSUME TypeOK, aborted = "no", stack # <<>>, stack \in Chains, Head(stack) \in Turns,
           NEW fs \in {<<>>, <<"get_status">>, <<"init_serve">>, <<"init_load">>, <<"close">>,
                       <<"close", "close">>, <<"stop", "close">>},
           Return(fs), Linked',
           fs = <<"get_status">> => con' = "tls",
           fs = <<"init_serve">> => con' = "tls" /\ ctrl' = APP_OPEN,
           fs = <<"init_load">> => con' = "tls" /\ ctrl' = APP_OPEN /\ Serving'
    PROVE  SessionInv' /\ Overflows
  <1>1. Tail(stack) = <<>>
    BY ChainTops
  <1>2. /\ {<<>>} \subseteq Seq(Frames) /\ <<"close">> \in Once /\ <<>> \in Once
        /\ {"get_status", "init_serve", "init_load", "close", "stop"} \subseteq Frames
    BY DEF Once, Frames
  <1>3. \A f \in Frames : <<f>> \o <<>> \in OnTop(f, {<<>>}) /\ <<f>> \o <<>> \in OnTop(f, Once)
    BY <1>2, Stacks
  <1>4. \A S, f : \A s \in OnTop(f, S) : s # <<>> /\ Head(s) = f
    BY DEF OnTop
  <1>5. <<>> \o <<>> = <<>> /\ <<>> \in Chains
    BY <1>2 DEF Chains, Below
  <1>6. CASE fs = <<>>
    BY <1>1, <1>5, <1>6, Comes
  <1>7. CASE fs \in {<<"get_status">>, <<"init_serve">>, <<"init_load">>}
    <2>1. PICK f \in {"get_status", "init_serve", "init_load"} : fs = <<f>>
      BY <1>7
    <2> DEFINE t == fs \o <<>>
    <2>2. t \in OnTop(f, {<<>>}) /\ f \in Turns
      BY <1>2, <1>3, <2>1 DEF Turns
    <2>3. t \in Chains
      BY <2>2 DEF Chains
    <2>4. Head(t) = f
      BY <1>4, <2>2
    <2>5. Relies(f)'
      BY <2>1 DEF Relies
    <2> HIDE DEF t
    <2>6. t = fs \o Tail(stack)
      BY <1>1 DEF t
    <2> QED BY <2>3, <2>4, <2>5, <2>6, Comes
  <1>8. CASE fs = <<"close">>
    <2> DEFINE t == fs \o <<>>
    <2>1. t \in OnTop("close", Once)
      BY <1>2, <1>3, <1>8
    <2>2. t \in Chains /\ Head(t) = "close"
      BY <1>4, <2>1 DEF Chains
    <2> HIDE DEF t
    <2>3. t = fs \o Tail(stack)
      BY <1>1 DEF t
    <2>4. Relies("close")'
      BY DEF Relies, Turns
    <2> QED BY <2>2, <2>3, <2>4, Comes
  <1>9. CASE fs \in {<<"close", "close">>, <<"stop", "close">>}
    <2>1. PICK f \in {"close", "stop"} : fs = <<f, "close">>
      BY <1>9
    <2> DEFINE t == fs \o <<>>
    <2>2. t \in Seq(Frames) \ {<<>>} /\ Head(t) = f /\ Tail(t) = <<"close">> \o <<>>
      BY <1>2, <2>1, Pushes
    <2>3. <<"close">> \o <<>> = <<"close">>
      BY <1>2
    <2>4. t \in OnTop(f, Once)
      BY <1>2, <2>2, <2>3 DEF OnTop
    <2>5. t \in Chains
      BY <2>4 DEF Chains, Below, OnTop
    <2> HIDE DEF t
    <2>6. t = fs \o Tail(stack)
      BY <1>1 DEF t
    <2>7. Relies(f)'
      BY <2>1 DEF Relies, Turns
    <2> QED BY <2>2, <2>5, <2>6, <2>7, Comes
  <1> QED BY <1>6, <1>7, <1>8, <1>9

LEMMA SetUpSession ==
    ASSUME TypeOK, SessionInv, \/ Greet \/ GetStatus \/ Query
                               \/ InitConnect \/ InitServe \/ InitLoad
                               \/ \E f \in {"launch", "launch_available", "launch_again"} : Launch(f)
    PROVE  SessionInv' /\ Overflows
  <1> USE DEF comm, media, receiver
  <1>1. aborted = "no" /\ stack # <<>> /\ Head(stack) \in Turns
    BY DEF Greet, GetStatus, Query, InitConnect, InitServe, InitLoad, Launch, At, Turns
  <1>2. Linked /\ Relies(Head(stack)) /\ con = "tls" /\ FlatOK
    BY <1>1, PartsOfType DEF SessionInv, Running, Relies
  <1>3. stack \in Chains
    BY <1>1 DEF SessionInv, Running, Recursing, Loop, Turns
  <1>4. CASE Greet
    <2>1. ctrl = DISCONNECTED /\ UNCHANGED <<con, link, current, stray, loaded>>
      BY <1>2, <1>4 DEF Greet, At, Relies
    <2>2. ~ loaded
      BY <1>2, <2>1 DEF Linked, DISCONNECTED, APP_OPEN, READY, ERROR
    <2>3. ctrl' \in {CONNECTED, DISCONNECTED}
      BY <1>4, <2>1 DEF Greet
    <2>4. Linked'
      <3>1. ctrl' # READY
        BY <2>3 DEF CONNECTED, DISCONNECTED, READY
      <3>2. con' = "tls" /\ ~ loaded'
        BY <1>2, <2>1, <2>2
      <3> QED BY <3>1, <3>2 DEF Linked
    <2>5. \E fs \in {<<"get_status">>, <<"close">>} : Return(fs)
      BY <1>4 DEF Greet
    <2> QED BY <1>1, <1>2, <1>3, <2>1, <2>4, <2>5, TurnCalls
  <1>5. CASE GetStatus \/ Query \/ InitConnect
    <2>1. UNCHANGED <<con, link, ctrl, current, stray, loaded>>
      BY <1>5 DEF GetStatus, Query, InitConnect
    <2>2. Linked'
      BY <1>2, <2>1 DEF Linked, HasSession, Serving
    <2>3. CASE GetStatus \/ Query
      <3>1. Return(<<>>) \/ Return(<<"close">>)
        BY <2>3 DEF GetStatus, Query
      <3> QED BY <1>1, <1>3, <2>2, <3>1, TurnCalls
    <2>4. CASE InitConnect
      <3>1. ctrl = APP_OPEN /\ (Return(<<"init_serve">>) \/ Return(<<"close", "close">>))
        BY <1>2, <2>4 DEF InitConnect, At, Relies
      <3> QED BY <1>1, <1>2, <1>3, <2>1, <2>2, <3>1, TurnCalls
    <2> QED BY <1>5, <2>3, <2>4
  <1>6. CASE InitServe
    <2>1. ctrl = APP_OPEN /\ UNCHANGED <<con, link, ctrl, loaded>>
      BY <1>2, <1>6 DEF InitServe, At, Relies
    <2>2. Linked'
      BY <1>2, <2>1 DEF Linked, HasSession, APP_OPEN, READY
    <2>3. \/ Return(<<"init_load">>) /\ Serving'
          \/ Return(<<"stop", "close">>)
          \/ Return(<<"close">>)
      <3>1. http \in {"none", "created"}
        BY <1>2 DEF FlatOK
      <3> QED BY <1>6, <3>1 DEF InitServe, Forgotten, NoPort, Serving
    <2> QED BY <1>1, <1>2, <1>3, <2>1, <2>2, <2>3, TurnCalls
  <1>7. CASE InitLoad
    <2>1. ctrl = APP_OPEN /\ Serving /\ UNCHANGED <<con, link, current, stray>>
      BY <1>2, <1>7 DEF InitLoad, At, Relies
    <2>2. Linked'
      <3>1. CASE CanSend
        BY <1>2, <1>7, <2>1, <3>1 DEF InitLoad, CanSend, Linked, Serving
      <3>2. CASE ~ CanSend
        BY <1>2, <1>7, <2>1, <3>2 DEF InitLoad, Linked, HasSession, Serving
      <3> QED BY <3>1, <3>2
    <2>3. Return(<<>>) \/ Return(<<"close", "close">>)
      BY <1>7 DEF InitLoad
    <2> QED BY <1>1, <1>3, <2>2, <2>3, TurnCalls
  <1>8. ASSUME NEW f \in {"launch", "launch_available", "launch_again"}, Launch(f)
        PROVE  SessionInv' /\ Overflows
    <2>1. UNCHANGED <<con, link, current, stray>> /\ (loaded' = loaded \/ ~ loaded')
      BY <1>8 DEF Launch
    <2>2. \/ ctrl' = ctrl
          \/ ctrl' = LAUNCH_SENT /\ ctrl \in {DISCONNECTED, CONNECTED}
      BY <1>2, <1>8 DEF Launch, At, Relies
    <2>3. Linked'
      <3>1. CASE ctrl' = ctrl /\ loaded' = loaded
        BY <1>2, <2>1, <3>1 DEF Linked, HasSession, Serving
      <3>2. CASE ctrl' = ctrl /\ ~ loaded'
        BY <1>2, <2>1, <3>2 DEF Linked, HasSession, Serving
      <3>3. CASE ctrl' = LAUNCH_SENT /\ ctrl \in {DISCONNECTED, CONNECTED}
        <4>1. ~ loaded
          BY <1>2, <3>3 DEF Linked, DISCONNECTED, CONNECTED, APP_OPEN, READY, ERROR
        <4>2. ctrl' # READY
          BY <3>3 DEF LAUNCH_SENT, READY
        <4>3. con' = "tls" /\ ~ loaded'
          BY <1>2, <2>1, <4>1
        <4> QED BY <4>2, <4>3 DEF Linked
      <3> QED BY <2>1, <2>2, <3>1, <3>2, <3>3
    <2>4. \E fs \in {<<>>, <<"close">>, <<"close", "close">>} : Return(fs)
      BY <1>8 DEF Launch
    <2> QED BY <1>1, <1>3, <2>3, <2>4, TurnCalls
  <1> QED BY <1>4, <1>5, <1>6, <1>7, <1>8

\* An event finds the main loop free, or does not touch the stack.
LEMMA StartsOn ==
    ASSUME NEW f \in {"stop", "close"} \union Turns, stack' = <<f>>, Linked', Relies(f)'
    PROVE  SessionInv'
  <1>1. f \in Frames /\ <<f>> \in Seq(Frames) \ {<<>>} /\ Head(<<f>>) = f /\ Tail(<<f>>) = <<>>
    BY DEF Frames, Turns
  <1>2. <<f>> \in OnTop(f, {<<>>}) /\ <<f>> \in OnTop(f, Below) /\ <<f>> \in OnTop(f, Once)
    BY <1>1 DEF OnTop, Below, Once
  <1>3. <<f>> \in Chains
    BY <1>2 DEF Chains
  <1> QED BY <1>1, <1>3 DEF SessionInv, Running, Relies

LEMMA EventSession ==
    ASSUME TypeOK, LifeInv, SessionInv,
           \/ User \/ HandshakeReturns \/ PingFails \/ ReadMessage \/ ReadEnd
           \/ HttpGet \/ PipelineFails \/ StrayCrash \/ Environment
    PROVE  SessionInv' /\ Overflows
  <1> USE DEF comm, media, receiver
  <1>0. aborted = "no" /\ Linked /\ Running /\ FlatOK
    BY PartsOfType
       DEF SessionInv, User, StartAsserts, StartLacksCodecs, StartConnects, StartGuard, StopStream,
           HandshakeReturns, HandshakeDone, HandshakeFails, PingFails, ReadMessage, ReadEnd, HttpGet,
           PipelineFails, StrayCrash, Environment, LinkFails, AppChanges, ReceiverSays, Spontaneous,
           MainLoop
  <1>1. aborted' # "stack"
    BY <1>0 DEF User, StartAsserts, Leftover, StartLacksCodecs, StartConnects, StartGuard, StopStream, Call,
           HandshakeReturns, HandshakeDone, HandshakeFails, HandshakeError, PingFails, ReadMessage, ReadEnd,
           HttpGet, PipelineFails, StrayCrash, Environment, LinkFails, AppChanges, ReceiverSays, Spontaneous
  <1> SUFFICES SessionInv'
    BY <1>1 DEF Overflows
  <1>2. <<>> \in Chains
    BY DEF Chains, Below, Once
  <1>3. CASE StartAsserts \/ StrayCrash
    <2>1. UNCHANGED <<ctrl, con, link, current, stray, loaded>> /\ aborted' # "no"
      BY <1>3 DEF StartAsserts, StrayCrash
    <2>2. Linked'
      BY <1>0, <2>1 DEF Linked, HasSession, Serving
    <2> QED BY <2>1, <2>2 DEF SessionInv
  <1>4. CASE StartLacksCodecs \/ StartConnects \/ ReadEnd \/ HttpGet
    <2>1. stack' = <<>>
      BY <1>4 DEF StartLacksCodecs, StartConnects, StartGuard, ReadEnd, HttpGet, MainLoop
    <2>2. Linked'
      <3>1. CASE StartConnects
        <4>1. con = "none" /\ ctrl' = DISCONNECTED /\ loaded' = loaded
          BY <3>1 DEF StartConnects, Leftover
        <4> QED BY <1>0, <4>1 DEF Linked, HasSession, DISCONNECTED, READY
      <3>2. CASE StartLacksCodecs \/ ReadEnd \/ HttpGet
        BY <1>0, <3>2 DEF StartLacksCodecs, ReadEnd, HttpGet, Linked, HasSession, Serving
      <3> QED BY <1>4, <3>1, <3>2
    <2> QED BY <1>2, <2>1, <2>2 DEF SessionInv, Running
  <1>5. CASE StopStream \/ PipelineFails \/ HandshakeFails \/ PingFails
    <2>1. /\ UNCHANGED <<ctrl, con, link, current, stray, loaded>>
          /\ stack' = <<"stop">> \/ stack' = <<"close">>
      BY <1>5 DEF StopStream, PipelineFails, HandshakeFails, HandshakeError, PingFails, Call
    <2>2. Linked' /\ Relies("stop")' /\ Relies("close")'
      BY <1>0, <2>1 DEF Linked, HasSession, Serving, Relies, Turns
    <2> QED BY <2>1, <2>2, StartsOn
  <1>6. CASE HandshakeDone
    <2>1. /\ UNCHANGED <<ctrl, con, link, current, stray, loaded>>
          /\ stack' = <<"greet">> /\ con = "tls" /\ ctrl = DISCONNECTED
      BY <1>6 DEF HandshakeDone, Call, LifeInv
    <2>2. Linked' /\ Relies("greet")'
      BY <1>0, <2>1 DEF Linked, HasSession, Serving, Relies
    <2> QED BY <2>1, <2>2, StartsOn DEF Turns
  <1>7. CASE ReadMessage
    <2>1. /\ UNCHANGED <<con, link, current, stray, loaded>> /\ con = "tls"
          /\ stack' = Handler(Head(inbox))
          /\ ctrl' = IF Head(inbox) = "ours" THEN APP_OPEN ELSE ctrl
      BY <1>7 DEF ReadMessage, LifeInv, SourcesConnected
    <2>2. Linked'
      BY <1>0, <2>1 DEF Linked, HasSession, Serving, APP_OPEN, READY
    <2>3. Head(inbox) \in Messages
      BY <1>7, PartsOfType DEF ReadMessage, InboxOK
    <2>4. CASE stack' = <<>>
      BY <1>2, <2>2, <2>4 DEF SessionInv, Running
    <2>5. CASE Head(inbox) = "none" /\ ~ (ctrl >= LAUNCH_SENT)
      <3>1. stack' = <<"launch">> /\ ctrl' = ctrl
        BY <2>1, <2>5 DEF Handler
      <3>2. ctrl \in {DISCONNECTED, CONNECTED}
        BY <1>0, <2>5 DEF FlatOK, CtrlStates, LAUNCH_SENT, DISCONNECTED, CONNECTED
      <3>3. Relies("launch")'
        BY <2>1, <3>1, <3>2 DEF Relies
      <3> QED BY <2>2, <3>1, <3>3, StartsOn DEF Turns
    <2>6. CASE Head(inbox) = "ours"
      <3>1. stack' = <<"init_connect">> /\ ctrl' = APP_OPEN
        BY <2>1, <2>6 DEF Handler
      <3>2. Relies("init_connect")'
        BY <2>1, <3>1 DEF Relies
      <3> QED BY <2>2, <3>1, <3>2, StartsOn DEF Turns
    <2>7. CASE Head(inbox) \in Messages \ {"none", "ours"}
      <3>1. \E f \in {"query", "launch_available", "launch_again", "close"} : stack' = <<f>>
        BY <2>1, <2>7 DEF Handler, Messages, Apps
      <3>2. \A f \in {"query", "launch_available", "launch_again", "close"} : Relies(f)'
        BY <2>1 DEF Relies
      <3> QED BY <2>2, <3>1, <3>2, StartsOn DEF Turns
    <2>8. Head(inbox) = "none" /\ ctrl >= LAUNCH_SENT => stack' = <<>>
      BY <2>1 DEF Handler
    <2> QED BY <2>3, <2>4, <2>5, <2>6, <2>7, <2>8
  <1>8. CASE Environment
    <2>1. UNCHANGED <<sink, ctrl, con, current, stray, stack, aborted>> /\ link = "up"
      BY <1>8 DEF Environment, LinkFails, AppChanges, ReceiverSays, Spontaneous, CanSend
    <2>2. loaded' = FALSE \/ (loaded' = loaded /\ link' = link)
      BY <1>8 DEF Environment, LinkFails, AppChanges, ReceiverSays, Spontaneous
    <2>3. Linked'
      BY <1>0, <2>1, <2>2 DEF Linked, HasSession, Serving
    <2>4. stack \in Chains
      BY <1>0, <2>1 DEF Running, Recursing
    <2>5. stack' # <<>> => Relies(Head(stack))'
      BY <1>0, <2>1, <2>2 DEF Running, Relies, HasSession, Serving
    <2> QED BY <2>1, <2>3, <2>4, <2>5 DEF SessionInv, Running
  <1> QED BY <1>3, <1>4, <1>5, <1>6, <1>7, <1>8 DEF User, HandshakeReturns

LEMMA SessionStep ==
    ASSUME TypeOK, LifeInv, SessionInv, [Next]_vars
    PROVE  SessionInv' /\ (aborted' = aborted \/ Overflows)
  <1>1. CASE UNCHANGED vars
    BY <1>1 DEF vars, comm, media, receiver, SessionInv, Linked, Running, Recursing, Relies, HasSession, Serving
  <1> QED
    BY <1>1, StopSession, CloseSession, FinishSession, SetUpSession, EventSession DEF Next, Callback

\* The invariants that the session rests on, for every number of calls and changes
LEMMA SessionHolds == Spec => [](TypeOK /\ LifeInv /\ SessionInv)
  <1>1. Init => SessionInv
    BY DEF Init, SessionInv, Linked, Running, HasSession, READY, DISCONNECTED, Chains, Below, Once
  <1>2. Init => LifeInv
    BY DEF Init, LifeInv, SourcesConnected, Waiting
  <1>3. TypeOK /\ LifeInv /\ [Next]_vars => LifeInv'
    <2>1. ASSUME LifeInv, UNCHANGED vars PROVE LifeInv'
      BY <2>1 DEF vars, comm, media, LifeInv, SourcesConnected, Waiting
    <2> QED BY <2>1, EndingLife, RunningLife, EventLife DEF Next, Callback
  <1>4. TypeOK /\ LifeInv /\ SessionInv /\ [Next]_vars => SessionInv'
    BY SessionStep
  <1> QED BY <1>1, <1>2, <1>3, <1>4, TypeCorrect, PTL DEF Spec

\* A function that is about to write finds the TLS connection in place, after whatever
\* clean-up the functions it called before went through.
THEOREM SendersAlwaysConnected == Spec => []SendersConnected
  <1>1. SessionInv => SendersConnected
    BY DEF SessionInv, Running, Relies, Linked, SendersConnected, Senders, Turns
  <1> QED BY <1>1, SessionHolds, PTL

\* From the LOAD of the receiver on a media server is up until the session ends.
THEOREM AlwaysServed == Spec => []LoadedServed
  <1>1. SessionInv => LoadedServed
    BY DEF SessionInv, Linked, LoadedServed
  <1> QED BY <1>1, SessionHolds, PTL

\* A connection is closed only after the receiver was told to stop the media.
THEOREM NothingPlaysOn == Spec => []NothingLeftPlaying
  <1>1. SessionInv => NothingLeftPlaying
    BY DEF SessionInv, Linked, NothingLeftPlaying
  <1> QED BY <1>1, SessionHolds, PTL

\* With room for six frames, which is what a session takes in which nothing fails, the
\* functions that end a session do not use up the stack while it can be written to:
\* whatever nests, returns.
THEOREM OnlyDeadLinksRecurse == MaxStack >= 6 => (Spec => []RecursionNeedsDeadLink)
  <1> SUFFICES ASSUME MaxStack >= 6 PROVE Spec => []RecursionNeedsDeadLink
    OBVIOUS
  <1>1. Init => RecursionNeedsDeadLink
    BY DEF Init, RecursionNeedsDeadLink
  <1>2. TypeOK /\ LifeInv /\ SessionInv /\ RecursionNeedsDeadLink /\ [Next]_vars => RecursionNeedsDeadLink'
    <2> SUFFICES ASSUME TypeOK, LifeInv, SessionInv, RecursionNeedsDeadLink, [Next]_vars, aborted' = "stack"
                 PROVE  link' = "down"
      BY DEF RecursionNeedsDeadLink
    <2>1. CASE aborted = "stack"
      <3>1. UNCHANGED vars
        BY <2>1 DEF Next, User, StartAsserts, StartLacksCodecs, StartConnects, StartGuard, StopStream,
             MainLoop, Callback, Stop, StopTail, Close, CloseTail, Finish, FinishApp, FinishCon, FinishTail,
             Greet, GetStatus, Query, Launch, InitConnect, InitServe, InitLoad, At, HandshakeReturns,
             HandshakeDone, HandshakeFails, PingFails, ReadMessage, ReadEnd, HttpGet, PipelineFails,
             StrayCrash, Environment, LinkFails, AppChanges, ReceiverSays, Spontaneous
      <3> QED BY <2>1, <3>1 DEF RecursionNeedsDeadLink, vars, comm
    <2>2. CASE aborted # "stack"
      BY <2>2, SessionStep DEF Overflows
    <2> QED BY <2>1, <2>2
  <1> QED BY <1>1, <1>2, SessionHolds, PTL DEF Spec
=============================================================================
