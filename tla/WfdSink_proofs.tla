--------------------------- MODULE WfdSink_proofs ---------------------------
(***************************************************************************)
(* A Miracast session leaves nothing behind and rests on what it needs, as *)
(* long as the handlers of the two threads do not overlap.                 *)
(***************************************************************************)
EXTENDS WfdSink, SequenceTheorems, TLAPS

Calls == firewall \in Nat /\ activation \in Nat /\ firewall + activation =< MaxLive

Flags ==
    /\ link \in BOOLEAN /\ server \in BOOLEAN /\ attached \in BOOLEAN
    /\ listening \in BOOLEAN /\ client \in BOOLEAN /\ tv \in BOOLEAN /\ orphan \in BOOLEAN
    /\ overlapped \in BOOLEAN

TodoOK == todo \in [Threads -> Seq(Frames)]

TypeInv ==
    /\ kind \in {"p2p", "mice"} /\ state \in States /\ Calls /\ Flags /\ TodoOK
    /\ aborted \in {"no", "server", "race"}

\* Every sequence a handler goes on with is one of frames.
LEMMA StopFrames ==
    ASSUME NEW final \in States
    PROVE  StopThen(final) \in Seq(Frames) /\ <<final>> \in Seq(Frames)
  <1>1. \A a \in {"cancel", "client", "server", "link", final} : a \in Frames
    BY DEF Frames
  <1>2. \A a, b, c, d, e \in Frames : <<a, b, c, d, e>> \in Seq(Frames) /\ <<e>> \in Seq(Frames)
    OBVIOUS
  <1> QED BY <1>1, <1>2 DEF StopThen

LEMMA EnterTypes ==
    ASSUME TodoOK, NEW t \in Threads, NEW fs \in Seq(Frames), Flags, Enter(t, fs)
    PROVE  TodoOK' /\ overlapped' \in BOOLEAN
  BY DEF TodoOK, Enter, Mixes, Flags

LEMMA GoesTypes ==
    ASSUME TodoOK, NEW t \in Threads, todo[t] # <<>>, Flags, Goes(t)
    PROVE  TodoOK' /\ overlapped' \in BOOLEAN
  <1>1. Tail(todo[t]) \in Seq(Frames)
    BY DEF TodoOK
  <1> QED BY <1>1 DEF TodoOK, Goes, Mixes, Flags

\* A sink stays what it is.
LEMMA KindKept == [Next]_vars => kind' = kind
  <1> SUFFICES ASSUME [Next]_vars PROVE kind' = kind
    OBVIOUS
  <1>1. ASSUME NEW t \in Threads, Enter(t, StopThen("error")) \/ Enter(t, StopThen("disconnected"))
                                 \/ Enter(t, <<"streaming">>) \/ Goes(t) \/ Done
        PROVE  kind' = kind
    BY <1>1 DEF Enter, Goes, Done, Mixes
  <1>2. CASE StartP2P \/ FirewallReady \/ P2PFails \/ P2PConnected \/ LinkLost \/ StartMice
    BY <1>1, <1>2 DEF StartP2P, FirewallReady, FirewallFails, P2PFails, P2PConnected, LinkLost,
                      StartMice, Threads
  <1>3. CASE ClientConnected \/ PlayRequest \/ Closed \/ OrphanGoes \/ StopStream \/ DoubleFree
    BY <1>1, <1>3 DEF ClientConnected, PlayRequest, Closed, OrphanGoes, StopStream, DoubleFree, Threads
  <1>4. ASSUME NEW t \in Threads, Goon(t)
        PROVE  kind' = kind
    BY <1>1, <1>4 DEF Goon, Cancel, DropClient, DropServer, DropLink, SetState
  <1> QED BY <1>2, <1>3, <1>4 DEF Next, vars

\* What was mixed once stays so.
LEMMA OverlapStays == [Next]_vars => (overlapped => overlapped')
  <1> SUFFICES ASSUME [Next]_vars, overlapped PROVE overlapped'
    OBVIOUS
  <1>1. CASE UNCHANGED vars
    BY <1>1 DEF vars
  <1>2. CASE Next
    BY <1>2 DEF Next, StartP2P, FirewallReady, FirewallFails, P2PFails, P2PConnected, LinkLost,
        StartMice, ClientConnected, PlayRequest, Closed, OrphanGoes, StopStream, DoubleFree, Goon, Cancel,
        DropClient, DropServer, DropLink, SetState, Goes, Enter, Done, Mixes
  <1> QED BY <1>1, <1>2

LEMMA TypeInit == Init => TypeInv
  <1> SUFFICES ASSUME Init PROVE TypeInv
    OBVIOUS
  <1>1. TodoOK
    <2>1. <<>> \in Seq(Frames)
      OBVIOUS
    <2> QED BY <2>1 DEF Init, TodoOK
  <1>2. Calls /\ state \in States
    BY WfdSinkAssumption DEF Init, Calls, States
  <1>3. Flags /\ aborted \in {"no", "server", "race"} /\ kind \in {"p2p", "mice"}
    BY DEF Init, Flags
  <1> QED BY <1>1, <1>2, <1>3 DEF TypeInv

LEMMA TypeStep == TypeInv /\ [Next]_vars => TypeInv'
  <1> SUFFICES ASSUME TypeInv, [Next]_vars PROVE TypeInv'
    OBVIOUS
  <1>a. kind' = kind
    BY KindKept
  <1> USE <1>a, WfdSinkAssumption DEF TypeInv
  <1>0. "disconnected" \in States /\ "error" \in States /\ "streaming" \in States
        /\ "main" \in Threads /\ "rtsp" \in Threads
    BY DEF States, Threads
  <1>1. CASE StartP2P
    BY <1>1 DEF StartP2P, Done, Mixes, Calls, Flags, TodoOK, States
  <1>2. CASE FirewallReady
    <2>1. state' \in States /\ Calls' /\ aborted' = aborted
      BY <1>2 DEF FirewallReady, Calls, States
    <2>2. TodoOK' /\ overlapped' \in BOOLEAN
      <3>1. CASE Done
        BY <3>1 DEF Done, Mixes, TodoOK, Flags
      <3>2. CASE FirewallFails
        BY <3>2, <1>0, StopFrames, EnterTypes DEF FirewallFails
      <3> QED BY <1>2, <3>1, <3>2 DEF FirewallReady
    <2> QED BY <1>2, <2>1, <2>2 DEF FirewallReady, Flags
  <1>3. CASE P2PFails
    <2>1. TodoOK' /\ overlapped' \in BOOLEAN
      BY <1>3, <1>0, StopFrames, EnterTypes DEF P2PFails
    <2> QED BY <1>3, <2>1 DEF P2PFails, Calls, Flags
  <1>4. CASE P2PConnected
    <2>1. Calls' /\ TodoOK'
      BY <1>4 DEF P2PConnected, Done, Calls, TodoOK
    <2>2. overlapped' \in BOOLEAN
      BY <1>4 DEF P2PConnected, Done, Mixes, Flags
    <2>3. CASE server
      BY <1>4, <2>1, <2>2, <2>3 DEF P2PConnected, Flags
    <2>4. CASE ~ server
      BY <1>4, <2>1, <2>2, <2>4 DEF P2PConnected, CodecsMissing, Listen, Flags, States
    <2> QED BY <2>3, <2>4
  <1>5. CASE LinkLost
    <2>1. TodoOK' /\ overlapped' \in BOOLEAN
      BY <1>5, <1>0, StopFrames, EnterTypes DEF LinkLost
    <2> QED BY <1>5, <2>1 DEF LinkLost, Calls, Flags
  <1>6. CASE StartMice
    BY <1>6 DEF StartMice, MiceFails, Listen, Done, Mixes, Calls, Flags, TodoOK, States
  <1>7. CASE ClientConnected
    BY <1>7 DEF ClientConnected, Done, Mixes, Calls, Flags, TodoOK, States
  <1>8. CASE PlayRequest
    <2>1. TodoOK' /\ overlapped' \in BOOLEAN
      BY <1>8, <1>0, StopFrames, EnterTypes DEF PlayRequest
    <2> QED BY <1>8, <2>1 DEF PlayRequest, session, Calls, Flags
  <1>9. CASE Closed
    <2>1. TodoOK' /\ overlapped' \in BOOLEAN
      <3>1. CASE client /\ state # "disconnected"
        BY <1>9, <3>1, <1>0, StopFrames, EnterTypes DEF Closed
      <3>2. CASE ~ (client /\ state # "disconnected")
        BY <1>9, <3>2 DEF Closed, TodoOK, Flags
      <3> QED BY <3>1, <3>2
    <2> QED BY <1>9, <2>1 DEF Closed, Calls, Flags
  <1>10. CASE StopStream
    <2>1. TodoOK' /\ overlapped' \in BOOLEAN
      BY <1>10, <1>0, StopFrames, EnterTypes DEF StopStream
    <2> QED BY <1>10, <2>1 DEF StopStream, session, Calls, Flags
  <1>11. ASSUME NEW t \in Threads, Goon(t)
         PROVE  TypeInv'
    <2>1. TodoOK' /\ overlapped' \in BOOLEAN /\ aborted' = aborted
      <3>1. Goes(t) /\ todo[t] # <<>>
        BY <1>11 DEF Goon, Cancel, DropClient, DropServer, DropLink, SetState, At
      <3> QED BY <3>1, GoesTypes DEF Goes
    <2>2. state' \in States /\ Calls'
      BY <1>11 DEF Goon, Cancel, Cancelled, DropClient, DropServer, DropLink, SetState, session, Calls
    <2>3. Flags'
      <3>1. CASE Cancel(t) \/ SetState(t) \/ DropLink(t)
        BY <2>1, <3>1 DEF Cancel, SetState, DropLink, session, Flags
      <3>2. CASE DropClient(t)
        BY <2>1, <3>2 DEF DropClient, Flags
      <3>3. CASE DropServer(t)
        BY <2>1, <3>3 DEF DropServer, Purged, Flags
      <3> QED BY <1>11, <3>1, <3>2, <3>3 DEF Goon
    <2>4. kind' = kind
      BY <1>11 DEF Goon, Cancel, DropClient, DropServer, DropLink, SetState, Goes, Mixes
    <2> QED BY <2>1, <2>2, <2>3, <2>4
  <1>12. CASE DoubleFree
    BY <1>12 DEF DoubleFree, session, Calls, Flags, TodoOK
  <1>13. CASE UNCHANGED vars
    BY <1>13 DEF vars, session, Calls, Flags, TodoOK
  <1>14. CASE OrphanGoes
    BY <1>14 DEF OrphanGoes, Calls, Flags, TodoOK
  <1> QED
    BY <1>1, <1>2, <1>3, <1>4, <1>5, <1>6, <1>7, <1>8, <1>9, <1>10, <1>11, <1>12, <1>13, <1>14 DEF Next

LEMMA TypesHold == Spec => []TypeInv
  BY TypeInit, TypeStep, PTL DEF Spec

\* Every variable keeps its type; in particular the number of asynchronous calls
\* stays in its bound however stop and start are interleaved.
THEOREM TypeCorrect == Spec => []TypeOK
  <1>1. TypeInv => TypeOK
    BY WfdSinkAssumption DEF TypeInv, TypeOK, Calls, Flags, TodoOK
  <1> QED BY <1>1, TypesHold, PTL
-----------------------------------------------------------------------------
(* Resources, as long as the threads do not overlap *)

Finals == {"disconnected", "error"}

\* What may be left of stop_stream_int.
Rests(f) ==
    IF kind = "p2p"
    THEN {<<"cancel", "client", "server", "link", f>>, <<"client", "server", "link", f>>,
          <<"server", "link", f>>, <<"link", f>>, <<f>>}
    ELSE {<<"cancel", "link", "client", "server", f>>, <<"link", "client", "server", f>>,
          <<"client", "server", f>>, <<"server", f>>, <<f>>}

HeadIn(t, hs) == todo[t] # <<>> /\ Head(todo[t]) \in hs

Stopping(t) == HeadIn(t, {"cancel", "client", "server", "link"} \union Finals)

Stages(t) ==
    todo[t] = <<>> \/ todo[t] = <<"streaming">> \/ \E f \in Finals : todo[t] \in Rests(f)

NoCalls == firewall = 0 /\ activation = 0
NoClient == ~ attached /\ ~ client /\ (listening => server)
NoServer == ~ server /\ ~ listening /\ ~ tv

\* What a thread has taken down already.
Gone(t) ==
    /\ HeadIn(t, {"client", "server", "link"} \union Finals) => NoCalls
    /\ HeadIn(t, (IF kind = "p2p" THEN {"server", "link"} ELSE {"server"}) \union Finals) => NoClient
    /\ HeadIn(t, (IF kind = "p2p" THEN {"link"} ELSE {}) \union Finals) => NoServer
    /\ HeadIn(t, (IF kind = "p2p" THEN {} ELSE {"client", "server"}) \union Finals) => ~ link

\* What each state of the sink rests on.
Rested ==
    /\ firewall = (IF state = "ensure_firewall" THEN 1 ELSE 0)
    /\ activation = (IF state = "wait_p2p" THEN 1 ELSE 0)
    /\ state \in {"disconnected", "ensure_firewall", "wait_p2p"} =>
          NoClient /\ NoServer /\ ~ link
    /\ state = "wait_socket" => link /\ server /\ attached /\ ~ client
    /\ state \in {"wait_streaming", "streaming"} =>
          client /\ attached /\ (kind = "p2p" => link /\ server)
    /\ state = "error" => ~ client /\ (kind = "p2p" => ~ attached)
    /\ listening => server \/ attached

Apart ==
    /\ aborted = "no"
    /\ todo["main"] = <<>> \/ todo["rtsp"] = <<>>
    /\ \A t \in Threads :
        /\ Stages(t)
        /\ Gone(t)
        /\ HeadIn(t, {"streaming"}) => client
    /\ (\A t \in Threads : ~ Stopping(t)) => Rested
    /\ listening => server \/ attached

Orderly == ~ overlapped => Apart

\* The frames of stop_stream_int are taken in order.
LEMMA Shape ==
    ASSUME NEW f \in Finals, NEW s \in Rests(f)
    PROVE  /\ s # <<>> /\ Head(s) \in {"cancel", "client", "server", "link", f}
           /\ Head(s) = f => Tail(s) = <<>>
           /\ Head(s) # f => Tail(s) \in Rests(f)
           /\ Head(s) = "cancel" => Head(Tail(s)) = IF kind = "p2p" THEN "client" ELSE "link"
           /\ Head(s) = "client" => Head(Tail(s)) = "server"
           /\ Head(s) = "server" => Head(Tail(s)) = IF kind = "p2p" THEN "link" ELSE f
           /\ Head(s) = "link" => Head(Tail(s)) = IF kind = "p2p" THEN f ELSE "client"
  <1> DEFINE F == Frames
  <1>1. f \notin {"cancel", "client", "server", "link"} /\ f \in F
        /\ \A a \in {"cancel", "client", "server", "link"} : a \in F
    BY DEF Finals, Frames, States
  <1>2. \A a, b, c, d, e \in F :
          /\ Head(<<a, b, c, d, e>>) = a /\ Tail(<<a, b, c, d, e>>) = <<b, c, d, e>>
          /\ Head(<<b, c, d, e>>) = b /\ Tail(<<b, c, d, e>>) = <<c, d, e>>
          /\ Head(<<c, d, e>>) = c /\ Tail(<<c, d, e>>) = <<d, e>>
          /\ Head(<<d, e>>) = d /\ Tail(<<d, e>>) = <<e>>
          /\ Head(<<e>>) = e /\ Tail(<<e>>) = <<>>
          /\ <<a, b, c, d, e>> # <<>> /\ <<b, c, d, e>> # <<>> /\ <<c, d, e>> # <<>>
          /\ <<d, e>> # <<>> /\ <<e>> # <<>>
    OBVIOUS
  <1> HIDE DEF F
  <1>3. CASE kind = "p2p"
    <2> DEFINE s5 == <<"cancel", "client", "server", "link", f>>
               s4 == <<"client", "server", "link", f>>
               s3 == <<"server", "link", f>>
               s2 == <<"link", f>>
               s1 == <<f>>
    <2>1. /\ Head(s5) = "cancel" /\ Tail(s5) = s4 /\ Head(s4) = "client" /\ Tail(s4) = s3
          /\ Head(s3) = "server" /\ Tail(s3) = s2 /\ Head(s2) = "link" /\ Tail(s2) = s1
          /\ Head(s1) = f /\ Tail(s1) = <<>>
          /\ s5 # <<>> /\ s4 # <<>> /\ s3 # <<>> /\ s2 # <<>> /\ s1 # <<>>
      BY <1>1, <1>2
    <2>2. Rests(f) = {s5, s4, s3, s2, s1}
      BY <1>3 DEF Rests
    <2> HIDE DEF s5, s4, s3, s2, s1
    <2>3. CASE s = s5
      BY <1>1, <1>3, <2>1, <2>2, <2>3
    <2>4. CASE s = s4
      BY <1>1, <1>3, <2>1, <2>2, <2>4
    <2>5. CASE s = s3
      BY <1>1, <1>3, <2>1, <2>2, <2>5
    <2>6. CASE s = s2
      BY <1>1, <1>3, <2>1, <2>2, <2>6
    <2>7. CASE s = s1
      BY <1>1, <1>3, <2>1, <2>2, <2>7
    <2> QED BY <2>2, <2>3, <2>4, <2>5, <2>6, <2>7
  <1>4. CASE kind # "p2p"
    <2> DEFINE s5 == <<"cancel", "link", "client", "server", f>>
               s4 == <<"link", "client", "server", f>>
               s3 == <<"client", "server", f>>
               s2 == <<"server", f>>
               s1 == <<f>>
    <2>1. /\ Head(s5) = "cancel" /\ Tail(s5) = s4 /\ Head(s4) = "link" /\ Tail(s4) = s3
          /\ Head(s3) = "client" /\ Tail(s3) = s2 /\ Head(s2) = "server" /\ Tail(s2) = s1
          /\ Head(s1) = f /\ Tail(s1) = <<>>
          /\ s5 # <<>> /\ s4 # <<>> /\ s3 # <<>> /\ s2 # <<>> /\ s1 # <<>>
      BY <1>1, <1>2
    <2>2. Rests(f) = {s5, s4, s3, s2, s1}
      BY <1>4 DEF Rests
    <2> HIDE DEF s5, s4, s3, s2, s1
    <2>3. CASE s = s5
      BY <1>1, <1>4, <2>1, <2>2, <2>3
    <2>4. CASE s = s4
      BY <1>1, <1>4, <2>1, <2>2, <2>4
    <2>5. CASE s = s3
      BY <1>1, <1>4, <2>1, <2>2, <2>5
    <2>6. CASE s = s2
      BY <1>1, <1>4, <2>1, <2>2, <2>6
    <2>7. CASE s = s1
      BY <1>1, <1>4, <2>1, <2>2, <2>7
    <2> QED BY <2>2, <2>3, <2>4, <2>5, <2>6, <2>7
  <1> QED BY <1>3, <1>4

\* A thread that enters stop_stream_int has taken nothing down yet.
LEMMA EnterStop ==
    ASSUME TypeInv, Orderly, NEW t \in Threads, NEW f \in Finals, todo[t] = <<>>,
           Enter(t, StopThen(f)), ~ overlapped', aborted' = "no", kind' = kind,
           listening' => server' \/ attached'
    PROVE  Apart'
  <1>1. todo[Other(t)] = <<>> /\ ~ overlapped /\ Other(t) \in Threads /\ Other(t) # t
    BY DEF Enter, Mixes, Other, Threads
  <1>2. Threads = {t, Other(t)}
    BY DEF Threads, Other
  <1>3. todo'[t] = StopThen(f) /\ todo'[Other(t)] = <<>>
    BY <1>1 DEF Enter, TypeInv, TodoOK
  <1>4. StopThen(f) \in Rests(f) /\ StopThen(f) # <<>> /\ Head(StopThen(f)) = "cancel"
    BY DEF StopThen, Rests
  <1>5. Stages(t)' /\ Gone(t)' /\ Stopping(t)' /\ ~ HeadIn(t, {"streaming"})'
    BY <1>3, <1>4 DEF Stages, Gone, HeadIn, Stopping, Finals, Rests
  <1>6. Stages(Other(t))' /\ Gone(Other(t))' /\ ~ HeadIn(Other(t), {"streaming"})'
    BY <1>3 DEF Stages, Gone, HeadIn
  <1>7. \A u \in Threads : Stages(u)' /\ Gone(u)' /\ ~ HeadIn(u, {"streaming"})'
    BY <1>2, <1>5, <1>6
  <1>8. todo'["main"] = <<>> \/ todo'["rtsp"] = <<>>
    BY <1>3 DEF Other
  <1> QED BY <1>5, <1>7, <1>8 DEF Apart

\* A handler of the main loop that is over at once finds the sink at rest.
LEMMA AtRest ==
    ASSUME TypeInv, Orderly, Idle("main"), Mixes("main"), ~ overlapped'
    PROVE  /\ Apart /\ Rested
           /\ \A t \in Threads : todo[t] = <<>>
  <1>1. todo["main"] = <<>> /\ todo["rtsp"] = <<>> /\ ~ overlapped
    BY DEF Idle, Mixes, Other
  <1>2. \A t \in Threads : todo[t] = <<>>
    BY <1>1 DEF Threads
  <1>3. Apart
    BY <1>1 DEF Orderly
  <1>4. \A t \in Threads : ~ Stopping(t)
    BY <1>2 DEF Stopping, HeadIn
  <1> QED BY <1>2, <1>3, <1>4 DEF Apart

\* It leaves the sink at rest.
LEMMA StaysAtRest ==
    ASSUME \A t \in Threads : todo[t] = <<>>, UNCHANGED todo, Rested', aborted' = "no"
    PROVE  Apart'
  <1>1. \A t \in Threads : todo'[t] = <<>>
    OBVIOUS
  <1>2. \A t \in Threads : Stages(t)' /\ Gone(t)' /\ ~ HeadIn(t, {"streaming"})'
    BY <1>1 DEF Stages, Gone, HeadIn
  <1>3. todo'["main"] = <<>>
    BY <1>1 DEF Threads
  <1> QED BY <1>2, <1>3 DEF Apart, Rested

\* A step of the start of a session.
LEMMA StartKeeps ==
    ASSUME TypeInv, Orderly, ~ overlapped', kind' = kind,
           StartP2P \/ FirewallReady \/ P2PFails \/ P2PConnected \/ LinkLost \/ StartMice
    PROVE  Apart'
  <1> DEFINE Rest(x) == (\A t \in Threads : todo[t] = <<>>) /\ Rested /\ Apart
  <1>0. "main" \in Threads /\ "error" \in Finals
    BY DEF Threads, Finals
  <1>1. CASE StartP2P
    <2>1. Rest(0)
      BY <1>1, AtRest DEF StartP2P, Done
    <2>2. Rested'
      BY <1>1, <2>1 DEF StartP2P, Rested, NoClient, NoServer
    <2> QED BY <1>1, <2>1, <2>2, StaysAtRest DEF StartP2P, Done, Apart
  <1>2. CASE FirewallReady /\ Done
    <2>1. Rest(0)
      BY <1>2, AtRest DEF FirewallReady, Done
    <2>2. state = "ensure_firewall" /\ firewall' = 0
      BY <1>2, <2>1 DEF FirewallReady, Rested
    <2>3. state' = "wait_p2p" /\ activation' = activation + 1
      <3>1. CASE FirewallFails
        <4>1. todo'["main"] # <<>>
          BY <1>0, <3>1 DEF FirewallFails, Enter, StopThen, TypeInv, TodoOK
        <4> QED BY <1>2, <2>1, <1>0, <4>1 DEF Done
      <3> QED BY <1>2, <3>1 DEF FirewallReady
    <2>4. Rested'
      BY <1>2, <2>1, <2>2, <2>3 DEF FirewallReady, Rested, NoClient, NoServer
    <2> QED BY <1>2, <2>1, <2>4, StaysAtRest DEF FirewallReady, Done, Apart
  <1>3. CASE FirewallReady /\ FirewallFails
    <2>1. todo["main"] = <<>> /\ aborted' = "no" /\ (listening' => server' \/ attached')
      BY <1>3, AtRest DEF FirewallReady, FirewallFails, Enter, Idle, Rested
    <2> QED BY <1>0, <1>3, <2>1, EnterStop DEF FirewallFails
  <1>4. CASE P2PFails
    <2>1. todo["main"] = <<>> /\ aborted' = "no" /\ (listening' => server' \/ attached')
      BY <1>4, AtRest DEF P2PFails, Enter, Idle, Rested
    <2> QED BY <1>0, <1>4, <2>1, EnterStop DEF P2PFails
  <1>5. CASE P2PConnected
    <2>1. Rest(0)
      BY <1>5, AtRest DEF P2PConnected, Done
    <2>2. state = "wait_p2p" /\ activation' = 0 /\ firewall' = 0 /\ NoClient /\ NoServer
      BY <1>5, <2>1 DEF P2PConnected, Rested
    <2>3. ~ server /\ ~ attached /\ ~ listening /\ ~ client /\ link' /\ client' = client
      BY <1>5, <2>2 DEF P2PConnected, NoClient, NoServer
    <2>4. /\ aborted' = aborted
          /\ \/ state' = "wait_socket" /\ Listen
             \/ CodecsMissing
             \/ state' = "error" /\ UNCHANGED <<server, attached, listening>>
      BY <1>5, <2>3 DEF P2PConnected
    <2>5. Rested'
      <3>1. CASE state' = "wait_socket" /\ Listen
        BY <2>2, <2>3, <3>1 DEF Rested, Listen
      <3>2. CASE CodecsMissing
        BY <2>2, <2>3, <3>2 DEF Rested, CodecsMissing
      <3>3. CASE state' = "error" /\ UNCHANGED <<server, attached, listening>>
        BY <2>2, <2>3, <3>3 DEF Rested
      <3> QED BY <2>4, <3>1, <3>2, <3>3
    <2> QED BY <1>5, <2>1, <2>4, <2>5, StaysAtRest DEF P2PConnected, Done, Apart
  <1>6. CASE LinkLost
    <2>1. todo["main"] = <<>> /\ aborted' = "no" /\ (listening' => server' \/ attached')
      BY <1>6, AtRest DEF LinkLost, Enter, Idle, Rested
    <2> QED BY <1>0, <1>6, <2>1, EnterStop DEF LinkLost
  <1>7. CASE StartMice
    <2>1. Rest(0)
      BY <1>7, AtRest DEF StartMice, Done
    <2>2. state = "disconnected" /\ kind = "mice" /\ firewall' = 0 /\ activation' = 0
      BY <1>7, <2>1 DEF StartMice, Rested
    <2>3. ~ server /\ ~ attached /\ ~ listening /\ ~ client /\ client' = client
      BY <1>7, <2>1, <2>2 DEF StartMice, Rested, NoClient, NoServer
    <2>4. aborted' = aborted /\ (MiceFails \/ (state' = "wait_socket" /\ Listen /\ link' = TRUE))
      BY <1>7, <2>3 DEF StartMice
    <2>5. Rested'
      <3>1. CASE MiceFails
        <4>1. state' = "error" /\ (listening' = listening \/ attached' = TRUE)
          BY <3>1, Zenon DEF MiceFails
        <4> QED BY <2>2, <2>3, <4>1 DEF Rested
      <3>2. CASE state' = "wait_socket" /\ Listen /\ link' = TRUE
        BY <2>2, <2>3, <3>2 DEF Rested, Listen
      <3> QED BY <2>4, <3>1, <3>2
    <2> QED BY <1>7, <2>1, <2>4, <2>5, StaysAtRest DEF StartMice, Done, Apart
  <1> QED BY <1>1, <1>2, <1>3, <1>4, <1>5, <1>6, <1>7 DEF FirewallReady

\* A step of the RTSP client, a stop, or a double free.
LEMMA ClientKeeps ==
    ASSUME TypeInv, Orderly, ~ overlapped', kind' = kind,
           ClientConnected \/ PlayRequest \/ Closed \/ OrphanGoes \/ StopStream \/ DoubleFree
    PROVE  Apart'
  <1>0. /\ Threads = {"main", "rtsp"} /\ "disconnected" \in Finals
        /\ Other("main") = "rtsp" /\ Other("rtsp") = "main"
    BY DEF Threads, Finals, Other
  <1>1. CASE ClientConnected
    <2>1. (\A t \in Threads : todo[t] = <<>>) /\ Rested /\ Apart
      BY <1>1, AtRest DEF ClientConnected, Done
    <2>2. attached /\ state \notin {"disconnected", "ensure_firewall", "wait_p2p"}
      BY <1>1, <2>1 DEF ClientConnected, Rested, NoClient
    <2>3. firewall' = 0 /\ activation' = 0 /\ attached' /\ client' /\ state' = "wait_streaming"
      BY <1>1, <2>1, <2>2 DEF ClientConnected, Rested
    <2>4. kind = "p2p" => link' /\ server'
      BY <1>1, <2>1, <2>2 DEF ClientConnected, Rested, TypeInv, States
    <2>5. Rested'
      BY <2>3, <2>4 DEF Rested
    <2> QED BY <1>1, <2>1, <2>5, StaysAtRest DEF ClientConnected, Done, Apart
  <1>2. CASE PlayRequest
    <2>1. todo["rtsp"] = <<>> /\ todo["main"] = <<>> /\ Apart /\ client
      BY <1>0, <1>2 DEF PlayRequest, Idle, Enter, Mixes, Orderly
    <2>2. todo'["rtsp"] = <<"streaming">> /\ todo'["main"] = <<>>
      BY <1>0, <1>2, <2>1 DEF PlayRequest, Enter, TypeInv, TodoOK
    <2>3. <<"streaming">> # <<>> /\ Head(<<"streaming">>) = "streaming"
      OBVIOUS
    <2>4. \A t \in Threads : Stages(t)' /\ Gone(t)' /\ (HeadIn(t, {"streaming"})' => client')
      BY <1>0, <1>2, <2>1, <2>2, <2>3 DEF PlayRequest, session, Stages, Gone, HeadIn, Finals
    <2>5. Rested
      BY <1>0, <2>1 DEF Apart, Stopping, HeadIn
    <2>6. Rested' /\ (listening' => server' \/ attached') /\ aborted' = "no"
      BY <1>2, <2>1, <2>5 DEF PlayRequest, session, Rested, NoClient, NoServer, Apart
    <2> QED BY <2>2, <2>4, <2>6 DEF Apart
  <1>3. CASE Closed
    <2>1. CASE client /\ state # "disconnected"
      <3>1. Enter("rtsp", StopThen("disconnected")) /\ todo["rtsp"] = <<>>
        BY <1>3, <2>1 DEF Closed, Idle
      <3>2. Apart
        BY <3>1 DEF Enter, Mixes, Orderly
      <3> QED BY <1>0, <1>3, <3>1, <3>2, EnterStop DEF Closed, Apart
    <2>2. CASE ~ (client /\ state # "disconnected")
      BY <1>3, <2>2 DEF Closed, Orderly, Apart, Stages, Gone, HeadIn, Stopping, Rested,
                        NoCalls, NoClient, NoServer, Rests
    <2> QED BY <2>1, <2>2
  <1>4. CASE StopStream
    <2>1. todo["main"] = <<>> /\ Enter("main", StopThen("disconnected")) /\ Apart
      BY <1>4 DEF StopStream, Idle, Enter, Mixes, Orderly
    <2> QED BY <1>0, <1>4, <2>1, EnterStop DEF StopStream, session, Apart
  <1>5. CASE DoubleFree
    BY <1>5 DEF DoubleFree, At, Orderly, Apart
  <1>6. CASE OrphanGoes
    BY <1>6 DEF OrphanGoes, Orderly, Apart, Stages, Gone, HeadIn, Stopping, Rested,
                NoCalls, NoClient, NoServer, Rests
  <1> QED BY <1>1, <1>2, <1>3, <1>4, <1>5, <1>6

\* A frame of a handler.
LEMMA GoonKeeps ==
    ASSUME TypeInv, Orderly, ~ overlapped', kind' = kind, NEW t \in Threads, Goon(t)
    PROVE  Apart'
  <1>1. /\ Goes(t) /\ todo[t] # <<>> /\ todo[Other(t)] = <<>> /\ Apart
        /\ Threads = {t, Other(t)} /\ Other(t) # t
    BY DEF Goon, Cancel, DropClient, DropServer, DropLink, SetState, At, Goes, Mixes,
           Orderly, Other, Threads
  <1>2. todo'[t] = Tail(todo[t]) /\ todo'[Other(t)] = <<>> /\ aborted' = "no"
    BY <1>1 DEF Goes, TypeInv, TodoOK, Apart
  <1>3. todo'["main"] = <<>> \/ todo'["rtsp"] = <<>>
    BY <1>2 DEF Other
  <1>4. Stages(Other(t))' /\ Gone(Other(t))' /\ ~ Stopping(Other(t))' /\ ~ HeadIn(Other(t), {"streaming"})'
    BY <1>2 DEF Stages, Gone, Stopping, HeadIn
  <1>5. listening' => server' \/ attached'
    BY <1>1 DEF Apart, Goon, Cancel, DropClient, DropServer, DropLink, SetState, session, TypeInv, Flags
  <1>6. CASE todo[t] = <<"streaming">>
    <2>1. Head(todo[t]) = "streaming" /\ todo'[t] = <<>>
      BY <1>2, <1>6
    <2>2. \A u \in Threads : Stages(u)' /\ Gone(u)' /\ ~ HeadIn(u, {"streaming"})'
      BY <1>1, <1>4, <2>1 DEF Stages, Gone, HeadIn
    <2>3. client /\ Rested
      BY <1>1, <2>1 DEF Apart, HeadIn, Stopping, Finals
    <2>4. SetState(t) /\ state' = "streaming"
      BY <2>1 DEF Goon, Cancel, DropClient, DropServer, DropLink, SetState, At, States
    <2>5. state \in {"wait_streaming", "streaming"}
      BY <2>3 DEF Rested, NoClient, TypeInv, States
    <2>6. Rested'
      BY <2>3, <2>4, <2>5 DEF SetState, session, Rested
    <2> QED BY <1>2, <1>3, <1>5, <2>2, <2>6 DEF Apart
  <1>7. ASSUME NEW f \in Finals, todo[t] \in Rests(f)
        PROVE  Apart'
    <2> DEFINE h == Head(todo[t])
    <2>1. /\ h \in {"cancel", "client", "server", "link", f}
          /\ h = f => Tail(todo[t]) = <<>>
          /\ h # f => Tail(todo[t]) \in Rests(f)
          /\ h = "cancel" => Head(Tail(todo[t])) = IF kind = "p2p" THEN "client" ELSE "link"
          /\ h = "client" => Head(Tail(todo[t])) = "server"
          /\ h = "server" => Head(Tail(todo[t])) = IF kind = "p2p" THEN "link" ELSE f
          /\ h = "link" => Head(Tail(todo[t])) = IF kind = "p2p" THEN f ELSE "client"
      BY <1>7, Shape
    <2>2. Gone(t) /\ f \in {"disconnected", "error"} /\ f \in States
      BY <1>1 DEF Apart, Finals, States
    <2>3. h # f => /\ todo'[t] # <<>> /\ Head(todo'[t]) \in {"cancel", "client", "server", "link", f}
                   /\ todo'[t] \in Rests(f)
      BY <1>2, <2>1, Shape
    <2>4. h # f => Stages(t)' /\ Stopping(t)' /\ ~ HeadIn(t, {"streaming"})'
      BY <1>7, <2>2, <2>3 DEF Stages, Stopping, HeadIn, Rests, Finals
    <2>5. h # f => Gone(t)'
      <3>1. CASE h = "cancel"
        <4>1. Cancel(t)
          BY <3>1 DEF Goon, Cancel, DropClient, DropServer, DropLink, SetState, At, States
        <4>2. NoCalls'
          BY <4>1 DEF Cancel, Cancelled, NoCalls
        <4> QED BY <1>2, <2>1, <3>1, <4>2 DEF Gone, HeadIn, Finals
      <3>2. CASE h = "client"
        <4>1. DropClient(t)
          BY <3>2 DEF Goon, Cancel, DropClient, DropServer, DropLink, SetState, At, States
        <4>2. NoCalls' /\ NoClient'
          BY <1>1, <2>2, <3>2, <4>1 DEF Gone, HeadIn, DropClient, NoCalls, NoClient
        <4>3. kind # "p2p" => ~ link'
          BY <1>1, <2>2, <3>2, <4>1 DEF Gone, HeadIn, DropClient
        <4> QED BY <1>2, <2>1, <3>2, <4>2, <4>3 DEF Gone, HeadIn, Finals
      <3>3. CASE h = "server"
        <4>1. DropServer(t)
          BY <3>3 DEF Goon, Cancel, DropClient, DropServer, DropLink, SetState, At, States
        <4>2. NoCalls' /\ NoClient /\ (kind # "p2p" => ~ link')
          BY <1>1, <2>2, <3>3, <4>1 DEF Gone, HeadIn, DropServer, NoCalls
        <4>3. NoClient' /\ NoServer'
          BY <4>1, <4>2 DEF DropServer, NoClient, NoServer
        <4> QED BY <1>2, <2>1, <3>3, <4>2, <4>3 DEF Gone, HeadIn, Finals
      <3>4. CASE h = "link"
        <4>1. DropLink(t)
          BY <3>4 DEF Goon, Cancel, DropClient, DropServer, DropLink, SetState, At, States
        <4>2. NoCalls' /\ ~ link' /\ (kind = "p2p" => NoClient' /\ NoServer')
          BY <1>1, <2>2, <3>4, <4>1 DEF Gone, HeadIn, DropLink, NoCalls, NoClient, NoServer
        <4> QED BY <1>2, <2>1, <3>4, <4>2 DEF Gone, HeadIn, Finals
      <3> QED BY <2>1, <3>1, <3>2, <3>3, <3>4
    <2>6. CASE h # f
      <3>1. \A u \in Threads : Stages(u)' /\ Gone(u)' /\ ~ HeadIn(u, {"streaming"})'
        BY <1>1, <1>4, <2>4, <2>5, <2>6
      <3> QED BY <1>2, <1>3, <1>5, <2>4, <2>6, <3>1 DEF Apart
    <2>7. CASE h = f
      <3>1. SetState(t) /\ state' = f /\ UNCHANGED session
        BY <2>2, <2>7 DEF Goon, Cancel, DropClient, DropServer, DropLink, SetState, At
      <3>2. NoCalls /\ NoClient /\ NoServer /\ ~ link
        BY <1>1, <2>2, <2>7 DEF Gone, HeadIn, Finals
      <3>3. Rested'
        BY <2>2, <3>1, <3>2 DEF Rested, session, NoCalls, NoClient, NoServer
      <3>4. \A u \in Threads : Stages(u)' /\ Gone(u)' /\ ~ HeadIn(u, {"streaming"})'
        BY <1>1, <1>2, <1>4, <2>1, <2>7 DEF Stages, Gone, HeadIn
      <3> QED BY <1>2, <1>3, <1>5, <3>3, <3>4 DEF Apart
    <2> QED BY <2>6, <2>7
  <1>8. Stages(t)
    BY <1>1 DEF Apart
  <1> QED BY <1>1, <1>6, <1>7, <1>8 DEF Stages

LEMMA OrderlyInit == Init => Orderly
  <1> SUFFICES ASSUME Init PROVE Apart
    BY DEF Orderly
  <1>1. \A t \in Threads : todo[t] = <<>>
    BY DEF Init
  <1>2. \A t \in Threads : Stages(t) /\ Gone(t) /\ ~ HeadIn(t, {"streaming"})
    BY <1>1 DEF Stages, Gone, HeadIn
  <1>3. Rested /\ aborted = "no" /\ todo["main"] = <<>> /\ ~ listening
    BY <1>1 DEF Init, Rested, NoClient, NoServer, Threads
  <1> QED BY <1>2, <1>3 DEF Apart

LEMMA OrderlyStep == TypeInv /\ Orderly /\ [Next]_vars => Orderly'
  <1> SUFFICES ASSUME TypeInv, Orderly, [Next]_vars, ~ overlapped' PROVE Apart'
    BY DEF Orderly
  <1>1. CASE UNCHANGED vars
    BY <1>1 DEF vars, session, Orderly, Apart, Stages, Gone, HeadIn, Stopping, Rested,
                NoCalls, NoClient, NoServer, Rests
  <1>2. CASE Next
    BY <1>2, KindKept, StartKeeps, ClientKeeps, GoonKeeps DEF Next
  <1> QED BY <1>1, <1>2

LEMMA OrderlyHolds == Spec => []Orderly
  <1>1. Spec => []TypeInv
    BY TypesHold
  <1> QED BY <1>1, OrderlyInit, OrderlyStep, PTL DEF Spec

\* At rest, the sink is Rested.
LEMMA QuietRested ==
    ASSUME Orderly, ~ overlapped, Quiet
    PROVE  Rested
  BY DEF Orderly, Apart, Quiet, Stopping, HeadIn

\* Over Wi-Fi Direct the sink knows the server its TV is connected to: a client is
\* accepted only while the server is there, and it is purged with the server.
Known == ~ overlapped /\ kind = "p2p" => (tv => server) /\ ~ orphan

LEMMA KnownStep == TypeInv /\ Orderly /\ Known /\ [Next]_vars => Known'
  <1> SUFFICES ASSUME TypeInv, Orderly, Known, [Next]_vars, ~ overlapped', kind' = "p2p"
               PROVE  (tv' => server') /\ ~ orphan'
    BY DEF Known
  <1>1. kind = "p2p" /\ ~ overlapped
    BY KindKept, OverlapStays
  <1>2. (tv => server) /\ ~ orphan
    BY <1>1 DEF Known
  <1>3. CASE UNCHANGED vars
    BY <1>2, <1>3 DEF vars, session
  <1>4. CASE ClientConnected
    <2>1. Rested /\ attached
      BY <1>4, AtRest DEF ClientConnected, Done
    <2>2. server
      BY <1>1, <2>1 DEF Rested, NoClient, TypeInv, States
    <2> QED BY <1>2, <1>4, <2>2 DEF ClientConnected
  <1>5. CASE StartP2P \/ FirewallReady \/ P2PFails \/ LinkLost \/ StartMice
    BY <1>1, <1>2, <1>5 DEF StartP2P, FirewallReady, P2PFails, LinkLost, StartMice
  <1>6. CASE P2PConnected
    <2>1. server => server'
      BY <1>6 DEF P2PConnected, Listen, CodecsMissing
    <2> QED BY <1>2, <1>6, <2>1 DEF P2PConnected
  <1>7. CASE PlayRequest \/ Closed \/ OrphanGoes \/ StopStream \/ DoubleFree
    BY <1>2, <1>7 DEF PlayRequest, Closed, OrphanGoes, StopStream, DoubleFree, session
  <1>8. ASSUME NEW t \in Threads, Goon(t)
        PROVE  (tv' => server') /\ ~ orphan'
    <2>1. CASE DropServer(t)
      BY <1>2, <2>1 DEF DropServer, Purged, TypeInv, Flags
    <2>2. CASE Cancel(t) \/ DropClient(t) \/ DropLink(t) \/ SetState(t)
      <3>1. UNCHANGED <<tv, server, orphan>>
        BY <2>2 DEF Cancel, DropClient, DropLink, SetState, session
      <3> QED BY <1>2, <3>1
    <2> QED BY <1>8, <2>1, <2>2 DEF Goon
  <1> QED BY <1>3, <1>4, <1>5, <1>6, <1>7, <1>8 DEF Next

LEMMA KnownHolds == Spec => []Known
  <1>1. Init => Known
    BY DEF Init, Known
  <1> QED BY <1>1, TypesHold, OrderlyHolds, KnownStep, PTL DEF Spec

\* Whichever of its five callers ran stop_stream_int, and wherever start_stream had
\* got to, a disconnected sink is as clean as a new one.
THEOREM CleanWhenDisconnected == Spec => []NoLeftovers
  <1>1. Orderly /\ Known => NoLeftovers
    BY QuietRested DEF NoLeftovers, Rested, NoClient, NoServer, Known
  <1> QED BY <1>1, OrderlyHolds, KnownHolds, PTL

\* A late answer of the firewall or of NetworkManager finds the state that waits
\* for it: stop_stream_int cancels whatever is pending.
THEOREM AnswersExpected == Spec => []PendingExpected
  <1>1. Orderly => PendingExpected
    BY QuietRested DEF PendingExpected, Rested
  <1> QED BY <1>1, OrderlyHolds, PTL

\* The sink says it streams, or is about to, only with a client of its server; and
\* notify_active_connection_cb ends the Wi-Fi Direct sessions that lose their link.
THEOREM SessionsAreServed == Spec => []Served
  <1>1. Orderly => Served
    BY QuietRested DEF Served, Rested
  <1> QED BY <1>1, OrderlyHolds, PTL

\* The assertions of start_stream and p2p_connected are never met, and nothing is
\* freed twice, unless the handlers of the two threads were interleaved.
THEOREM SurvivesApart == Spec => []Survives
  <1>1. Orderly => Survives
    BY DEF Orderly, Apart, Survives
  <1> QED BY <1>1, OrderlyHolds, PTL

LEMMA ErrorStep ==
    ASSUME TypeInv, Orderly, Next, kind = "p2p", ~ overlapped', state = "error"
    PROVE  state' \in {"error", "disconnected"}
  <1>1. ASSUME Idle("main"), Mixes("main")
        PROVE  firewall = 0 /\ activation = 0 /\ ~ attached
    BY <1>1, AtRest DEF Rested
  <1>2. CASE StartP2P \/ StartMice
    BY <1>2 DEF StartP2P, StartMice
  <1>3. CASE FirewallReady \/ P2PFails \/ P2PConnected \/ LinkLost \/ ClientConnected
    <2>1. CASE FirewallReady /\ UNCHANGED state
      BY <2>1
    <2>2. CASE FirewallReady /\ Done
      BY <2>2, <1>1 DEF FirewallReady, Done
    <2>3. CASE P2PFails \/ LinkLost
      BY <2>3 DEF P2PFails, LinkLost
    <2>4. CASE P2PConnected
      BY <2>4, <1>1 DEF P2PConnected, Done
    <2>5. CASE ClientConnected
      BY <2>5, <1>1 DEF ClientConnected, Done
    <2> QED BY <1>3, <2>1, <2>2, <2>3, <2>4, <2>5 DEF FirewallReady
  <1>4. CASE PlayRequest \/ Closed \/ OrphanGoes \/ StopStream \/ DoubleFree
    BY <1>4 DEF PlayRequest, Closed, OrphanGoes, StopStream, DoubleFree
  <1>5. ASSUME NEW t \in Threads, Goon(t)
        PROVE  state' \in {"error", "disconnected"}
    <2>1. CASE UNCHANGED state
      BY <2>1
    <2>2. CASE SetState(t)
      <3>1. todo[t] # <<>> /\ state' = Head(todo[t]) /\ state' \in States
        BY <2>2 DEF SetState, At
      <3>2. Apart /\ Stages(t) /\ todo[Other(t)] = <<>> /\ Threads = {t, Other(t)}
        BY <2>2 DEF SetState, Goes, Mixes, Orderly, Apart, Other, Threads
      <3>3. CASE todo[t] = <<"streaming">>
        <4>1. Head(todo[t]) = "streaming"
          BY <3>3
        <4> QED BY <3>1, <3>2, <4>1 DEF Apart, HeadIn, Stopping, Finals, Rested
      <3>4. ASSUME NEW f \in Finals, todo[t] \in Rests(f)
            PROVE  state' \in {"error", "disconnected"}
        <4>1. state' \in {"cancel", "client", "server", "link", f}
          BY <3>1, <3>4, Shape
        <4> QED BY <3>1, <4>1 DEF States, Finals
      <3> QED BY <3>1, <3>2, <3>3, <3>4 DEF Stages
    <2> QED BY <1>5, <2>1, <2>2 DEF Goon, Cancel, DropClient, DropServer, DropLink
  <1> QED BY <1>2, <1>3, <1>4, <1>5 DEF Next

\* A Wi-Fi Direct session that failed stays failed until it is stopped: no late
\* answer and no connection of the sink revives it.
THEOREM ErrorsStay == Spec => ErrorStays
  <1>1. TypeInv /\ Orderly /\ [Next]_vars =>
            [~ overlapped' /\ kind = "p2p" /\ state = "error" => state' \in {"error", "disconnected"}]_state
    BY ErrorStep DEF vars
  <1>2. Spec => []TypeInv
    BY TypesHold
  <1> QED BY <1>1, <1>2, OrderlyHolds, PTL DEF Spec, ErrorStays

-----------------------------------------------------------------------------
(* The life of the sink *)

FinalOf(s) == s[Len(s)]

\* Only a Wi-Fi Direct session is taken down for an error, and only one that was begun.
Failing ==
    \A t \in Threads : todo[t] # <<>> /\ FinalOf(todo[t]) = "error" =>
        kind = "p2p" /\ state # "disconnected"

\* The server of a session that has its client accepts no other.
Tuned ==
    (\A t \in Threads : ~ Stopping(t)) /\ state \in {"wait_streaming", "streaming"} =>
        tv \/ ~ listening

OwnCalls == kind = "p2p" \/ NoCalls

LifeInv == OwnCalls /\ (~ overlapped => Failing /\ Tuned)

\* Nobody asks the firewall or NetworkManager but the Wi-Fi Direct sink.
LEMMA OwnCallsStep == TypeInv /\ OwnCalls /\ [Next]_vars => OwnCalls'
  <1> SUFFICES ASSUME TypeInv, NoCalls, [Next]_vars, kind # "p2p" PROVE NoCalls'
    BY KindKept DEF OwnCalls
  <1>1. CASE UNCHANGED vars
    BY <1>1 DEF vars, session, NoCalls
  <1>2. CASE StartP2P \/ FirewallReady \/ P2PFails \/ P2PConnected \/ LinkLost
    BY <1>2 DEF StartP2P, FirewallReady, P2PFails, P2PConnected, LinkLost, NoCalls
  <1>3. CASE StartMice \/ ClientConnected \/ PlayRequest \/ Closed \/ OrphanGoes \/ StopStream \/ DoubleFree
    BY <1>3 DEF StartMice, ClientConnected, PlayRequest, Closed, OrphanGoes, StopStream, DoubleFree, session, NoCalls
  <1>4. ASSUME NEW t \in Threads, Goon(t) PROVE NoCalls'
    BY <1>4 DEF Goon, Cancel, DropClient, DropServer, DropLink, SetState, Cancelled, session, NoCalls
  <1> QED BY <1>1, <1>2, <1>3, <1>4 DEF Next

\* What a frame leaves to do ends as before.
LEMMA FinalStays ==
    ASSUME NEW s \in Seq(Frames), s # <<>>, Tail(s) # <<>>
    PROVE  FinalOf(Tail(s)) = FinalOf(s)
  <1>1. Len(s) \in Nat /\ Len(s) # 0 /\ Len(Tail(s)) = Len(s) - 1 /\ Len(Tail(s)) # 0
    BY EmptySeq, HeadTailProperties
  <1>2. \A i \in 1 .. Len(Tail(s)) : Tail(s)[i] = s[i + 1]
    BY <1>1, HeadTailProperties
  <1> QED BY <1>1, <1>2 DEF FinalOf

\* The steps of handlers that are over at once.
LEMMA DoneLives ==
    ASSUME TypeInv, Orderly, LifeInv, ~ overlapped', kind' = kind,
           Idle("main"), Done,
           StartP2P \/ FirewallReady \/ P2PConnected \/ StartMice \/ ClientConnected
    PROVE  Failing' /\ Tuned' /\ (state' = state \/ <<state, state'>> \in Life!Moves(kind))
  <1>1. Apart /\ Rested /\ (\A t \in Threads : todo[t] = <<>>) /\ UNCHANGED todo /\ ~ overlapped
    BY AtRest DEF Done, Mixes
  <1>2. Failing'
    BY <1>1 DEF Failing
  <1>3. CASE StartP2P
    BY <1>1, <1>2, <1>3 DEF StartP2P, Tuned, Life!Moves, Life!Starts
  <1>4. CASE FirewallReady
    <2>1. kind = "p2p" /\ state = "ensure_firewall"
      BY <1>1, <1>4 DEF FirewallReady, LifeInv, OwnCalls, NoCalls, Rested
    <2>2. state' = "wait_p2p" \/ state' = state
      BY <1>4 DEF FirewallReady
    <2> QED BY <1>2, <2>1, <2>2 DEF Tuned, Life!Moves, Life!Advances
  <1>5. CASE P2PConnected
    <2>1. kind = "p2p" /\ state = "wait_p2p"
      BY <1>1, <1>5 DEF P2PConnected, LifeInv, OwnCalls, NoCalls, Rested
    <2>2. state' \in {"wait_p2p", "wait_socket", "error"}
      BY <1>5, <2>1 DEF P2PConnected, CodecsMissing
    <2> QED BY <1>2, <2>1, <2>2 DEF Tuned, Life!Moves, Life!Advances, Life!Fails, Life!Waiting
  <1>6. CASE StartMice
    <2>1. kind = "mice" /\ state = "disconnected" /\ state' \in {"disconnected", "wait_socket", "error"}
      BY <1>6, Zenon DEF StartMice, MiceFails
    <2> QED BY <1>2, <2>1 DEF Tuned, Life!Moves, Life!Starts
  <1>7. CASE ClientConnected
    <2>1. state' = "wait_streaming" /\ tv' /\ attached /\ listening /\ ~ tv
      BY <1>7 DEF ClientConnected
    <2>2. \A t \in Threads : ~ Stopping(t)
      BY <1>1 DEF Stopping, HeadIn
    <2>3. state \in {"wait_socket", "error"} /\ (state = "error" => kind = "mice")
      BY <1>1, <2>1, <2>2 DEF Rested, LifeInv, Tuned, TypeInv, NoClient, States
    <2>4. <<state, state'>> \in Life!Moves(kind)
      <3>1. kind \in {"p2p", "mice"}
        BY DEF TypeInv
      <3>2. CASE state = "wait_socket"
        BY <2>1, <3>1, <3>2 DEF Life!Moves, Life!Advances
      <3>3. CASE state = "error"
        BY <2>1, <2>3, <3>3 DEF Life!Moves, Life!Revives
      <3> QED BY <2>3, <3>2, <3>3
    <2> QED BY <1>2, <2>1, <2>4 DEF Tuned
  <1> QED BY <1>3, <1>4, <1>5, <1>6, <1>7

\* A handler that goes on: it changes no state yet.
LEMMA EnterLives ==
    ASSUME TypeInv, Orderly, ~ overlapped', UNCHANGED state,
           NEW t \in Threads, NEW fs \in Seq(Frames), todo[t] = <<>>, Enter(t, fs), fs # <<>>,
           FinalOf(fs) = "error" => kind = "p2p" /\ state # "disconnected",
           HeadIn(t, {"streaming"})' => UNCHANGED <<tv, listening>>,
           ~ HeadIn(t, {"streaming"})' => Stopping(t)',
           LifeInv
    PROVE  Failing' /\ Tuned'
  <1>1. todo[Other(t)] = <<>> /\ ~ overlapped /\ Other(t) \in Threads /\ Other(t) # t
        /\ Threads = {t, Other(t)} /\ kind' = kind
    BY DEF Enter, Mixes, Other, Threads
  <1>2. todo'[t] = fs /\ todo'[Other(t)] = <<>>
    BY <1>1 DEF Enter, TypeInv, TodoOK
  <1>3. Failing'
    BY <1>1, <1>2 DEF Failing
  <1>4. \A u \in Threads : ~ Stopping(u)
    BY <1>1 DEF Stopping, HeadIn
  <1>5. Tuned'
    BY <1>1, <1>4 DEF Tuned, LifeInv
  <1> QED BY <1>3, <1>5

\* Of what stop_stream_int leaves to do, the last frame is the state it ends in.
LEMMA StopFinal ==
    ASSUME NEW f \in Finals
    PROVE  /\ StopThen(f) \in Seq(Frames) /\ StopThen(f) # <<>>
           /\ FinalOf(StopThen(f)) = f /\ Head(StopThen(f)) = "cancel"
  <1>1. f \in Frames /\ \A a \in {"cancel", "client", "server", "link"} : a \in Frames
    BY DEF Finals, Frames, States
  <1>2. \A a, b, c, d, e \in Frames :
            /\ <<a, b, c, d, e>> \in Seq(Frames) /\ <<a, b, c, d, e>> # <<>>
            /\ Len(<<a, b, c, d, e>>) = 5 /\ <<a, b, c, d, e>>[5] = e /\ Head(<<a, b, c, d, e>>) = a
    OBVIOUS
  <1>3. CASE kind = "p2p"
    BY <1>1, <1>2, <1>3 DEF StopThen, FinalOf
  <1>4. CASE kind # "p2p"
    BY <1>1, <1>2, <1>4 DEF StopThen, FinalOf
  <1> QED BY <1>3, <1>4

\* The handlers that go on, to stop or to stream.
LEMMA HandlersLive ==
    ASSUME TypeInv, Orderly, LifeInv, ~ overlapped', kind' = kind, UNCHANGED state,
           \/ FirewallReady /\ FirewallFails
           \/ P2PFails \/ LinkLost \/ StopStream \/ Closed \/ PlayRequest
    PROVE  Failing' /\ Tuned'
  <1>1. ASSUME NEW t \in Threads, todo[t] = <<>>, NEW f \in Finals, Enter(t, StopThen(f)),
               f = "error" => kind = "p2p" /\ state # "disconnected"
        PROVE  Failing' /\ Tuned'
    <2>1. todo'[t] = StopThen(f)
      BY <1>1 DEF Enter, TypeInv, TodoOK
    <2>2. Stopping(t)' /\ ~ HeadIn(t, {"streaming"})'
      BY <2>1, StopFinal DEF Stopping, HeadIn
    <2> QED BY <1>1, <2>2, StopFinal, EnterLives
  <1>2. CASE (FirewallReady /\ FirewallFails) \/ P2PFails \/ LinkLost
    <2>1. Idle("main") /\ Enter("main", StopThen("error"))
      BY <1>2 DEF FirewallReady, FirewallFails, P2PFails, LinkLost
    <2>2. Mixes("main") /\ "main" \in Threads /\ todo["main"] = <<>>
      BY <2>1 DEF Enter, Idle, Threads
    <2>3. Rested
      BY <2>1, <2>2, AtRest
    <2>4. firewall > 0 \/ activation > 0 \/ (kind = "p2p" /\ link)
      BY <1>2 DEF FirewallReady, P2PFails, LinkLost
    <2>5. kind = "p2p" /\ state # "disconnected"
      BY <2>3, <2>4 DEF Rested, LifeInv, OwnCalls, NoCalls
    <2> QED BY <1>1, <2>1, <2>2, <2>5 DEF Finals
  <1>3. CASE StopStream
    BY <1>1, <1>3 DEF StopStream, Idle, Threads, Finals
  <1>4. CASE Closed
    <2>1. CASE client /\ state # "disconnected"
      BY <1>1, <1>4, <2>1 DEF Closed, Idle, Threads, Finals
    <2>2. CASE ~ (client /\ state # "disconnected")
      <3>1. UNCHANGED <<todo, overlapped, listening>> /\ ~ overlapped /\ Apart
        BY <1>4, <2>2 DEF Closed, Orderly
      <3>2. Failing'
        BY <3>1 DEF Failing, LifeInv
      <3>3. (\A t \in Threads : ~ Stopping(t)) => state \notin {"wait_streaming", "streaming"}
        BY <2>2, <3>1 DEF Apart, Rested
      <3>4. Tuned'
        BY <3>1, <3>3 DEF Tuned, Stopping, HeadIn
      <3> QED BY <3>2, <3>4
    <2> QED BY <2>1, <2>2
  <1>5. CASE PlayRequest
    <2>1. Idle("rtsp") /\ Enter("rtsp", <<"streaming">>) /\ UNCHANGED <<tv, listening>>
      BY <1>5 DEF PlayRequest, session
    <2>2. <<"streaming">> \in Seq(Frames) /\ <<"streaming">> # <<>> /\ FinalOf(<<"streaming">>) = "streaming"
          /\ Head(<<"streaming">>) = "streaming"
      BY DEF Frames, States, FinalOf
    <2>3. todo["rtsp"] = <<>> /\ "rtsp" \in Threads
      BY <2>1 DEF Idle, Threads
    <2>4. todo'["rtsp"] = <<"streaming">>
      BY <2>1, <2>3 DEF Enter, TypeInv, TodoOK
    <2>5. HeadIn("rtsp", {"streaming"})'
      BY <2>2, <2>4 DEF HeadIn
    <2> QED BY <2>1, <2>2, <2>3, <2>5, EnterLives
  <1> QED BY <1>2, <1>3, <1>4, <1>5

\* The frames: the last one sets the state.
LEMMA FramesLive ==
    ASSUME TypeInv, Orderly, LifeInv, ~ overlapped', kind' = kind, NEW t \in Threads, Goon(t)
    PROVE  Failing' /\ Tuned' /\ (state' = state \/ <<state, state'>> \in Life!Moves(kind))
  <1> DEFINE s == todo[t]
  <1>1. /\ Goes(t) /\ s # <<>> /\ s \in Seq(Frames) /\ Threads = {t, Other(t)} /\ Other(t) # t
        /\ todo[Other(t)] = <<>> /\ ~ overlapped /\ Apart /\ Failing /\ Tuned
        /\ todo'[t] = Tail(s) /\ todo'[Other(t)] = <<>>
    <2>1. Goes(t) /\ s # <<>>
      BY DEF Goon, Cancel, DropClient, DropServer, DropLink, SetState, At
    <2>2. s \in Seq(Frames) /\ Threads = {t, Other(t)} /\ Other(t) # t /\ Other(t) \in Threads
      BY DEF TypeInv, TodoOK, Other, Threads
    <2>3. todo[Other(t)] = <<>> /\ ~ overlapped
      BY <2>1 DEF Goes, Mixes
    <2>4. todo'[t] = Tail(s) /\ todo'[Other(t)] = <<>>
      BY <2>1, <2>2, <2>3 DEF Goes, TypeInv, TodoOK
    <2> QED BY <2>1, <2>2, <2>3, <2>4 DEF Orderly, LifeInv
  <1>2. ASSUME NEW f \in Finals, s \in Rests(f)
        PROVE  Failing' /\ Tuned' /\ (state' = state \/ <<state, state'>> \in Life!Moves(kind))
    <2>1. /\ Head(s) \in {"cancel", "client", "server", "link", f}
          /\ Head(s) = f => Tail(s) = <<>>
          /\ Head(s) # f => Tail(s) \in Rests(f)
      BY <1>2, Shape
    <2>2. CASE Head(s) # f
      <3>1. UNCHANGED state
        BY <2>1, <2>2 DEF Goon, Cancel, DropClient, DropServer, DropLink, SetState, At, States
      <3>2. Tail(s) # <<>> /\ Head(Tail(s)) \in {"cancel", "client", "server", "link", f}
        BY <2>1, <2>2, Shape
      <3>3. FinalOf(todo'[t]) = FinalOf(s)
        BY <1>1, <3>2, FinalStays
      <3>4. Failing'
        BY <1>1, <3>1, <3>3 DEF Failing
      <3>5. Stopping(t)'
        BY <1>1, <3>2 DEF Stopping, HeadIn
      <3> QED BY <3>1, <3>4, <3>5 DEF Tuned
    <2>3. CASE Head(s) = f
      <3>1. state' = f
        BY <2>3 DEF Goon, Cancel, DropClient, DropServer, DropLink, SetState, At, Finals
      <3>2. FinalOf(s) = f
        <4>1. Len(s) \in Nat /\ Len(Tail(s)) = Len(s) - 1
          BY <1>1, EmptySeq, HeadTailProperties
        <4>2. Len(Tail(s)) = Len(<<>>)
          BY <2>1, <2>3, Zenon
        <4>3. Len(<<>>) = 0
          OBVIOUS
        <4>4. Len(s) = 1
          BY <4>1, <4>2, <4>3
        <4> QED BY <1>1, <2>3, <4>4 DEF FinalOf
      <3>3. Failing'
        BY <1>1, <2>1, <2>3 DEF Failing
      <3>4. Tuned'
        BY <3>1 DEF Tuned, Finals
      <3>5. state' = state \/ <<state, state'>> \in Life!Moves(kind)
        <4>1. state \in Life!LifeStates
          BY DEF TypeInv, States, Life!LifeStates, Life!Waiting
        <4>2. CASE f = "disconnected"
          BY <3>1, <4>1, <4>2 DEF Life!Moves, Life!Stops
        <4>3. CASE f = "error"
          <5>1. kind = "p2p" /\ state # "disconnected"
            BY <1>1, <3>2, <4>3 DEF Failing
          <5> QED BY <3>1, <4>1, <4>3, <5>1 DEF Life!Moves, Life!Fails, Life!LifeStates
        <4> QED BY <4>2, <4>3 DEF Finals
      <3> QED BY <3>3, <3>4, <3>5
    <2> QED BY <2>2, <2>3
  <1>3. CASE s = <<"streaming">>
    <2>1. Head(s) = "streaming" /\ Tail(s) = <<>>
      BY <1>3
    <2>2. SetState(t) /\ state' = "streaming" /\ UNCHANGED session
      BY <2>1 DEF Goon, Cancel, DropClient, DropServer, DropLink, SetState, At, States
    <2>3. \A u \in Threads : ~ Stopping(u)
      BY <1>1, <2>1 DEF Stopping, HeadIn, Finals
    <2>4. state \in {"wait_streaming", "streaming"}
      <3>1. client /\ Rested
        BY <1>1, <2>1, <2>3 DEF Apart, HeadIn
      <3> QED BY <3>1 DEF Rested, NoClient, TypeInv, States
    <2>5. Failing'
      BY <1>1, <2>1 DEF Failing
    <2>6. Tuned'
      BY <1>1, <2>2, <2>3, <2>4 DEF Tuned, session
    <2>7. kind \in {"p2p", "mice"}
      BY DEF TypeInv
    <2> QED BY <2>2, <2>4, <2>5, <2>6, <2>7 DEF Life!Moves, Life!Advances
  <1>4. Stages(t)
    BY <1>1 DEF Apart
  <1> QED BY <1>1, <1>2, <1>3, <1>4 DEF Stages

LEMMA LifeInit == Init => LifeInv
  BY DEF Init, LifeInv, OwnCalls, NoCalls, Failing, Tuned

LEMMA LifeStep ==
    ASSUME TypeInv, Orderly, LifeInv, [Next]_vars
    PROVE  /\ LifeInv'
           /\ ~ overlapped' => state' = state \/ <<state, state'>> \in Life!Moves(kind)
  <1>1. OwnCalls' /\ kind' = kind
    BY OwnCallsStep, KindKept DEF LifeInv
  <1> SUFFICES ASSUME ~ overlapped'
               PROVE  Failing' /\ Tuned' /\ (state' = state \/ <<state, state'>> \in Life!Moves(kind))
    BY <1>1 DEF LifeInv
  <1>2. CASE UNCHANGED vars
    BY <1>2 DEF vars, session, LifeInv, Failing, Tuned, Stopping, HeadIn
  <1>3. CASE StartP2P \/ P2PConnected \/ StartMice \/ ClientConnected \/ (FirewallReady /\ Done)
    <2>1. Idle("main") /\ Done
      BY <1>3 DEF StartP2P, P2PConnected, StartMice, ClientConnected, FirewallReady
    <2> QED BY <1>1, <1>3, <2>1, DoneLives
  <1>4. CASE (FirewallReady /\ FirewallFails /\ UNCHANGED state)
             \/ P2PFails \/ LinkLost \/ StopStream \/ Closed \/ PlayRequest
    <2>1. UNCHANGED state
      BY <1>4 DEF P2PFails, LinkLost, StopStream, Closed, PlayRequest
    <2> QED BY <1>1, <1>4, <2>1, HandlersLive
  <1>5. CASE DoubleFree \/ OrphanGoes
    BY <1>5 DEF DoubleFree, OrphanGoes, session, LifeInv, Failing, Tuned, Stopping, HeadIn
  <1>6. ASSUME NEW t \in Threads, Goon(t)
        PROVE  Failing' /\ Tuned' /\ (state' = state \/ <<state, state'>> \in Life!Moves(kind))
    BY <1>1, <1>6, FramesLive
  <1>7. FirewallReady => (FirewallReady /\ Done) \/ (FirewallReady /\ FirewallFails /\ UNCHANGED state)
    BY DEF FirewallReady
  <1> QED BY <1>2, <1>3, <1>4, <1>5, <1>6, <1>7 DEF Next

\* Both Miracast sinks live the life of NdSink: whatever answers, connects, fails or is
\* stopped in whichever order, those who listen to notify::state see a session that
\* starts from the beginning and gets on step by step, as long as the threads are apart.
THEOREM SinkImplemented == Spec => ImplementsSink
  <1>1. Init => Life!Init
    BY DEF Init, Life!Init, Life!Kinds
  <1>2. TypeInv /\ TypeInv' /\ Orderly /\ LifeInv /\ [Next]_vars
            => [Life!Next]_<<kind, state, ~ overlapped>>
    <2> SUFFICES ASSUME TypeInv, TypeInv', Orderly, LifeInv, [Next]_vars
                 PROVE  Life!Next
      OBVIOUS
    <2>1. kind' = kind /\ (overlapped => overlapped')
      BY KindKept, OverlapStays
    <2>2. CASE overlapped'
      <3>1. state' \in Life!LifeStates
        BY DEF TypeInv, States, Life!LifeStates, Life!Waiting
      <3> QED BY <2>1, <2>2, <3>1 DEF Life!Next, Life!Mixed
    <2>3. CASE ~ overlapped'
      BY <2>1, <2>3, LifeStep DEF Life!Next, Life!Lives
    <2> QED BY <2>2, <2>3
  <1>3. TypeInv /\ Orderly /\ LifeInv /\ [Next]_vars => LifeInv'
    BY LifeStep
  <1>4. Spec => []TypeInv
    BY TypesHold
  <1> QED BY <1>1, <1>2, <1>3, <1>4, LifeInit, OrderlyHolds, PTL DEF Spec, ImplementsSink, Life!Spec
=============================================================================
