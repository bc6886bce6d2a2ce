------------------------- MODULE WfdHandshake_proofs -------------------------
(***************************************************************************)
(* Types of the session set-up; why a Wi-Fi Display session lasts as long  *)
(* as its sink answers keep-alives; that the exchanges M1 to M5 come in    *)
(* their order; that M4 is sent only once M3 was read; and that only a     *)
(* sink without a usable format makes the source crash.                    *)
(***************************************************************************)
EXTENDS WfdHandshake, TLAPS

\* The same conjuncts, in parts that a step disturbs apart.
StateTypes == init \in States /\ kind \in {"wfd", "rtsp"} /\ asked \in 0 .. MaxOptions /\ answered \in Nat

FlagTypes ==
    /\ codec \in BOOLEAN /\ queryTimer \in BOOLEAN /\ keepAlive \in BOOLEAN
    /\ session \in BOOLEAN /\ fresh \in BOOLEAN /\ closed \in BOOLEAN
    /\ crashed \in BOOLEAN /\ parsed \in BOOLEAN /\ early \in BOOLEAN

LoopTypes ==
    /\ idles \in Seq({"query", "params", "setup"})
    /\ main \in Seq(States \union Requests)
    /\ rtsp \in Seq({"plain", "DONE"})

WireTypes ==
    /\ out \in Seq(Requests)
    /\ inbox \in Seq(Requests \union {"OPTIONS", "SETUP"})
    /\ sent \in Seq(Requests)

TypeInv == StateTypes /\ FlagTypes /\ LoopTypes /\ WireTypes

LEMMA AppendTypes ==
    ASSUME NEW S, NEW s \in Seq(S), NEW e \in S
    PROVE  Append(s, e) \in Seq(S)
  OBVIOUS

\* What the callbacks of the main loop go on with.
LEMMA AsksTypes ==
    ASSUME NEW s \in States, NEW r \in Requests
    PROVE  Asks(s, r) \in Seq(States \union Requests) /\ <<r>> \in Seq(States \union Requests)
  <1>1. \A a, b \in States \union Requests :
           <<a, b>> \in Seq(States \union Requests) /\ <<b>> \in Seq(States \union Requests)
    OBVIOUS
  <1> QED BY <1>1 DEF Asks

LEMMA TypeInit == Init => TypeInv
  <1> SUFFICES ASSUME Init PROVE TypeInv
    OBVIOUS
  <1>1. \A S : <<>> \in Seq(S)
    OBVIOUS
  <1>2. LoopTypes /\ WireTypes
    BY <1>1 DEF Init, LoopTypes, WireTypes
  <1>3. StateTypes
    BY WfdHandshakeAssumption DEF Init, StateTypes, States
  <1>4. FlagTypes
    BY DEF Init, FlagTypes
  <1> QED BY <1>2, <1>3, <1>4 DEF TypeInv

LEMMA TypeStep == TypeInv /\ [Next]_vars => TypeInv'
  <1> SUFFICES ASSUME TypeInv, [Next]_vars PROVE TypeInv'
    OBVIOUS
  <1> USE WfdHandshakeAssumption DEF TypeInv
  <1>0. /\ {"M1", "M3", "M4", "M5"} \subseteq States
        /\ {"options", "get", "set", "trigger", "keep"} \subseteq Requests
        /\ \A S : <<>> \in Seq(S)
    BY DEF States, Requests
  <1>1. CASE QueryTimeout
    <2>1. main' \in Seq(States \union Requests)
      BY <1>0, <1>1, AsksTypes DEF QueryTimeout
    <2>2. LoopTypes' /\ WireTypes'
      BY <1>1, <2>1 DEF QueryTimeout, LoopTypes, WireTypes, history
    <2> QED BY <1>1, <2>2 DEF QueryTimeout, StateTypes, FlagTypes, life, history
  <1>2. CASE RunIdle
    <2>1. main' \in Seq(States \union Requests)
      BY <1>0, <1>2, AsksTypes DEF RunIdle
    <2>2. LoopTypes' /\ WireTypes'
      BY <1>2, <2>1 DEF RunIdle, LoopTypes, WireTypes, history
    <2> QED BY <1>2, <2>2 DEF RunIdle, StateTypes, FlagTypes, life, history
  <1>3. CASE SetState
    <2>1. LoopTypes' /\ WireTypes'
      BY <1>3 DEF SetState, MainGoesOn, LoopTypes, WireTypes, history
    <2> QED BY <1>3, <2>1 DEF SetState, StateTypes, FlagTypes, life, history
  <1>4. CASE Send
    <2>1. Head(main) \in Requests /\ main' = Tail(main) /\ main # <<>>
      BY <1>4 DEF Send, MainGoesOn
    <2>2. out' \in Seq(Requests) /\ sent' \in Seq(Requests)
      <3>1. Append(out, Head(main)) \in Seq(Requests) /\ Append(sent, Head(main)) \in Seq(Requests)
        BY <2>1, AppendTypes DEF WireTypes
      <3>2. CASE Head(main) = "set" /\ ~ codec
        BY <1>4, <3>2 DEF Send, WireTypes, history
      <3>3. CASE ~ (Head(main) = "set" /\ ~ codec)
        BY <1>4, <3>1, <3>3 DEF Send, WireTypes
      <3> QED BY <3>2, <3>3
    <2>3. LoopTypes' /\ WireTypes'
      BY <1>4, <2>1, <2>2 DEF Send, LoopTypes, WireTypes
    <2> QED BY <1>4, <2>3 DEF Send, StateTypes, FlagTypes, life, history
  <1>5. CASE KeepAliveTimeout
    <2>1. out' \in Seq(Requests)
      <3>1. Append(out, "keep") \in Seq(Requests)
        BY <1>0, AppendTypes DEF WireTypes
      <3> QED BY <1>5, <3>1 DEF KeepAliveTimeout, WireTypes
    <2>2. LoopTypes' /\ WireTypes'
      BY <1>5, <2>1 DEF KeepAliveTimeout, LoopTypes, WireTypes, history
    <2> QED BY <1>5, <2>2 DEF KeepAliveTimeout, StateTypes, FlagTypes, history
  <1>6. CASE Expire
    BY <1>6 DEF Expire, StateTypes, FlagTypes, LoopTypes, WireTypes, history
  <1>7. CASE HandleResponse
    <2>1. PICK m \in Requests : HandleResponse!(m)
      BY <1>7 DEF HandleResponse
    <2>2. Takes(m) /\ init' \in States
      BY <2>1 DEF Following, StateTypes, States
    <2>3. codec' \in BOOLEAN
      BY <2>1 DEF Parse, FlagTypes
    <2>4. idles' \in Seq({"query", "params", "setup"})
      <3>1. /\ Append(idles, "params") \in Seq({"query", "params", "setup"})
            /\ Append(idles, "setup") \in Seq({"query", "params", "setup"})
        BY AppendTypes DEF LoopTypes
      <3> QED BY <2>1, <3>1 DEF Queue, LoopTypes
    <2>5. LoopTypes' /\ WireTypes'
      BY <2>1, <2>2, <2>4 DEF Takes, LoopTypes, WireTypes
    <2>6. StateTypes' /\ FlagTypes'
      BY <2>1, <2>2, <2>3 DEF Touched, StateTypes, FlagTypes
    <2> QED BY <2>5, <2>6
  <1>8. CASE HandleOptions
    <2>1. idles' \in Seq({"query", "params", "setup"})
      <3>1. Append(idles, "query") \in Seq({"query", "params", "setup"})
        BY AppendTypes DEF LoopTypes
      <3> QED BY <1>8, <3>1 DEF HandleOptions, Queue, LoopTypes
    <2>2. rtsp' \in Seq({"plain", "DONE"})
      <3>1. \A a, b \in {"plain", "DONE"} : <<a, b>> \in Seq({"plain", "DONE"})
        OBVIOUS
      <3> QED BY <1>0, <1>8, <3>1 DEF HandleOptions
    <2>3. LoopTypes' /\ WireTypes'
      BY <1>8, <2>1, <2>2 DEF HandleOptions, Takes, LoopTypes, WireTypes, history
    <2> QED BY <1>8, <2>3 DEF HandleOptions, StateTypes, FlagTypes, life, history
  <1>9. CASE BecomePlain
    <2>1. LoopTypes' /\ WireTypes'
      BY <1>9 DEF BecomePlain, LoopTypes, WireTypes, history
    <2> QED BY <1>9, <2>1 DEF BecomePlain, StateTypes, FlagTypes, States, life, history
  <1>10. CASE HandleSetup
    <2>1. LoopTypes' /\ WireTypes'
      BY <1>10 DEF HandleSetup, Takes, LoopTypes, WireTypes, history
    <2> QED BY <1>10, <2>1 DEF HandleSetup, NeedsKeepAlive, StateTypes, FlagTypes, history
  <1>11. CASE Close
    <2>1. LoopTypes' /\ WireTypes'
      BY <1>0, <1>11 DEF Close, LoopTypes, WireTypes, history
    <2> QED BY <1>11, <2>1 DEF Close, StateTypes, FlagTypes, history
  <1>12. CASE SinkAnswers
    <2>1. out' \in Seq(Requests) /\ inbox' \in Seq(Requests \union {"OPTIONS", "SETUP"})
      BY <1>12 DEF SinkAnswers, Says, WireTypes
    <2> QED BY <1>12, <2>1 DEF SinkAnswers, StateTypes, FlagTypes, LoopTypes, WireTypes, life, history
  <1>13. CASE SinkOptions
    <2>1. inbox' \in Seq(Requests \union {"OPTIONS", "SETUP"})
      BY <1>13 DEF SinkOptions, Says, WireTypes
    <2> QED BY <1>13, <2>1 DEF SinkOptions, StateTypes, FlagTypes, LoopTypes, WireTypes, life, history
  <1>14. CASE SinkSetup
    <2>1. inbox' \in Seq(Requests \union {"OPTIONS", "SETUP"})
      BY <1>14 DEF SinkSetup, Says, WireTypes
    <2> QED BY <1>14, <2>1 DEF SinkSetup, StateTypes, FlagTypes, LoopTypes, WireTypes, life, history
  <1>15. CASE UNCHANGED vars
    BY <1>15 DEF vars, StateTypes, FlagTypes, LoopTypes, WireTypes, life, history
  <1> QED
    BY <1>1, <1>2, <1>3, <1>4, <1>5, <1>6, <1>7, <1>8, <1>9, <1>10, <1>11, <1>12, <1>13, <1>14,
       <1>15 DEF Next, MainLoop, RtspThread, Sink

LEMMA TypesHold == Spec => []TypeInv
  BY TypeInit, TypeStep, PTL DEF Spec

\* Every variable keeps its type; init_state never leaves its enumeration.
THEOREM TypeCorrect == Spec => []TypeOK
  <1>1. TypeInv => TypeOK
    BY DEF TypeInv, TypeOK, StateTypes, FlagTypes, LoopTypes, WireTypes
  <1> QED BY <1>1, TypesHold, PTL
-----------------------------------------------------------------------------
(* Keep-alives *)

\* The sink owes the answer to a keep-alive.
Owed == Contains(out, "keep") \/ Contains(inbox, "keep")

\* A Wi-Fi Display session has its keep-alive timer, and was touched since the last
\* keep-alive unless the answer is still to come.
Kept ==
    /\ closed => ~ session
    /\ session /\ kind = "wfd" => keepAlive /\ (fresh \/ Owed)

LEMMA ContainsAppend ==
    ASSUME NEW S, NEW s \in Seq(S), NEW e \in S, NEW x
    PROVE  /\ Contains(s, x) => Contains(Append(s, e), x)
           /\ Contains(Append(s, e), e)
  <1>1. Len(Append(s, e)) = Len(s) + 1 /\ Append(s, e)[Len(s) + 1] = e /\ Len(s) \in Nat
        /\ \A i \in 1 .. Len(s) : Append(s, e)[i] = s[i]
    OBVIOUS
  <1> QED BY <1>1 DEF Contains

LEMMA ContainsTail ==
    ASSUME NEW S, NEW s \in Seq(S), s # <<>>, NEW x, Contains(s, x)
    PROVE  Head(s) = x \/ Contains(Tail(s), x)
  <1>1. PICK i \in 1 .. Len(s) : s[i] = x
    BY DEF Contains
  <1>2. CASE i = 1
    BY <1>1, <1>2
  <1>3. CASE i # 1
    <2>1. i - 1 \in 1 .. Len(Tail(s)) /\ Tail(s)[i - 1] = s[i]
      BY <1>3
    <2> QED BY <1>1, <2>1 DEF Contains
  <1> QED BY <1>2, <1>3

LEMMA ContainsBoth ==
    ASSUME NEW S, NEW s \in Seq(S), NEW t \in Seq(S), NEW x
    PROVE  Contains(s, x) \/ Contains(t, x) => Contains(s \o t, x)
  <1>1. CASE Contains(s, x)
    <2>1. PICK i \in 1 .. Len(s) : s[i] = x
      BY <1>1 DEF Contains
    <2>2. i \in 1 .. Len(s \o t) /\ (s \o t)[i] = x
      BY <2>1
    <2> QED BY <2>2 DEF Contains
  <1>2. CASE Contains(t, x)
    <2>1. PICK i \in 1 .. Len(t) : t[i] = x
      BY <1>2 DEF Contains
    <2>2. Len(s) + i \in 1 .. Len(s \o t) /\ (s \o t)[Len(s) + i] = x
      BY <2>1
    <2> QED BY <2>2 DEF Contains
  <1> QED BY <1>1, <1>2

\* Only two steps end a session.
LEMMA SessionEnds ==
    ASSUME TypeInv, Next, session, ~ session'
    PROVE  Expire \/ Close
  BY DEF Next, MainLoop, RtspThread, Sink, QueryTimeout, RunIdle, SetState, Send, KeepAliveTimeout,
         HandleResponse, HandleOptions, BecomePlain, HandleSetup, SinkAnswers, SinkOptions,
         SinkSetup, life

\* What the sink owes, it owes until the RTSP thread takes up the answer.
LEMMA OwedStays ==
    ASSUME TypeInv, Next, Owed
    PROVE  Owed' \/ fresh' \/ closed'
  <1> USE DEF Owed
  <1>0. out \in Seq(Requests) /\ inbox \in Seq(Requests \union {"OPTIONS", "SETUP"})
    BY DEF TypeInv, WireTypes
  <1>1. CASE out' = out /\ inbox' = inbox
    BY <1>1
  <1>2. ASSUME NEW m, Takes(m), m # "keep", out' = out
        PROVE  Owed'
    BY <1>0, <1>2, ContainsTail DEF Takes
  <1>3. CASE HandleResponse
    BY <1>3 DEF HandleResponse, Touched
  <1>4. CASE HandleOptions \/ HandleSetup
    BY <1>2, <1>4 DEF HandleOptions, HandleSetup
  <1>5. CASE Send \/ KeepAliveTimeout
    <2>1. inbox' = inbox
      BY <1>5 DEF Send, KeepAliveTimeout
    <2>2. out' = out \/ \E e \in Requests : out' = Append(out, e)
      BY <1>5 DEF Send, KeepAliveTimeout, Requests, history
    <2>3. \A e \in Requests : Contains(out, "keep") => Contains(Append(out, e), "keep")
      BY <1>0, ContainsAppend
    <2> QED BY <2>1, <2>2, <2>3
  <1>6. CASE SinkAnswers
    <2>1. out # <<>> /\ Head(out) \in Requests /\ out' = Tail(out) /\ inbox' = Append(inbox, Head(out))
      BY <1>0, <1>6 DEF SinkAnswers, Says
    <2>2. Contains(inbox, "keep") => Contains(inbox', "keep")
      BY <1>0, <2>1, ContainsAppend
    <2>3. Contains(inbox', Head(out))
      BY <1>0, <2>1, ContainsAppend, SMTT(30)
    <2>4. Contains(out, "keep") => Head(out) = "keep" \/ Contains(out', "keep")
      BY <1>0, <2>1, ContainsTail
    <2> QED BY <2>2, <2>3, <2>4
  <1>7. CASE SinkOptions \/ SinkSetup
    <2>1. out' = out /\ \E e \in {"OPTIONS", "SETUP"} : inbox' = Append(inbox, e)
      BY <1>7 DEF SinkOptions, SinkSetup, Says
    <2> QED BY <1>0, <2>1, ContainsAppend
  <1>8. CASE QueryTimeout \/ RunIdle \/ SetState \/ Expire \/ BecomePlain
    BY <1>1, <1>8 DEF QueryTimeout, RunIdle, SetState, Expire, BecomePlain
  <1>9. CASE Close
    BY <1>9 DEF Close
  <1> QED BY <1>3, <1>4, <1>5, <1>6, <1>7, <1>8, <1>9 DEF Next, MainLoop, RtspThread, Sink

LEMMA KeptStep == TypeInv /\ Kept /\ [Next]_vars => Kept'
  <1> SUFFICES ASSUME TypeInv, Kept, [Next]_vars PROVE Kept'
    OBVIOUS
  <1> USE DEF Kept
  <1>1. CASE UNCHANGED vars
    BY <1>1 DEF vars, life, Owed
  <1>2. CASE HandleSetup
    BY <1>2 DEF HandleSetup, Takes, NeedsKeepAlive, TypeInv, FlagTypes
  <1>3. CASE Close
    BY <1>3 DEF Close
  <1>4. CASE KeepAliveTimeout
    <2>1. out \in Seq(Requests) /\ "keep" \in Requests
      BY DEF TypeInv, WireTypes, Requests
    <2>2. CASE closed
      BY <1>4, <2>2 DEF KeepAliveTimeout
    <2>3. CASE ~ closed
      <3>1. out' = Append(out, "keep") /\ UNCHANGED <<kind, keepAlive, session, closed>>
        BY <1>4, <2>3 DEF KeepAliveTimeout, life
      <3>2. Contains(out', "keep")
        BY <2>1, <3>1, ContainsAppend
      <3> QED BY <3>1, <3>2 DEF Owed
    <2> QED BY <2>2, <2>3
  <1>5. CASE Next /\ ~ HandleSetup /\ ~ Close /\ ~ KeepAliveTimeout
    <2>1. /\ session' => session
          /\ closed' = closed /\ keepAlive' = keepAlive
          /\ kind' = "wfd" => kind = "wfd"
          /\ fresh => fresh'
      <3>1. CASE MainLoop \/ Expire \/ Sink
        BY <3>1 DEF MainLoop, Sink, QueryTimeout, RunIdle, SetState, Send, Expire, SinkAnswers,
                    SinkOptions, SinkSetup, life
      <3>2. CASE HandleResponse \/ HandleOptions \/ BecomePlain
        <4>1. CASE HandleResponse
          <5>1. PICK m \in Requests : HandleResponse!(m)
            BY <4>1 DEF HandleResponse
          <5>2. UNCHANGED <<kind, queryTimer, main, rtsp, out, closed, crashed, asked, session,
                            keepAlive, early, sent>>
            BY <5>1
          <5>3. fresh' = (fresh \/ Touched)
            BY <5>1
          <5> QED BY <5>2, <5>3 DEF Touched
        <4>2. CASE HandleOptions
          BY <4>2 DEF HandleOptions, life
        <4>3. CASE BecomePlain
          BY <4>3 DEF BecomePlain, life
        <4> QED BY <3>2, <4>1, <4>2, <4>3
      <3> QED BY <1>5, <3>1, <3>2 DEF Next, RtspThread
    <2>2. Owed => Owed' \/ fresh' \/ closed'
      BY <1>5, OwedStays
    <2> QED BY <2>1, <2>2
  <1> QED BY <1>1, <1>2, <1>3, <1>4, <1>5

LEMMA KeptHolds == Spec => []Kept
  <1>1. Init => Kept
    BY DEF Init, Kept
  <1>2. Spec => []TypeInv
    BY TypesHold
  <1> QED BY <1>1, <1>2, KeptStep, PTL DEF Spec

\* clean_pool removes no session of a Wi-Fi Display sink that answers its keep-alives,
\* whatever session id the sink answers with.
THEOREM SessionsAreKept == Spec => SessionsLast
  <1>1. TypeInv /\ Kept /\ [Next]_vars =>
            [session /\ ~ session' =>
               closed' \/ kind = "rtsp" \/ Contains(out \o inbox, "keep")]_session
    <2> SUFFICES ASSUME TypeInv, Kept, Next, session, ~ session', ~ closed', kind # "rtsp"
                 PROVE  Contains(out \o inbox, "keep")
      BY DEF vars, life
    <2>1. Expire
      BY SessionEnds DEF Close
    <2>2. Owed
      BY <2>1 DEF Expire, Kept, TypeInv, StateTypes
    <2>3. out \in Seq(Requests \union {"OPTIONS", "SETUP"})
      BY DEF TypeInv, WireTypes
    <2> QED BY <2>2, <2>3, ContainsBoth DEF Owed, TypeInv, WireTypes
  <1>2. Spec => []TypeInv
    BY TypesHold
  <1> QED BY <1>1, <1>2, KeptHolds, PTL DEF Spec, SessionsLast
-----------------------------------------------------------------------------
(* The exchanges M1 to M5 *)

\* What the sink says of its own accord
Own == {"OPTIONS", "SETUP"}

AllIn(s, S) == \A i \in 1 .. Len(s) : s[i] \in S

\* No answer is on its way, nor a request that will have one.
Quiet == out = <<>> /\ AllIn(inbox, Own)

\* This request is, and nothing else the source has sent.
InFlight(request) ==
    \/ out = <<request>> /\ AllIn(inbox, Own)
    \/ /\ out = <<>>
       /\ \E k \in 1 .. Len(inbox) :
              inbox[k] = request /\ \A i \in 1 .. Len(inbox) : i # k => inbox[i] \in Own

\* Neither the timer of the first request nor the RTSP thread has anything left to do.
Settled == ~ queryTimer /\ rtsp = <<>>

\* The whole of the set-up: the state, what is queued, what the main loop goes on with,
\* what was sent and how much of it was answered.
Stands(state, queued, going, said, n) ==
    init = state /\ idles = queued /\ main = going /\ sent = said /\ answered = n

\* Up to the answer to the first request.  A client taken for an ordinary one is DONE,
\* yet may be asked for Wi-Fi Display all the same.
Opening ==
    /\ init \in {"M0", "M1", "DONE"} /\ idles = <<>> /\ ~ keepAlive
    /\ rtsp \in {<<>>, <<"plain", "DONE">>, <<"DONE">>}
    /\ init = "DONE" \/ rtsp = <<"DONE">> => kind = "rtsp"
    /\ \/ /\ sent = <<>> /\ answered = 0 /\ Quiet
          /\ main \in {<<>>, <<"M1", "options">>, <<"options">>}
          /\ queryTimer => main = <<>>
          /\ main = <<"options">> => init # "M0"
       \/ /\ sent = <<"options">> /\ main = <<>> /\ ~ queryTimer
          /\ \/ answered = 0 /\ InFlight("options") /\ init # "M0"
             \/ answered = 1 /\ Quiet /\ init = "DONE" /\ rtsp # <<"plain", "DONE">>

\* From the answer on, one exchange after the other
InM2 ==
    /\ Quiet
    /\ \/ Stands("M2", <<>>, <<>>, <<"options">>, 1)
       \/ /\ \/ Stands("M2", <<"query">>, <<>>, <<"options">>, 1)
             \/ Stands("M2", <<>>, <<"M3", "get">>, <<"options">>, 1)
          /\ asked = 1 /\ ~ Contains(inbox, "OPTIONS")
       \/ Stands("M3", <<>>, <<"get">>, <<"options">>, 1)

InM3 ==
    \/ Stands("M3", <<>>, <<>>, <<"options", "get">>, 1) /\ InFlight("get")
    \/ /\ Quiet
       /\ \/ Stands("M3", <<"params">>, <<>>, <<"options", "get">>, 2)
          \/ Stands("M3", <<>>, <<"M4", "set">>, <<"options", "get">>, 2)
          \/ Stands("M4", <<>>, <<"set">>, <<"options", "get">>, 2)

InM4 ==
    \/ Stands("M4", <<>>, <<>>, <<"options", "get", "set">>, 2) /\ InFlight("set")
    \/ /\ Quiet
       /\ \/ Stands("M4", <<"setup">>, <<>>, <<"options", "get", "set">>, 3)
          \/ Stands("M4", <<>>, <<"M5", "trigger">>, <<"options", "get", "set">>, 3)

Closing ==
    /\ init \in {"M5", "DONE"} /\ idles = <<>> /\ answered >= 3
    /\ \/ main = <<"trigger">> /\ sent = <<"options", "get", "set">>
       \/ main = <<>> /\ sent = Steps

\* The sink has asked once at most.
Once ==
    asked =< 1 =>
        /\ \A i, j \in 1 .. Len(inbox) : inbox[i] = "OPTIONS" /\ inbox[j] = "OPTIONS" => i = j
        /\ asked = 0 => ~ Contains(inbox, "OPTIONS")

Staged ==
    asked =< 1 /\ ~ early /\ ~ closed /\ ~ crashed =>
        Opening \/ (Settled /\ ((~ keepAlive /\ (InM2 \/ InM3 \/ InM4)) \/ Closing))

\* Before the parameters of the sink are read, there are only the first two requests,
\* however often the second is made.
Querying ==
    /\ init \in {"M2", "M3"} /\ ~ keepAlive /\ Settled
    /\ AllIn(idles, {"query"}) /\ main \in {<<>>, <<"M3", "get">>, <<"get">>}
    /\ AllIn(out, {"get"}) /\ AllIn(inbox, Own \union {"get"}) /\ AllIn(sent, {"options", "get"})

Read == ~ early /\ ~ closed /\ ~ crashed => Opening \/ Querying \/ parsed

LEMMA AllInAppend ==
    ASSUME NEW T, NEW s \in Seq(T), NEW e \in T, NEW S, e \in S, AllIn(s, S)
    PROVE  AllIn(Append(s, e), S)
  BY DEF AllIn

LEMMA AllInTail ==
    ASSUME NEW T, NEW s \in Seq(T), s # <<>>, NEW S, AllIn(s, S)
    PROVE  Head(s) \in S /\ AllIn(Tail(s), S)
  BY DEF AllIn

\* What the RTSP thread takes up is the request that was in flight, answered, or
\* something the sink says of its own accord.
LEMMA TakesWire ==
    ASSUME TypeInv, NEW m, Takes(m), UNCHANGED out
    PROVE  /\ Quiet => m \in Own /\ Quiet'
           /\ \A x \in Requests : InFlight(x) => (m \in Own /\ InFlight(x)') \/ (m = x /\ Quiet')
  <1>0. /\ inbox \in Seq(Requests \union Own) /\ inbox # <<>> /\ Head(inbox) = m /\ inbox' = Tail(inbox)
        /\ out' = out
    BY DEF Takes, TypeInv, WireTypes, Own
  <1>1. ASSUME AllIn(inbox, Own) PROVE m \in Own /\ AllIn(inbox', Own)
    BY <1>0, <1>1, AllInTail
  <1>2. ASSUME NEW x \in Requests, NEW k \in 1 .. Len(inbox), inbox[k] = x,
               \A i \in 1 .. Len(inbox) : i # k => inbox[i] \in Own
        PROVE  \/ m = x /\ AllIn(inbox', Own)
               \/ /\ m \in Own
                  /\ \E j \in 1 .. Len(inbox') :
                         inbox'[j] = x /\ \A i \in 1 .. Len(inbox') : i # j => inbox'[i] \in Own
    <2>1. /\ Len(inbox) \in Nat \ {0} /\ Len(inbox') = Len(inbox) - 1
          /\ \A i \in 1 .. Len(inbox') : inbox'[i] = inbox[i + 1]
          /\ m = inbox[1]
      BY <1>0
    <2>2. CASE k = 1
      BY <1>2, <2>1, <2>2 DEF AllIn
    <2>3. CASE k # 1
      <3>1. k - 1 \in 1 .. Len(inbox') /\ inbox'[k - 1] = x
        BY <1>2, <2>1, <2>3
      <3>2. \A i \in 1 .. Len(inbox') : i # k - 1 => inbox'[i] \in Own
        BY <1>2, <2>1, <2>3
      <3>3. m \in Own
        BY <1>2, <2>1, <2>3
      <3> QED BY <3>1, <3>2, <3>3
    <2> QED BY <2>2, <2>3
  <1>3. ASSUME NEW x \in Requests, InFlight(x) PROVE (m \in Own /\ InFlight(x)') \/ (m = x /\ Quiet')
    BY <1>0, <1>1, <1>2, <1>3 DEF InFlight, Quiet
  <1> QED BY <1>0, <1>1, <1>3 DEF Quiet

\* Whatever else the sink says, it keeps this apart.
LEMMA SaysWire ==
    ASSUME TypeInv, NEW e \in Own, Says(e), UNCHANGED out
    PROVE  (Quiet => Quiet') /\ \A x \in Requests : InFlight(x) => InFlight(x)'
  <1>0. inbox \in Seq(Requests \union Own) /\ inbox' = Append(inbox, e) /\ out' = out
    BY DEF Says, TypeInv, WireTypes, Own
  <1>1. AllIn(inbox, Own) => AllIn(inbox', Own)
    BY <1>0, AllInAppend
  <1>2. /\ Len(inbox) \in Nat /\ Len(inbox') = Len(inbox) + 1 /\ inbox'[Len(inbox) + 1] = e
        /\ \A i \in 1 .. Len(inbox) : inbox'[i] = inbox[i]
    BY <1>0
  <1>3. ASSUME NEW x \in Requests, NEW k \in 1 .. Len(inbox), inbox[k] = x,
               \A i \in 1 .. Len(inbox) : i # k => inbox[i] \in Own
        PROVE  \E j \in 1 .. Len(inbox') :
                   inbox'[j] = x /\ \A i \in 1 .. Len(inbox') : i # j => inbox'[i] \in Own
    <2>1. k \in 1 .. Len(inbox') /\ inbox'[k] = x
      BY <1>2, <1>3
    <2>2. \A i \in 1 .. Len(inbox') : i # k => inbox'[i] \in Own
      BY <1>2, <1>3
    <2> QED BY <2>1, <2>2
  <1> QED BY <1>0, <1>1, <1>3 DEF Quiet, InFlight

LEMMA AnswersWire ==
    ASSUME TypeInv, SinkAnswers
    PROVE  ~ Quiet /\ \A x \in Requests : InFlight(x) => InFlight(x)'
  <1>0. /\ out # <<>> /\ out' = Tail(out) /\ inbox' = Append(inbox, Head(out))
        /\ inbox \in Seq(Requests \union Own)
    BY DEF SinkAnswers, Says, TypeInv, WireTypes, Own
  <1>1. ASSUME NEW x \in Requests, InFlight(x) PROVE InFlight(x)'
    <2>1. out = <<x>> /\ AllIn(inbox, Own)
      BY <1>0, <1>1 DEF InFlight
    <2>2. out' = <<>> /\ inbox' = Append(inbox, x)
      BY <1>0, <2>1
    <2>3. /\ Len(inbox) \in Nat /\ Len(inbox') = Len(inbox) + 1 /\ inbox'[Len(inbox) + 1] = x
          /\ \A i \in 1 .. Len(inbox) : inbox'[i] = inbox[i]
      BY <1>0, <2>2
    <2>4. /\ Len(inbox) + 1 \in 1 .. Len(inbox')
          /\ \A i \in 1 .. Len(inbox') : i # Len(inbox) + 1 => inbox'[i] \in Own
      BY <2>1, <2>3 DEF AllIn
    <2> QED BY <2>2, <2>3, <2>4 DEF InFlight
  <1> QED BY <1>0, <1>1 DEF Quiet

\* What is sent when nothing is on its way is in flight.
LEMMA SendWire ==
    ASSUME TypeInv, Quiet, NEW x, out' = Append(out, x), UNCHANGED inbox
    PROVE  InFlight(x)'
  BY DEF Quiet, InFlight

\* Nothing of the set-up changes, and what is in flight stays so.
Stays ==
    /\ UNCHANGED <<init, idles, main, sent, answered, queryTimer, rtsp, kind, keepAlive, parsed>>
    /\ Quiet => Quiet'
    /\ \A x \in Requests : InFlight(x) => InFlight(x)'

LEMMA SinkStays ==
    ASSUME TypeInv, Expire \/ Sink \/ (HandleSetup /\ (keepAlive \/ kind = "rtsp"))
    PROVE  Stays
  <1>1. CASE Expire
    BY <1>1 DEF Expire, Stays, Quiet, InFlight, history
  <1>2. CASE SinkAnswers
    BY <1>2, AnswersWire DEF SinkAnswers, Stays, life, history
  <1>3. CASE SinkOptions \/ SinkSetup
    <2>1. PICK e \in Own : Says(e)
      BY <1>3 DEF SinkOptions, SinkSetup, Own
    <2>2. UNCHANGED out
      BY <1>3 DEF SinkOptions, SinkSetup
    <2> QED BY <1>3, <2>1, <2>2, SaysWire DEF SinkOptions, SinkSetup, Stays, life, history
  <1>4. CASE HandleSetup /\ (keepAlive \/ kind = "rtsp")
    <2>1. Takes("SETUP") /\ UNCHANGED out /\ "SETUP" \notin Requests
      BY <1>4 DEF HandleSetup, Requests
    <2>2. keepAlive' = keepAlive
      BY <1>4 DEF HandleSetup, NeedsKeepAlive, TypeInv, FlagTypes
    <2>3. (Quiet => Quiet') /\ \A x \in Requests : InFlight(x) => InFlight(x)'
      BY <2>1, TakesWire
    <2> QED BY <1>4, <2>2, <2>3 DEF HandleSetup, Stays, history
  <1> QED BY <1>1, <1>2, <1>3, <1>4 DEF Sink

LEMMA OpeningStays ==
    ASSUME Opening, Stays
    PROVE  Opening'
  <1>1. "options" \in Requests
    BY DEF Requests
  <1> QED BY <1>1 DEF Opening, Stays

\* The first exchange goes on, or its answer asks for the second one.
LEMMA OpeningStep ==
    ASSUME TypeInv, Opening, Next, ~ early', ~ closed', ~ crashed'
    PROVE  \/ Opening'
           \/ (Quiet /\ Settled /\ ~ keepAlive /\ Stands("M2", <<>>, <<>>, <<"options">>, 1))'
  <1>0. Requests \cap Own = {} /\ "options" \in Requests /\ "OPTIONS" \in Own /\ States \cap Requests = {}
        /\ "M1" \in States
    BY DEF Requests, Own, States
  <1>1. CASE Expire \/ Sink
    BY <1>1, SinkStays, OpeningStays
  <1>2. CASE QueryTimeout
    <2>1. /\ queryTimer /\ ~ queryTimer' /\ main' \in {<<>>, <<"M1", "options">>}
          /\ UNCHANGED <<init, kind, idles, rtsp, out, inbox, keepAlive, sent, answered>>
      BY <1>2 DEF QueryTimeout, Asks, life, history
    <2>2. sent = <<>> /\ answered = 0 /\ Quiet'
      BY <2>1 DEF Opening, Quiet
    <2>3. main' # <<"options">>
      BY <2>1
    <2> QED BY <2>1, <2>2, <2>3 DEF Opening
  <1>3. CASE RunIdle \/ KeepAliveTimeout
    BY <1>3 DEF RunIdle, KeepAliveTimeout, Opening
  <1>4. CASE SetState
    <2>1. main = <<"M1", "options">> /\ main' = <<"options">> /\ init' = "M1" /\ sent = <<>>
      <3>1. main # <<>> /\ Head(main) \notin Requests /\ init' = Head(main) /\ main' = Tail(main)
        BY <1>0, <1>4 DEF SetState, MainGoesOn
      <3>2. main \in {<<>>, <<"M1", "options">>, <<"options">>}
        BY DEF Opening
      <3>3. main = <<"M1", "options">>
        BY <1>0, <3>1, <3>2
      <3> QED BY <3>1, <3>3 DEF Opening
    <2> QED BY <1>4, <2>1 DEF SetState, Opening, Quiet, life, history
  <1>5. CASE Send
    <2>1. main = <<"options">> /\ main' = <<>> /\ sent = <<>> /\ answered = 0 /\ Quiet /\ init # "M0"
          /\ ~ queryTimer
      BY <1>0, <1>5 DEF Send, MainGoesOn, Opening
    <2>2. /\ out' = Append(out, "options") /\ sent' = Append(sent, "options")
          /\ UNCHANGED <<init, kind, queryTimer, idles, rtsp, inbox, answered, keepAlive>>
      BY <1>5, <2>1 DEF Send, life
    <2>3. InFlight("options")' /\ sent' = <<"options">>
      BY <2>1, <2>2, SendWire
    <2> QED BY <2>1, <2>2, <2>3 DEF Opening
  <1>6. CASE HandleResponse
    <2>1. PICK m \in Requests : HandleResponse!(m)
      BY <1>6 DEF HandleResponse
    <2>2. Takes(m) /\ UNCHANGED <<kind, queryTimer, main, rtsp, out, sent, keepAlive>> /\ rtsp = <<>>
      BY <2>1 DEF Takes
    <2>3. ~ Quiet
      BY <1>0, <2>2, TakesWire
    <2>4. sent = <<"options">> /\ main = <<>> /\ ~ queryTimer /\ answered = 0 /\ InFlight("options") /\ init # "M0"
      BY <2>3 DEF Opening
    <2>5. m = "options" /\ Quiet'
      BY <1>0, <2>2, <2>4, TakesWire
    <2>6. answered' = 1
      BY <2>1, <2>4, <2>5
    <2>7. CASE init = "M1"
      <3>1. init' = "M2" /\ UNCHANGED idles
        BY <2>1, <2>7 DEF Following
      <3> QED BY <2>2, <2>4, <2>5, <2>6, <3>1 DEF Opening, Settled, Stands
    <2>8. CASE init = "DONE"
      <3>1. UNCHANGED <<init, idles>>
        BY <2>1, <2>8
      <3> QED BY <2>2, <2>4, <2>5, <2>6, <2>8, <3>1 DEF Opening
    <2> QED BY <2>4, <2>7, <2>8 DEF Opening
  <1>7. CASE HandleOptions
    <2>1. /\ Takes("OPTIONS") /\ rtsp = <<>> /\ init # "M2"
          /\ UNCHANGED <<init, kind, idles, queryTimer, main, out, keepAlive, sent, answered>>
          /\ rtsp' = IF init \in {"M0", "M1"} THEN <<"plain", "DONE">> ELSE <<>>
      BY <1>7 DEF HandleOptions, Takes, Awaited, Opening, life, history
    <2>2. (Quiet => Quiet') /\ (InFlight("options") => InFlight("options")')
      BY <1>0, <2>1, TakesWire
    <2> QED BY <2>1, <2>2 DEF Opening
  <1>8. CASE BecomePlain
    <2>1. UNCHANGED <<idles, queryTimer, main, out, inbox, keepAlive, sent, answered>>
      BY <1>8 DEF BecomePlain, life, history
    <2>2. (Quiet => Quiet') /\ (InFlight("options") => InFlight("options")')
      BY <2>1 DEF Quiet, InFlight
    <2>3. CASE rtsp = <<"plain", "DONE">>
      <3>1. rtsp' = <<"DONE">> /\ kind' = "rtsp" /\ UNCHANGED init
        BY <1>8, <2>3 DEF BecomePlain
      <3> QED BY <2>1, <2>2, <2>3, <3>1 DEF Opening
    <2>4. CASE rtsp = <<"DONE">>
      <3>1. rtsp' = <<>> /\ init' = "DONE" /\ kind' = kind
        BY <1>8, <2>4 DEF BecomePlain
      <3> QED BY <2>1, <2>2, <2>4, <3>1 DEF Opening
    <2> QED BY <1>8, <2>3, <2>4 DEF BecomePlain, Opening
  <1>9. CASE HandleSetup
    <2>1. kind = "rtsp" /\ ~ keepAlive
      BY <1>9 DEF HandleSetup, Opening
    <2> QED BY <1>9, <2>1, SinkStays, OpeningStays
  <1>10. CASE Close
    BY <1>10 DEF Close
  <1> QED
    BY <1>1, <1>2, <1>3, <1>4, <1>5, <1>6, <1>7, <1>8, <1>9, <1>10 DEF Next, MainLoop, RtspThread

\* Between the answer to M1 and the last request, these are the steps there are.
LEMMA MiddleSteps ==
    ASSUME TypeInv, Settled, ~ keepAlive, init \in {"M2", "M3", "M4"}, Next, ~ early', ~ closed'
    PROVE  /\ Settled' /\ ~ keepAlive'
           /\ \/ Stays /\ asked' = asked /\ (~ Contains(inbox, "OPTIONS") => ~ Contains(inbox', "OPTIONS"))
              \/ Stays /\ SinkOptions
              \/ RunIdle \/ SetState \/ Send \/ HandleResponse
              \/ HandleOptions /\ init = "M2"
  <1>1. CASE RunIdle \/ SetState \/ Send
    BY <1>1 DEF RunIdle, SetState, Send, Settled, life
  <1>2. CASE HandleResponse
    BY <1>2 DEF HandleResponse, Takes, Settled
  <1>3. CASE HandleOptions /\ init = "M2"
    BY <1>3 DEF HandleOptions, Settled, life
  <1>4. CASE HandleOptions /\ init # "M2"
    <2>1. /\ Takes("OPTIONS") /\ "OPTIONS" \notin Requests /\ rtsp' = <<>>
          /\ UNCHANGED <<init, idles, main, sent, answered, queryTimer, kind, keepAlive, parsed, out, asked>>
      BY <1>4 DEF HandleOptions, Awaited, Requests, life, history
    <2>2. Stays
      BY <2>1, TakesWire DEF Stays, Settled
    <2>3. Contains(inbox, "OPTIONS")
      BY <2>1 DEF Takes, Contains, TypeInv, WireTypes
    <2> QED BY <2>1, <2>2, <2>3 DEF Settled
  <1>5. CASE Expire \/ SinkAnswers \/ SinkSetup
    <2>1. Stays /\ asked' = asked
      <3>1. Expire \/ Sink
        BY <1>5 DEF Sink
      <3>2. asked' = asked
        BY <1>5 DEF Expire, SinkAnswers, SinkSetup
      <3>3. Stays
        BY <3>1, SinkStays
      <3> QED BY <3>2, <3>3
    <2>2. inbox' = inbox \/ \E e \in Requests \union {"SETUP"} : inbox' = Append(inbox, e)
      BY <1>5 DEF Expire, SinkAnswers, SinkSetup, Says, TypeInv, WireTypes
    <2>3. \A e \in Requests \union {"SETUP"} : e # "OPTIONS"
      BY DEF Requests
    <2>4. ~ Contains(inbox, "OPTIONS") => ~ Contains(inbox', "OPTIONS")
      BY <2>2, <2>3, SMTT(30) DEF Contains, TypeInv, WireTypes
    <2> QED BY <2>1, <2>4 DEF Stays, Settled
  <1>6. CASE SinkOptions
    <2>1. Stays
      BY <1>6, SinkStays DEF Sink
    <2> QED BY <1>6, <2>1 DEF Stays, Settled
  <1>7. CASE HandleSetup
    BY <1>7 DEF HandleSetup
  <1>8. CASE QueryTimeout \/ KeepAliveTimeout \/ BecomePlain \/ Close
    BY <1>8 DEF QueryTimeout, KeepAliveTimeout, BecomePlain, Close, Settled
  <1> QED
    BY <1>1, <1>2, <1>3, <1>4, <1>5, <1>6, <1>7, <1>8 DEF Next, MainLoop, RtspThread, Sink

\* A stage that is one of these lasts while nothing changes.
LEMMA StandsStays ==
    ASSUME NEW s, NEW i, NEW m, NEW d, NEW n, Stands(s, i, m, d, n), Stays
    PROVE  Stands(s, i, m, d, n)'
  BY DEF Stands, Stays

LEMMA AppendIs ==
    \A S : \A s, t \in Seq(S) : \A x \in S :
        Len(t) = Len(s) + 1 /\ (\A i \in 1 .. Len(s) : t[i] = s[i]) /\ t[Len(s) + 1] = x
            => Append(s, x) = t
  OBVIOUS

\* The requests as they are written out.
LEMMA Grown ==
    ASSUME NEW a, NEW b, NEW c
    PROVE  Append(<<a>>, b) = <<a, b>> /\ Append(<<a, b>>, c) = <<a, b, c>>
  <1> DEFINE S == {a, b, c}
  <1>1. Append(<<a>>, b) = <<a, b>>
    <2> DEFINE s == <<a>>  t == <<a, b>>
    <2>1. s \in Seq(S) /\ t \in Seq(S) /\ Len(s) = 1 /\ Len(t) = 2 /\ b \in S
      OBVIOUS
    <2>2. t[2] = b /\ \A i \in 1 .. 1 : t[i] = s[i]
      OBVIOUS
    <2> HIDE DEF s, t, S
    <2>3. Len(t) = Len(s) + 1 /\ (\A i \in 1 .. Len(s) : t[i] = s[i]) /\ t[Len(s) + 1] = b
      BY <2>1, <2>2
    <2>4. Append(s, b) = t
      BY <2>1, <2>3, AppendIs
    <2> QED BY <2>4 DEF s, t
  <1>2. Append(<<a, b>>, c) = <<a, b, c>>
    <2> DEFINE s == <<a, b>>  t == <<a, b, c>>
    <2>1. s \in Seq(S) /\ t \in Seq(S) /\ Len(s) = 2 /\ Len(t) = 3 /\ c \in S
      OBVIOUS
    <2>2. t[3] = c /\ \A i \in 1 .. 2 : t[i] = s[i]
      OBVIOUS
    <2> HIDE DEF s, t, S
    <2>3. Len(t) = Len(s) + 1 /\ (\A i \in 1 .. Len(s) : t[i] = s[i]) /\ t[Len(s) + 1] = c
      BY <2>1, <2>2
    <2>4. Append(s, c) = t
      BY <2>1, <2>3, AppendIs, ZenonT(40)
    <2> QED BY <2>4 DEF s, t
  <1> QED BY <1>1, <1>2

LEMMA GrownLast ==
    ASSUME NEW a, NEW b, NEW c, NEW d
    PROVE  Append(<<a, b, c>>, d) = <<a, b, c, d>>
  <1> DEFINE S == {a, b, c, d}
  <1> DEFINE s == <<a, b, c>>  t == <<a, b, c, d>>
  <1>1. s \in Seq(S) /\ t \in Seq(S) /\ Len(s) = 3 /\ Len(t) = 4 /\ d \in S
    OBVIOUS
  <1>2. t[4] = d /\ \A i \in 1 .. 3 : t[i] = s[i]
    OBVIOUS
  <1> HIDE DEF s, t, S
  <1>3. Len(t) = Len(s) + 1 /\ (\A i \in 1 .. Len(s) : t[i] = s[i]) /\ t[Len(s) + 1] = d
    BY <1>1, <1>2
  <1>4. Append(s, d) = t
    BY <1>1, <1>3, AppendIs, ZenonT(40)
  <1> QED BY <1>4 DEF s, t

\* The single request for M2 starts the exchange M3.
LEMMA InM2Step ==
    ASSUME TypeInv, Once, asked' =< 1, Settled, ~ keepAlive, InM2, Next, ~ early', ~ closed', ~ crashed'
    PROVE  Settled' /\ ~ keepAlive' /\ (InM2' \/ InM3')
  <1>0. /\ Requests \cap Own = {} /\ "get" \in Requests /\ "OPTIONS" \in Own /\ States \cap Requests = {}
        /\ "M3" \in States /\ init \in {"M2", "M3"} /\ init \in {"M2", "M3", "M4"} /\ Quiet
        /\ asked \in Nat
    BY WfdHandshakeAssumption DEF Requests, Own, States, InM2, Stands, TypeInv, StateTypes
  <1>1. /\ Settled' /\ ~ keepAlive'
        /\ \/ Stays /\ asked' = asked /\ (~ Contains(inbox, "OPTIONS") => ~ Contains(inbox', "OPTIONS"))
           \/ Stays /\ SinkOptions
           \/ RunIdle \/ SetState \/ Send \/ HandleResponse
           \/ HandleOptions /\ init = "M2"
    BY <1>0, MiddleSteps
  <1>2. CASE Stays /\ asked' = asked /\ (~ Contains(inbox, "OPTIONS") => ~ Contains(inbox', "OPTIONS"))
    BY <1>1, <1>2 DEF Stays, InM2, Stands
  <1>3. CASE Stays /\ SinkOptions
    <2>1. asked # 1
      BY <1>0, <1>3 DEF SinkOptions
    <2> QED BY <1>1, <1>3, <2>1 DEF Stays, InM2, Stands
  <1>4. CASE RunIdle
    <2>1. init = "M2" /\ idles = <<"query">> /\ sent = <<"options">> /\ answered = 1
          /\ asked = 1 /\ ~ Contains(inbox, "OPTIONS")
      BY <1>4 DEF RunIdle, InM2, Stands
    <2>2. idles' = <<>> /\ main' = <<"M3", "get">> /\ UNCHANGED <<init, out, inbox, sent, answered, asked>>
      BY <1>4, <2>1 DEF RunIdle, Asks, history
    <2> QED BY <1>0, <1>1, <2>1, <2>2 DEF InM2, Stands, Quiet
  <1>5. CASE SetState
    <2>1. main # <<>> /\ Head(main) \notin Requests /\ init' = Head(main) /\ main' = Tail(main)
      BY <1>0, <1>5 DEF SetState, MainGoesOn
    <2>2. main = <<"M3", "get">> /\ idles = <<>> /\ sent = <<"options">> /\ answered = 1
      BY <1>0, <2>1 DEF InM2, Stands
    <2>3. init' = "M3" /\ main' = <<"get">> /\ UNCHANGED <<idles, out, inbox, sent, answered>>
      BY <1>5, <2>1, <2>2 DEF SetState, history
    <2> QED BY <1>0, <1>1, <2>2, <2>3 DEF InM2, Stands, Quiet
  <1>6. CASE Send
    <2>1. main # <<>> /\ Head(main) \notin States /\ main' = Tail(main)
      BY <1>0, <1>6 DEF Send, MainGoesOn
    <2>2. init = "M3" /\ main = <<"get">> /\ idles = <<>> /\ sent = <<"options">> /\ answered = 1
      BY <1>0, <2>1 DEF InM2, Stands
    <2>3. /\ out' = Append(out, "get") /\ sent' = Append(sent, "get") /\ main' = <<>>
          /\ UNCHANGED <<init, idles, inbox, answered>>
      BY <1>6, <2>1, <2>2 DEF Send
    <2>4. InFlight("get")'
      BY <1>0, <2>3, SendWire
    <2>5. sent' = <<"options", "get">>
      BY <2>2, <2>3, Grown
    <2> QED BY <1>1, <2>2, <2>3, <2>4, <2>5 DEF InM3, Stands
  <1>7. CASE HandleResponse
    <2>1. PICK m \in Requests : Takes(m) /\ UNCHANGED out
      BY <1>7 DEF HandleResponse
    <2> QED BY <1>0, <2>1, TakesWire
  <1>8. CASE HandleOptions /\ init = "M2"
    <2>1. /\ Takes("OPTIONS") /\ idles' = Append(idles, "query")
          /\ UNCHANGED <<init, main, out, sent, answered, asked>>
      BY <1>8 DEF HandleOptions, Awaited, Queue, history
    <2>2. inbox \in Seq(Requests \union Own) /\ inbox # <<>> /\ inbox[1] = "OPTIONS" /\ inbox' = Tail(inbox)
      BY <2>1 DEF Takes, TypeInv, WireTypes, Own
    <2>3. Len(inbox) \in Nat \ {0} /\ Len(inbox') = Len(inbox) - 1
          /\ \A i \in 1 .. Len(inbox') : inbox'[i] = inbox[i + 1]
      BY <2>2
    <2>4. Contains(inbox, "OPTIONS")
      BY <2>2, <2>3 DEF Contains
    <2>5. asked = 1 /\ asked =< 1
      BY <1>0, <2>1, <2>4 DEF Once
    <2>6. ~ Contains(inbox', "OPTIONS")
      BY <2>2, <2>3, <2>5 DEF Once, Contains
    <2>7. Stands("M2", <<>>, <<>>, <<"options">>, 1)
      BY <1>8, <2>4 DEF InM2, Stands
    <2>8. Quiet'
      BY <1>0, <2>1, TakesWire
    <2> QED BY <1>1, <2>1, <2>5, <2>6, <2>7, <2>8 DEF InM2, Stands
  <1> QED BY <1>1, <1>2, <1>3, <1>4, <1>5, <1>6, <1>7, <1>8

\* The answer to M3 starts the exchange M4.
LEMMA InM3Step ==
    ASSUME TypeInv, Settled, ~ keepAlive, InM3, Next, ~ early', ~ closed', ~ crashed'
    PROVE  Settled' /\ ~ keepAlive' /\ (InM3' \/ InM4')
  <1>0. /\ Requests \cap Own = {} /\ {"get", "set"} \subseteq Requests /\ States \cap Requests = {}
        /\ "M4" \in States /\ init \in {"M3", "M4"} /\ init \in {"M2", "M3", "M4"} /\ init # "M2"
    BY DEF Requests, Own, States, InM3, Stands
  <1>1. /\ Settled' /\ ~ keepAlive'
        /\ Stays \/ RunIdle \/ SetState \/ Send \/ HandleResponse
    BY <1>0, MiddleSteps
  <1>2. CASE Stays
    BY <1>0, <1>1, <1>2 DEF Stays, InM3, Stands
  <1>3. CASE RunIdle
    <2>1. Stands("M3", <<"params">>, <<>>, <<"options", "get">>, 2) /\ Quiet
      BY <1>3 DEF RunIdle, InM3, Stands
    <2>2. idles' = <<>> /\ main' = <<"M4", "set">> /\ UNCHANGED <<init, out, inbox, sent, answered>>
      BY <1>3, <2>1 DEF RunIdle, Asks, history, Stands
    <2> QED BY <1>1, <2>1, <2>2 DEF InM3, Stands, Quiet
  <1>4. CASE SetState
    <2>1. main # <<>> /\ Head(main) \notin Requests /\ init' = Head(main) /\ main' = Tail(main)
      BY <1>0, <1>4 DEF SetState, MainGoesOn
    <2>2. Stands("M3", <<>>, <<"M4", "set">>, <<"options", "get">>, 2) /\ Quiet
      BY <1>0, <2>1 DEF InM3, Stands
    <2>3. init' = "M4" /\ main' = <<"set">> /\ UNCHANGED <<idles, out, inbox, sent, answered>>
      BY <1>4, <2>1, <2>2 DEF SetState, history, Stands
    <2> QED BY <1>1, <2>2, <2>3 DEF InM3, Stands, Quiet
  <1>5. CASE Send
    <2>1. main # <<>> /\ Head(main) \notin States /\ main' = Tail(main)
      BY <1>0, <1>5 DEF Send, MainGoesOn
    <2>2. Stands("M4", <<>>, <<"set">>, <<"options", "get">>, 2) /\ Quiet
      BY <1>0, <2>1 DEF InM3, Stands
    <2>3. /\ out' = Append(out, "set") /\ sent' = Append(sent, "set") /\ main' = <<>>
          /\ UNCHANGED <<init, idles, inbox, answered>>
      BY <1>5, <2>1, <2>2 DEF Send, Stands
    <2>4. InFlight("set")'
      BY <2>2, <2>3, SendWire
    <2>5. sent' = <<"options", "get", "set">>
      BY <2>2, <2>3, Grown DEF Stands
    <2> QED BY <1>1, <2>2, <2>3, <2>4, <2>5 DEF InM4, Stands
  <1>6. CASE HandleResponse
    <2>1. PICK m \in Requests : HandleResponse!(m)
      BY <1>6 DEF HandleResponse
    <2>2. Takes(m) /\ UNCHANGED <<main, out, sent>>
      BY <2>1
    <2>3. Stands("M3", <<>>, <<>>, <<"options", "get">>, 1) /\ InFlight("get")
      BY <1>0, <2>2, TakesWire DEF InM3
    <2>4. m = "get" /\ Quiet'
      BY <1>0, <2>2, <2>3, TakesWire
    <2>5. answered' = 2 /\ idles' = <<"params">> /\ init' = init
      BY <2>1, <2>3, <2>4 DEF Stands, Queue
    <2> QED BY <1>1, <2>2, <2>3, <2>4, <2>5 DEF InM3, Stands
  <1> QED BY <1>1, <1>2, <1>3, <1>4, <1>5, <1>6

\* The answer to M4 starts the last exchange.
LEMMA InM4Step ==
    ASSUME TypeInv, Settled, ~ keepAlive, InM4, Next, ~ early', ~ closed', ~ crashed'
    PROVE  Settled' /\ ((~ keepAlive' /\ InM4') \/ Closing')
  <1>0. /\ Requests \cap Own = {} /\ {"set", "trigger"} \subseteq Requests /\ States \cap Requests = {}
        /\ "M5" \in States /\ init = "M4" /\ init \in {"M2", "M3", "M4"}
    BY DEF Requests, Own, States, InM4, Stands
  <1>1. /\ Settled' /\ ~ keepAlive'
        /\ Stays \/ RunIdle \/ SetState \/ Send \/ HandleResponse
    BY <1>0, MiddleSteps
  <1>2. CASE Stays
    BY <1>0, <1>1, <1>2 DEF Stays, InM4, Stands
  <1>3. CASE RunIdle
    <2>1. Stands("M4", <<"setup">>, <<>>, <<"options", "get", "set">>, 3) /\ Quiet
      BY <1>3 DEF RunIdle, InM4, Stands
    <2>2. idles' = <<>> /\ main' = <<"M5", "trigger">> /\ UNCHANGED <<init, out, inbox, sent, answered>>
      BY <1>3, <2>1 DEF RunIdle, Asks, history, Stands
    <2> QED BY <1>1, <2>1, <2>2 DEF InM4, Stands, Quiet
  <1>4. CASE SetState
    <2>1. main # <<>> /\ Head(main) \notin Requests /\ init' = Head(main) /\ main' = Tail(main)
      BY <1>0, <1>4 DEF SetState, MainGoesOn
    <2>2. Stands("M4", <<>>, <<"M5", "trigger">>, <<"options", "get", "set">>, 3)
      BY <1>0, <2>1 DEF InM4, Stands
    <2>3. init' = "M5" /\ main' = <<"trigger">> /\ UNCHANGED <<idles, sent, answered>>
      BY <1>4, <2>1, <2>2 DEF SetState, history, Stands
    <2> QED BY <1>1, <2>2, <2>3 DEF Closing, Stands
  <1>5. CASE Send
    BY <1>0, <1>5 DEF Send, MainGoesOn, InM4, Stands
  <1>6. CASE HandleResponse
    <2>1. PICK m \in Requests : HandleResponse!(m)
      BY <1>6 DEF HandleResponse
    <2>2. Takes(m) /\ UNCHANGED <<main, out, sent>>
      BY <2>1
    <2>3. Stands("M4", <<>>, <<>>, <<"options", "get", "set">>, 2) /\ InFlight("set")
      BY <1>0, <2>2, TakesWire DEF InM4
    <2>4. m = "set" /\ Quiet'
      BY <1>0, <2>2, <2>3, TakesWire
    <2>5. answered' = 3 /\ idles' = <<"setup">> /\ init' = init
      BY <2>1, <2>3, <2>4 DEF Stands, Queue
    <2> QED BY <1>1, <2>2, <2>3, <2>4, <2>5 DEF InM4, Stands
  <1> QED BY <1>1, <1>2, <1>3, <1>4, <1>5, <1>6

\* Whatever is answered or asked in the last exchange starts nothing more.
LEMMA ClosingStep ==
    ASSUME TypeInv, Settled, Closing, Next, ~ early', ~ closed', ~ crashed'
    PROVE  Settled' /\ Closing'
  <1>0. "trigger" \in Requests \ States /\ answered \in Nat
    BY DEF Requests, States, TypeInv, StateTypes
  <1>1. CASE Expire \/ Sink
    <2>1. Stays
      BY <1>1, SinkStays
    <2> QED BY <2>1 DEF Stays, Settled, Closing
  <1>2. CASE KeepAliveTimeout \/ HandleSetup
    BY <1>2 DEF KeepAliveTimeout, HandleSetup, Settled, Closing, history
  <1>3. CASE QueryTimeout \/ RunIdle \/ BecomePlain \/ Close
    BY <1>3 DEF QueryTimeout, RunIdle, BecomePlain, Close, Settled, Closing
  <1>4. CASE SetState
    BY <1>0, <1>4 DEF SetState, MainGoesOn, Closing
  <1>5. CASE Send
    <2>1. main = <<"trigger">> /\ sent = <<"options", "get", "set">>
      BY <1>5 DEF Send, MainGoesOn, Closing
    <2>2. /\ main' = <<>> /\ sent' = Append(sent, "trigger")
          /\ UNCHANGED <<init, idles, answered, queryTimer, rtsp>>
      BY <1>5, <2>1 DEF Send, MainGoesOn
    <2>3. sent' = Steps
      <3>1. Append(<<"options", "get", "set">>, "trigger") = <<"options", "get", "set", "trigger">>
        BY GrownLast
      <3> QED BY <2>1, <2>2, <3>1 DEF Steps
    <2> QED BY <2>2, <2>3 DEF Settled, Closing
  <1>6. CASE HandleResponse
    <2>1. PICK m \in Requests : HandleResponse!(m)
      BY <1>6 DEF HandleResponse
    <2>2. UNCHANGED <<main, sent, queryTimer, rtsp>> /\ answered' \in {answered, answered + 1}
      BY <2>1
    <2>3. init' \in {"M5", "DONE"} /\ idles' = idles
      BY <2>1 DEF Following, Closing
    <2> QED BY <1>0, <2>2, <2>3 DEF Settled, Closing
  <1>7. CASE HandleOptions
    BY <1>7 DEF HandleOptions, Awaited, Settled, Closing, life, history
  <1> QED
    BY <1>1, <1>2, <1>3, <1>4, <1>5, <1>6, <1>7 DEF Next, MainLoop, RtspThread

-----------------------------------------------------------------------------
(* What the stages say of every state *)

LEMMA OnceStep == TypeInv /\ Once /\ [Next]_vars => Once'
  <1> SUFFICES ASSUME TypeInv, Once, [Next]_vars, asked' =< 1
               PROVE  /\ \A i, j \in 1 .. Len(inbox') :
                             inbox'[i] = "OPTIONS" /\ inbox'[j] = "OPTIONS" => i = j
                      /\ asked' = 0 => ~ Contains(inbox', "OPTIONS")
    BY DEF Once
  <1>0. /\ inbox \in Seq(Requests \union Own) /\ asked \in Nat /\ Len(inbox) \in Nat
        /\ Contains(inbox, "OPTIONS") <=> \E i \in 1 .. Len(inbox) : inbox[i] = "OPTIONS"
        /\ Contains(inbox', "OPTIONS") <=> \E i \in 1 .. Len(inbox') : inbox'[i] = "OPTIONS"
    BY WfdHandshakeAssumption DEF TypeInv, StateTypes, WireTypes, Own, Contains
  <1>1. CASE inbox' = inbox /\ asked' = asked
    BY <1>0, <1>1 DEF Once
  <1>2. CASE inbox' = <<>>
    BY <1>0, <1>2
  <1>3. CASE inbox # <<>> /\ inbox' = Tail(inbox) /\ asked' = asked
    <2>1. /\ Len(inbox') = Len(inbox) - 1
          /\ \A i \in 1 .. Len(inbox') : i + 1 \in 1 .. Len(inbox) /\ inbox'[i] = inbox[i + 1]
      BY <1>0, <1>3
    <2> QED BY <1>0, <1>3, <2>1 DEF Once
  <1>4. ASSUME NEW e \in Requests \union {"SETUP"}, inbox' = Append(inbox, e), asked' = asked
        PROVE  /\ \A i, j \in 1 .. Len(inbox') :
                      inbox'[i] = "OPTIONS" /\ inbox'[j] = "OPTIONS" => i = j
               /\ asked' = 0 => ~ Contains(inbox', "OPTIONS")
    <2>1. /\ Len(inbox') = Len(inbox) + 1 /\ inbox'[Len(inbox) + 1] # "OPTIONS"
          /\ \A i \in 1 .. Len(inbox) : inbox'[i] = inbox[i]
      BY <1>0, <1>4 DEF Requests
    <2> QED BY <1>0, <1>4, <2>1 DEF Once
  <1>5. CASE SinkOptions
    <2>1. inbox' = Append(inbox, "OPTIONS") /\ asked = 0 /\ asked' = 1
      BY <1>0, <1>5 DEF SinkOptions, Says
    <2>2. /\ Len(inbox') = Len(inbox) + 1 /\ \A i \in 1 .. Len(inbox) : inbox'[i] = inbox[i]
          /\ \A i \in 1 .. Len(inbox) : inbox[i] # "OPTIONS"
      BY <1>0, <2>1 DEF Once, Own
    <2> QED BY <2>1, <2>2, <1>0
  <1>6. CASE MainLoop \/ KeepAliveTimeout \/ Expire \/ BecomePlain \/ UNCHANGED vars
    BY <1>1, <1>6 DEF MainLoop, QueryTimeout, RunIdle, SetState, Send, KeepAliveTimeout, Expire,
                      BecomePlain, vars
  <1>7. CASE HandleResponse \/ HandleOptions \/ HandleSetup
    BY <1>3, <1>7 DEF HandleResponse, HandleOptions, HandleSetup, Takes
  <1>8. CASE Close
    BY <1>2, <1>8 DEF Close
  <1>9. CASE SinkAnswers \/ SinkSetup
    <2>1. \E e \in Requests \union {"SETUP"} : inbox' = Append(inbox, e)
      BY <1>9 DEF SinkAnswers, SinkSetup, Says, TypeInv, WireTypes
    <2>2. asked' = asked
      BY <1>9 DEF SinkAnswers, SinkSetup
    <2> QED BY <1>4, <2>1, <2>2
  <1> QED BY <1>5, <1>6, <1>7, <1>8, <1>9 DEF Next, RtspThread, Sink

\* What was counted or broken stays so, and what breaks the connection asks nothing.
LEMMA Onward ==
    ASSUME TypeInv, [Next]_vars
    PROVE  /\ asked =< asked' /\ {asked, asked'} \subseteq 0 .. MaxOptions /\ MaxOptions \in Nat
           /\ early => early'
           /\ closed => closed'
           /\ crashed => crashed'
           /\ parsed => parsed'
           /\ closed' \/ crashed' => sent' = sent /\ answered' = answered /\ parsed' = parsed
  <1>0. {asked, asked'} \subseteq 0 .. MaxOptions /\ MaxOptions \in Nat
    BY TypeStep, WfdHandshakeAssumption DEF TypeInv, StateTypes
  <1>1. CASE MainLoop
    <2>1. CASE QueryTimeout \/ RunIdle \/ SetState
      BY <1>0, <2>1 DEF QueryTimeout, RunIdle, SetState, life, history
    <2>2. CASE Send
      <3>1. ~ crashed /\ UNCHANGED <<closed, asked, early, parsed, answered>>
        BY <2>2 DEF Send, MainGoesOn, life, history
      <3>2. closed \/ crashed' => sent' = sent
        BY <2>2, <3>1 DEF Send, history
      <3> QED BY <1>0, <3>1, <3>2
    <2> QED BY <1>1, <2>1, <2>2 DEF MainLoop
  <1>2. CASE KeepAliveTimeout \/ Expire \/ Close \/ UNCHANGED vars
    BY <1>0, <1>2 DEF KeepAliveTimeout, Expire, Close, life, history, vars
  <1>3. CASE RtspThread
    <2>1. CASE HandleResponse
      <3>1. ~ closed /\ ~ crashed /\ UNCHANGED <<closed, crashed, asked, early, sent>> /\ (parsed => parsed')
        BY <2>1 DEF HandleResponse, Takes
      <3> QED BY <1>0, <3>1
    <2>2. CASE HandleOptions \/ BecomePlain
      BY <1>0, <2>2 DEF HandleOptions, BecomePlain, life, history
    <2>3. CASE HandleSetup
      <3>1. ~ closed /\ ~ crashed /\ UNCHANGED <<closed, crashed, asked, history>> /\ (early => early')
        BY <2>3 DEF HandleSetup, Takes
      <3> QED BY <1>0, <3>1 DEF history
    <2> QED BY <1>3, <2>1, <2>2, <2>3 DEF RtspThread
  <1>4. CASE Sink
    BY <1>0, <1>4 DEF Sink, SinkAnswers, SinkOptions, SinkSetup, Says, life, history
  <1> QED BY <1>1, <1>2, <1>3, <1>4 DEF Next

LEMMA StepsBegin ==
    ASSUME NEW s, s \in {<<>>, <<"options">>, <<"options", "get">>, <<"options", "get", "set">>, Steps}
    PROVE  IsPrefix(s, Steps)
  <1>1. s \in Seq(Requests) /\ Steps \in Seq(Requests) /\ Len(Steps) = 4
    <2>1. \A a, b, c, d \in Requests :
              /\ <<>> \in Seq(Requests) /\ <<a>> \in Seq(Requests) /\ <<a, b>> \in Seq(Requests)
              /\ <<a, b, c>> \in Seq(Requests) /\ <<a, b, c, d>> \in Seq(Requests)
      OBVIOUS
    <2>2. {"options", "get", "set", "trigger"} \subseteq Requests
      BY DEF Requests
    <2>3. Steps \in Seq(Requests) /\ Len(Steps) = 4
      BY <2>1, <2>2 DEF Steps
    <2>4. s \in Seq(Requests)
      BY <2>1, <2>2, <2>3
    <2> QED BY <2>3, <2>4
  <1>2. Len(s) \in 0 .. 4 /\ \A i \in 1 .. Len(s) : s[i] = Steps[i]
    BY DEF Steps
  <1>3. SubSeq(Steps, 1, Len(s)) = s
    BY <1>1, <1>2
  <1>4. SubSeq(s, 1, Len(s)) = s
    BY <1>1, <1>2
  <1> QED BY <1>1, <1>2, <1>3, <1>4 DEF IsPrefix

LEMMA Paced ==
    ASSUME NEW s, NEW n \in Nat,
           \/ s = <<>>
           \/ s = <<"options">>
           \/ s = <<"options", "get">> /\ n \in {1, 2}
           \/ s = <<"options", "get", "set">> /\ (n \in {2, 3} \/ n >= 3)
           \/ s = Steps /\ n >= 3
    PROVE  Len(s) =< n + 1
  <1>1. CASE s = <<>>
    BY <1>1
  <1>2. CASE s = <<"options">>
    BY <1>2
  <1>3. CASE s = <<"options", "get">> /\ n \in {1, 2}
    BY <1>3
  <1>4. CASE s = <<"options", "get", "set">> /\ (n \in {2, 3} \/ n >= 3)
    BY <1>4
  <1>5. CASE s = Steps /\ n >= 3
    BY <1>5 DEF Steps
  <1> QED BY <1>1, <1>2, <1>3, <1>4, <1>5

LEMMA StagedStep ==
    ASSUME TypeInv, Once, Staged, [Next]_vars
    PROVE  Staged'
  <1> SUFFICES ASSUME asked' =< 1, ~ early', ~ closed', ~ crashed'
               PROVE  Opening' \/ (Settled' /\ ((~ keepAlive' /\ (InM2' \/ InM3' \/ InM4')) \/ Closing'))
    BY DEF Staged
  <1>1. asked =< 1 /\ ~ early /\ ~ closed /\ ~ crashed
    BY Onward
  <1>2. CASE UNCHANGED vars
    BY <1>1, <1>2 DEF Staged, Opening, Settled, InM2, InM3, InM4, Closing, Stands, Quiet, InFlight,
                      vars, life, history
  <1>3. CASE Next /\ Opening
    BY <1>3, OpeningStep DEF InM2
  <1>4. CASE Next /\ Settled /\ ~ keepAlive /\ InM2
    BY <1>4, InM2Step
  <1>5. CASE Next /\ Settled /\ ~ keepAlive /\ InM3
    BY <1>5, InM3Step
  <1>6. CASE Next /\ Settled /\ ~ keepAlive /\ InM4
    BY <1>6, InM4Step
  <1>7. CASE Next /\ Settled /\ Closing
    BY <1>7, ClosingStep
  <1> QED BY <1>1, <1>2, <1>3, <1>4, <1>5, <1>6, <1>7 DEF Staged

LEMMA InStepStep ==
    ASSUME TypeInv, Once, Staged, InStep, [Next]_vars
    PROVE  InStep'
  <1> SUFFICES ASSUME asked' =< 1, ~ early'
               PROVE  IsPrefix(sent', Steps) /\ Len(sent') =< answered' + 1
    BY DEF InStep
  <1>1. asked =< 1 /\ ~ early
    BY Onward
  <1>2. CASE closed' \/ crashed'
    BY <1>1, <1>2, Onward DEF InStep
  <1>3. CASE ~ closed' /\ ~ crashed'
    <2>1. Opening' \/ InM2' \/ InM3' \/ InM4' \/ Closing'
      BY <1>3, StagedStep DEF Staged
    <2>2. answered' \in Nat
      BY TypeStep DEF TypeInv, StateTypes
    <2>3. \/ sent' = <<>>
          \/ sent' = <<"options">>
          \/ sent' = <<"options", "get">> /\ answered' \in {1, 2}
          \/ sent' = <<"options", "get", "set">> /\ (answered' \in {2, 3} \/ answered' >= 3)
          \/ sent' = Steps /\ answered' >= 3
      BY <2>1 DEF Opening, InM2, InM3, InM4, Closing, Stands
    <2> QED BY <2>2, <2>3, StepsBegin, Paced
  <1> QED BY <1>2, <1>3

\* With a sink that asks for M2 once and sets up when it is told to, the requests of
\* M1 to M5 are sent in their order, each when all before it were answered, for every
\* number of requests the sink could make and every answer it gives.
THEOREM ExchangesInStep == Spec => []InStep
  <1>1. Init => Once /\ Staged /\ InStep
    <2> SUFFICES ASSUME Init PROVE Once /\ Staged /\ InStep
      OBVIOUS
    <2>1. Once
      BY DEF Init, Once, Contains
    <2>2. Opening
      BY DEF Init, Opening, Quiet, AllIn
    <2>3. InStep
      BY StepsBegin DEF Init, InStep
    <2> QED BY <2>1, <2>2, <2>3 DEF Staged
  <1>2. TypeInv /\ Once /\ Staged /\ InStep /\ [Next]_vars => (Once /\ Staged /\ InStep)'
    BY OnceStep, StagedStep, InStepStep
  <1> QED BY <1>1, <1>2, TypesHold, PTL DEF Spec

-----------------------------------------------------------------------------
(* What is known when the parameters are set *)

\* A sequence of these goes on as one, or the sink's parameters are read.
LEMMA QueryingStep ==
    ASSUME TypeInv, Querying, Next, ~ early', ~ closed', ~ crashed'
    PROVE  Querying' \/ parsed'
  <1>0. /\ {"get", "options"} \subseteq Requests /\ "OPTIONS" \in Own /\ States \cap Requests = {}
        /\ Requests \cap Own = {} /\ "M3" \in States /\ init \in {"M2", "M3", "M4"}
    BY DEF Requests, Own, States, Querying
  <1>a. /\ out \in Seq(Requests) /\ inbox \in Seq(Requests \union Own) /\ sent \in Seq(Requests)
         /\ AllIn(out, {"get"}) /\ AllIn(inbox, Own \union {"get"}) /\ AllIn(sent, {"options", "get"})
         /\ idles \in Seq({"query", "params", "setup"}) /\ AllIn(idles, {"query"})
    BY DEF TypeInv, WireTypes, LoopTypes, Own, Querying
  <1>1. CASE Expire
    BY <1>1 DEF Expire, Querying, Settled, history
  <1>2. CASE SinkAnswers
    <2>1. out # <<>> /\ inbox' = Append(inbox, Head(out)) /\ out' = Tail(out)
          /\ UNCHANGED <<init, idles, main, rtsp, queryTimer, keepAlive, sent>>
      BY <1>2 DEF SinkAnswers, Says, life, history
    <2>2. Head(out) \in {"get"} /\ AllIn(out', {"get"})
      BY <2>1, <1>a, AllInTail
    <2>3. AllIn(inbox', Own \union {"get"})
      <3>1. Head(out) = "get" /\ "get" \in Requests \union Own /\ "get" \in Own \union {"get"}
        BY <1>0, <2>2
      <3>2. AllIn(Append(inbox, "get"), Own \union {"get"})
        BY <1>a, <3>1, AllInAppend
      <3> QED BY <2>1, <3>1, <3>2
    <2> QED BY <2>1, <2>2, <2>3 DEF Querying, Settled
  <1>3. CASE SinkOptions \/ SinkSetup
    <2>1. PICK e \in Own : inbox' = Append(inbox, e)
      BY <1>3 DEF SinkOptions, SinkSetup, Says, Own
    <2>2. UNCHANGED <<init, idles, main, rtsp, queryTimer, keepAlive, sent, out>>
      BY <1>3 DEF SinkOptions, SinkSetup, life, history
    <2>3. AllIn(inbox', Own \union {"get"})
      <3>1. e \in Requests \union Own /\ e \in Own \union {"get"}
        OBVIOUS
      <3>2. AllIn(Append(inbox, e), Own \union {"get"})
        BY <1>a, <3>1, AllInAppend
      <3> QED BY <2>1, <3>2
    <2> QED BY <2>2, <2>3 DEF Querying, Settled
  <1>4. CASE RunIdle
    <2>1. Head(idles) = "query" /\ AllIn(idles', {"query"})
      BY <1>4, <1>a, AllInTail DEF RunIdle
    <2>2. main' = <<"M3", "get">> /\ UNCHANGED <<init, rtsp, queryTimer, keepAlive, sent, out, inbox>>
      BY <1>4, <2>1 DEF RunIdle, Asks, life, history
    <2> QED BY <2>1, <2>2 DEF Querying, Settled
  <1>5. CASE SetState
    <2>1. main = <<"M3", "get">>
      BY <1>0, <1>5 DEF SetState, MainGoesOn, Querying
    <2>2. init' = "M3" /\ main' = <<"get">> /\ UNCHANGED <<idles, rtsp, queryTimer, keepAlive, sent, out, inbox>>
      BY <1>5, <2>1 DEF SetState, MainGoesOn, life, history
    <2> QED BY <2>2 DEF Querying, Settled
  <1>6. CASE Send
    <2>1. main = <<"get">>
      BY <1>0, <1>6 DEF Send, MainGoesOn, Querying
    <2>2. /\ main' = <<>> /\ UNCHANGED <<init, idles, rtsp, queryTimer, keepAlive, inbox>>
          /\ out' \in {out, Append(out, "get")} /\ sent' \in {sent, Append(sent, "get")}
      BY <1>6, <2>1 DEF Send, MainGoesOn, life
    <2>3. AllIn(out', {"get"}) /\ AllIn(sent', {"options", "get"})
      <3>1. "get" \in Requests /\ "get" \in {"get"} /\ "get" \in {"options", "get"}
        BY <1>0
      <3>2. AllIn(Append(out, "get"), {"get"})
        BY <1>a, <3>1, AllInAppend
      <3>3. AllIn(Append(sent, "get"), {"options", "get"})
        BY <1>a, <3>1, AllInAppend
      <3> QED BY <1>a, <2>2, <3>2, <3>3
    <2> QED BY <2>2, <2>3 DEF Querying, Settled
  <1>7. CASE HandleResponse
    <2>1. PICK m \in Requests : HandleResponse!(m)
      BY <1>7 DEF HandleResponse
    <2>2. m = "get" /\ AllIn(inbox', Own \union {"get"})
      BY <1>0, <2>1, <1>a, AllInTail DEF Takes
    <2>3. CASE init = "M3"
      BY <2>1, <2>2, <2>3
    <2>4. CASE init = "M2"
      <3>1. UNCHANGED <<init, idles, main, rtsp, queryTimer, keepAlive, sent, out>>
        BY <2>1, <2>4
      <3> QED BY <2>2, <3>1 DEF Querying, Settled
    <2> QED BY <2>3, <2>4 DEF Querying
  <1>8. CASE HandleOptions
    <2>1. /\ Takes("OPTIONS") /\ idles' \in {idles, Append(idles, "query")}
          /\ UNCHANGED <<init, main, queryTimer, keepAlive, sent, out>> /\ rtsp' = <<>>
      BY <1>8 DEF HandleOptions, Awaited, Queue, Querying, life, history
    <2>2. AllIn(inbox', Own \union {"get"})
      BY <2>1, <1>a, AllInTail DEF Takes
    <2>3. AllIn(idles', {"query"})
      <3>1. "query" \in {"query", "params", "setup"} /\ "query" \in {"query"}
        OBVIOUS
      <3>2. AllIn(Append(idles, "query"), {"query"})
        BY <1>a, <3>1, AllInAppend
      <3> QED BY <1>a, <2>1, <3>2
    <2> QED BY <2>1, <2>2, <2>3 DEF Querying, Settled
  <1>9. CASE HandleSetup \/ QueryTimeout \/ KeepAliveTimeout \/ BecomePlain \/ Close
    BY <1>9 DEF HandleSetup, QueryTimeout, KeepAliveTimeout, BecomePlain, Close, Querying, Settled
  <1> QED
    BY <1>1, <1>2, <1>3, <1>4, <1>5, <1>6, <1>7, <1>8, <1>9 DEF Next, MainLoop, RtspThread, Sink

\* Neither stage has told the sink what to use.
LEMMA UnsetYet ==
    ASSUME NEW s, s \in {<<>>, <<"options">>} \/ AllIn(s, {"options", "get"})
    PROVE  ~ Contains(s, "set")
  BY DEF Contains, AllIn

LEMMA ReadStep ==
    ASSUME TypeInv, Read, [Next]_vars
    PROVE  Read'
  <1> SUFFICES ASSUME ~ early', ~ closed', ~ crashed' PROVE Opening' \/ Querying' \/ parsed'
    BY DEF Read
  <1>1. ~ early /\ ~ closed /\ ~ crashed
    BY Onward
  <1>2. CASE UNCHANGED vars
    BY <1>1, <1>2 DEF Read, Opening, Querying, Settled, Quiet, InFlight, vars, life, history
  <1>3. CASE Next /\ Opening
    <2>1. (Quiet /\ Settled /\ ~ keepAlive /\ Stands("M2", <<>>, <<>>, <<"options">>, 1))' => Querying'
      BY DEF Querying, Quiet, Stands, AllIn, Settled
    <2> QED BY <1>3, <2>1, OpeningStep
  <1>4. CASE Next /\ Querying
    BY <1>4, QueryingStep
  <1>5. CASE parsed
    BY <1>5, Onward
  <1> QED BY <1>1, <1>2, <1>3, <1>4, <1>5 DEF Read

\* A sink that does not set up before it is told to is told what to use (M4) only after
\* its parameters were read (M3), however many OPTIONS requests it makes, whenever they
\* come and whatever its answers say.
THEOREM SetWhenKnown == Spec => []ParamsKnown
  <1>1. Init => Read /\ ParamsKnown
    <2> SUFFICES ASSUME Init PROVE Opening /\ Read /\ ParamsKnown
      OBVIOUS
    <2>1. Opening
      BY DEF Init, Opening, Quiet, AllIn
    <2> QED BY <2>1, UnsetYet DEF Opening, Read, ParamsKnown
  <1>2. TypeInv /\ Read /\ ParamsKnown /\ [Next]_vars => (Read /\ ParamsKnown)'
    <2> SUFFICES ASSUME TypeInv, Read, ParamsKnown, [Next]_vars PROVE (Read /\ ParamsKnown)'
      OBVIOUS
    <2>1. Read'
      BY ReadStep
    <2>2. CASE closed' \/ crashed'
      BY <2>1, <2>2, Onward DEF ParamsKnown
    <2>3. CASE ~ closed' /\ ~ crashed'
      <3>1. Opening' \/ Querying' => ~ Contains(sent', "set")
        BY UnsetYet DEF Opening, Querying
      <3> QED BY <2>1, <2>3, <3>1 DEF Read, ParamsKnown
    <2> QED BY <2>1, <2>2, <2>3
  <1> QED BY <1>1, <1>2, TypesHold, PTL DEF Spec
-----------------------------------------------------------------------------
(* What a sink has to say to break the source *)

\* The null pointer behind "falling back to defaults!" has one cause: an answer to M3 with
\* formats of which none is usable.  A source whose sinks have one, or say nothing of it,
\* survives, whatever else they send and when.
THEOREM SurvivesUsable == "none" \notin Formats => (Spec => []FallsBack)
  <1> SUFFICES ASSUME "none" \notin Formats PROVE Spec => []FallsBack
    OBVIOUS
  <1> DEFINE Kind == codec = TRUE /\ crashed = FALSE
  <1>1. Init => Kind
    BY DEF Init
  <1>2. Kind /\ [Next]_vars => Kind'
    <2> SUFFICES ASSUME Kind, [Next]_vars PROVE Kind'
      OBVIOUS
    <2>1. CASE UNCHANGED vars
      BY <2>1 DEF vars
    <2>2. CASE MainLoop
      BY <2>2 DEF MainLoop, QueryTimeout, RunIdle, SetState, Send
    <2>3. CASE HandleResponse
      BY <2>3 DEF HandleResponse, Parse
    <2>4. CASE HandleOptions \/ BecomePlain \/ HandleSetup
      BY <2>4 DEF HandleOptions, BecomePlain, HandleSetup
    <2>5. CASE KeepAliveTimeout \/ Expire \/ Close \/ Sink
      BY <2>5 DEF KeepAliveTimeout, Expire, Close, Sink, SinkAnswers, SinkOptions, SinkSetup
    <2> QED BY <2>1, <2>2, <2>3, <2>4, <2>5 DEF Next, RtspThread
  <1>3. Kind => FallsBack
    BY DEF FallsBack
  <1> QED BY <1>1, <1>2, <1>3, PTL DEF Spec
=============================================================================
