----------------------------- MODULE WfdHandshake -----------------------------
(***************************************************************************)
(* The source side of the Wi-Fi Display session set-up: one RTSP client of *)
(* the server, with the five exchanges M1 to M5, the timer that asks for   *)
(* Wi-Fi Display support and the keep-alive of its session (wfd-client.c,  *)
(* wfd-server.c).                                                          *)
(*                                                                         *)
(* What the sink sends is handled on the thread of the RTSP server.  What  *)
(* it makes the source send is queued as an idle of the main loop, and     *)
(* nothing but the field init_state relates an answer to a request.        *)
(***************************************************************************)
EXTENDS Naturals, SequencesExt

CONSTANTS
    Formats,      \* what the sink may say of its video formats
    MaxOptions    \* bound: OPTIONS requests of the sink

ASSUME WfdHandshakeAssumption ==
    /\ Formats \subseteq {"usable", "silent", "none"}
    /\ Formats # {}
    /\ MaxOptions \in Nat

VARIABLES
    init,         \* self->init_state
    kind,         \* self->connection_type
    codec,        \* self->params->selected_codec is there
    queryTimer,   \* timeout_query_wfd_support is pending
    keepAlive,    \* self->keep_alive_source_id
    idles,        \* the idles of this client in the main loop
    main,         \* what is left of the main loop's callback
    rtsp,         \* what is left of the RTSP thread's handler
    out,          \* requests on their way to the sink
    inbox,        \* answers and requests of the sink, on their way here
    session,      \* there is an RTSP session
    fresh,        \* it was touched since the last keep-alive was sent
    closed,       \* the connection is closed
    crashed,
    asked,        \* OPTIONS requests the sink sent
    sent,         \* history: the requests of M1 to M5
    answered,     \* history: how many of them were answered
    parsed,       \* history: the parameters of the sink were read
    early         \* history: the sink set up a session before it was told to

life == <<session, fresh, keepAlive, early>>
history == <<sent, answered, parsed>>
vars == <<init, kind, codec, queryTimer, idles, main, rtsp, out, inbox, closed, crashed,
          asked, life, history>>

States == {"M0", "M1", "M2", "M3", "M4", "M5", "DONE"}
Steps == <<"options", "get", "set", "trigger">>
Requests == {"options", "get", "set", "trigger", "keep"}

TypeOK ==
    /\ init \in States /\ kind \in {"wfd", "rtsp"}
    /\ \A b \in {codec, queryTimer, keepAlive, session, fresh, closed, crashed, parsed, early} :
          b \in BOOLEAN
    /\ idles \in Seq({"query", "params", "setup"})
    /\ main \in Seq(States \union Requests) /\ rtsp \in Seq({"plain", "DONE"})
    /\ out \in Seq(Requests) /\ inbox \in Seq(Requests \union {"OPTIONS", "SETUP"})
    /\ asked \in 0 .. MaxOptions
    /\ sent \in Seq(Requests) /\ answered \in Nat
-----------------------------------------------------------------------------
(* The main loop *)

MainFree == main = <<>> /\ ~ crashed

\* Mutant of Asks: the message leaves before the state says so.
AsksFirst(state, request) == <<request, state>>

\* The state is set, then the request is sent.
Asks(state, request) == <<state, request>>

\* timeout_query_wfd_support, 500 ms after the connection
QueryTimeout ==
    /\ MainFree
    /\ queryTimer
    /\ queryTimer' = FALSE
    /\ main' = IF init = "M0" THEN Asks("M1", "options") ELSE <<>>
    /\ UNCHANGED <<init, kind, codec, idles, rtsp, out, inbox, closed, crashed, asked, life, history>>

\* wfd_client_idle_wfd_query_params, _set_params and _trigger_setup
RunIdle ==
    /\ MainFree
    /\ idles # <<>>
    /\ idles' = Tail(idles)
    /\ main' = CASE Head(idles) = "query" -> Asks("M3", "get")
                 [] Head(idles) = "params" -> Asks("M4", "set")
                 [] Head(idles) = "setup" /\ init = "M4" -> Asks("M5", "trigger")
                 [] OTHER -> <<"trigger">>
    /\ UNCHANGED <<init, kind, codec, queryTimer, rtsp, out, inbox, closed, crashed,
                   asked, life, history>>

MainGoesOn == main # <<>> /\ ~ crashed /\ main' = Tail(main)

SetState ==
    /\ MainGoesOn
    /\ Head(main) \in States
    /\ init' = Head(main)
    /\ UNCHANGED <<kind, codec, queryTimer, idles, rtsp, out, inbox, closed, crashed,
                   asked, life, history>>

\* The description of the video format is made of the selected codec.
Send ==
    /\ MainGoesOn
    /\ Head(main) \in Requests
    /\ IF Head(main) = "set" /\ ~ codec
       THEN crashed' = TRUE /\ UNCHANGED <<out, history>>
       ELSE /\ out' = IF closed THEN out ELSE Append(out, Head(main))
            /\ sent' = IF closed THEN sent ELSE Append(sent, Head(main))
            /\ UNCHANGED <<answered, parsed, crashed>>
    /\ UNCHANGED <<init, kind, codec, queryTimer, idles, rtsp, inbox, closed, asked, life>>

\* wfd_client_keep_alive_timeout, every 25 s: the idles have run long since.
KeepAliveTimeout ==
    /\ MainFree
    /\ keepAlive /\ idles = <<>> /\ ~ Contains(out \o inbox, "keep")
    /\ \/ closed /\ keepAlive' = FALSE /\ UNCHANGED <<out, fresh>>
       \/ ~ closed /\ session /\ out' = Append(out, "keep") /\ fresh' = FALSE /\ UNCHANGED keepAlive
    /\ UNCHANGED <<init, kind, codec, queryTimer, idles, main, rtsp, inbox, closed, crashed,
                   asked, session, early, history>>

\* clean_pool removes a session that was not touched for 30 s.
Expire ==
    /\ session /\ ~ crashed
    /\ ~ fresh \/ ~ keepAlive
    /\ session' = FALSE
    /\ UNCHANGED <<init, kind, codec, queryTimer, idles, main, rtsp, out, inbox, closed, crashed,
                   asked, fresh, keepAlive, early, history>>
-----------------------------------------------------------------------------
(* The thread of the RTSP server *)

\* The thread takes up message m.
Takes(m) ==
    /\ rtsp = <<>> /\ ~ closed /\ ~ crashed
    /\ inbox # <<>>
    /\ Head(inbox) = m
    /\ inbox' = Tail(inbox)

\* Mutant of Touched: only answers with the right session id count, which some
\* sinks do not send.
TouchedById == fresh

\* wfd_client_touch_session_filter_func
Touched == TRUE

Queue(idle) == idles' = Append(idles, idle)

\* wfd_params_from_sink, then wfd_client_select_codec_and_resolution.  An answer
\* without a body or without formats leaves the codec of wfd_params_new.
Parse(m, formats) ==
    codec' = CASE m = "get" /\ formats = "usable" -> TRUE
               [] m = "get" /\ formats = "none" -> FALSE
               [] OTHER -> codec

\* What follows the answer to M1 and to M5.
Following(state) == IF state = "M1" THEN "M2" ELSE "DONE"

\* wfd_client_handle_response: what is answered is not looked at.
HandleResponse ==
    \E m \in Requests :
      /\ Takes(m)
      /\ fresh' = (fresh \/ Touched)
      /\ answered' = IF m = "keep" THEN answered ELSE answered + 1
      /\ parsed' = (parsed \/ (m = "get" /\ init = "M3"))
      /\ \/ init \in {"M1", "M5"} /\ init' = Following(init) /\ UNCHANGED <<codec, idles>>
         \/ /\ init = "M3"
            /\ \E formats \in Formats : Parse(m, formats)
            /\ Queue("params")
            /\ UNCHANGED init
         \/ init = "M4" /\ Queue("setup") /\ UNCHANGED <<init, codec>>
         \/ init \in {"M0", "M2", "DONE"} /\ UNCHANGED <<init, codec, idles>>
      /\ UNCHANGED <<kind, queryTimer, main, rtsp, out, closed, crashed, asked, session,
                     keepAlive, early, sent>>

\* Mutant of Awaited: the answer to M1 is not waited for.
AwaitedSoon == init \in {"M1", "M2"}

\* The OPTIONS request of the sink is the M2 that follows the answer to M1.
Awaited == init = "M2"

\* wfd_client_pre_options_request
HandleOptions ==
    /\ Takes("OPTIONS")
    /\ IF Awaited THEN Queue("query") ELSE UNCHANGED idles
    /\ rtsp' = IF init \in {"M0", "M1"} /\ ~ Awaited THEN <<"plain", "DONE">> ELSE <<>>
    /\ UNCHANGED <<init, kind, codec, queryTimer, main, out, closed, crashed, asked, life, history>>

\* The rest of it, for an ordinary RTSP connection.
BecomePlain ==
    /\ rtsp # <<>> /\ ~ crashed
    /\ rtsp' = Tail(rtsp)
    /\ IF Head(rtsp) = "plain"
       THEN kind' = "rtsp" /\ UNCHANGED init
       ELSE init' = "DONE" /\ UNCHANGED kind
    /\ UNCHANGED <<codec, queryTimer, idles, main, out, inbox, closed, crashed, asked, life, history>>

\* An ordinary RTSP client keeps its session alive itself.
NeedsKeepAlive == kind = "wfd"

\* wfd_client_new_session, while SETUP is handled
HandleSetup ==
    /\ Takes("SETUP")
    /\ session' = TRUE /\ fresh' = TRUE
    /\ keepAlive' = (keepAlive \/ NeedsKeepAlive)
    /\ early' = (early \/ init \notin {"M5", "DONE"})
    /\ UNCHANGED <<init, kind, codec, queryTimer, idles, main, rtsp, out, closed, crashed,
                   asked, history>>

\* wfd_server_client_closed
Close ==
    /\ rtsp = <<>> /\ ~ closed /\ ~ crashed
    /\ closed' = TRUE
    /\ queryTimer' = FALSE
    /\ session' = FALSE
    /\ out' = <<>> /\ inbox' = <<>>
    /\ UNCHANGED <<init, kind, codec, idles, main, rtsp, crashed, asked, fresh, keepAlive, early,
                   history>>
-----------------------------------------------------------------------------
(* The sink, which answers in order and asks whenever it likes *)

Says(m) == inbox' = Append(inbox, m) /\ ~ closed /\ ~ crashed

SinkAnswers ==
    /\ out # <<>>
    /\ Says(Head(out))
    /\ out' = Tail(out)
    /\ UNCHANGED <<init, kind, codec, queryTimer, idles, main, rtsp, closed, crashed, asked,
                   life, history>>

SinkOptions ==
    /\ asked < MaxOptions
    /\ Says("OPTIONS")
    /\ asked' = asked + 1
    /\ UNCHANGED <<init, kind, codec, queryTimer, idles, main, rtsp, out, closed, crashed,
                   life, history>>

SinkSetup ==
    /\ ~ session /\ ~ Contains(inbox, "SETUP")
    /\ Says("SETUP")
    /\ UNCHANGED <<init, kind, codec, queryTimer, idles, main, rtsp, out, closed, crashed,
                   asked, life, history>>
-----------------------------------------------------------------------------
\* wfd_server_client_connected; the parameters start with a codec for tests.
Init ==
    /\ init = "M0" /\ kind = "wfd"
    /\ codec = TRUE /\ queryTimer = TRUE /\ keepAlive = FALSE
    /\ idles = <<>> /\ main = <<>> /\ rtsp = <<>> /\ out = <<>> /\ inbox = <<>>
    /\ session = FALSE /\ fresh = FALSE
    /\ closed = FALSE /\ crashed = FALSE
    /\ asked = 0 /\ sent = <<>> /\ answered = 0 /\ parsed = FALSE /\ early = FALSE

MainLoop == QueryTimeout \/ RunIdle \/ SetState \/ Send

RtspThread == HandleResponse \/ HandleOptions \/ BecomePlain \/ HandleSetup

Sink == SinkAnswers \/ SinkOptions \/ SinkSetup

Next == MainLoop \/ KeepAliveTimeout \/ Expire \/ RtspThread \/ Close \/ Sink

Spec == Init /\ [][Next]_vars

\* Both threads run, and a sink that is connected answers what it is asked.
FairSpec ==
    Spec /\ WF_vars(MainLoop) /\ WF_vars(RtspThread) /\ WF_vars(SinkAnswers)
-----------------------------------------------------------------------------
(* Properties *)

\* With a sink that asks once and sets up when it is told to, the five exchanges
\* come in order, each after the answer to the one before.
InStep ==
    asked =< 1 /\ ~ early => IsPrefix(sent, Steps) /\ Len(sent) =< answered + 1

\* The parameters are set only once those of the sink were read, even if the sink
\* repeats its OPTIONS request and the exchanges overlap.
ParamsKnown == ~ early /\ Contains(sent, "set") => parsed

\* A session of a Wi-Fi Display sink is given up only with its connection, or
\* while the sink owes the answer to a keep-alive.
SessionsLast ==
    [][session /\ ~ session' =>
         closed' \/ kind = "rtsp" \/ Contains(out \o inbox, "keep")]_session

\* Once the sink has asked for M2, the set-up runs to its end.
Completes == Contains(idles, "query") ~> init = "DONE" \/ closed \/ crashed

\* "No codec/resolution could be found, falling back to defaults!" (wfd-client.c:139)
FallsBack == ~ crashed
=============================================================================
