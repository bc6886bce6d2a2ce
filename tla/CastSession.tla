---------------------------- MODULE CastSession ----------------------------
(***************************************************************************)
(* One Chromecast sink: nd-cc-sink.c drives cc-ctrl.c, which drives        *)
(* cc-comm.c (TLS), and a media server (cc-http-server.c on top of         *)
(* cc-media-factory.c) that the receiver fetches the stream from.          *)
(*                                                                         *)
(* All of it runs on one main loop, in callbacks that call each other: a   *)
(* failed write ends the stream, which finishes the session, which writes. *)
(* `stack' holds what is left to do of the running callback, a frame per   *)
(* function (or rest of one); the main loop dispatches the next event when *)
(* it is empty.  The connection and the receiver may change at any time.   *)
(***************************************************************************)
EXTENDS Integers, Sequences

CONSTANTS
    MaxStack,    \* bound: frames the C stack has room for
    MaxInbox,    \* bound: unread messages beyond which the receiver is quiet
    MaxChanges   \* bound: things the receiver does on its own over a run

ASSUME CastAssumption ==
    /\ MaxStack \in Nat \ {0}
    /\ MaxInbox \in Nat
    /\ MaxChanges \in Nat

VARIABLES
    sink,      \* self->state of the NdCCSink
    ctrl,      \* ctrl->state
    con,       \* comm->con: "none" is NULL, "plain" a TCP connection without TLS
    handshake, \* a TLS handshake is pending
    link,      \* whether the TCP connection still works
    ping,      \* the timer of ctrl->ping_timeout_handle is installed
    src,       \* comm->input_source is attached to the main loop
    http,      \* self->http_server, "none" is NULL
    current,   \* self->http_server answers requests
    stray,     \* the kinds of media servers that answer requests unknown to the sink
    stack,     \* the running callback, innermost frame first
    inbox,     \* messages received on the connection and not read yet
    rxApp,     \* the application the receiver runs
    loaded,    \* that application was told to load our media
    changes,   \* number of things the receiver did on its own
    aborted    \* the process died: of an assertion, of recursion, of freed memory

media == <<http, current, stray>>
comm == <<con, handshake, link, src>>
receiver == <<rxApp, loaded, changes>>
vars == <<sink, ctrl, comm, ping, media, stack, inbox, receiver, aborted>>

\* CcCtrlState, whose values the code compares with >=.  STREAMING (5) is
\* overwritten with READY before anything can see it.
DISCONNECTED == 0
CONNECTED == 1
LAUNCH_SENT == 2
APP_OPEN == 3

READY == 4
ERROR == 6

SinkStates == {"disconnected", "wait_socket", "streaming", "error"}
CtrlStates == (0 .. 6) \ {5}
Apps == {"none", "ours", "other"}
Messages == Apps \union {"available", "unavailable", "launch_error", "error",
                         "load_failed", "close_receiver", "close_app"}
Frames == {"greet", "get_status", "launch", "launch_available", "launch_again", "query",
           "init_connect", "init_serve", "init_load", "close", "close_tail",
           "stop", "stop_tail", "finish", "finish_app", "finish_con", "finish_tail"}

\* A media server is out of sight when a later one was started on the same object
\* ("own"), or when it was started on an object that was finalized before ("late").
\* The pipeline of the former is freed with their object ("freed").
Strays == {"own", "late", "freed"}

TypeOK ==
    /\ sink \in SinkStates
    /\ ctrl \in CtrlStates
    /\ con \in {"none", "plain", "tls"}
    /\ handshake \in BOOLEAN
    /\ link \in {"up", "down"}
    /\ ping \in BOOLEAN
    /\ src \in BOOLEAN
    /\ http \in {"none", "created"}
    /\ current \in BOOLEAN
    /\ stray \subseteq Strays
    /\ stack \in Seq(Frames) /\ Len(stack) =< MaxStack
    /\ inbox \in Seq(Messages)
    /\ rxApp \in Apps
    /\ loaded \in BOOLEAN
    /\ changes \in 0 .. MaxChanges
    /\ aborted \in {"no", "http", "ctrl", "con", "stack", "freed"}
-----------------------------------------------------------------------------
(* The running callback *)

MainLoop == stack = <<>> /\ aborted = "no"

Call(f) == stack' = <<f>> /\ UNCHANGED aborted

At(f) == aborted = "no" /\ stack # <<>> /\ Head(stack) = f

\* The frame at the top returns after calling fs, unless the stack overflows.
Return(fs) ==
    IF Len(fs \o Tail(stack)) > MaxStack
    THEN aborted' = "stack" /\ stack' = <<>>
    ELSE stack' = fs \o Tail(stack) /\ UNCHANGED aborted

\* cc_comm_tls_send succeeds.
CanSend == link = "up" /\ con = "tls"

Reply(ms) == inbox' = inbox \o ms
-----------------------------------------------------------------------------
(* nd-cc-sink.c *)

\* nd_cc_sink_sink_start_stream refuses a sink that is not disconnected.
StartGuard == MainLoop /\ sink = "disconnected"

\* The first assertion on the way to a connection that fails.
Leftover ==
    IF http # "none" THEN "http"
    ELSE IF ctrl # DISCONNECTED THEN "ctrl"
    ELSE IF con # "none" THEN "con" ELSE "no"

StartAsserts ==
    /\ StartGuard
    /\ Leftover # "no"
    /\ aborted' = Leftover
    /\ UNCHANGED <<sink, ctrl, comm, ping, media, stack, inbox, receiver>>

\* Encoders are missing: nothing is tried.
StartLacksCodecs ==
    /\ StartGuard
    /\ http = "none"
    /\ http' = "created"
    /\ sink' = "error"
    /\ UNCHANGED <<ctrl, comm, ping, current, stray, stack, inbox, receiver, aborted>>

\* cc_comm_make_connection may fail before there is a connection, before it is
\* a TLS connection, and after the handshake was started.
StartConnects ==
    /\ StartGuard
    /\ Leftover = "no"
    /\ http' = "created"
    /\ \/ sink' = "error" /\ UNCHANGED comm
       \/ /\ sink' = "error"
          /\ con' = "plain"
          /\ link' = "up"
          /\ UNCHANGED <<handshake, src>>
       \/ /\ sink' \in {"wait_socket", "error"}
          /\ con' = "tls"
          /\ link' = "up"
          /\ handshake' = TRUE
          /\ UNCHANGED src
    /\ UNCHANGED <<ctrl, ping, current, stray, stack, inbox, receiver, aborted>>

\* nd_cc_sink_sink_stop_stream, called by the window or the stream process.
StopStream ==
    /\ MainLoop
    /\ Call("stop")
    /\ UNCHANGED <<sink, ctrl, comm, ping, media, inbox, receiver>>

Stop ==
    /\ At("stop")
    /\ Return(IF sink = "disconnected" THEN <<>> ELSE <<"finish", "stop_tail">>)
    /\ UNCHANGED <<sink, ctrl, comm, ping, media, inbox, receiver>>

\* Mutant of FinalServer: the pointer to the media server is not cleared.
ServerKept == current' = FALSE /\ UNCHANGED http

\* cc_http_server_finalize is called as a function: the server stops answering,
\* but the object keeps its memory and its signal handlers.
FinalServer == current' = FALSE /\ http' = "none"

\* cc_media_factory_finalize frees the pipeline that earlier servers go on using.
PipelineFreed == stray' = (stray \ {"own"}) \union (IF "own" \in stray THEN {"freed"} ELSE {})

StopTail ==
    /\ At("stop_tail")
    /\ FinalServer
    /\ PipelineFreed
    /\ sink' = "disconnected"
    /\ Return(<<>>)
    /\ UNCHANGED <<ctrl, comm, ping, inbox, receiver>>
-----------------------------------------------------------------------------
(* cc-ctrl.c: ending a session *)

\* cc_ctrl_close_connection
Close ==
    /\ At("close")
    /\ Return(IF ctrl = ERROR THEN <<>> ELSE <<"stop", "close_tail">>)
    /\ UNCHANGED <<sink, ctrl, comm, ping, media, inbox, receiver>>

CloseTail ==
    /\ At("close_tail")
    /\ ctrl' = ERROR
    /\ Return(<<>>)
    /\ UNCHANGED <<sink, comm, ping, media, inbox, receiver>>

\* Mutant of HasSession: a session is finished whether there is one or not.
HasSessionAlways == TRUE

HasSession == ctrl \notin {DISCONNECTED, ERROR}

\* Mutant of Goodbyes: an application that is READY is not stopped.
GoodbyesWhenOpening ==
    IF ctrl = APP_OPEN THEN <<"finish_app", "finish_con", "finish_tail">>
    ELSE <<"finish_con", "finish_tail">>

\* The application is stopped if it was opened, then the connection closed.
Goodbyes ==
    IF ctrl >= APP_OPEN THEN <<"finish_app", "finish_con", "finish_tail">>
    ELSE <<"finish_con", "finish_tail">>

\* Mutant of Finish: the timer is left running.
FinishKeepsTimer ==
    /\ At("finish")
    /\ Return(IF HasSession THEN Goodbyes ELSE <<>>)
    /\ UNCHANGED <<sink, ctrl, comm, ping, media, inbox, receiver>>

\* cc_ctrl_finish
Finish ==
    /\ At("finish")
    /\ ping' = (ping /\ ~ HasSession)
    /\ Return(IF HasSession THEN Goodbyes ELSE <<>>)
    /\ UNCHANGED <<sink, ctrl, comm, media, inbox, receiver>>

\* STOP, then CLOSE.  A failed one closes the connection and is then ignored.
FinishApp ==
    /\ At("finish_app")
    /\ IF CanSend
       THEN /\ rxApp' = IF rxApp = "ours" THEN "none" ELSE rxApp
            /\ loaded' = FALSE
            /\ Return(<<>>)
       ELSE Return(<<"close">>) /\ UNCHANGED <<rxApp, loaded>>
    /\ UNCHANGED <<sink, ctrl, comm, ping, media, inbox, changes>>

FinishCon ==
    /\ At("finish_con")
    /\ Return(IF CanSend THEN <<>> ELSE <<"close">>)
    /\ UNCHANGED <<sink, ctrl, comm, ping, media, inbox, receiver>>

\* cc_comm_finish destroys the source and closes the connection.
FinishTail ==
    /\ At("finish_tail")
    /\ src' = FALSE
    /\ con' = "none"
    /\ inbox' = <<>>
    /\ ctrl' = DISCONNECTED
    /\ Return(<<>>)
    /\ UNCHANGED <<sink, handshake, link, ping, media, receiver>>
-----------------------------------------------------------------------------
(* cc-comm.c and cc-ctrl.c: the handshake and the timer *)

\* tls_handshake_cb: nothing cancels a handshake, it always comes back.
HandshakeDone ==
    /\ MainLoop
    /\ handshake /\ link = "up"
    /\ handshake' = FALSE
    /\ src' = TRUE
    /\ Call("greet")
    /\ UNCHANGED <<sink, ctrl, con, link, ping, media, inbox, receiver>>

\* Mutant of HandshakeError: a failed handshake is not reported.
HandshakeErrorDropped == UNCHANGED <<stack, aborted>>

HandshakeError == Call("close")

HandshakeFails ==
    /\ MainLoop
    /\ handshake
    /\ handshake' = FALSE
    /\ HandshakeError
    /\ UNCHANGED <<sink, ctrl, con, link, src, ping, media, inbox, receiver>>

\* cc_ctrl_handshake_completed: AUTH and CONNECT, then the timer.
Greet ==
    /\ At("greet")
    /\ IF CanSend
       THEN ctrl' = CONNECTED /\ ping' = TRUE /\ Return(<<"get_status">>)
       ELSE Return(<<"close">>) /\ UNCHANGED <<ctrl, ping>>
    /\ UNCHANGED <<sink, comm, media, inbox, receiver>>

GetStatus ==
    /\ At("get_status")
    /\ IF CanSend
       THEN Reply(<<rxApp>>) /\ Return(<<>>)
       ELSE Return(<<"close">>) /\ UNCHANGED inbox
    /\ UNCHANGED <<sink, ctrl, comm, ping, media, receiver>>

\* cc_ctrl_send_ping, when the write fails: the timer is removed.
PingFails ==
    /\ MainLoop
    /\ ping /\ ~ CanSend
    /\ ping' = FALSE
    /\ Call("close")
    /\ UNCHANGED <<sink, ctrl, comm, media, inbox, receiver>>
-----------------------------------------------------------------------------
(* cc-ctrl.c: messages *)

\* What cc_ctrl_handle_received_msg calls.  Receiver status is named after the
\* application it reports.
Handler(m) ==
    CASE m = "none"                             -> IF ctrl >= LAUNCH_SENT THEN <<>> ELSE <<"launch">>
      [] m = "ours"                             -> <<"init_connect">>
      [] m = "other"                            -> <<"query">>
      [] m = "available"                        -> <<"launch_available">>
      [] m = "close_app"                        -> <<"launch_again">>
      [] m \in {"unavailable", "launch_error", "error",
                "load_failed", "close_receiver"} -> <<"close">>

\* on_read_bytes with a whole message.
ReadMessage ==
    /\ MainLoop
    /\ src /\ inbox # <<>>
    /\ inbox' = Tail(inbox)
    /\ ctrl' = IF Head(inbox) = "ours" THEN APP_OPEN ELSE ctrl
    /\ stack' = Handler(Head(inbox))
    /\ UNCHANGED <<sink, comm, ping, media, receiver, aborted>>

\* on_read_bytes when there is no whole header: at the end of the stream, but also on a
\* link that works and has delivered a part of it.  The source goes, nobody is told.
ReadEnd ==
    /\ MainLoop
    /\ src
    /\ src' = FALSE
    /\ UNCHANGED <<sink, ctrl, con, handshake, link, ping, media, stack, inbox, receiver, aborted>>

\* cc_ctrl_send_launch_app, from three places.  Only the one for an idle
\* receiver records it; the one after an availability check closes twice.
Launch(f) ==
    /\ At(f)
    /\ IF CanSend
       THEN /\ ctrl' = IF f = "launch" THEN LAUNCH_SENT ELSE ctrl
            /\ \/ Reply(<<"ours">>) /\ rxApp' = "ours" /\ loaded' = FALSE
               \/ Reply(<<"launch_error">>) /\ UNCHANGED <<rxApp, loaded>>
            /\ Return(<<>>)
       ELSE /\ Return(IF f = "launch_available" THEN <<"close", "close">> ELSE <<"close">>)
            /\ UNCHANGED <<ctrl, inbox, rxApp, loaded>>
    /\ UNCHANGED <<sink, comm, ping, media, changes>>

\* cc_ctrl_send_get_app_availability
Query ==
    /\ At("query")
    /\ IF CanSend
       THEN (\E m \in {"available", "unavailable"} : Reply(<<m>>)) /\ Return(<<>>)
       ELSE Return(<<"close">>) /\ UNCHANGED inbox
    /\ UNCHANGED <<sink, ctrl, comm, ping, media, receiver>>

\* cc_ctrl_app_init.  A failed write closes the connection at once, and the
\* caller closes it again.
InitConnect ==
    /\ At("init_connect")
    /\ Return(IF CanSend THEN <<"init_serve">> ELSE <<"close", "close">>)
    /\ UNCHANGED <<sink, ctrl, comm, ping, media, inbox, receiver>>

\* Mutant of NoPort: the application is told to load from a server without a port.
NoPortIgnored == <<"init_load">>

NoPort == <<"close">>

\* The server of an earlier call, whose pointer the new one overwrites.
Forgotten == IF current THEN {"own"} ELSE {}

\* cc_http_server_start_server.  The server of an earlier call is forgotten but
\* goes on answering; so does one started on an object that was finalized.
InitServe ==
    /\ At("init_serve")
    /\ \/ /\ current' = (http = "created")
          /\ stray' = stray \union Forgotten \union (IF http = "none" THEN {"late"} ELSE {})
          /\ Return(<<"init_load">>)
       \/ /\ Return(<<"stop", "close">>) \* the pipeline does not get READY
          /\ UNCHANGED <<current, stray>>
       \/ /\ current' = FALSE            \* no port to listen on
          /\ stray' = stray \union Forgotten
          /\ Return(NoPort)
    /\ UNCHANGED <<sink, ctrl, comm, ping, http, inbox, receiver>>

InitLoad ==
    /\ At("init_load")
    /\ IF CanSend
       THEN /\ ctrl' = READY
            /\ IF rxApp = "ours"
               THEN /\ loaded' = TRUE
                    /\ Reply(<<>>) \/ Reply(<<"load_failed">>)
               ELSE Reply(<<"close_app">>) /\ UNCHANGED loaded
            /\ Return(<<>>)
       ELSE Return(<<"close", "close">>) /\ UNCHANGED <<ctrl, inbox, loaded>>
    /\ UNCHANGED <<sink, comm, ping, media, rxApp, changes>>
-----------------------------------------------------------------------------
(* cc-http-server.c and cc-media-factory.c *)

Serving == current \/ stray # {}

\* The stream is requested and its pipeline gets PLAYING: "stream-started".
HttpGet ==
    /\ MainLoop
    /\ Serving
    /\ sink' = "streaming"
    /\ UNCHANGED <<ctrl, comm, ping, media, stack, inbox, receiver, aborted>>

\* A forgotten server is asked for the stream: its pipeline was freed with its object.
StrayCrash ==
    /\ MainLoop
    /\ "freed" \in stray
    /\ aborted' = "freed"
    /\ UNCHANGED <<sink, ctrl, comm, ping, media, stack, inbox, receiver>>

\* Mutant of PipelineFails: the error is shown, and nothing is cleaned up.
PipelineFailsAloud ==
    /\ MainLoop
    /\ Serving
    /\ sink' = "error"
    /\ UNCHANGED <<ctrl, comm, ping, media, stack, inbox, receiver, aborted>>

\* The pipeline does not get PLAYING, or fails later: "end-stream".
PipelineFails ==
    /\ MainLoop
    /\ Serving
    /\ Call("stop")
    /\ UNCHANGED <<sink, ctrl, comm, ping, media, inbox, receiver>>
-----------------------------------------------------------------------------
(* The connection and the receiver *)

LinkFails ==
    /\ con # "none" /\ link = "up" /\ aborted = "no"
    /\ link' = "down"
    /\ loaded' = FALSE
    /\ UNCHANGED <<sink, ctrl, con, handshake, src, ping, media, stack, inbox, rxApp, changes, aborted>>

\* The receiver has something to say on its own.
Spontaneous ==
    /\ CanSend /\ ctrl # DISCONNECTED /\ aborted = "no"
    /\ Len(inbox) < MaxInbox
    /\ changes < MaxChanges
    /\ changes' = changes + 1
    /\ UNCHANGED <<sink, ctrl, comm, ping, media, stack, aborted>>

\* Somebody changes what the receiver runs.  Our application says good-bye.
AppChanges ==
    /\ Spontaneous
    /\ \E app \in Apps \ {rxApp} :
        /\ rxApp' = app
        /\ Reply(IF rxApp = "ours" THEN <<"close_app", app>> ELSE <<app>>)
    /\ loaded' = FALSE

\* The receiver repeats its status, closes the virtual connection or reports an error.
ReceiverSays ==
    /\ Spontaneous
    /\ \E m \in {rxApp, "close_receiver", "error"} : Reply(<<m>>)
    /\ UNCHANGED <<rxApp, loaded>>
-----------------------------------------------------------------------------
Init ==
    /\ sink = "disconnected"
    /\ ctrl = DISCONNECTED
    /\ con = "none" /\ handshake = FALSE /\ link = "down" /\ src = FALSE
    /\ ping = FALSE
    /\ http = "none" /\ current = FALSE /\ stray = {}
    /\ stack = <<>>
    /\ inbox = <<>>
    /\ rxApp \in Apps \ {"ours"} /\ loaded = FALSE /\ changes = 0
    /\ aborted = "no"

\* What the user of the sink does.
User == StartAsserts \/ StartLacksCodecs \/ StartConnects \/ StopStream

\* The running callback goes on.
Callback ==
    \/ Stop \/ StopTail
    \/ Close \/ CloseTail
    \/ Finish \/ FinishApp \/ FinishCon \/ FinishTail
    \/ Greet \/ GetStatus
    \/ \E f \in {"launch", "launch_available", "launch_again"} : Launch(f)
    \/ Query
    \/ InitConnect \/ InitServe \/ InitLoad

HandshakeReturns == HandshakeDone \/ HandshakeFails

Environment == LinkFails \/ AppChanges \/ ReceiverSays

Next ==
    \/ User
    \/ Callback
    \/ HandshakeReturns
    \/ PingFails
    \/ ReadMessage \/ ReadEnd
    \/ HttpGet \/ PipelineFails \/ StrayCrash
    \/ Environment

Spec == Init /\ [][Next]_vars

\* A callback runs to its end.  The main loop dispatches every source that stays
\* ready, however busy the others keep it; a handshake comes back; a receiver
\* that was told where the media is fetches it.
Fairness ==
    /\ WF_vars(Callback)
    /\ SF_vars(HandshakeReturns)
    /\ SF_vars(PingFails)
    /\ SF_vars(ReadMessage)
    /\ SF_vars(loaded /\ (HttpGet \/ PipelineFails))

FairSpec == Spec /\ Fairness
-----------------------------------------------------------------------------
(* Properties *)

\* A disconnected sink has no media server, so the next start_stream cannot fail
\* its assertion (nd-cc-sink.c:401), however the last session ended.
Restartable == sink = "disconnected" => http = "none" /\ ~ current

\* The timer and the input source never outlive the TLS connection they use.
SourcesConnected == ping \/ src => con = "tls"

\* No message is built for a connection that is not there: whoever is about to
\* send finds the TLS connection in place, after any nested clean-up.
Senders == {"greet", "get_status", "launch", "launch_available", "launch_again", "query",
            "init_connect", "init_load", "finish_app", "finish_con"}

SendersConnected ==
    (aborted = "no" /\ stack # <<>> /\ Head(stack) \in Senders) => con = "tls"

\* As long as the receiver can be written to, ending a stream does not recurse:
\* all nested clean-ups return.
RecursionNeedsDeadLink == aborted = "stack" => link = "down"

\* The receiver is sent to a server that answers: from the LOAD to the end of the
\* session, with all that stops in between, some media server is up.
LoadedServed == ctrl = READY => Serving

\* When the connection is gone, the receiver has been told to stop our media.
NothingLeftPlaying == con = "none" => ~ loaded

\* The session of a sink that waits is cut off: its link is dead, or its messages are no
\* longer read.  Nobody is told (cc-comm.c:125), and the clean-up over a dead link may recurse.
CutOff == HasSession /\ (link = "down" \/ ~ src)

\* A sink that waits for its receiver over a link that works and is read does not wait for
\* ever: the stream starts, or the session ends and the user is told.  The end of the process
\* is no such end, but for the one that a server with a freed pipeline may cause.
Settles == sink = "wait_socket" ~> sink # "wait_socket" \/ CutOff \/ "freed" \in stray

\* assert (ctrl->state == CC_CTRL_STATE_DISCONNECTED) (cc-ctrl.c:597): a stream
\* can be started again after an error.
CtrlDisconnected == aborted # "ctrl"

\* "Stop any active streaming or connection attempt to this sink" (nd-sink.c:136):
\* what was stopped does not start to stream.
StoppedStaysStopped == [][sink = "disconnected" => sink' # "streaming"]_sink

\* Whoever listens to the sink sees the life of a sink, for all that its callbacks do
\* below: a start from DISCONNECTED alone, and no way from the stream but its end.
Life == INSTANCE NdSink WITH kind <- "cc", state <- sink, apart <- TRUE

ImplementsSink == Life!Spec
=============================================================================
