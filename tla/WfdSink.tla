------------------------------- MODULE WfdSink -------------------------------
(***************************************************************************)
(* The session of a Miracast sink, over Wi-Fi Direct (nd-wfd-p2p-sink.c)   *)
(* or over an existing network (nd-wfd-mice-sink.c).  Both bring up an     *)
(* RTSP server, wait for the sink to connect to it, and take everything    *)
(* down again in stop_stream_int.                                          *)
(*                                                                         *)
(* Two threads run this code without a lock: the main loop, and the thread *)
(* in which the RTSP server serves its client and emits "play-request" and *)
(* "closed".  `todo' holds what is left of the handler each one is in.  The *)
(* main loop is cut only where it takes a session down, which is where the *)
(* other thread may be doing the same.                                     *)
(***************************************************************************)
EXTENDS Integers, Sequences

CONSTANT
    MaxLive   \* bound: asynchronous calls of start_stream under way

ASSUME WfdSinkAssumption == MaxLive \in Nat \ {0}

VARIABLES
    kind,        \* which of the two sinks it is: "p2p" or "mice"
    state,       \* self->state
    firewall,    \* ensure_wfd_zone calls under way that were not cancelled
    activation,  \* activations under way that were not cancelled
    link,        \* self->nm_ac (p2p) or self->signalling_client_conn (mice)
    server,      \* self->server
    attached,    \* self->server_source_id: connections are accepted
    listening,   \* client_connected_cb is connected
    client,      \* self->wfd_client, with the handlers of the sink
    tv,          \* the TV is connected to the RTSP server of the session
    orphan,      \* a TV is connected to a server of an earlier session
    todo,        \* for each thread, what is left of its handler
    overlapped,  \* the handlers of the two threads were interleaved
    aborted      \* the process died: of an assertion, of a double free

session == <<firewall, activation, link, server, attached, listening, client, tv, orphan>>
vars == <<kind, state, session, todo, overlapped, aborted>>

Threads == {"main", "rtsp"}
States == {"disconnected", "ensure_firewall", "wait_p2p", "wait_socket",
           "wait_streaming", "streaming", "error"}
Frames == {"cancel", "client", "server", "link"} \union States

TypeOK ==
    /\ kind \in {"p2p", "mice"}
    /\ state \in States
    /\ firewall \in 0 .. MaxLive
    /\ activation \in 0 .. MaxLive
    /\ \A b \in {link, server, attached, listening, client, tv, orphan, overlapped} : b \in BOOLEAN
    /\ todo \in [Threads -> Seq(Frames)]
    /\ aborted \in {"no", "server", "race"}
-----------------------------------------------------------------------------
Other(t) == IF t = "main" THEN "rtsp" ELSE "main"

Idle(t) == todo[t] = <<>> /\ aborted = "no"

\* Thread t does something in a handler of its own.
Mixes(t) == overlapped' = (overlapped \/ todo[Other(t)] # <<>>) /\ UNCHANGED kind

\* A handler of thread t that goes on with the frames fs.
Enter(t, fs) == todo' = [todo EXCEPT ![t] = fs] /\ Mixes(t)

\* A handler of the main loop that is over at once.
Done == UNCHANGED todo /\ Mixes("main")

\* Mutant of StopThen: nothing is cancelled.
StopForgetsCancel(final) == <<"client", "server", "link", final>>

\* nd_wfd_*_sink_sink_stop_stream_int, then the state its caller sets.
StopThen(final) ==
    IF kind = "p2p" THEN <<"cancel", "client", "server", "link", final>>
    ELSE <<"cancel", "link", "client", "server", final>>
-----------------------------------------------------------------------------
(* Starting over Wi-Fi Direct *)

StartP2P ==
    /\ Idle("main")
    /\ kind = "p2p"
    /\ state = "disconnected"
    /\ firewall + activation < MaxLive
    /\ state' = "ensure_firewall"
    /\ firewall' = firewall + 1
    /\ Done
    /\ UNCHANGED <<activation, link, server, attached, listening, client, tv, orphan, aborted>>

\* Mutant of FirewallFails: a failure is dropped like a cancellation.
FirewallFailsSilently == Done

FirewallFails == Enter("main", StopThen("error"))

\* firewall_ready.  The answer to a cancelled call is dropped.
FirewallReady ==
    /\ Idle("main")
    /\ firewall > 0
    /\ firewall' = firewall - 1
    /\ \/ /\ state' = "wait_p2p"
          /\ activation' = activation + 1
          /\ Done
       \/ FirewallFails /\ UNCHANGED <<state, activation>>
    /\ UNCHANGED <<link, server, attached, listening, client, tv, orphan, aborted>>

\* The server accepts connections and its signals are connected.
Listen == server' = TRUE /\ attached' = TRUE /\ listening' = TRUE

\* The server is kept, but not attached.
CodecsMissing == state' = "error" /\ server' = TRUE /\ UNCHANGED <<attached, listening>>

\* p2p_connected
P2PFails ==
    /\ Idle("main")
    /\ activation > 0
    /\ activation' = activation - 1
    /\ Enter("main", StopThen("error"))
    /\ UNCHANGED <<state, firewall, link, server, attached, listening, client, tv, orphan, aborted>>

P2PConnected ==
    /\ Idle("main")
    /\ activation > 0
    /\ activation' = activation - 1
    /\ link' = TRUE
    /\ Done
    /\ IF server
       THEN aborted' = "server" /\ UNCHANGED <<state, server, attached, listening>>
       ELSE /\ UNCHANGED aborted
            /\ \/ state' = "wait_socket" /\ Listen
               \/ CodecsMissing
               \/ state' = "error" /\ UNCHANGED <<server, attached, listening>> \* port in use
    /\ UNCHANGED <<firewall, client, tv, orphan>>

\* Mutant of LinkLost: the session goes on without its connection.
LinkLostOnly ==
    /\ Idle("main") /\ kind = "p2p" /\ link
    /\ link' = FALSE
    /\ Done
    /\ UNCHANGED <<state, firewall, activation, server, attached, listening, client, tv, orphan, aborted>>

\* notify_active_connection_cb
LinkLost ==
    /\ Idle("main")
    /\ kind = "p2p"
    /\ link
    /\ link' = FALSE
    /\ Enter("main", StopThen("error"))
    /\ UNCHANGED <<state, firewall, activation, server, attached, listening, client, tv, orphan, aborted>>
-----------------------------------------------------------------------------
(* Starting over an existing network *)

\* The error path forgets the server, which goes on if it is attached already.
MiceFails ==
    /\ state' = "error"
    /\ server' = FALSE
    /\ \/ UNCHANGED <<link, attached, listening>>   \* no address, codecs or port
       \/ /\ link' \in {link, TRUE}                 \* SOURCE_READY was not sent
          /\ attached' = TRUE
          /\ listening' = TRUE

StartMice ==
    /\ Idle("main")
    /\ kind = "mice"
    /\ state = "disconnected"
    /\ \/ server /\ aborted' = "server" /\ UNCHANGED <<state, link, server, attached, listening>>
       \/ ~ server /\ MiceFails /\ UNCHANGED aborted
       \/ /\ ~ server
          /\ state' = "wait_socket"
          /\ Listen
          /\ link' = TRUE
          /\ UNCHANGED aborted
    /\ Done
    /\ UNCHANGED <<firewall, activation, client, tv, orphan>>
-----------------------------------------------------------------------------
(* The RTSP client *)

\* client_connected_cb takes itself off the server, if the sink still knows it.
ClientConnected ==
    /\ Idle("main")
    /\ attached /\ listening /\ ~ tv
    /\ tv' = TRUE
    /\ client' = TRUE
    /\ listening' = ~ server
    /\ state' = "wait_streaming"
    /\ Done
    /\ UNCHANGED <<firewall, activation, link, server, attached, orphan, aborted>>

\* play_request_cb
PlayRequest ==
    /\ Idle("rtsp")
    /\ tv /\ client
    /\ Enter("rtsp", <<"streaming">>)
    /\ UNCHANGED <<state, session, aborted>>

\* closed_cb
Closed ==
    /\ Idle("rtsp")
    /\ tv
    /\ tv' = FALSE
    /\ IF client /\ state # "disconnected"
       THEN Enter("rtsp", StopThen("disconnected"))
       ELSE UNCHANGED <<kind, todo, overlapped>>
    /\ UNCHANGED <<state, firewall, activation, link, server, attached, listening, client, orphan, aborted>>

\* The connection of an orphan ends: its handlers are gone, so nothing follows.
OrphanGoes ==
    /\ Idle("rtsp")
    /\ orphan
    /\ orphan' = FALSE
    /\ UNCHANGED <<kind, state, firewall, activation, link, server, attached, listening, client, tv,
                   todo, overlapped, aborted>>
-----------------------------------------------------------------------------
(* Stopping *)

\* nd_wfd_*_sink_sink_stop_stream
StopStream ==
    /\ Idle("main")
    /\ state # "disconnected"
    /\ Enter("main", StopThen("disconnected"))
    /\ UNCHANGED <<state, session, aborted>>

At(t, f) == aborted = "no" /\ todo[t] # <<>> /\ Head(todo[t]) = f

Goes(t) == todo' = [todo EXCEPT ![t] = Tail(@)] /\ Mixes(t) /\ UNCHANGED aborted

\* Every call shares the cancellable of the sink.
Cancelled(n) == 0

\* What was under way is cancelled; its callbacks will change nothing.
Cancel(t) ==
    /\ At(t, "cancel")
    /\ firewall' = Cancelled(firewall) /\ activation' = Cancelled(activation)
    /\ Goes(t)
    /\ UNCHANGED <<state, link, server, attached, listening, client, tv, orphan>>

\* No more connections, no more signals of the client.
DropClient(t) ==
    /\ At(t, "client")
    /\ attached' = FALSE
    /\ client' = FALSE
    /\ listening' = (listening /\ server)
    /\ Goes(t)
    /\ UNCHANGED <<state, firewall, activation, link, server, tv, orphan>>

\* Mutant of Purged: the server is let go of with its client.
LetGo == orphan' = (orphan \/ tv)

\* wfd_server_purge closes the client of the server; a server that the sink has
\* forgotten keeps it.
Purged == orphan' = (orphan \/ (tv /\ ~ server))

\* The server is taken out of the sink and purged.
DropServer(t) ==
    /\ At(t, "server")
    /\ server' = FALSE
    /\ listening' = (listening /\ ~ server)
    /\ tv' = FALSE
    /\ Purged
    /\ Goes(t)
    /\ UNCHANGED <<state, firewall, activation, link, attached, client>>

DropLink(t) ==
    /\ At(t, "link")
    /\ link' = FALSE
    /\ Goes(t)
    /\ UNCHANGED <<state, firewall, activation, server, attached, listening, client, tv, orphan>>

SetState(t) ==
    /\ \E s \in States : At(t, s) /\ state' = s
    /\ Goes(t)
    /\ UNCHANGED session

\* Both threads drop a reference only one of them has.
DoubleFree ==
    /\ \/ At("main", "cancel") /\ At("rtsp", "cancel")
       \/ At("main", "client") /\ At("rtsp", "client") /\ client
       \/ At("main", "server") /\ At("rtsp", "server") /\ server
       \/ At("main", "link") /\ At("rtsp", "link") /\ link
    /\ aborted' = "race"
    /\ UNCHANGED <<kind, state, session, todo, overlapped>>
-----------------------------------------------------------------------------
Init ==
    /\ kind \in {"p2p", "mice"}
    /\ state = "disconnected"
    /\ firewall = 0 /\ activation = 0
    /\ link = FALSE /\ server = FALSE /\ attached = FALSE /\ listening = FALSE
    /\ client = FALSE /\ tv = FALSE /\ orphan = FALSE
    /\ todo = [t \in Threads |-> <<>>]
    /\ overlapped = FALSE
    /\ aborted = "no"

Goon(t) == Cancel(t) \/ DropClient(t) \/ DropServer(t) \/ DropLink(t) \/ SetState(t)

Next ==
    \/ StartP2P \/ FirewallReady \/ P2PFails \/ P2PConnected \/ LinkLost
    \/ StartMice
    \/ ClientConnected \/ PlayRequest \/ Closed \/ OrphanGoes
    \/ StopStream
    \/ \E t \in Threads : Goon(t)
    \/ DoubleFree

Spec == Init /\ [][Next]_vars

\* A handler runs to its end, and the D-Bus calls time out if nothing else.
FairSpec ==
    /\ Spec
    /\ \A t \in Threads : WF_vars(Goon(t))
    /\ SF_vars(FirewallReady)
    /\ SF_vars(P2PConnected \/ P2PFails)
-----------------------------------------------------------------------------
(* Properties *)

Quiet == (\A t \in Threads : todo[t] = <<>>) /\ aborted = "no"

\* Whatever ended it, nothing is left of a session when the sink is disconnected: the
\* next one finds no server, port, client, link or pending call of the last, and over
\* Wi-Fi Direct no TV is still connected to a server.  Over an existing network one may be,
\* to a server that a failed start forgot (NobodyConnected).
NoLeftovers ==
    Quiet /\ ~ overlapped /\ state = "disconnected" =>
        /\ ~ (link \/ server \/ attached \/ listening \/ client \/ tv)
        /\ firewall + activation = 0
        /\ kind = "p2p" => ~ orphan

\* "Stop any active streaming or connection attempt to this sink" (nd-sink.c:136): when
\* the stop is over, no TV is connected to a server of the sink.  It does not hold for MICE.
NobodyConnected == Quiet /\ ~ overlapped /\ state = "disconnected" => ~ orphan

\* The pending calls of a sink are those its state waits for.
PendingExpected ==
    Quiet /\ ~ overlapped =>
        /\ firewall = IF state = "ensure_firewall" THEN 1 ELSE 0
        /\ activation = IF state = "wait_p2p" THEN 1 ELSE 0

\* What a session rests on is there: a sink that is streaming, or about to, has the
\* client and the port it streams to, and a Wi-Fi Direct sink its connection.
Served ==
    Quiet /\ ~ overlapped =>
        /\ state \in {"wait_streaming", "streaming"} => client /\ attached
        /\ state \in {"wait_socket", "wait_streaming", "streaming"} /\ kind = "p2p" => link

\* A Wi-Fi Direct session that failed stays failed until it is stopped.
ErrorStays ==
    [][~ overlapped' /\ kind = "p2p" /\ state = "error" => state' \in {"error", "disconnected"}]_state

\* Without an overlap of the threads the process survives.
Survives == ~ overlapped => aborted = "no"

\* The sink does not wait for the firewall or the network for ever.
Settles == state \in {"ensure_firewall", "wait_p2p"} ~>
               state \notin {"ensure_firewall", "wait_p2p"} \/ aborted # "no"

\* g_assert (sink->server == NULL)
ServerAsserted == aborted # "server"

\* Whoever listens to the sink sees the life of a sink: a session starts from the
\* beginning, gets on step by step and, over Wi-Fi Direct, is not revived.
Life == INSTANCE NdSink WITH apart <- ~ overlapped

ImplementsSink == Life!Spec
=============================================================================
