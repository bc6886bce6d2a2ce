------------------------------ MODULE NdWindow ------------------------------
(***************************************************************************)
(* The application's window (app/nd-window.c): the user picks a sink, the  *)
(* window follows its stream through the pages and switches the discovery  *)
(* off meanwhile.  The sinks are those of P2PRegistry.  The portal and the *)
(* life of a sink are external; of PulseAudio see NdStream.                *)
(***************************************************************************)
EXTENDS P2PRegistry

CONSTANTS
    None,
    MaxRequests    \* bound: portal sessions asked for and not there yet

ASSUME NoneAssumption == None \notin Peers
ASSUME RequestsAssumption == MaxRequests \in Nat \ {0}

VARIABLES
    page,        \* the visible child of step_stack
    stream,      \* stream_sink
    state,       \* the state of each peer's sink
    rows,        \* the pages whose list shows stream_sink
    use_x11,
    requests,    \* calls of xdp_portal_create_screencast_session without an answer
    session,     \* self->session: see Sessions
    orphans,     \* another session overwrote one that is still there
    starts,      \* the start of a session that was dropped has no answer yet
    picture,     \* the source of the stream's sink: "none", "asked" for or "made"
    asking,      \* what a thread of the RTSP server looks for next: see Asking
    overlapped,  \* history: the session was dropped while this thread looked for it
    aborted      \* the process has ended, and for want of what

portalVars == <<use_x11, requests, session, orphans, starts>>
sourceVars == <<picture, asking, overlapped>>
windowVars == <<page, stream, state, rows, portalVars, sourceVars, aborted>>
vars == <<registryVars, windowVars>>

\* "unstarted": the user has refused, or the portal has failed.
Sessions == {"none", "starting", "started", "unstarted"}

\* A bound: one thread asks at a time, for the stream or for one that is over.
Asking == {"no", "session", "streams"}

TypeOK ==
    /\ RegistryTypeOK
    /\ page \in {"find", "connect", "stream", "error"}
    /\ stream \in Peers \cup {None}
    /\ state \in [Peers -> {"disconnected", "connecting", "streaming", "error"}]
    /\ rows \subseteq {"connect", "stream", "error"}
    /\ use_x11 \in BOOLEAN /\ orphans \in BOOLEAN /\ starts \in BOOLEAN
    /\ requests \in 0 .. MaxRequests
    /\ session \in Sessions
    /\ picture \in {"none", "asked", "made"} /\ asking \in Asking /\ overlapped \in BOOLEAN
    /\ aborted \in {"no", "session", "streams", "crashed"}

Running == aborted = "no"
-----------------------------------------------------------------------------
(* The stream's state, shown. *)

\* The setter of "discover" in the meta provider
Discover(d) ==
    /\ discover' = d
    /\ Tells(SetDiscover(provider, d))

\* Mutant of Notified: an error gives back the list, like the end of a stream.
NotifiedErrorLeaves(s) ==
    \/ /\ s = "connecting"
       /\ page' = "connect"
       /\ UNCHANGED <<stream, rows>>
    \/ /\ s = "streaming"
       /\ page' = "stream" /\ rows' = {"stream"}
       /\ UNCHANGED stream
    \/ /\ s \in {"disconnected", "error"}
       /\ page' = "find" /\ rows' = {}
       /\ stream' = None

\* sink_notify_state_cb, case by case
Notified(s) ==
    \/ /\ s = "connecting"
       /\ page' = "connect"
       /\ UNCHANGED <<stream, rows>>
    \/ /\ s \in {"streaming", "error"}
       /\ page' = IF s = "streaming" THEN "stream" ELSE "error"
       /\ rows' = {page'}
       /\ UNCHANGED stream
    \/ /\ s = "disconnected"
       /\ page' = "find"
       /\ rows' = {}
       /\ stream' = None

Undisturbed == UNCHANGED <<client, device, peers, leaked>>

SinkChanges(s) ==
    /\ Running /\ stream # None
    /\ state' = [state EXCEPT ![stream] = s]
    /\ Notified(s)
    /\ picture' = IF s = "streaming" THEN picture ELSE "none"
    /\ IF s = "disconnected" THEN Discover(TRUE) ELSE UNCHANGED <<discover, provider>>
    /\ Undisturbed
    /\ UNCHANGED <<asking, aborted>>

Busy == stream # None /\ state[stream] \in {"connecting", "streaming"}

\* A sink by itself: external, see WfdSink.
SinkFails == Busy /\ SinkChanges("error") /\ UNCHANGED <<portalVars, overlapped>>
SinkCloses == Busy /\ SinkChanges("disconnected") /\ UNCHANGED <<portalVars, overlapped>>
SinkPlays == Busy /\ picture = "made" /\ SinkChanges("streaming") /\ UNCHANGED <<portalVars, overlapped>>

\* stream_stop_clicked_cb: the button of three pages
StopClicked == SinkChanges("disconnected") /\ UNCHANGED <<portalVars, overlapped>>
-----------------------------------------------------------------------------
(* The source of a stream: the sink asks for it on a thread of the RTSP    *)
(* server, which goes on when the stream is stopped.                       *)

Elsewhere == UNCHANGED <<registryVars, page, stream, state, rows, portalVars>>

\* sink_create_source_cb: X11 needs no session.
SourceAsked ==
    /\ Running /\ stream # None /\ state[stream] = "connecting"
    /\ picture = "none" /\ asking = "no"
    /\ IF use_x11 THEN picture' = "made" /\ UNCHANGED asking
       ELSE picture' = "asked" /\ asking' = "session"
    /\ Elsewhere /\ UNCHANGED <<overlapped, aborted>>

Aborts(why) == asking' = "no" /\ aborted' = why /\ UNCHANGED <<picture, overlapped>>

\* nd_window_screencast_get_source: the first g_error
SessionSought ==
    /\ Running /\ asking = "session"
    /\ \/ session # "none" /\ asking' = "streams" /\ UNCHANGED <<picture, overlapped, aborted>>
       \/ session = "none" /\ Aborts("session")
    /\ Elsewhere

\* The second g_error, and the use of the session; one that was dropped after the first
\* look is gone, or is freed memory.
StreamsSought ==
    /\ Running /\ asking = "streams"
    /\ \/ /\ session = "started"
          /\ asking' = "no" /\ overlapped' = FALSE
          /\ picture' = IF picture = "asked" THEN "made" ELSE picture
          /\ UNCHANGED aborted
       \/ session # "started" /\ Aborts("streams")
       \/ session = "none" /\ Aborts("crashed")
    /\ Elsewhere
-----------------------------------------------------------------------------
(* The start of a stream. *)

\* Without a session the user is asked again, and must pick the row once more.
AskPortal ==
    /\ ~ use_x11 /\ session = "none"
    /\ requests < MaxRequests /\ requests' = requests + 1
    /\ UNCHANGED <<registryVars, page, stream, state, rows, use_x11, session, orphans, starts,
                   sourceVars, aborted>>

\* Mutant of Start: the state is not looked at once the handler is connected.
StartUnnotified(p, s) ==
    /\ use_x11 \/ session # "none"
    /\ stream' = p
    /\ state' = [state EXCEPT ![p] = s]
    /\ page' = "connect" /\ rows' = {"connect"}
    /\ Discover(FALSE)
    /\ Undisturbed
    /\ UNCHANGED <<portalVars, sourceVars, aborted>>

\* auto_connect_to_sink: the sink may have failed inside nd_sink_start_stream.
Start(p, s) ==
    /\ use_x11 \/ session # "none"
    /\ stream' = p
    /\ state' = [state EXCEPT ![p] = s]
    /\ page' = IF s = "error" THEN "error" ELSE "connect"
    /\ rows' = {page', "connect"}
    /\ Discover(FALSE)
    /\ Undisturbed
    /\ UNCHANGED <<portalVars, sourceVars, aborted>>

\* find_sink_list_row_activated_cb: the list is on the page "find" alone.
RowActivated(p) ==
    /\ Running /\ page = "find" /\ p \in Rows
    /\ AskPortal \/ \E s \in {"connecting", "error"} : Start(p, s)

\* sink_list_sink_added_cb, on every change of the list.  It is connected with
\* G_CONNECT_SWAPPED and takes its arguments in the other order: whatever it reads in
\* the place of stream_sink, g_list_model_get_item refuses the window, and it returns.
ItemsChanged == UNCHANGED windowVars
-----------------------------------------------------------------------------
(* The portal. *)

Portal == UNCHANGED <<registryVars, page, stream, state, rows, picture, asking, aborted>>

\* The session goes, whoever looks for it and whether its start was answered or not.
Drops ==
    /\ starts' = (starts \/ session = "starting")
    /\ overlapped' = (overlapped \/ (asking # "no" /\ session' = "none"))

\* nd_screencast_init_cb: the field is overwritten, whatever is in it.
ScreencastCreated ==
    /\ Running /\ requests > 0
    /\ requests' = requests - 1
    /\ orphans' = (orphans \/ session # "none")
    /\ \/ session' = "starting" /\ UNCHANGED use_x11
       \/ session' = "none" /\ use_x11' = TRUE
    /\ Drops /\ Portal

\* nd_screencast_started_cb: a refusal is no reason for X11, a failure is.
ScreencastStarted ==
    /\ Running /\ session = "starting"
    /\ \/ session' \in {"started", "unstarted"} /\ UNCHANGED use_x11
       \/ session' = "unstarted" /\ use_x11' = TRUE
    /\ UNCHANGED <<requests, orphans, starts, overlapped>>
    /\ Portal

\* The same for a session that was overwritten or closed; there may be more of them.
DroppedStarted ==
    /\ Running /\ starts
    /\ starts' \in BOOLEAN
    /\ use_x11' \in {use_x11, TRUE}
    /\ UNCHANGED <<requests, session, orphans, overlapped>>
    /\ Portal

\* Mutant of SessionClosed: the stream goes on.
SessionClosedLeaves ==
    /\ Running /\ (session # "none" \/ orphans)
    /\ session' = "none"
    /\ orphans' \in {orphans, FALSE}
    /\ Drops
    /\ UNCHANGED <<use_x11, requests>>
    /\ Portal

\* session_closed_cb, for the session or for an orphan: it stops the stream first.
SessionClosed ==
    /\ Running /\ (session # "none" \/ orphans)
    /\ session' = "none"
    /\ orphans' \in {orphans, FALSE}
    /\ Drops
    /\ UNCHANGED <<use_x11, requests>>
    /\ \/ stream = None /\ Portal
       \/ SinkChanges("disconnected")
-----------------------------------------------------------------------------
Init ==
    /\ RegistryInit
    /\ page = "find" /\ stream = None /\ rows = {}
    /\ state = [p \in Peers |-> "disconnected"]
    /\ \/ use_x11 = TRUE /\ requests = 0
       \/ use_x11 = FALSE /\ requests = 1
    /\ session = "none" /\ orphans = FALSE /\ starts = FALSE
    /\ picture = "none" /\ asking = "no" /\ overlapped = FALSE
    /\ aborted = "no"

Next ==
    \/ Running /\ RegistryNext /\ ItemsChanged
    \/ SinkFails \/ SinkCloses \/ SinkPlays \/ StopClicked
    \/ SourceAsked \/ SessionSought \/ StreamsSought
    \/ \E p \in Peers : RowActivated(p)
    \/ ScreencastCreated \/ ScreencastStarted \/ DroppedStarted \/ SessionClosed

Spec == Init /\ [][Next]_vars

-----------------------------------------------------------------------------
(* Properties *)

\* Whatever is picked, fails or closes in whichever order, no sink runs that the window
\* does not follow: it could not be stopped, and a second one would start beside it.
OneStream == \A p \in Peers : state[p] # "disconnected" => p = stream

\* The page shows the stream, and gives back the list when there is none.
PageFollows ==
    /\ page = "find" <=> stream = None
    /\ page # "find" => page \in rows /\ (page = "connect") = (state[stream] = "connecting")

\* The provider searches exactly while its device is ready and no stream runs, however
\* device and stream come and go: a search breaks the connection of a stream.
SearchFollows ==
    provider.exists => provider.searching = (device = "ready" /\ stream = None)

\* Every peer that has shown its information elements while there is a provider, or
\* before, is a row.
PeersListed == provider.exists => \A p \in Peers : peers[p] = "wfd" => p \in Rows

\* A stream that asks for its picture finds a session, whoever has closed or overwritten
\* one before; if it finds no streams in it, that is because the user has not answered or
\* has refused.  Nothing keeps the portal from closing the session while a thread looks
\* for it, and that is all that is left out.
SessionThere == aborted \in {"session", "crashed"} => overlapped
=============================================================================
