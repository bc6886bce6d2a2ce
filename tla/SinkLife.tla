------------------------------ MODULE SinkLife ------------------------------
(***************************************************************************)
(* The states of a sink (nd-sink.h) and what one change of state may be:   *)
(* all that those who use a sink - the window, the stream process, the     *)
(* providers - know of it.  `kind' is "p2p" (nd-wfd-p2p-sink.c), "mice"    *)
(* (nd-wfd-mice-sink.c) or "cc" (nd-cc-sink.c).                            *)
(***************************************************************************)

Kinds == {"p2p", "mice", "cc"}

Waiting == {"ensure_firewall", "wait_p2p", "wait_socket", "wait_streaming"}

LifeStates == {"disconnected", "streaming", "error"} \union Waiting

\* start_stream refuses a sink that is not disconnected.  Over Wi-Fi Direct it can only
\* fail later, the other two may fail within it; it counts as one change, even if
\* WAIT_SOCKET was shown before ERROR.
Starts(kind) ==
    {"disconnected"} \X (IF kind = "p2p" THEN {"ensure_firewall"} ELSE {"wait_socket", "error"})

\* A session that gets on; a Chromecast tells nobody that it is about to stream.
Advances(kind) ==
    IF kind = "cc" THEN {<<"wait_socket", "streaming">>}
    ELSE {<<"wait_socket", "wait_streaming">>, <<"wait_streaming", "streaming">>}
             \union IF kind = "p2p"
                    THEN {<<"ensure_firewall", "wait_p2p">>, <<"wait_p2p", "wait_socket">>}
                    ELSE {}

\* Only Wi-Fi Direct reports what goes wrong after the start.
Fails(kind) == IF kind = "p2p" THEN (Waiting \union {"streaming"}) \X {"error"} ELSE {}

\* stop_stream, and a session that ends by itself
Stops == (LifeStates \ {"disconnected"}) \X {"disconnected"}

\* What was left behind by a session that had failed or was stopped comes to life.
Revives(kind) ==
    CASE kind = "p2p" -> {}
      [] kind = "mice" -> {<<"error", "wait_streaming">>}
      [] kind = "cc" -> {"disconnected", "error"} \X {"streaming"}

Moves(kind) ==
    UNION {Starts(kind), Advances(kind), Fails(kind), Stops, Revives(kind)}
=============================================================================
