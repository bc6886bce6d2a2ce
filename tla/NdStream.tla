------------------------------- MODULE NdStream -------------------------------
(***************************************************************************)
(* The process that streams to one sink (stream/nd-stream.c) and its       *)
(* PulseAudio client (nd-pulseaudio.c).                                    *)
(*                                                                         *)
(* Four things go on beside the main loop: the portal, which asks the user *)
(* for a screen, PulseAudio on a thread of its own, the sink, whose RTSP   *)
(* server has a thread, too, and the signals.  The sink is seen from the   *)
(* outside; its sessions are in WfdSink and CastSession.                   *)
(***************************************************************************)
EXTENDS Integers

VARIABLES
    app,         \* the process
    portal,      \* the screen cast session of the portal, as far as it got
    session,     \* self->session
    sink,        \* self->sink: none, or how far the sink got
    making,      \* the source a thread of the sink is asking for
    pa,          \* self->pulse: how far it got, from its initialisation to the unloading
    alive,       \* the context of the PulseAudio client is good
    index,       \* null_module_idx is known
    module,      \* PulseAudio has the null sink of this uuid
    quit,        \* g_application_quit: asked for, and seen by the main loop
    sig,         \* for each signal, its source
    overlapped   \* the session was closed below a source in the making

process == <<app, portal, session, sink, making, pa, alive, index, quit, sig, overlapped>>
pulse == <<pa, alive, index, module>>
streamVars == <<process, module>>

Signals == {"term", "int"}

\* init_task is set in the first three, its result is on the way in the next two.
Initing == {"connecting", "querying", "loading"}
Unready == Initing \union {"dangling"}

StreamTypeOK ==
    /\ app \in {"running", "stuck", "exited", "crashed"}
    /\ portal \in {"creating", "starting", "started", "failed"}
    /\ sink \in {"none", "idle", "busy", "error", "over"}
    /\ making \in {"no", "video", "audio"}
    /\ pa \in Unready \union {"none", "loaded", "broken", "ready", "refused"}
    /\ \A b \in {session, alive, index, module, overlapped} : b \in BOOLEAN
    /\ quit \in {"no", "asked", "seen"}
    /\ sig \in [Signals -> {"armed", "pending", "spent"}]

Running == app = "running"

\* A handler of the main loop has run: the loop looks at the flag before it sleeps.
Looks == quit' = IF quit = "asked" THEN "seen" ELSE quit

QuitNow == quit' = "seen"
-----------------------------------------------------------------------------
(* The portal *)

\* on_open, nd_stream_init: the URI may name no sink, and the portal may be missing.
Fresh ==
    /\ app' = "running"
    /\ \/ portal' = "creating" /\ quit' = "no"
       \/ portal' = "failed" /\ quit' = "seen"
    /\ session' = FALSE
    /\ sink' \in {"none", "idle"}
    /\ making' = "no"
    /\ pa' = "none" /\ alive' = FALSE /\ index' = FALSE
    /\ sig' = [s \in Signals |-> "armed"]
    /\ overlapped' = FALSE

\* nd_screencast_init_cb, which starts PulseAudio, too.  Connecting it may fail.
ScreencastCreated ==
    /\ Running /\ portal = "creating"
    /\ \/ sink = "none" /\ app' = "crashed" /\ UNCHANGED <<portal, session, pa, alive, quit>>
       \/ /\ sink # "none"
          /\ portal' = "failed"
          /\ QuitNow
          /\ UNCHANGED <<app, session, pa, alive>>
       \/ /\ sink # "none"
          /\ portal' = "starting"
          /\ session' = TRUE
          /\ \/ pa' = "connecting" /\ alive' = TRUE
             \/ pa' = "broken" /\ alive' = FALSE
          /\ Looks
          /\ UNCHANGED app
    /\ UNCHANGED <<sink, making, index, module, sig, overlapped>>

\* Mutant of Noticed: only a later change of the state would be noticed.
NoticedLater == Looks

\* The state is looked at right after the start.
Noticed == IF sink' = "error" THEN QuitNow ELSE Looks

\* nd_screencast_started_cb.  A sink taken from a URI is not started yet, so that
\* start_stream returns it.
ScreencastStarted ==
    /\ Running /\ portal = "starting"
    /\ \/ portal' = "failed" /\ QuitNow /\ UNCHANGED sink
       \/ portal' = "started" /\ sink' \in {"busy", "error"} /\ Noticed
    /\ UNCHANGED <<app, session, making, pulse, sig, overlapped>>

\* Mutant of StopSink: the end of the sink does not end the process.
StopSinkOnly ==
    IF sink \in {"busy", "error"} THEN sink' = "over" /\ Looks ELSE UNCHANGED sink /\ Looks

\* nd_sink_stop_stream, and the notification when it did something.
StopSink ==
    IF sink \in {"busy", "error"} THEN sink' = "over" /\ QuitNow ELSE UNCHANGED sink /\ Looks

\* Mutant of SessionClosed: the sink goes on.
SessionClosedOnly ==
    /\ Running /\ portal = "started" /\ session
    /\ Looks
    /\ session' = FALSE
    /\ overlapped' = (overlapped \/ making = "video")
    /\ UNCHANGED <<app, portal, sink, making, pulse, sig>>

\* session_closed_cb
SessionClosed ==
    /\ Running /\ portal = "started" /\ session
    /\ StopSink
    /\ session' = FALSE
    /\ overlapped' = (overlapped \/ making = "video")
    /\ UNCHANGED <<app, portal, making, pulse, sig>>
-----------------------------------------------------------------------------
(* The sink *)

\* It ends a session by itself, on the main loop or on the thread of its client.
\* Asking to quit does not wake up the main loop.
SinkEnds ==
    /\ Running /\ sink = "busy"
    /\ sink' \in {"error", "over"}
    /\ quit' \in {"seen", IF quit = "no" THEN "asked" ELSE quit}
    /\ UNCHANGED <<app, portal, session, making, pulse, sig, overlapped>>

\* The media is made: create-source and then create-audio-source.
AskSources ==
    /\ Running /\ sink = "busy" /\ making = "no"
    /\ making' = "video"
    /\ UNCHANGED <<app, portal, session, sink, pulse, quit, sig, overlapped>>

\* sink_create_source_cb; some media have no audio.
MakeVideo ==
    /\ Running /\ making = "video"
    /\ IF session
       THEN making' \in {"audio", "no"} /\ UNCHANGED app
       ELSE app' = "crashed" /\ making' = "no"
    /\ UNCHANGED <<portal, session, sink, pulse, quit, sig, overlapped>>

\* sink_create_audio_source_cb.  A client that was freed may still look sound.
MakeAudio ==
    /\ Running /\ making = "audio"
    /\ making' = "no"
    /\ \/ pa \in Unready /\ app' = "crashed"
       \/ pa \notin Initing /\ UNCHANGED app
    /\ UNCHANGED <<portal, session, sink, pulse, quit, sig, overlapped>>
-----------------------------------------------------------------------------
(* PulseAudio, on its own thread but for the last step *)

PaConnected ==
    /\ Running /\ pa = "connecting"
    /\ pa' = "querying"
    /\ UNCHANGED <<app, portal, session, sink, making, alive, index, module, quit, sig, overlapped>>

\* Mutant of SinkFound: the sink is used, but nobody knows its module.
SinkFoundOnly == pa' = "loaded" /\ UNCHANGED <<index, module>>

\* The null sink is there already: an earlier process left it.
SinkFound == pa' = "loaded" /\ index' = TRUE /\ UNCHANGED module

LoadModule == pa' = "loading" /\ module' = TRUE /\ UNCHANGED index

\* on_pa_nd_sink_got_info
SinkGotInfo ==
    /\ Running /\ pa = "querying"
    /\ \/ module /\ SinkFound
       \/ ~ module /\ LoadModule
       \/ pa' = "broken" /\ UNCHANGED <<index, module>>
    /\ UNCHANGED <<app, portal, session, sink, making, alive, quit, sig, overlapped>>

\* on_pa_null_module_loaded
ModuleLoaded ==
    /\ Running /\ pa = "loading"
    /\ \/ pa' = "loaded" /\ index' = TRUE /\ UNCHANGED module
       \/ pa' = "broken" /\ module' = FALSE /\ UNCHANGED index
    /\ UNCHANGED <<app, portal, session, sink, making, alive, quit, sig, overlapped>>

\* The context fails, with the whole of PulseAudio or without.
PaFails ==
    /\ Running /\ alive
    /\ alive' = FALSE
    /\ module' \in {module, FALSE}
    /\ pa' = IF pa \in Initing THEN "broken" ELSE pa
    /\ UNCHANGED <<app, portal, session, sink, making, index, quit, sig, overlapped>>

\* nd_pulseaudio_init_async_cb: a client that failed is freed, and the field stays.
PaInitialised ==
    /\ Running /\ pa \in {"loaded", "broken"}
    /\ \/ pa = "loaded" /\ pa' = "ready" /\ UNCHANGED alive
       \/ pa = "broken" /\ pa' = "dangling" /\ alive' = FALSE
    /\ Looks
    /\ UNCHANGED <<app, portal, session, sink, making, index, module, sig, overlapped>>
-----------------------------------------------------------------------------
(* Signals and the end *)

SignalSent(s) ==
    /\ Running /\ sig[s] = "armed"
    /\ sig' = [sig EXCEPT ![s] = "pending"]
    /\ UNCHANGED <<app, portal, session, sink, making, pulse, quit, overlapped>>

\* on_signal removes its source and keeps a reference: the next one is lost.
SignalHandled(s) ==
    /\ Running /\ sig[s] = "pending"
    /\ sig' = [sig EXCEPT ![s] = "spent"]
    /\ \/ sink = "none" /\ app' = "crashed" /\ UNCHANGED <<sink, quit>>
       \/ sink # "none" /\ StopSink /\ UNCHANGED app
    /\ UNCHANGED <<portal, session, making, pulse, overlapped>>

\* Any other event of the main loop.
WakeUp ==
    /\ Running /\ quit = "asked"
    /\ Looks
    /\ UNCHANGED <<app, portal, session, sink, making, pulse, sig, overlapped>>

\* The known module is unloaded.  An unknown one is not; number 0 is asked for.
Unloaded == module' = (module /\ ~ index)

\* What becomes of the request: PulseAudio unloads, or refuses, which is only logged, or the
\* context fails, so that there is no operation or a cancelled one.
Requested ==
    \/ Unloaded /\ UNCHANGED <<pa, alive>>
    \/ pa' = "refused" /\ UNCHANGED <<module, alive>>
    \/ alive' = FALSE /\ module' \in {module, FALSE} /\ UNCHANGED pa

\* nd_pulseaudio_unload: the waits are not woken up by anybody, nor is the lock they
\* need held.  The second is skipped when the answer is quicker than the next line.
Unload ==
    \/ /\ ~ alive
       /\ app' = "exited" \/ (pa = "dangling" /\ app' = "crashed")
       /\ UNCHANGED <<pa, alive, module>>
    \/ /\ alive /\ pa = "connecting"
       /\ app' \in {"stuck", "crashed"}
       /\ UNCHANGED <<pa, alive, module>>
    \/ /\ alive /\ pa # "connecting"
       /\ app' \in {"exited", "stuck", "crashed"}
       /\ Requested

\* nd_stream_shutdown, nd_stream_cleanup
Shutdown ==
    /\ Running /\ quit = "seen"
    /\ Unload
    /\ session' = FALSE
    /\ sink' = "none"
    /\ UNCHANGED <<portal, making, index, quit, sig, overlapped>>

Steps ==
    \/ ScreencastCreated \/ ScreencastStarted \/ SessionClosed
    \/ SinkEnds \/ AskSources \/ MakeVideo \/ MakeAudio
    \/ PaConnected \/ SinkGotInfo \/ ModuleLoaded \/ PaFails \/ PaInitialised
    \/ \E s \in Signals : SignalHandled(s)
    \/ WakeUp
    \/ Shutdown
=============================================================================
