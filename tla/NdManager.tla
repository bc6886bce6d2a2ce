------------------------------ MODULE NdManager ------------------------------
(***************************************************************************)
(* The daemon's D-Bus manager (nd-manager.c): it starts a stream as a      *)
(* transient unit of systemd and stops it with a signal.  One sink is      *)
(* followed, with the processes that stream to it one after another; what  *)
(* PulseAudio keeps outlives them.                                         *)
(***************************************************************************)
EXTENDS NdStream

VARIABLES
    listed,      \* a sink of this uuid is among those of the provider
    systemd      \* manager->systemd_proxy

vars == <<process, module, listed, systemd>>

TypeOK == StreamTypeOK /\ listed \in BOOLEAN /\ systemd \in BOOLEAN
-----------------------------------------------------------------------------
\* sink_added_cb, sink_removed_cb: a stream is not affected.
SinkListed == listed' = ~ listed /\ UNCHANGED <<process, module, systemd>>

\* on_systemd_name_appeared, on_systemd_name_vanished
SystemdChanged == systemd' = ~ systemd /\ UNCHANGED <<process, module, listed>>

\* handle_start_stream_cb.  systemd refuses a unit that runs or has failed, which
\* is only logged, and a uuid that is not listed is not answered.
StartStream ==
    /\ listed /\ systemd
    /\ app = "exited"
    /\ Fresh
    /\ UNCHANGED <<module, listed, systemd>>

\* handle_stop_stream_cb: KillUnit with SIGTERM.
StopStream ==
    /\ systemd
    /\ SignalSent("term")
    /\ UNCHANGED <<listed, systemd>>

Init ==
    /\ app = "exited"
    /\ portal = "failed" /\ session = FALSE /\ sink = "none" /\ making = "no"
    /\ pa = "none" /\ alive = FALSE /\ index = FALSE /\ module = FALSE
    /\ quit = "no" /\ sig = [s \in Signals |-> "spent"] /\ overlapped = FALSE
    /\ listed = FALSE /\ systemd = FALSE

Idle == UNCHANGED <<listed, systemd>>

Next ==
    \/ SinkListed \/ SystemdChanged \/ StartStream \/ StopStream
    \/ (Steps \/ SignalSent("int")) /\ Idle

Spec == Init /\ [][Next]_vars

\* The main loop goes on as long as there is something to do.
FairSpec ==
    /\ Spec
    /\ WF_vars(Shutdown /\ Idle)
    /\ \A s \in Signals : WF_vars(SignalHandled(s) /\ Idle)
-----------------------------------------------------------------------------
(* Properties *)

\* A sink that has ended or failed, on whichever thread and at whatever time, the
\* start itself included, has asked the process to quit.
FailuresNoticed == Running /\ sink \in {"error", "over"} => quit # "no"

\* A sink that may ask for the media, or is asking, finds the session of the portal,
\* whoever ends which of the two first; unless the session closes while it asks.
SourcesHaveSession ==
    Running /\ ~ overlapped /\ (making = "video" \/ sink = "busy") => session

\* A process that leaves by itself after its audio was ready takes the null sink with
\* it, even one an earlier process left behind; unless PulseAudio refuses to unload it
\* (pa = "refused") or its context has failed (~ alive), which nobody retries.
AudioCleanedUp == app = "exited" /\ pa = "ready" /\ alive => ~ module

\* Once the stream was started, StopStream and the signals of a terminal end it.
StopsWhenTold ==
    \A s \in Signals :
        sig[s] = "pending" /\ portal = "started" ~> ~ Running

\* "Received SIGTERM signal. Exiting...": it does not stream after that.
SignalExits == Running /\ sig["term"] = "spent" => sink # "busy"
=============================================================================
