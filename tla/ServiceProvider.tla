-------------------------- MODULE ServiceProvider --------------------------
(***************************************************************************)
(* A provider of sinks that are announced as DNS services on one network   *)
(* device.  Two ask systemd-resolved: nd-sd-cc-provider.c (kind "cc") and  *)
(* nd-sd-wfd-mice-provider.c (kind "mice").  Two ask Avahi and treat a     *)
(* service alike: nd-cc-provider.c and nd-wfd-mice-provider.c (kind        *)
(* "avahi").  nd-nm-device-registry.c creates the former for a device that *)
(* is connected and drops them with it; the latter are there from the      *)
(* start of the program.                                                   *)
(*                                                                         *)
(* A subscription asks for one interface, so that interfaces are left out, *)
(* but not for one protocol: a service may be announced over two, and its  *)
(* notifications come for each.  Of a sink's state only what the providers *)
(* tell apart is kept.                                                     *)
(***************************************************************************)
EXTENDS Naturals, FiniteSets, Sequences, SequencesExt, SinkLife

CONSTANTS
    Names,       \* service names
    Addresses,   \* addresses a service may have
    IPv4,        \* those of them that are not IPv6
    Hosts,       \* bound: the sets of addresses a service is announced with
    None,
    MaxNotes,    \* bound: notifications under way
    Tasks,       \* bound: requests for an address under way
    MaxSinks,    \* bound: sinks listed at once
    MaxRetries   \* bound: reconnections scheduled at once

ASSUME NamesAssumption == IsFiniteSet(Names)
ASSUME AddressAssumption ==
    /\ IPv4 \subseteq Addresses /\ Hosts \subseteq SUBSET Addresses
    /\ None \notin Addresses /\ \A h \in Hosts : h # None
    /\ "watching" \notin Addresses \cup {None}
ASSUME BoundsAssumption == {MaxNotes, MaxSinks, MaxRetries} \subseteq Nat

VARIABLES
    kind,        \* which implementation; it does not change
    provider,    \* the provider exists and is among those of the meta provider
    address,     \* what the network announces: the addresses of a service, or None
    notes,       \* notifications of the browser that were not handled yet
    both,        \* services the browser has reported over both protocols
    link,        \* the subscription: see Links
    retries,     \* idle sources that will reconnect
    stale,       \* callbacks are left that point to a provider that was dropped
    crashed,     \* one of them ran
    resolving,   \* resolve tasks, or Avahi resolvers, with the answer they got
    sinks,       \* provider->sinks
    lost         \* history: services nothing will list

network == <<address, notes, both>>
subscription == <<kind, provider, link, retries, stale, crashed>>
vars == <<network, subscription, resolving, sinks, lost>>

\* "deaf": the browser failed, hung up or met an error that is only logged, and nothing
\* will be heard on this connection; "over": it ended in a way that is reconnected.
Links == {"none", "live", "deaf", "over"}

\* Of a sink's state a provider only tells apart whether it is disconnected and, for
\* MICE, whether it is WAIT_STREAMING or STREAMING.
SinkStates == {"disconnected", "starting", "streaming", "error"}

Seen(s) == IF s = "wait_streaming" THEN "streaming" ELSE IF s \in Waiting THEN "starting" ELSE s

\* waits: a handler on notify::state will remove the sink; idle: its removal is scheduled.
\* stray is history: the sink missed its removal.
Sinks == [name : Names, ip : Addresses \cup {None}, state : SinkStates,
          waits : BOOLEAN, idle : BOOLEAN, stray : BOOLEAN]

\* "fewer": the service is gone from one of two protocols, which the code takes for "removed".
Notes == [flag : {"added", "removed", "fewer"}, name : Names]

\* "watching": the resolver was asked once, was leaked, and answers when it likes.
Requests == [task : Tasks, name : Names,
             answer : Addresses \cup {None, "asked", "watching", "failed"}]

TypeOK ==
    /\ kind \in {"cc", "mice", "avahi"}
    /\ provider \in BOOLEAN /\ stale \in BOOLEAN /\ crashed \in BOOLEAN
    /\ address \in [Names -> Hosts \cup {None}]
    /\ notes \in Seq(Notes)
    /\ both \subseteq Names
    /\ link \in Links
    /\ retries \in Nat
    /\ resolving \subseteq Requests
    /\ sinks \in Seq(Sinks)
    /\ lost \subseteq Names

Announced == {n \in Names : address[n] # None}
Listed == {sinks[i].name : i \in DOMAIN sinks}
Noted(flag) == {notes[i].name : i \in {j \in DOMAIN notes : notes[j].flag = flag}}
Asked == {r.name : r \in {q \in resolving : q.answer # "watching"}}

\* What is listed, or will be unless its resolution fails.
Expected == Listed \cup Noted("added") \cup Asked

\* Whatever happened to service n, if nothing is expected to list it now, nothing will.
Forsaken(n) == lost' = lost \cup ({n} \ Expected')
-----------------------------------------------------------------------------
(* The network: external. *)

Note(flag, n) == notes' = IF link = "live"
                          THEN Append(notes, [flag |-> flag, name |-> n])
                          ELSE notes

Announce(n, addresses) ==
    /\ address[n] = None
    /\ Len(notes) < MaxNotes
    /\ address' = [address EXCEPT ![n] = addresses]
    /\ Note("added", n)
    /\ lost' = lost \ {n}
    /\ UNCHANGED <<both, subscription, resolving, sinks>>

Withdraw(n) ==
    /\ address[n] # None /\ n \notin both
    /\ Len(notes) < MaxNotes
    /\ address' = [address EXCEPT ![n] = None]
    /\ Note("removed", n)
    /\ UNCHANGED <<both, subscription, resolving, sinks, lost>>

\* The browser reports a service over the other protocol, too.
AnnounceAgain(n) ==
    /\ link = "live" /\ address[n] # None /\ n \notin both
    /\ Len(notes) < MaxNotes
    /\ both' = both \cup {n}
    /\ Note("added", n)
    /\ UNCHANGED <<address, subscription, resolving, sinks, lost>>

\* It is gone from one protocol and stays announced over the other.
WithdrawOne(n) ==
    /\ n \in both
    /\ Len(notes) < MaxNotes
    /\ both' = both \ {n}
    /\ Note("fewer", n)
    /\ UNCHANGED <<address, subscription, resolving, sinks, lost>>
-----------------------------------------------------------------------------
(* The subscription. *)

\* What a new subscription reports: all that is announced, nothing that has gone.
Snapshot == {[i \in DOMAIN s |-> [flag |-> "added", name |-> s[i]]] : s \in SetToSeqs(Announced)}

Subscribed(n) == link' = "live" /\ notes' = n /\ both' = {}
NotSubscribed(l) == link' = l /\ notes' = <<>> /\ both' = {}

\* nd_sd_cc_provider_browse: it fails before the source is attached or after it.
CcBrowse ==
    /\ kind = "cc"
    /\ \/ \E n \in Snapshot : Subscribed(n)
       \/ NotSubscribed("none") \/ NotSubscribed("deaf")

\* connect_to_resolved and nd_sd_wfd_mice_provider_browse.  The wait of one second for
\* the first batch handles what the main loop would handle next.
MiceBrowse ==
    /\ kind = "mice"
    /\ \/ \E n \in Snapshot : Subscribed(n)
       \/ NotSubscribed("none") \/ NotSubscribed("deaf")

\* add_sd_cc_provider, add_sd_wfd_mice_provider: the provider is listed even if its
\* browser fails, and then nobody tries again until the device is disconnected.
DeviceConnected ==
    /\ ~ provider /\ kind # "avahi"
    /\ provider' = TRUE
    /\ CcBrowse \/ MiceBrowse
    /\ UNCHANGED <<kind, address, retries, stale, crashed, resolving, sinks, lost>>

\* remove_sd_cc_provider, remove_sd_wfd_mice_provider.  An answer still finds the dropped
\* provider and reaches nobody; the idle sources of a reconnection and, of a Chromecast,
\* the handlers that wait for a removal keep no reference and are not removed.
DeviceDisconnected ==
    /\ provider /\ kind # "avahi"
    /\ provider' = FALSE
    /\ NotSubscribed("none") /\ retries' = 0
    /\ stale' = (stale \/ retries > 0 \/ (kind = "cc" /\ \E i \in DOMAIN sinks : sinks[i].waits))
    /\ resolving' = {} /\ sinks' = <<>> /\ lost' = {}
    /\ UNCHANGED <<kind, address, crashed>>

\* reconnect_browse_idle_cb, or sink_notify_state_cb, on a provider that was freed.
StaleCallback ==
    /\ stale
    /\ stale' = FALSE
    /\ crashed' \in BOOLEAN
    /\ UNCHANGED <<kind, provider, link, retries, network, resolving, sinks, lost>>

\* varlink_notify_cb, notify_cb with an error_id: a timeout or a lost connection
\* schedules the reconnection, any other error does not.
SubscriptionEnds ==
    /\ kind # "avahi"
    /\ \/ link \in {"live", "over"} /\ NotSubscribed("over")
          /\ retries < MaxRetries /\ retries' = retries + 1
       \/ link = "live" /\ NotSubscribed("deaf") /\ UNCHANGED retries
    /\ UNCHANGED <<kind, provider, address, stale, crashed, resolving, sinks, lost>>

\* varlink_io_cb on HUP or ERR: the source is removed before the connection is read.
HangUp ==
    /\ kind # "avahi" /\ link \in {"live", "over"}
    /\ NotSubscribed("deaf")
    /\ UNCHANGED <<kind, provider, address, retries, stale, crashed, resolving, sinks, lost>>

\* disconnect_from_resolved, reconnect_browse_idle_cb, but for the new subscription: the
\* old connection is dropped, whatever its state is; the sinks are kept and a failure is
\* only logged.
Reconnect ==
    /\ retries > 0
    /\ retries' = retries - 1
    /\ sinks' = [i \in DOMAIN sinks |->
                    [sinks[i] EXCEPT !.stray = @ \/ sinks[i].name \notin Announced]]
    /\ UNCHANGED <<kind, provider, address, stale, crashed, resolving, lost>>

CcReconnect == Reconnect /\ CcBrowse
MiceReconnect == Reconnect /\ MiceBrowse
-----------------------------------------------------------------------------
(* Notifications. *)

\* The first sink of that name; at most one index.
First(n) == {i \in DOMAIN sinks : sinks[i].name = n /\ \A j \in 1 .. i - 1 : sinks[j].name # n}

Ask(n) ==
    /\ \E k \in Tasks \ {r.task : r \in resolving} :
           resolving' = resolving \cup {[task |-> k, name |-> n, answer |-> "asked"]}
    /\ UNCHANGED <<sinks, lost>>

\* Another sink of the same name misses the removal.
Missed(n, s) == [i \in DOMAIN s |-> [s[i] EXCEPT !.stray = @ \/ (s[i].name = n /\ ~ s[i].waits)]]

TakeOff(n, i) == sinks' = Missed(n, RemoveAt(sinks, i))
Defer(n, i) == sinks' = Missed(n, [sinks EXCEPT ![i].waits = TRUE])

\* handle_service_added: a request for the address, which nothing cancels.
CcAdded(n) == kind = "cc" /\ Ask(n)

\* Mutant of CcRemoved: no deferral.
CcRemovedAtOnce(n) ==
    /\ kind = "cc"
    /\ \/ First(n) = {} /\ UNCHANGED sinks
       \/ \E i \in First(n) : TakeOff(n, i)
    /\ UNCHANGED resolving

\* handle_service_removed: "If currently streaming, defer removal"
CcRemoved(n) ==
    /\ kind = "cc"
    /\ \/ First(n) = {} /\ UNCHANGED sinks
       \/ \E i \in First(n) : IF sinks[i].state # "disconnected" THEN Defer(n, i) ELSE TakeOff(n, i)
    /\ UNCHANGED resolving

\* handle_added
MiceAdded(n) == kind = "mice" /\ Ask(n)

\* Mutant of MiceRemoved: a sink that streams is kept, and nothing waits for its end.
MiceRemovedForgets(n) ==
    /\ kind = "mice"
    /\ \/ First(n) = {} /\ UNCHANGED sinks
       \/ \E i \in First(n) : IF sinks[i].state = "streaming" THEN UNCHANGED sinks ELSE TakeOff(n, i)
    /\ UNCHANGED resolving

\* handle_removed: "Do not remove sinks that are actively trying to stream or streaming."
MiceRemoved(n) ==
    /\ kind = "mice"
    /\ \/ First(n) = {} /\ UNCHANGED sinks
       \/ \E i \in First(n) : IF sinks[i].state = "streaming" THEN Defer(n, i) ELSE TakeOff(n, i)
    /\ UNCHANGED resolving

\* service_added_cb: the resolver belongs to its callbacks, if it can be attached.
AvahiAdded(n) ==
    /\ kind = "avahi"
    /\ \/ Ask(n)
       \/ UNCHANGED <<resolving, sinks>> /\ Forsaken(n)

\* service_removed_cb
AvahiRemoved(n) ==
    /\ kind = "avahi"
    /\ \/ First(n) = {} /\ UNCHANGED sinks
       \/ \E i \in First(n) : TakeOff(n, i)
    /\ UNCHANGED resolving

Heard(flag, n) ==
    /\ link = "live" /\ notes # <<>>
    /\ Head(notes) = [flag |-> flag, name |-> n]
    /\ notes' = Tail(notes)
    /\ UNCHANGED <<subscription, address, both>>

\* The handlers do not look at the protocol: what is announced over the other is removed.
Fewer(n) == Heard("fewer", n) /\ Forsaken(n)

Removed(n) == (Heard("removed", n) /\ UNCHANGED lost) \/ Fewer(n)

\* varlink_notify_cb
CcNotify(n) ==
    \/ Heard("added", n) /\ CcAdded(n)
    \/ CcRemoved(n) /\ Removed(n)

\* notify_cb
MiceNotify(n) ==
    \/ Heard("added", n) /\ MiceAdded(n)
    \/ MiceRemoved(n) /\ Removed(n)

\* The signals of the service browser
AvahiNotify(n) ==
    \/ Heard("added", n) /\ AvahiAdded(n)
    \/ AvahiRemoved(n) /\ Removed(n)
-----------------------------------------------------------------------------
(* Answers. *)

\* extract_ip_from_services: IPv4 goes first, and of one family the last one.
Extracted(addresses) ==
    IF addresses \cap IPv4 # {} THEN addresses \cap IPv4
    ELSE IF addresses # {} THEN addresses ELSE {None}

Answer(r, answers) ==
    /\ r \in resolving /\ r.answer \in {"asked", "watching"}
    /\ \E a \in answers \cup {"failed"} :
           resolving' = (resolving \ {r}) \cup {[r EXCEPT !.answer = a]}
    /\ UNCHANGED <<subscription, network, sinks, lost>>

\* resolve_sink_task_thread, of both, asks on a thread of its own.
Resolved(n) == IF address[n] = None THEN {} ELSE Extracted(address[n])

CcAnswer(r) == kind = "cc" /\ Answer(r, Resolved(r.name))
MiceAnswer(r) == kind = "mice" /\ Answer(r, Resolved(r.name))

\* A resolver of Avahi, asked for IPv4
AvahiAnswer(r) ==
    kind = "avahi" /\ Answer(r, IF address[r.name] = None THEN {} ELSE address[r.name] \cap IPv4)

\* A sink is a stray when the removal of its service was already handled.
New(n, a) == [name |-> n, ip |-> a, state |-> "disconnected", waits |-> FALSE, idle |-> FALSE,
              stray |-> n \notin Announced \cup Noted("removed")]

\* compare_sinks
Known(r) == \E i \in DOMAIN sinks : sinks[i].name = r.name /\ sinks[i].ip = r.answer

Answered(r) ==
    /\ r \in resolving /\ r.answer \notin {"asked", "watching"}
    /\ resolving' = resolving \ {r}
    /\ UNCHANGED <<subscription, network>>

Failed(r) == UNCHANGED sinks /\ Forsaken(r.name)

Repeated(r) == Known(r) /\ UNCHANGED <<sinks, lost>>

Adds(r, others) ==
    /\ ~ Known(r)
    /\ Len(sinks) < MaxSinks
    /\ sinks' = Append(others, New(r.name, r.answer))
    /\ lost' = lost \ {r.name}

\* find_sink_by_name and g_ptr_array_remove
Without(n) ==
    IF First(n) = {} THEN sinks ELSE RemoveAt(sinks, CHOOSE i \in First(n) : TRUE)

\* Mutant of CcResolved: the old sink goes, the new one is forgotten.
CcResolvedDrops(r) ==
    /\ kind = "cc"
    /\ Answered(r)
    /\ \/ r.answer \in {"failed", None} /\ Failed(r)
       \/ r.answer \in Addresses /\ Repeated(r)
       \/ r.answer \in Addresses /\ ~ Known(r) /\ sinks' = Without(r.name) /\ UNCHANGED lost

\* resolve_sink_cb of nd-sd-cc-provider.c: a sink of that name at another address is
\* replaced, streaming or not.
CcResolved(r) ==
    /\ kind = "cc"
    /\ Answered(r)
    /\ \/ r.answer \in {"failed", None} /\ Failed(r)
       \/ r.answer \in Addresses /\ (Repeated(r) \/ Adds(r, Without(r.name)))

\* resolve_sink_cb of nd-sd-wfd-mice-provider.c: a service without an address is a sink
\* without one.
MiceResolved(r) ==
    /\ kind = "mice"
    /\ Answered(r)
    /\ \/ r.answer = "failed" /\ Failed(r)
       \/ r.answer # "failed" /\ (Repeated(r) \/ Adds(r, sinks))

\* resolver_failure_cb and the new sink of resolver_found_cb: both free the resolver.
AvahiResolved(r) ==
    /\ kind = "avahi"
    /\ Answered(r)
    /\ \/ r.answer = "failed" /\ Failed(r)
       \/ r.answer # "failed" /\ Adds(r, sinks)

\* The early return of resolver_found_cb leaves the resolver: it goes on watching.
AvahiDuplicate(r) ==
    /\ kind = "avahi"
    /\ r \in resolving /\ r.answer \in Addresses
    /\ Repeated(r)
    /\ resolving' = (resolving \ {r}) \cup {[r EXCEPT !.answer = "watching"]}
    /\ UNCHANGED <<subscription, network>>
-----------------------------------------------------------------------------
(* The sinks' own life: that of NdSink, which CastSession and WfdSink implement. *)

SinkKinds == IF kind = "avahi" THEN {"cc", "mice"} ELSE {kind}

SeenMoves == [k \in Kinds |-> {<<Seen(m[1]), Seen(m[2])>> : m \in Moves(k)}]

SinkMoves(i, state) ==
    /\ sinks[i].state # state
    /\ \E k \in SinkKinds : <<sinks[i].state, state>> \in SeenMoves[k]
    /\ UNCHANGED <<subscription, network, resolving, lost>>

\* sink_notify_state_cb: the handler waits for DISCONNECTED and stays connected.
CcSinkChanges(i, state) ==
    /\ kind = "cc"
    /\ SinkMoves(i, state)
    /\ sinks' = [sinks EXCEPT ![i].state = state,
                              ![i].idle = @ \/ (sinks[i].waits /\ state = "disconnected")]

\* sink_state_changed_cb: the handler waits for the end of streaming and is dropped.
MiceSinkChanges(i, state) ==
    /\ kind = "mice"
    /\ SinkMoves(i, state)
    /\ sinks' = [sinks EXCEPT ![i].state = state,
                              ![i].waits = @ /\ state = "streaming",
                              ![i].idle = @ \/ (sinks[i].waits /\ state # "streaming")]

\* Nobody of Avahi's providers listens.
AvahiSinkChanges(i, state) ==
    /\ kind = "avahi"
    /\ SinkMoves(i, state)
    /\ sinks' = [sinks EXCEPT ![i].state = state]

TakeOffLater(i) ==
    /\ sinks[i].idle
    /\ sinks' = RemoveAt(sinks, i)
    /\ UNCHANGED <<subscription, network, resolving>>
    /\ Forsaken(sinks[i].name)

\* sink_remove_idle_cb: whatever the sink, or its service, does by then.
CcDeferredRemoval(i) == kind = "cc" /\ TakeOffLater(i)

\* deferred_removal_idle_cb, with low priority
MiceDeferredRemoval(i) == kind = "mice" /\ TakeOffLater(i)
-----------------------------------------------------------------------------
Init ==
    /\ kind \in {"cc", "mice", "avahi"}
    /\ provider = (kind = "avahi")
    /\ address = [n \in Names |-> None]
    /\ notes = <<>> /\ both = {}
    /\ link = IF kind = "avahi" THEN "live" ELSE "none"
    /\ retries = 0 /\ stale = FALSE /\ crashed = FALSE
    /\ resolving = {} /\ sinks = <<>> /\ lost = {}

Steps ==
    \/ \E n \in Names : Withdraw(n) \/ \E a \in Hosts : Announce(n, a)
    \/ \E n \in Names : AnnounceAgain(n) \/ WithdrawOne(n)
    \/ DeviceConnected \/ DeviceDisconnected \/ StaleCallback
    \/ SubscriptionEnds \/ HangUp \/ CcReconnect \/ MiceReconnect
    \/ \E n \in Names : CcNotify(n) \/ MiceNotify(n) \/ AvahiNotify(n)
    \/ \E r \in resolving : CcAnswer(r) \/ MiceAnswer(r) \/ AvahiAnswer(r)
    \/ \E r \in resolving :
           CcResolved(r) \/ MiceResolved(r) \/ AvahiResolved(r) \/ AvahiDuplicate(r)
    \/ \E i \in DOMAIN sinks, s \in SinkStates :
           CcSinkChanges(i, s) \/ MiceSinkChanges(i, s) \/ AvahiSinkChanges(i, s)
    \/ \E i \in DOMAIN sinks : CcDeferredRemoval(i) \/ MiceDeferredRemoval(i)

Next == ~ crashed /\ Steps

Spec == Init /\ [][Next]_vars
-----------------------------------------------------------------------------
(* Properties *)

\* As long as the subscription lives, a sink whose service has gone is on its way out:
\* its removal is announced, waits for the end of its stream or is scheduled.  Nothing
\* else keeps it but the three ways to miss a removal (strays): an answer that comes
\* after it, a reconnection, and another sink of the same name.
NoGhosts ==
    link = "live" =>
        \A i \in DOMAIN sinks :
            \/ sinks[i].name \in Announced \cup Noted("removed")
            \/ sinks[i].stray \/ sinks[i].idle
            \/ sinks[i].waits /\ sinks[i].state # "disconnected"

\* As long as the subscription lives, an announced service is listed or on its way in;
\* unless its resolution failed or could not be asked for, its sink was removed late for
\* an earlier withdrawal, or it has gone from one of two protocols.
Found == link = "live" => Announced \subseteq Expected \cup lost

Gone == {sinks[i] : i \in {j \in DOMAIN sinks :
            \A k \in DOMAIN sinks' : <<sinks'[k].name, sinks'[k].ip>> # <<sinks[j].name, sinks[j].ip>>}}

\* With systemd-resolved a stream is not taken off the list when its service goes: only
\* with its device, for a new address of a Chromecast, or by a removal that was
\* scheduled before the stream was started.
StreamsKept ==
    [][kind # "avahi" /\ provider' =>
          \A s \in Gone : s.state = "streaming" => s.idle \/ (kind = "cc" /\ s.name \in Listed')]_vars
=============================================================================
