---------------------------- MODULE MetaProvider ----------------------------
(***************************************************************************)
(* The de-duplication of discovered sinks (nd-meta-provider.c and          *)
(* nd-meta-sink.c) together with the two listeners that follow it: the     *)
(* list model of the application window (nd-sink-list-model.c) and the     *)
(* "Displays" D-Bus property of the daemon (nd-manager.c).                 *)
(*                                                                         *)
(* Everything runs on the GLib main loop.  Signal handlers are synchronous *)
(* calls, so one emission and all it causes is one step; the loops of      *)
(* add_provider and remove_provider are one step per sink, because every   *)
(* iteration is visible to the listeners.                                  *)
(***************************************************************************)
EXTENDS Integers, FiniteSets

CONSTANTS
    Sinks,      \* the NdSink objects that can be discovered
    Providers,  \* the NdProvider objects
    Addresses,  \* IP and P2P MAC addresses, the strings sinks are matched by
    Owner,      \* the provider that discovers a sink
    Matches,    \* the "matches" property of a sink
    Priority,   \* the "priority" property of a sink
    Window,     \* TRUE in the application, FALSE in the daemon
    MaxMetas,   \* bound: meta sinks created over a run
    NoSink      \* NULL, in the place of a sink

ASSUME MetaAssumption ==
    /\ Owner \in [Sinks -> Providers]
    /\ Matches \in [Sinks -> SUBSET Addresses]
    /\ Priority \in [Sinks -> Int]
    /\ Window \in BOOLEAN
    /\ MaxMetas \in Nat
    /\ NoSink \notin Sinks

VARIABLES
    found,         \* sinks in the list of their own provider
    registered,    \* meta_provider->providers
    listed,        \* meta_provider->sinks, identified by their order of creation
    children,      \* meta_sink->sinks
    current,       \* meta_sink->current_sink
    nextMeta,      \* number of the next meta sink
    leaks,         \* references to a meta sink that are never dropped, 2 for more
    rows,          \* what the list model of the window shows
    displays,      \* what the daemon last exported on D-Bus
    discover,      \* meta_provider->discover
    scanning,      \* the "discover" property of each provider
    todo,          \* the running loop of add_provider or remove_provider
    aborted        \* an assertion failed or freed memory brought the process down

vars == <<found, registered, listed, children, current, nextMeta, leaks,
          rows, displays, discover, scanning, todo, aborted>>

Metas == 1 .. MaxMetas

Idle == [loop |-> "none", by |-> {}, sinks |-> {}]

TypeOK ==
    /\ found \in SUBSET Sinks
    /\ registered \in SUBSET Providers
    /\ listed \in SUBSET Metas
    /\ children \in [Metas -> SUBSET Sinks]
    /\ current \in [Metas -> Sinks \union {NoSink}]
    /\ nextMeta \in 1 .. MaxMetas + 1
    /\ leaks \in [Metas -> 0 .. 2]
    /\ rows \in SUBSET Metas
    /\ displays \in SUBSET (Metas \X (Sinks \union {NoSink}))
    /\ discover \in BOOLEAN
    /\ scanning \in [Providers -> BOOLEAN]
    /\ todo \in [loop : {"none", "add", "remove"},
                 by : SUBSET Providers, sinks : SUBSET Sinks]
    /\ aborted \in BOOLEAN
-----------------------------------------------------------------------------
(* Meta sinks *)

SameDevice(s, t) == Matches[s] \intersect Matches[t] # {}

MatchesSink(m, s) == \E t \in children[m] : SameDevice(s, t)

Preferred(ss) == {s \in ss : \A t \in ss : Priority[t] =< Priority[s]}

\* Mutant of Update: a current sink is kept as long as it is held.
UpdateKeeps(cur, ss) ==
    IF ss = {} THEN {NoSink} ELSE IF cur \in ss THEN {cur} ELSE Preferred(ss)

\* nd_meta_sink_update keeps the first sink of highest priority.  The choice
\* between equals that were never current is left open ("preferred order is
\* undefined", as the code logs).
Update(cur, ss) ==
    IF ss = {} THEN {NoSink}
    ELSE IF cur \in Preferred(ss) THEN {cur}
    ELSE Preferred(ss)

\* The value nd_manager_update_exposed_sinks exports: every listed meta sink,
\* whose properties are those of its current sink.
Snapshot(ms, cur) == {<<m, cur[m]>> : m \in ms}

\* Mutant of Export: only additions and removals are exported.
ExportListOnly ==
    displays' = IF listed' = listed THEN displays ELSE Snapshot(listed', current')

Export == displays' = Snapshot(listed', current')

IsFirst(m, ms) == m \in ms /\ \A n \in ms : m =< n
-----------------------------------------------------------------------------
(* provider_sink_added_cb *)

Unmatched(s) == \A m \in listed : ~ MatchesSink(m, s)

NewMeta(s) ==
    /\ Unmatched(s)
    /\ nextMeta \in Metas
    /\ listed' = listed \union {nextMeta}
    /\ children' = [children EXCEPT ![nextMeta] = {s}]
    /\ current' = [current EXCEPT ![nextMeta] = s]
    /\ nextMeta' = nextMeta + 1
    /\ rows' = rows \union {nextMeta}
    /\ Export
    /\ UNCHANGED <<leaks, aborted>>

\* Taking a meta sink off the list drops the provider's reference.  Without a
\* leaked one it is finalized before "sink-removed" can be emitted for it.  In
\* the window the row dies with that signal and takes one reference more (the
\* list model hands out items without a reference of their own, GTK drops one).
Announced(m) == leaks[m] >= 1
Survives(m) == leaks[m] >= IF Window THEN 2 ELSE 1

\* Mutant of Merge: the children of the others are copied, not moved.
MergeCopies(kept, others, moved, s) ==
    [children EXCEPT ![kept] = @ \union moved \union {s}]

Merge(kept, others, moved, s) ==
    [m \in Metas |-> IF m = kept THEN children[kept] \union moved \union {s}
                     ELSE IF m \in others THEN {} ELSE children[m]]

\* Mutant of JoinMeta: the meta sink is replaced by a new one for all its sinks.
JoinMetaAfresh(s) ==
    /\ nextMeta \in Metas
    /\ \E m \in listed :
        LET all == children[m] \union {s}
        IN /\ MatchesSink(m, s)
           /\ listed' = (listed \ {m}) \union {nextMeta}
           /\ children' = [children EXCEPT ![m] = {}, ![nextMeta] = all]
           /\ \E best \in Preferred(all) : current' = [current EXCEPT ![nextMeta] = best]
           /\ rows' = (rows \ {m}) \union {nextMeta}
    /\ nextMeta' = nextMeta + 1
    /\ Export
    /\ UNCHANGED <<leaks, aborted>>

\* The other matching meta sinks are taken off the list, announced as removed,
\* and their children moved one by one.  A finalized one has none left to move.
JoinMeta(s) ==
    LET matching == {m \in listed : MatchesSink(m, s)}
    IN \E kept \in matching :
        LET others == matching \ {kept}
            moved == UNION {children[m] : m \in {n \in others : Survives(n)}}
        IN /\ IsFirst(kept, matching)
           /\ s \notin children[kept]
           /\ listed' = listed \ others
           /\ children' = Merge(kept, others, moved, s)
           /\ \E best \in Update(current[kept], children'[kept]) :
                current' = [m \in Metas |->
                              IF m = kept THEN best
                              ELSE IF m \in others THEN NoSink ELSE current[m]]
           /\ rows' = rows \ {m \in others : Announced(m)}
           /\ Export
           /\ UNCHANGED <<nextMeta, leaks, aborted>>

\* Two ways in which the process dies: nd_meta_sink_add_sink asserts that the
\* sink is new, and the freed meta sink of a merge may bring it down.
AddCrash(s) ==
    /\ LET matching == {m \in listed : MatchesSink(m, s)}
       IN \E kept \in matching :
            /\ IsFirst(kept, matching)
            /\ \/ s \in children[kept]
               \/ \E m \in matching \ {kept} : ~ Survives(m)
    /\ aborted' = TRUE
    /\ UNCHANGED <<listed, children, current, nextMeta, leaks, rows, displays>>

SinkAddedCb(s) == NewMeta(s) \/ JoinMeta(s) \/ AddCrash(s)
-----------------------------------------------------------------------------
(* provider_sink_removed_cb *)

\* No meta sink holds it: early return, no signal.
RemoveUnknown(s) ==
    /\ \A m \in listed : s \notin children[m]
    /\ UNCHANGED <<listed, children, current, nextMeta, leaks, rows, displays, aborted>>

MoreLeaks(n) == IF n = 2 THEN 2 ELSE n + 1

RowsWithout(m) == rows \ {m}

\* The reference taken on the meta sink is never dropped.
RemoveChild(s) ==
    /\ \E m \in listed :
        /\ IsFirst(m, {n \in listed : s \in children[n]})
        /\ leaks' = [leaks EXCEPT ![m] = MoreLeaks(@)]
        /\ children' = [children EXCEPT ![m] = @ \ {s}]
        /\ \E best \in Update(current[m], children'[m]) :
             current' = [current EXCEPT ![m] = best]
        /\ IF children'[m] = {}
           THEN listed' = listed \ {m} /\ rows' = RowsWithout(m)
           ELSE UNCHANGED <<listed, rows>>
    /\ Export
    /\ UNCHANGED <<nextMeta, aborted>>

SinkRemovedCb(s) == RemoveUnknown(s) \/ RemoveChild(s)

ListUnchanged ==
    UNCHANGED <<listed, children, current, nextMeta, leaks, rows, displays, aborted>>
-----------------------------------------------------------------------------
(* Providers and their registration *)

MainLoop == todo = Idle /\ ~ aborted

\* The bound on meta sinks never stops a loop half-way.
RoomFor(ss) == nextMeta + Cardinality(ss) =< MaxMetas + 1

\* A provider appends a sink to its own list and emits "sink-added".
SinkFound(s) ==
    /\ MainLoop
    /\ s \notin found
    /\ RoomFor({s})
    /\ found' = found \union {s}
    /\ IF Owner[s] \in registered THEN SinkAddedCb(s) ELSE ListUnchanged
    /\ UNCHANGED <<registered, discover, scanning, todo>>

\* A provider drops a sink from its own list and emits "sink-removed".
SinkLost(s) ==
    /\ MainLoop
    /\ s \in found
    /\ found' = found \ {s}
    /\ IF Owner[s] \in registered THEN SinkRemovedCb(s) ELSE ListUnchanged
    /\ UNCHANGED <<registered, discover, scanning, todo>>

\* Mutant of Existing: only signals count, the sinks found before are forgotten.
ExistingForgotten(p) == {}

Existing(p) == {s \in found : Owner[s] = p}

Synced(p) == [scanning EXCEPT ![p] = discover]

AddProvider(p) ==
    /\ MainLoop
    /\ p \notin registered
    /\ RoomFor(Existing(p))
    /\ registered' = registered \union {p}
    /\ scanning' = Synced(p)
    /\ todo' = [loop |-> "add", by |-> {p}, sinks |-> Existing(p)]
    /\ UNCHANGED <<found, discover>>
    /\ ListUnchanged

AddExisting(p) ==
    /\ ~ aborted
    /\ todo.loop = "add" /\ todo.by = {p}
    /\ \E s \in todo.sinks :
        /\ SinkAddedCb(s)
        /\ todo' = [todo EXCEPT !.sinks = @ \ {s}]
    /\ UNCHANGED <<found, registered, discover, scanning>>

AddProviderReturns(p) ==
    /\ ~ aborted
    /\ todo = [loop |-> "add", by |-> {p}, sinks |-> {}]
    /\ todo' = Idle
    /\ UNCHANGED <<found, registered, discover, scanning>>
    /\ ListUnchanged

RemoveProvider(p) ==
    /\ MainLoop
    /\ p \in registered
    /\ todo' = [loop |-> "remove", by |-> {p}, sinks |-> Existing(p)]
    /\ UNCHANGED <<found, registered, discover, scanning>>
    /\ ListUnchanged

RemoveExisting(p) ==
    /\ ~ aborted
    /\ todo.loop = "remove" /\ todo.by = {p}
    /\ \E s \in todo.sinks :
        /\ SinkRemovedCb(s)
        /\ todo' = [todo EXCEPT !.sinks = @ \ {s}]
    /\ UNCHANGED <<found, registered, discover, scanning>>

RemoveProviderReturns(p) ==
    /\ ~ aborted
    /\ todo = [loop |-> "remove", by |-> {p}, sinks |-> {}]
    /\ registered' = registered \ {p}
    /\ todo' = Idle
    /\ UNCHANGED <<found, discover, scanning>>
    /\ ListUnchanged

\* The window stops discovery while it streams and resumes it afterwards.
SetDiscover(b) ==
    /\ MainLoop
    /\ discover' = b
    /\ scanning' = [p \in Providers |-> IF p \in registered THEN b ELSE scanning[p]]
    /\ UNCHANGED <<found, registered, todo>>
    /\ ListUnchanged
-----------------------------------------------------------------------------
Init ==
    /\ found = {}
    /\ registered = {}
    /\ listed = {}
    /\ children = [m \in Metas |-> {}]
    /\ current = [m \in Metas |-> NoSink]
    /\ nextMeta = 1
    /\ leaks = [m \in Metas |-> 0]
    /\ rows = {}
    /\ displays = {}
    /\ discover = TRUE
    /\ scanning = [p \in Providers |-> TRUE]
    /\ todo = Idle
    /\ aborted = FALSE

Next ==
    \/ \E s \in Sinks : SinkFound(s) \/ SinkLost(s)
    \/ \E p \in Providers :
        \/ AddProvider(p)
        \/ AddExisting(p)
        \/ AddProviderReturns(p)
        \/ RemoveProvider(p)
        \/ RemoveExisting(p)
        \/ RemoveProviderReturns(p)
    \/ \E b \in BOOLEAN : SetDiscover(b)

Spec == Init /\ [][Next]_vars
-----------------------------------------------------------------------------
(* Properties *)

Visible == {s \in found : Owner[s] \in registered}

Held == UNION {children[m] : m \in listed}

\* Two listed meta sinks never hold sinks that share an address.
Separated ==
    \A m, n \in listed : \A s \in children[m], t \in children[n] :
        SameDevice(s, t) => m = n

\* A sink is held by one meta sink at most.
Disjoint ==
    \A m, n \in Metas : children[m] \intersect children[n] # {} => m = n

\* De-duplication is complete, whatever the order of arrivals, removals and
\* merges: devices are kept apart, the assertion of nd_meta_sink_add_sink cannot
\* fail and provider_sink_removed_cb finds the only holder.
DeDuplicated == Separated /\ Disjoint

\* Every meta sink a client can pick has a current sink, one of its children of
\* highest priority: start_stream and to_uri never meet a NULL current sink.
Usable == \A m \in listed : current[m] \in Preferred(children[m])

\* What the daemon exports is never out of date: every change of the list or of
\* a current sink is followed by an export in the same step.
DisplaysFresh == displays = Snapshot(listed, current)

\* No meta sink offers a sink its provider no longer has, or one whose provider
\* was unplugged.
NoStrangers == \A m \in listed : children[m] \subseteq Visible

\* Providers scan exactly when the meta provider does, those that were plugged
\* in while a stream had discovery switched off included.
DiscoverSynced == \A p \in registered : scanning[p] = discover

\* Every sink of a registered provider is offered to the user.
Complete == MainLoop => Visible \subseteq Held

\* Both listeners follow: the rows of the window are the listed meta sinks, even in
\* the middle of a registration loop, and the exported property is fresh.
ListenersFollow == rows = listed /\ DisplaysFresh

\* No sink that arrives matches two meta sinks ("This should not happen!",
\* nd-meta-provider.c:70).
NeverAmbiguous ==
    \A s \in Sinks \ Held : \A m, n \in listed :
        MatchesSink(m, s) /\ MatchesSink(n, s) => m = n

\* The same claim about the sinks that do arrive: when a sink becomes visible
\* there is at most one listed meta sink for it to join.
ArrivalUnambiguous ==
    [][\A s \in Visible' \ Held : \A m, n \in listed :
        MatchesSink(m, s) /\ MatchesSink(n, s) => m = n]_vars

\* A device keeps its meta sink, and so the uuid that names its stream unit, as
\* long as one of its sinks is left.
IdentityStable ==
    [][\A m \in listed : children[m] \intersect UNION {children'[n] : n \in listed'} # {}
            => m \in listed']_vars

\* Matching is transitive: the addresses of a device are known to all its sinks
\* or to none, so that no sink bridges two others.
Unambiguous ==
    \A s, t, u \in Sinks : SameDevice(s, t) /\ SameDevice(t, u) => SameDevice(s, u)

\* The directory of devices the meta provider promises to its listeners.
Directory == INSTANCE DeviceDirectory WITH
    visible <- Held,
    devices <- {children[m] : m \in listed},
    offered <- {current[m] : m \in listed}

\* Held sinks are grouped by device, with one preferred sink per device on offer.
ImplementsDirectory == Directory!Spec
=============================================================================
