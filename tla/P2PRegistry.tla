---------------------------- MODULE P2PRegistry ----------------------------
(***************************************************************************)
(* The registry of network devices (nd-nm-device-registry.c) with the      *)
(* Wi-Fi Direct provider it creates (nd-wfd-p2p-provider.c), for one P2P   *)
(* device that comes, changes its state and goes.  The providers for       *)
(* services are in ServiceProvider.                                        *)
(***************************************************************************)
EXTENDS Naturals

CONSTANT Peers

VARIABLES
    client,    \* the NMClient: "starting", "running" or "failed"
    device,    \* the P2P device: "none", "unavailable" or "ready" (> UNAVAILABLE)
    peers,     \* what the device sees of a peer: "gone", "plain" or "wfd" (with its IEs)
    provider,  \* the provider in registry->providers, or NoProvider
    leaked,    \* providers the registry has dropped: see RemoveProvider
    discover   \* the meta provider's property, which it hands on

registryVars == <<client, device, peers, provider, leaked, discover>>

NoProvider == [exists |-> FALSE]

\* searching: p2p_find_source_id; watched: on_peer_wfd_ie_notify_cb is connected.
Providers == [exists : {TRUE}, discover : BOOLEAN, searching : BOOLEAN,
              watched : SUBSET Peers, sinks : SUBSET Peers]

RegistryTypeOK ==
    /\ client \in {"starting", "running", "failed"}
    /\ device \in {"none", "unavailable", "ready"}
    /\ peers \in [Peers -> {"gone", "plain", "wfd"}]
    /\ provider \in Providers \cup {NoProvider}
    /\ leaked \subseteq [discover : BOOLEAN, searching : BOOLEAN, attached : BOOLEAN]
    /\ discover \in BOOLEAN

Rows == IF provider.exists THEN provider.sinks ELSE {}
-----------------------------------------------------------------------------
(* The provider. *)

\* discovery_start_stop; device_restart_find_timeout repeats the request.
StartStop(p, state) == [p EXCEPT !.searching = p.discover /\ state = "ready"]

\* The setter of "discover"
SetDiscover(p, d) == StartStop([p EXCEPT !.discover = d], device)

\* Mutant of PeerAdded: a peer without information elements is passed over.
PeerAddedUnwatched(p, peer, seen) ==
    IF seen = "wfd" THEN [p EXCEPT !.sinks = @ \cup {peer}] ELSE p

\* peer_added_cb: a peer without information elements is watched.
PeerAdded(p, peer, seen) ==
    IF seen = "wfd" THEN [p EXCEPT !.sinks = @ \cup {peer}]
    ELSE [p EXCEPT !.watched = @ \cup {peer}]

\* peer_removed_cb
PeerRemoved(p, peer) == [p EXCEPT !.watched = @ \ {peer}, !.sinks = @ \ {peer}]

\* on_peer_wfd_ie_notify_cb
IesChanged(p, peer, seen) ==
    IF peer \in p.watched THEN PeerAdded([p EXCEPT !.watched = @ \ {peer}], peer, seen) ELSE p

\* The setter of "device", while the object is built: the search waits for "discover",
\* the peers that are already there are added.
Constructed == [exists |-> TRUE, discover |-> FALSE, searching |-> FALSE,
                watched |-> {p \in Peers : peers[p] = "plain"},
                sinks |-> {p \in Peers : peers[p] = "wfd"}]

Tells(p) == provider' = IF provider.exists THEN p ELSE provider
-----------------------------------------------------------------------------
(* The device's peers: NetworkManager. *)

PeerComes(peer, seen) ==
    /\ device = "ready" /\ peers[peer] = "gone"
    /\ peers' = [peers EXCEPT ![peer] = seen]
    /\ Tells(PeerAdded(provider, peer, seen))
    /\ UNCHANGED <<client, device, leaked, discover>>

PeerGoes(peer) ==
    /\ peers[peer] # "gone"
    /\ peers' = [peers EXCEPT ![peer] = "gone"]
    /\ Tells(PeerRemoved(provider, peer))
    /\ UNCHANGED <<client, device, leaked, discover>>

PeerChanges(peer, seen) ==
    /\ peers[peer] # "gone"
    /\ peers' = [peers EXCEPT ![peer] = seen]
    /\ Tells(IesChanged(provider, peer, seen))
    /\ UNCHANGED <<client, device, leaked, discover>>
-----------------------------------------------------------------------------
(* The registry. *)

\* Mutant of AddProvider: a new provider searches, whatever the window wants.
AddProviderSearching(state) ==
    provider' = IF provider.exists THEN StartStop(provider, state)
                ELSE StartStop([Constructed EXCEPT !.discover = TRUE], state)

\* add_p2p_provider: nothing happens if there is one.  nd_meta_provider_add_provider
\* hands "discover" on.
AddProvider(state) ==
    provider' = IF provider.exists THEN StartStop(provider, state)
                ELSE StartStop([Constructed EXCEPT !.discover = discover], state)

\* remove_p2p_provider.  add_p2p_provider keeps a reference of its own that nobody
\* drops: the provider is never finalized, goes on listening to its device and stays
\* with the value of "discover" it had.
RemoveProvider == provider' = NoProvider

Leaving(searching, attached) ==
    IF provider.exists
    THEN {[discover |-> provider.discover, searching |-> searching, attached |-> attached]}
    ELSE {}

\* device_state_changed_cb of the leaked ones
LeakedHear(state) ==
    {IF l.attached THEN [l EXCEPT !.searching = l.discover /\ state = "ready"] ELSE l : l \in leaked}

\* client_init_async_finished: after a failure there will be no provider.
ClientStarted ==
    /\ client = "starting"
    /\ \/ client' = "running"
       \/ device = "none" /\ client' = "failed"
    /\ UNCHANGED <<device, peers, provider, leaked, discover>>

\* device_added_cb, which may come before the client has started.
DeviceAdded(state) ==
    /\ client # "failed" /\ device = "none"
    /\ device' = state
    /\ IF state = "ready" THEN AddProvider(state) ELSE UNCHANGED provider
    /\ UNCHANGED <<client, peers, leaked, discover>>

\* p2p_device_state_changed_cb, then the handlers of the providers there are.
DeviceStateChanged(state) ==
    /\ device # "none"
    /\ device' = state
    /\ IF state = "ready"
       THEN AddProvider(state) /\ leaked' = LeakedHear(state)
       ELSE RemoveProvider /\ leaked' = LeakedHear(state) \cup Leaving(FALSE, TRUE)
    /\ UNCHANGED <<client, peers, discover>>

\* device_removed_cb: the device says nothing any more.
DeviceRemoved ==
    /\ device # "none"
    /\ \A p \in Peers : peers[p] = "gone"
    /\ device' = "none"
    /\ RemoveProvider
    /\ leaked' = {[l EXCEPT !.attached = FALSE] : l \in leaked}
                     \cup Leaving(provider.exists /\ provider.searching, FALSE)
    /\ UNCHANGED <<client, peers, discover>>

RegistryInit ==
    /\ client = "starting" /\ device = "none"
    /\ peers = [p \in Peers |-> "gone"]
    /\ provider = NoProvider /\ leaked = {}
    /\ discover = TRUE

RegistryNext ==
    \/ ClientStarted \/ DeviceRemoved
    \/ \E s \in {"unavailable", "ready"} : DeviceAdded(s) \/ DeviceStateChanged(s)
    \/ \E p \in Peers : PeerGoes(p) \/ \E s \in {"plain", "wfd"} : PeerComes(p, s) \/ PeerChanges(p, s)
=============================================================================
