-------------------------- MODULE NdWindow_proofs --------------------------
(***************************************************************************)
(* No stream without the window that shows it, no search beside a stream,  *)
(* every peer on the list, and a portal session for every stream: for any  *)
(* number of peers and of requests to the portal.                          *)
(***************************************************************************)
EXTENDS NdWindow, TLAPS

(* The provider's operations: what each makes of a provider. *)

\* A state change of the device, or of "discover", keeps the rest of the provider.
LEMMA StartStopKeeps ==
    ASSUME NEW p \in Providers, NEW s
    PROVE  /\ StartStop(p, s) \in Providers
           /\ StartStop(p, s).searching = (p.discover /\ s = "ready")
           /\ StartStop(p, s).discover = p.discover
           /\ StartStop(p, s).sinks = p.sinks
           /\ StartStop(p, s).watched = p.watched
  BY DEF StartStop, Providers

LEMMA DiscoverKeeps ==
    ASSUME NEW p \in Providers, NEW d \in BOOLEAN
    PROVE  /\ SetDiscover(p, d) \in Providers
           /\ SetDiscover(p, d).searching = (d /\ device = "ready")
           /\ SetDiscover(p, d).discover = d
           /\ SetDiscover(p, d).sinks = p.sinks
           /\ SetDiscover(p, d).watched = p.watched
  BY DEF SetDiscover, StartStop, Providers

\* A peer that is added is listed or watched, and nothing else changes.
LEMMA PeerAddedKeeps ==
    ASSUME NEW p \in Providers, NEW peer \in Peers, NEW s
    PROVE  /\ PeerAdded(p, peer, s) \in Providers
           /\ PeerAdded(p, peer, s).searching = p.searching
           /\ PeerAdded(p, peer, s).discover = p.discover
           /\ p.sinks \subseteq PeerAdded(p, peer, s).sinks
           /\ p.watched \subseteq PeerAdded(p, peer, s).watched
           /\ s = "wfd" => peer \in PeerAdded(p, peer, s).sinks
           /\ s # "wfd" => peer \in PeerAdded(p, peer, s).watched
  <1>1. CASE s = "wfd"
    BY <1>1 DEF PeerAdded, Providers
  <1>2. CASE s # "wfd"
    BY <1>2 DEF PeerAdded, Providers
  <1> QED BY <1>1, <1>2

LEMMA PeerRemovedKeeps ==
    ASSUME NEW p \in Providers, NEW peer \in Peers
    PROVE  /\ PeerRemoved(p, peer) \in Providers
           /\ PeerRemoved(p, peer).searching = p.searching
           /\ PeerRemoved(p, peer).discover = p.discover
           /\ PeerRemoved(p, peer).sinks = p.sinks \ {peer}
           /\ PeerRemoved(p, peer).watched = p.watched \ {peer}
  BY DEF PeerRemoved, Providers

\* What a watched peer shows puts it on the list; any other change is not heard.
LEMMA IesChangedKeeps ==
    ASSUME NEW p \in Providers, NEW peer \in Peers, NEW s
    PROVE  /\ IesChanged(p, peer, s) \in Providers
           /\ IesChanged(p, peer, s).searching = p.searching
           /\ IesChanged(p, peer, s).discover = p.discover
           /\ p.sinks \subseteq IesChanged(p, peer, s).sinks
           /\ p.watched \ {peer} \subseteq IesChanged(p, peer, s).watched
           /\ peer \in p.watched /\ s = "wfd" => peer \in IesChanged(p, peer, s).sinks
           /\ peer \in p.watched /\ s # "wfd" => peer \in IesChanged(p, peer, s).watched
  <1> DEFINE q == [p EXCEPT !.watched = @ \ {peer}]
  <1>1. /\ q \in Providers /\ q.searching = p.searching /\ q.discover = p.discover
        /\ q.sinks = p.sinks /\ q.watched = p.watched \ {peer}
    BY DEF Providers
  <1>2. CASE peer \in p.watched
    <2>1. IesChanged(p, peer, s) = PeerAdded(q, peer, s)
      BY <1>2 DEF IesChanged
    <2> HIDE DEF q
    <2> QED BY <2>1, <1>1, PeerAddedKeeps
  <1>3. CASE peer \notin p.watched
    BY <1>3 DEF IesChanged
  <1> QED BY <1>2, <1>3
-----------------------------------------------------------------------------
(* The inductive invariant *)

\* A provider has the window's "discover", searches by it, and knows of every peer.
ProviderOK ==
    provider.exists =>
        /\ provider.discover = discover
        /\ provider.searching = (discover /\ device = "ready")
        /\ \A p \in Peers :
               /\ peers[p] = "wfd" => p \in provider.sinks
               /\ peers[p] = "plain" => p \in provider.sinks \cup provider.watched

\* A stream has a session, the search is off meanwhile.
StreamOK ==
    /\ discover = (stream = None)
    /\ stream # None => (use_x11 \/ session # "none") /\ state[stream] # "disconnected"
    /\ OneStream /\ PageFollows

\* What a thread looks for was there when it was asked to.
SourceOK ==
    /\ asking # "no" /\ ~ overlapped => session # "none"
    /\ SessionThere

IInv == TypeOK /\ ProviderOK /\ StreamOK /\ SourceOK

LEMMA NoneExists == NoProvider.exists = FALSE
  BY DEF NoProvider

LEMMA ProviderTypes ==
    ASSUME RegistryTypeOK
    PROVE  provider.exists => provider \in Providers
  <1>1. provider \in Providers \/ provider = NoProvider
    BY Zenon DEF RegistryTypeOK
  <1>2. provider = NoProvider => provider.exists = FALSE
    BY NoneExists
  <1> QED BY <1>1, <1>2

LEMMA ConstructedTypes ==
    /\ Constructed \in Providers
    /\ Constructed.sinks = {p \in Peers : peers[p] = "wfd"}
    /\ Constructed.watched = {p \in Peers : peers[p] = "plain"}
  BY DEF Constructed, Providers

LEMMA InitIInv == Init => IInv
  <1> SUFFICES ASSUME Init PROVE IInv
    OBVIOUS
  <1>1. provider = NoProvider /\ provider.exists = FALSE
    BY NoneExists DEF Init, RegistryInit
  <1>2. RegistryTypeOK
    <2>1. provider \in Providers \cup {NoProvider}
      BY <1>1, Zenon
    <2> QED BY <2>1 DEF Init, RegistryInit, RegistryTypeOK
  <1>3. TypeOK
    <2>1. use_x11 \in BOOLEAN /\ requests \in {0, 1}
      BY Zenon DEF Init
    <2>2. requests \in 0 .. MaxRequests
      BY <2>1, RequestsAssumption
    <2> QED BY <1>2, <2>1, <2>2 DEF Init, TypeOK, Sessions, Asking
  <1>4. ProviderOK
    BY <1>1 DEF ProviderOK
  <1>5. StreamOK
    BY DEF Init, RegistryInit, StreamOK, OneStream, PageFollows
  <1>6. SourceOK
    BY DEF Init, SourceOK, SessionThere
  <1> QED BY <1>3, <1>4, <1>5, <1>6 DEF IInv
-----------------------------------------------------------------------------
(* The registry's steps *)

\* add_p2p_provider creates a provider that searches by "discover" and has every peer.
LEMMA AddProviderOK ==
    ASSUME RegistryTypeOK, ProviderOK, NEW s \in {"unavailable", "ready"},
           AddProvider(s), device' = s, UNCHANGED <<peers, discover>>
    PROVE  /\ provider' \in Providers
           /\ ProviderOK'
  <1>1. CASE provider.exists
    <2>1. provider \in Providers
      BY <1>1, ProviderTypes
    <2>2. provider' = StartStop(provider, s)
      BY <1>1 DEF AddProvider
    <2> QED BY <1>1, <2>1, <2>2, StartStopKeeps DEF ProviderOK
  <1>2. CASE ~ provider.exists
    <2> DEFINE new == [Constructed EXCEPT !.discover = discover]
    <2>1. /\ new \in Providers /\ new.discover = discover
          /\ new.sinks = {p \in Peers : peers[p] = "wfd"}
          /\ new.watched = {p \in Peers : peers[p] = "plain"}
      BY ConstructedTypes DEF Providers, RegistryTypeOK
    <2>2. provider' = StartStop(new, s)
      BY <1>2 DEF AddProvider
    <2> HIDE DEF new
    <2>3. /\ provider' \in Providers /\ provider'.discover = discover
          /\ provider'.searching = (discover /\ s = "ready")
          /\ provider'.sinks = new.sinks /\ provider'.watched = new.watched
      BY <2>1, <2>2, StartStopKeeps
    <2> QED BY <2>1, <2>3 DEF ProviderOK
  <1> QED BY <1>1, <1>2

LEMMA PeerStep ==
    ASSUME RegistryTypeOK, ProviderOK, NEW peer \in Peers, NEW s \in {"plain", "wfd"},
           PeerComes(peer, s) \/ PeerGoes(peer) \/ PeerChanges(peer, s)
    PROVE  RegistryTypeOK' /\ ProviderOK'
  <1>0. /\ peers' \in [Peers -> {"gone", "plain", "wfd"}]
        /\ \A p \in Peers : p # peer => peers'[p] = peers[p]
        /\ UNCHANGED <<client, device, leaked, discover>>
    BY DEF RegistryTypeOK, PeerComes, PeerGoes, PeerChanges
  <1>1. CASE ~ provider.exists
    <2>1. provider' = provider
      BY <1>1 DEF PeerComes, PeerGoes, PeerChanges, Tells
    <2> QED BY <1>0, <1>1, <2>1 DEF RegistryTypeOK, ProviderOK
  <1>2. CASE provider.exists
    <2>1. provider \in Providers
      BY <1>2, ProviderTypes
    <2>2. CASE PeerComes(peer, s)
      <3>1. provider' = PeerAdded(provider, peer, s) /\ peers'[peer] = s
        BY <1>2, <2>2 DEF PeerComes, Tells, RegistryTypeOK
      <3>2. /\ provider' \in Providers /\ UNCHANGED <<provider.searching, provider.discover>>
            /\ provider.sinks \subseteq provider'.sinks /\ provider.watched \subseteq provider'.watched
            /\ s = "wfd" => peer \in provider'.sinks
            /\ s # "wfd" => peer \in provider'.watched
        BY <2>1, <3>1, PeerAddedKeeps
      <3> QED BY <1>0, <1>2, <3>1, <3>2 DEF RegistryTypeOK, ProviderOK
    <2>3. CASE PeerGoes(peer)
      <3>1. provider' = PeerRemoved(provider, peer) /\ peers'[peer] = "gone"
        BY <1>2, <2>3 DEF PeerGoes, Tells, RegistryTypeOK
      <3>2. /\ provider' \in Providers /\ UNCHANGED <<provider.searching, provider.discover>>
            /\ provider'.sinks = provider.sinks \ {peer}
            /\ provider'.watched = provider.watched \ {peer}
        BY <2>1, <3>1, PeerRemovedKeeps
      <3> QED BY <1>0, <1>2, <3>1, <3>2 DEF RegistryTypeOK, ProviderOK
    <2>4. CASE PeerChanges(peer, s)
      <3>1. /\ provider' = IesChanged(provider, peer, s)
            /\ peers[peer] \in {"plain", "wfd"} /\ peers'[peer] = s
        BY <1>2, <2>4 DEF PeerChanges, Tells, RegistryTypeOK
      <3>2. /\ provider' \in Providers /\ UNCHANGED <<provider.searching, provider.discover>>
            /\ provider.sinks \subseteq provider'.sinks
            /\ provider.watched \ {peer} \subseteq provider'.watched
            /\ peer \in provider.watched /\ s = "wfd" => peer \in provider'.sinks
            /\ peer \in provider.watched /\ s # "wfd" => peer \in provider'.watched
        BY <2>1, <3>1, IesChangedKeeps
      <3>3. peer \in provider.sinks \cup provider.watched
        BY <1>2, <3>1 DEF ProviderOK
      <3> QED BY <1>0, <1>2, <3>1, <3>2, <3>3 DEF RegistryTypeOK, ProviderOK
    <2> QED BY <2>2, <2>3, <2>4
  <1> QED BY <1>1, <1>2

LEMMA LeakedTypes ==
    ASSUME RegistryTypeOK, NEW s
    PROVE  LeakedHear(s) \subseteq [discover : BOOLEAN, searching : BOOLEAN, attached : BOOLEAN]
  <1> DEFINE Heard(l) == IF l.attached THEN [l EXCEPT !.searching = l.discover /\ s = "ready"] ELSE l
  <1>1. LeakedHear(s) = {Heard(l) : l \in leaked}
    BY DEF LeakedHear
  <1>2. ASSUME NEW l \in leaked
        PROVE  Heard(l) \in [discover : BOOLEAN, searching : BOOLEAN, attached : BOOLEAN]
    <2>1. l \in [discover : BOOLEAN, searching : BOOLEAN, attached : BOOLEAN]
      BY Zenon DEF RegistryTypeOK
    <2> QED BY <2>1
  <1> HIDE DEF Heard
  <1> QED BY <1>1, <1>2

LEMMA LeavingTypes ==
    ASSUME RegistryTypeOK, NEW a \in BOOLEAN, NEW b \in BOOLEAN
    PROVE  Leaving(a, b) \subseteq [discover : BOOLEAN, searching : BOOLEAN, attached : BOOLEAN]
  <1>1. provider.exists => provider.discover \in BOOLEAN
    BY ProviderTypes DEF Providers
  <1> QED BY <1>1 DEF Leaving

LEMMA RegistryStep ==
    ASSUME RegistryTypeOK, ProviderOK, RegistryNext
    PROVE  RegistryTypeOK' /\ ProviderOK' /\ UNCHANGED discover
  <1> DEFINE Leaked == [discover : BOOLEAN, searching : BOOLEAN, attached : BOOLEAN]
  <1>1. CASE ClientStarted
    BY <1>1 DEF ClientStarted, RegistryTypeOK, ProviderOK
  <1>2. CASE DeviceRemoved
    <2>1. provider' = NoProvider /\ ~ provider'.exists
      BY <1>2, NoneExists DEF DeviceRemoved, RemoveProvider
    <2>2. (provider.exists /\ provider.searching) \in BOOLEAN
      OBVIOUS
    <2>3. Leaving(provider.exists /\ provider.searching, FALSE) \subseteq Leaked
      BY <2>2, LeavingTypes
    <2>4. {[l EXCEPT !.attached = FALSE] : l \in leaked} \subseteq Leaked
      BY DEF RegistryTypeOK
    <2>5. leaked' \subseteq Leaked
      BY <1>2, <2>3, <2>4 DEF DeviceRemoved
    <2>6. provider' \in Providers \cup {NoProvider}
      BY <2>1, Zenon
    <2> QED BY <1>2, <2>1, <2>5, <2>6 DEF DeviceRemoved, RegistryTypeOK, ProviderOK
  <1>3. ASSUME NEW s \in {"unavailable", "ready"}, DeviceAdded(s)
        PROVE  RegistryTypeOK' /\ ProviderOK' /\ UNCHANGED discover
    <2>1. /\ device = "none" /\ device' = s
          /\ UNCHANGED <<client, peers, leaked, discover>>
      BY <1>3 DEF DeviceAdded
    <2>2. CASE s = "ready"
      <3>1. provider' \in Providers /\ ProviderOK'
        BY <1>3, <2>1, <2>2, AddProviderOK DEF DeviceAdded
      <3> QED BY <2>1, <3>1 DEF RegistryTypeOK
    <2>3. CASE s # "ready"
      <3>1. provider' = provider
        BY <1>3, <2>3 DEF DeviceAdded
      <3> QED BY <2>1, <2>3, <3>1 DEF RegistryTypeOK, ProviderOK
    <2> QED BY <2>2, <2>3
  <1>4. ASSUME NEW s \in {"unavailable", "ready"}, DeviceStateChanged(s)
        PROVE  RegistryTypeOK' /\ ProviderOK' /\ UNCHANGED discover
    <2>1. device' = s /\ UNCHANGED <<client, peers, discover>>
      BY <1>4 DEF DeviceStateChanged
    <2>2. CASE s = "ready"
      <3>1. AddProvider(s) /\ leaked' = LeakedHear(s)
        BY <1>4, <2>2 DEF DeviceStateChanged
      <3>2. provider' \in Providers /\ ProviderOK'
        BY <2>1, <3>1, AddProviderOK
      <3>3. leaked' \subseteq Leaked
        BY <3>1, LeakedTypes
      <3> QED BY <2>1, <3>2, <3>3 DEF RegistryTypeOK
    <2>3. CASE s # "ready"
      <3>1. provider' = NoProvider /\ leaked' = LeakedHear(s) \cup Leaving(FALSE, TRUE)
        BY <1>4, <2>3 DEF DeviceStateChanged, RemoveProvider
      <3>2. ~ provider'.exists
        BY <3>1, NoneExists
      <3>3. leaked' \subseteq Leaked
        BY <3>1, LeakedTypes, LeavingTypes
      <3>4. provider' \in Providers \cup {NoProvider}
        BY <3>1, Zenon
      <3> QED BY <2>1, <3>2, <3>3, <3>4 DEF RegistryTypeOK, ProviderOK
    <2> QED BY <2>2, <2>3
  <1>5. ASSUME NEW p \in Peers, NEW s \in {"plain", "wfd"},
               PeerComes(p, s) \/ PeerGoes(p) \/ PeerChanges(p, s)
        PROVE  RegistryTypeOK' /\ ProviderOK' /\ UNCHANGED discover
    BY <1>5, PeerStep DEF PeerComes, PeerGoes, PeerChanges
  <1>6. ASSUME NEW p \in Peers, PeerGoes(p)
        PROVE  RegistryTypeOK' /\ ProviderOK' /\ UNCHANGED discover
    BY <1>5, <1>6
  <1> QED BY <1>1, <1>2, <1>3, <1>4, <1>5, <1>6 DEF RegistryNext
-----------------------------------------------------------------------------
(* The window's steps *)

\* "discover" reaches the provider at once.
LEMMA DiscoverStep ==
    ASSUME RegistryTypeOK, ProviderOK, NEW d \in BOOLEAN, Discover(d),
           UNCHANGED <<client, device, peers, leaked>>
    PROVE  RegistryTypeOK' /\ ProviderOK'
  <1>1. CASE provider.exists
    <2>1. provider \in Providers /\ provider' = SetDiscover(provider, d) /\ discover' = d
      BY <1>1, ProviderTypes DEF Discover, Tells
    <2>2. /\ provider' \in Providers /\ provider'.discover = d
          /\ provider'.searching = (d /\ device = "ready")
          /\ provider'.sinks = provider.sinks /\ provider'.watched = provider.watched
      BY <2>1, DiscoverKeeps
    <2> QED BY <1>1, <2>1, <2>2 DEF RegistryTypeOK, ProviderOK
  <1>2. CASE ~ provider.exists
    <2>1. provider' = provider /\ discover' = d
      BY <1>2 DEF Discover, Tells
    <2> QED BY <1>2, <2>1 DEF RegistryTypeOK, ProviderOK
  <1> QED BY <1>1, <1>2

LEMMA RegistryUnchanged ==
    ASSUME RegistryTypeOK, ProviderOK, UNCHANGED registryVars
    PROVE  RegistryTypeOK' /\ ProviderOK'
  BY DEF registryVars, RegistryTypeOK, ProviderOK

\* Only the end of a stream switches the search on, and every end does.
LEMMA SinkStep ==
    ASSUME IInv, NEW s \in {"streaming", "error", "disconnected"}, SinkChanges(s),
           UNCHANGED <<use_x11, requests>>, session' \in Sessions,
           orphans' \in BOOLEAN, starts' \in BOOLEAN, overlapped' \in BOOLEAN,
           s # "disconnected" => UNCHANGED session
    PROVE  TypeOK' /\ ProviderOK' /\ StreamOK'
  <1> USE DEF IInv
  <1>1. RegistryTypeOK' /\ ProviderOK' /\ discover' = (stream' = None)
    <2>1. CASE s = "disconnected"
      <3>1. Discover(TRUE) /\ stream' = None /\ UNCHANGED <<client, device, peers, leaked>>
        BY <2>1 DEF SinkChanges, Notified, Undisturbed
      <3> QED BY <3>1, DiscoverStep DEF Discover, TypeOK
    <2>2. CASE s # "disconnected"
      <3>1. UNCHANGED registryVars /\ stream' = stream
        BY <2>2 DEF SinkChanges, Notified, Undisturbed, registryVars
      <3> QED BY <3>1, RegistryUnchanged DEF registryVars, TypeOK, StreamOK
    <2> QED BY <2>1, <2>2
  <1>2. /\ stream \in Peers /\ stream # None /\ state' = [state EXCEPT ![stream] = s]
        /\ state'[stream] = s /\ \A p \in Peers : p # stream => state'[p] = "disconnected"
    BY NoneAssumption DEF SinkChanges, TypeOK, StreamOK, OneStream
  <1>3. picture' \in {"none", "asked", "made"} /\ UNCHANGED <<asking, aborted>>
    BY DEF SinkChanges, TypeOK
  <1>4. TypeOK'
    BY <1>1, <1>2, <1>3 DEF SinkChanges, Notified, TypeOK
  <1>5. StreamOK'
    BY <1>1, <1>2 DEF SinkChanges, Notified, TypeOK, StreamOK, OneStream, PageFollows
  <1> QED BY <1>1, <1>4, <1>5

\* The page "find" is the only one to pick from, so that there is no stream yet.
LEMMA StartStep ==
    ASSUME IInv, NEW p \in Peers, page = "find",
           NEW s \in {"connecting", "error"}, Start(p, s)
    PROVE  TypeOK' /\ ProviderOK' /\ StreamOK'
  <1> USE DEF IInv
  <1>1. RegistryTypeOK' /\ ProviderOK' /\ discover' = FALSE
    BY DiscoverStep DEF Start, Discover, Undisturbed, TypeOK
  <1>2. /\ stream = None /\ stream' = p /\ p # None /\ state' = [state EXCEPT ![p] = s]
        /\ state'[p] = s /\ \A q \in Peers : q # p => state'[q] = "disconnected"
    BY NoneAssumption DEF Start, TypeOK, StreamOK, OneStream, PageFollows
  <1>3. TypeOK'
    BY <1>1, <1>2 DEF Start, portalVars, sourceVars, TypeOK
  <1>4. StreamOK'
    BY <1>1, <1>2 DEF Start, portalVars, TypeOK, StreamOK, OneStream, PageFollows
  <1> QED BY <1>1, <1>3, <1>4

\* What the portal and the threads do without an end of the stream leaves it its session.
LEMMA PortalStep ==
    ASSUME IInv, UNCHANGED <<registryVars, page, stream, state, rows>>,
           use_x11' \in BOOLEAN, requests' \in 0 .. MaxRequests, session' \in Sessions,
           orphans' \in BOOLEAN, starts' \in BOOLEAN, overlapped' \in BOOLEAN,
           picture' \in {"none", "asked", "made"}, asking' \in Asking,
           aborted' \in {"no", "session", "streams", "crashed"},
           stream # None => use_x11' \/ session' # "none"
    PROVE  TypeOK' /\ ProviderOK' /\ StreamOK'
  <1> USE DEF IInv
  <1>1. RegistryTypeOK' /\ ProviderOK'
    BY RegistryUnchanged DEF TypeOK
  <1>2. TypeOK'
    BY <1>1 DEF TypeOK
  <1>3. StreamOK'
    BY DEF registryVars, StreamOK, OneStream, PageFollows
  <1> QED BY <1>1, <1>2, <1>3

\* A thread finds what was there when it was asked to, unless it was dropped since.
LEMMA SourceStep ==
    ASSUME IInv, [Next]_vars
    PROVE  SourceOK'
  <1> USE DEF IInv
  <1>1. CASE UNCHANGED <<session, asking, overlapped, aborted>>
    BY <1>1 DEF SourceOK, SessionThere
  <1>2. CASE Running /\ RegistryNext /\ ItemsChanged
    BY <1>1, <1>2 DEF ItemsChanged, windowVars, portalVars, sourceVars
  <1>3. CASE SinkFails \/ SinkCloses \/ SinkPlays \/ StopClicked
    BY <1>1, <1>3 DEF SinkFails, SinkCloses, SinkPlays, StopClicked, SinkChanges, portalVars
  <1>4. CASE SourceAsked
    BY <1>4 DEF SourceAsked, Elsewhere, portalVars, SourceOK, SessionThere, StreamOK
  <1>5. CASE SessionSought
    BY <1>5 DEF SessionSought, Aborts, Elsewhere, portalVars, SourceOK, SessionThere
  <1>6. CASE StreamsSought
    BY <1>6 DEF StreamsSought, Aborts, Running, Elsewhere, portalVars, SourceOK, SessionThere
  <1>7. ASSUME NEW p \in Peers, RowActivated(p) PROVE SourceOK'
    BY <1>1, <1>7 DEF RowActivated, AskPortal, Start, portalVars, sourceVars
  <1>8. CASE ScreencastCreated
    BY <1>8 DEF ScreencastCreated, Drops, Portal, SourceOK, SessionThere
  <1>9. CASE ScreencastStarted \/ DroppedStarted
    BY <1>9 DEF ScreencastStarted, DroppedStarted, Portal, SourceOK, SessionThere
  <1>10. CASE SessionClosed
    BY <1>10 DEF SessionClosed, SinkChanges, Drops, Portal, SourceOK, SessionThere
  <1>11. CASE UNCHANGED vars
    BY <1>1, <1>11 DEF vars, windowVars, portalVars, sourceVars
  <1> QED BY <1>2, <1>3, <1>4, <1>5, <1>6, <1>7, <1>8, <1>9, <1>10, <1>11 DEF Next

LEMMA OthersStep ==
    ASSUME IInv, [Next]_vars
    PROVE  TypeOK' /\ ProviderOK' /\ StreamOK'
  <1>1. CASE RegistryNext /\ ItemsChanged
    <2>1. RegistryTypeOK' /\ ProviderOK' /\ UNCHANGED discover
      BY <1>1, RegistryStep DEF IInv, TypeOK
    <2>2. TypeOK'
      BY <1>1, <2>1 DEF ItemsChanged, windowVars, portalVars, sourceVars, IInv, TypeOK
    <2>3. StreamOK'
      BY <1>1, <2>1 DEF ItemsChanged, windowVars, portalVars, IInv, StreamOK, OneStream, PageFollows
    <2> QED BY <2>1, <2>2, <2>3
  <1>2. CASE SinkFails \/ SinkCloses \/ SinkPlays \/ StopClicked
    BY <1>2, SinkStep DEF SinkFails, SinkCloses, SinkPlays, StopClicked, portalVars, IInv, TypeOK
  <1>3. CASE SourceAsked \/ SessionSought \/ StreamsSought
    <2>1. /\ UNCHANGED <<registryVars, page, stream, state, rows, portalVars>>
          /\ picture' \in {"none", "asked", "made"} /\ asking' \in Asking /\ overlapped' \in BOOLEAN
          /\ aborted' \in {"no", "session", "streams", "crashed"}
      BY <1>3 DEF SourceAsked, SessionSought, StreamsSought, Aborts, Elsewhere, Asking, IInv, TypeOK
    <2> QED BY <2>1, PortalStep DEF portalVars, IInv, TypeOK, StreamOK
  <1>4. ASSUME NEW p \in Peers, RowActivated(p) PROVE TypeOK' /\ ProviderOK' /\ StreamOK'
    <2>1. CASE AskPortal
      <3>1. requests' \in 0 .. MaxRequests
        BY <2>1, RequestsAssumption DEF AskPortal, IInv, TypeOK
      <3> QED BY <2>1, <3>1, PortalStep DEF AskPortal, sourceVars, IInv, TypeOK, StreamOK
    <2>2. ASSUME NEW s \in {"connecting", "error"}, Start(p, s)
          PROVE  TypeOK' /\ ProviderOK' /\ StreamOK'
      BY <1>4, <2>2, StartStep DEF RowActivated
    <2> QED BY <1>4, <2>1, <2>2 DEF RowActivated
  <1>5. CASE ScreencastCreated
    <2>1. requests' \in 0 .. MaxRequests
      BY <1>5, RequestsAssumption DEF ScreencastCreated, IInv, TypeOK
    <2>2. starts' \in BOOLEAN /\ overlapped' \in BOOLEAN
      BY <1>5 DEF ScreencastCreated, Drops, IInv, TypeOK
    <2> QED BY <1>5, <2>1, <2>2, PortalStep DEF ScreencastCreated, Portal, Sessions, IInv, TypeOK, StreamOK
  <1>6. CASE ScreencastStarted \/ DroppedStarted
    <2>1. starts' \in BOOLEAN /\ use_x11' \in BOOLEAN /\ (use_x11 => use_x11')
      BY <1>6 DEF ScreencastStarted, DroppedStarted, IInv, TypeOK
    <2>2. Portal /\ session' \in Sessions /\ UNCHANGED <<requests, orphans, overlapped>>
      BY <1>6 DEF ScreencastStarted, DroppedStarted, Sessions, IInv, TypeOK
    <2>3. session # "none" => session' # "none"
      BY <1>6 DEF ScreencastStarted, DroppedStarted
    <2> QED BY <2>1, <2>2, <2>3, PortalStep DEF Portal, IInv, TypeOK, StreamOK
  <1>7. CASE SessionClosed
    <2>0. /\ starts' \in BOOLEAN /\ overlapped' \in BOOLEAN /\ UNCHANGED <<use_x11, requests>>
          /\ session' \in Sessions /\ orphans' \in BOOLEAN
      BY <1>7 DEF SessionClosed, Drops, Sessions, IInv, TypeOK
    <2>1. CASE stream = None /\ Portal
      BY <2>0, <2>1, PortalStep DEF Portal, IInv, TypeOK, StreamOK
    <2>2. CASE SinkChanges("disconnected")
      BY <2>0, <2>2, SinkStep
    <2> QED BY <1>7, <2>1, <2>2 DEF SessionClosed
  <1>8. CASE UNCHANGED vars
    BY <1>8, PortalStep DEF vars, windowVars, portalVars, sourceVars, IInv, TypeOK, StreamOK
  <1> QED BY <1>1, <1>2, <1>3, <1>4, <1>5, <1>6, <1>7, <1>8 DEF Next

LEMMA Step == IInv /\ [Next]_vars => IInv'
  BY OthersStep, SourceStep DEF IInv
-----------------------------------------------------------------------------
(* The theorems *)

LEMMA Inductive == Spec => []IInv
  BY InitIInv, Step, PTL DEF Spec

\* Every variable keeps its type.
THEOREM TypeCorrect == Spec => []TypeOK
  <1>1. IInv => TypeOK
    BY DEF IInv
  <1> QED BY <1>1, Inductive, PTL

\* No sink runs that the window does not follow.
THEOREM AlwaysOneStream == Spec => []OneStream
  <1>1. IInv => OneStream
    BY DEF IInv, StreamOK
  <1> QED BY <1>1, Inductive, PTL

\* The page shows the stream, or the list when there is none.
THEOREM PageAlwaysFollows == Spec => []PageFollows
  <1>1. IInv => PageFollows
    BY DEF IInv, StreamOK
  <1> QED BY <1>1, Inductive, PTL

\* A search and a stream exclude each other, and one of them is on while the device is ready.
THEOREM SearchAlwaysFollows == Spec => []SearchFollows
  <1>1. IInv => SearchFollows
    BY DEF IInv, StreamOK, ProviderOK, SearchFollows
  <1> QED BY <1>1, Inductive, PTL

\* Every peer that has shown its information elements is a row.
THEOREM PeersAlwaysListed == Spec => []PeersListed
  <1>1. IInv => PeersListed
    BY DEF IInv, ProviderOK, PeersListed, Rows
  <1> QED BY <1>1, Inductive, PTL

\* A stream that asks for its picture finds a session, unless it is dropped meanwhile.
THEOREM SessionAlwaysThere == Spec => []SessionThere
  <1>1. IInv => SessionThere
    BY DEF IInv, SourceOK
  <1> QED BY <1>1, Inductive, PTL
=============================================================================
