# Verification of GNOME Network Displays

TLA+ models of the parts of this program that are driven by events nobody can
order in a test: the discovery of devices and services, the list of sinks, the
Chromecast session, the Miracast session with its RTSP set-up and its media, the
window and the process of a stream. TLC checks small instances, TLAPS proves the main
results for every value of the constants. `PROJECT.json` is the index: components, runs,
the source lines behind each definition, hazards, findings and theorems.

    tlc -workers 2 -config Cast.cfg CastSession.tla     # a run: <name>.cfg of its module
    tlapm CastSession_proofs.tla                        # the proofs of a component

## 1. Inventory

Three programs share one library (`src/src`). The application shows a window and
streams in its own process. The daemon exports the list of sinks on D-Bus and starts a
systemd unit for each stream. The stream program, in such a unit, turns a URI back
into a sink and streams to it. `src-windows` is a separate port in C#.

| Component | State | Operations | Talks to | Hard behaviour |
|---|---|---|---|---|
| Meta provider, meta sinks (`nd-meta-provider.c`, `nd-meta-sink.c`) | providers, listed meta sinks, the sinks and the current sink of each | sink added/removed, provider plugged in/out, discover on/off | discovery providers (signals in), window and daemon (signals out) | merges, arrival orders, references, loops that listeners see half-way |
| Window list model (`nd-sink-list-model.c`), D-Bus export (`nd-manager.c`) | copies of the list | follow the signals | GTK, D-Bus clients | staleness |
| Chromecast sink (`nd-cc-sink.c`), control (`cc-ctrl.c`), TLS (`cc-comm.c`), media server (`cc-http-server.c`, `cc-media-factory.c`) | sink state, session state, connection, timer, server, pipeline | start, stop, messages of the receiver, ping, requests for the stream | receiver over TLS and HTTP; each other by callbacks | callbacks that re-enter, failing writes, stop at any point |
| Wi-Fi Direct sink, MICE sink (`nd-wfd-*-sink.c`), firewall (`nd-firewalld.c`) | sink state, pending calls, link, RTSP server, client | start, its asynchronous answers, stop, loss of the link | NetworkManager and firewalld (D-Bus), RTSP server (signals from another thread) | two threads without a lock, answers after a stop, error paths |
| RTSP client (`wfd-client.c`), server (`wfd-server.c`) | set-up state, parameters, timers, session | M1 to M5, keep-alive, expiry | sink over RTSP; main loop by idles | two threads, answers that are not matched to requests |
| Daemon (`nd-manager.c`, `daemon/`) | exported list, systemd proxy | StartStream, StopStream | meta provider, systemd | partial failure, a proxy that vanishes |
| Stream process (`stream/`, `nd-pulseaudio.c`) | portal session, audio, sink | open, portal answers, signals | portal, PulseAudio, sink | four asynchronous sources |
| Window (`nd-window.c`) | page, stream, portal session | activate a row, stop, answers of the portal | list model, sinks, portal | a sink that fails inside its start, sessions that overlap |
| Discovery of services (`nd-cc-provider.c`, `nd-wfd-mice-provider.c` with Avahi; `nd-sd-*` with systemd-resolved) | own sinks, subscription, pending resolutions | services are added, removed, resolved; the subscription is lost and taken up | Avahi, systemd-resolved, meta provider, own sinks | late answers, missed removals, a service that goes during its stream |
| Wi-Fi Direct discovery (`nd-wfd-p2p-provider.c`), device registry (`nd-nm-device-registry.c`) | provider, search, peers; devices | devices and peers come, change and go | NetworkManager, meta provider | search against stream, peers seen in parts |
| Parameters and codecs (`wfd-params.c`, `wfd-video-codec.c`, ...), media (`*-media-factory.c`) | parameters, selection, pipeline | look for elements, parse, select, describe, configure | RTSP client and server, GStreamer | widths, missing parts, two threads |
| URIs (`nd-uri-helpers.c`), widgets, dummy sinks | none of their own | format, present, pretend | | |
| Windows port (`src-windows`) | devices, sessions | discovery, cast, RPC | Windows services | C# tasks, a second RTSP state machine |

What makes each correct: the *list* shows each visible device once, with its best
sink; a *session* that ended leaves nothing that trips the next, a stopped one stays
stopped, one that waits does not wait for ever; the *set-up* performs its exchanges in
order and on known parameters; *listeners* never show stale data.

The repository has no tests. Its claims are assertions, comments, log messages and
API comments; the runs that expect a violation quote them.

## 2. Modules

| Module | Models |
|---|---|
| `MetaProvider` | meta provider, meta sinks, list model, D-Bus export, the discover property |
| `DeviceDirectory` | what the meta provider promises: the abstract specification it implements |
| `ServiceProvider` | the four providers of sinks that are announced as services |
| `P2PRegistry`, `NdWindow` | the registry with its Wi-Fi Direct provider; the window on top of it |
| `SinkLife`, `NdSink` | what a sink may do: the abstract specification the sinks implement |
| `CastSession` | Chromecast sink, control, TLS connection, media server and the receiver |
| `WfdSink` | Wi-Fi Direct or MICE sink with its two threads |
| `WfdHandshake` | RTSP client of the source: M1 to M5, idles, timers, session |
| `MediaFactory`, `WfdMedia` | the choice of elements; parameters, selection and pipeline |
| `NdStream`, `NdManager` | the stream process with portal, PulseAudio and signals; the daemon that starts and stops it |
| `MCMetaProvider`, `MCServiceProvider`, `MCNdWindow`, `MCWfdMedia` | instances for TLC |
| `*_proofs` | the theorems of each |

How they compose: `NdManager` extends `NdStream`, `NdWindow` extends `P2PRegistry`,
`WfdMedia` extends `MediaFactory`. `CastSession` and `WfdSink` implement `NdSink`, whose
moves are the ones `ServiceProvider` lets its sinks make. What the providers list is what
`MetaProvider` takes in (`SinkFound`, `SinkLost`). `NdStream` and `NdWindow` see a sink
from outside, with coarser states: "connecting" is any state of `Waiting`.

### MetaProvider

GObject signals are synchronous calls on the main loop, so a signal and everything it
causes is one action: `SinkFound`/`SinkLost` contain `SinkAddedCb`/`SinkRemovedCb` of
the meta provider and the updates of both listeners. The loops of `add_provider` and
`remove_provider` take one step per sink (`todo`), because each iteration is visible
to the listeners. A meta sink is a number in order of creation, which is the order
of the list.

A reference to a meta sink leaks on every removal of a sink (`leaks`, saturated at
2). It matters: a merge drops the list's reference and goes on using the object, which
survives only thanks to leaked references. If it does not survive, the outcome is
either that its children are lost silently or that the process dies (`aborted`). In
the window, one more reference is lost with the row (`Window`).

### CastSession

All of it runs on one main loop, and functions call each other back: a failed write
ends the stream, which finishes the session, which writes. `stack` is the C stack, a
frame per function or rest of a function, innermost first. Each frame is an action
(`Finish`, `FinishApp`, ...), so link failures can occur between any two writes.
`MainLoop` actions need an empty stack. Values of `ctrl` are those of `CcCtrlState`,
because the code compares them with `>=`.

The receiver (`rxApp`, `loaded`) answers requests and does things of its own
(`AppChanges`, `ReceiverSays`): it is external, modelled from the messages the code
handles. Timers are enabled whenever they are installed. A ping that succeeds changes
nothing and is left out. A pipeline starts or fails. Of the framing of records what is left
is that a header which arrives short or not at all ends the reading, on a link that works
as on a dead one (`ReadEnd`): the source is gone, nobody is told, and the connection stays.
Lengths are left out, and so is a body that is not there yet, whose length is then taken to
be -1, which ends the process.

`stray` has the media servers that answer requests and are known to nobody. One whose
pointer was overwritten plays the pipeline of the sink ("own") until that is finalized
("freed"); one started after that has a pipeline of its own ("late").

### WfdSink

`stop_stream_int` is called by five functions, on two threads. It is cut into frames
(`todo[t]`), between which the other thread runs: cancel, disconnect the client, purge
the server, drop the link, set the state. `DoubleFree` is what two threads in the
same frame may do. Everything else of a handler is one step. The order of the frames
differs between the two kinds of sink (`kind`, `StopThen`).

`firewall` and `activation` count calls that were not cancelled: a cancelled call has
an answer that the code drops, so it is no longer in the count.

`tv` says that the TV is connected to the RTSP server of the session. It goes with the
server when that is purged, and not before. `orphan` says the same of a server that the sink
has forgotten: a start over an existing network that fails late drops its reference with the
port open and the handler connected, a TV that comes brings the sink back from ERROR, and the
stop that follows finds no server to purge. That is what `NoLeftovers` leaves out for MICE and
`NobodyConnected` finds.

`overlapped` is a history variable: handlers of the two threads were interleaved at
least once. The safety properties speak of runs without overlap; with an overlap the
code promises nothing: `g_assert (self->server == NULL)` (`nd-wfd-mice-sink.c:506`) fails after
one (`ServerAsserted` in a run). The overlaps are still explored, and `Settles` holds for
them, too.

### WfdHandshake

The thread of the RTSP server handles what the sink sends (`HandleResponse`,
`HandleOptions`, `HandleSetup`) and queues idles. The main loop runs idles and timers,
each in two steps: set `init_state`, send. Answers return in the order of
requests, and the code does not look at what is answered. `asked`, `early`, `sent`,
`answered` and `parsed` are history. `early` says that the sink set up a session
before it was told to, which touches other states of the set-up.

Time is abstract. The keep-alive (25 s) comes at any time at which the last one was
answered and the idles have run; `Expire` (30 s) comes only when the session was not
touched since the last keep-alive, or has no keep-alive.

### NdSink and SinkLife

Those who use a sink know it by `notify::state` alone. `Moves(kind)` lists the changes they
may see: how a session starts, gets on, fails and stops, and `Revives`, what it should not
do but does. A Chromecast sink that has failed or was stopped may show STREAMING, as its
server outlives the session and is still fetched from. A MICE sink whose start has failed
may go on to WAIT_STREAMING. A Wi-Fi Direct sink does neither. Neither of the first two
reports an error after its start. The promise ends when handlers of two threads have been
interleaved (`apart`).

`ImplementsSink` says that `CastSession` and `WfdSink` implement this, with the sink's own
state as the mapping; a state the code sets and overwrites within one handler is one change.

### ServiceProvider

`kind` picks the implementation. The two for systemd-resolved belong to a network
device (`DeviceConnected`, `DeviceDisconnected`), subscribe on a connection of their own
(`link`) and take it up again (`retries`) after some errors; after others they hear
nothing any more and know it not ("deaf"). The two for Avahi are there from the start and
treat a service alike.

`address` and `notes` are the network: what is announced, and the notifications on their
way. A new subscription reports what is announced and never what went in between. A browser
asks for any protocol, so a service may be reported over two (`both`), and the notice that it
is gone from one of them ("fewer") is handled like its removal: nothing tells them apart. A
resolution is asked for and answered in two steps, in any order (`resolving`), and nothing
cancels it. The request itself may fail. An Avahi resolver whose answer repeats a known sink
is not freed and goes on watching ("watching"): it may list the sink again when the address
changes, and no property counts on it. Of an answer with several addresses one is kept:
`Extracted` says which.

A provider that is dropped leaves callbacks behind (`stale`): the idle source of a
reconnection holds no reference and is not removed, nor is the handler of a Chromecast sink
that waits for its removal. When one runs (`StaleCallback`), the process may end (`crashed`).

`waits` and `idle` are the deferred removal: a handler on the state of the sink, then an
idle source, which removes the sink whatever has happened by then. `stray` and `lost` are
history. A service is lost when a step (a resolution that failed or was not made, a late
removal, a removal over one of two protocols) leaves nothing that would list it
(`Forsaken`), until it is announced again or an answer lists it. A stray is a sink that
missed its removal, in one of three ways: it was resolved too late, it went while the
subscription was down, or another sink of its name was removed in its place.

### P2PRegistry and NdWindow

One Wi-Fi Direct device with its peers. The provider is a record: whether it searches,
which peers it lists and which it only watches until they show their information
elements. `add_p2p_provider` keeps a reference nobody drops, so a provider the registry
drops goes on listening to its device (`leaked`), with the value of `discover` it had.

`NdWindow` has the four pages, the stream and the portal's session. The setter of
`discover` reaches the provider at once, so starting a stream stops the search in the
same step. `session` may be overwritten by a second one, and the first one's end still
stops the stream (`orphans`), as the failed start of one that was overwritten or closed still
chooses X11 (`starts`).

A sink asks for its picture on the thread of its RTSP client, in steps between which the main
loop runs: whether it is X11 (`SourceAsked`), the session (`SessionSought`), its streams
(`StreamsSought`). `asking` is how far it got, `picture` what became of it. `overlapped` is
history of the request under way: the session went while the thread looked for it. Without a
session the process ends with `g_error`; with one that is freed while it is read, anything may
happen.

The automatic connection is `ItemsChanged`: it never gets past
its first line (see Findings). The window's sinks are Wi-Fi Direct ones; a revived
Chromecast or MICE sink has lost its window, which has let go of its state by then.

### MediaFactory and WfdMedia

`MediaFactory` has the two tables of profiles in their order, the lookups and what the user
is asked to install. `WfdMedia` follows a program with an installation, that of a user
who installs one of what is named and tries again. For some installations (`Followed`) it
goes on to the stream: `wfd_params_from_sink` takes one step per line, on the
thread of the RTSP server, `SetParams` describes the selection on the main loop in between,
`Configure` sets the pipeline. Ports and levels keep the width of their field. The tables of
modes are left out: the selection is Full HD whatever the sink offers, so no behaviour depends
on another entry.

### NdStream and NdManager

`NdStream` is one process: the callbacks of the portal (`ScreencastCreated`,
`ScreencastStarted`, `SessionClosed`), PulseAudio, whose initialisation runs on its own
thread and returns to the main loop in `PaInitialised`, and the signals, each sent, then
handled. The sink is seen from the outside: it starts, may ask for its media, and ends.
It asks in two steps (`MakeVideo`, `MakeAudio`), as the thread of an RTSP client does,
between which the main loop runs. `quit` tells a request to quit that came from another
thread (`asked`) from one the main loop will look at (`seen`): `g_application_quit` sets
a flag and wakes up nobody.

`app = "crashed"` stands for a failed assertion, `g_error` or the use of freed memory;
what freed memory holds is a choice. `stuck` stands for the waits in
`nd_pulseaudio_unload`, which nobody wakes up.

Unloading the null sink is a request that PulseAudio may refuse (`pa = "refused"`) and that may
not be made, or be cancelled, because the context has failed (`~ alive`). The code logs it at
most and goes on, so the process ends in good order and the null sink stays (`Requested`).

`NdManager` extends it with the daemon. It follows one sink and its unit: a new process
is started when the last one has exited, systemd refuses a unit that runs or has
failed. The null sink (`module`) belongs to PulseAudio and outlives a process. Whether
`start_stream` could return no sink is left out: a sink made from a URI is not started.

## 3. Runs

| Run | Expected | What it shows |
|---|---|---|
| `MetaDistinct` | pass | Devices whose sinks agree on their addresses. Every visible sink is offered (`Complete`), both listeners follow at every step (`ListenersFollow`), a device keeps its meta sink and thus its stream unit (`IdentityStable`), the whole implements `DeviceDirectory`. |
| `MetaBridge` | pass | A MICE sink that shares one address with a Chromecast and one with a Wi-Fi Direct sink. De-duplication (`DeDuplicated`), a usable current sink (`Usable`), no stale sinks (`NoStrangers`). |
| `Discovery` | pass | For all four providers: what keeps a sink whose service is gone (`NoGhosts`), that an announced service is listed or on its way, unless a named step lost it (`Found`), and that a stream is not taken off the list (`StreamsKept`). |
| `Window` | pass | One stream at a time, which the window follows (`OneStream`, `PageFollows`); the search runs exactly when it may (`SearchFollows`); every peer is a row (`PeersListed`); a stream that asks for its picture finds a session, unless that goes while its thread looks for it (`SessionThere`). |
| `Cast` | pass | `Restartable`, `SourcesConnected`, `SendersConnected`, `RecursionNeedsDeadLink`, `LoadedServed`, `NothingLeftPlaying`, the life of a sink (`ImplementsSink`), and `Settles`. |
| `CastRestart` | violation | The assertion on the control state (`cc-ctrl.c:597`) fails on a start after an error. |
| `Miracast` | pass | For both kinds of sink, with the order of stopping and the error paths of each: `NoLeftovers`, `PendingExpected`, `Served`, while the threads do not overlap; the life of a sink (`ImplementsSink`); `Settles` always. |
| `Handshake` | pass | `InStep`, `ParamsKnown`, `SessionsLast`, `Completes`. |
| `HandshakeNoFormats` | violation | "falling back to defaults!" (`wfd-client.c:139`) is followed by a null pointer. |
| `Media` | pass | A user who installs what is named gets a stream (`Repairable`); the selection is the best of the last answer (`Selected`), profile and audio are encoded as the sink was told (`EncodedAsTold`). |
| `Stream` | pass | `FailuresNoticed`, `SourcesHaveSession`, `AudioCleanedUp` over several processes (while PulseAudio answers and does not refuse), `StopsWhenTold`. |
| `StreamSignal` | violation | "Exiting..." (`nd-stream.c:554`) is logged and the stream starts afterwards. |

Each property of a passing run has a mutant: a definition with a plausible bug (named
"Mutant of ..." above the definition it replaces) under which the run finds the
property violated. Type invariants are proved and no run repeats them.

### Bounds

- `MaxMetas` (4, 5) bounds the meta sinks created over a run. No population has
  more than two at a time, so every run has re-creations; actions that could exceed
  it are disabled before they start, never half-way. Three providers cover
  registration in every order.
- `MaxStack` (16) is deeper than any nesting without recursion: with a working
  link `RecursionNeedsDeadLink` holds at that depth. `MaxInbox` (2, 1) lets a message
  arrive behind an unread one. `MaxChanges` (1) allows one thing the receiver
  does unprompted, on top of its answers: enough for a repeated status, which starts a
  second media server, and for a takeover. The safety properties also hold with 2.
- `MaxLive` (2) allows a second asynchronous call while one is pending, which no
  reachable state has without an overlap (`PendingExpected`).
- `MaxOptions` (2, 1) covers an OPTIONS request of the sink in any state and a
  repeated one. `Formats` lists what a sink may report: usable, nothing said, none.
- `NdManager` has no bound: its state is finite, over any number of processes.
- `Discovery` has one name, as names only meet in the order of their notifications, and
  hosts with an IPv6 address and with both. One without any is like the former to Avahi, and
  like a failed request to the others. `MaxNotes` (2) lets a service go and come before either
  is heard, `Tasks` (two, symmetric) a service be asked for twice,
  `MaxSinks` (2) a name have a sink too many, `MaxRetries` (1) a reconnection be under way.
- `Window` has two peers, one to stream to and one to interfere, and is symmetric in them.
  `MaxRequests` (2) is what it takes for one session to overwrite another. One thread at a time
  asks for its picture, as there is one stream.
- `Media` covers every installation for the lookup, and one of each kind of pipeline for the
  stream. `MCDescriptors` and `MCPorts` name the edges: both profiles, unknown ones, a level
  and a port past the width of their field, equal ports, none. `MaxCodecs` (2) is the
  least for which a turn of the selection's loop matters, `MaxAnswers` (2) the least for
  which an earlier answer leaves something.

Deadlock checking is off where the process may have died or where all bounded
resources may be spent; `MetaDistinct` checks it.

### Fairness

- `CastSession`: a callback that runs returns (weak fairness of `Callback`). The main
  loop dispatches ready sources, a GLib main loop starves none of equal priority
  (strong fairness, as the stack disables them in between). A TLS handshake returns, as
  the socket does not wait for ever. A receiver that was told to load fetches the
  stream or fails; the code has no timer for it, so `Settles` depends on it. Nothing
  is assumed of users, of the link, or of spontaneous messages. A sink may therefore wait for
  ever once it is `CutOff`: its link is dead, or its messages are no longer read, of which the
  code tells nobody. The end of the process does not count as settling; the one exception is a
  server with a freed pipeline, which may end it at any request.
- `WfdSink`: a handler runs to its end. D-Bus calls answer, by their timeout if nothing
  else; strong fairness, as other handlers disable them in between.
- `NdManager`: the main loop handles a signal and ends once it has seen that it should.
  Nothing is assumed of the user, the portal, PulseAudio or the sink.
- `WfdHandshake`: both threads run, and a sink that is connected answers. A close
  excuses it.

`MetaProvider`, `ServiceProvider`, `NdWindow` and `WfdMedia` state no fairness: what they
promise is that no order of events leads astray.

## 4. Proofs

For every value of the constants that satisfies the named assumptions:

| Theorem | Result | Argument |
|---|---|---|
| `MetaProvider_proofs!AlwaysDeDuplicated`, `AlwaysUsable`, `OnlyVisible`, `TypeCorrect` | `DeDuplicated`, `Usable`, `NoStrangers`, `TypeOK` | `IInv` |
| `MetaProvider_proofs!NoBridges`, `ListenersInStep` | `NeverAmbiguous`, `ListenersFollow` if matching is transitive (`Unambiguous`) | `IInv`, `OneMatch` |
| `MetaProvider_proofs!ExportsFresh`, `DiscoverFollows` | `DisplaysFresh`, `DiscoverSynced` | own induction |
| `MetaProvider_proofs!AlwaysComplete`, `NeverAborts`, `IdentityKept` | `Complete`, no abort, `IdentityStable` if `Unambiguous` | `Covered`, `Cohesive` |
| `MetaProvider_proofs!DirectoryImplemented` | `ImplementsDirectory` if `Unambiguous` | `GroupSteps`, `HeldChanges`, step by step |
| `CastSession_proofs!TypeCorrect`, `AlwaysRestartable` | `TypeOK`, `Restartable` | own induction |
| `CastSession_proofs!SourcesAlwaysConnected` | `SourcesConnected` | `LifeInv` |
| `CastSession_proofs!SinkImplemented` | `ImplementsSink` | `SinkMoves`, step by step |
| `CastSession_proofs!SendersAlwaysConnected`, `AlwaysServed`, `NothingPlaysOn` | `SendersConnected`, `LoadedServed`, `NothingLeftPlaying` | `SessionInv` |
| `CastSession_proofs!OnlyDeadLinksRecurse` | `RecursionNeedsDeadLink` if `MaxStack >= 6` | `SessionInv` |
| `WfdSink_proofs!CleanWhenDisconnected`, `AnswersExpected`, `SessionsAreServed`, `SurvivesApart`, `ErrorsStay`, `TypeCorrect` | `NoLeftovers`, `PendingExpected`, `Served`, `Survives`, `ErrorStays` (Wi-Fi Direct), `TypeOK` | `Orderly` |
| `WfdSink_proofs!SinkImplemented` | `ImplementsSink` | `LifeInv` |
| `WfdHandshake_proofs!TypeCorrect`, `SessionsAreKept` | `TypeOK`, `SessionsLast` | `Kept` |
| `WfdHandshake_proofs!ExchangesInStep` | `InStep` | `Once`, `Staged` |
| `WfdHandshake_proofs!SetWhenKnown` | `ParamsKnown` | `Read` |
| `WfdHandshake_proofs!SurvivesUsable` | `FallsBack` for sinks with a usable format or without a word of theirs | own induction |
| `NdManager_proofs!AlwaysNoticed`, `AlwaysInSession`, `AlwaysCleanedUp`, `TypeCorrect` | `FailuresNoticed`, `SourcesHaveSession`, `AudioCleanedUp`, `TypeOK` | `IInv` |
| `NdWindow_proofs!AlwaysOneStream`, `PageAlwaysFollows`, `SearchAlwaysFollows`, `PeersAlwaysListed`, `SessionAlwaysThere`, `TypeCorrect` | `OneStream`, `PageFollows`, `SearchFollows`, `PeersListed`, `SessionThere`, `TypeOK` | `IInv` |
| `ServiceProvider_proofs!NeverGhosts`, `AlwaysFound`, `StreamsAlwaysKept`, `TypeCorrect` | `NoGhosts`, `Found`, `StreamsKept`, `TypeOK` | `IInv` |
| `WfdMedia_proofs!PortsAlwaysApart` | `PortsApart` | `PortsInv` |
| `WfdMedia_proofs!AlwaysEncodedAsTold` | `EncodedAsTold` | `ToldInv` |
| `WfdMedia_proofs!AlwaysSelected` | `Selected` | `SelectedInv`; the loop by `UpTo` |
| `WfdMedia_proofs!AlwaysRepairable` | `Repairable` | `RepairInv` |

`NeverAmbiguous`, `DisplaysFresh`, `DiscoverSynced`, `ErrorStays`, `Survives` and `PortsApart`
are proved and no longer run: other properties say more of the same behaviour.

The inductive invariants, and why the properties alone are not inductive:

- `IInv` of `MetaProvider`. De-duplication in a loop of `add_provider` needs that the
  sinks still to be added are held by nobody (`LoopOK`), and `NoStrangers` after
  `remove_provider` needs that what the provider still holds is still to be visited.
  `ListOK` adds that only listed meta sinks have children; `HeldOK` is what lets
  `SinkFound` know that a new sink is nobody's.
- `Cohesive` and `Covered` of `MetaProvider`. `Complete` speaks of a main loop that is free:
  within a loop a sink may be held by nobody, and `Covered` says that the loop is still to
  add it, or that its provider is about to go. `Cohesive` says that the sinks of one meta
  sink match each other, so that with transitive matching a new sink joins one of them and
  the merge, the only step that moves a child or could abort, never happens. The
  refinement groups sinks by device and follows `Covered` through each step.
- `LifeInv` of `CastSession`. A step of the clean-up closes the connection, so
  the timer must have gone before (`Waiting("finish_tail") => ~ ping`); the callback of
  the handshake installs timer and source, so while the handshake is pending the
  connection must be there and the running callback may only be a stop that finishes
  nothing.
- `SessionInv` of `CastSession`. What a frame finds when it runs again depends on every
  frame that ran above it. `Chains` lists the stacks of a program whose clean-ups return;
  every other stack belongs to a clean-up over a dead link (`Recursing`). `Relies` says
  what each frame needs (the connection, a state of the control, a server), and `Linked`
  what holds at each of them: nothing is loaded without a link that works. The longest chain
  has six frames, so that the bound of `OnlyDeadLinksRecurse` is what a session takes in which
  nothing fails, and `MaxStack` of the run (16) satisfies it.
- `Orderly` of `WfdSink`. For each frame of `stop_stream_int` still to do it says what
  is gone already (`Gone`), and for each state of the sink what it rests on (`Rested`).
  It holds as long as the threads did not overlap.
- `Kept` of `WfdHandshake`. A session has its keep-alive timer and was touched since the
  last keep-alive, or the answer is on its way in one of the two channels.
- `Staged` of `WfdHandshake`. An answer is taken for the awaited one whatever it answers, so
  the order of the exchanges rests on there being one at a time: each stage (`Opening`, `InM2`,
  `InM3`, `InM4`, `Closing`) says which request is in flight, what is queued and what the main loop
  has left to do. It needs a sink that asks once (`Once`). For one that goes on asking, the queries
  overlap; `Read` keeps what is left: until one of them is answered there is nothing but
  queries.
- `IInv` of `NdManager`. A start finds the session it was promised, and a null sink that
  is loaded has a known module (`Grounded`): without it a clean-up could not unload an
  adopted one.
- `LifeInv` of `WfdSink`. What a frame of a clean-up does to the state depends on who asked
  for it. It keeps who asks (`OwnCalls`), that a clean-up for an error finds a session that
  has not ended (`Failing`), and that there is one client at most (`Tuned`).
- `IInv` of `ServiceProvider`. A removal still unheard may belong to a service that is there
  again, and handling it must not lose the service: `Ordered` says that the notice of its
  return comes behind it. `Deferred` says that a sink which waits for its removal will be
  removed, `Dropped` and `Quiet` that nothing is left of a provider or a subscription that ended.
- `IInv` of `NdWindow`. `ProviderOK` says what the provider knows of the device and the
  window, `StreamOK` which page goes with which state of the stream: without the page a
  second row could be activated, `SourceOK` that the session a thread looks for was there when
  it began to, so that only an overlap can take it away.
- `ToldInv` of `WfdMedia`. `EncodedAsTold` speaks of one answer: before it, the selection is
  the default (`BeforeAnswer`), after it nothing but another one changes it, so that
  what was told and what is configured both come from it (`AfterAnswer`).
- `SelectedInv` of `WfdMedia`. `Selected` again speaks of the last answer and needs the next
  one to start from what the parameters are reset to (`Current`). What the loop over the codecs
  leaves is proved without the induction theorems of the library: `LoopExists` gives the
  function of the values after each turn, and `UpTo` is an induction over the set of
  the turns for which it has chosen the best so far.
- `RepairInv` of `WfdMedia`. A user is asked for an encoder once and then for the muxer: what was
  installed for the first question must still be there at the second.

The three runs that expect a violation show what is not so; `SurvivesUsable` says that one of
them has a single cause. Every other invariant, action property and refinement of the runs is
proved. Only model-checked: the liveness properties (`Settles` of both kinds of sessions,
`Completes`, `StopsWhenTold`), as neither fairness nor ENABLED is in reach of the prover.

## 5. Findings

With a run:

1. `CastRestart`: after an error `ctrl->state` stays ERROR, the next start asserts.
2. `HandshakeNoFormats`: a sink without a common video format crashes the source.
3. `StreamSignal`: a SIGTERM during the portal's dialog is lost, and so is every later
   one, as the signal's source is gone but not released.

Found by former runs; the definitions are still there, and naming one as the invariant (the
action property) of a configuration shows it again:

4. `ArrivalUnambiguous` (`MetaProvider`): the merge the code calls impossible
   (`nd-meta-provider.c:70`) is the normal case for a device that is found by Wi-Fi Direct
   and as Chromecast before it is found as MICE sink.
5. `StoppedStaysStopped` (`CastSession`): nothing cancels a TLS handshake; a stopped sink
   starts to stream. The same leftover trips the assertion of `cc-comm.c:217` when the sink is
   started again (`Leftover = "con"`).
6. `ServerAsserted` (`WfdSink`): `closed` on the RTSP thread against stop and start on the main
   loop.
7. `NobodyConnected` (`WfdSink`): a start over an existing network that fails late forgets its
   server with the port open (`nd-wfd-mice-sink.c:619`). A TV that connects brings the sink back
   from ERROR, the stop finds no server to purge (`:662`), and the TV stays connected after it,
   against "Stop any active streaming or connection attempt" (`nd-sink.c:136`). No two threads
   need to overlap.

Seen while modelling, in discovery and in the window:

- The automatic connection never works: `sink_list_sink_added_cb` (`nd-window.c:319`) is
  connected with `G_CONNECT_SWAPPED` (`nd-window.c:766`) and takes its arguments unswapped.
- `nd_nm_device_registry_update_has_adapters` (`nd-nm-device-registry.c:292`) is called and
  defined nowhere, so a build with systemd-resolved does not link; the default build has Avahi.
- `add_p2p_provider` takes a reference too many (`nd-nm-device-registry.c:72`): dropped
  providers live on and keep searching if they did.
- A deferred removal does not look again: a sink that was restarted, or whose service has
  come back, is removed all the same (`nd-sd-cc-provider.c:473`).
- A MICE service whose answer has no address becomes a sink without one.
- A subscription that could not be made, or hung up, is not tried again as long as its device
  stays connected.
- A service that is gone over one of IPv4 and IPv6 is taken off the list with the other still
  announced (`nd-cc-provider.c:287`, `nd-wfd-mice-provider.c:289`).
- An idle reconnection (`nd-sd-cc-provider.c:652`, `nd-sd-wfd-mice-provider.c:673`) and the
  handler on a waiting sink (`nd-sd-cc-provider.c:576`) run on a provider that was freed.
- An Avahi resolver whose answer is a duplicate, or which could not be attached, is leaked.
- If the portal closes its session while the thread of the RTSP client looks for it, the window
  ends with `g_error` (`nd-window.c:104` against `:402`).

In the media: Full HD is selected whatever the sink offers; the check on a level above 255
comes after a cut to 8 bits (`wfd-params.c`); RTP port 65535 gives RTCP port 0;
`rtcp_port_invalid` is never reset; the flag that would switch keep-alives off is never read;
the elements found once are remembered until the program ends, so a user who installs one must
start it again; a Chromecast row without video aborts the process if there is no audio source
either (`CreateCast`).

Also visible in the models, with no claim in the code to contradict: a stop of the
Chromecast sink recurses through `cc_ctrl_close_connection` until the write that fails
meets a state it may ignore (`aborted = "stack"` with a dead link); a Chromecast session
ended in LAUNCH_SENT leaves the application on the screen; a repeated
receiver status leaves a media server behind that uses a freed pipeline (`StrayCrash`); a
stream whose PulseAudio client failed uses it after it was freed, one that is ready sooner
than PulseAudio meets an assertion (`MakeAudio`); the unloading of PulseAudio may not return (`Unload`); a quit
asked for by the thread of the RTSP client waits for the next event of the main loop;
StartStream reports success for a unit that was refused; a receiver's message that
arrives in pieces ends the reading of a Chromecast session, which then waits for ever
(`cc-comm.c:109`); a null sink stays when PulseAudio refuses its unloading, and when its number
is not known, as number 0 is asked for then.

## 6. Not modelled, and the plan

Not modelled for good: widgets, dummy sinks (the state machines of the real ones without
their network), generated protobuf and gRPC code, JSON wording, URI helpers (formatting),
what GStreamer does with its elements, the EDID, the signalling server of MICE (it answers
nothing), Windows system wrappers.

The Windows port is a prototype: several of its operations return placeholders (launching an
application, the status of receiver and media), so that there is little yet for a property
to be about.

Planned, in this order:

1. The sink inside `NdStream` and `NdWindow` replaced by `NdSink`.
2. The framing of records with 32-bit lengths (`cc-comm.c:97`), the adaptation of the
   bitrate to the load.
3. The discovery aggregator and the RTSP client of the Windows port, when they do what they
   say.
4. Proofs of what comes with them. Of the model as it is: what a start needs to meet no
   assertion (`CtrlDisconnected`), as `SurvivesUsable` says it of the formats.
