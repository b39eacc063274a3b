# Soundnet in TLA+

Soundnet patches sound between the machines of a LAN: an engine runs on each of
them, a *route* names a source port on one and a destination port on another,
and the engines at its two ends run the halves of the pipeline (capture → roc →
network, network → roc → playback).  The engine recovers unattended: devices
vanish and return, peers restart, interfaces change, and routes have to come
back by themselves.  That recovery, and what the two ends have to agree on
without talking to each other, is what this project models.

Paths below are relative to `crates/soundnet-engine/src/` of the repository.

## 1. Inventory

| component | state it keeps | operations | talks to |
|---|---|---|---|
| route lifecycle, `routing.rs`, `state.rs` | `routes`, `running`, `failures`, one lock per route | `apply_route`, `remove_route`, `try_start`, supervisor tick, `retry_pending_for_peer`, `shutdown_all` | all below; the worker threads through stop flags and joins |
| shared capture, `pipeline/capture.rs`, `pipeline/send.rs` | a registry of device owners; per owner a roster, a command queue, a stop flag, a stall flag; the reader's own subscriber list | `subscribe`, `reopen_wider`, `unsubscribe`, `request_stop_all`, the reader's loop | called under the route's lock, or by `shutdown_all` without it |
| receive and playback, `pipeline/recv.rs`, `pipeline/fade.rs`, `audio/pcm.rs` | silence count, ramp, error budget, queue depth | one thread's loop | roc, ALSA, the stop flag |
| peer discovery, `discovery.rs` | `peers`, `manual_hosts`, failure counts | mDNS loop, liveness check, `add_manual`, `remove_manual`, port pushes | other engines' HTTP; wakes routes that wait for a peer |
| gossip, `routing.rs` 760-817 | none: fire and forget | `gossip_add`, `gossip_remove` | the far end's HTTP |
| configuration, `config.rs`, `routing.rs` 737-759 | one TOML file | `save`, `load_or_default` | called after every change |
| interface choice, `iface.rs` | the pinned name, the address in use, the mDNS registration | `set_selected`, reconciler | re-registers, then `shutdown_all` |
| control plane, `control/mod.rs` | none of its own | HTTP requests | everything |
| event stream, `control/ws.rs`, `web/src/store.ts` | one broadcast channel, a session per browser, the browser's copy of the state | snapshots and events out, commands in | everything |
| statistics pump, `routing.rs` 852-982 | previous counters | every 200 ms | reads `running` and `failures`, broadcasts |
| transport, `transport/` | roc handles, the encodings registered with a context | open, read, write, query | libroc |
| formats and windows, `audio/format.rs`, `audio/window.rs`, `audio/pcm.rs` | none | negotiation, conversion, (de)interleaving, queue depths | ALSA |
| device enumeration, `audio/devices.rs` | the table of ports | `refresh`, look-ups | ALSA; `pcm::open` by name |
| tone source, real-time scheduling, libroc binding, packaging | — | — | — |

### What is hard

* **Concurrency.**  Requests, the supervisor, discovery and the interface
  reconciler are tasks of one multi-threaded runtime over concurrent maps; every
  `await` between a look and an act is a place for another task, and a request
  whose client hangs up may never get past it.  A per-route lock covers most of
  it, not `shutdown_all`, the saves, the gossip or the events.
* **Ownership of threads.**  A worker thread that loses its handle can no
  longer be stopped and keeps an exclusive device.
* **A shared reader.**  Several routes on one card share one thread, reached
  through a queue and a flag, and that thread is replaced when a route needs more
  channels.
* **Failure everywhere.**  A device fails at the open or later; a destination
  fails while others go on; a peer's message is lost; the process is killed, the
  power goes.
* **Agreement without negotiation.**  Ports, packet encodings and lengths are
  computed at both ends from the `Route` value; the ends learn of it apart.
* **Copies.**  The file, the far end's table, the browser's picture and the mDNS
  registration are copies of a state that goes on changing while they are made.

### What makes each component correct

* Routes: never two pipelines for a half; nothing left of a removed route; the
  next open waits for the previous close; whatever happened, the maps end up
  agreeing with the configuration.
* Capture: a route that looks healthy is fed, one that left is not; the card is
  open exactly as long as somebody is on it; a reopen is not a failure.
* Playback: audio after a long absence is ramped in slowly, a pause of a present
  sender is not; the thread always stops when asked.
* Peers: a dead peer leaves the table, a manual host that answers is in it.
* Gossip: the two ends agree once a change got through; gossip dies out.
* Configuration: the file is always whole, is always this engine's, and is
  current after a save.
* Interface: selection, address in use, advertisement and senders agree in the end.
* Events: a browser's picture equals the engine's once events are through.
* Streams: what a sender sends arrives at the route's receiver and nowhere else;
  packets fit; a device is opened in a format it has; samples and channels arrive
  where they were patched.

## 2. Plan

| order | module | composes | abstract view | status |
|---|---|---|---|---|
| 1 | `RouteLifecycle` | — | `RouteService` | modelled, checked, proved |
| 2 | `CaptureDevice` | the sharing `RouteLifecycle` leaves out | `Served` | modelled, checked, proved |
| 3 | `PlaybackLoop` | one "recv" thread of `RouteLifecycle` | — | modelled, checked, proved |
| 4 | `PeerTable` | wakes the sweepers of `RouteLifecycle` | a true and complete table | modelled, checked (its properties are liveness) |
| 5 | `ConfigFile` | the saves after every change | one register, whole or absent | modelled, checked, proved |
| 6 | `RouteGossip` | the `routes` maps of several engines and their files | one register per route | modelled, checked, proved |
| 7 | `InterfaceChoice` | starts the drains | one address | modelled, checked, proved |
| 8 | `EventStream` | table, handlers, sessions, browser | a copy of the state | modelled, checked, proved |
| 9 | `StreamMath` | — | pure operators | checked, proved |
| 10 | `StreamSetup` | two engines, `StreamMath`, the table of ports | — | modelled, checked, proved |
| 11 | `RouteService` | — | it is one | refined by `RouteLifecycle`, proved |

Every safety invariant and action property the passing runs check is also a
theorem ("proved"); liveness is only model-checked.  What the plan leaves for
later: the latency figures of the statistics pump, if they ever decide anything.

## 3. Modules

### RouteLifecycle

The maps of `EngineState` as functions, the tasks as processes with a program
counter.  Each access to a concurrent map is a step; the per-route tokio mutex is
`lock`.

| code | model |
|---|---|
| `apply_route` 325-368 | `Apply`, `Insert`, then `Lock`, `Stop`, `Join`, `Clear` and the start |
| `remove_route` 709-734 | `Remove`, then the same steps up to `Clear` |
| `start_locked`, `try_start_inner` 439-660 | `Check`, `Probe`, `Evict`, `Reap`, `Retry`, `SpawnSend`, `SpawnRecv`, `StartFails`, `Commit` |
| supervisor, `retry_pending_for_peer` 662-707 | `Snapshot`, `NextRoute`, `Lock`; a sweeper's `Scope` is all routes, or those of one peer |
| `shutdown_all` 984-1025 | `FlagDevices`, `Collect`, `Drain`, `JoinDrained` |
| the worker threads | `Open`, `Exit`, `Fail`, `Vanish` |
| `record_failure`, backoff | `RecordFailure`, `BackoffElapses` |
| a handler that hyper drops at an `await` (`control/mod.rs` 141-162) | `Dropped`: `DroppedAtLock` (350, 718), `DroppedAtJoin` (353, 473, 720), `DroppedAtStart` (the awaits of `try_start_inner`), `DroppedAtDrain` (1019) |

A `Route` value is a configuration, of which the model keeps the halves this
engine runs (`Roles`).  A capture half is here a thread of its own; that several
routes share one is `CaptureDevice`.  There, too, the flagging that
`request_stop` leaves to the later join is modelled.  Devices and UDP ports are
exclusive (`Busy`), external to the code.  Any number of failures and starts can
happen; the thread ids (`Workers`) are reused, and bound only the threads alive at
once: when none is free, a spawn fails, as it does when the system has none.

The handlers of `POST` and `DELETE` await `apply_route` and `remove_route` themselves, so a
client that hangs up, or gossip that gives up after its three seconds, ends them at
whatever they wait for.  Dropped before the lock, nothing behind it happens; dropped in the join, the
blocking pool goes on joining (`pool`) but the lock is free and the rest is not done; dropped in
a start, a half already spawned loses its handle.  The sweeps are spawned tasks, which nobody
drops.  `unstopped` and `unforgotten` remember what a dropped removal has left (section 4).

### RouteService

What the users of the lifecycle may rely on, without locks, sweeps, drains or
program counters: which routes are wanted (`wanted`, the configuration), which
are on their way out (`removing`), and which half of which route with which
configuration each worker serves (`serving`).  A worker may be put on a half that
nobody serves, with a configuration the route has or had; it may be withdrawn at any
time; a removal ends when nobody serves the route, or is given up by whoever asked for it
(`abandoned`, `Abandon`), and then the next request for the route makes up for it.  `RouteLifecycle` instantiates it
(`Promise`) with a mapping of its maps and handles, and claims `ImplementsService`.

### CaptureDevice

One ALSA device, its owners (each an `Arc` with a thread), and the handles of the
routes.  The registry's mutex is a condition, `RegistryFree`: the code keeps it
across a wait only in `reopen_wider`, so every other critical section is one step.
The reader takes its whole queue at once, so of the queue the model keeps `ahead`, what the list of
subscribers becomes by it; a reader that returns loses the difference.  A subscription is a route and a slot, so
that a route's new subscription and an old handle of it can be told apart, which the code, going by
the route's name, does not.

A start has its handle before it has a place in `running` (`pc` is "commit"): `Commit` puts it there,
`LoseHandle` is the half-failed or dropped start (`routing.rs` 592-644), whose handle has no `Drop`
and unsubscribes nobody.  `Drainers` are jobs of the blocking pool that hold no route's lock: a drain of
`shutdown_all`, or the teardown of a request that was dropped, before it unsubscribed (`HangsUp`)
or while it waited for the device to close (`HangsUpJoining`).  The drain's emptying of `running` is one
step here (`Take`); its interleaving with starts is `RouteLifecycle`'s.  `lost` and `spoiled`
remember which subscriptions went astray (section 4).

### PlaybackLoop

One thread, and the world around it.  Lengths in milliseconds are numbers of
periods: the model keeps their order (`LengthsAssumption`).  `away`, `absent`
and `steady` are history, read by the properties only.

### PeerTable

The table of peers as a function from node ids to the address on record, and the world as
a function from addresses to the engine that answers there.  `Fetch` asks and
`Fetched` acts on the answer, `Ask` and `Judge` do so for the liveness check; in
between the table may have changed.  A removal and the insertion that follows it in
`check_peers_once` are one step: nothing else reads the table in a way that could tell.
So are the scan and the removals of `remove_manual`, and the entry and the first request of
`add_manual`: a record that changes inside them is as one that changed just before or after,
except that one which moves between the scan and its removal is dropped with the old one; a
goodbye has the same effect.
`Tenants` narrows which engine may be where in an instance, `Home` is an engine's
own opinion of its address.

### ConfigFile

The file as readers find it (`file`), and the set of things a power cut may leave
there (`durable`): a rename adds to it, a directory sync, if the file system has one,
empties it of the rest.  Of a file it is kept what it says and whether its data were
synced; one that was not comes back torn.  `persist` reads its fields one after another
while others change them (`Collect`), `write_atomically` is `Create`, `Write`, `Sync`, `Rename`
and `DirSync`, each of which may fail, and a save may be dropped at an `await`.  `Restore` and
`FirstRun` are `main.rs`'s start-up.  A configuration from before there were node ids
(`Legacy`) still loads.

### RouteGossip

One route in the tables of several engines, of which two are its ends.  A handler is
a record with a stage; a message is sent by a thread of its own, so that messages
between the same engines overtake each other, and is lost when its three seconds pass.
`Restart` kills an engine with everything it was doing.

### InterfaceChoice

One engine's address, and four places that have to follow it: the registration
(`advert`), the record of it that the goodbye takes (`mdns`), the saved choice, and the
address running senders were started with.  A move is a record that walks through
`SetSelected` or `Decide`, `Persist`, `Unregister`, `Register`, `Drain`; nothing but the
registration's lock keeps two of them apart.  `Stash` is the first registration's hand-over of its
daemon, which may come after moves already made.

### EventStream

One keyed part of the state, the handlers that change and announce it, and per browser
a session, the channel, and the browser's store.  The channel's buffer and the
connection are one queue of length `Buffer`, whose overflow ends the forwarding.

### StreamMath and StreamSetup

`StreamMath` has the arithmetic both ends do: `RoutePort`, `PortOf`, `EncodingId`,
`MaxPayloadForMtu`, `FramesPerPacket`, `PickFormat`, the byte layouts, `Extract` and `Scatter`,
`PlaybackDepth`, `AlsaDevice`.  16-bit additions wrap or saturate as the code's do; floats are
left out, samples are integers of the format's width.  `StreamSetup` is two engines that use it:
the source opens senders, the destination looks its port up, opens the device and binds three
ports one after another; routes change at one end first, the table of ports is
rebuilt in two halves, the destination's machine restarts and its kernel numbers the
cards anew.  Which tasks start a half and when is `RouteLifecycle`'s.

### The modules with proofs

`RouteLifecycleProofs` (with the refinement of `RouteService`), `CaptureDeviceProofs`,
`PlaybackLoopProofs`, `ConfigFileProofs`, `RouteGossipProofs`, `InterfaceChoiceProofs`,
`EventStreamProofs`, and `StreamSetupProofs` (with the arithmetic of `StreamMath`): section 5.

The `MC` modules give constants their values and define symmetry sets and the
constraint; `PlaybackLoop` needs none.  An operator whose
name ends in `Mutant` is the definition after it with a plausible fault; it is used
by nothing in the specification and shows that a property notices.

## 4. Runs

| run | properties | shows |
|---|---|---|
| `route_race` | `IInv`, `TypeOK`, `SingleWorker`, `RemovedIsStopped`, `RemovedIsForgotten`, `OpenNeverMeetsTeardown`, `ImplementsService` | two requests, which may be dropped, and the supervisor on one route with both ends here, half-failed starts: the inductive invariant, and that every step is one of `RouteService` |
| `route_settle` | `EventuallySettled`, `DeathShows`, `SweepSparesTheLiving` | a request, which may be dropped, the supervisor and interface changes; after the last request and fault the supervisor alone brings the route where it should be, unless it is `Haunted` |
| `route_stale_apply` | `EventuallyAsConfigured` | violated, see below |
| `capture_widen` | `TypeOK`, `RosterHeld`, `NobodysDevice`, `OnlyFaultsLookDead`, `Served`, `NoZombie` | two routes of any width, reopens, device and destination failures, a drain or a late teardown, a lost handle |
| `capture_refeed` | `OneEventuallyServed` | the same with one owner id and no lost handle: after the last request and fault a route is fed for good, unless the reader's list went wrong about it |
| `playback_loop` | `StopEnds`, `AbsenceIsCold`, `PauseIsSpared` | the whole loop |
| `peers_settle` | `TableSettles`, `ManualReturns` | five writers of one table, answers that come late or not at all, engines that move and change ids |
| `config_save` | `FileWhole`, `OneIdentity`, `SavedIsCurrent` | two overlapping saves, failures, dropped requests, kills and power cuts |
| `gossip_ends` | `EndsAgree`, `GossipQuiesces` | three engines, two of them the ends, messages lost and out of order, restarts |
| `interface_moves` | `MovedTogether`, `GoodbyeIsLast`, `AddressSettles` | the operator, the reconciler, the network, the first registration and the goodbye |
| `events_picture` | `PictureTrue`, `ReconnectHeals` | two handlers, a session that lags, drops and reconnects |
| `stream_setup` | `HearsOnlyTwins`, `ConflictNamed`, `TrioMeets`, `PacketsFit`, `DeviceHonest`, `SignalCarried`, `DepthWakes`, `BothEndsMeet` | two routes between two engines: ports, packets, formats, windows, cards |

`TypeOK` of the other modules holds as well: add `INVARIANT TypeOK` to the
configuration to see it.  The longest run takes about four minutes with two workers.

### Bounds

* Routes: one in `RouteLifecycle` (routes share no lock and no map entry, and the
  theorems are about any number).  Two routes on a card are the least that share.
* `route_race`: two clients, so that two changes cross, and a supervisor, since there is one; no
  drain.  `Workers = 3`: an old half and two new ones.  The configuration has both halves here, so that a start can
  fail between them.
* `route_settle`: one client, the supervisor, one drain at a time, which repeats without end;
  `Workers = 2`, both halves of the route, the first of them a capture device.  With one client the
  request, its drop and what the supervisor makes of the rest are all in it; crossed changes end as
  `route_stale_apply` says.
* Capture: `Slots = 2`, an old subscription and the current one; `Widths = {1, 2}`, enough for
  one reopen (an owner that is dropped starts over); one job of the pool at a time.
  `capture_widen`: `Owners = 2`, one that closes and one that is open; `LostAtOnce = 1`.
  `capture_refeed`: one owner id and `LostAtOnce = 0`.  A lost handle uses up a subscription id for
  as long as its device lives, and with two slots the model, not the code, would run out of
  them; with three slots, losing one only while nothing is astray and without the pool's job, the property
  held over 1 416 152 states.
* Playback: `SilenceBeforeFade = 3`, `LongAbsence = 6`, `Cold = 5`, `MetricsEvery = 2`,
  which keep every order of the code's 500 ms, 5 s, 2 s and 200 ms and let the
  sender go at each place of the cadence.  `silent` and `away` stop at the last value
  that is told apart.  `BufferPeriods = 4`, `DeviceDepth = 3`: the governor asks for
  more than the device has.
* Peers: two ids, of which both may be at one address and one at the other as well (an id
  that changes, an engine at two addresses, a wrong machine at a believed address);
  `Threshold = 2` instead of 3, so that one failure is forgiven and a second is not.
* Configuration: two savers and two fields, the least that let one save read between
  another's changes; one kill or power cut, after which `crossed` starts over;
  `MaxIds = 2`, more than `MaxCuts`, so that a first run can be cut off and repeated.
* Gossip: an engine that is no end, to pass changes on; two handlers and two
  messages at once; one specification besides "no route", so that an add and a
  removal cross.
* Interface: an interface whose lease may change and one that comes and goes, one
  change after the start (the first addresses are arbitrary), one operator next to the
  reconciler, one route.
* Events: `Buffer = 2`, so that a session lags behind two handlers; two specifications,
  so that one change can be mistaken for another.
* Streams: one route has the window its hash 0 gives, the other a window of its own (1) or
  the same one (1000, which is 0 again): `Base = 10001` is a base whose windows neither
  saturate nor wrap (what happens near the end of the range is `WindowsApart`'s premise, and
  told below).  `Wide` and `Plain` have one encoding id.  Two worlds: a link with a tunnel's MTU
  and one nobody pinned; 24-bit and 16/32-bit devices; a deep buffer and one that is not even
  two periods.  One card has an id, one has not, and the kernel may swap them.
* `playback_loop` does not check for deadlock, the thread ends; nor do `gossip_ends`,
  `events_picture` and `stream_setup`, where nothing is left to do once `calm` holds and
  everything has arrived.
* Symmetry is used in safety runs only.

### Fairness

Weak fairness of every task and thread step: the runtime polls what is ready, threads
are scheduled, and every blocking wait on a device is bounded by
`DEVICE_WAIT_TIMEOUT_MS`, every request by its timeout, the wait for the goodbye by half a
second.  Strong fairness of `Lock`: tokio's mutex serves its waiters
in order.  `BackoffElapses` is fair since time passes.  A message of the gossip arrives *or* is
given up after three seconds; that it arrives is not assumed.  A browser reconnects 1.5 s after it
lost its connection and reads what comes.  Nothing is assumed of
requests and faults: the properties speak of what follows once they cease, which the
variable `calm` marks (without it a device that fails for ever would excuse
everything).

### History variables

`EndsAgree`, `SavedIsCurrent`, `PictureTrue` and `MovedTogether` are promises the code keeps
unless two things cross: nothing orders the saves, the messages, the announcements or
the moves.  `clean` (`crossed` in `ConfigFile`) records whether that happened since the last
change that began alone; no guard reads it.  Each property therefore says, too,
that one undisturbed change heals whatever the crossing left behind.

Likewise a dropped request leaves things undone, and the exception a property makes should be just these, for
just as long as they are so.  In `RouteLifecycle`, `unstopped` are the routes whose removal was dropped on its way
to the lock, until another request comes past it or the route is configured again; `unforgotten`
those whose removal was dropped before it cleared the failure entry, until that is cleared.  `pool` is not only
history: it is what the blocking pool still joins.  In `CaptureDevice`, `lost` are the
subscriptions on the registered device whose handle was dropped, `spoiled` those for which the reader's
list is wrong, by a command lost when it returned or a late unsubscribe; both end when the device
does, or when the subscription is properly added or removed.  No guard reads them but the bound `LostAtOnce`.

### What the violated run shows

**`route_stale_apply`** — `apply_route` writes the map before it takes the lock, and
`start_locked` starts the `Route` it was given after checking only that the id still
exists.  Two changes can insert in one order and start in the other; nothing
compares afterwards, and the route runs the configuration that lost.  The comment
at `routing.rs` 432-437 wants exactly this never to happen.

### Read or seen on the way, and not kept as runs

Routes
* A route with both ends here whose second half cannot be started drops the handle of
  the first, whose thread nobody can stop any more (`routing.rs` 491-510, 629-633, against 426-430).
* A removal dropped at the lock has emptied the map already: its pipeline plays on, and its failure
  entry stays, until another request for that id comes by (`routing.rs` 715-718).  A change
  dropped there is in the map and in no pipeline: the old configuration plays on, and the
  supervisor, who finds it alive, leaves it (334-350).
* A request dropped in its join leaves the lock to others while the pool still joins, so the next open
  can meet the teardown (353, 473, 720, against 1051-1055); a removal then never clears the failure entry (722).
* A dead pipeline is shown as ok until the next sweep looks at it (`routing.rs` 920, against 909-913).
* `shutdown_all` takes no route lock, so what it still joins can be met by a
  restarted route's open: `OpenNeverMeetsTeardown` has that exception.
* "Audio never mixes" (`routing.rs` 232): of two routes in one window the second's
  receiver is refused, but its sender goes on sending to the port the first one has.
* With a base near 65535 the saturation of `route_port` squeezes windows together, and the second
  and third port of the last one leave the range; `port_conflicts` then names a route that is not
  in the way, or none.

Capture
* An `Add` still queued when `reopen_wider` stops the reader is lost; the route looks
  healthy and sends nothing (`capture.rs` 709, against 337-338).  A `Remove` is lost alike.
* A drained handle unsubscribes by name and removes the restarted route's new
  subscription (`capture.rs` 574); so does the teardown of a dropped request that the pool finishes late.
* The handle of a start that fails half way or is dropped (`routing.rs` 592-644) stays on the
  roster and is fed: the card stays open, for a route that may be gone, until a later
  unsubscribe of that name.
* The registry forgets the last route's owner before it joins it (`capture.rs` 596), so the
  next route can meet its EBUSY once, and is retried.
* A stall flag outlives the thread that raised it (`capture.rs` 732).

Playback
* The ramp armed at the open is used up by the silence before the first sender (`recv.rs` 404);
  a short gap in the long ramp replaces it by the short one (`recv.rs` 398).
* The governor asks again and again for a depth that was refused (`pcm.rs` 255).

Peers
* A pushed port list is stored with the address its sender believes in, over the one that
  answered (`control/mod.rs` 231, against `discovery.rs` 448-451).
* A host the operator removes comes back when a check that had already asked it gets its
  answer (`discovery.rs` 276).
* An id that changes at one address is announced as a disappearance only (`discovery.rs` 247-283).

Copies
* Two saves that overlap leave the file with the older collection for as long as nothing
  else is saved, although `persist` reads the live maps (`routing.rs` 739).
* A rename that fails leaves the scratch file behind (a test in `config.rs` says none is ever left).
* Gossip that crosses leaves the two ends with different routes; a request that repeats what the
  asked engine has is not passed on, so it does not repair the other; an engine that is no end and
  once passed a route on keeps its copy of it.
* `UpdateSpec` brings back a route that was removed after it cloned it.
* The late second announcement of `UpdateSpec` and the late snapshots of a rescan overwrite newer
  events in a browser.  A browser that lagged stays connected and frozen (`ws.rs` 47-75).
* A start that read the address before a move and is filed after its drain keeps the old
  address; two crossed moves may leave the registration of one with the address of the
  other; the first registration uses the address of the start, whatever was chosen since
  (`discovery.rs` 167-170).

Streams
* Encoding ids are a remainder by 27: (48000 Hz, 2 channels) and (96000 Hz, 7) are both 111, and roc
  keeps the meaning registered first.  `TrioMeets` excepts such a pair.
* A rescan while a card is in use lists it with placeholders; one that has emptied the
  table makes a route that starts meanwhile fail and wait for its retry.
* The port numbers in `main.rs` 41 are those of an earlier scheme.

## 5. Proofs

All are for any values of the constants that satisfy the named assumptions of the modules.

**`RouteLifecycleProofs`** — `TypeCorrect` (`TypeOK`), `Inductive` (`IInv`), `RemovedStops`
(`RemovedIsStopped`), `OnePipeline` (`SingleWorker`), all with requests that are dropped at any
`await`.  Neither safety property is inductive.
That two starts never both spawn needs to know
that whoever is between the check and the commit holds the lock (`LockInv`), that it has
seen `running` empty and that it still is (`StartInv`), that every handle has one owner
(`HandlesInv`), and that the halves of a pipeline differ (`HalvesInv`).  That a removed
route is stopped needs, besides, that a route deleted under a start has a removal that
is still waiting for the lock, or was dropped there (`Abandoned`) with nobody past the lock since (`RemovalInv`);
what the pool joins was asked to stop and has no other owner (`PoolInv`).  This is why `remove_route` has to empty the
map before it asks for the lock, and why `start_locked` has to look at the map again after
it got it.  The proof is one lemma per action, with one step per conjunct that it can
disturb.  The drain is in it: it takes no lock, but it only ever empties `running` and
flags what it takes.  Assumed: the three kinds of tasks are disjoint, the
sentinels are not values, and the types of `Roles` and `Scope`.

The same module proves `RemovedForgets` (`RemovedIsForgotten`), from the same invariant, and the
refinement, `Implements` (`ImplementsService`): the initial state maps to one, and every step to
a step of `RouteService` or to none.  `ServingIs` and `Owners` say what the mapping makes of a thread
and who has its handle; `ConfigKept` that its configuration never changes; `QuietStep` deals with
the steps that at most withdraw workers, `RequestStep` with those that change what is wanted, `DropStep`
with the dropped requests, of which the service sees at most an `Abandon` or a withdrawal,
`SpawnStep` with the only ones that put a worker on a half.  What the service is good for is proved of the
service: `RemovedAreGone`, after a removal that was not given up nobody serves the route, and `HalvesServedOnce`;
`PromisesKept` carries both over to every behaviour of the lifecycle.

Two more need to know who takes what down.  `LivingAreSpared` (`SweepSparesTheLiving`): whoever
is about to evict has seen the pipeline dead, or somebody else has emptied the map since
(`EvictInv`).  `TeardownFirst` (`OpenNeverMeetsTeardown`): whoever joins under the lock has
all the threads of one pipeline of that route and no other (`TeardownInv`), and a thread that was asked
to stop and has not left is waited for until it has, if only by the blocking pool (`FlagInv`; that is the one a
fire-and-forget stop would break).

**`ConfigFileProofs`** — `Inductive`, `AlwaysWhole` (`FileWhole`), `AlwaysOneself` (`OneIdentity`),
`AlwaysCurrent` (`SavedIsCurrent`).  `SaversInv` says what is in a scratch file at each step of
its save, above all that it is complete and synced before the rename.  `FilesInv` says that
everything a power cut could bring back is synced, whole and of one identity: the
old file, having no name to lose, may only be one without an id.  `SavedInv` follows an undisturbed
save field by field.  Assumed: a configuration has fields, more ids can be minted than the
process is killed, and the sentinels are not values.

**`CaptureDeviceProofs`** — `TypeCorrect` (`TypeOK`), `RosterTrue` (`RosterHeld`), `DeviceFreed`
(`NobodysDevice`), `FaultsOnly` (`OnlyFaultsLookDead`), all from `Inductive` (`IInv`), over any reopens, drains,
failures, lost handles and late teardowns.  What has to be
known of a task that waits (`TasksInv`): one that joins has taken its owner out of the registry for
good; one that reopens is the only one, keeps its owner in the registry and is on that
owner's roster, which is the mutex kept over the join.  Of an owner (`OwnersInv`): somebody
reopens it whenever it says so, and its thread has left the loop for a fault or a stop, never
otherwise.  Of a handle (`HandlesInv`): it is its route's, and whoever is about to commit has one.
`ThreadIs` says once what any step of a reading thread leaves alone; `WithdrawInv`
does the work of both kinds of unsubscribe, a route's and the pool's, which comes with
a handle that may be stale.  Assumed: widths are positive, the sentinels are not values,
and routes are not drains.

`HealthyIsServed` (`Served`) and `LeaversAreDropped` (`NoZombie`) follow from a second invariant, `Feeds`
(`FedInv`), with no condition beyond that.  Both speak of the owner in the registry only, since no
other is still read without being asked to stop (`ReaderIs`).  `LeaveInv`: whomever it feeds or is
about to feed is held by a route or the pool, or is in `lost` or `spoiled`; and so for the list it
leaves to its successor while it is reopened (`Kept`), when nobody can send it a command and the newcomer has
no handle yet.  `FeedInv`: it feeds, or is about to, every handle that was not told of a failure and is
not in `spoiled`.  `ThreadFeeds` says that the thread's own steps only ever drop from its list what they
mark as spoiled or failed; `ListKept` that a handle which leaves its route goes to the pool or astray; `NewcomerFeeds` is a subscription that comes, by either of the two ways;
`WithdrawFeeds` one that leaves, where `Straighten` has to be right about what a late or unheard `Remove` does.
TLC checked `FedInv` over the 2 525 309 states of `capture_widen` first.

**`PlaybackLoopProofs`** — `AbsenceStartsCold` (`AbsenceIsCold`) and `PausesAreSpared` (`PauseIsSpared`),
two action properties, for all lengths that keep the code's order (`LengthsAssumption`).  The code
knows only its own counters, and looks at the connection only once in a cadence; what relates
them to how long the sender was away is `IInv`: a connection believed in has been gone for less than a
cadence, and of any other the absence is counted but for the cadence it took to notice
(`CadenceInv`); a long absence is counted in full (`AbsentInv`); with a sender that is there silence
is counted only until the next look (`SteadyInv`).  TLC checked it over 853 529 states first.

**`RouteGossipProofs`** — `EndsMeet` (`EndsAgree`), for any number of engines, handlers and messages.
While nothing has crossed, either the one handler that is going to tell the ends is alone (`Telling`),
or every end has and saved the change or something that brings it there is on its way, and nothing
on its way says anything else (`Converging`).

**`InterfaceChoiceProofs`** — `GoodbyeHolds` (`GoodbyeIsLast`), `MovedTogetherHolds` (`MovedTogether`).
For the first, who registers again holds the registration's lock and has found a record
(`LockInv`), which the goodbye takes under the same lock; whoever comes later finds none.  For the
second, `CleanInv` says stage by stage of the one undisturbed move which of the places already
follow (`Done`), and `StartInv` that a start nothing has overtaken has read the present choice.

**`EventStreamProofs`** — `PictureHolds` (`PictureTrue`), for any length of the buffer.  What a
browser will show once it has read everything (`Final`) is the state, or an announcement that makes
it so is yet to come (`FreshInv`); a snapshot nothing crossed is still right (`WholeInv`).

**`StreamSetupProofs`** — first the arithmetic, for all numbers.  `WindowsApart`: with the base three
thousand and two ports below the end of the range, two routes share a port only at the same role
of the same window; `PortIs` is where the bound is needed.  `IdsInRange`: every encoding
id is one roc leaves to applications.  `PlaybackWakes`: whatever a device's buffer, a period and a
depth are, the device starts and wakes the thread.  `WindowCarried`: `extract` and `scatter` put every
channel where the route says and silence elsewhere, for all widths, offsets and lengths (`DivMod`, `PlaceIs`).
`SamplesSurvive`: every sample of an integer format is read as it was written, byte by byte.
`FramesAre`: halving a power of two ends at a divisor that fits.  A least number of a set is found by
well-foundedness (`LeastExists`).

Then the two engines.  `IInv` says what the ends remember of the value and the world they were opened
from: a sender is `SenderFor` its present spec (`TxOk`), a receiver has bound exactly the
ports that are not left to bind, in their order (`RxOk`), the tables have the shape their
writers give them (`Shape`), and no port is bound twice (`Disjoint`).  TLC checked it over the
94 248 states of `stream_setup` before it was proved.  From it: `OnlyTwins`
(`HearsOnlyTwins`), `ConflictIsNamed` (`ConflictNamed`), `EndsOfRouteAgree` (`TrioMeets`),
`PacketsAlwaysFit` (`PacketsFit`), `DevicesAreHonest` (`DeviceHonest`), `SignalIsCarried`
(`SignalCarried`), `NobodyWaitsForRoom` (`DepthWakes`).  Assumed beyond the modules' assumptions: by
`OnlyTwins` and `ConflictIsNamed`, that the base leaves room for the windows (near the end of the
range both are false, see "Routes" above); by `PacketsAlwaysFit`, that periods are powers of two no longer
than a second (`sender.rs` 165: of another period the halves are not divisors).

Only model-checked: all liveness (`EventuallySettled`, `DeathShows`, `OneEventuallyServed`, `StopEnds`,
`TableSettles`, `ManualReturns`, `GossipQuiesces`, `AddressSettles`, `ReconnectHeals`, `BothEndsMeet`),
which is out of the prover's reach under fairness; with it all of `PeerTable`, whose
tables are wrong for a while by design and right in the end.

## 6. Not modelled

* The text of errors; meters, latency figures and counters; labels and the order of port lists.
* libroc, ALSA, mDNS and the HTTP and WebSocket libraries themselves: what the code relies on
  is modelled from its use (`external` in `PROJECT.json`).
* The `plughw` ports, which convert and take whatever a route asks for; float samples, which are
  copied.
* The tone source as a thing of its own: its thread starts, stops and dies as a "send" half does.
* The refusal of a route whose rate, period or format does not match the open device, and an
  explicit `--bind`, which switches the reconciler off: neither changes anything.
* The stall flag of a capture owner (`capture.rs` 732), which is shown to the user and decides nothing.
* Real-time priorities, the build, packaging, tools and the rendering of the browser interface.
* The composition of more than two engines beyond `RouteGossip`: streams are between two.
