# golocation in TLA+

A verification development kept beside the Go library `golocation`: TLA+ models of
its concurrent core, TLC configurations that check them on small instances, and
proofs that TLAPS checks for every value of the constants.

golocation gives a program the position the operating system knows. A native
provider (GeoClue on Linux, CoreLocation on macOS, WinRT on Windows) publishes
fixes, errors and statuses, from whatever thread the system calls back on, into a
service; the service admits, caches and fans them out to callers and
subscriptions. Almost everything that can go wrong is an interleaving: publishes,
subscriptions, waiters, timeouts and `Close` meeting in an order no test writes.

## 1. Inventory

| Component | State it keeps | Operations | Interacts with |
|---|---|---|---|
| Fan-out hub `fanout/adapter/chanhub` | RWMutex, map of subscriptions (three channels each), map of one-slot waiters, `closed`, `done` | Add, Remove, AddOnce, RemoveOnce, BroadcastFix/Error/Status, Close | called by the service from every goroutine; readers receive from its channels |
| Lifecycle tracker `lifecycle/adapter/atomicstate` | mutex, packed state word, pointer to the status | Set, MarkReady, State, Get | the service records statuses in it and announces what changed |
| Admission gate `admission/adapter/rules` with `geo/measure.go` | mutex, last admitted fix | Admit (Validate, IsFresh, Distance) | `PublishFix` stamps a sample, then asks it |
| Fix cache `fixcache/adapter/atomiccache` | one atomic pointer | Store, Load | written by `PublishFix`, read by Last, Current, Subscribe |
| Service `internal/core` | the four above, `closed` flag, close guard | PublishFix, PublishError, PublishStatus, Next, Current, Last, Status, Subscribe and its watcher goroutine, Close | provider below, Session above |
| Open and Session, `location.go`, `session.go`, `locator.go` | none after start-up | Open (resolve, build, start, tear down on failure), delegation | Config, service, provider |
| Configuration `config.go` | none | normalizeConfig | Open |
| Provider port and selection `provider/port`, `provider/platform` | none | one factory per build tag; the options each adapter is handed | Open |
| Retry `internal/shared/retry` | none | Do, Retryable | every provider's Start, GeoClue's reconnection |
| GeoClue provider | run context, current connection under a mutex, one goroutine with its session | Start, Stop, run, connect, session step/ping/close, redial | the bus; the service as its Sink |
| CoreLocation provider | one locked OS thread with a manager, a delegate and three queues; `stopCh` | Start, Stop, the delegate's three callbacks | the run loop; Sink |
| WinRT provider | Geolocator, two event handlers with their tokens, under a mutex; a goroutine for the access request and one for the initial position | Start, Stop, two event handlers | threads of the system; Sink |
| Clocks, errors and wire types, test doubles | none | constructors, constants | - |

**Interactions.** A provider's goroutines call the Sink (the service) and may not be
blocked by it. The service calls the gate, the cache, the tracker and the hub one
after the other, each with a lock of its own and none held between them: every
pair of steps can be separated by other goroutines. Callers of `Next` register a
one-slot channel in the hub and select on it; every subscription has a watcher
goroutine that removes it when its context ends. `Close` raises the flag, stops
the provider, which may or may not wait for callbacks under way, records Closed
and closes the hub. On Linux the provider's one goroutine makes calls to a bus,
some with the run's context, some without, and `Stop` waits for it. On macOS one
thread owns everything and the delegate's callbacks only queue; `Stop` waits for
that thread. On Windows `Start` and `Stop` work on their caller's goroutine while
handlers run on the system's threads, and `Stop` waits for none of them.

**What is hard**, and what makes each component correct:

- *Hub*: sends and closes of the same channels from different goroutines. Never a
  send on a closed channel, never a second close (both are panics); nothing stays
  registered in a closed hub; a full channel costs the right value under each drop
  policy; a reader that does not read never blocks a publisher.
- *Tracker*: two stores for one status, and racing updates. The word and the
  pointer agree; of racing updates exactly those that change the status say so, once
  each and with what they recorded; a known permission is not forgotten.
- *Gate*: unusable numbers, samples overtaking each other, a wall clock that is
  set. The baseline stays usable; fixes are admitted in the order, and the interval
  apart, in which they really arrived, as far as the clock allows; what is dropped
  as redundant was.
- *Service*: stale reads of the flag, of the cache and of the status; statuses
  recorded and announced in two steps. `Next` answers with something new, `Close`
  is complete when it returns and releases everyone, Closed is terminal.
- *Open*: whatever fails, at whatever call, and whenever the start times out, what
  was made is given back, once and in an order the system survives; Open and Close
  return.
- *GeoClue*: partial set-up, refusals, lost connections, calls nobody answers. One
  connection at most and none left behind, a refusal is final and told, a lost
  session comes back.
- *CoreLocation*: callbacks of several kinds in one turn of the run loop, published
  kind by kind, while the permission changes. What the status says of access is
  what the system last said.
- *WinRT*: a build of eight calls unwound at any of them, events registered before
  their handlers may be closed, an answer to a prompt that comes after everybody
  has stopped waiting. No handler is called that is closed, and the goroutine of the answer ends.

`PROJECT.json` lists every hazard with its line and the properties that would
catch it.

## 2. Modules

| Module | Models | Composed with |
|---|---|---|
| `ChanHub` | the hub, one action per lock or channel operation | - |
| `HubClient` | arbitrary callers of the hub, and its delivery properties | extends `ChanHub` |
| `AtomicState` | the tracker | - |
| `StatusReports` | goroutines updating the tracker, and its properties | extends `AtomicState` |
| `Admission` | stamping, validation, freshness, the gate, two clocks | - |
| `LocationService` | the service | instantiates `ChanHub` and `AtomicState` on its own variables |
| `Config` | normalizeConfig as a function | - |
| `Provider` | what the adapters share: options, Start's outcome, errors and `Retryable`, the sink | - |
| `GeoClue` | the run goroutine, its sessions, retry, the bus | extends `Provider` |
| `CoreLocation` | the locked thread, the delegate's callbacks and queues, the authorization | extends `Provider` |
| `WinRT` | Start and Stop call by call, the two goroutines, the event handlers, the system's status | extends `Provider` |
| `Open` | Open and Close around the provider of the platform | extends `GeoClue`, `CoreLocation`, `WinRT` and `Config` |
| `ChanHubProofs`, `StatusProofs`, `AdmissionProofs`, `ServiceProofs`, `OpenProofs` | theorems | extend the component; `ServiceProofs` instantiates `ChanHubProofs` too |
| `HubClientProofs` | theorems on delivery by the hub | extends `HubClient` and `ChanHubProofs` |
| `DeliveryProofs`, `CurrentProofs` | theorems on what callers and subscriptions of the service receive | `DeliveryProofs` extends `ServiceProofs`, `CurrentProofs` extends `DeliveryProofs` |
| `MCHub`, `MCStatus`, `MCAdmission`, `MCService`, `MCOpen` | instances for TLC | extend the component |

Definitions marked "a fault" stand in front of the definition they would replace:
each is a bug the code could plausibly have, and for every property of every
passing run one of them makes that property fail (`mutants` in `PROJECT.json`).

### How state and actions correspond to the code

**ChanHub.** `subs`, `waiters` are the maps; `ends` says for each registration
whether its channels are unmade, open, closed or were refused; `chan` is the
contents per subscription and kind, `event` that of a waiter. `writer`, `readers`,
`blocked` and the steps `lock`/`drain`/`locked` are Go's RWMutex: a writer that has
announced itself keeps later readers out and waits for earlier ones. A broadcast
is: take the read lock, visit the entries in any order (a Go map has none), and at
each one try to send; on a full channel DropNewest stops, DropOldest discards one
value and tries once more, three steps another reader-lock holder or the
subscriber can come between. Closing walks the map entry by entry under the write
lock. `HubSpec` is the hub with every call it could get.

**AtomicState.** `word` and `status` are the two atomics, `mu` the mutex, `update`
what the goroutine inside the mutex is about to store; storing the word and
storing the pointer are two steps.

**StatusReports.** `PublishStatus` calls Set at once. `announceReady` is three
steps: `Look` reads the state without the lock, and only a goroutine that found it
not Ready goes on, in `AnnounceReady`, to MarkReady, by when another may have been
there first; `Return` looks at the flag the call came back with. `looked` is who
is between the first two; `told` counts the updates that returned as changed and
`announced` is the status the last of them returned.

**Admission.** `elapsed` is the time that really passes and `elapsed + offset` what
`time.Now` shows, because `Time.UTC()` strips the monotonic reading and both
timestamps of a fix are therefore wall time. `call` is the sample between its
stamping and the gate. `setBack` and `setForward` remember which way the clock has
been set, `arrived` and `lastArrived` when samples really came; the code sees none
of these. Positions lie on a line.

**LocationService.** `at[g]` is where goroutine `g` is in a method of the service;
while it is inside the hub or the tracker their variables move it. Fixes are
numbers in the order of admission, the gate's verdict is a choice. `stopWaits`
says what kind of provider is attached: one whose Stop waits for its publishes
(GeoClue, CoreLocation), or one whose Stop does not (a WinRT callback past its
check). Three variables are history, kept by `Hear` beside every step and read by no
action: `told`, the last status put into a subscription's channel; `outdated`,
whether the status it was primed with was no longer on record when it was
registered; `crossed`, whether two goroutines have announced a status at once.

**Open.** `platform` is the build tag, `caller` where the goroutine in Open or Close
is. Each adapter's variables belong to its module and move only on its platform.
`opts` holds what an adapter branches on of the options it is handed: whether to
ask for permission, whether a threshold is set, whether to reconnect. The service
appears as its `closed` flag (`shut`) and its status; its own steps are
`LocationService`'s subject. A publish of GeoClue or CoreLocation is one step,
because Stop waits for the goroutine that makes it; one by a Windows handler is
two, the check of the flag and the update, for Close may come in between. What the
gate decides of a fix is a choice, and so is each failure of a system call.

**GeoClue.** `pc` is the line of the run goroutine. `open` is the set of bus
connections that exist, `held` is `b.conn`, `target` what Stop read of it under the
lock. `bus` says how calls fare: at first they may succeed, fail or find the
connection dead; then the service may be well for good, or silent, in which case a
call returns only if its context is done or its connection dies. The daemon itself
always answers; authentication may even succeed on a connection that is already
dead, whose next call then finds out. Errors carry the D-Bus name, the sentinel `mapGeoClueError` joins
to it, and the temporary flag `Retryable` reads.

**CoreLocation.** `thread` is the line of the locked thread: set-up, then turns of
the run loop. `made` and `listening` are the objects and whether the manager has
its delegate, `queues` the three queues. Within a turn the environment calls the
delegate; `authorization` is what the system grants, `changed` whether the delegate
has yet to be told. Giving a session back is one step, since no other thread can
reach it. `newest` records the kind of the last callback for `StartingIsWaiting`.
That the delegate hears of a denial by an error only while the authorization is a
refusal is an assumption about the system, not a check in the code.

**WinRT.** `line` is where the caller is in Start or Stop, `rest` the calls of
`buildLocator` still to be made, or what an unwinding has still to give back;
`owned` the objects that live and the events that are registered, `stuck` events
whose removal failed. `asker` and `access` are the goroutine of the access request
and the answer, `awaiting` the goroutine of the initial position, `passed` and
`event` the callbacks between their check of the flag and their update, `os` the
status the system has. `passed` holds one thread of each kind, an event's handler and the
goroutine of the initial position: several handlers past the check at once count as
one, and another may pass after it.

**Config.** Every field of `Config` except the derived desktop name; a field at
zero is unset. `Defaulted` are the fields the code fills in. Durations are whole
seconds.

## 3. Runs

| Run | Question | Instance |
|---|---|---|
| `hub_locking` | Can any interleaving of broadcasts, registrations, removals and two Closes panic, leave something registered, or miss a waiter? Can two racing DropOldest sends waste a slot? | 2 broadcasters with 1 broadcast each, 1 subscription of 1 slot, 1 waiter, 2 closers, symmetry |
| `hub_dropping` | Which values survive a full channel, in which order? | 1 broadcaster, 4 fixes, DropOldest with 2 slots and DropNewest with 1 |
| `status_updates` | Do word and pointer agree, and do exactly the updates that change the status say so? | 3 goroutines, 2 updates each, 7 reports |
| `admission_rules` | Is the baseline usable, are admitted fixes in order and apart in real time, is what is dropped redundant? | 2 publishers, symmetry, 10 positions, 2 ages, time up to 3, the clock set once, by -2 or 1 |
| `service_stream` | Do the cache, a subscription's fixes and its statuses keep up, is Ready told before the fix, and does Close cut everything off? Is the hub used as `ChanHub` allows? | 1 publisher, 2 publishes, 1 subscription, 1 Close, both kinds of provider |
| `service_progress` | Does every Close return, complete, after one teardown, and release a caller? Is every answer of Next or Current new? | 1 publisher, 2 publishes, 1 caller, 2 Closes, fair |
| `service_watcher` | Do publishes return with nobody reading, and the watcher end? | 1 publisher, 2 publishes, 1 subscription, 1 Close, fair |
| `open` | From Open to Close on every platform: configuration, what is owned and given back, refusals, losses, permissions, prompts; does everything return? | 1 session per platform, every configuration with one or two fields set, 2 queued signals, 3 error names, 4 authorizations, 2 callbacks per turn, 4 location statuses, fair |
| `open_terminal` | *fails*: Closed is terminal | as `open`, Windows |
| `open_starting` | *fails*: Starting means that no fixes are delivered yet | as `open`, macOS |
| `open_timeout` | *fails*: Open returns when its timeout elapses | as `open`, Linux |
| `open_lost` | *fails*: Reconnecting means somebody is retrying | as `open`, Linux |

`HubSpec`, checked in `service_stream`, is a refinement: the composed service
implements the hub's own specification, for which the hub's theorems are proved.

**Bounds and why they are enough.** Two broadcasters are what the race in `offer`
and the RWMutex's reader sharing need; the hub's state holds no counters, so a
third adds no new kind of conflict. One slot makes a channel full at once; two
show order. Four fixes overflow two slots twice; the run has one broadcaster because
its other properties need that, and `InOrder` with several is left to its theorem
(`QueuesAreInOrder`, which has no such bound). In the gate only the latest
baseline counts, so two publishers overtaking each other and three time units,
against an interval and a maximum age of two, reach every comparison from both
sides. Two publishes of the service cover "one before, one after" for every reader;
two callers of Close cover the guard. In `service_stream` the publisher and, beside a Stop
that does not wait, the teardown are the two goroutines whose announcements may
overlap; that `PrimedOrCurrent` holds with any number of publishers is left to its
theorem (`StatusIsCurrent`). The three platform models count nothing that
grows: sessions may be lost and rebuilt, turns of the run loop taken and statuses
changed without bound. What is bounded is queues: 2 signals instead of 32, which
is enough for one that is read and one that waits; 2 callbacks in a turn of the run
loop, which is every ordered pair of kinds (a publication reads one at a time, so a
third adds no new order between two). Windows reports one status change at a time,
which leaves out handlers of the same event overtaking each other. Four
authorizations are the two refusals' common branch, a grant, "not determined" and a
value the code does not know; four location statuses are those whose branches
differ in the state they record. Connection numbers are reused. Configurations are
checked in pairs of fields because the code compares no more than two (ReconnectMin
with ReconnectMax).
`CHECK_DEADLOCK FALSE` is set because every instance ends: publishes run out, or
the session is closed.

**Fairness and why the code justifies it.** In `LocationService` each goroutine is
treated strongly fairly: what it can do again and again, it does. The Go scheduler
runs runnable goroutines, and its mutexes hand over to a waiter that starves, an
RWMutex's announced writer keeping new readers out, so a goroutine is not passed
over for ever at a lock. In `Open`, weak fairness on the caller's goroutine, the
thread of each provider and the sender of the access answer; on the start timeout
(StartTimeout is positive once resolved, which `ConfigResolved` says); and strong
fairness on the branches of GeoClue's `session.step` that find the context done or
the channel closed: `select` chooses at random among the cases that are ready.
Nothing is assumed of the environment: nobody has to call Close, read, or publish,
the user need not answer a prompt, and the bus need not be well; `ReturnsIfAnswered`
and `Reconnects` state as their premise what they need of it. One assumption about
the system is in the fairness of CoreLocation's thread: a turn of the run loop,
which `spin` limits to 100 ms, ends.

## 4. What is proved

Every invariant and every action property of every passing run is stated by a
theorem, for every value of the constants. Nothing rests on more than the named
assumptions on constants, which TLC evaluates in the runs: `HubAssumption`,
`ClientAssumption` (finitely many goroutines broadcast, for the count in
`HolesAreOwned`), `TrackerAssumption`, `ReportsAssumption`, `GateAssumption`,
`ServiceAssumption`, `NobodyAssumption` (the idle call's payload is no message),
`DistanceAssumption` (NaN and infinity are no integers), `ConfigsAssumption`
(configurations are Configs, with any numbers in them), `PlatformsAssumption`,
`GeoClueAssumption`, `CoreAssumption`, `WinAssumption`. Where a theorem is about
one publishing goroutine, which is what Linux and macOS have, it says so as a
hypothesis: `Alone` for `DropOldestDelivers`, `Publishers = {q}` for
`CacheIsNewest`, `FixesInOrder` and `ReadyBeforeFix`. Without it the property is
false: two goroutines may store or broadcast in the opposite order of admission,
take each other's slot in a full channel, and, when one finds the status Ready
already recorded by the other, send a fix before that other has announced it.

- **Hub** (`ChanHubProofs`, over `HubSpec`, any number of subscriptions, waiters and
  goroutines, any buffers and policies): `HubTypeOK`, `NoSendOnClosed`,
  `NoDoubleClose`, `ClosedHubIsEmpty`. None is inductive alone. `HubInv` adds
  `LockInv` (a writer in its section excludes walking broadcasts), `WalkInv` (a
  broadcast has left to visit only what is still registered) and `CallInv` (a call
  between its argument and the lock is about a registration in the state the call
  expects). Then "never sends on a closed channel" is: what is left to visit is
  registered, and what is registered is open.
- **Delivery by the hub** (`HubClientProofs`, any number of goroutines,
  registrations, broadcasts and removals, any buffers and policies). The callers
  use the hub as it allows (`ClientsUseHub`), so `HubInv` is there to start from.
  `ClientInv` adds that what is broadcast is the latest its goroutine issued
  (`Carried`), that nothing is queued or received which was not issued
  (`NothingInvented`), and that an unregistered channel is empty (`Untouched`);
  with these `InOrder` is inductive. It is shown once for every way a channel can
  change (`Same`, `Grows`, `Loses`, `IsRead`, `IsPrimed`), to which all actions
  come down. `WakesEveryWaiter` needs that the waiters a walk has passed are woken
  (`AllWoken`). `DropNewestKeeps` needs that only a DropOldest subscription is ever
  discarded from (`RoomMade`). `DropOldestDelivers`, under `Alone`, needs that the
  room a discard makes is still there at the second send (`RoomLeft`).
  `HolesAreOwned` is an argument by counting: each step changes the free slots and
  the set of goroutines that owe one by the same amount.
- **Tracker** (`StatusProofs`): types, `WordAgrees`, `ChangesAreTold`,
  `PermissionKept`. The strengthening `Pending` says what the goroutine inside the
  mutex computed from is still what is recorded; then a step that changes the
  status is the store of an update whose flag says so, and no other returns one.
- **Gate** (`AdmissionProofs`, any rules, positions and clock settings):
  `BaselineIsUsable`, `AdmittedApart` and `RedundantIsSoon`. `AdmissionInv` is
  `StampInv`, that samples in flight and the baseline are stamped and arrived no
  later than now, the baseline validated, with the order of the two clocks for
  either way of setting one: `ShiftsFollow` says that, while the clock has only been
  set forward, a sample that arrived later was stamped with no smaller an offset,
  and while it has only been set back, with no greater. So a difference of stamps is
  never smaller than the real one in the one case and never greater in the other,
  whichever order the samples reach the gate in: never smaller means nothing is
  dropped that came late and nothing overtaken is admitted, never greater that what
  is admitted did come the interval apart.

- **Service** (`ServiceProofs`, any number of publishers, callers, subscriptions and
  closers). First the refinement: `Spec => HubSpec`. A call of the service is one
  the hub allows if its argument is a value the hub carries, which is what
  `TypeInv` says of the status a goroutine is about to announce and of what a
  subscription is primed with; every other step leaves the hub's variables alone.
  The theorems need the hub at two places, so `ChanHubProofs` is instantiated beside
  `ChanHub` and `SameHub` shows the two to be one. With the hub's own invariant in
  hand, `Inv` adds `TrackerInv` (the mutex is held from the word to the pointer),
  `CloseInv` (one teardown; behind its Stop the service is shut, and a provider that
  waits is quiet), `ClosedInv` (who may record Closed, and when it has been) and
  `HubCloseInv` (the teardown waits in the hub's Close). From it follow
  `StoppedIsTerminal`, `CloseIsComplete` and `NothingAfterClose`; the last also uses
  `ClosedHubSendsNothing`, that a broadcast under way cannot have anything left to
  visit in a closed hub. `CacheIsNewest` is proved for one publishing
  goroutine, as Linux and macOS have; with two it is false. What
  callers, subscriptions and the hub do by itself is dealt with once (`Aside`), and
  each invariant then has one step per action of a publisher or a closer.
- **What callers and subscriptions receive.** `NextIsNew` (`DeliveryProofs`, any
  number of publishers): `UnseenInv` says that the fix a waiter's channel holds was
  not finished when its caller called; it rests on
  `Carries` (what is broadcast is what its goroutine carries) and `Fresh` (no two
  publishers carry one fix, none carries a published one). With one publisher,
  `FixesInOrder`: the publisher's fix is the newest (`LatestInv`), and every queue,
  priming included, rises and stays at or below the cache (`FixOrderInv`).
  `PrimedOrCurrent` (`CurrentProofs`) holds for any number: a subscription whose last
  status is not the one on record, and which did not miss it while it was being
  registered, is still to be served by a goroutine that announces (`CurrentInv`).
  Unless announcements overlap, which is noticed (`AloneInv`), what is announced is
  what is on record (`RecordedInv`) and a slot freed for it is taken by nobody else
  (`RoomInv`); a subscription is open until the teardown closes the hub
  (`ClosedByInv`, `SubscriptionInv`). `ReadyBeforeFix`, with one publisher, follows:
  beside it only the teardown announces, behind the flag (`CrossedInv`), so between
  the announcement of Ready and the fix the status told last is Ready, which is then
  the one on record (`ReadyOnRecord` in `ServiceProofs`).
- **Open** (`OpenProofs`, any configurations, error names, authorizations and
  location statuses, and however many signals or callbacks queue): `OneConnection`,
  `HeldIsOwn`, `LossIsTold`, `RefusalIsFinal`, `EventsHaveHandlers`,
  `ClosedIsClean`. None is inductive: what exists follows from where the thread
  that made it is. `ConnInv` ties connections to the run goroutine's line and to
  whether it carries an error; `ErrorInv` says an error that names a denial can
  only be one; `DialInv` that Start is answered once; `TellInv` what the user was
  told when a session ended; `CoreInv` and `WinInv` what the other two own at each
  line, the latter by the orders of `buildLocator` and `teardown`; `CallerInv` that
  a platform's state moves only on that platform.

  `TypeOK` is inductive once the lines of each thread are told apart from the
  others (`TypeInv`: `PortTypes`, `BusTypes`, `MacTypes`, `WinTypes`).
  `ConfigResolved` holds for every Config, not only those of the run: `ConfigInv`
  says what is used is the given one with defaults and was found valid, and the rest
  is arithmetic on one Config: no default is itself a zero that would be replaced
  again (`NoDefaultIsUnset`), and a field that is not filled in has its zero for
  default, except Reconnect (`OthersAreZero`), which the property excepts by name.
  `PermissionIsCurrent` follows a callback from the system to the status (`SettledInv`): unless a change is still to be told, the
  newest queued authorization is the system's, and with none queued the status
  already says it; a location or an error that is published later must not say
  otherwise, hence what is known of the queues' contents.

**Only model-checked**: the liveness properties, `CloseReturns`, `ClosedReleases`,
`PublishReturns`, `ReturnsIfAnswered`, `Reconnects` and `RequestEnds`. Liveness
under fairness is out of the prover's reach, and so is `ENABLED`. The models
need no recursive definition, so nothing waits for an induction over data.

## 5. Where the code and its documentation differ

Four are shown by runs:

- `open_terminal`: `geo/status.go:10`, "StateClosed is terminal". The Windows Stop
  waits for no handler, and one past the flag's check updates the status later.
- `open_starting`: README:311, Starting is "Provider starting, or waiting on a
  permission prompt". On macOS a grant and a location of one turn are published
  location first, so a session that delivers says Starting until another fix is
  admitted.
- `open_timeout`: README:173, Open blocks until the timeout elapses;
  `publishInitialFix` and `session.close` call without a context.
- `open_lost`: README:313, Reconnecting is "retrying"; a failed authentication ends
  the run and says only an error.

Met while modelling, not shown by a run:

- `README.md:209`: "A zero `Config{}` is equivalent to `DefaultConfig()`". Reconnect
  is a bool nobody fills in: its zero stays FALSE, the default is TRUE, and a session
  opened with the zero Config does not reconnect. `ConfigResolved` excepts it by name.
- `fanout.go:46`: priming lets a subscriber learn "the current state without waiting
  for it to change". A status announced between the read of the priming status and
  the registration reaches nobody new; `PrimedOrCurrent` excepts a subscription that
  missed a change in that way (`Missed`), and no other.
- `fanout.go:17`: DropOldest "retains the newest value". Statuses are recorded under a
  lock and announced after it, so of two goroutines the one with the older status may
  announce last; and of two that broadcast to a full channel one may take the slot the
  other has freed, and the newer value is dropped. Hence `crossed` in
  `PrimedOrCurrent`, and one broadcasting goroutine in `DropOldestDelivers`.
- `lifecycle.go:20`: a fix settles the permission "whatever the last authorization
  callback happened to say", but `MarkReady` keeps a recorded refusal.
- `README.md:185`: Last returns "the newest admitted fix". With two publishing
  goroutines the stores may be in the opposite order of admission; `CacheIsNewest`
  is checked with one. `service.go:202` says Next waits for a fix "accepted after
  the call starts"; what holds is `NextIsNew`, a fix whose PublishFix had not
  returned.
- `rules.go:63`: redundancy is judged by wall-clock differences, so after the clock
  is set back fixes are dropped that did not arrive soon. `RedundantIsSoon` ends
  there.
- `config.go:18`: "a caller overrides one knob and inherits the rest"; ReconnectMin
  alone above 30 s is rejected, because ReconnectMax is inherited below it.
- `README.md:409`: a denial "is reported through `Status`, not by failing `Open`"; on
  Linux and on Windows a denial at start-up fails Open (geoclue.go:205 says so).
- `winrt.go:140`: Start reads the location status after its events are registered
  and publishes it later, so a change reported in between is overwritten by the
  older reading until the next event or fix.
- `geoclue.go:885`: "rejecting a pair too large [...] rather than wrapping it";
  microseconds below 2^63 are accepted and then multiplied by 1000, which wraps.

## 6. Not modelled, and the plan

Done, in this order: hub, tracker, gate, service, configuration and the Linux
provider inside Open; then the provider port, the macOS and the Windows provider
in the same Open, the proofs of the service and of Open, and those of what the hub
and the service deliver.

What could still be added:

1. GeoClue's conversions as functions: thresholds that round up, absent fields,
   timestamps in 64-bit arithmetic, against reference definitions.
2. Open composed with the gate's verdicts, for the status after a reconnect whose
   first fixes are redundant (geoclue.go:320).

Left out for good: error texts and JSON forms, what a position or a location holds
once an adapter has read it, logging, test doubles, the haversine's rounding (a
matter of floating point), the exact lengths of backoff
intervals, and the retry options no caller sets.
