-------------------------- MODULE LocationService --------------------------
(***************************************************************************)
(* core.Service: the provider's goroutines publishing through it, callers  *)
(* waiting in Next and Current, subscriptions with their watchers, and     *)
(* Close. It composes the hub and the lifecycle tracker, which take their  *)
(* own steps in between, with the fix cache and the closed flag, each one  *)
(* atomic word.                                                            *)
(*                                                                         *)
(* A fix is the number of its admission: the gate's verdicts are left open *)
(* here and are Admission's subject.                                       *)
(***************************************************************************)
EXTENDS Naturals, Sequences, FiniteSets

CONSTANTS Publishers,   \* goroutines and callback threads of the provider
          Callers,      \* calls of Next or Current
          Subscribers,  \* calls of Subscribe, each with its watcher
          Closers,      \* calls of Close
          Nobody,
          Buffer, Policy, Replay,  \* normalized subscription configurations
          Reports,      \* the statuses the provider publishes
          Stops,        \* what kinds of provider there are: stopWaits' values
          MaxPublishes  \* Publish calls each publisher makes

Reporters  == Publishers \cup Closers
Goroutines == Reporters \cup Callers \cup Subscribers

VARIABLES
  subs, waiters, closed, ends, chan, event, writer, readers, blocked, pc, op,
  prime, msg, leftSubs, leftWaiters, target,  \* the hub
  word, status, mu, update,                   \* the tracker
  stopWaits, \* whether this provider's Stop waits for its publishers
  shut,      \* s.closed
  cache,     \* s.cache, 0 before the first fix
  last,      \* the gate's last admitted fix
  at,        \* where each goroutine is in the service
  fix,       \* the fix each publisher carries
  report,    \* the status it carries, or that a subscription is primed with
  made,      \* Publish calls made so far
  guard,     \* closeGuard: the teardown has not begun, is running, is done
  stopErr,   \* what native.Stop returned
  result,    \* what each call of Next, Current or Close returned
  finished,  \* fixes whose PublishFix has returned
  before,    \* what was finished when a caller called
  told,      \* the last status put in each subscription's channel
  outdated,  \* whether it was primed with an older one than is on record
  crossed    \* whether two goroutines ever announced a status at once

(* What travels through the hub, and what a call is answered with.         *)
FixMsg(n)  == [fix |-> n]
Failure(e) == [error |-> e]
NoAnswer   == [none |-> TRUE]
Stopped(e) == [stop |-> e]

States      == {"Starting", "Ready", "Reconnecting", "Unavailable", "Disabled", "Closed"}
Permissions == {"Unknown", "PromptRequired", "Granted", "Denied", "Restricted"}
Messages    == {"none", "receiving", "closed"} \cup {r.message : r \in Reports}
Payload     == [fix : Nat] \cup [error : {"provider"}]
                 \cup [state : States, permission : Permissions, message : Messages]

(* Goroutines that call different methods differ; configurations reach the *)
(* service normalized; no provider reports the service closed, which only  *)
(* Close does.                                                             *)
ASSUME ServiceAssumption ==
  /\ Publishers \cap Closers = {}
  /\ Reporters \cap (Callers \cup Subscribers) = {} /\ Callers \cap Subscribers = {}
  /\ Nobody \notin Goroutines
  /\ Buffer \in [Subscribers -> Nat \ {0}]
  /\ Policy \in [Subscribers -> {"DropOldest", "DropNewest"}]
  /\ Replay \in [Subscribers -> BOOLEAN]
  /\ Reports \subseteq [state : States \ {"Closed"}, permission : Permissions,
                         message : Messages]
  /\ Stops \subseteq BOOLEAN /\ MaxPublishes \in Nat

Hub == INSTANCE ChanHub WITH Broadcasters <- Reporters, Subs <- Subscribers,
                             Waiters <- Callers
Tracker == INSTANCE AtomicState WITH Free <- Nobody

(* What stands for no message is none.                                     *)
ASSUME NobodyAssumption == Nobody \notin Hub!Message

hubVars     == <<subs, waiters, closed, ends, chan, event, writer, readers, blocked,
                 pc, op, prime, msg, leftSubs, leftWaiters, target>>
trackerVars == <<word, status, mu, update>>
fixVars     == <<cache, last, fix>>
closeVars   == <<stopWaits, shut, guard, stopErr>>
ghostVars   == <<finished, before>>
rest        == <<closeVars, ghostVars, report, made, result>>
heardVars   == <<told, outdated, crossed>>
vars        == <<hubVars, trackerVars, fixVars, rest, at, heardVars>>

Init ==
  /\ Hub!HubInit
  /\ Tracker!TrackerInit
  /\ stopWaits \in Stops
  /\ shut = FALSE /\ guard = "none" /\ stopErr = "none"
  /\ cache = 0 /\ last = 0
  /\ at = [g \in Goroutines |-> "idle"]
  /\ fix = [r \in Reporters |-> 0]
  /\ report = [g \in Reporters \cup Subscribers |-> Tracker!Initial]
  /\ made = [p \in Publishers |-> 0]
  /\ result = [g \in Callers \cup Closers |-> NoAnswer]
  /\ finished = {}
  /\ before = [w \in Callers |-> {}]
  /\ told = [s \in Subscribers |-> <<>>]
  /\ outdated = [s \in Subscribers |-> FALSE]
  /\ crossed = FALSE

Goto(g, from, to) == at[g] = from /\ pc[g] = "idle" /\ at' = [at EXCEPT ![g] = to]

(***************************************************************************)
(* PublishFix. The closed flag is read once, on entry; everything after it *)
(* goes ahead whatever happens to the flag.                                *)
(***************************************************************************)
Publish(p, to) ==
  /\ ~ shut
  /\ made[p] < MaxPublishes
  /\ Goto(p, "idle", to)
  /\ made' = [made EXCEPT ![p] = @ + 1]
  /\ UNCHANGED <<hubVars, trackerVars, fixVars, closeVars, ghostVars, result>>

PublishFix(p) == Publish(p, "admit") /\ UNCHANGED report

(* The gate's verdicts: an unusable fix, a redundant one - never the first *)
(* - and one it records as its new baseline.                               *)
AdmitError(p) ==
  /\ Goto(p, "admit", "error")
  /\ UNCHANGED <<hubVars, trackerVars, fixVars, rest>>

AdmitRedundant(p) ==
  /\ last > 0
  /\ Goto(p, "admit", "idle")
  /\ UNCHANGED <<hubVars, trackerVars, fixVars, rest>>

Admit(p) ==
  /\ Goto(p, "admit", "store")
  /\ last' = last + 1
  /\ fix' = [fix EXCEPT ![p] = last + 1]
  /\ UNCHANGED <<hubVars, trackerVars, cache, rest>>

(* A fault: only the first fix is cached.                                  *)
FirstCached(p) == IF cache = 0 THEN fix[p] ELSE cache

Cached(p) == fix[p]

CacheStore(p) ==
  /\ Goto(p, "store", "ready")
  /\ cache' = Cached(p)
  /\ UNCHANGED <<hubVars, trackerVars, last, fix, rest>>

(* A fault: readiness is announced once in a session.                      *)
PastStarting == Tracker!State # "Starting"

ReadyAnnounced == Tracker!State = "Ready"

(* announceReady reads the state word, and only then takes the mutex.      *)
AnnounceReady(p) ==
  /\ Goto(p, "ready", IF ReadyAnnounced THEN "fix" ELSE "mark")
  /\ UNCHANGED <<hubVars, trackerVars, fixVars, rest>>

MarkReady(p) ==
  /\ Goto(p, "mark", "commit")
  /\ Tracker!MarkReady(p, "receiving")
  /\ UNCHANGED <<hubVars, fixVars, rest>>

(* A status is announced when it says something new, after the tracker's   *)
(* mutex has been released.                                                *)
AfterStatus(r) == IF r \in Closers THEN "hubClose"
                  ELSE IF fix[r] # 0 THEN "fix" ELSE "idle"

(* A fault: the closing status is recorded, not announced.                 *)
ClosesSilently(r) == r \notin Closers /\ update[r].changed

SaysSomethingNew(r) == update[r].changed

Commit(r) ==
  /\ Goto(r, "commit", IF SaysSomethingNew(r) THEN "announce" ELSE AfterStatus(r))
  /\ Tracker!StorePointer(r)
  /\ UNCHANGED <<hubVars, fixVars, rest>>

(* A fault: what is announced is what was reported, not what was recorded. *)
AnnounceReport(r) ==
  /\ Goto(r, "announce", AfterStatus(r))
  /\ Hub!BroadcastStatus(r, report[r])
  /\ UNCHANGED <<trackerVars, fixVars, rest>>

Announce(r) ==
  /\ Goto(r, "announce", AfterStatus(r))
  /\ Hub!BroadcastStatus(r, update[r].recorded)
  /\ UNCHANGED <<trackerVars, fixVars, rest>>

BroadcastFix(p) ==
  /\ Goto(p, "fix", "published")
  /\ Hub!BroadcastFix(p, FixMsg(fix[p]))
  /\ UNCHANGED <<trackerVars, fixVars, rest>>

Published(p) ==
  /\ Goto(p, "published", "idle")
  /\ finished' = finished \cup {fix[p]}
  /\ fix' = [fix EXCEPT ![p] = 0]
  /\ UNCHANGED <<hubVars, trackerVars, cache, last, closeVars, before, report, made, result>>

(***************************************************************************)
(* PublishError and PublishStatus. PublishFix reaches the first one with   *)
(* the gate's error, and it looks at the flag again.                       *)
(***************************************************************************)
PublishError(p) == Publish(p, "sendError") /\ UNCHANGED report

PublishAdmitError(p) ==
  /\ Goto(p, "error", IF shut THEN "idle" ELSE "sendError")
  /\ UNCHANGED <<hubVars, trackerVars, fixVars, rest>>

BroadcastError(p) ==
  /\ Goto(p, "sendError", "idle")
  /\ Hub!BroadcastError(p, Failure("provider"))
  /\ UNCHANGED <<trackerVars, fixVars, rest>>

PublishStatus(p, new) ==
  /\ Publish(p, "set")
  /\ report' = [report EXCEPT ![p] = new]

Set(r) ==
  /\ Goto(r, "set", "commit")
  /\ Tracker!Set(r, report[r])
  /\ UNCHANGED <<hubVars, fixVars, rest>>

(***************************************************************************)
(* Close. The first caller runs the teardown, the rest wait for its value. *)
(***************************************************************************)
FirstClose == guard = "none"

Close(c) ==
  /\ result[c] = NoAnswer
  /\ Goto(c, "idle", IF FirstClose THEN "shut" ELSE "wait")
  /\ guard' = IF FirstClose THEN "running" ELSE guard
  /\ UNCHANGED <<hubVars, trackerVars, fixVars, stopWaits, shut, stopErr, ghostVars,
                 report, made, result>>

Shut(c) ==
  /\ Goto(c, "shut", "stop")
  /\ shut' = TRUE
  /\ UNCHANGED <<hubVars, trackerVars, fixVars, stopWaits, guard, stopErr, ghostVars,
                 report, made, result>>

Quiet(p) == at[p] = "idle" /\ pc[p] = "idle"

(* A fault: Stop returns at once.                                          *)
NoWait == TRUE

ProviderQuiet == stopWaits => \A p \in Publishers : Quiet(p)

(* native.Stop, with or without an error of its own. GeoClue's and Core    *)
(* Location's wait for the goroutine that publishes; WinRT's does not.     *)
Stop(c) ==
  /\ ProviderQuiet
  /\ Goto(c, "stop", "set")
  /\ stopErr' \in {"nil", "failed"}
  /\ report' = [report EXCEPT ![c] =
                  [state |-> "Closed", permission |-> "Unknown", message |-> "closed"]]
  /\ UNCHANGED <<hubVars, trackerVars, fixVars, stopWaits, shut, guard, ghostVars, made, result>>

(* A fault: the hub is left open.                                          *)
HubLeftOpen(c) ==
  /\ Goto(c, "hubClose", "finish")
  /\ UNCHANGED <<hubVars, trackerVars, fixVars, rest>>

HubClose(c) ==
  /\ Goto(c, "hubClose", "finish")
  /\ Hub!CloseCall(c)
  /\ UNCHANGED <<trackerVars, fixVars, rest>>

Finish(c) ==
  /\ Goto(c, "finish", "wait")
  /\ guard' = "done"
  /\ UNCHANGED <<hubVars, trackerVars, fixVars, stopWaits, shut, stopErr, ghostVars,
                 report, made, result>>

(* A fault: a second Close does not wait for the first.                    *)
TeardownBegun == guard # "none"

TeardownDone == guard = "done"

CloseReturn(c) ==
  /\ TeardownDone
  /\ Goto(c, "wait", "idle")
  /\ result' = [result EXCEPT ![c] = Stopped(stopErr)]
  /\ UNCHANGED <<hubVars, trackerVars, fixVars, closeVars, ghostVars, report, made>>

(***************************************************************************)
(* Next and Current. A caller calls once; what it was answered is a fix,   *)
(* the provider's error, ErrClosed, or its own context's error.            *)
(***************************************************************************)
Answer(w, from, to, answer) ==
  /\ Goto(w, from, to)
  /\ result' = [result EXCEPT ![w] = answer]
  /\ UNCHANGED <<trackerVars, fixVars, closeVars, ghostVars, report, made>>

Enter(w, to) ==
  /\ Goto(w, "idle", to)
  /\ result[w] = NoAnswer
  /\ before' = [before EXCEPT ![w] = finished]
  /\ UNCHANGED <<hubVars, trackerVars, fixVars, closeVars, finished, report, made, result>>

Next(w)    == Enter(w, "next")
Current(w) == Enter(w, "current")

(* Current: the cached fix answers while it is fresh, which is a matter of *)
(* the clock. Otherwise Current is Next.                                   *)
CurrentClosed(w) ==
  shut /\ Answer(w, "current", "done", Failure("ErrClosed")) /\ UNCHANGED hubVars

CurrentOpen(w) ==
  /\ ~ shut
  /\ Goto(w, "current", "load")
  /\ UNCHANGED <<hubVars, trackerVars, fixVars, rest>>

CurrentCached(w) ==
  cache # 0 /\ Answer(w, "load", "done", FixMsg(cache)) /\ UNCHANGED hubVars

CurrentStale(w) ==
  /\ Goto(w, "load", "next")
  /\ UNCHANGED <<hubVars, trackerVars, fixVars, rest>>

NextClosed(w) ==
  shut /\ Answer(w, "next", "done", Failure("ErrClosed")) /\ UNCHANGED hubVars

NextOpen(w) ==
  /\ ~ shut
  /\ Goto(w, "next", "register")
  /\ UNCHANGED <<hubVars, trackerVars, fixVars, rest>>

AddOnce(w) ==
  /\ Goto(w, "register", "await")
  /\ Hub!AddOnceCall(w)
  /\ UNCHANGED <<trackerVars, fixVars, rest>>

(* The hub closed first, and there is no registration to undo.             *)
AddOnceRefused(w) ==
  /\ ends[w] = "refused"
  /\ Answer(w, "await", "done", Failure("ErrClosed"))
  /\ UNCHANGED hubVars

(* A fault: an error is covered up with the cached fix.                    *)
EventOrCached(w) ==
  IF event[w][1].kind = "error" /\ cache # 0 THEN FixMsg(cache) ELSE event[w][1].value

EventAnswer(w) == event[w][1].value

(* awaitEvent. The buffered event comes out before the close does, and a   *)
(* context may be done at any time.                                        *)
AwaitEvent(w) ==
  /\ Hub!Take(w)
  /\ Answer(w, "await", "leave", EventAnswer(w))

AwaitClosed(w) ==
  /\ ends[w] = "closed" /\ event[w] = <<>>
  /\ Answer(w, "await", "leave", Failure("ErrClosed"))
  /\ UNCHANGED hubVars

AwaitCancelled(w) ==
  /\ ends[w] # "refused"
  /\ Answer(w, "await", "leave", Failure("cancelled"))
  /\ UNCHANGED hubVars

RemoveOnce(w) ==
  /\ Goto(w, "leave", "done")
  /\ Hub!RemoveOnceCall(w)
  /\ UNCHANGED <<trackerVars, fixVars, rest>>

(***************************************************************************)
(* Subscribe: the status, then the fix, then the registration, each read   *)
(* on its own; then a watcher that lives as long as the subscription.      *)
(***************************************************************************)
Subscribe(s) ==
  /\ Goto(s, "idle", IF shut THEN "refused" ELSE "prime")
  /\ UNCHANGED <<hubVars, trackerVars, fixVars, rest>>

PrimeStatus(s) ==
  /\ Goto(s, "prime", "add")
  /\ report' = [report EXCEPT ![s] = Tracker!Get]
  /\ UNCHANGED <<hubVars, trackerVars, fixVars, closeVars, ghostVars, made, result>>

Replayed(s) == IF Replay[s] /\ cache # 0 THEN <<FixMsg(cache)>> ELSE <<>>

(* A fault: the status is left out of the priming.                         *)
FixPriming(s) == [status |-> <<>>, error |-> <<>>, fix |-> Replayed(s)]

Priming(s) == [status |-> <<report[s]>>, error |-> <<>>, fix |-> Replayed(s)]

Add(s) ==
  /\ Goto(s, "add", "added")
  /\ Hub!AddCall(s, Priming(s))
  /\ UNCHANGED <<trackerVars, fixVars, rest>>

WatchSubscription(s) ==
  /\ Goto(s, "added", IF ends[s] = "refused" THEN "refused" ELSE "watching")
  /\ UNCHANGED <<hubVars, trackerVars, fixVars, rest>>

(* The watcher: the caller's context may be done at any time.              *)
WatchCancelled(s) ==
  /\ Goto(s, "watching", "ended")
  /\ Hub!RemoveCall(s)
  /\ UNCHANGED <<trackerVars, fixVars, rest>>

(* A fault: the watcher listens to its context alone.                      *)
WatchContext(s) == FALSE

WatchDone(s) ==
  /\ closed
  /\ Goto(s, "watching", "ended")
  /\ UNCHANGED <<hubVars, trackerVars, fixVars, rest>>

(* The subscriber, reading its channels.                                   *)
Receive(s, k) == Hub!Receive(s, k) /\ UNCHANGED <<trackerVars, fixVars, rest, at>>

-----------------------------------------------------------------------------
ReporterStep(r) ==
  \/ Set(r) \/ Commit(r) \/ Announce(r)
  \/ r \in Publishers /\
       ( \/ AdmitError(r) \/ AdmitRedundant(r) \/ Admit(r) \/ CacheStore(r)
         \/ AnnounceReady(r) \/ MarkReady(r) \/ BroadcastFix(r) \/ Published(r)
         \/ PublishAdmitError(r) \/ BroadcastError(r) )
  \/ r \in Closers /\ (Shut(r) \/ Stop(r) \/ HubClose(r) \/ Finish(r) \/ CloseReturn(r))

CallerStep(w) ==
  \/ CurrentClosed(w) \/ CurrentOpen(w) \/ CurrentCached(w) \/ CurrentStale(w)
  \/ NextClosed(w) \/ NextOpen(w)
  \/ AddOnce(w) \/ AddOnceRefused(w) \/ AwaitEvent(w) \/ AwaitClosed(w) \/ RemoveOnce(w)

SubscriberStep(s) ==
  PrimeStatus(s) \/ Add(s) \/ WatchSubscription(s) \/ WatchDone(s)

(* What the provider, the callers and their contexts decide.               *)
Environment ==
  \/ \E p \in Publishers : \/ PublishFix(p) \/ PublishError(p)
                           \/ \E new \in Reports : PublishStatus(p, new)
  \/ \E c \in Closers : Close(c)
  \/ \E w \in Callers : Next(w) \/ Current(w) \/ AwaitCancelled(w)
  \/ \E s \in Subscribers : Subscribe(s) \/ WatchCancelled(s)
  \/ \E s \in Subscribers, k \in Hub!Kinds : Receive(s, k)

serviceVars == <<trackerVars, fixVars, rest, at>>

HubStep == Hub!HubStep /\ UNCHANGED serviceVars

(***************************************************************************)
(* What the steps above add up to for a subscription, kept beside them:    *)
(* every status that enters its channel, by priming or by a broadcast, and *)
(* whether two changes were ever on their way to it at the same time.      *)
(***************************************************************************)

(* From having recorded a new status to having told every subscription.    *)
Announcing(r) == \/ at[r] = "commit" /\ update[r].changed
                 \/ at[r] = "announce"
                 \/ msg[r] # Nobody /\ msg[r].kind = "status"

Crossing == \E q, r \in Reporters : q # r /\ Announcing(q) /\ Announcing(r)

Statuses(s) == chan[s]["status"]

Hear ==
  /\ told' = [s \in Subscribers |->
               IF Len(Statuses(s)') > Len(Statuses(s))
               THEN <<Statuses(s)'[Len(Statuses(s)')]>> ELSE told[s]]
  /\ outdated' = [s \in Subscribers |->
                   IF s \in subs' \ subs THEN status # report[s]
                   ELSE outdated[s] /\ status' = status]
  /\ crossed' = (crossed \/ Crossing')

ServiceNext ==
  /\ \/ Environment
     \/ \E r \in Reporters : ReporterStep(r)
     \/ \E w \in Callers : CallerStep(w)
     \/ \E s \in Subscribers : SubscriberStep(s)
     \/ HubStep
  /\ Hear

Spec == Init /\ [][ServiceNext]_vars

(* What a goroutine does by itself, in the service and inside the hub.     *)
Steps(g) ==
  /\ \/ g \in Reporters /\ ReporterStep(g)
     \/ g \in Callers /\ CallerStep(g)
     \/ g \in Subscribers /\ SubscriberStep(g)
     \/ g \in Reporters /\ Hub!BroadcastStep(g) /\ UNCHANGED serviceVars
     \/ g \notin Publishers /\ Hub!WriteStep(g) /\ UNCHANGED serviceVars
  /\ Hear

(***************************************************************************)
(* Goroutines that can run are run, and the two mutexes serve everyone who *)
(* waits: a goroutine is at one place at a time, so what it can do again   *)
(* and again it does. Nothing is assumed of the environment: no fix need   *)
(* ever come.                                                              *)
(***************************************************************************)
Fairness == \A g \in Goroutines : SF_vars(Steps(g))

FairSpec == Spec /\ Fairness

-----------------------------------------------------------------------------
(* Every variable of the service has its type; the hub's and the tracker's *)
(* are their own modules' business.                                        *)
TypeOK ==
  /\ stopWaits \in Stops /\ shut \in BOOLEAN
  /\ guard \in {"none", "running", "done"}
  /\ stopErr \in {"none", "nil", "failed"}
  /\ cache \in Nat /\ last \in Nat /\ cache <= last
  /\ fix \in [Reporters -> Nat] /\ \A r \in Reporters : fix[r] <= last
  /\ finished \subseteq 1 .. last

Streaming == \A p \in Publishers : Quiet(p)

(* geo/status.go, "StateClosed is terminal": a report or a fix that is     *)
(* still under way when Close is called never brings the status back, if   *)
(* the provider's Stop waits for it.                                       *)
StoppedIsTerminal ==
  [][stopWaits /\ status.state = "Closed" => status'.state = "Closed"]_vars

(* Last's contract: whenever no PublishFix is under way, the cache holds   *)
(* the newest admitted fix - if one goroutine publishes, as the Linux and  *)
(* macOS providers do; two may store in the opposite order of admission.   *)
CacheIsNewest == Streaming => cache = last

StatusSettled == \A r \in Reporters : ~ Announcing(r)

(* A subscription the hub still serves, or closed behind a provider that   *)
(* Stop has waited for.                                                    *)
Hears(s) == \/ s \in subs
            \/ stopWaits /\ at[s] \in {"added", "watching"} /\ ends[s] = "closed"

(* The status changed between the two steps of Subscribe, the reading of   *)
(* the priming status and the registration, and not again since then.      *)
Missed(s) == outdated[s] /\ told[s] = <<report[s]>>

(* However many goroutines report, a change of status reaches every        *)
(* subscription that drops the oldest, whether it arrives in the midst of  *)
(* the announcement, lags behind or is closed: once nothing is being       *)
(* announced the status it was last told is the one on record. Only one    *)
(* that missed a change while it was being registered is not told, and     *)
(* only announcements that crossed may have been told the wrong way round. *)
PrimedOrCurrent ==
  StatusSettled /\ ~ crossed =>
    \A s \in Subscribers :
      Hears(s) /\ Policy[s] = "DropOldest" => told[s] = <<status>> \/ Missed(s)

(* A subscription of a provider with one goroutine never holds a newer fix *)
(* in front of an older one, replayed or broadcast.                        *)
FixesInOrder ==
  \A s \in Subscribers :
    LET q == chan[s]["fix"] IN
    \A i, j \in 1 .. Len(q) : i <= j => q[i].fix <= q[j].fix

(* A subscription is told Ready before it can be sent the fix that made    *)
(* the service ready, whatever the status was before: when the provider's  *)
(* one goroutine starts to broadcast a fix, every subscription that drops  *)
(* the oldest was last told Ready - unless it missed that while it was     *)
(* being registered, or the service is being closed.                       *)
ReadyBeforeFix ==
  \A p \in Publishers, s \in subs :
    at[p] = "published" /\ ~ shut /\ Policy[s] = "DropOldest" =>
      Missed(s) \/ (told[s] # <<>> /\ told[s][1].state = "Ready")

Answered(w) == at[w] = "leave" /\ "fix" \in DOMAIN result[w]

(* Next never answers with a fix whose PublishFix had returned when Next   *)
(* was called.                                                             *)
NextIsNew ==
  \A w \in Callers : Answered(w) => result[w].fix \notin before[w]

(* Close returns to every caller what native.Stop returned, and by then    *)
(* nothing is registered, the status is Closed and no publish is under way *)
(* that Stop should have waited for.                                       *)
CloseIsComplete ==
  \A c \in Closers : result[c] # NoAnswer =>
    /\ result[c] = Stopped(stopErr) /\ stopErr # "none"
    /\ shut /\ closed /\ subs = {} /\ waiters = {}
    /\ stopWaits => status.state = "Closed" /\ Streaming

(* What is published after Close has returned reaches no subscription,     *)
(* even from a provider whose Stop leaves a publish under way.             *)
NothingAfterClose ==
  [][guard = "done" =>
       \A s \in Subscribers, k \in Hub!Kinds : Len(chan'[s][k]) <= Len(chan[s][k])]_vars

(* Every Publish call returns, though no subscriber reads: provider/port   *)
(* demands of a Sink that it "must not block the caller".                  *)
PublishReturns == \A p \in Publishers : ~ Quiet(p) ~> Quiet(p)

(* Close returns, although nobody reads and publishers keep publishing.    *)
CloseReturns == \A c \in Closers : at[c] # "idle" ~> result[c] # NoAnswer

(* No call of Next and no subscription's watcher outlives Close: each was  *)
(* let in before the hub closed and is released by it, or was turned away. *)
ClosedReleases ==
  \A g \in Callers \cup Subscribers :
    guard = "done" /\ at[g] # "idle" ~> at[g] \in {"done", "ended", "refused"}

(* The service uses the hub the way its specification allows.              *)
HubSpec == Hub!HubSpec
=============================================================================
