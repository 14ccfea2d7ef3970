-------------------------- MODULE DeliveryProofs ---------------------------
(***************************************************************************)
(* What the service promises of the values it hands on: which fix a caller *)
(* of Next is answered with, and what a subscription's channels hold of    *)
(* fixes and of the status. The messages a broadcast carries are tied to   *)
(* the publisher that carries the same fix, or records the same status;    *)
(* the hub's lemmas then say what becomes of them in a channel.            *)
(***************************************************************************)
EXTENDS ServiceProofs

(* The hub of the theorems and the service's take the same steps.          *)
LEMMA SameSteps ==
  /\ Hub!HubStep <=> HubP!HubStep
  /\ \A s \in Subscribers, k \in Hub!Kinds : Hub!Receive(s, k) <=> HubP!Receive(s, k)
  /\ \A w \in Callers : Hub!Take(w) <=> HubP!Take(w)
  /\ Hub!Kinds = HubP!Kinds
BY DEF Hub!Kinds, HubP!Kinds, Hub!Writers, HubP!Writers, Hub!registry, HubP!registry,
       Hub!channels, HubP!channels, Hub!mutex, HubP!mutex, Hub!walks, HubP!walks, Hub!calls,
       HubP!calls, Hub!Lock, HubP!Lock, Hub!Drained, HubP!Drained, Hub!Locked, HubP!Locked,
       Hub!Unlock, HubP!Unlock, Hub!RLockAdmitted, HubP!RLockAdmitted, Hub!Woken, HubP!Woken,
       Hub!StartWalk, HubP!StartWalk, Hub!Queue, HubP!Queue, Hub!HasRoom, HubP!HasRoom, Hub!Send,
       HubP!Send, Hub!Offer, HubP!Offer, Hub!Refuses, HubP!Refuses, Hub!OfferRefused,
       HubP!OfferRefused, Hub!OfferFull, HubP!OfferFull, Hub!Discarded, HubP!Discarded,
       Hub!Discard, HubP!Discard, Hub!Retry, HubP!Retry, Hub!Resend, HubP!Resend, Hub!Wake,
       HubP!Wake, Hub!Walked, HubP!Walked, Hub!RUnlock, HubP!RUnlock, Hub!InSection,
       HubP!InSection, Hub!HubClosed, HubP!HubClosed, Hub!Add, HubP!Add, Hub!Remove, HubP!Remove,
       Hub!AddOnce, HubP!AddOnce, Hub!RemoveOnce, HubP!RemoveOnce, Hub!Close, HubP!Close,
       Hub!CloseAgain, HubP!CloseAgain, Hub!CloseSub, HubP!CloseSub, Hub!CloseWaiter,
       HubP!CloseWaiter, Hub!CloseDone, HubP!CloseDone, Hub!Receive, HubP!Receive, Hub!Take,
       HubP!Take, Hub!BroadcastStep, HubP!BroadcastStep, Hub!WriteStep, HubP!WriteStep,
       Hub!HubStep, HubP!HubStep

(* So a step of the service is one the hub's lemmas are about.             *)
LEMMA HubMoves ==
  ASSUME Inv, [ServiceNext]_vars
  PROVE  [HubP!HubNext]_HubP!hubVars /\ HubP!HubInv' /\ Inv'
BY HubAllows, SameHub, InvStep DEF Inv

(* Where the service calls its hub, or lets it run.                        *)
Calls ==
  \/ \E r \in Reporters : Announce(r)
  \/ \E p \in Publishers : BroadcastFix(p) \/ BroadcastError(p)
  \/ \E c \in Closers : HubClose(c)
  \/ \E w \in Callers : AddOnce(w) \/ RemoveOnce(w)
  \/ \E s \in Subscribers : Add(s) \/ WatchCancelled(s)

(* It leaves the hub alone everywhere else.                                *)
LEMMA HubTouched ==
  ASSUME [ServiceNext]_vars
  PROVE  \/ UNCHANGED hubVars \/ Calls \/ HubStep
         \/ \E w \in Callers : AwaitEvent(w)
         \/ \E s \in Subscribers, k \in Hub!Kinds : Receive(s, k)
<1>1. ASSUME NEW r \in Reporters, Set(r) \/ Commit(r) PROVE UNCHANGED hubVars
  BY <1>1 DEF Set, Commit
<1>2. ASSUME NEW p \in Publishers,
             \/ PublishFix(p) \/ PublishError(p) \/ \E new \in Reports : PublishStatus(p, new)
             \/ AdmitError(p) \/ AdmitRedundant(p) \/ Admit(p) \/ CacheStore(p)
             \/ AnnounceReady(p) \/ MarkReady(p) \/ Published(p) \/ PublishAdmitError(p)
      PROVE  UNCHANGED hubVars
  BY <1>2 DEF PublishFix, PublishError, PublishStatus, Publish, AdmitError, AdmitRedundant, Admit,
              CacheStore, AnnounceReady, MarkReady, Published, PublishAdmitError
<1>3. ASSUME NEW c \in Closers, Close(c) \/ Shut(c) \/ Stop(c) \/ Finish(c) \/ CloseReturn(c)
      PROVE  UNCHANGED hubVars
  BY <1>3 DEF Close, Shut, Stop, Finish, CloseReturn
<1>4. ASSUME NEW w \in Callers,
             \/ Next(w) \/ Current(w) \/ AwaitCancelled(w) \/ CurrentClosed(w) \/ CurrentOpen(w)
             \/ CurrentCached(w) \/ CurrentStale(w) \/ NextClosed(w) \/ NextOpen(w)
             \/ AddOnceRefused(w) \/ AwaitClosed(w)
      PROVE  UNCHANGED hubVars
  BY <1>4 DEF Next, Current, Enter, AwaitCancelled, CurrentClosed, CurrentOpen, CurrentCached,
              CurrentStale, NextClosed, NextOpen, AddOnceRefused, AwaitClosed
<1>5. ASSUME NEW s \in Subscribers,
             Subscribe(s) \/ PrimeStatus(s) \/ WatchSubscription(s) \/ WatchDone(s)
      PROVE  UNCHANGED hubVars
  BY <1>5 DEF Subscribe, PrimeStatus, WatchSubscription, WatchDone
<1>6. UNCHANGED vars => UNCHANGED hubVars
  BY DEF vars
<1>7. QED
  BY <1>1, <1>2, <1>3, <1>4, <1>5, <1>6
  DEF ServiceNext, Environment, ReporterStep, CallerStep, SubscriberStep, Calls

(* A goroutine inside the hub is nowhere else: what the service keeps of   *)
(* it waits until its call returns.                                        *)
LEMMA Waits ==
  ASSUME TypeInv, HubP!HubInv, [ServiceNext]_vars, NEW g \in Reporters, pc[g] # "idle"
  PROVE  at'[g] = at[g] /\ fix'[g] = fix[g] /\ update'[g] = update[g]
<1> DEFINE Same == at'[g] = at[g] /\ fix'[g] = fix[g] /\ update'[g] = update[g]
<1>1. Domains
  BY DomainsHold
<1> USE <1>1 DEF Domains, Goto, trackerVars, fixVars
<1>2. ASSUME NEW r \in Reporters, Set(r) \/ Commit(r) \/ Announce(r) PROVE Same
  BY <1>2 DEF Set, Tracker!Set, Tracker!Store, Commit, Tracker!StorePointer, Announce
<1>3. ASSUME NEW p \in Publishers,
             PublishFix(p) \/ PublishError(p) \/ \E new \in Reports : PublishStatus(p, new)
      PROVE  Same
  BY <1>3 DEF PublishFix, PublishError, PublishStatus, Publish
<1>4. ASSUME NEW p \in Publishers, MarkReady(p) PROVE Same
  BY <1>4 DEF MarkReady, Tracker!MarkReady, Tracker!Store
<1>5. ASSUME NEW p \in Publishers, Admit(p) \/ Published(p) PROVE Same
  BY <1>5 DEF Admit, Published
<1>6. ASSUME NEW p \in Publishers,
             \/ AdmitError(p) \/ AdmitRedundant(p) \/ CacheStore(p) \/ AnnounceReady(p)
             \/ BroadcastFix(p) \/ PublishAdmitError(p) \/ BroadcastError(p)
      PROVE  Same
  BY <1>6 DEF AdmitError, AdmitRedundant, CacheStore, AnnounceReady, BroadcastFix,
              PublishAdmitError, BroadcastError
<1>7. ASSUME NEW c \in Closers, Close(c) \/ Shut(c) \/ Stop(c) \/ HubClose(c) \/ Finish(c)
                                \/ CloseReturn(c)
      PROVE  Same
  BY <1>7 DEF Close, Shut, Stop, HubClose, Finish, CloseReturn
<1>8. CASE Aside
  BY <1>8 DEF Aside
<1> HIDE DEF Same
<1>9. PublisherActs => Same
  BY <1>2, <1>3, <1>4, <1>5, <1>6 DEF PublisherActs
<1>10. CloserActs => Same
  BY <1>7 DEF CloserActs
<1>11. QED
  BY <1>8, <1>9, <1>10, ActsOrAside DEF Same

(* It enters the hub's broadcasts from three places.                       *)
LEMMA Begins ==
  ASSUME Inv, [ServiceNext]_vars, NEW g \in Reporters, HubP!Active(g)'
  PROVE  \/ HubP!Active(g) /\ msg'[g] = msg[g] /\ pc[g] # "idle"
         \/ Announce(g) \/ (g \in Publishers /\ (BroadcastFix(g) \/ BroadcastError(g)))
<1> DEFINE On == HubP!Active(g) /\ msg'[g] = msg[g] /\ pc[g] # "idle"
<1>1. Domains /\ HubP!HubInv
  BY DomainsHold DEF Inv
<1>2. HubP!Active(g) => pc[g] # "idle"
  BY DEF HubP!Active, HubP!Reading
<1>3. CASE UNCHANGED hubVars
  BY <1>2, <1>3 DEF hubVars, HubP!Active, HubP!Reading
<1>4. CASE HubStep \/ (\E w \in Callers : AwaitEvent(w))
                   \/ \E s \in Subscribers, k \in Hub!Kinds : Receive(s, k)
  <2>1. HubP!HubStep \/ HubP!Read
    BY <1>4, SameSteps DEF HubStep, AwaitEvent, Receive, HubP!Read
  <2>2. QED
    BY <1>1, <1>2, <2>1, HubAssumed, HubP!MessageKept
<1>5. ASSUME NEW r \in Reporters, NEW k, NEW v, Hub!Broadcast(r, k, v), r # g PROVE On
  BY <1>1, <1>2, <1>5
  DEF Domains, Hub!Broadcast, Hub!RLockFree, Hub!RLockWaits, HubP!Active, HubP!Reading,
      HubP!HubInv, HubP!HubTypeOK
<1>6. ASSUME NEW p, NEW o, Hub!Call(p, o), UNCHANGED msg PROVE On
  BY <1>1, <1>2, <1>6 DEF Domains, Hub!Call, HubP!Active, HubP!Reading
<1>7. ASSUME NEW r \in Reporters, Announce(r) PROVE On \/ Announce(g)
  BY <1>5, <1>7 DEF Announce, Hub!BroadcastStatus
<1>8. ASSUME NEW p \in Publishers, BroadcastFix(p) \/ BroadcastError(p)
      PROVE  On \/ (g \in Publishers /\ (BroadcastFix(g) \/ BroadcastError(g)))
  BY <1>1, <1>5, <1>8 DEF BroadcastFix, BroadcastError, Hub!BroadcastFix, Hub!BroadcastError,
     Domains
<1>9. ASSUME NEW c \in Closers, HubClose(c) PROVE On
  BY <1>6, <1>9 DEF HubClose, Hub!CloseCall, Hub!walks
<1>10. ASSUME NEW w \in Callers, AddOnce(w) \/ RemoveOnce(w) PROVE On
  BY <1>6, <1>10 DEF AddOnce, RemoveOnce, Hub!AddOnceCall, Hub!RemoveOnceCall, Hub!walks
<1>11. ASSUME NEW s \in Subscribers, Add(s) \/ WatchCancelled(s) PROVE On
  BY <1>6, <1>11 DEF Add, WatchCancelled, Hub!AddCall, Hub!RemoveCall, Hub!walks
<1> HIDE DEF On
<1>12. Calls => \/ On \/ Announce(g)
                \/ (g \in Publishers /\ (BroadcastFix(g) \/ BroadcastError(g)))
  BY <1>7, <1>8, <1>9, <1>10, <1>11 DEF Calls
<1>13. QED
  BY <1>3, <1>4, <1>12, HubTouched DEF On

-----------------------------------------------------------------------------
(* What is being broadcast is the fix its publisher carries, the error of  *)
(* the provider, or the status its goroutine recorded last.                *)
Carries ==
  \A r \in Reporters : HubP!Active(r) =>
    /\ msg[r].kind = "fix" =>
         r \in Publishers /\ at[r] = "published" /\ msg[r].value = FixMsg(fix[r])
    /\ msg[r].kind = "error" => msg[r].value = Failure("provider")
    /\ msg[r].kind = "status" =>
         msg[r].value = update[r].recorded /\ (r \in Closers => at[r] = "hubClose")

(* Every step keeps it so.                                                 *)
LEMMA CarriesStep ==
  ASSUME Inv, Carries, [ServiceNext]_vars
  PROVE  Carries'
<1> SUFFICES ASSUME NEW r \in Reporters, HubP!Active(r)'
             PROVE  /\ msg'[r].kind = "fix" =>
                         r \in Publishers /\ at'[r] = "published" /\ msg'[r].value = FixMsg(fix'[r])
                    /\ msg'[r].kind = "error" => msg'[r].value = Failure("provider")
                    /\ msg'[r].kind = "status" =>
                         msg'[r].value = update'[r].recorded /\ (r \in Closers => at'[r] = "hubClose")
  BY DEF Carries, FixMsg
<1>1. Domains /\ HubP!HubInv /\ TypeInv
  BY DomainsHold DEF Inv
<1>2. DOMAIN msg = Reporters
  BY <1>1 DEF HubP!HubInv, HubP!HubTypeOK
<1> USE <1>1, <1>2 DEF Domains, Goto, Hub!Broadcast, trackerVars, fixVars
<1>3. CASE HubP!Active(r) /\ msg'[r] = msg[r] /\ pc[r] # "idle"
  BY <1>3, Waits DEF Carries
<1>4. CASE Announce(r)
  BY <1>4 DEF Announce, AfterStatus, Hub!BroadcastStatus
<1>5. CASE r \in Publishers /\ BroadcastFix(r)
  BY <1>5 DEF BroadcastFix, Hub!BroadcastFix
<1>6. CASE r \in Publishers /\ BroadcastError(r)
  BY <1>6 DEF BroadcastError, Hub!BroadcastError
<1>7. QED
  BY <1>3, <1>4, <1>5, <1>6, Begins

(* A fix is made by its admission, stored, and done with when published.   *)
LEMMA FixMoves ==
  ASSUME TypeInv, HubP!HubInv, [ServiceNext]_vars
  PROVE  \/ UNCHANGED <<fix, finished, last, cache>>
         \/ \E p \in Publishers : Admit(p) \/ CacheStore(p) \/ Published(p)
<1> DEFINE Kept == UNCHANGED <<fix, finished, last, cache>>
<1> USE DEF fixVars, rest, ghostVars
<1>1. ASSUME NEW r \in Reporters, Set(r) \/ Commit(r) \/ Announce(r) PROVE Kept
  BY <1>1 DEF Set, Commit, Announce
<1>2. ASSUME NEW p \in Publishers,
             PublishFix(p) \/ PublishError(p) \/ \E new \in Reports : PublishStatus(p, new)
      PROVE  Kept
  BY <1>2 DEF PublishFix, PublishError, PublishStatus, Publish
<1>3. ASSUME NEW p \in Publishers,
             \/ AdmitError(p) \/ AdmitRedundant(p) \/ AnnounceReady(p) \/ MarkReady(p)
             \/ BroadcastFix(p) \/ PublishAdmitError(p) \/ BroadcastError(p)
      PROVE  Kept
  BY <1>3 DEF AdmitError, AdmitRedundant, AnnounceReady, MarkReady, BroadcastFix,
              PublishAdmitError, BroadcastError
<1>4. ASSUME NEW c \in Closers, Close(c) \/ Shut(c) \/ Stop(c) \/ HubClose(c) \/ Finish(c)
                                \/ CloseReturn(c)
      PROVE  Kept
  BY <1>4 DEF Close, Shut, Stop, HubClose, Finish, CloseReturn
<1>5. Aside => Kept
  BY DEF Aside
<1> HIDE DEF Kept
<1>6. CloserActs => Kept
  BY <1>4 DEF CloserActs
<1>7. PublisherActs => Kept \/ \E p \in Publishers : Admit(p) \/ CacheStore(p) \/ Published(p)
  BY <1>1, <1>2, <1>3 DEF PublisherActs
<1>8. QED
  BY <1>5, <1>6, <1>7, ActsOrAside DEF Kept

(* No two publishers carry the same fix, and none carries one that has     *)
(* been published.                                                         *)
Fresh ==
  \A p \in Publishers : fix[p] # 0 =>
    fix[p] \notin finished /\ \A q \in Publishers : fix[q] = fix[p] => p = q

(* Every step keeps it so: an admission makes a number of its own.         *)
LEMMA FreshStep ==
  ASSUME Inv, Fresh, [ServiceNext]_vars
  PROVE  Fresh'
<1>1. TypeInv /\ HubP!HubInv /\ TypeOK /\ PlaceInv
  BY DEF Inv, TypeInv
<1>2. /\ fix \in [Reporters -> Nat] /\ \A r \in Reporters : fix[r] <= last
      /\ last \in Nat /\ finished \subseteq 1 .. last /\ Publishers \subseteq Reporters
  BY <1>1 DEF TypeOK, Reporters
<1> USE <1>2 DEF Fresh
<1>3. CASE UNCHANGED <<fix, finished, last, cache>>
  BY <1>3
<1>4. ASSUME NEW p \in Publishers, Admit(p) PROVE Fresh'
  <2>1. fix' = [fix EXCEPT ![p] = last + 1] /\ finished' = finished
    BY <1>4 DEF Admit, rest, ghostVars
  <2>2. last + 1 \notin finished /\ \A q \in Publishers : fix[q] # last + 1
    OBVIOUS
  <2>3. QED
    BY <2>1, <2>2
<1>5. ASSUME NEW p \in Publishers, CacheStore(p) PROVE Fresh'
  BY <1>5 DEF CacheStore, rest, ghostVars
<1>6. ASSUME NEW p \in Publishers, Published(p) PROVE Fresh'
  <2>1. fix' = [fix EXCEPT ![p] = 0] /\ finished' = finished \cup {fix[p]} /\ fix[p] # 0
    BY <1>1, <1>6 DEF Published, Goto, PlaceInv
  <2>2. QED
    BY <2>1
<1>7. QED
  BY <1>1, <1>3, <1>4, <1>5, <1>6, FixMoves

-----------------------------------------------------------------------------
(* Callers of Next and Current: only a step of its own moves one.          *)
LEMMA CallerMoves ==
  ASSUME TypeInv, HubP!HubInv, DOMAIN before = Callers, [ServiceNext]_vars,
         NEW w \in Callers
  PROVE  \/ at'[w] = at[w] /\ result'[w] = result[w] /\ before'[w] = before[w]
         \/ Next(w) \/ Current(w) \/ AwaitCancelled(w) \/ CallerStep(w)
<1> DEFINE Same == at'[w] = at[w] /\ result'[w] = result[w] /\ before'[w] = before[w]
<1>1. Domains
  BY DomainsHold
<1> USE <1>1, ServiceAssumption DEF Domains, Goto, rest, ghostVars
<1>2. ASSUME NEW r \in Reporters, Set(r) \/ Commit(r) \/ Announce(r) PROVE Same
  BY <1>2 DEF Set, Commit, Announce
<1>3. ASSUME NEW p \in Publishers,
             PublishFix(p) \/ PublishError(p) \/ \E new \in Reports : PublishStatus(p, new)
      PROVE  Same
  BY <1>3 DEF PublishFix, PublishError, PublishStatus, Publish
<1>4. ASSUME NEW p \in Publishers,
             \/ AdmitError(p) \/ AdmitRedundant(p) \/ Admit(p) \/ CacheStore(p)
             \/ AnnounceReady(p) \/ MarkReady(p) \/ BroadcastFix(p) \/ Published(p)
             \/ PublishAdmitError(p) \/ BroadcastError(p)
      PROVE  Same
  BY <1>4 DEF AdmitError, AdmitRedundant, Admit, CacheStore, AnnounceReady, MarkReady,
              BroadcastFix, Published, PublishAdmitError, BroadcastError
<1>5. ASSUME NEW c \in Closers, Close(c) \/ Shut(c) \/ Stop(c) \/ HubClose(c) \/ Finish(c)
                                \/ CloseReturn(c)
      PROVE  Same
  <2>1. c # w
    BY <1>5 DEF Reporters
  <2>2. QED
    BY <1>5, <2>1 DEF Close, Shut, Stop, HubClose, Finish, CloseReturn
<1>6. ASSUME NEW s \in Subscribers,
             Subscribe(s) \/ WatchCancelled(s) \/ SubscriberStep(s)
      PROVE  Same
  BY <1>6 DEF Subscribe, WatchCancelled, SubscriberStep, PrimeStatus, Add, WatchSubscription,
              WatchDone
<1>7. ASSUME NEW v \in Callers, v # w, Next(v) \/ Current(v) \/ AwaitCancelled(v)
      PROVE  Same
  <2>1. CASE Next(v) \/ Current(v)
    BY <1>7, <2>1 DEF Next, Current, Enter
  <2>2. CASE AwaitCancelled(v)
    BY <1>7, <2>2 DEF AwaitCancelled, Answer
  <2>3. QED
    BY <1>7, <2>1, <2>2
<1>8. ASSUME NEW v \in Callers, v # w, CallerStep(v) PROVE Same
  BY <1>8 DEF CallerStep, CurrentClosed, CurrentOpen, CurrentCached, CurrentStale, NextClosed,
              NextOpen, AddOnce, AddOnceRefused, AwaitEvent, AwaitClosed, RemoveOnce, Answer
<1>9. CASE HubStep \/ (\E s \in Subscribers, k \in Hub!Kinds : Receive(s, k)) \/ UNCHANGED vars
  BY <1>9 DEF HubStep, serviceVars, Receive, vars
<1> HIDE DEF Same
<1>10. QED
  BY <1>2, <1>3, <1>4, <1>5, <1>6, <1>7, <1>8, <1>9
  DEF ServiceNext, Environment, ReporterStep, Same

(* A message with a fix in it has the fix that its publisher carries.      *)
LEMMA CarriedFix ==
  ASSUME Inv, Carries, Fresh, NEW r \in Reporters, HubP!Active(r),
         "fix" \in DOMAIN msg[r].value
  PROVE  msg[r].value.fix \notin finished
<1>1. msg[r] \in HubP!Message
  BY DEF Inv, HubP!HubInv, HubP!WalkInv, HubP!Active
<1>2. msg[r].kind \in {"fix", "error", "status"}
  BY <1>1 DEF HubP!Message, HubP!Kinds
<1>3. CASE msg[r].kind = "fix"
  <2>1. r \in Publishers /\ at[r] = "published" /\ msg[r].value = FixMsg(fix[r])
    BY <1>3 DEF Carries
  <2>2. fix[r] > 0
    BY <2>1 DEF Inv, TypeInv, PlaceInv
  <2>3. QED
    BY <2>1, <2>2 DEF Fresh, FixMsg
<1>4. CASE msg[r].kind = "error"
  BY <1>4 DEF Carries, Failure
<1>5. CASE msg[r].kind = "status"
  <2>1. update[r].recorded \in Tracker!Statuses
    BY DEF Inv, TypeInv, StatusInv
  <2>2. msg[r].value = update[r].recorded
    BY <1>5 DEF Carries
  <2>3. QED
    BY <2>1, <2>2 DEF Tracker!Statuses
<1>6. QED
  BY <1>2, <1>3, <1>4, <1>5

(* What a waiter holds, and what a caller was answered from it, was not    *)
(* finished when the caller called: until then it had no channel.          *)
Holds(v, fixes) == "fix" \in DOMAIN v /\ v.fix \in fixes

UnseenInv ==
  /\ DOMAIN before = Callers
  /\ \A w \in Callers :
       /\ before[w] \subseteq finished
       /\ at[w] = "idle" => ends[w] = "unmade"
       /\ at[w] = "idle" => event[w] = <<>>
       /\ event[w] # <<>> => ~ Holds(event[w][1].value, before[w])
       /\ at[w] = "leave" => ~ Holds(result[w], before[w])

(* Only the caller makes its channel.                                      *)
LEMMA MadeByCaller ==
  ASSUME Inv, [ServiceNext]_vars, NEW w \in Callers, ends[w] = "unmade", ~ AddOnce(w)
  PROVE  ends'[w] = "unmade"
<1> DEFINE Still == ends'[w] = "unmade"
<1>1. Domains /\ HubP!HubInv /\ w \in HubP!Entries
  BY DomainsHold DEF Inv, HubP!Entries
<1>2. ends \in [HubP!Entries -> {"unmade", "open", "closed", "refused"}]
  BY <1>1 DEF HubP!HubInv, HubP!HubTypeOK
<1> USE DEF Hub!registry, Hub!channels, Hub!mutex, Hub!walks
<1>3. ASSUME HubStep \/ (\E v \in Callers : AwaitEvent(v))
                     \/ \E s \in Subscribers, k \in Hub!Kinds : Receive(s, k)
      PROVE  Still
  <2>1. HubP!HubStep \/ HubP!Read
    BY <1>3, SameSteps DEF HubStep, AwaitEvent, Receive, HubP!Read
  <2>2. QED
    BY <1>1, <2>1, HubAssumed, HubP!UnmadeKept
<1>4. ASSUME NEW r \in Reporters, Announce(r) PROVE Still
  BY <1>4 DEF Announce, Hub!BroadcastStatus, Hub!Broadcast
<1>5. ASSUME NEW p \in Publishers, BroadcastFix(p) \/ BroadcastError(p) PROVE Still
  BY <1>5 DEF BroadcastFix, BroadcastError, Hub!BroadcastFix, Hub!BroadcastError, Hub!Broadcast
<1>6. ASSUME NEW c \in Closers, HubClose(c) PROVE Still
  BY <1>6 DEF HubClose, Hub!CloseCall
<1>7. ASSUME NEW v \in Callers, v # w, AddOnce(v) PROVE Still
  BY <1>2, <1>7 DEF AddOnce, Hub!AddOnceCall
<1>8. ASSUME NEW v \in Callers, RemoveOnce(v) PROVE Still
  BY <1>8 DEF RemoveOnce, Hub!RemoveOnceCall
<1>9. ASSUME NEW s \in Subscribers, Add(s) \/ WatchCancelled(s) PROVE Still
  <2>1. s # w
    BY ServiceAssumption
  <2>2. QED
    BY <1>1, <1>2, <1>9, <2>1 DEF Add, WatchCancelled, Hub!AddCall, Hub!RemoveCall
<1>10. UNCHANGED hubVars => Still
  BY DEF hubVars
<1> HIDE DEF Still
<1>11. Still
  BY <1>3, <1>4, <1>5, <1>6, <1>7, <1>8, <1>9, <1>10, HubTouched DEF Calls
<1>12. QED
  BY <1>11 DEF Still

(* An event arrives from a walk that found the waiter registered.          *)
LEMMA EventsUnseen ==
  ASSUME Inv, Carries, Fresh, UnseenInv, [ServiceNext]_vars, NEW w \in Callers
  PROVE  event'[w] # <<>> => at[w] # "idle" /\ ~ Holds(event'[w][1].value, before[w])
<1>1. [HubP!HubNext]_HubP!hubVars /\ HubP!HubInv
  BY HubMoves DEF Inv
<1>2. event \in [Callers -> Seq(HubP!Message)]
  BY <1>1 DEF HubP!HubInv, HubP!HubTypeOK
<1>3. CASE event' = event
  BY <1>3 DEF UnseenInv
<1>4. ASSUME NEW b \in Reporters, NEW v \in Callers, HubP!Wake(b, v)
      PROVE  event'[w] # <<>> => at[w] # "idle" /\ ~ Holds(event'[w][1].value, before[w])
  <2>1. CASE event'[w] = event[w]
    BY <2>1 DEF UnseenInv
  <2>2. CASE event'[w] # event[w]
    <3>1. v = w /\ event'[w] = <<msg[b]>>
      BY <1>2, <1>4, <2>2 DEF HubP!Wake
    <3>2. HubP!Active(b) /\ w \in waiters
      BY <1>1, <1>4, <3>1 DEF HubP!Wake, HubP!Active, HubP!Reading, HubP!HubInv, HubP!WalkInv,
         HubP!Walking
    <3>3. ends[w] = "open"
      BY <1>1, <3>2 DEF HubP!HubInv, HubP!NoDoubleClose
    <3>4. ~ Holds(msg[b].value, before[w])
      BY <3>2, CarriedFix DEF UnseenInv, Holds
    <3>5. event'[w][1] = msg[b]
      BY <3>1
    <3>6. QED
      BY <3>3, <3>4, <3>5 DEF UnseenInv
  <2>3. QED
    BY <2>1, <2>2
<1>5. ASSUME NEW v \in Callers, HubP!Take(v)
      PROVE  event'[w] # <<>> => at[w] # "idle" /\ ~ Holds(event'[w][1].value, before[w])
  <2>1. event'[w] # <<>> => event'[w] = event[w]
    BY <1>2, <1>5 DEF HubP!Take
  <2>2. QED
    BY <2>1 DEF UnseenInv
<1>6. QED
  BY <1>1, <1>3, <1>4, <1>5, HubAssumed, HubP!EventMoves

(* Where a step may leave a caller, and with which answer.                 *)
LEMMA CallerFrom ==
  ASSUME Inv, DOMAIN before = Callers, [ServiceNext]_vars, NEW w \in Callers
  PROVE  /\ \/ before'[w] = before[w]
            \/ before'[w] = finished /\ at[w] = "idle"
         /\ at'[w] = "idle" => at[w] = "idle" /\ ~ AddOnce(w)
         /\ at'[w] = "leave" =>
              /\ before'[w] = before[w]
              /\ \/ at[w] = "leave" /\ result'[w] = result[w]
                 \/ event[w] # <<>> /\ result'[w] = event[w][1].value
                 \/ "fix" \notin DOMAIN result'[w]
<1>1. Domains /\ TypeInv /\ HubP!HubInv
  BY DomainsHold DEF Inv
<1>2. w \in DOMAIN at /\ w \in DOMAIN result /\ w \in DOMAIN before
  BY <1>1 DEF Domains
<1> USE <1>2 DEF Goto
<1>3. ASSUME at'[w] = at[w], result'[w] = result[w], before'[w] = before[w]
      PROVE  ~ AddOnce(w)
  BY <1>3 DEF AddOnce
<1>4. ASSUME Next(w) \/ Current(w)
      PROVE  before'[w] = finished /\ at[w] = "idle" /\ at'[w] \in {"next", "current"}
  BY <1>4 DEF Next, Current, Enter
<1>5. ASSUME AwaitCancelled(w) \/ AwaitClosed(w)
      PROVE  before' = before /\ at'[w] = "leave" /\ "fix" \notin DOMAIN result'[w]
  BY <1>5 DEF AwaitCancelled, AwaitClosed, Answer, Failure, ghostVars
<1>6. ASSUME CurrentClosed(w) \/ CurrentCached(w) \/ NextClosed(w) \/ AddOnceRefused(w)
      PROVE  before' = before /\ at'[w] = "done"
  BY <1>6 DEF CurrentClosed, CurrentCached, NextClosed, AddOnceRefused, Answer, ghostVars
<1>7. ASSUME CurrentOpen(w) \/ CurrentStale(w) \/ NextOpen(w) \/ AddOnce(w) \/ RemoveOnce(w)
      PROVE  before' = before /\ at'[w] \in {"load", "next", "register", "await", "done"}
  BY <1>7 DEF CurrentOpen, CurrentStale, NextOpen, AddOnce, RemoveOnce, rest, ghostVars
<1>8. ASSUME AwaitEvent(w)
      PROVE  /\ before' = before /\ at'[w] = "leave"
             /\ event[w] # <<>> /\ result'[w] = event[w][1].value
  BY <1>8 DEF AwaitEvent, Answer, EventAnswer, Hub!Take, ghostVars
<1>9. \/ at'[w] = at[w] /\ result'[w] = result[w] /\ before'[w] = before[w]
      \/ Next(w) \/ Current(w) \/ AwaitCancelled(w) \/ CallerStep(w)
  BY <1>1, CallerMoves
<1>10. CASE at'[w] = at[w] /\ result'[w] = result[w] /\ before'[w] = before[w]
  BY <1>3, <1>10
<1>11. CASE Next(w) \/ Current(w)
  BY <1>4, <1>7, <1>11
<1>12. CASE AwaitCancelled(w) \/ CallerStep(w)
  BY <1>5, <1>6, <1>7, <1>8, <1>12 DEF CallerStep
<1>13. QED
  BY <1>9, <1>10, <1>11, <1>12

(* Nothing becomes unfinished.                                             *)
LEMMA FinishedGrows ==
  ASSUME TypeInv, HubP!HubInv, [ServiceNext]_vars
  PROVE  finished \subseteq finished'
BY FixMoves DEF Admit, CacheStore, Published, rest, ghostVars

(* Every caller has a record of what was finished before, all along.       *)
LEMMA BeforeKept ==
  ASSUME DOMAIN before = Callers, [ServiceNext]_vars
  PROVE  DOMAIN before' = Callers
<1>1. ASSUME NEW w \in Callers, Next(w) \/ Current(w) PROVE DOMAIN before' = Callers
  BY <1>1 DEF Next, Current, Enter
<1>2. QED
  BY <1>1
  DEF ServiceNext, Environment, ReporterStep, CallerStep, SubscriberStep, HubStep, serviceVars,
      rest, ghostVars, vars, Set, Commit, Announce, Publish, PublishFix, PublishError,
      PublishStatus, AdmitError, AdmitRedundant, Admit, CacheStore, AnnounceReady, MarkReady,
      BroadcastFix, Published, PublishAdmitError, BroadcastError, Close, Shut, Stop, HubClose,
      Finish, CloseReturn, Answer, CurrentClosed, CurrentOpen, CurrentCached, CurrentStale,
      NextClosed, NextOpen, AddOnce, AddOnceRefused, AwaitEvent, AwaitClosed, RemoveOnce,
      AwaitCancelled, Subscribe, WatchCancelled, Receive, PrimeStatus, Add, WatchSubscription,
      WatchDone

(* Every step keeps what is held unseen.                                   *)
LEMMA UnseenStep ==
  ASSUME Inv, Carries, Fresh, UnseenInv, [ServiceNext]_vars
  PROVE  UnseenInv'
<1>1. TypeInv /\ HubP!HubInv /\ DOMAIN before = Callers
  BY DEF Inv, UnseenInv
<1>2. DOMAIN before' = Callers /\ finished \subseteq finished'
  BY <1>1, BeforeKept, FinishedGrows
<1>3. ASSUME NEW w \in Callers
      PROVE  /\ before'[w] \subseteq finished'
             /\ at'[w] = "idle" => ends'[w] = "unmade"
             /\ at'[w] = "idle" => event'[w] = <<>>
             /\ event'[w] # <<>> => ~ Holds(event'[w][1].value, before'[w])
             /\ at'[w] = "leave" => ~ Holds(result'[w], before'[w])
  <2>1. before'[w] = before[w] \/ (before'[w] = finished /\ at[w] = "idle")
    BY <1>1, CallerFrom
  <2>2. before'[w] \subseteq finished'
    BY <1>2, <2>1 DEF UnseenInv
  <2>3. at'[w] = "idle" => ends'[w] = "unmade"
    BY <1>1, CallerFrom, MadeByCaller DEF UnseenInv
  <2>4. event'[w] # <<>> => at[w] # "idle" /\ ~ Holds(event'[w][1].value, before[w])
    BY EventsUnseen
  <2>5. at'[w] = "idle" => event'[w] = <<>>
    BY <1>1, <2>4, CallerFrom DEF UnseenInv
  <2>6. event'[w] # <<>> => ~ Holds(event'[w][1].value, before'[w])
    BY <2>1, <2>4 DEF UnseenInv
  <2>7. at'[w] = "leave" => ~ Holds(result'[w], before'[w])
    BY <1>1, CallerFrom DEF UnseenInv, Holds
  <2>8. QED
    BY <2>2, <2>3, <2>5, <2>6, <2>7
<1>4. QED
  BY <1>2, <1>3 DEF UnseenInv, Holds

(* Next answers with a fix that was still to be published when it was      *)
(* called, however many goroutines publish.                                *)
THEOREM NextWaitsForNews == Spec => []NextIsNew
<1>1. Init => Carries /\ Fresh /\ UnseenInv
  <2>1. Init => Carries
    BY DEF Init, Hub!HubInit, Hub!Goroutines, Carries, HubP!Active, HubP!Reading
  <2>2. Init => Fresh /\ UnseenInv
    BY ServiceAssumption DEF Init, Hub!HubInit, Fresh, UnseenInv, Goroutines, Reporters
  <2>3. QED
    BY <2>1, <2>2
<1>2. Inv /\ Carries /\ Fresh /\ UnseenInv /\ [ServiceNext]_vars
        => Carries' /\ Fresh' /\ UnseenInv'
  BY CarriesStep, FreshStep, UnseenStep
<1>3. UnseenInv => NextIsNew
  BY DEF UnseenInv, NextIsNew, Answered, Holds
<1>4. QED
  BY <1>1, <1>2, <1>3, ServiceInvariant, PTL DEF Spec

-----------------------------------------------------------------------------
(* The order of fixes, beside one publisher: a queue whose values rise and *)
(* are at most top.                                                        *)
Rising(q, top) ==
  \A i \in 1 .. Len(q) :
    /\ q[i].fix \in Nat /\ q[i].fix <= top
    /\ \A j \in i .. Len(q) : q[i].fix <= q[j].fix

(* It stays so when its bound rises,                                       *)
LEMMA RisingBelow ==
  ASSUME NEW q \in Seq(Payload), NEW top \in Nat, NEW higher \in Nat, Rising(q, top), top <= higher
  PROVE  Rising(q, higher)
<1>1. ASSUME NEW i \in 1 .. Len(q) PROVE q[i].fix <= higher
  <2>1. q[i].fix \in Nat /\ q[i].fix <= top
    BY DEF Rising
  <2>2. QED
    BY <2>1
<1>2. QED
  BY <1>1 DEF Rising

(* when its oldest value is taken,                                         *)
LEMMA RisingTail ==
  ASSUME NEW q \in Seq(Payload), q # <<>>, NEW top \in Nat, Rising(q, top)
  PROVE  Rising(Tail(q), top)
<1> DEFINE t == Tail(q)
<1>1. Len(q) \in Nat /\ Len(t) = Len(q) - 1 /\ \A i \in 1 .. Len(t) : t[i] = q[i + 1]
  OBVIOUS
<1> HIDE DEF t
<1>2. ASSUME NEW i \in 1 .. Len(t)
      PROVE  /\ t[i].fix \in Nat /\ t[i].fix <= top
             /\ \A j \in i .. Len(t) : t[i].fix <= t[j].fix
  <2>1. i + 1 \in 1 .. Len(q) /\ t[i] = q[i + 1]
    BY <1>1
  <2>2. ASSUME NEW j \in i .. Len(t) PROVE t[i].fix <= t[j].fix
    <3>1. j \in 1 .. Len(t) /\ j + 1 \in (i + 1) .. Len(q)
      BY <1>1
    <3>2. t[j] = q[j + 1]
      BY <1>1, <3>1
    <3>3. q[i + 1].fix <= q[j + 1].fix
      BY <2>1, <3>1 DEF Rising
    <3>4. QED
      BY <2>1, <3>2, <3>3
  <2>3. QED
    BY <2>1, <2>2 DEF Rising
<1>3. Rising(t, top)
  BY <1>2 DEF Rising
<1>4. QED
  BY <1>3 DEF t

(* and when its bound is appended.                                         *)
LEMMA RisingAppend ==
  ASSUME NEW q \in Seq(Payload), NEW v \in Payload, v.fix \in Nat, Rising(q, v.fix)
  PROVE  Rising(Append(q, v), v.fix)
<1> DEFINE a == Append(q, v)
<1>1. /\ Len(q) \in Nat /\ Len(a) = Len(q) + 1 /\ a[Len(q) + 1] = v
      /\ \A i \in 1 .. Len(q) : a[i] = q[i]
  OBVIOUS
<1> HIDE DEF a
<1>2. ASSUME NEW i \in 1 .. Len(a)
      PROVE  /\ a[i].fix \in Nat /\ a[i].fix <= v.fix
             /\ \A j \in i .. Len(a) : a[i].fix <= a[j].fix
  <2>1. CASE i = Len(q) + 1
    <3>1. a[i] = v /\ \A j \in i .. Len(a) : j = i
      BY <1>1, <2>1
    <3>2. QED
      BY <3>1
  <2>2. CASE i \in 1 .. Len(q)
    <3>1. a[i] = q[i] /\ q[i].fix \in Nat /\ q[i].fix <= v.fix
      BY <1>1, <2>2 DEF Rising
    <3>2. ASSUME NEW j \in i .. Len(a) PROVE a[i].fix <= a[j].fix
      <4>1. CASE j = Len(q) + 1
        BY <1>1, <3>1, <4>1
      <4>2. CASE j \in i .. Len(q)
        <5>1. j \in 1 .. Len(q)
          BY <1>1, <2>2, <4>2
        <5>2. q[i].fix <= q[j].fix
          BY <2>2, <4>2 DEF Rising
        <5>3. QED
          BY <1>1, <3>1, <5>1, <5>2
      <4>3. QED
        BY <1>1, <4>1, <4>2
    <3>3. QED
      BY <3>1, <3>2
  <2>3. QED
    BY <1>1, <2>1, <2>2
<1>3. Rising(a, v.fix)
  BY <1>2 DEF Rising
<1>4. QED
  BY <1>3 DEF a

(* The fix the publisher carries is the newest; and no fix that waits in a *)
(* channel, or for its Add, is newer than the cache.                       *)
LatestInv == \A p \in Publishers : fix[p] # 0 => fix[p] = last

FixOrderInv ==
  /\ LatestInv
  /\ \A s \in Subscribers : Rising(chan[s]["fix"], cache) /\ Rising(prime[s]["fix"], cache)

(* The one publisher admits the next fix when it has published the last.   *)
LEMMA LatestStep ==
  ASSUME Inv, NewestInv, LatestInv, NEW q, Publishers = {q}, [ServiceNext]_vars
  PROVE  LatestInv' /\ cache \in Nat /\ cache' \in Nat /\ cache <= cache'
<1>1. /\ fix \in [Reporters -> Nat] /\ last \in Nat /\ cache \in Nat /\ cache <= last
      /\ Publishers \subseteq Reporters /\ TypeInv /\ HubP!HubInv
  BY DEF Inv, TypeInv, TypeOK, Reporters
<1> USE <1>1
<1>2. CASE UNCHANGED <<fix, finished, last, cache>>
  BY <1>2 DEF LatestInv
<1>3. ASSUME NEW p \in Publishers, Admit(p) PROVE LatestInv' /\ cache' = cache
  BY <1>3 DEF Admit, LatestInv
<1>4. ASSUME NEW p \in Publishers, CacheStore(p) PROVE LatestInv' /\ cache' = last
  BY <1>4 DEF CacheStore, Cached, NewestInv, LatestInv, Goto
<1>5. ASSUME NEW p \in Publishers, Published(p) PROVE LatestInv' /\ cache' = cache
  BY <1>5 DEF Published, LatestInv
<1>6. QED
  BY <1>2, <1>3, <1>4, <1>5, FixMoves

(* A subscription's Add is called once, with what the cache holds.         *)
LEMMA PrimeMoves ==
  ASSUME [ServiceNext]_vars
  PROVE  prime' = prime \/ \E s \in Subscribers : Add(s)
<1>1. CASE UNCHANGED hubVars
  BY <1>1 DEF hubVars
<1>2. CASE HubStep \/ (\E w \in Callers : AwaitEvent(w))
                   \/ \E s \in Subscribers, k \in Hub!Kinds : Receive(s, k)
  <2>1. HubP!HubStep \/ HubP!Read
    BY <1>2, SameSteps DEF HubStep, AwaitEvent, Receive, HubP!Read
  <2>2. QED
    BY <2>1, HubAssumed, HubP!PrimeKept
<1>3. CASE Calls
  BY <1>3
  DEF Calls, Announce, BroadcastFix, BroadcastError, Hub!BroadcastStatus, Hub!BroadcastFix,
      Hub!BroadcastError, Hub!Broadcast, Hub!calls, HubClose, Hub!CloseCall, AddOnce,
      Hub!AddOnceCall, RemoveOnce, Hub!RemoveOnceCall, WatchCancelled, Hub!RemoveCall
<1>4. QED
  BY <1>1, <1>2, <1>3, HubTouched

(* A fix that is sent is the one in the cache, the newest admitted.        *)
LEMMA SendsLatest ==
  ASSUME Inv, Carries, NewestInv, LatestInv, NEW b \in Reporters, HubP!Active(b),
         msg[b].kind = "fix"
  PROVE  msg[b].value.fix = cache
<1>1. b \in Publishers /\ at[b] = "published" /\ msg[b].value = FixMsg(fix[b])
  BY DEF Carries
<1>2. fix[b] # 0
  BY <1>1 DEF Inv, TypeInv, PlaceInv
<1>3. QED
  BY <1>1, <1>2 DEF NewestInv, LatestInv, FixMsg

(* Every step keeps a subscription's fixes in order.                       *)
LEMMA FixOrderStep ==
  ASSUME Inv, Carries, NewestInv, FixOrderInv, NEW q, Publishers = {q}, [ServiceNext]_vars
  PROVE  FixOrderInv'
<1>1. /\ [HubP!HubNext]_HubP!hubVars /\ HubP!HubInv /\ HubP!HubInv'
      /\ LatestInv' /\ cache \in Nat /\ cache' \in Nat /\ cache <= cache'
  BY HubMoves, LatestStep DEF Inv, FixOrderInv
<1>2. /\ chan \in [Subscribers -> [HubP!Kinds -> Seq(Payload)]]
      /\ prime \in [Subscribers -> [HubP!Kinds -> Seq(Payload)]]
      /\ chan' \in [Subscribers -> [HubP!Kinds -> Seq(Payload)]]
      /\ prime' \in [Subscribers -> [HubP!Kinds -> Seq(Payload)]]
      /\ "fix" \in HubP!Kinds
  BY <1>1 DEF HubP!HubInv, HubP!HubTypeOK, HubP!Kinds
<1>3. ASSUME NEW s \in Subscribers PROVE Rising(chan'[s]["fix"], cache)
  <2> DEFINE Q == chan[s]["fix"]
  <2>1. Q \in Seq(Payload) /\ Rising(Q, cache)
    BY <1>2 DEF FixOrderInv
  <2>2. CASE chan'[s]["fix"] = Q
    BY <2>1, <2>2
  <2>3. ASSUME NEW b \in Reporters, NEW u \in Subscribers, HubP!Sends(b, u), chan'[s]["fix"] # Q
        PROVE  Rising(chan'[s]["fix"], cache)
    <3>1. u = s /\ msg[b].kind = "fix" /\ chan'[s]["fix"] = Append(Q, msg[b].value)
      BY <1>2, <2>3 DEF HubP!Sends, HubP!Send
    <3>2. HubP!Active(b)
      BY <2>3 DEF HubP!Sends, HubP!Active, HubP!Reading
    <3>3. msg[b].value.fix = cache
      BY <3>1, <3>2, SendsLatest DEF FixOrderInv
    <3>4. msg[b].value \in Payload
      BY <1>1, <3>2 DEF HubP!HubInv, HubP!WalkInv, HubP!Active, HubP!Message
    <3>5. Rising(Append(Q, msg[b].value), cache)
      BY <1>1, <2>1, <3>3, <3>4, RisingAppend
    <3>6. QED
      BY <3>1, <3>5
  <2>4. ASSUME NEW b \in Reporters, HubP!Discard(b), chan'[s]["fix"] # Q
        PROVE  Rising(chan'[s]["fix"], cache)
    <3>1. chan'[s]["fix"] = HubP!Discarded(Q)
      BY <1>2, <2>4 DEF HubP!Discard
    <3>2. Q # <<>> /\ chan'[s]["fix"] = Tail(Q)
      BY <2>4, <3>1 DEF HubP!Discarded
    <3>3. QED
      BY <1>1, <2>1, <3>2, RisingTail
  <2>5. ASSUME NEW u \in Subscribers, NEW k \in HubP!Kinds, HubP!Receive(u, k),
               chan'[s]["fix"] # Q
        PROVE  Rising(chan'[s]["fix"], cache)
    <3>1. Q # <<>> /\ chan'[s]["fix"] = Tail(Q)
      BY <1>2, <2>5 DEF HubP!Receive
    <3>2. QED
      BY <1>1, <2>1, <3>1, RisingTail
  <2>6. ASSUME NEW u \in Subscribers, HubP!Primes(u), chan'[s]["fix"] # Q
        PROVE  Rising(chan'[s]["fix"], cache)
    <3>1. chan'[s]["fix"] = prime[s]["fix"]
      BY <1>2, <2>6 DEF HubP!Primes
    <3>2. QED
      BY <3>1 DEF FixOrderInv
  <2>7. QED
    BY <1>1, <2>2, <2>3, <2>4, <2>5, <2>6, HubAssumed, HubP!ChannelMoves
<1>4. ASSUME NEW s \in Subscribers PROVE Rising(prime'[s]["fix"], cache)
  <2>1. CASE prime' = prime
    BY <2>1 DEF FixOrderInv
  <2>2. ASSUME NEW u \in Subscribers, Add(u), prime'[s] # prime[s]
        PROVE  Rising(prime'[s]["fix"], cache)
    <3>1. prime'[s]["fix"] = Replayed(s)
      BY <1>2, <2>2 DEF Add, Hub!AddCall, Priming
    <3>2. CASE Replayed(s) = <<>>
      BY <3>1, <3>2 DEF Rising
    <3>3. CASE Replayed(s) = <<FixMsg(cache)>>
      BY <1>1, <3>1, <3>3 DEF Rising, FixMsg
    <3>4. QED
      BY <3>2, <3>3 DEF Replayed
  <2>3. QED
    BY <2>1, <2>2, PrimeMoves DEF FixOrderInv
<1>5. ASSUME NEW s \in Subscribers
      PROVE  Rising(chan'[s]["fix"], cache') /\ Rising(prime'[s]["fix"], cache')
  BY <1>1, <1>2, <1>3, <1>4, RisingBelow
<1>6. QED
  BY <1>1, <1>5 DEF FixOrderInv, Rising

(* On a platform where one goroutine publishes, no subscription holds a    *)
(* newer fix in front of an older one.                                     *)
THEOREM FixesStayInOrder ==
  ASSUME NEW q, Publishers = {q}
  PROVE  Spec => []FixesInOrder
<1>1. Init => Carries /\ NewestInv /\ FixOrderInv
  <2>1. Init => Carries
    BY DEF Init, Hub!HubInit, Hub!Goroutines, Carries, HubP!Active, HubP!Reading
  <2>2. Init => NewestInv
    BY DEF Init, NewestInv, Goroutines, Reporters
  <2>3. Init => FixOrderInv
    BY DEF Init, Hub!HubInit, Hub!NoValues, Hub!Kinds, FixOrderInv, LatestInv, Rising, Reporters
  <2>4. QED
    BY <2>1, <2>2, <2>3
<1>2. Inv /\ Carries /\ NewestInv /\ FixOrderInv /\ [ServiceNext]_vars
        => Carries' /\ NewestInv' /\ FixOrderInv'
  BY CarriesStep, NewestStep, FixOrderStep DEF Inv
<1>3. Inv /\ FixOrderInv => FixesInOrder
  <2> SUFFICES ASSUME FixOrderInv, Inv, NEW s \in Subscribers,
                      NEW i \in 1 .. Len(chan[s]["fix"]), NEW j \in 1 .. Len(chan[s]["fix"]),
                      i <= j
               PROVE  chan[s]["fix"][i].fix <= chan[s]["fix"][j].fix
    BY DEF FixesInOrder
  <2>1. chan[s]["fix"] \in Seq(Payload)
    BY DEF Inv, HubP!HubInv, HubP!HubTypeOK, HubP!Kinds
  <2>2. j \in i .. Len(chan[s]["fix"])
    BY <2>1
  <2>3. QED
    BY <2>2 DEF FixOrderInv, Rising
<1>4. QED
  BY <1>1, <1>2, <1>3, ServiceInvariant, PTL DEF Spec
=============================================================================
