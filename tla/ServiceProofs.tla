--------------------------- MODULE ServiceProofs ---------------------------
(***************************************************************************)
(* The service composed with its hub and its tracker, for any number of    *)
(* publishers, callers, subscriptions and closers. That it implements the  *)
(* hub's own specification carries the hub's theorems over; what Close     *)
(* promises then follows from where the closing goroutine is.              *)
(***************************************************************************)
EXTENDS LocationService, TLAPS

HubP == INSTANCE ChanHubProofs WITH Broadcasters <- Reporters, Subs <- Subscribers,
                                    Waiters <- Callers

PublishSteps == {"idle", "admit", "error", "sendError", "store", "ready", "mark", "set",
                 "commit", "announce", "fix", "published"}

Tearing    == {"shut", "stop", "set", "commit", "announce", "hubClose", "finish"}
PastStop   == Tearing \ {"shut", "stop"}
CloseSteps == Tearing \cup {"idle", "wait"}

(* Types, of what is carried between two steps of a method as well.        *)
DomainInv ==
  /\ DOMAIN at = Goroutines /\ DOMAIN result = Callers \cup Closers
  /\ DOMAIN report = Reporters \cup Subscribers /\ DOMAIN fix = Reporters
  /\ DOMAIN made = Publishers /\ DOMAIN update = Reporters

StatusInv ==
  /\ status \in Tracker!Statuses
  /\ \A g \in Reporters \cup Subscribers : report[g] \in Tracker!Statuses
  /\ \A r \in Reporters : update[r].recorded \in Tracker!Statuses

(* A publisher carries a fix from its admission until it is published.     *)
PlaceInv ==
  /\ \A p \in Publishers :
       /\ at[p] \in PublishSteps
       /\ at[p] \in {"store", "ready", "mark", "fix", "published"} => fix[p] > 0
       /\ at[p] \in {"idle", "admit", "error", "sendError", "set"} => fix[p] = 0
       /\ at[p] = "set" => report[p] \in Reports
  /\ \A c \in Closers : at[c] \in CloseSteps /\ fix[c] = 0

TypeInv == TypeOK /\ DomainInv /\ StatusInv /\ PlaceInv

(* The tracker's mutex is held from the first store to the second.         *)
TrackerInv ==
  /\ mu = Nobody => word = status.state
  /\ mu # Nobody => mu \in Reporters /\ at[mu] = "commit" /\ word = update[mu].recorded.state
  /\ \A r \in Reporters : at[r] = "commit" => mu = r

(* One goroutine at most runs the teardown. Past its Stop the service is   *)
(* shut, and a provider that waits has nothing under way.                  *)
CloseInv ==
  /\ guard = "none" => \A c \in Closers : at[c] = "idle"
  /\ \A c \in Closers : at[c] \in Tearing =>
       guard = "running" /\ \A d \in Closers : at[d] \in Tearing => c = d
  /\ \A c \in Closers : at[c] \in Tearing \ {"shut"} => shut
  /\ \A c \in Closers : at[c] \in PastStop => stopErr # "none"
  /\ stopErr # "none" => shut /\ (stopWaits => Streaming)
  /\ guard = "done" => stopErr # "none"
  /\ \A c \in Closers : result[c] # NoAnswer => guard = "done" /\ result[c] = Stopped(stopErr)

(* Only the teardown records Closed, once Stop has returned.               *)
ClosedInv ==
  /\ \A c \in Closers : /\ at[c] = "set" => report[c].state = "Closed"
                        /\ at[c] = "commit" => update[c].recorded.state = "Closed"
  /\ \A p \in Publishers : at[p] = "commit" => update[p].recorded.state # "Closed"
  /\ status.state = "Closed" => stopErr # "none"
  /\ stopWaits /\ (guard = "done" \/ \E c \in Closers : at[c] \in {"announce", "hubClose", "finish"})
       => status.state = "Closed"

(* The teardown waits in the hub's Close before it is done.                *)
HubCloseInv ==
  /\ \A c \in Closers : op[c] # "none" => at[c] = "finish"
  /\ \A c \in Closers : at[c] = "finish" => closed \/ op[c] = "close"
  /\ guard = "done" => closed

(* Beside one publisher: the fix it stores is the newest, and readiness    *)
(* is on record when it broadcasts.                                        *)
NewestInv ==
  \A p \in Publishers : IF at[p] = "store" THEN fix[p] = last ELSE cache = last

ReadyInv ==
  \A p \in Publishers :
    /\ at[p] = "commit" /\ fix[p] # 0 => update[p].recorded.state = "Ready"
    /\ (at[p] = "announce" /\ fix[p] # 0) \/ at[p] \in {"fix", "published"} =>
         status.state = "Ready" \/ shut

-----------------------------------------------------------------------------
(* The service calls the hub as it was assumed for the hub's theorems.     *)
LEMMA HubAssumed == HubP!HubAssumption
BY ServiceAssumption DEF HubP!HubAssumption, Goroutines, Reporters

(* The theorems' hub is the service's: one module, instantiated twice.     *)
LEMMA SameHub ==
  /\ Hub!HubInit <=> HubP!HubInit
  /\ [Hub!HubNext]_Hub!hubVars <=> [HubP!HubNext]_HubP!hubVars
BY DEF Hub!Kinds, HubP!Kinds, Hub!Writers, HubP!Writers, Hub!Goroutines,
       HubP!Goroutines, Hub!registry, HubP!registry, Hub!channels,
       HubP!channels, Hub!mutex, HubP!mutex, Hub!walks, HubP!walks,
       Hub!calls, HubP!calls, Hub!hubVars, HubP!hubVars, Hub!NoValues,
       HubP!NoValues, Hub!HubInit, HubP!HubInit, Hub!Lock, HubP!Lock,
       Hub!Drained, HubP!Drained, Hub!Locked, HubP!Locked, Hub!Unlock,
       HubP!Unlock, Hub!RLockFree, HubP!RLockFree, Hub!RLockWaits,
       HubP!RLockWaits, Hub!RLockAdmitted, HubP!RLockAdmitted,
       Hub!Broadcast, HubP!Broadcast, Hub!BroadcastFix, HubP!BroadcastFix,
       Hub!BroadcastError, HubP!BroadcastError, Hub!BroadcastStatus,
       HubP!BroadcastStatus, Hub!Woken, HubP!Woken, Hub!StartWalk,
       HubP!StartWalk, Hub!Queue, HubP!Queue, Hub!HasRoom, HubP!HasRoom,
       Hub!Send, HubP!Send, Hub!Offer, HubP!Offer, Hub!Refuses,
       HubP!Refuses, Hub!OfferRefused, HubP!OfferRefused, Hub!OfferFull,
       HubP!OfferFull, Hub!Discarded, HubP!Discarded, Hub!Discard,
       HubP!Discard, Hub!Retry, HubP!Retry, Hub!Resend, HubP!Resend,
       Hub!Wake, HubP!Wake, Hub!Walked, HubP!Walked, Hub!RUnlock,
       HubP!RUnlock, Hub!Call, HubP!Call, Hub!AddCall, HubP!AddCall,
       Hub!InSection, HubP!InSection, Hub!HubClosed, HubP!HubClosed,
       Hub!Add, HubP!Add, Hub!RemoveCall, HubP!RemoveCall, Hub!Remove,
       HubP!Remove, Hub!AddOnceCall, HubP!AddOnceCall, Hub!AddOnce,
       HubP!AddOnce, Hub!RemoveOnceCall, HubP!RemoveOnceCall,
       Hub!RemoveOnce, HubP!RemoveOnce, Hub!CloseCall, HubP!CloseCall,
       Hub!Close, HubP!Close, Hub!CloseAgain, HubP!CloseAgain, Hub!CloseSub,
       HubP!CloseSub, Hub!CloseWaiter, HubP!CloseWaiter, Hub!CloseDone,
       HubP!CloseDone, Hub!Receive, HubP!Receive, Hub!Take, HubP!Take,
       Hub!BroadcastStep, HubP!BroadcastStep, Hub!WriteStep, HubP!WriteStep,
       Hub!HubStep, HubP!HubStep, Hub!Read, HubP!Read, Hub!Message,
       HubP!Message, Hub!IsPriming, HubP!IsPriming, Hub!HubCall,
       HubP!HubCall, Hub!HubNext, HubP!HubNext

(* So a step the hub allows keeps the hub's invariant.                     *)
LEMMA HubKept ==
  ASSUME HubP!HubInv, [Hub!HubNext]_Hub!hubVars
  PROVE  HubP!HubInv'
<1>1. [HubP!HubNext]_HubP!hubVars
  BY SameHub
<1>2. QED
  BY <1>1, HubAssumed, HubP!TypeStep, HubP!LockInvStep, HubP!WalkInvStep, HubP!CallInvStep,
     HubP!NoDoubleCloseStep, HubP!ClosedHubStep DEF HubP!HubInv

(* A broadcast of anything the service broadcasts is a call of the hub.    *)
LEMMA BroadcastAllowed ==
  ASSUME HubP!HubInv, NEW r \in Reporters, NEW k \in Hub!Kinds, NEW v \in Payload,
         Hub!Broadcast(r, k, v)
  PROVE  Hub!HubNext
<1>1. msg'[r] = [kind |-> k, value |-> v]
  BY DEF HubP!HubInv, HubP!HubTypeOK, Hub!Broadcast
<1>2. msg'[r] \in Hub!Message
  BY <1>1 DEF Hub!Message
<1>3. Hub!Broadcast(r, msg'[r].kind, msg'[r].value)
  BY <1>1
<1>4. QED
  BY <1>2, <1>3 DEF Hub!HubNext, Hub!HubCall

(* A subscription is primed with the status, and with the cached fix.      *)
LEMMA PrimingAllowed ==
  ASSUME TypeInv, NEW s \in Subscribers
  PROVE  Hub!IsPriming(Priming(s))
<1>1. report[s] \in Payload
  BY DEF TypeInv, StatusInv, Payload, Tracker!Statuses, Tracker!States,
         Tracker!Permissions, States, Permissions
<1>2. FixMsg(cache) \in Payload
  BY DEF TypeInv, TypeOK, FixMsg, Payload
<1>3. Replayed(s) \in Seq(Payload) /\ Len(Replayed(s)) <= 1
  BY <1>2 DEF Replayed
<1>4. <<report[s]>> \in Seq(Payload) /\ Len(<<report[s]>>) = 1
  BY <1>1
<1>5. Priming(s) = [k \in Hub!Kinds |-> IF k = "status" THEN <<report[s]>>
                                   ELSE IF k = "fix" THEN Replayed(s) ELSE <<>>]
  BY DEF Priming, Hub!Kinds
<1>6. QED
  BY <1>3, <1>4, <1>5 DEF Hub!IsPriming, Hub!Kinds

(* The service implements the hub: its calls are ones the hub allows, with *)
(* values it may carry, and whatever else it does leaves the hub alone.    *)
LEMMA HubAllows ==
  ASSUME TypeInv, HubP!HubInv, [ServiceNext]_vars
  PROVE  [Hub!HubNext]_Hub!hubVars
<1>1. ASSUME NEW r \in Reporters, Announce(r) PROVE Hub!HubNext
  <2>1. update[r].recorded \in Payload
    BY <1>1 DEF TypeInv, StatusInv, Payload, Tracker!Statuses, Tracker!States,
                Tracker!Permissions, States, Permissions
  <2>2. QED
    BY <1>1, <2>1, BroadcastAllowed DEF Announce, Hub!BroadcastStatus, Hub!Kinds
<1>2. ASSUME NEW p \in Publishers, BroadcastFix(p) PROVE Hub!HubNext
  <2>1. FixMsg(fix[p]) \in Payload
    BY <1>2 DEF TypeInv, TypeOK, FixMsg, Payload, Reporters
  <2>2. QED
    BY <1>2, <2>1, BroadcastAllowed DEF BroadcastFix, Reporters, Hub!BroadcastFix, Hub!Kinds
<1>3. ASSUME NEW p \in Publishers, BroadcastError(p) PROVE Hub!HubNext
  <2>1. Failure("provider") \in Payload
    BY <1>3 DEF Failure, Payload
  <2>2. QED
    BY <1>3, <2>1, BroadcastAllowed DEF BroadcastError, Reporters, Hub!BroadcastError, Hub!Kinds
<1>4. ASSUME NEW c \in Closers, HubClose(c) PROVE Hub!HubNext
  BY <1>4 DEF HubClose, Hub!HubNext, Hub!HubCall
<1>5. ASSUME NEW w \in Callers, AddOnce(w) PROVE Hub!HubNext
  BY <1>5 DEF AddOnce, Hub!HubNext, Hub!HubCall
<1>6. ASSUME NEW w \in Callers, AwaitEvent(w) PROVE Hub!HubNext
  BY <1>6 DEF AwaitEvent, Answer, Hub!HubNext, Hub!Read
<1>7. ASSUME NEW w \in Callers, RemoveOnce(w) PROVE Hub!HubNext
  BY <1>7 DEF RemoveOnce, Hub!HubNext, Hub!HubCall
<1>8. ASSUME NEW s \in Subscribers, WatchCancelled(s) PROVE Hub!HubNext
  BY <1>8 DEF WatchCancelled, Hub!HubNext, Hub!HubCall
<1>9. ASSUME NEW s \in Subscribers, Add(s) PROVE Hub!HubNext
  <2>1. prime'[s] = Priming(s)
    BY <1>9 DEF Add, Hub!AddCall, HubP!HubInv, HubP!HubTypeOK
  <2>2. Hub!IsPriming(prime'[s]) /\ Hub!AddCall(s, prime'[s])
    BY <1>9, <2>1, PrimingAllowed DEF Add
  <2>3. QED
    BY <2>2 DEF Hub!HubNext, Hub!HubCall
<1>10. ASSUME NEW s \in Subscribers, NEW k \in Hub!Kinds, Receive(s, k)
       PROVE  Hub!HubNext
  BY <1>10 DEF Receive, Hub!HubNext, Hub!Read
<1>11. CASE HubStep
  BY <1>11 DEF HubStep, Hub!HubNext
<1> DEFINE Leaves == UNCHANGED hubVars
<1>12. ASSUME NEW r \in Reporters, Set(r) PROVE Leaves
  BY <1>12 DEF Set, Tracker!Set, Tracker!Store, Tracker!NewWord,
               Tracker!Changed, Tracker!Inherit
<1>13. ASSUME NEW r \in Reporters, Commit(r) PROVE Leaves
  BY <1>13 DEF Commit, Tracker!StorePointer, SaysSomethingNew, AfterStatus
<1>14. ASSUME NEW p \in Publishers, AdmitError(p) PROVE Leaves
  BY <1>14 DEF AdmitError
<1>15. ASSUME NEW p \in Publishers, AdmitRedundant(p) PROVE Leaves
  BY <1>15 DEF AdmitRedundant
<1>16. ASSUME NEW p \in Publishers, Admit(p) PROVE Leaves
  BY <1>16 DEF Admit
<1>17. ASSUME NEW p \in Publishers, CacheStore(p) PROVE Leaves
  BY <1>17 DEF CacheStore, Cached
<1>18. ASSUME NEW p \in Publishers, AnnounceReady(p) PROVE Leaves
  BY <1>18 DEF AnnounceReady, ReadyAnnounced, Tracker!State
<1>19. ASSUME NEW p \in Publishers, MarkReady(p) PROVE Leaves
  BY <1>19 DEF MarkReady, Tracker!MarkReady, Tracker!Store, Tracker!NewWord,
               Tracker!Changed
<1>20. ASSUME NEW p \in Publishers, Published(p) PROVE Leaves
  BY <1>20 DEF Published
<1>21. ASSUME NEW p \in Publishers, PublishAdmitError(p) PROVE Leaves
  BY <1>21 DEF PublishAdmitError
<1>22. ASSUME NEW p \in Publishers, PublishFix(p) PROVE Leaves
  BY <1>22 DEF PublishFix, Publish
<1>23. ASSUME NEW p \in Publishers, PublishError(p) PROVE Leaves
  BY <1>23 DEF PublishError, Publish
<1>24. ASSUME NEW p \in Publishers, NEW new \in Reports, PublishStatus(p, new)
       PROVE  Leaves
  BY <1>24 DEF PublishStatus, Publish
<1>25. ASSUME NEW c \in Closers, Close(c) PROVE Leaves
  BY <1>25 DEF Close, FirstClose
<1>26. ASSUME NEW c \in Closers, Shut(c) PROVE Leaves
  BY <1>26 DEF Shut
<1>27. ASSUME NEW c \in Closers, Stop(c) PROVE Leaves
  BY <1>27 DEF Stop, ProviderQuiet, Quiet
<1>28. ASSUME NEW c \in Closers, Finish(c) PROVE Leaves
  BY <1>28 DEF Finish
<1>29. ASSUME NEW c \in Closers, CloseReturn(c) PROVE Leaves
  BY <1>29 DEF CloseReturn, TeardownDone
<1>30. ASSUME NEW w \in Callers, Next(w) PROVE Leaves
  BY <1>30 DEF Next, Enter
<1>31. ASSUME NEW w \in Callers, Current(w) PROVE Leaves
  BY <1>31 DEF Current, Enter
<1>32. ASSUME NEW w \in Callers, AwaitCancelled(w) PROVE Leaves
  BY <1>32 DEF AwaitCancelled, Answer
<1>33. ASSUME NEW w \in Callers, CurrentClosed(w) PROVE Leaves
  BY <1>33 DEF CurrentClosed, Answer
<1>34. ASSUME NEW w \in Callers, CurrentOpen(w) PROVE Leaves
  BY <1>34 DEF CurrentOpen
<1>35. ASSUME NEW w \in Callers, CurrentCached(w) PROVE Leaves
  BY <1>35 DEF CurrentCached, Answer
<1>36. ASSUME NEW w \in Callers, CurrentStale(w) PROVE Leaves
  BY <1>36 DEF CurrentStale
<1>37. ASSUME NEW w \in Callers, NextClosed(w) PROVE Leaves
  BY <1>37 DEF NextClosed, Answer
<1>38. ASSUME NEW w \in Callers, NextOpen(w) PROVE Leaves
  BY <1>38 DEF NextOpen
<1>39. ASSUME NEW w \in Callers, AddOnceRefused(w) PROVE Leaves
  BY <1>39 DEF AddOnceRefused, Answer
<1>40. ASSUME NEW w \in Callers, AwaitClosed(w) PROVE Leaves
  BY <1>40 DEF AwaitClosed, Answer
<1>41. ASSUME NEW s \in Subscribers, Subscribe(s) PROVE Leaves
  BY <1>41 DEF Subscribe
<1>42. ASSUME NEW s \in Subscribers, PrimeStatus(s) PROVE Leaves
  BY <1>42 DEF PrimeStatus, Tracker!Get
<1>43. ASSUME NEW s \in Subscribers, WatchSubscription(s) PROVE Leaves
  BY <1>43 DEF WatchSubscription
<1>44. ASSUME NEW s \in Subscribers, WatchDone(s) PROVE Leaves
  BY <1>44 DEF WatchDone
<1>45. ASSUME UNCHANGED vars PROVE Leaves
  BY <1>45 DEF vars, hubVars
<1>46. Leaves => UNCHANGED Hub!hubVars
  BY DEF hubVars, Hub!hubVars, Hub!registry, Hub!channels, Hub!mutex,
         Hub!walks, Hub!calls
<1> HIDE DEF Leaves
<1>47. QED
  BY <1>1, <1>2, <1>3, <1>4, <1>5, <1>6, <1>7, <1>8, <1>9, <1>10, <1>11,
     <1>12, <1>13, <1>14, <1>15, <1>16, <1>17, <1>18, <1>19, <1>20, <1>21,
     <1>22, <1>23, <1>24, <1>25, <1>26, <1>27, <1>28, <1>29, <1>30, <1>31,
     <1>32, <1>33, <1>34, <1>35, <1>36, <1>37, <1>38, <1>39, <1>40, <1>41,
     <1>42, <1>43, <1>44, <1>45, <1>46
  DEF ServiceNext, Environment, ReporterStep, CallerStep, SubscriberStep

-----------------------------------------------------------------------------
(* What callers, subscriptions and the hub itself do leaves the publishers *)
(* and the closers where they are; a call of Close under way may end, but  *)
(* not before the hub is closed.                                           *)
Aside ==
  /\ UNCHANGED <<trackerVars, fixVars, closeVars, finished, made>>
  /\ DOMAIN at' = DOMAIN at /\ DOMAIN result' = DOMAIN result /\ DOMAIN report' = DOMAIN report
  /\ \A s \in Subscribers : report'[s] = report[s] \/ report'[s] = status
  /\ \A r \in Reporters : at'[r] = at[r] /\ report'[r] = report[r]
  /\ \A p \in Publishers : pc[p] = "idle" => pc'[p] = "idle"
  /\ \A c \in Closers : result'[c] = result[c]
  /\ closed => closed'
  /\ \A c \in Closers : \/ op'[c] = op[c]
                        \/ op[c] # "none" /\ op'[c] # "close" /\ closed'

(* Where each goroutine can be looked up; and goroutines differ.           *)
Domains ==
  /\ DOMAIN at = Goroutines /\ DOMAIN result = Callers \cup Closers
  /\ DOMAIN report = Reporters \cup Subscribers /\ DOMAIN fix = Reporters
  /\ DOMAIN made = Publishers /\ DOMAIN update = Reporters
  /\ DOMAIN pc = HubP!Goroutines /\ DOMAIN op = HubP!Writers
  /\ \A r \in Reporters : /\ r \in Goroutines /\ r \in HubP!Goroutines
                           /\ r \notin Callers /\ r \notin Subscribers
  /\ \A g \in Callers \cup Subscribers : g \in Goroutines /\ g \in HubP!Goroutines
  /\ HubP!Writers = Subscribers \cup Callers \cup Closers
  /\ Publishers \subseteq Reporters /\ Closers \subseteq Reporters
  /\ Publishers \cap Closers = {}

(* That is what the types say.                                             *)
LEMMA DomainsHold ==
  ASSUME TypeInv, HubP!HubInv
  PROVE  Domains
<1>1. DOMAIN pc = HubP!Goroutines /\ DOMAIN op = HubP!Writers
  BY DEF HubP!HubInv, HubP!HubTypeOK
<1>2. QED
  BY <1>1, ServiceAssumption
  DEF Domains, TypeInv, DomainInv, Goroutines, Reporters, HubP!Goroutines, HubP!Writers

(* What callers of Next and Current, and subscriptions, do is aside.       *)
LEMMA CallersAside ==
  ASSUME TypeInv, HubP!HubInv,
         \/ \E w \in Callers : Next(w) \/ Current(w) \/ AwaitCancelled(w) \/ CallerStep(w)
         \/ \E s \in Subscribers : Subscribe(s) \/ WatchCancelled(s) \/ SubscriberStep(s)
         \/ \E s \in Subscribers, k \in Hub!Kinds : Receive(s, k)
  PROVE  Aside
<1> USE DEF Aside, Goto, hubVars, trackerVars, fixVars, closeVars,
            ghostVars, rest
<1>0. Domains
  BY DomainsHold
<1> USE <1>0 DEF Domains
<1>1. ASSUME NEW w \in Callers, Next(w) PROVE Aside
  BY <1>1 DEF Next, Enter
<1>2. ASSUME NEW w \in Callers, Current(w) PROVE Aside
  BY <1>2 DEF Current, Enter
<1>3. ASSUME NEW w \in Callers, AwaitCancelled(w) PROVE Aside
  BY <1>3 DEF AwaitCancelled, Answer
<1>4. ASSUME NEW w \in Callers, CurrentClosed(w) PROVE Aside
  BY <1>4 DEF CurrentClosed, Answer
<1>5. ASSUME NEW w \in Callers, CurrentOpen(w) PROVE Aside
  BY <1>5 DEF CurrentOpen
<1>6. ASSUME NEW w \in Callers, CurrentCached(w) PROVE Aside
  BY <1>6 DEF CurrentCached, Answer
<1>7. ASSUME NEW w \in Callers, CurrentStale(w) PROVE Aside
  BY <1>7 DEF CurrentStale
<1>8. ASSUME NEW w \in Callers, NextClosed(w) PROVE Aside
  BY <1>8 DEF NextClosed, Answer
<1>9. ASSUME NEW w \in Callers, NextOpen(w) PROVE Aside
  BY <1>9 DEF NextOpen
<1>10. ASSUME NEW w \in Callers, AddOnce(w) PROVE Aside
  BY <1>10 DEF AddOnce, Hub!AddOnceCall, Hub!Call, Hub!registry,
               Hub!channels, Hub!mutex, Hub!walks, Hub!calls
<1>11. ASSUME NEW w \in Callers, AddOnceRefused(w) PROVE Aside
  BY <1>11 DEF AddOnceRefused, Answer
<1>12. ASSUME NEW w \in Callers, AwaitEvent(w) PROVE Aside
  BY <1>12 DEF AwaitEvent, Answer, Hub!Take, Hub!registry, Hub!channels,
               Hub!mutex, Hub!walks, Hub!calls
<1>13. ASSUME NEW w \in Callers, AwaitClosed(w) PROVE Aside
  BY <1>13 DEF AwaitClosed, Answer
<1>14. ASSUME NEW w \in Callers, RemoveOnce(w) PROVE Aside
  BY <1>14 DEF RemoveOnce, Hub!RemoveOnceCall, Hub!Call, Hub!registry,
               Hub!channels, Hub!mutex, Hub!walks, Hub!calls
<1>15. ASSUME NEW s \in Subscribers, Subscribe(s) PROVE Aside
  BY <1>15 DEF Subscribe
<1>16. ASSUME NEW s \in Subscribers, WatchCancelled(s) PROVE Aside
  BY <1>16 DEF WatchCancelled, Hub!RemoveCall, Hub!Call, Hub!registry,
               Hub!channels, Hub!mutex, Hub!walks, Hub!calls
<1>17. ASSUME NEW s \in Subscribers, PrimeStatus(s) PROVE Aside
  BY <1>17 DEF PrimeStatus, Tracker!Get
<1>18. ASSUME NEW s \in Subscribers, Add(s) PROVE Aside
  BY <1>18 DEF Add, Hub!AddCall, Hub!Call, Hub!registry, Hub!channels,
               Hub!mutex, Hub!walks, Hub!calls
<1>19. ASSUME NEW s \in Subscribers, WatchSubscription(s) PROVE Aside
  BY <1>19 DEF WatchSubscription
<1>20. ASSUME NEW s \in Subscribers, WatchDone(s) PROVE Aside
  BY <1>20 DEF WatchDone
<1>21. ASSUME NEW s \in Subscribers, NEW k \in Hub!Kinds, Receive(s, k) PROVE Aside
  BY <1>21 DEF Receive, Hub!Receive, Hub!registry, Hub!channels, Hub!mutex, Hub!walks, Hub!calls
<1> HIDE DEF Aside
<1>22. QED
  BY <1>1, <1>2, <1>3, <1>4, <1>5, <1>6, <1>7, <1>8, <1>9, <1>10, <1>11,
     <1>12, <1>13, <1>14, <1>15, <1>16, <1>17, <1>18, <1>19, <1>20, <1>21
  DEF CallerStep, SubscriberStep

(* So is what goes on inside the hub once it has been called.              *)
LEMMA HubAside ==
  ASSUME TypeInv, HubP!HubInv, HubStep
  PROVE  Aside
<1> USE DEF Hub!registry, Hub!channels, Hub!mutex, Hub!walks, Hub!calls
<1> DEFINE Kept ==
      /\ \A p \in Publishers : pc[p] = "idle" => pc'[p] = "idle"
      /\ closed => closed'
      /\ \A c \in Closers : \/ op'[c] = op[c]
                            \/ op[c] # "none" /\ op'[c] # "close" /\ closed'
<1>1. Domains
  BY DomainsHold
<1>2. \A c \in Closers : op[c] = "empty" => closed
  BY DEF HubP!HubInv, HubP!CallInv, HubP!Writers
<1> USE <1>1 DEF Domains
<1>3. ASSUME NEW b \in Reporters, Hub!RLockAdmitted(b) PROVE Kept
  BY <1>2, <1>3 DEF Hub!RLockAdmitted
<1>4. ASSUME NEW b \in Reporters, Hub!StartWalk(b) PROVE Kept
  BY <1>2, <1>4 DEF Hub!StartWalk
<1>5. ASSUME NEW b \in Reporters, NEW s \in Subscribers, Hub!Offer(b, s) PROVE Kept
  BY <1>2, <1>5 DEF Hub!Offer
<1>6. ASSUME NEW b \in Reporters, NEW s \in Subscribers, Hub!OfferRefused(b, s) PROVE Kept
  BY <1>2, <1>6 DEF Hub!OfferRefused
<1>7. ASSUME NEW b \in Reporters, NEW s \in Subscribers, Hub!OfferFull(b, s) PROVE Kept
  BY <1>2, <1>7 DEF Hub!OfferFull
<1>8. ASSUME NEW b \in Reporters, Hub!Discard(b) PROVE Kept
  BY <1>2, <1>8 DEF Hub!Discard
<1>9. ASSUME NEW b \in Reporters, Hub!Resend(b) PROVE Kept
  BY <1>2, <1>9 DEF Hub!Resend
<1>10. ASSUME NEW b \in Reporters, NEW w \in Callers, Hub!Wake(b, w) PROVE Kept
  BY <1>2, <1>10 DEF Hub!Wake
<1>11. ASSUME NEW b \in Reporters, Hub!RUnlock(b) PROVE Kept
  BY <1>2, <1>11 DEF Hub!RUnlock, Hub!Walked
<1>12. ASSUME NEW q \in Hub!Writers, Hub!Lock(q) PROVE Kept
  BY <1>2, <1>12 DEF Hub!Lock
<1>13. ASSUME NEW q \in Hub!Writers, Hub!Locked(q) PROVE Kept
  BY <1>2, <1>13 DEF Hub!Locked
<1>14. ASSUME NEW s \in Subscribers, Hub!Add(s) PROVE Kept
  BY <1>2, <1>14 DEF Hub!Add, Hub!Unlock, Hub!InSection, Hub!HubClosed
<1>15. ASSUME NEW s \in Subscribers, Hub!Remove(s) PROVE Kept
  BY <1>2, <1>15 DEF Hub!Remove, Hub!Unlock, Hub!InSection
<1>16. ASSUME NEW w \in Callers, Hub!AddOnce(w) PROVE Kept
  BY <1>2, <1>16 DEF Hub!AddOnce, Hub!Unlock, Hub!InSection, Hub!HubClosed
<1>17. ASSUME NEW w \in Callers, Hub!RemoveOnce(w) PROVE Kept
  BY <1>2, <1>17 DEF Hub!RemoveOnce, Hub!Unlock, Hub!InSection
<1>18. ASSUME NEW c \in Closers, Hub!Close(c) PROVE Kept
  BY <1>2, <1>18 DEF Hub!Close, Hub!InSection
<1>19. ASSUME NEW c \in Closers, Hub!CloseAgain(c) PROVE Kept
  BY <1>2, <1>19 DEF Hub!CloseAgain, Hub!Unlock, Hub!InSection
<1>20. ASSUME NEW c \in Closers, Hub!CloseDone(c) PROVE Kept
  BY <1>2, <1>20 DEF Hub!CloseDone, Hub!Unlock, Hub!InSection
<1>21. ASSUME NEW c \in Closers, NEW s \in Subscribers, Hub!CloseSub(c, s) PROVE Kept
  BY <1>2, <1>21 DEF Hub!CloseSub, Hub!InSection
<1>22. ASSUME NEW c \in Closers, NEW w \in Callers, Hub!CloseWaiter(c, w) PROVE Kept
  BY <1>2, <1>22 DEF Hub!CloseWaiter, Hub!InSection
<1> HIDE DEF Kept
<1>23. Kept
  BY <1>3, <1>4, <1>5, <1>6, <1>7, <1>8, <1>9, <1>10, <1>11, <1>12, <1>13,
     <1>14, <1>15, <1>16, <1>17, <1>18, <1>19, <1>20, <1>21, <1>22
  DEF HubStep, Hub!HubStep, Hub!BroadcastStep, Hub!WriteStep
<1>24. QED
  BY <1>23
  DEF Kept, Aside, HubStep, serviceVars, trackerVars, fixVars, rest, closeVars, ghostVars

-----------------------------------------------------------------------------
(* A step is one of a publisher, one of a closing goroutine, or aside.     *)
PublisherActs ==
  \/ \E r \in Reporters : Set(r) \/ Commit(r) \/ Announce(r)
  \/ \E p \in Publishers :
       \/ PublishFix(p) \/ PublishError(p) \/ \E new \in Reports : PublishStatus(p, new)
       \/ AdmitError(p) \/ AdmitRedundant(p) \/ Admit(p) \/ CacheStore(p)
       \/ AnnounceReady(p) \/ MarkReady(p) \/ BroadcastFix(p) \/ Published(p)
       \/ PublishAdmitError(p) \/ BroadcastError(p)

CloserActs == \E c \in Closers : \/ Close(c) \/ Shut(c) \/ Stop(c) \/ HubClose(c)
                                \/ Finish(c) \/ CloseReturn(c)

(* No step is of a fourth kind.                                            *)
LEMMA ActsOrAside ==
  ASSUME TypeInv, HubP!HubInv, [ServiceNext]_vars
  PROVE  PublisherActs \/ CloserActs \/ Aside
<1>1. CASE UNCHANGED vars
  BY <1>1 DEF Aside, vars, hubVars, trackerVars, fixVars, closeVars, ghostVars, rest
<1>2. CASE ServiceNext
  BY <1>2, CallersAside, HubAside
  DEF ServiceNext, Environment, ReporterStep, PublisherActs, CloserActs
<1>3. QED
  BY <1>1, <1>2

(* Nothing changes what a function is about.                              *)
LEMMA DomainStep ==
  ASSUME TypeInv, HubP!HubInv, [ServiceNext]_vars
  PROVE  DomainInv'
<1>0. Domains /\ TypeOK /\ StatusInv /\ DomainInv /\ PlaceInv
  BY DomainsHold DEF TypeInv
<1> USE <1>0 DEF Domains, Goto, hubVars, trackerVars, fixVars, closeVars,
                 ghostVars, rest, DomainInv
<1>1. ASSUME NEW r \in Reporters, Set(r) PROVE DomainInv'
  BY <1>1 DEF Set, Tracker!Set, Tracker!Store, Tracker!NewWord,
              Tracker!Changed, Tracker!Inherit
<1>2. ASSUME NEW r \in Reporters, Commit(r) PROVE DomainInv'
  BY <1>2 DEF Commit, Tracker!StorePointer, SaysSomethingNew, AfterStatus
<1>3. ASSUME NEW r \in Reporters, Announce(r) PROVE DomainInv'
  BY <1>3 DEF Announce, AfterStatus, Hub!BroadcastStatus, Hub!Broadcast,
              Hub!RLockFree, Hub!RLockWaits, Hub!registry, Hub!channels,
              Hub!calls
<1>4. ASSUME NEW p \in Publishers, PublishFix(p) PROVE DomainInv'
  BY <1>4 DEF PublishFix, Publish
<1>5. ASSUME NEW p \in Publishers, PublishError(p) PROVE DomainInv'
  BY <1>5 DEF PublishError, Publish
<1>6. ASSUME NEW p \in Publishers, NEW new \in Reports, PublishStatus(p, new)
       PROVE  DomainInv'
  BY <1>6 DEF PublishStatus, Publish
<1>7. ASSUME NEW p \in Publishers, AdmitError(p) PROVE DomainInv'
  BY <1>7 DEF AdmitError
<1>8. ASSUME NEW p \in Publishers, AdmitRedundant(p) PROVE DomainInv'
  BY <1>8 DEF AdmitRedundant
<1>9. ASSUME NEW p \in Publishers, Admit(p) PROVE DomainInv'
  BY <1>9 DEF Admit
<1>10. ASSUME NEW p \in Publishers, CacheStore(p) PROVE DomainInv'
  BY <1>10 DEF CacheStore, Cached
<1>11. ASSUME NEW p \in Publishers, AnnounceReady(p) PROVE DomainInv'
  BY <1>11 DEF AnnounceReady, ReadyAnnounced, Tracker!State
<1>12. ASSUME NEW p \in Publishers, MarkReady(p) PROVE DomainInv'
  BY <1>12 DEF MarkReady, Tracker!MarkReady, Tracker!Store, Tracker!NewWord,
               Tracker!Changed
<1>13. ASSUME NEW p \in Publishers, BroadcastFix(p) PROVE DomainInv'
  BY <1>13 DEF BroadcastFix, Hub!BroadcastFix, Hub!Broadcast, Hub!RLockFree,
               Hub!RLockWaits, Hub!registry, Hub!channels, Hub!calls
<1>14. ASSUME NEW p \in Publishers, Published(p) PROVE DomainInv'
  BY <1>14 DEF Published
<1>15. ASSUME NEW p \in Publishers, PublishAdmitError(p) PROVE DomainInv'
  BY <1>15 DEF PublishAdmitError
<1>16. ASSUME NEW p \in Publishers, BroadcastError(p) PROVE DomainInv'
  BY <1>16 DEF BroadcastError, Hub!BroadcastError, Hub!Broadcast,
               Hub!RLockFree, Hub!RLockWaits, Hub!registry, Hub!channels,
               Hub!calls
<1>17. ASSUME NEW c \in Closers, Close(c) PROVE DomainInv'
  BY <1>17 DEF Close, FirstClose
<1>18. ASSUME NEW c \in Closers, Shut(c) PROVE DomainInv'
  BY <1>18 DEF Shut
<1>19. ASSUME NEW c \in Closers, Stop(c) PROVE DomainInv'
  BY <1>19 DEF Stop, ProviderQuiet, Quiet
<1>20. ASSUME NEW c \in Closers, HubClose(c) PROVE DomainInv'
  BY <1>20 DEF HubClose, Hub!CloseCall, Hub!Call, Hub!registry,
               Hub!channels, Hub!mutex, Hub!walks, Hub!calls
<1>21. ASSUME NEW c \in Closers, Finish(c) PROVE DomainInv'
  BY <1>21 DEF Finish
<1>22. ASSUME NEW c \in Closers, CloseReturn(c) PROVE DomainInv'
  BY <1>22 DEF CloseReturn, TeardownDone
<1>23. CASE Aside
  BY <1>23 DEF Aside
<1> HIDE DEF DomainInv
<1>24. QED
  BY ActsOrAside, <1>1, <1>2, <1>3, <1>4, <1>5, <1>6, <1>7, <1>8, <1>9,
                  <1>10, <1>11, <1>12, <1>13, <1>14, <1>15, <1>16, <1>17,
                  <1>18, <1>19, <1>20, <1>21, <1>22, <1>23
  DEF PublisherActs, CloserActs

(* The types.                                                              *)
LEMMA TypeStep ==
  ASSUME TypeInv, HubP!HubInv, [ServiceNext]_vars
  PROVE  TypeOK'
<1>0. Domains /\ TypeOK /\ StatusInv /\ DomainInv /\ PlaceInv
  BY DomainsHold DEF TypeInv
<1> USE <1>0 DEF Domains, Goto, hubVars, trackerVars, fixVars, closeVars,
                 ghostVars, rest, TypeOK
<1>1. ASSUME NEW r \in Reporters, Set(r) PROVE TypeOK'
  BY <1>1 DEF Set, Tracker!Set, Tracker!Store, Tracker!NewWord,
              Tracker!Changed, Tracker!Inherit
<1>2. ASSUME NEW r \in Reporters, Commit(r) PROVE TypeOK'
  BY <1>2 DEF Commit, Tracker!StorePointer, SaysSomethingNew, AfterStatus
<1>3. ASSUME NEW r \in Reporters, Announce(r) PROVE TypeOK'
  BY <1>3 DEF Announce, AfterStatus, Hub!BroadcastStatus, Hub!Broadcast,
              Hub!RLockFree, Hub!RLockWaits, Hub!registry, Hub!channels,
              Hub!calls
<1>4. ASSUME NEW p \in Publishers, PublishFix(p) PROVE TypeOK'
  BY <1>4 DEF PublishFix, Publish
<1>5. ASSUME NEW p \in Publishers, PublishError(p) PROVE TypeOK'
  BY <1>5 DEF PublishError, Publish
<1>6. ASSUME NEW p \in Publishers, NEW new \in Reports, PublishStatus(p, new)
       PROVE  TypeOK'
  BY <1>6 DEF PublishStatus, Publish
<1>7. ASSUME NEW p \in Publishers, AdmitError(p) PROVE TypeOK'
  BY <1>7 DEF AdmitError
<1>8. ASSUME NEW p \in Publishers, AdmitRedundant(p) PROVE TypeOK'
  BY <1>8 DEF AdmitRedundant
<1>9. ASSUME NEW p \in Publishers, Admit(p) PROVE TypeOK'
  BY <1>9 DEF Admit
<1>10. ASSUME NEW p \in Publishers, CacheStore(p) PROVE TypeOK'
  BY <1>10 DEF CacheStore, Cached
<1>11. ASSUME NEW p \in Publishers, AnnounceReady(p) PROVE TypeOK'
  BY <1>11 DEF AnnounceReady, ReadyAnnounced, Tracker!State
<1>12. ASSUME NEW p \in Publishers, MarkReady(p) PROVE TypeOK'
  BY <1>12 DEF MarkReady, Tracker!MarkReady, Tracker!Store, Tracker!NewWord,
               Tracker!Changed
<1>13. ASSUME NEW p \in Publishers, BroadcastFix(p) PROVE TypeOK'
  BY <1>13 DEF BroadcastFix, Hub!BroadcastFix, Hub!Broadcast, Hub!RLockFree,
               Hub!RLockWaits, Hub!registry, Hub!channels, Hub!calls
<1>14. ASSUME NEW p \in Publishers, Published(p) PROVE TypeOK'
  <2>1. fix[p] \in 1 .. last
    BY <1>14 DEF Published, PlaceInv
  <2>2. fix' \in [Reporters -> Nat] /\ \A r \in Reporters : fix'[r] <= last
    BY <1>14 DEF Published
  <2>3. QED
    BY <1>14, <2>1, <2>2 DEF Published
<1>15. ASSUME NEW p \in Publishers, PublishAdmitError(p) PROVE TypeOK'
  BY <1>15 DEF PublishAdmitError
<1>16. ASSUME NEW p \in Publishers, BroadcastError(p) PROVE TypeOK'
  BY <1>16 DEF BroadcastError, Hub!BroadcastError, Hub!Broadcast,
               Hub!RLockFree, Hub!RLockWaits, Hub!registry, Hub!channels,
               Hub!calls
<1>17. ASSUME NEW c \in Closers, Close(c) PROVE TypeOK'
  BY <1>17 DEF Close, FirstClose
<1>18. ASSUME NEW c \in Closers, Shut(c) PROVE TypeOK'
  BY <1>18 DEF Shut
<1>19. ASSUME NEW c \in Closers, Stop(c) PROVE TypeOK'
  BY <1>19 DEF Stop, ProviderQuiet, Quiet
<1>20. ASSUME NEW c \in Closers, HubClose(c) PROVE TypeOK'
  BY <1>20 DEF HubClose, Hub!CloseCall, Hub!Call, Hub!registry,
               Hub!channels, Hub!mutex, Hub!walks, Hub!calls
<1>21. ASSUME NEW c \in Closers, Finish(c) PROVE TypeOK'
  BY <1>21 DEF Finish
<1>22. ASSUME NEW c \in Closers, CloseReturn(c) PROVE TypeOK'
  BY <1>22 DEF CloseReturn, TeardownDone
<1>23. CASE Aside
  BY <1>23 DEF Aside
<1> HIDE DEF TypeOK
<1>24. QED
  BY ActsOrAside, <1>1, <1>2, <1>3, <1>4, <1>5, <1>6, <1>7, <1>8, <1>9,
                  <1>10, <1>11, <1>12, <1>13, <1>14, <1>15, <1>16, <1>17,
                  <1>18, <1>19, <1>20, <1>21, <1>22, <1>23
  DEF PublisherActs, CloserActs

(* Statuses are statuses, whoever carries them.                            *)
LEMMA StatusStep ==
  ASSUME TypeInv, HubP!HubInv, [ServiceNext]_vars
  PROVE  StatusInv'
<1>0. Domains /\ TypeOK /\ StatusInv /\ DomainInv /\ PlaceInv
  BY DomainsHold DEF TypeInv
<1> USE <1>0 DEF Domains, Goto, hubVars, trackerVars, fixVars, closeVars,
                 ghostVars, rest, StatusInv
<1>1. ASSUME NEW r \in Reporters, Set(r) PROVE StatusInv'
  <2>1. Tracker!Inherit(report[r]) \in Tracker!Statuses
    BY DEF Tracker!Inherit, Tracker!Statuses
  <2>2. QED
    BY <1>1, <2>1 DEF Set, Tracker!Set, Tracker!Store
<1>2. ASSUME NEW r \in Reporters, Commit(r) PROVE StatusInv'
  BY <1>2 DEF Commit, Tracker!StorePointer, SaysSomethingNew, AfterStatus
<1>3. ASSUME NEW r \in Reporters, Announce(r) PROVE StatusInv'
  BY <1>3 DEF Announce, AfterStatus, Hub!BroadcastStatus, Hub!Broadcast,
              Hub!RLockFree, Hub!RLockWaits, Hub!registry, Hub!channels,
              Hub!calls
<1>4. ASSUME NEW p \in Publishers, PublishFix(p) PROVE StatusInv'
  BY <1>4 DEF PublishFix, Publish
<1>5. ASSUME NEW p \in Publishers, PublishError(p) PROVE StatusInv'
  BY <1>5 DEF PublishError, Publish
<1>6. ASSUME NEW p \in Publishers, NEW new \in Reports, PublishStatus(p, new)
       PROVE  StatusInv'
  <2>1. new \in Tracker!Statuses
    BY ServiceAssumption DEF Tracker!Statuses, Tracker!States, Tracker!Permissions, States,
                             Permissions
  <2>2. QED
    BY <1>6, <2>1 DEF PublishStatus, Publish
<1>7. ASSUME NEW p \in Publishers, AdmitError(p) PROVE StatusInv'
  BY <1>7 DEF AdmitError
<1>8. ASSUME NEW p \in Publishers, AdmitRedundant(p) PROVE StatusInv'
  BY <1>8 DEF AdmitRedundant
<1>9. ASSUME NEW p \in Publishers, Admit(p) PROVE StatusInv'
  BY <1>9 DEF Admit
<1>10. ASSUME NEW p \in Publishers, CacheStore(p) PROVE StatusInv'
  BY <1>10 DEF CacheStore, Cached
<1>11. ASSUME NEW p \in Publishers, AnnounceReady(p) PROVE StatusInv'
  BY <1>11 DEF AnnounceReady, ReadyAnnounced, Tracker!State
<1>12. ASSUME NEW p \in Publishers, MarkReady(p) PROVE StatusInv'
  <2>1. [state |-> "Ready", permission |-> Tracker!Settled(status.permission),
          message |-> "receiving"] \in Tracker!Statuses
    BY DEF Tracker!Settled, Tracker!Statuses, Tracker!States, Tracker!Permissions, Messages
  <2>2. QED
    BY <1>12, <2>1 DEF MarkReady, Tracker!MarkReady, Tracker!Store
<1>13. ASSUME NEW p \in Publishers, BroadcastFix(p) PROVE StatusInv'
  BY <1>13 DEF BroadcastFix, Hub!BroadcastFix, Hub!Broadcast, Hub!RLockFree,
               Hub!RLockWaits, Hub!registry, Hub!channels, Hub!calls
<1>14. ASSUME NEW p \in Publishers, Published(p) PROVE StatusInv'
  BY <1>14 DEF Published
<1>15. ASSUME NEW p \in Publishers, PublishAdmitError(p) PROVE StatusInv'
  BY <1>15 DEF PublishAdmitError
<1>16. ASSUME NEW p \in Publishers, BroadcastError(p) PROVE StatusInv'
  BY <1>16 DEF BroadcastError, Hub!BroadcastError, Hub!Broadcast,
               Hub!RLockFree, Hub!RLockWaits, Hub!registry, Hub!channels,
               Hub!calls
<1>17. ASSUME NEW c \in Closers, Close(c) PROVE StatusInv'
  BY <1>17 DEF Close, FirstClose
<1>18. ASSUME NEW c \in Closers, Shut(c) PROVE StatusInv'
  BY <1>18 DEF Shut
<1>19. ASSUME NEW c \in Closers, Stop(c) PROVE StatusInv'
  <2>1. [state |-> "Closed", permission |-> "Unknown", message |-> "closed"]
          \in Tracker!Statuses
    BY DEF Tracker!Statuses, Tracker!States, Tracker!Permissions, Messages
  <2>2. QED
    BY <1>19, <2>1 DEF Stop
<1>20. ASSUME NEW c \in Closers, HubClose(c) PROVE StatusInv'
  BY <1>20 DEF HubClose, Hub!CloseCall, Hub!Call, Hub!registry,
               Hub!channels, Hub!mutex, Hub!walks, Hub!calls
<1>21. ASSUME NEW c \in Closers, Finish(c) PROVE StatusInv'
  BY <1>21 DEF Finish
<1>22. ASSUME NEW c \in Closers, CloseReturn(c) PROVE StatusInv'
  BY <1>22 DEF CloseReturn, TeardownDone
<1>23. CASE Aside
  BY <1>23 DEF Aside
<1> HIDE DEF StatusInv
<1>24. QED
  BY ActsOrAside, <1>1, <1>2, <1>3, <1>4, <1>5, <1>6, <1>7, <1>8, <1>9,
                  <1>10, <1>11, <1>12, <1>13, <1>14, <1>15, <1>16, <1>17,
                  <1>18, <1>19, <1>20, <1>21, <1>22, <1>23
  DEF PublisherActs, CloserActs

(* Every goroutine is at a step of the method it is in.                    *)
LEMMA PlaceStep ==
  ASSUME TypeInv, HubP!HubInv, [ServiceNext]_vars
  PROVE  PlaceInv'
<1>0. Domains /\ TypeOK /\ StatusInv /\ DomainInv /\ PlaceInv
  BY DomainsHold DEF TypeInv
<1> USE <1>0 DEF Domains, Goto, hubVars, trackerVars, fixVars, closeVars,
                 ghostVars, rest, PlaceInv, PublishSteps, CloseSteps,
                 Tearing, TypeOK, AfterStatus
<1>1. ASSUME NEW r \in Reporters, Set(r) PROVE PlaceInv'
  BY <1>1 DEF Set, Tracker!Set, Tracker!Store, Tracker!NewWord,
              Tracker!Changed, Tracker!Inherit, Tracker!Statuses,
              Tracker!States, Tracker!Permissions
<1>2. ASSUME NEW r \in Reporters, Commit(r) PROVE PlaceInv'
  BY <1>2 DEF Commit, Tracker!StorePointer, SaysSomethingNew, AfterStatus
<1>3. ASSUME NEW r \in Reporters, Announce(r) PROVE PlaceInv'
  BY <1>3 DEF Announce, AfterStatus, Hub!BroadcastStatus, Hub!Broadcast,
              Hub!RLockFree, Hub!RLockWaits, Hub!registry, Hub!channels,
              Hub!calls
<1>4. ASSUME NEW p \in Publishers, PublishFix(p) PROVE PlaceInv'
  BY <1>4 DEF PublishFix, Publish
<1>5. ASSUME NEW p \in Publishers, PublishError(p) PROVE PlaceInv'
  BY <1>5 DEF PublishError, Publish
<1>6. ASSUME NEW p \in Publishers, NEW new \in Reports, PublishStatus(p, new)
       PROVE  PlaceInv'
  BY <1>6 DEF PublishStatus, Publish, Tracker!Statuses, Tracker!States,
              Tracker!Permissions
<1>7. ASSUME NEW p \in Publishers, AdmitError(p) PROVE PlaceInv'
  BY <1>7 DEF AdmitError
<1>8. ASSUME NEW p \in Publishers, AdmitRedundant(p) PROVE PlaceInv'
  BY <1>8 DEF AdmitRedundant
<1>9. ASSUME NEW p \in Publishers, Admit(p) PROVE PlaceInv'
  BY <1>9 DEF Admit
<1>10. ASSUME NEW p \in Publishers, CacheStore(p) PROVE PlaceInv'
  BY <1>10 DEF CacheStore, Cached
<1>11. ASSUME NEW p \in Publishers, AnnounceReady(p) PROVE PlaceInv'
  BY <1>11 DEF AnnounceReady, ReadyAnnounced, Tracker!State
<1>12. ASSUME NEW p \in Publishers, MarkReady(p) PROVE PlaceInv'
  BY <1>12 DEF MarkReady, Tracker!MarkReady, Tracker!Store, Tracker!NewWord,
               Tracker!Changed, Tracker!Statuses, Tracker!States,
               Tracker!Permissions
<1>13. ASSUME NEW p \in Publishers, BroadcastFix(p) PROVE PlaceInv'
  BY <1>13 DEF BroadcastFix, Hub!BroadcastFix, Hub!Broadcast, Hub!RLockFree,
               Hub!RLockWaits, Hub!registry, Hub!channels, Hub!calls
<1>14. ASSUME NEW p \in Publishers, Published(p) PROVE PlaceInv'
  BY <1>14 DEF Published
<1>15. ASSUME NEW p \in Publishers, PublishAdmitError(p) PROVE PlaceInv'
  BY <1>15 DEF PublishAdmitError
<1>16. ASSUME NEW p \in Publishers, BroadcastError(p) PROVE PlaceInv'
  BY <1>16 DEF BroadcastError, Hub!BroadcastError, Hub!Broadcast,
               Hub!RLockFree, Hub!RLockWaits, Hub!registry, Hub!channels,
               Hub!calls
<1>17. ASSUME NEW c \in Closers, Close(c) PROVE PlaceInv'
  BY <1>17 DEF Close, FirstClose
<1>18. ASSUME NEW c \in Closers, Shut(c) PROVE PlaceInv'
  BY <1>18 DEF Shut
<1>19. ASSUME NEW c \in Closers, Stop(c) PROVE PlaceInv'
  BY <1>19 DEF Stop, ProviderQuiet, Quiet, Tracker!Statuses, Tracker!States,
               Tracker!Permissions
<1>20. ASSUME NEW c \in Closers, HubClose(c) PROVE PlaceInv'
  BY <1>20 DEF HubClose, Hub!CloseCall, Hub!Call, Hub!registry,
               Hub!channels, Hub!mutex, Hub!walks, Hub!calls
<1>21. ASSUME NEW c \in Closers, Finish(c) PROVE PlaceInv'
  BY <1>21 DEF Finish
<1>22. ASSUME NEW c \in Closers, CloseReturn(c) PROVE PlaceInv'
  BY <1>22 DEF CloseReturn, TeardownDone
<1>23. CASE Aside
  BY <1>23 DEF Aside
<1> HIDE DEF PlaceInv, PublishSteps, CloseSteps, Tearing, TypeOK,
             AfterStatus
<1>24. QED
  BY ActsOrAside, <1>1, <1>2, <1>3, <1>4, <1>5, <1>6, <1>7, <1>8, <1>9,
                  <1>10, <1>11, <1>12, <1>13, <1>14, <1>15, <1>16, <1>17,
                  <1>18, <1>19, <1>20, <1>21, <1>22, <1>23
  DEF PublisherActs, CloserActs

(* All of it together.                                                     *)
LEMMA TypeKept ==
  ASSUME TypeInv, HubP!HubInv, [ServiceNext]_vars
  PROVE  TypeInv'
BY DomainStep, TypeStep, StatusStep, PlaceStep DEF TypeInv

(* One update of the tracker at a time.                                    *)
LEMMA TrackerStep ==
  ASSUME TypeInv, TrackerInv, HubP!HubInv, [ServiceNext]_vars
  PROVE  TrackerInv'
<1>0. Domains /\ TypeOK /\ StatusInv /\ DomainInv /\ PlaceInv
  BY DomainsHold DEF TypeInv
<1> USE <1>0 DEF Domains, Goto, hubVars, trackerVars, fixVars, closeVars,
                 ghostVars, rest, TrackerInv
<1>1. ASSUME NEW r \in Reporters, Set(r) PROVE TrackerInv'
  <2>1. r \in Reporters /\ mu' = r /\ at'[r] = "commit" /\ word' = update'[r].recorded.state
    BY <1>1 DEF Set, Tracker!Set, Tracker!Store, Tracker!NewWord
  <2>2. mu = Nobody /\ r # Nobody /\ \A q \in Reporters : q # r => at'[q] = at[q]
    BY <1>1, ServiceAssumption DEF Set, Tracker!Set, Tracker!Store, Goroutines
  <2>3. \A q \in Reporters : at[q] # "commit"
    BY <2>2, ServiceAssumption DEF Goroutines
  <2>4. QED
    BY <2>1, <2>2, <2>3
<1>2. ASSUME NEW r \in Reporters, Commit(r) PROVE TrackerInv'
  <2>1. mu = r /\ mu' = Nobody /\ status' = update[r].recorded /\ word' = word
    BY <1>2 DEF Commit, Tracker!StorePointer
  <2>2. at'[r] # "commit" /\ \A q \in Reporters : q # r => at'[q] = at[q]
    BY <1>2 DEF Commit, AfterStatus
  <2>3. r # Nobody
    BY ServiceAssumption DEF Goroutines
  <2>4. QED
    BY <2>1, <2>2, <2>3
<1>3. ASSUME NEW r \in Reporters, Announce(r) PROVE TrackerInv'
  BY <1>3 DEF Announce, AfterStatus, Hub!BroadcastStatus, Hub!Broadcast,
              Hub!RLockFree, Hub!RLockWaits, Hub!registry, Hub!channels,
              Hub!calls
<1>4. ASSUME NEW p \in Publishers, PublishFix(p) PROVE TrackerInv'
  BY <1>4 DEF PublishFix, Publish
<1>5. ASSUME NEW p \in Publishers, PublishError(p) PROVE TrackerInv'
  BY <1>5 DEF PublishError, Publish
<1>6. ASSUME NEW p \in Publishers, NEW new \in Reports, PublishStatus(p, new)
       PROVE  TrackerInv'
  BY <1>6 DEF PublishStatus, Publish
<1>7. ASSUME NEW p \in Publishers, AdmitError(p) PROVE TrackerInv'
  BY <1>7 DEF AdmitError
<1>8. ASSUME NEW p \in Publishers, AdmitRedundant(p) PROVE TrackerInv'
  BY <1>8 DEF AdmitRedundant
<1>9. ASSUME NEW p \in Publishers, Admit(p) PROVE TrackerInv'
  BY <1>9 DEF Admit
<1>10. ASSUME NEW p \in Publishers, CacheStore(p) PROVE TrackerInv'
  BY <1>10 DEF CacheStore, Cached
<1>11. ASSUME NEW p \in Publishers, AnnounceReady(p) PROVE TrackerInv'
  BY <1>11 DEF AnnounceReady, ReadyAnnounced, Tracker!State
<1>12. ASSUME NEW p \in Publishers, MarkReady(p) PROVE TrackerInv'
  <2>1. p \in Reporters /\ mu' = p /\ at'[p] = "commit" /\ word' = update'[p].recorded.state
    BY <1>12 DEF MarkReady, Tracker!MarkReady, Tracker!Store, Tracker!NewWord
  <2>2. mu = Nobody /\ p # Nobody /\ \A q \in Reporters : q # p => at'[q] = at[q]
    BY <1>12, ServiceAssumption DEF MarkReady, Tracker!MarkReady, Tracker!Store, Goroutines
  <2>3. \A q \in Reporters : at[q] # "commit"
    BY <2>2, ServiceAssumption DEF Goroutines
  <2>4. QED
    BY <2>1, <2>2, <2>3
<1>13. ASSUME NEW p \in Publishers, BroadcastFix(p) PROVE TrackerInv'
  BY <1>13 DEF BroadcastFix, Hub!BroadcastFix, Hub!Broadcast, Hub!RLockFree,
               Hub!RLockWaits, Hub!registry, Hub!channels, Hub!calls
<1>14. ASSUME NEW p \in Publishers, Published(p) PROVE TrackerInv'
  BY <1>14 DEF Published
<1>15. ASSUME NEW p \in Publishers, PublishAdmitError(p) PROVE TrackerInv'
  BY <1>15 DEF PublishAdmitError
<1>16. ASSUME NEW p \in Publishers, BroadcastError(p) PROVE TrackerInv'
  BY <1>16 DEF BroadcastError, Hub!BroadcastError, Hub!Broadcast,
               Hub!RLockFree, Hub!RLockWaits, Hub!registry, Hub!channels,
               Hub!calls
<1>17. ASSUME NEW c \in Closers, Close(c) PROVE TrackerInv'
  BY <1>17 DEF Close, FirstClose
<1>18. ASSUME NEW c \in Closers, Shut(c) PROVE TrackerInv'
  BY <1>18 DEF Shut
<1>19. ASSUME NEW c \in Closers, Stop(c) PROVE TrackerInv'
  BY <1>19 DEF Stop, ProviderQuiet, Quiet
<1>20. ASSUME NEW c \in Closers, HubClose(c) PROVE TrackerInv'
  BY <1>20 DEF HubClose, Hub!CloseCall, Hub!Call, Hub!registry,
               Hub!channels, Hub!mutex, Hub!walks, Hub!calls
<1>21. ASSUME NEW c \in Closers, Finish(c) PROVE TrackerInv'
  BY <1>21 DEF Finish
<1>22. ASSUME NEW c \in Closers, CloseReturn(c) PROVE TrackerInv'
  BY <1>22 DEF CloseReturn, TeardownDone
<1>23. CASE Aside
  BY <1>23 DEF Aside
<1> HIDE DEF TrackerInv
<1>24. QED
  BY ActsOrAside, <1>1, <1>2, <1>3, <1>4, <1>5, <1>6, <1>7, <1>8, <1>9,
                  <1>10, <1>11, <1>12, <1>13, <1>14, <1>15, <1>16, <1>17,
                  <1>18, <1>19, <1>20, <1>21, <1>22, <1>23
  DEF PublisherActs, CloserActs

(* One teardown, and what it leaves behind it.                             *)
LEMMA CloseStep ==
  ASSUME TypeInv, CloseInv, HubP!HubInv, [ServiceNext]_vars
  PROVE  CloseInv'
<1>0. Domains /\ TypeOK /\ StatusInv /\ DomainInv /\ PlaceInv
  BY DomainsHold DEF TypeInv
<1> USE <1>0 DEF Domains, Goto, hubVars, trackerVars, fixVars, closeVars,
                 ghostVars, rest, CloseInv, Tearing, PastStop, CloseSteps,
                 PublishSteps, Streaming, Quiet, AfterStatus, Stopped,
                 NoAnswer
<1>1. ASSUME NEW r \in Reporters, Set(r) PROVE CloseInv'
  BY <1>1 DEF Set, Tracker!Set, Tracker!Store, Tracker!NewWord,
              Tracker!Changed, Tracker!Inherit
<1>2. ASSUME NEW r \in Reporters, Commit(r) PROVE CloseInv'
  BY <1>2 DEF Commit, Tracker!StorePointer, SaysSomethingNew, AfterStatus
<1>3. ASSUME NEW r \in Reporters, Announce(r) PROVE CloseInv'
  BY <1>3 DEF Announce, AfterStatus, Hub!BroadcastStatus, Hub!Broadcast,
              Hub!RLockFree, Hub!RLockWaits, Hub!registry, Hub!channels,
              Hub!calls
<1>4. ASSUME NEW p \in Publishers, PublishFix(p) PROVE CloseInv'
  BY <1>4 DEF PublishFix, Publish
<1>5. ASSUME NEW p \in Publishers, PublishError(p) PROVE CloseInv'
  BY <1>5 DEF PublishError, Publish
<1>6. ASSUME NEW p \in Publishers, NEW new \in Reports, PublishStatus(p, new)
       PROVE  CloseInv'
  BY <1>6 DEF PublishStatus, Publish
<1>7. ASSUME NEW p \in Publishers, AdmitError(p) PROVE CloseInv'
  BY <1>7 DEF AdmitError
<1>8. ASSUME NEW p \in Publishers, AdmitRedundant(p) PROVE CloseInv'
  BY <1>8 DEF AdmitRedundant
<1>9. ASSUME NEW p \in Publishers, Admit(p) PROVE CloseInv'
  BY <1>9 DEF Admit
<1>10. ASSUME NEW p \in Publishers, CacheStore(p) PROVE CloseInv'
  BY <1>10 DEF CacheStore, Cached
<1>11. ASSUME NEW p \in Publishers, AnnounceReady(p) PROVE CloseInv'
  BY <1>11 DEF AnnounceReady, ReadyAnnounced, Tracker!State
<1>12. ASSUME NEW p \in Publishers, MarkReady(p) PROVE CloseInv'
  BY <1>12 DEF MarkReady, Tracker!MarkReady, Tracker!Store, Tracker!NewWord,
               Tracker!Changed
<1>13. ASSUME NEW p \in Publishers, BroadcastFix(p) PROVE CloseInv'
  BY <1>13 DEF BroadcastFix, Hub!BroadcastFix, Hub!Broadcast, Hub!RLockFree,
               Hub!RLockWaits, Hub!registry, Hub!channels, Hub!calls
<1>14. ASSUME NEW p \in Publishers, Published(p) PROVE CloseInv'
  BY <1>14 DEF Published
<1>15. ASSUME NEW p \in Publishers, PublishAdmitError(p) PROVE CloseInv'
  BY <1>15 DEF PublishAdmitError
<1>16. ASSUME NEW p \in Publishers, BroadcastError(p) PROVE CloseInv'
  BY <1>16 DEF BroadcastError, Hub!BroadcastError, Hub!Broadcast,
               Hub!RLockFree, Hub!RLockWaits, Hub!registry, Hub!channels,
               Hub!calls
<1>17. ASSUME NEW c \in Closers, Close(c) PROVE CloseInv'
  BY <1>17 DEF Close, FirstClose
<1>18. ASSUME NEW c \in Closers, Shut(c) PROVE CloseInv'
  BY <1>18 DEF Shut
<1>19. ASSUME NEW c \in Closers, Stop(c) PROVE CloseInv'
  BY <1>19 DEF Stop, ProviderQuiet, Quiet
<1>20. ASSUME NEW c \in Closers, HubClose(c) PROVE CloseInv'
  BY <1>20 DEF HubClose, Hub!CloseCall, Hub!Call, Hub!registry,
               Hub!channels, Hub!mutex, Hub!walks, Hub!calls
<1>21. ASSUME NEW c \in Closers, Finish(c) PROVE CloseInv'
  BY <1>21 DEF Finish
<1>22. ASSUME NEW c \in Closers, CloseReturn(c) PROVE CloseInv'
  BY <1>22 DEF CloseReturn, TeardownDone
<1>23. CASE Aside
  BY <1>23 DEF Aside
<1> HIDE DEF CloseInv, Tearing, PastStop, CloseSteps, PublishSteps,
             Streaming, Quiet, AfterStatus, Stopped, NoAnswer
<1>24. QED
  BY ActsOrAside, <1>1, <1>2, <1>3, <1>4, <1>5, <1>6, <1>7, <1>8, <1>9,
                  <1>10, <1>11, <1>12, <1>13, <1>14, <1>15, <1>16, <1>17,
                  <1>18, <1>19, <1>20, <1>21, <1>22, <1>23
  DEF PublisherActs, CloserActs

(* Only the teardown records Closed, and nothing is recorded over it by    *)
(* a publisher Stop has waited for.                                        *)
LEMMA ClosedStep ==
  ASSUME TypeInv, TrackerInv, CloseInv, ClosedInv, HubP!HubInv, [ServiceNext]_vars
  PROVE  ClosedInv'
<1>0. Domains /\ TypeOK /\ StatusInv /\ DomainInv /\ PlaceInv
  BY DomainsHold DEF TypeInv
<1> USE <1>0 DEF Domains, Goto, hubVars, trackerVars, fixVars, closeVars,
                 ghostVars, rest, TrackerInv, CloseInv, ClosedInv, PlaceInv,
                 Tearing, PastStop, CloseSteps, PublishSteps, Streaming,
                 Quiet, AfterStatus
<1>1. ASSUME NEW r \in Reporters, Set(r) PROVE ClosedInv'
  <2>1. at'[r] = "commit" /\ \A q \in Reporters : q # r => at'[q] = at[q] /\ update'[q] = update[q]
    BY <1>1 DEF Set, Tracker!Set, Tracker!Store
  <2>2. update'[r].recorded.state = report[r].state
    BY <1>1 DEF Set, Tracker!Set, Tracker!Store, Tracker!Inherit, StatusInv, Tracker!Statuses
  <2>3. /\ r \in Closers => report[r].state = "Closed"
        /\ r \in Publishers => report[r].state # "Closed"
    BY <1>1, ServiceAssumption DEF Set
  <2>4. UNCHANGED <<status, stopErr, stopWaits, guard, report>>
    BY <1>1 DEF Set, Tracker!Set, Tracker!Store
  <2>5. QED
    BY <1>1, <2>1, <2>2, <2>3, <2>4 DEF Set
<1>2. ASSUME NEW r \in Reporters, Commit(r) PROVE ClosedInv'
  <2>1. /\ at[r] = "commit" /\ status' = update[r].recorded /\ at'[r] \notin {"set", "commit"}
        /\ \A q \in Reporters : q # r => at'[q] = at[q]
    BY <1>2 DEF Commit, Tracker!StorePointer
  <2>2. UNCHANGED <<update, stopErr, stopWaits, guard, report>>
    BY <1>2 DEF Commit, Tracker!StorePointer
  <2>3. CASE r \in Closers
    BY <2>1, <2>2, <2>3
  <2>4. CASE r \in Publishers
    BY <2>1, <2>2, <2>4
  <2>5. QED
    BY <2>3, <2>4 DEF Reporters
<1>3. ASSUME NEW r \in Reporters, Announce(r) PROVE ClosedInv'
  BY <1>3 DEF Announce, AfterStatus, Hub!BroadcastStatus, Hub!Broadcast,
              Hub!RLockFree, Hub!RLockWaits, Hub!registry, Hub!channels,
              Hub!calls
<1>4. ASSUME NEW p \in Publishers, PublishFix(p) PROVE ClosedInv'
  BY <1>4 DEF PublishFix, Publish
<1>5. ASSUME NEW p \in Publishers, PublishError(p) PROVE ClosedInv'
  BY <1>5 DEF PublishError, Publish
<1>6. ASSUME NEW p \in Publishers, NEW new \in Reports, PublishStatus(p, new)
       PROVE  ClosedInv'
  BY <1>6 DEF PublishStatus, Publish
<1>7. ASSUME NEW p \in Publishers, AdmitError(p) PROVE ClosedInv'
  BY <1>7 DEF AdmitError
<1>8. ASSUME NEW p \in Publishers, AdmitRedundant(p) PROVE ClosedInv'
  BY <1>8 DEF AdmitRedundant
<1>9. ASSUME NEW p \in Publishers, Admit(p) PROVE ClosedInv'
  BY <1>9 DEF Admit
<1>10. ASSUME NEW p \in Publishers, CacheStore(p) PROVE ClosedInv'
  BY <1>10 DEF CacheStore, Cached
<1>11. ASSUME NEW p \in Publishers, AnnounceReady(p) PROVE ClosedInv'
  BY <1>11 DEF AnnounceReady, ReadyAnnounced, Tracker!State
<1>12. ASSUME NEW p \in Publishers, MarkReady(p) PROVE ClosedInv'
  BY <1>12 DEF MarkReady, Tracker!MarkReady, Tracker!Store, Tracker!NewWord,
               Tracker!Changed
<1>13. ASSUME NEW p \in Publishers, BroadcastFix(p) PROVE ClosedInv'
  BY <1>13 DEF BroadcastFix, Hub!BroadcastFix, Hub!Broadcast, Hub!RLockFree,
               Hub!RLockWaits, Hub!registry, Hub!channels, Hub!calls
<1>14. ASSUME NEW p \in Publishers, Published(p) PROVE ClosedInv'
  BY <1>14 DEF Published
<1>15. ASSUME NEW p \in Publishers, PublishAdmitError(p) PROVE ClosedInv'
  BY <1>15 DEF PublishAdmitError
<1>16. ASSUME NEW p \in Publishers, BroadcastError(p) PROVE ClosedInv'
  BY <1>16 DEF BroadcastError, Hub!BroadcastError, Hub!Broadcast,
               Hub!RLockFree, Hub!RLockWaits, Hub!registry, Hub!channels,
               Hub!calls
<1>17. ASSUME NEW c \in Closers, Close(c) PROVE ClosedInv'
  BY <1>17 DEF Close, FirstClose
<1>18. ASSUME NEW c \in Closers, Shut(c) PROVE ClosedInv'
  BY <1>18 DEF Shut
<1>19. ASSUME NEW c \in Closers, Stop(c) PROVE ClosedInv'
  BY <1>19 DEF Stop, ProviderQuiet, Quiet
<1>20. ASSUME NEW c \in Closers, HubClose(c) PROVE ClosedInv'
  BY <1>20 DEF HubClose, Hub!CloseCall, Hub!Call, Hub!registry,
               Hub!channels, Hub!mutex, Hub!walks, Hub!calls
<1>21. ASSUME NEW c \in Closers, Finish(c) PROVE ClosedInv'
  BY <1>21 DEF Finish
<1>22. ASSUME NEW c \in Closers, CloseReturn(c) PROVE ClosedInv'
  BY <1>22 DEF CloseReturn, TeardownDone
<1>23. CASE Aside
  BY <1>23 DEF Aside
<1> HIDE DEF TrackerInv, CloseInv, ClosedInv, PlaceInv, Tearing, PastStop,
             CloseSteps, PublishSteps, Streaming, Quiet, AfterStatus
<1>24. QED
  BY ActsOrAside, <1>1, <1>2, <1>3, <1>4, <1>5, <1>6, <1>7, <1>8, <1>9,
                  <1>10, <1>11, <1>12, <1>13, <1>14, <1>15, <1>16, <1>17,
                  <1>18, <1>19, <1>20, <1>21, <1>22, <1>23
  DEF PublisherActs, CloserActs

(* The teardown waits for the hub's Close.                                 *)
LEMMA HubCloseStep ==
  ASSUME TypeInv, CloseInv, HubCloseInv, HubP!HubInv, [ServiceNext]_vars
  PROVE  HubCloseInv'
<1>0. Domains /\ TypeOK /\ StatusInv /\ DomainInv /\ PlaceInv
  BY DomainsHold DEF TypeInv
<1> USE <1>0 DEF Domains, Goto, hubVars, trackerVars, fixVars, closeVars,
                 ghostVars, rest, CloseInv, HubCloseInv, PlaceInv, Tearing,
                 PastStop, CloseSteps, PublishSteps, AfterStatus
<1>1. ASSUME NEW r \in Reporters, Set(r) PROVE HubCloseInv'
  BY <1>1 DEF Set, Tracker!Set, Tracker!Store, Tracker!NewWord,
              Tracker!Changed, Tracker!Inherit
<1>2. ASSUME NEW r \in Reporters, Commit(r) PROVE HubCloseInv'
  BY <1>2 DEF Commit, Tracker!StorePointer, SaysSomethingNew, AfterStatus
<1>3. ASSUME NEW r \in Reporters, Announce(r) PROVE HubCloseInv'
  BY <1>3 DEF Announce, AfterStatus, Hub!BroadcastStatus, Hub!Broadcast,
              Hub!RLockFree, Hub!RLockWaits, Hub!registry, Hub!channels,
              Hub!calls
<1>4. ASSUME NEW p \in Publishers, PublishFix(p) PROVE HubCloseInv'
  BY <1>4 DEF PublishFix, Publish
<1>5. ASSUME NEW p \in Publishers, PublishError(p) PROVE HubCloseInv'
  BY <1>5 DEF PublishError, Publish
<1>6. ASSUME NEW p \in Publishers, NEW new \in Reports, PublishStatus(p, new)
       PROVE  HubCloseInv'
  BY <1>6 DEF PublishStatus, Publish
<1>7. ASSUME NEW p \in Publishers, AdmitError(p) PROVE HubCloseInv'
  BY <1>7 DEF AdmitError
<1>8. ASSUME NEW p \in Publishers, AdmitRedundant(p) PROVE HubCloseInv'
  BY <1>8 DEF AdmitRedundant
<1>9. ASSUME NEW p \in Publishers, Admit(p) PROVE HubCloseInv'
  BY <1>9 DEF Admit
<1>10. ASSUME NEW p \in Publishers, CacheStore(p) PROVE HubCloseInv'
  BY <1>10 DEF CacheStore, Cached
<1>11. ASSUME NEW p \in Publishers, AnnounceReady(p) PROVE HubCloseInv'
  BY <1>11 DEF AnnounceReady, ReadyAnnounced, Tracker!State
<1>12. ASSUME NEW p \in Publishers, MarkReady(p) PROVE HubCloseInv'
  BY <1>12 DEF MarkReady, Tracker!MarkReady, Tracker!Store, Tracker!NewWord,
               Tracker!Changed
<1>13. ASSUME NEW p \in Publishers, BroadcastFix(p) PROVE HubCloseInv'
  BY <1>13 DEF BroadcastFix, Hub!BroadcastFix, Hub!Broadcast, Hub!RLockFree,
               Hub!RLockWaits, Hub!registry, Hub!channels, Hub!calls
<1>14. ASSUME NEW p \in Publishers, Published(p) PROVE HubCloseInv'
  BY <1>14 DEF Published
<1>15. ASSUME NEW p \in Publishers, PublishAdmitError(p) PROVE HubCloseInv'
  BY <1>15 DEF PublishAdmitError
<1>16. ASSUME NEW p \in Publishers, BroadcastError(p) PROVE HubCloseInv'
  BY <1>16 DEF BroadcastError, Hub!BroadcastError, Hub!Broadcast,
               Hub!RLockFree, Hub!RLockWaits, Hub!registry, Hub!channels,
               Hub!calls
<1>17. ASSUME NEW c \in Closers, Close(c) PROVE HubCloseInv'
  BY <1>17 DEF Close, FirstClose
<1>18. ASSUME NEW c \in Closers, Shut(c) PROVE HubCloseInv'
  BY <1>18 DEF Shut
<1>19. ASSUME NEW c \in Closers, Stop(c) PROVE HubCloseInv'
  BY <1>19 DEF Stop, ProviderQuiet, Quiet
<1>20. ASSUME NEW c \in Closers, HubClose(c) PROVE HubCloseInv'
  BY <1>20 DEF HubClose, Hub!CloseCall, Hub!Call, Hub!registry,
               Hub!channels, Hub!mutex, Hub!walks, Hub!calls
<1>21. ASSUME NEW c \in Closers, Finish(c) PROVE HubCloseInv'
  <2>1. op[c] = "none"
    BY <1>21 DEF Finish, HubP!HubInv, HubP!CallInv
  <2>2. QED
    BY <1>21, <2>1 DEF Finish
<1>22. ASSUME NEW c \in Closers, CloseReturn(c) PROVE HubCloseInv'
  BY <1>22 DEF CloseReturn, TeardownDone
<1>23. CASE Aside
  BY <1>23 DEF Aside
<1> HIDE DEF CloseInv, HubCloseInv, PlaceInv, Tearing, PastStop, CloseSteps,
             PublishSteps, AfterStatus
<1>24. QED
  BY ActsOrAside, <1>1, <1>2, <1>3, <1>4, <1>5, <1>6, <1>7, <1>8, <1>9,
                  <1>10, <1>11, <1>12, <1>13, <1>14, <1>15, <1>16, <1>17,
                  <1>18, <1>19, <1>20, <1>21, <1>22, <1>23
  DEF PublisherActs, CloserActs

-----------------------------------------------------------------------------
(* What every reachable state satisfies.                                   *)
Inv == TypeInv /\ TrackerInv /\ CloseInv /\ ClosedInv /\ HubCloseInv /\ HubP!HubInv

(* Nothing has been called at the start.                                   *)
LEMMA InvInit == Init => Inv
<1> SUFFICES ASSUME Init PROVE Inv
  OBVIOUS
<1>1. HubP!HubInv
  BY SameHub, HubAssumed, HubP!HubInvInit DEF Init
<1>2. TypeOK /\ DomainInv /\ PlaceInv
  <2>1. TypeOK
    <3>1. shut \in BOOLEAN
      BY DEF Init
    <3>2. fix \in [Reporters -> Nat] /\ \A r \in Reporters : fix[r] <= last
      BY DEF Init
    <3>3. finished \subseteq 1 .. last /\ cache \in Nat /\ last \in Nat /\ cache <= last
      BY DEF Init
    <3>4. QED
      BY <3>1, <3>2, <3>3 DEF Init, TypeOK
  <2>2. DomainInv
    BY DEF Init, Tracker!TrackerInit, DomainInv
  <2>3. \A r \in Reporters : at[r] = "idle" /\ fix[r] = 0
    BY DEF Init, Goroutines
  <2>4. PlaceInv
    BY <2>3 DEF PlaceInv, PublishSteps, CloseSteps, Tearing, Reporters
  <2>5. QED
    BY <2>1, <2>2, <2>4
<1>3. Tracker!Initial \in Tracker!Statuses
  BY DEF Tracker!Initial, Tracker!Statuses, Tracker!States, Tracker!Permissions, Messages
<1>4. StatusInv
  BY <1>3 DEF Init, Tracker!TrackerInit, StatusInv
<1>5. TrackerInv /\ ClosedInv
  BY DEF Init, Tracker!TrackerInit, Tracker!Initial, TrackerInv, ClosedInv, Goroutines,
         Reporters
<1>6. CloseInv /\ HubCloseInv
  BY DEF Init, Hub!HubInit, Hub!Writers, CloseInv, HubCloseInv, Tearing, PastStop,
         Goroutines, Reporters
<1>7. QED
  BY <1>1, <1>2, <1>4, <1>5, <1>6 DEF Inv, TypeInv

(* Every step keeps all of it.                                             *)
LEMMA InvStep ==
  ASSUME Inv, [ServiceNext]_vars
  PROVE  Inv'
BY HubAllows, HubKept, TypeKept, TrackerStep, CloseStep, ClosedStep, HubCloseStep DEF Inv

(* The invariant of the service, with its hub's.                           *)
THEOREM ServiceInvariant == Spec => []Inv
<1>1. Init => Inv
  BY InvInit
<1>2. Inv /\ [ServiceNext]_vars => Inv'
  BY InvStep
<1>3. QED
  BY <1>1, <1>2, PTL DEF Spec

(* core.Service uses chanhub the way its specification allows: every call  *)
(* is one the hub takes at that point, with a value it may carry.          *)
THEOREM ServiceUsesHub == Spec => HubSpec
<1>1. Init => Hub!HubInit
  BY DEF Init
<1>2. Inv /\ [ServiceNext]_vars => [Hub!HubNext]_Hub!hubVars
  BY HubAllows DEF Inv
<1>3. QED
  BY <1>1, <1>2, ServiceInvariant, PTL DEF Spec, HubSpec, Hub!HubSpec

(* A status is recorded where an update commits, and nowhere else.         *)
LEMMA OnlyCommits ==
  ASSUME TypeInv, HubP!HubInv, [ServiceNext]_vars
  PROVE  status' = status \/ \E r \in Reporters : Commit(r)
<1> DEFINE Kept == UNCHANGED status
<1> SUFFICES ASSUME ~ \E r \in Reporters : Commit(r) PROVE Kept
  OBVIOUS
<1> USE DEF trackerVars
<1>1. ASSUME NEW r \in Reporters, Set(r) PROVE Kept
  BY <1>1 DEF Set, Tracker!Set, Tracker!Store, Tracker!NewWord,
              Tracker!Changed, Tracker!Inherit
<1>2. ASSUME NEW r \in Reporters, Announce(r) PROVE Kept
  BY <1>2 DEF Announce, AfterStatus
<1>3. ASSUME NEW p \in Publishers, PublishFix(p) PROVE Kept
  BY <1>3 DEF PublishFix, Publish
<1>4. ASSUME NEW p \in Publishers, PublishError(p) PROVE Kept
  BY <1>4 DEF PublishError, Publish
<1>5. ASSUME NEW p \in Publishers, NEW new \in Reports, PublishStatus(p, new)
       PROVE  Kept
  BY <1>5 DEF PublishStatus, Publish
<1>6. ASSUME NEW p \in Publishers, AdmitError(p) PROVE Kept
  BY <1>6 DEF AdmitError
<1>7. ASSUME NEW p \in Publishers, AdmitRedundant(p) PROVE Kept
  BY <1>7 DEF AdmitRedundant
<1>8. ASSUME NEW p \in Publishers, Admit(p) PROVE Kept
  BY <1>8 DEF Admit
<1>9. ASSUME NEW p \in Publishers, CacheStore(p) PROVE Kept
  BY <1>9 DEF CacheStore, Cached
<1>10. ASSUME NEW p \in Publishers, AnnounceReady(p) PROVE Kept
  BY <1>10 DEF AnnounceReady, ReadyAnnounced, Tracker!State
<1>11. ASSUME NEW p \in Publishers, MarkReady(p) PROVE Kept
  BY <1>11 DEF MarkReady, Tracker!MarkReady, Tracker!Store, Tracker!NewWord,
               Tracker!Changed
<1>12. ASSUME NEW p \in Publishers, BroadcastFix(p) PROVE Kept
  BY <1>12 DEF BroadcastFix
<1>13. ASSUME NEW p \in Publishers, Published(p) PROVE Kept
  BY <1>13 DEF Published
<1>14. ASSUME NEW p \in Publishers, PublishAdmitError(p) PROVE Kept
  BY <1>14 DEF PublishAdmitError
<1>15. ASSUME NEW p \in Publishers, BroadcastError(p) PROVE Kept
  BY <1>15 DEF BroadcastError
<1>16. ASSUME NEW c \in Closers, Close(c) PROVE Kept
  BY <1>16 DEF Close, FirstClose
<1>17. ASSUME NEW c \in Closers, Shut(c) PROVE Kept
  BY <1>17 DEF Shut
<1>18. ASSUME NEW c \in Closers, Stop(c) PROVE Kept
  BY <1>18 DEF Stop, ProviderQuiet, Quiet
<1>19. ASSUME NEW c \in Closers, HubClose(c) PROVE Kept
  BY <1>19 DEF HubClose
<1>20. ASSUME NEW c \in Closers, Finish(c) PROVE Kept
  BY <1>20 DEF Finish
<1>21. ASSUME NEW c \in Closers, CloseReturn(c) PROVE Kept
  BY <1>21 DEF CloseReturn, TeardownDone
<1>22. CASE Aside
  BY <1>22 DEF Aside
<1>23. ASSUME NEW r \in Reporters, Commit(r) PROVE Kept
  BY <1>23
<1> HIDE DEF Kept
<1>24. QED
  BY ActsOrAside, <1>1, <1>2, <1>3, <1>4, <1>5, <1>6, <1>7, <1>8, <1>9,
                  <1>10, <1>11, <1>12, <1>13, <1>14, <1>15, <1>16, <1>17,
                  <1>18, <1>19, <1>20, <1>21, <1>22, <1>23
  DEF PublisherActs, CloserActs

(* What may have been recorded last when the provider's Stop has waited is *)
(* Closed, and nobody is left to record anything over it: a status or a    *)
(* fix that was under way when Close was called included.                  *)
THEOREM TerminalOnceStopped == Spec => StoppedIsTerminal
<1>1. ASSUME Inv, [ServiceNext]_vars
      PROVE  [stopWaits /\ status.state = "Closed" => status'.state = "Closed"]_vars
  <2>1. SUFFICES ASSUME stopWaits, status.state = "Closed" PROVE status'.state = "Closed"
    OBVIOUS
  <2>2. Domains
    BY <1>1, DomainsHold DEF Inv
  <2>3. shut /\ Streaming
    BY <1>1, <2>1 DEF Inv, ClosedInv, CloseInv
  <2>4. ASSUME NEW r \in Reporters, Commit(r) PROVE status'.state = "Closed"
    <3>1. at[r] = "commit" /\ status' = update[r].recorded
      BY <2>4 DEF Commit, Goto, Tracker!StorePointer
    <3>2. r \in Closers
      BY <2>3, <3>1 DEF Streaming, Quiet, Reporters
    <3>3. QED
      BY <1>1, <3>1, <3>2 DEF Inv, ClosedInv
  <2>5. status' = status \/ \E r \in Reporters : Commit(r)
    BY <1>1, OnlyCommits DEF Inv
  <2>6. QED
    BY <2>1, <2>4, <2>5
<1>2. QED
  BY <1>1, ServiceInvariant, PTL DEF Spec, StoppedIsTerminal

(* When a call of Close has returned, the teardown is over: native.Stop    *)
(* has returned, the hub is closed and empty, the status is Closed and no  *)
(* publish is under way that Stop waits for.                               *)
THEOREM CompleteOnceClosed == Spec => []CloseIsComplete
<1>1. ASSUME Inv PROVE CloseIsComplete
  <2>1. SUFFICES ASSUME NEW c \in Closers, result[c] # NoAnswer
                 PROVE  /\ result[c] = Stopped(stopErr) /\ stopErr # "none"
                        /\ shut /\ closed /\ subs = {} /\ waiters = {}
                        /\ stopWaits => status.state = "Closed" /\ Streaming
    BY DEF CloseIsComplete
  <2>2. guard = "done" /\ result[c] = Stopped(stopErr) /\ closed
    BY <1>1, <2>1 DEF Inv, CloseInv, HubCloseInv
  <2>3. stopErr # "none" /\ shut /\ (stopWaits => status.state = "Closed" /\ Streaming)
    BY <1>1, <2>2 DEF Inv, CloseInv, ClosedInv
  <2>4. \A d \in Closers : op[d] = "none"
    BY <1>1, <2>2 DEF Inv, CloseInv, HubCloseInv, Tearing
  <2>5. subs = {} /\ waiters = {}
    BY <1>1, <2>2, <2>4 DEF Inv, HubP!HubInv, HubP!ClosedHubIsEmpty, HubP!Emptying
  <2>6. QED
    BY <2>2, <2>3, <2>5
<1>2. QED
  BY <1>1, ServiceInvariant, PTL

(* What is published after Close has returned reaches no subscription.     *)
THEOREM SilentOnceClosed == Spec => NothingAfterClose
<1>1. ASSUME Inv, [ServiceNext]_vars, guard = "done"
      PROVE  \A s \in Subscribers, k \in Hub!Kinds : Len(chan'[s][k]) <= Len(chan[s][k])
  <2>1. closed /\ \A d \in Closers : op[d] = "none"
    BY <1>1 DEF Inv, CloseInv, HubCloseInv, Tearing
  <2>2. ~ HubP!Emptying
    BY <2>1 DEF HubP!Emptying
  <2>3. [HubP!HubNext]_HubP!hubVars
    BY <1>1, HubAllows, SameHub DEF Inv
  <2>4. \A s \in Subscribers, k \in HubP!Kinds : Len(chan'[s][k]) <= Len(chan[s][k])
    BY <1>1, <2>1, <2>2, <2>3, HubAssumed, HubP!ClosedHubSendsNothing DEF Inv
  <2>5. QED
    BY <2>4 DEF Hub!Kinds, HubP!Kinds
<1>2. QED
  BY <1>1, ServiceInvariant, PTL DEF Spec, NothingAfterClose

-----------------------------------------------------------------------------
(* With one publisher, admission and the store cannot be turned around.    *)
LEMMA NewestStep ==
  ASSUME TypeInv, HubP!HubInv, NewestInv, NEW q, Publishers = {q}, [ServiceNext]_vars
  PROVE  NewestInv'
<1>0. Domains /\ TypeOK /\ StatusInv /\ DomainInv /\ PlaceInv
  BY DomainsHold DEF TypeInv
<1> USE <1>0 DEF Domains, Goto, hubVars, trackerVars, fixVars, closeVars,
                 ghostVars, rest, NewestInv
<1>1. ASSUME NEW r \in Reporters, Set(r) PROVE NewestInv'
  BY <1>1 DEF Set, Tracker!Set, Tracker!Store, Tracker!NewWord,
              Tracker!Changed, Tracker!Inherit
<1>2. ASSUME NEW r \in Reporters, Commit(r) PROVE NewestInv'
  BY <1>2 DEF Commit, Tracker!StorePointer, SaysSomethingNew, AfterStatus
<1>3. ASSUME NEW r \in Reporters, Announce(r) PROVE NewestInv'
  BY <1>3 DEF Announce, AfterStatus, Hub!BroadcastStatus, Hub!Broadcast,
              Hub!RLockFree, Hub!RLockWaits, Hub!registry, Hub!channels,
              Hub!calls
<1>4. ASSUME NEW p \in Publishers, PublishFix(p) PROVE NewestInv'
  BY <1>4 DEF PublishFix, Publish
<1>5. ASSUME NEW p \in Publishers, PublishError(p) PROVE NewestInv'
  BY <1>5 DEF PublishError, Publish
<1>6. ASSUME NEW p \in Publishers, NEW new \in Reports, PublishStatus(p, new)
       PROVE  NewestInv'
  BY <1>6 DEF PublishStatus, Publish
<1>7. ASSUME NEW p \in Publishers, AdmitError(p) PROVE NewestInv'
  BY <1>7 DEF AdmitError
<1>8. ASSUME NEW p \in Publishers, AdmitRedundant(p) PROVE NewestInv'
  BY <1>8 DEF AdmitRedundant
<1>9. ASSUME NEW p \in Publishers, Admit(p) PROVE NewestInv'
  BY <1>9 DEF Admit
<1>10. ASSUME NEW p \in Publishers, CacheStore(p) PROVE NewestInv'
  BY <1>10 DEF CacheStore, Cached
<1>11. ASSUME NEW p \in Publishers, AnnounceReady(p) PROVE NewestInv'
  BY <1>11 DEF AnnounceReady, ReadyAnnounced, Tracker!State
<1>12. ASSUME NEW p \in Publishers, MarkReady(p) PROVE NewestInv'
  BY <1>12 DEF MarkReady, Tracker!MarkReady, Tracker!Store, Tracker!NewWord,
               Tracker!Changed
<1>13. ASSUME NEW p \in Publishers, BroadcastFix(p) PROVE NewestInv'
  BY <1>13 DEF BroadcastFix, Hub!BroadcastFix, Hub!Broadcast, Hub!RLockFree,
               Hub!RLockWaits, Hub!registry, Hub!channels, Hub!calls
<1>14. ASSUME NEW p \in Publishers, Published(p) PROVE NewestInv'
  BY <1>14 DEF Published
<1>15. ASSUME NEW p \in Publishers, PublishAdmitError(p) PROVE NewestInv'
  BY <1>15 DEF PublishAdmitError
<1>16. ASSUME NEW p \in Publishers, BroadcastError(p) PROVE NewestInv'
  BY <1>16 DEF BroadcastError, Hub!BroadcastError, Hub!Broadcast,
               Hub!RLockFree, Hub!RLockWaits, Hub!registry, Hub!channels,
               Hub!calls
<1>17. ASSUME NEW c \in Closers, Close(c) PROVE NewestInv'
  BY <1>17 DEF Close, FirstClose
<1>18. ASSUME NEW c \in Closers, Shut(c) PROVE NewestInv'
  BY <1>18 DEF Shut
<1>19. ASSUME NEW c \in Closers, Stop(c) PROVE NewestInv'
  BY <1>19 DEF Stop, ProviderQuiet, Quiet
<1>20. ASSUME NEW c \in Closers, HubClose(c) PROVE NewestInv'
  BY <1>20 DEF HubClose, Hub!CloseCall, Hub!Call, Hub!registry,
               Hub!channels, Hub!mutex, Hub!walks, Hub!calls
<1>21. ASSUME NEW c \in Closers, Finish(c) PROVE NewestInv'
  BY <1>21 DEF Finish
<1>22. ASSUME NEW c \in Closers, CloseReturn(c) PROVE NewestInv'
  BY <1>22 DEF CloseReturn, TeardownDone
<1>23. CASE Aside
  BY <1>23 DEF Aside
<1> HIDE DEF NewestInv
<1>24. QED
  BY ActsOrAside, <1>1, <1>2, <1>3, <1>4, <1>5, <1>6, <1>7, <1>8, <1>9,
                  <1>10, <1>11, <1>12, <1>13, <1>14, <1>15, <1>16, <1>17,
                  <1>18, <1>19, <1>20, <1>21, <1>22, <1>23
  DEF PublisherActs, CloserActs

(* With one publisher, readiness stays on record until its fix is out.     *)
LEMMA ReadyStep ==
  ASSUME TypeInv, TrackerInv, CloseInv, ClosedInv, HubP!HubInv, ReadyInv,
         NEW q, Publishers = {q}, [ServiceNext]_vars
  PROVE  ReadyInv'
<1>0. Domains /\ TypeOK /\ StatusInv /\ DomainInv /\ PlaceInv
  BY DomainsHold DEF TypeInv
<1> USE <1>0 DEF Domains, Goto, hubVars, trackerVars, fixVars, closeVars,
                 ghostVars, rest, ReadyInv, PlaceInv, AfterStatus, CloseInv,
                 Tearing, PastStop
<1>1. ASSUME NEW r \in Reporters, Set(r) PROVE ReadyInv'
  BY <1>1 DEF Set, Tracker!Set, Tracker!Store, Tracker!NewWord,
              Tracker!Changed, Tracker!Inherit
<1>2. ASSUME NEW r \in Reporters, Commit(r) PROVE ReadyInv'
  <2>1. status' = update[r].recorded /\ at[r] = "commit" /\ UNCHANGED <<update, fix, shut>>
        /\ at'[r] \in {"announce", "hubClose", "fix", "idle"}
        /\ (at'[r] = "fix" => fix[r] # 0)
        /\ \A g \in Reporters : g # r => at'[g] = at[g]
    BY <1>2 DEF Commit, Tracker!StorePointer
  <2>2. CASE r \in Closers
    BY <1>2, <2>1, <2>2
  <2>3. CASE r \in Publishers
    BY <1>2, <2>1, <2>3
  <2>4. QED
    BY <2>2, <2>3 DEF Reporters
<1>3. ASSUME NEW r \in Reporters, Announce(r) PROVE ReadyInv'
  BY <1>3 DEF Announce, AfterStatus, Hub!BroadcastStatus, Hub!Broadcast,
              Hub!RLockFree, Hub!RLockWaits, Hub!registry, Hub!channels,
              Hub!calls
<1>4. ASSUME NEW p \in Publishers, PublishFix(p) PROVE ReadyInv'
  BY <1>4 DEF PublishFix, Publish
<1>5. ASSUME NEW p \in Publishers, PublishError(p) PROVE ReadyInv'
  BY <1>5 DEF PublishError, Publish
<1>6. ASSUME NEW p \in Publishers, NEW new \in Reports, PublishStatus(p, new)
       PROVE  ReadyInv'
  BY <1>6 DEF PublishStatus, Publish
<1>7. ASSUME NEW p \in Publishers, AdmitError(p) PROVE ReadyInv'
  BY <1>7 DEF AdmitError
<1>8. ASSUME NEW p \in Publishers, AdmitRedundant(p) PROVE ReadyInv'
  BY <1>8 DEF AdmitRedundant
<1>9. ASSUME NEW p \in Publishers, Admit(p) PROVE ReadyInv'
  BY <1>9 DEF Admit
<1>10. ASSUME NEW p \in Publishers, CacheStore(p) PROVE ReadyInv'
  BY <1>10 DEF CacheStore, Cached
<1>11. ASSUME NEW p \in Publishers, AnnounceReady(p) PROVE ReadyInv'
  <2>1. CASE ~ ReadyAnnounced
    BY <1>11, <2>1 DEF AnnounceReady
  <2>2. CASE ReadyAnnounced
    <3>1. at[p] = "ready" /\ word = "Ready" /\ p = q
      BY <1>11, <2>2 DEF AnnounceReady, ReadyAnnounced, Tracker!State
    <3>2. mu = Nobody
      <4>1. SUFFICES ASSUME mu # Nobody PROVE FALSE
        OBVIOUS
      <4>2. at[mu] = "commit" /\ mu \in Reporters /\ update[mu].recorded.state = "Ready"
        BY <3>1, <4>1 DEF TrackerInv
      <4>3. mu \in Closers
        BY <3>1, <4>2 DEF Reporters
      <4>4. QED
        BY <4>2, <4>3 DEF ClosedInv
    <3>3. status.state = "Ready"
      BY <3>1, <3>2 DEF TrackerInv
    <3>4. QED
      BY <1>11, <3>1, <3>3 DEF AnnounceReady
  <2>3. QED
    BY <2>1, <2>2
<1>12. ASSUME NEW p \in Publishers, MarkReady(p) PROVE ReadyInv'
  BY <1>12 DEF MarkReady, Tracker!MarkReady, Tracker!Store, Tracker!NewWord,
               Tracker!Changed
<1>13. ASSUME NEW p \in Publishers, BroadcastFix(p) PROVE ReadyInv'
  BY <1>13 DEF BroadcastFix, Hub!BroadcastFix, Hub!Broadcast, Hub!RLockFree,
               Hub!RLockWaits, Hub!registry, Hub!channels, Hub!calls
<1>14. ASSUME NEW p \in Publishers, Published(p) PROVE ReadyInv'
  BY <1>14 DEF Published
<1>15. ASSUME NEW p \in Publishers, PublishAdmitError(p) PROVE ReadyInv'
  BY <1>15 DEF PublishAdmitError
<1>16. ASSUME NEW p \in Publishers, BroadcastError(p) PROVE ReadyInv'
  BY <1>16 DEF BroadcastError, Hub!BroadcastError, Hub!Broadcast,
               Hub!RLockFree, Hub!RLockWaits, Hub!registry, Hub!channels,
               Hub!calls
<1>17. ASSUME NEW c \in Closers, Close(c) PROVE ReadyInv'
  BY <1>17 DEF Close, FirstClose
<1>18. ASSUME NEW c \in Closers, Shut(c) PROVE ReadyInv'
  BY <1>18 DEF Shut
<1>19. ASSUME NEW c \in Closers, Stop(c) PROVE ReadyInv'
  BY <1>19 DEF Stop, ProviderQuiet, Quiet
<1>20. ASSUME NEW c \in Closers, HubClose(c) PROVE ReadyInv'
  BY <1>20 DEF HubClose, Hub!CloseCall, Hub!Call, Hub!registry,
               Hub!channels, Hub!mutex, Hub!walks, Hub!calls
<1>21. ASSUME NEW c \in Closers, Finish(c) PROVE ReadyInv'
  BY <1>21 DEF Finish
<1>22. ASSUME NEW c \in Closers, CloseReturn(c) PROVE ReadyInv'
  BY <1>22 DEF CloseReturn, TeardownDone
<1>23. CASE Aside
  BY <1>23 DEF Aside
<1> HIDE DEF ReadyInv, PlaceInv, AfterStatus, CloseInv, Tearing, PastStop
<1>24. QED
  BY ActsOrAside, <1>1, <1>2, <1>3, <1>4, <1>5, <1>6, <1>7, <1>8, <1>9,
                  <1>10, <1>11, <1>12, <1>13, <1>14, <1>15, <1>16, <1>17,
                  <1>18, <1>19, <1>20, <1>21, <1>22, <1>23
  DEF PublisherActs, CloserActs

(* Whenever no publish is under way the cache holds the newest admitted    *)
(* fix, on a platform where one goroutine publishes.                       *)
THEOREM NewestIsCached ==
  ASSUME NEW q, Publishers = {q}
  PROVE  Spec => []CacheIsNewest
<1>1. Init => NewestInv
  BY DEF Init, NewestInv, Goroutines, Reporters
<1>2. Inv /\ NewestInv /\ [ServiceNext]_vars => NewestInv'
  BY NewestStep DEF Inv
<1>3. NewestInv => CacheIsNewest
  BY DEF NewestInv, CacheIsNewest, Streaming, Quiet
<1>4. QED
  BY <1>1, <1>2, <1>3, ServiceInvariant, PTL DEF Spec

(* While a fix is being told, readiness stays on record beside one         *)
(* publisher, and only the service's being closed takes it back.           *)
LEMMA ReadyOnRecord ==
  ASSUME NEW q, Publishers = {q}
  PROVE  Spec => []ReadyInv
<1>1. Init => ReadyInv
  BY DEF Init, ReadyInv, Goroutines, Reporters
<1>2. Inv /\ ReadyInv /\ [ServiceNext]_vars => ReadyInv'
  BY ReadyStep DEF Inv
<1>3. QED
  BY <1>1, <1>2, ServiceInvariant, PTL DEF Spec
=============================================================================
