--------------------------- MODULE CurrentProofs ---------------------------
(***************************************************************************)
(* That a subscription which drops its oldest values ends with the current *)
(* status, however many goroutines report: unless two of them announce at  *)
(* once, a status on its way to the subscriptions is the one on record,    *)
(* and until it has reached a subscription the goroutine that announces it *)
(* still has that one to serve. Beside one publisher nobody else announces *)
(* before the service is shut, and Ready is told before the fix.           *)
(***************************************************************************)
EXTENDS DeliveryProofs

Telling(r) == HubP!Active(r) /\ msg[r].kind = "status"

Live(s) == at[s] \in {"added", "watching"}

(* Announcements that overlap have been noticed; outside of a broadcast    *)
(* there is no message, and a status is told between two other steps.      *)
AloneInv ==
  /\ Crossing => crossed
  /\ \A r \in Reporters : HubP!Active(r) \/ msg[r] = Nobody
  /\ \A r \in Reporters : Telling(r) => at[r] \in {"idle", "fix", "hubClose"}

(* An update counts as a change when it says something new; what is being  *)
(* announced is what is on record.                                         *)
RecordedInv ==
  \A r \in Reporters :
    /\ at[r] = "commit" => update[r].changed = (status # update[r].recorded)
    /\ ~ crossed /\ (at[r] = "announce" \/ Telling(r)) => update[r].recorded = status

(* A slot that an announcement has freed is not taken by another.          *)
RoomInv ==
  \A r \in Reporters :
    ~ crossed /\ Telling(r) /\ pc[r] = "resend" =>
      Len(chan[target[r]]["status"]) < Buffer[target[r]]

(* Only the teardown closes the hub.                                       *)
ClosedByInv == closed => guard = "done" \/ \E c \in Closers : at[c] = "finish"

(* Subscribe makes the channels, and until its Add is over they are empty; *)
(* then they are open unless the hub has been closed.                      *)
SubscriptionInv ==
  \A s \in Subscribers :
    /\ at[s] \in {"idle", "prime", "add"} => ends[s] = "unmade"
    /\ Live(s) => /\ ends[s] # "unmade" /\ op[s] \in {"none", "add"}
                  /\ ends[s] # "open" => closed
    /\ op[s] = "add" => prime[s]["status"] = <<report[s]>>
    /\ HubP!Unregistered(s) => \A k \in HubP!Kinds : chan[s][k] = <<>>

(* The announcement of r has yet to be told to s.                          *)
StillTo(r, s) ==
  \/ at[r] = "announce"
  \/ Telling(r) /\ (pc[r] \in {"blocked", "rlocked"} \/ s \in leftSubs[r])

CurrentInv ==
  \A s \in Subscribers :
    ~ crossed /\ Hears(s) /\ Policy[s] = "DropOldest" =>
      \/ told[s] = <<status>> \/ Missed(s)
      \/ \E r \in Reporters : StillTo(r, s)

CurInv == AloneInv /\ RecordedInv /\ RoomInv /\ ClosedByInv /\ SubscriptionInv

-----------------------------------------------------------------------------
(* Unless announcements have crossed, one goroutine announces at a time.   *)
LEMMA AnnouncesAlone ==
  ASSUME AloneInv, ~ crossed, NEW r1 \in Reporters, NEW r2 \in Reporters,
         Announcing(r1), Announcing(r2)
  PROVE  r1 = r2
BY DEF AloneInv, Crossing

(* To tell a status is to announce it: a message is not no message.        *)
LEMMA TellingAnnounces ==
  ASSUME HubP!HubInv, NEW r \in Reporters, Telling(r)
  PROVE  Announcing(r)
<1>1. msg[r] \in Hub!Message
  BY DEF HubP!HubInv, HubP!WalkInv, Telling, HubP!Active, HubP!Message, HubP!Kinds, Hub!Message,
     Hub!Kinds
<1>2. msg[r] # Nobody
  BY <1>1, NobodyAssumption
<1>3. QED
  BY <1>2 DEF Announcing, Telling

(* Behind the hub's Close nobody announces, if Stop waits for publishers.  *)
LEMMA ClosedIsQuiet ==
  ASSUME Inv, Carries, ClosedByInv, stopWaits, closed, NEW r \in Reporters
  PROVE  ~ Telling(r)
<1>1. Streaming
  BY DEF ClosedByInv, Inv, CloseInv, PastStop, Tearing
<1>2. CASE r \in Publishers
  BY <1>1, <1>2 DEF Streaming, Quiet, Telling, HubP!Active, HubP!Reading
<1>3. CASE r \in Closers
  <2>1. SUFFICES ASSUME at[r] = "hubClose" PROVE FALSE
    BY <1>3 DEF Carries, Telling
  <2>2. guard = "running" /\ \A d \in Closers : at[d] \in Tearing => r = d
    BY <1>3, <2>1 DEF Inv, CloseInv, Tearing
  <2>3. QED
    BY <2>1, <2>2 DEF ClosedByInv, Tearing
<1>4. QED
  BY <1>2, <1>3 DEF Reporters

-----------------------------------------------------------------------------
(* What every step adds to a subscription's history.                       *)
LEMMA Heard ==
  ASSUME HubP!HubInv, AloneInv, [ServiceNext]_vars, NEW s \in Subscribers
  PROVE  /\ crossed' <=> crossed \/ Crossing'
         /\ told'[s] = IF Len(Statuses(s)') > Len(Statuses(s))
                       THEN <<Statuses(s)'[Len(Statuses(s)')]>> ELSE told[s]
         /\ outdated'[s] <=> IF s \in subs' \ subs THEN status # report[s]
                             ELSE outdated[s] /\ status' = status
<1>1. CASE Hear
  BY <1>1 DEF Hear
<1>2. CASE UNCHANGED vars
  <2>1. Len(Statuses(s)) \in Nat
    BY DEF HubP!HubInv, HubP!HubTypeOK, HubP!Kinds, Statuses
  <2>2. Crossing' <=> Crossing
    BY <1>2 DEF vars, hubVars, trackerVars, Crossing, Announcing
  <2>3. UNCHANGED <<chan, subs, status, told, outdated, crossed>>
    BY <1>2 DEF vars, hubVars, trackerVars, heardVars
  <2>4. QED
    BY <2>1, <2>2, <2>3 DEF AloneInv, Statuses
<1>3. QED
  BY <1>1, <1>2 DEF ServiceNext

(* What has crossed remains so.                                            *)
LEMMA NotCrossed ==
  ASSUME [ServiceNext]_vars, ~ crossed'
  PROVE  ~ crossed
BY DEF ServiceNext, Hear, vars, heardVars

-----------------------------------------------------------------------------
(* What a reporter does between two of its updates.                        *)
LEMMA ReporterMoves ==
  ASSUME TypeInv, HubP!HubInv, [ServiceNext]_vars, NEW r \in Reporters
  PROVE  \/ at'[r] = at[r] /\ update'[r] = update[r]
         \/ Set(r) \/ Commit(r) \/ Announce(r) \/ (r \in Publishers /\ MarkReady(r))
         \/ /\ update'[r] = update[r] /\ pc[r] = "idle"
            /\ at[r] \notin {"commit", "announce"} /\ at'[r] \notin {"commit", "announce"}
<1> DEFINE Same == at'[r] = at[r] /\ update'[r] = update[r]
           Else == /\ update'[r] = update[r] /\ pc[r] = "idle"
                   /\ at[r] \notin {"commit", "announce"} /\ at'[r] \notin {"commit", "announce"}
<1>1. Domains
  BY DomainsHold
<1>2. DOMAIN at = Goroutines /\ DOMAIN update = Reporters /\ r \in Goroutines
  BY <1>1 DEF Domains
<1> USE <1>2 DEF Goto, trackerVars
<1>3. ASSUME NEW p \in Reporters, p # r, Set(p) \/ Commit(p) \/ Announce(p) PROVE Same
  BY <1>3 DEF Set, Tracker!Set, Tracker!Store, Commit, Tracker!StorePointer, Announce
<1>4. ASSUME NEW p \in Publishers,
             PublishFix(p) \/ PublishError(p) \/ \E new \in Reports : PublishStatus(p, new)
      PROVE  Same \/ Else
  BY <1>4 DEF PublishFix, PublishError, PublishStatus, Publish
<1>5. ASSUME NEW p \in Publishers, p # r, MarkReady(p) PROVE Same
  BY <1>5 DEF MarkReady, Tracker!MarkReady, Tracker!Store
<1>6. ASSUME NEW p \in Publishers,
             \/ AdmitError(p) \/ AdmitRedundant(p) \/ CacheStore(p) \/ AnnounceReady(p)
             \/ BroadcastFix(p) \/ PublishAdmitError(p) \/ BroadcastError(p)
      PROVE  Same \/ Else
  BY <1>6 DEF AdmitError, AdmitRedundant, CacheStore, AnnounceReady, BroadcastFix,
              PublishAdmitError, BroadcastError
<1>7. ASSUME NEW p \in Publishers, Admit(p) \/ Published(p) PROVE Same \/ Else
  BY <1>7 DEF Admit, Published
<1>8. ASSUME NEW c \in Closers, Close(c) \/ Shut(c) \/ Stop(c) \/ HubClose(c) \/ Finish(c)
                                \/ CloseReturn(c)
      PROVE  Same \/ Else
  BY <1>8 DEF Close, Shut, Stop, HubClose, Finish, CloseReturn
<1>9. Aside => Same
  BY DEF Aside
<1> HIDE DEF Same, Else
<1>10. PublisherActs => \/ Same \/ Else \/ Set(r) \/ Commit(r) \/ Announce(r)
                        \/ (r \in Publishers /\ MarkReady(r))
  BY <1>3, <1>4, <1>5, <1>6, <1>7 DEF PublisherActs
<1>11. CloserActs => Same \/ Else
  BY <1>8 DEF CloserActs
<1>12. QED
  BY <1>9, <1>10, <1>11, ActsOrAside DEF Same, Else

(* A status begins to be told where it is announced.                       *)
LEMMA TellingMoves ==
  ASSUME Inv, [ServiceNext]_vars, NEW r \in Reporters, Telling(r)'
  PROVE  \/ Telling(r) /\ msg'[r] = msg[r] /\ pc[r] # "idle" /\ at'[r] = at[r]
            /\ update'[r] = update[r]
         \/ Announce(r)
<1>1. HubP!HubInv /\ TypeInv
  BY DEF Inv
<1>2. r \in DOMAIN msg
  BY <1>1 DEF HubP!HubInv, HubP!HubTypeOK
<1>3. r \in Publishers /\ (BroadcastFix(r) \/ BroadcastError(r)) => msg'[r].kind # "status"
  BY <1>2 DEF BroadcastFix, BroadcastError, Hub!BroadcastFix, Hub!BroadcastError, Hub!Broadcast
<1>4. HubP!Active(r)' /\ msg'[r].kind = "status"
  BY DEF Telling
<1>5. QED
  BY <1>1, <1>3, <1>4, Begins, Waits DEF Telling

(* Every step keeps an eye on announcements that overlap, and messages     *)
(* inside of their broadcasts.                                             *)
LEMMA AloneStep ==
  ASSUME Inv, AloneInv, [ServiceNext]_vars
  PROVE  AloneInv'
<1>1. [HubP!HubNext]_HubP!hubVars /\ HubP!HubInv /\ Domains
  BY HubMoves, DomainsHold DEF Inv
<1>2. Crossing' => crossed'
  <2>1. CASE Hear
    BY <2>1 DEF Hear
  <2>2. CASE UNCHANGED vars
    BY <2>2 DEF vars, hubVars, trackerVars, heardVars, AloneInv, Crossing, Announcing
  <2>3. QED
    BY <2>1, <2>2 DEF ServiceNext
<1>3. ASSUME NEW r \in Reporters PROVE HubP!Active(r)' \/ msg'[r] = Nobody
  BY <1>1, HubAssumed, HubP!SilentKept DEF AloneInv
<1>4. ASSUME NEW r \in Reporters, Telling(r)' PROVE at'[r] \in {"idle", "fix", "hubClose"}
  <2>1. Announce(r) => at'[r] \in {"idle", "fix", "hubClose"}
    BY <1>1 DEF Domains, Announce, Goto, AfterStatus
  <2>2. QED
    BY <1>4, <2>1, TellingMoves DEF AloneInv
<1>5. QED
  BY <1>2, <1>3, <1>4 DEF AloneInv, Telling, HubP!Active, HubP!Reading

(* The closed flag stays up, and the provider is of one kind.              *)
LEMMA FlagsKept ==
  ASSUME TypeInv, HubP!HubInv, CloseInv, [ServiceNext]_vars
  PROVE  /\ stopWaits' = stopWaits /\ (shut => shut')
         /\ guard = "done" => guard' = "done"
         /\ \A c \in Closers : at[c] = "finish" => at'[c] = "finish" \/ guard' = "done"
<1> DEFINE Kept == /\ stopWaits' = stopWaits /\ (shut => shut')
                   /\ guard = "done" => guard' = "done"
                   /\ \A c \in Closers : at[c] = "finish" => at'[c] = "finish" \/ guard' = "done"
<1>1. Domains
  BY DomainsHold
<1>2. \A c \in Closers : c \in DOMAIN at /\ c \notin Publishers
  BY <1>1 DEF Domains
<1> USE <1>2 DEF Goto, closeVars, rest
<1>3. ASSUME NEW r \in Reporters, Set(r) \/ Commit(r) \/ Announce(r) PROVE Kept
  BY <1>3 DEF Set, Commit, Announce
<1>4. ASSUME NEW p \in Publishers,
             PublishFix(p) \/ PublishError(p) \/ \E new \in Reports : PublishStatus(p, new)
      PROVE  Kept
  BY <1>4 DEF PublishFix, PublishError, PublishStatus, Publish
<1>5. ASSUME NEW p \in Publishers,
             \/ AdmitError(p) \/ AdmitRedundant(p) \/ Admit(p) \/ CacheStore(p)
             \/ AnnounceReady(p) \/ MarkReady(p) \/ BroadcastFix(p) \/ Published(p)
             \/ PublishAdmitError(p) \/ BroadcastError(p)
      PROVE  Kept
  BY <1>5 DEF AdmitError, AdmitRedundant, Admit, CacheStore, AnnounceReady, MarkReady,
              BroadcastFix, Published, PublishAdmitError, BroadcastError
<1>6. ASSUME NEW c \in Closers, Close(c) PROVE Kept
  BY <1>6 DEF Close, FirstClose
<1>7. ASSUME NEW c \in Closers, Shut(c) \/ Stop(c) \/ HubClose(c) \/ Finish(c) \/ CloseReturn(c)
      PROVE  Kept
  BY <1>7 DEF Shut, Stop, HubClose, Finish, CloseReturn
<1>8. Aside => Kept
  BY DEF Aside, Reporters
<1> HIDE DEF Kept
<1>9. Kept
  BY <1>3, <1>4, <1>5, <1>6, <1>7, <1>8, ActsOrAside DEF PublisherActs, CloserActs
<1>10. QED
  BY <1>9 DEF Kept

-----------------------------------------------------------------------------
(* Every step keeps what is announced on record.                           *)
LEMMA RecordedStep ==
  ASSUME Inv, AloneInv, RecordedInv, [ServiceNext]_vars
  PROVE  RecordedInv'
<1>1. TypeInv /\ HubP!HubInv /\ TrackerInv /\ CloseInv /\ Domains
  BY DomainsHold DEF Inv
<1>2. ~ crossed' => ~ crossed
  BY <1>1, NotCrossed
<1>3. status' = status \/ \E r \in Reporters : Commit(r)
  BY <1>1, OnlyCommits
<1>4. ASSUME NEW r \in Reporters, Commit(r)
      PROVE  at[r] = "commit" /\ pc[r] = "idle" /\ mu = r /\ at'[r] # "commit"
             /\ status' = update[r].recorded /\ update' = update
  BY <1>1, <1>4 DEF Domains, Commit, Goto, Tracker!StorePointer, AfterStatus
<1>5. ASSUME NEW r \in Reporters, at'[r] = "commit"
      PROVE  update'[r].changed = (status' # update'[r].recorded)
  <2>1. CASE Set(r) \/ (r \in Publishers /\ MarkReady(r))
    BY <1>1, <2>1
    DEF Domains, Set, MarkReady, Tracker!Set, Tracker!MarkReady, Tracker!Store, Tracker!Changed
  <2>2. CASE at'[r] = at[r] /\ update'[r] = update[r]
    <3>1. \A c \in Reporters : Commit(c) => c = r
      BY <1>1, <1>4, <1>5, <2>2 DEF TrackerInv
    <3>2. status' = status
      BY <1>3, <1>4, <1>5, <3>1
    <3>3. QED
      BY <1>5, <2>2, <3>2 DEF RecordedInv
  <2>3. ~ Announce(r)
    BY <1>1, <1>5 DEF Domains, Announce, Goto, AfterStatus
  <2>4. QED
    BY <1>1, <1>4, <1>5, <2>1, <2>2, <2>3, ReporterMoves
<1>6. ASSUME NEW r \in Reporters, ~ crossed', at'[r] = "announce" \/ Telling(r)'
      PROVE  update'[r].recorded = status'
  <2>1. CASE Commit(r)
    BY <1>4, <2>1
  <2>2. CASE (at[r] = "announce" \/ (Telling(r) /\ pc[r] # "idle")) /\ update'[r] = update[r]
    <3>1. ASSUME NEW c \in Reporters, Commit(c) PROVE status' = status
      <4>1. c # r /\ at[c] = "commit"
        BY <1>4, <2>2, <3>1
      <4>2. Announcing(r)
        BY <1>1, <2>2, TellingAnnounces DEF Announcing
      <4>3. ~ update[c].changed
        BY <1>2, <1>6, <4>1, <4>2, AnnouncesAlone DEF Announcing
      <4>4. QED
        BY <1>4, <3>1, <4>1, <4>3 DEF RecordedInv
    <3>2. status' = status
      BY <1>3, <3>1
    <3>3. QED
      BY <1>2, <1>6, <2>2, <3>2 DEF RecordedInv
  <2>3. Announce(r) => at[r] = "announce" /\ update'[r] = update[r]
    BY DEF Announce, Goto, trackerVars
  <2>4. Telling(r)' => (Telling(r) /\ pc[r] # "idle" /\ update'[r] = update[r]) \/ Announce(r)
    BY TellingMoves
  <2>5. at'[r] = "announce" => (at[r] = "announce" /\ update'[r] = update[r]) \/ Commit(r)
    <3>1. Set(r) \/ (r \in Publishers /\ MarkReady(r)) => at'[r] # "announce"
      BY <1>1 DEF Domains, Set, MarkReady, Goto
    <3>2. QED
      BY <1>1, <2>3, <3>1, ReporterMoves
  <2>6. QED
    BY <1>6, <2>1, <2>2, <2>3, <2>4, <2>5
<1>7. QED
  BY <1>5, <1>6 DEF RecordedInv, Telling, HubP!Active, HubP!Reading

(* What becomes of a subscription's statuses in a step.                    *)
LEMMA StatusQueue ==
  ASSUME Inv, [ServiceNext]_vars, NEW s \in Subscribers
  PROVE  LET Q == chan[s]["status"] IN
         \/ chan'[s]["status"] = Q
         \/ Q # <<>> /\ chan'[s]["status"] = Tail(Q)
         \/ \E b \in Reporters : /\ Telling(b) /\ HubP!Sends(b, s)
                                 /\ chan'[s]["status"] = Append(Q, msg[b].value)
         \/ op[s] = "add" /\ chan'[s]["status"] = prime[s]["status"]
<1> DEFINE Q == chan[s]["status"]
           Queued == \/ chan'[s]["status"] = Q
                     \/ Q # <<>> /\ chan'[s]["status"] = Tail(Q)
                     \/ \E b \in Reporters : /\ Telling(b) /\ HubP!Sends(b, s)
                                             /\ chan'[s]["status"] = Append(Q, msg[b].value)
                     \/ op[s] = "add" /\ chan'[s]["status"] = prime[s]["status"]
<1>1. [HubP!HubNext]_HubP!hubVars /\ HubP!HubInv
  BY HubMoves DEF Inv
<1>2. chan \in [Subscribers -> [HubP!Kinds -> Seq(Payload)]] /\ "status" \in HubP!Kinds
  BY <1>1 DEF HubP!HubInv, HubP!HubTypeOK, HubP!Kinds
<1>3. ASSUME NEW b \in Reporters, NEW u \in Subscribers, HubP!Sends(b, u) PROVE Queued
  <2>1. CASE u = s /\ msg[b].kind = "status"
    <3>1. chan'[s]["status"] = Append(Q, msg[b].value)
      BY <1>2, <1>3, <2>1 DEF HubP!Sends, HubP!Send
    <3>2. Telling(b)
      BY <1>3, <2>1 DEF HubP!Sends, Telling, HubP!Active, HubP!Reading
    <3>3. QED
      BY <1>3, <2>1, <3>1, <3>2
  <2>2. CASE ~ (u = s /\ msg[b].kind = "status")
    BY <1>2, <1>3, <2>2 DEF HubP!Sends, HubP!Send
  <2>3. QED
    BY <2>1, <2>2
<1>4. ASSUME NEW b \in Reporters, HubP!Discard(b) PROVE Queued
  <2>1. chan'[s]["status"] = Q \/ chan'[s]["status"] = HubP!Discarded(Q)
    BY <1>2, <1>4 DEF HubP!Discard
  <2>2. QED
    BY <2>1 DEF HubP!Discarded
<1>5. ASSUME NEW u \in Subscribers, NEW k \in HubP!Kinds, HubP!Receive(u, k) PROVE Queued
  <2>1. CASE u = s /\ k = "status"
    BY <1>2, <1>5, <2>1 DEF HubP!Receive
  <2>2. CASE ~ (u = s /\ k = "status")
    BY <1>2, <1>5, <2>2 DEF HubP!Receive
  <2>3. QED
    BY <2>1, <2>2
<1>6. ASSUME NEW u \in Subscribers, HubP!Primes(u) PROVE Queued
  BY <1>2, <1>6 DEF HubP!Primes, HubP!Add, HubP!InSection
<1> HIDE DEF Queued
<1>7. Queued
  <2>1. chan' = chan => Queued
    BY DEF Queued
  <2>2. QED
    BY <1>1, <1>3, <1>4, <1>5, <1>6, <2>1, HubAssumed, HubP!ChannelMoves
<1>8. QED
  BY <1>7 DEF Queued

(* Every step keeps the freed slot free: nobody else announces, and a      *)
(* subscription is primed before it is announced to.                       *)
LEMMA RoomStep ==
  ASSUME Inv, AloneInv, RoomInv, [ServiceNext]_vars
  PROVE  RoomInv'
<1>1. TypeInv /\ HubP!HubInv /\ CloseInv /\ HubP!HubInv' /\ [HubP!HubNext]_HubP!hubVars
  BY HubMoves DEF Inv
<1>2. /\ chan \in [Subscribers -> [HubP!Kinds -> Seq(Payload)]] /\ "status" \in HubP!Kinds
      /\ \A t \in Subscribers : Len(chan[t]["status"]) <= Buffer[t] /\ Buffer[t] \in Nat \ {0}
  BY <1>1, ServiceAssumption DEF HubP!HubInv, HubP!HubTypeOK, HubP!Kinds
<1> SUFFICES ASSUME NEW r \in Reporters, ~ crossed', Telling(r)', pc'[r] = "resend"
             PROVE  Len(chan'[target'[r]]["status"]) < Buffer[target'[r]]
  BY DEF RoomInv, Telling, HubP!Active, HubP!Reading
<1>3. ~ crossed
  BY <1>1, NotCrossed
<1>4. ~ Announce(r)
  BY <1>1 DEF Announce, Hub!BroadcastStatus, Hub!Broadcast, Hub!RLockFree, Hub!RLockWaits,
     HubP!HubInv, HubP!HubTypeOK
<1>5. Telling(r) /\ msg'[r] = msg[r]
  BY <1>4, TellingMoves
<1> DEFINE t == target'[r]
           Q == chan[t]["status"]
<1>6. t \in Subscribers
  BY <1>1 DEF HubP!HubInv, HubP!HubTypeOK, HubP!WalkInv
<1>7. Q \in Seq(Payload) /\ Len(Q) <= Buffer[t] /\ Buffer[t] \in Nat \ {0}
  BY <1>2, <1>6
<1>8. CASE HubP!Discard(r)
  <2>1. target'[r] = target[r] /\ msg[r].kind = "status"
    BY <1>5, <1>8 DEF HubP!Discard, HubP!walks, Telling
  <2>2. chan'[t]["status"] = HubP!Discarded(Q)
    BY <1>2, <1>6, <1>8, <2>1 DEF HubP!Discard
  <2>3. QED
    BY <1>7, <2>2 DEF HubP!Discarded
<1>9. CASE pc[r] = "resend" /\ t = target[r] /\ leftSubs'[r] = leftSubs[r]
  <2>1. Len(Q) < Buffer[t]
    BY <1>3, <1>5, <1>9 DEF RoomInv
  <2>2. t \in leftSubs[r] /\ t \in subs
    BY <1>1, <1>9 DEF HubP!HubInv, HubP!WalkInv, HubP!Walking
  <2>3. op[t] # "add"
    BY <1>1, <1>6, <2>2 DEF HubP!HubInv, HubP!CallInv
  <2>4. ASSUME NEW b \in Reporters, Telling(b), HubP!Sends(b, t) PROVE FALSE
    <3>1. b = r
      BY <1>1, <1>3, <1>5, <2>4, AnnouncesAlone, TellingAnnounces
    <3>2. leftSubs'[r] = leftSubs[r] \ {t}
      BY <1>1, <2>4, <3>1 DEF HubP!Sends, HubP!HubInv, HubP!HubTypeOK
    <3>3. QED
      BY <1>9, <2>2, <3>2
  <2>5. chan'[t]["status"] = Q \/ (Q # <<>> /\ chan'[t]["status"] = Tail(Q))
    BY <1>6, <2>3, <2>4, StatusQueue
  <2>6. CASE chan'[t]["status"] = Q
    BY <2>1, <2>6
  <2>7. CASE Q # <<>> /\ chan'[t]["status"] = Tail(Q)
    <3>1. Len(Tail(Q)) = Len(Q) - 1 /\ Len(Q) \in Nat
      BY <1>7, <2>7
    <3>2. QED
      BY <1>7, <2>1, <2>7, <3>1
  <2>8. QED
    BY <2>5, <2>6, <2>7
<1>10. HubP!BroadcastStep(r) \/ (pc[r] = "resend" /\ t = target[r] /\ leftSubs'[r] = leftSubs[r])
  BY <1>1, HubAssumed, HubP!WalkIsOwn DEF HubP!Walking
<1>11. HubP!BroadcastStep(r) => HubP!Discard(r)
  <2>1. r \in DOMAIN pc
    BY <1>1 DEF HubP!HubInv, HubP!HubTypeOK, HubP!Goroutines
  <2>2. QED
    BY <2>1
    DEF HubP!BroadcastStep, HubP!RLockAdmitted, HubP!StartWalk, HubP!Offer, HubP!OfferRefused,
        HubP!OfferFull, HubP!Resend, HubP!Wake, HubP!RUnlock
<1>12. QED
  BY <1>8, <1>9, <1>10, <1>11

(* Every step keeps it so that a closed hub was closed by the teardown.    *)
LEMMA ClosedByStep ==
  ASSUME Inv, ClosedByInv, [ServiceNext]_vars
  PROVE  ClosedByInv'
<1>1. [HubP!HubNext]_HubP!hubVars /\ TypeInv /\ HubP!HubInv /\ CloseInv /\ HubCloseInv
  BY HubMoves DEF Inv
<1>2. closed' => closed \/ \E c \in Closers : op[c] = "close"
  BY <1>1, HubAssumed, HubP!ClosedMoves
<1>3. closed' => guard = "done" \/ \E c \in Closers : at[c] = "finish"
  BY <1>1, <1>2 DEF ClosedByInv, HubCloseInv
<1>4. QED
  BY <1>1, <1>3, FlagsKept DEF ClosedByInv

-----------------------------------------------------------------------------
(* A subscription is moved by its own steps alone.                         *)
LEMMA SubscriberMoves ==
  ASSUME TypeInv, HubP!HubInv, [ServiceNext]_vars, NEW s \in Subscribers
  PROVE  \/ at'[s] = at[s] /\ report'[s] = report[s]
         \/ Subscribe(s) \/ PrimeStatus(s) \/ Add(s) \/ WatchSubscription(s)
         \/ WatchDone(s) \/ WatchCancelled(s)
<1> DEFINE Same == at'[s] = at[s] /\ report'[s] = report[s]
<1>1. Domains
  BY DomainsHold
<1>2. /\ DOMAIN at = Goroutines /\ DOMAIN report = Reporters \cup Subscribers /\ s \in Goroutines
      /\ s \notin Reporters /\ s \notin Callers /\ Publishers \subseteq Reporters
      /\ Closers \subseteq Reporters
  BY <1>1, ServiceAssumption DEF Domains
<1> USE <1>2 DEF Goto, rest
<1>3. ASSUME NEW r \in Reporters, Set(r) \/ Commit(r) \/ Announce(r) PROVE Same
  BY <1>3 DEF Set, Commit, Announce
<1>4. ASSUME NEW p \in Publishers,
             PublishFix(p) \/ PublishError(p) \/ \E new \in Reports : PublishStatus(p, new)
      PROVE  Same
  BY <1>4 DEF PublishFix, PublishError, PublishStatus, Publish
<1>5. ASSUME NEW p \in Publishers,
             \/ AdmitError(p) \/ AdmitRedundant(p) \/ Admit(p) \/ CacheStore(p)
             \/ AnnounceReady(p) \/ MarkReady(p) \/ BroadcastFix(p) \/ Published(p)
             \/ PublishAdmitError(p) \/ BroadcastError(p)
      PROVE  Same
  BY <1>5 DEF AdmitError, AdmitRedundant, Admit, CacheStore, AnnounceReady, MarkReady,
              BroadcastFix, Published, PublishAdmitError, BroadcastError
<1>6. ASSUME NEW c \in Closers, Close(c) \/ Shut(c) \/ Stop(c) \/ HubClose(c) \/ Finish(c)
                                \/ CloseReturn(c)
      PROVE  Same
  BY <1>6 DEF Close, Shut, Stop, HubClose, Finish, CloseReturn
<1>7. ASSUME NEW w \in Callers, Next(w) \/ Current(w) PROVE Same
  BY <1>7 DEF Next, Current, Enter
<1>8. ASSUME NEW w \in Callers, AwaitCancelled(w) \/ CallerStep(w) PROVE Same
  BY <1>8 DEF CallerStep, CurrentClosed, CurrentOpen, CurrentCached, CurrentStale, NextClosed,
              NextOpen, AddOnce, AddOnceRefused, AwaitEvent, AwaitClosed, RemoveOnce, Answer,
              AwaitCancelled
<1>9. ASSUME NEW u \in Subscribers, u # s, Subscribe(u) \/ WatchCancelled(u) \/ SubscriberStep(u)
      PROVE  Same
  BY <1>9 DEF Subscribe, WatchCancelled, SubscriberStep, PrimeStatus, Add, WatchSubscription,
              WatchDone
<1>10. ASSUME HubStep \/ (\E u \in Subscribers, k \in Hub!Kinds : Receive(u, k)) \/ UNCHANGED vars
       PROVE  Same
  BY <1>10 DEF HubStep, serviceVars, Receive, vars
<1> HIDE DEF Same
<1>11. \/ Same \/ Subscribe(s) \/ PrimeStatus(s) \/ Add(s) \/ WatchSubscription(s)
       \/ WatchDone(s) \/ WatchCancelled(s)
  BY <1>3, <1>4, <1>5, <1>6, <1>7, <1>8, <1>9, <1>10
  DEF ServiceNext, Environment, ReporterStep, SubscriberStep
<1>12. QED
  BY <1>11 DEF Same

(* Its channels and the hub operation it is in, as well.                   *)
LEMMA RegistrationMoves ==
  ASSUME TypeInv, HubP!HubInv, [ServiceNext]_vars, NEW s \in Subscribers
  PROVE  \/ /\ ends'[s] = ends[s] \/ op[s] = "remove" \/ closed
            /\ ends'[s] = "unmade" <=> ends[s] = "unmade"
            /\ op'[s] = op[s] \/ op'[s] = "none"
         \/ Add(s) \/ WatchCancelled(s)
<1> DEFINE Moves == /\ ends'[s] = ends[s] \/ op[s] = "remove" \/ closed
                    /\ ends'[s] = "unmade" <=> ends[s] = "unmade"
                    /\ op'[s] = op[s] \/ op'[s] = "none"
<1>1. /\ ends \in [HubP!Entries -> {"unmade", "open", "closed", "refused"}]
      /\ s \in DOMAIN op /\ s \in HubP!Entries
  BY DEF HubP!HubInv, HubP!HubTypeOK, HubP!Entries, HubP!Writers
<1> USE DEF Hub!registry, Hub!channels, Hub!mutex, Hub!walks, Hub!calls
<1>2. ASSUME HubStep \/ (\E v \in Callers : AwaitEvent(v))
                     \/ \E u \in Subscribers, k \in Hub!Kinds : Receive(u, k)
      PROVE  Moves
  <2>1. HubP!HubStep \/ HubP!Read
    BY <1>2, SameSteps DEF HubStep, AwaitEvent, Receive, HubP!Read
  <2>2. QED
    BY <2>1, HubAssumed, HubP!SubMoves
<1>3. ASSUME NEW r \in Reporters, Announce(r) PROVE Moves
  BY <1>3 DEF Announce, Hub!BroadcastStatus, Hub!Broadcast
<1>4. ASSUME NEW p \in Publishers, BroadcastFix(p) \/ BroadcastError(p) PROVE Moves
  BY <1>4 DEF BroadcastFix, BroadcastError, Hub!BroadcastFix, Hub!BroadcastError, Hub!Broadcast
<1>5. ASSUME NEW c \in Closers, HubClose(c) PROVE Moves
  <2>1. c # s
    BY ServiceAssumption DEF Reporters
  <2>2. QED
    BY <1>1, <1>5, <2>1 DEF HubClose, Hub!CloseCall, Hub!Call
<1>6. ASSUME NEW v \in Callers, AddOnce(v) \/ RemoveOnce(v) PROVE Moves
  <2>1. v # s
    BY ServiceAssumption
  <2>2. QED
    BY <1>1, <1>6, <2>1 DEF AddOnce, RemoveOnce, Hub!AddOnceCall, Hub!RemoveOnceCall, Hub!Call
<1>7. ASSUME NEW u \in Subscribers, u # s, Add(u) \/ WatchCancelled(u) PROVE Moves
  BY <1>1, <1>7 DEF Add, WatchCancelled, Hub!AddCall, Hub!RemoveCall, Hub!Call
<1>8. UNCHANGED hubVars => Moves
  BY DEF hubVars
<1> HIDE DEF Moves
<1>9. Moves \/ Add(s) \/ WatchCancelled(s)
  BY <1>2, <1>3, <1>4, <1>5, <1>6, <1>7, <1>8, HubTouched DEF Calls
<1>10. QED
  BY <1>9 DEF Moves

(* Every step keeps where a subscription is in agreement with its channels.*)
LEMMA SubscriptionStep ==
  ASSUME Inv, SubscriptionInv, [ServiceNext]_vars
  PROVE  SubscriptionInv'
<1>1. TypeInv /\ HubP!HubInv /\ HubP!HubInv' /\ [HubP!HubNext]_HubP!hubVars /\ Domains
  BY HubMoves, DomainsHold DEF Inv
<1>2. (closed => closed')
  BY <1>1, HubAssumed, HubP!ClosedMoves
<1> SUFFICES ASSUME NEW s \in Subscribers
             PROVE  /\ at'[s] \in {"idle", "prime", "add"} => ends'[s] = "unmade"
                    /\ Live(s)' => /\ ends'[s] # "unmade" /\ op'[s] \in {"none", "add"}
                                   /\ ends'[s] # "open" => closed'
                    /\ op'[s] = "add" => prime'[s]["status"] = <<report'[s]>>
                    /\ HubP!Unregistered(s)' => \A k \in HubP!Kinds : chan'[s][k] = <<>>
  BY DEF SubscriptionInv, HubP!Unregistered, Live, HubP!Kinds
<1>3. /\ s \in DOMAIN at /\ s \in DOMAIN ends /\ s \in DOMAIN op /\ s \in DOMAIN prime
      /\ \A u \in Subscribers : u \in DOMAIN at
      /\ ends[s] \in {"unmade", "open", "closed", "refused"}
      /\ op[s] = "add" => ends[s] = "open"
  BY <1>1 DEF Domains, HubP!HubInv, HubP!HubTypeOK, HubP!CallInv, HubP!Entries, HubP!Writers
<1>4. HubP!Unregistered(s)' => \A k \in HubP!Kinds : chan'[s][k] = <<>>
  BY <1>1, HubAssumed, HubP!UnregisteredKept, HubP!UnregisteredIsEmpty DEF SubscriptionInv
<1>5. CASE Add(s)
  <2>1. /\ at'[s] = "added" /\ ends'[s] = "open" /\ op'[s] = "add"
        /\ prime'[s] = Priming(s) /\ report' = report
    BY <1>3, <1>5 DEF Add, Goto, Hub!AddCall, Hub!Call, rest
  <2>2. QED
    BY <1>4, <2>1 DEF Live, Priming
<1>6. CASE WatchCancelled(s)
  <2>1. at'[s] = "ended" /\ op'[s] = "remove"
    BY <1>3, <1>6 DEF WatchCancelled, Goto, Hub!RemoveCall, Hub!Call
  <2>2. QED
    BY <1>4, <2>1 DEF Live
<1>7. CASE ~ Add(s) /\ ~ WatchCancelled(s)
  <2>1. /\ ends'[s] = ends[s] \/ op[s] = "remove" \/ closed
        /\ ends'[s] = "unmade" <=> ends[s] = "unmade"
        /\ op'[s] = op[s] \/ op'[s] = "none"
    BY <1>1, <1>7, RegistrationMoves
  <2>2. prime'[s] = prime[s]
    <3>1. ASSUME NEW u \in Subscribers, u # s, Add(u) PROVE prime'[s] = prime[s]
      BY <1>3, <3>1 DEF Add, Hub!AddCall
    <3>2. QED
      BY <1>7, <3>1, PrimeMoves
  <2>3. /\ at'[s] \in {"idle", "prime", "add"} => at[s] \in {"idle", "prime", "add"}
        /\ Live(s)' => Live(s)
        /\ report'[s] = report[s] \/ at[s] \in {"idle", "prime", "add"}
    <3>1. CASE at'[s] = at[s] /\ report'[s] = report[s]
      BY <3>1 DEF Live
    <3>2. CASE Subscribe(s) \/ PrimeStatus(s) \/ WatchSubscription(s) \/ WatchDone(s)
      BY <1>3, <3>2
      DEF Subscribe, PrimeStatus, WatchSubscription, WatchDone, Goto, Live, rest
    <3>3. QED
      BY <1>1, <1>7, <3>1, <3>2, SubscriberMoves
  <2>4. at'[s] \in {"idle", "prime", "add"} => ends'[s] = "unmade"
    BY <2>1, <2>3 DEF SubscriptionInv
  <2>5. Live(s)' => /\ ends'[s] # "unmade" /\ op'[s] \in {"none", "add"}
                    /\ ends'[s] # "open" => closed'
    BY <1>2, <2>1, <2>3 DEF SubscriptionInv
  <2>6. op'[s] = "add" => prime'[s]["status"] = <<report'[s]>>
    BY <1>3, <2>1, <2>2, <2>3 DEF SubscriptionInv
  <2>7. QED
    BY <1>4, <2>4, <2>5, <2>6
<1>8. QED
  BY <1>5, <1>6, <1>7

-----------------------------------------------------------------------------
(* An announcement keeps a subscription to serve until it sends to it: it  *)
(* is registered, its policy refuses nothing, and the slot freed for it is *)
(* still there. A status told to a hub that is closed was recorded by the  *)
(* provider's last goroutine, and Stop has waited for that.                *)
LEMMA StillKept ==
  ASSUME Inv, Carries, CurInv, [ServiceNext]_vars, ~ crossed,
         NEW s \in Subscribers, Hears(s), Policy[s] = "DropOldest",
         NEW r \in Reporters, StillTo(r, s)
  PROVE  StillTo(r, s)' \/ (Telling(r) /\ HubP!Sends(r, s))
<1>1. /\ TypeInv /\ HubP!HubInv /\ [HubP!HubNext]_HubP!hubVars /\ Domains
      /\ RoomInv /\ ClosedByInv /\ SubscriptionInv
  BY HubMoves, DomainsHold DEF Inv, CurInv
<1>2. /\ pc \in [HubP!Goroutines -> {"idle", "lock", "drain", "locked", "blocked", "rlocked",
                                     "walk", "discard", "resend"}]
      /\ r \in HubP!Goroutines /\ leftSubs \in [Reporters -> SUBSET Subscribers]
      /\ DOMAIN msg = Reporters
  BY <1>1 DEF HubP!HubInv, HubP!HubTypeOK, Domains
<1>3. CASE at[r] = "announce"
  <2>1. CASE Announce(r)
    <3>1. /\ msg'[r].kind = "status" /\ pc'[r] \in {"blocked", "rlocked"}
      BY <1>2, <2>1 DEF Announce, Hub!BroadcastStatus, Hub!Broadcast, Hub!RLockFree,
         Hub!RLockWaits
    <3>2. QED
      BY <3>1 DEF StillTo, Telling, HubP!Active, HubP!Reading
  <2>2. ~ Set(r) /\ ~ Commit(r) /\ ~ (r \in Publishers /\ MarkReady(r))
    BY <1>3 DEF Set, Commit, MarkReady, Goto
  <2>3. QED
    BY <1>1, <1>3, <2>1, <2>2, ReporterMoves DEF StillTo
<1>4. CASE Telling(r) /\ (pc[r] \in {"blocked", "rlocked"} \/ s \in leftSubs[r])
  <2>1. msg'[r] = msg[r] /\ pc'[r] = pc[r] /\ leftSubs'[r] = leftSubs[r] => StillTo(r, s)'
    BY <1>4 DEF StillTo, Telling, HubP!Active, HubP!Reading
  <2>2. HubP!Walking(r)' /\ msg'[r] = msg[r] /\ s \in leftSubs'[r] => StillTo(r, s)'
    BY <1>4 DEF StillTo, Telling, HubP!Active, HubP!Reading, HubP!Walking
  <2>3. s \in subs
    <3>1. SUFFICES ASSUME stopWaits, Live(s), ends[s] = "closed" PROVE FALSE
      BY DEF Hears, Live
    <3>2. closed
      BY <1>1, <3>1 DEF SubscriptionInv
    <3>3. QED
      BY <1>1, <1>4, <3>1, <3>2, ClosedIsQuiet
  <2>4. CASE HubP!RLockAdmitted(r)
    <3>1. pc'[r] = "rlocked" /\ msg' = msg
      BY <1>2, <2>4 DEF HubP!RLockAdmitted, HubP!walks
    <3>2. QED
      BY <1>4, <3>1 DEF StillTo, Telling, HubP!Active, HubP!Reading
  <2>5. CASE HubP!StartWalk(r)
    BY <1>2, <2>2, <2>3, <2>5 DEF HubP!StartWalk, HubP!Walking
  <2>6. ASSUME NEW u \in Subscribers, HubP!Offer(r, u) PROVE StillTo(r, s)' \/ HubP!Sends(r, s)
    <3>1. CASE u = s
      BY <2>6, <3>1 DEF HubP!Offer, HubP!Sends
    <3>2. CASE u # s
      BY <1>2, <1>4, <2>2, <2>6, <3>2 DEF HubP!Offer, HubP!Walking
    <3>3. QED
      BY <3>1, <3>2
  <2>7. ASSUME NEW u \in Subscribers, HubP!OfferRefused(r, u) PROVE StillTo(r, s)'
    <3>1. u # s
      BY <2>7 DEF HubP!OfferRefused, HubP!Refuses
    <3>2. QED
      BY <1>2, <1>4, <2>2, <2>7, <3>1 DEF HubP!OfferRefused, HubP!Walking
  <2>8. ASSUME NEW u \in Subscribers, HubP!OfferFull(r, u) PROVE StillTo(r, s)'
    BY <1>2, <1>4, <2>2, <2>8 DEF HubP!OfferFull, HubP!Walking
  <2>9. CASE HubP!Discard(r)
    BY <1>2, <1>4, <2>2, <2>9 DEF HubP!Discard, HubP!Walking, HubP!walks
  <2>10. CASE HubP!Resend(r)
    <3>1. CASE target[r] = s
      <4>1. HubP!HasRoom(r, s)
        BY <1>1, <1>4, <2>10, <3>1 DEF RoomInv, HubP!HasRoom, HubP!Queue, HubP!Resend, Telling
      <4>2. HubP!Sends(r, s)
        BY <1>4, <2>10, <3>1, <4>1 DEF HubP!Resend, HubP!Retry, HubP!Sends
      <4>3. QED
        BY <1>4, <4>2
    <3>2. CASE target[r] # s
      BY <1>2, <1>4, <2>2, <2>10, <3>2 DEF HubP!Resend, HubP!Walking
    <3>3. QED
      BY <3>1, <3>2
  <2>11. ASSUME NEW w \in Callers, HubP!Wake(r, w) PROVE FALSE
    BY <1>4, <2>11 DEF HubP!Wake
  <2>12. ~ HubP!RUnlock(r)
    BY <1>4 DEF HubP!RUnlock, HubP!Walked
  <2>13. HubP!BroadcastStep(r) => StillTo(r, s)' \/ HubP!Sends(r, s)
    BY <1>4, <2>4, <2>5, <2>6, <2>7, <2>8, <2>9, <2>10, <2>11, <2>12 DEF HubP!BroadcastStep
  <2>14. HubP!BroadcastStep(r) \/ (msg'[r] = msg[r] /\ pc'[r] = pc[r] /\ leftSubs'[r] = leftSubs[r])
    BY <1>1, <1>4, HubAssumed, HubP!BroadcastIsOwn DEF Telling
  <2>15. QED
    BY <1>4, <2>1, <2>13, <2>14
<1>5. QED
  BY <1>3, <1>4 DEF StillTo

(* A subscription that hears what is announced was registered before, or   *)
(* is now, and it keeps the status that its Subscribe read.                *)
LEMMA HearsKept ==
  ASSUME Inv, CurInv, [ServiceNext]_vars, NEW s \in Subscribers, Hears(s)'
  PROVE  \/ /\ s \in subs' \ subs /\ status' = status /\ report'[s] = report[s]
            /\ chan[s]["status"] = <<>> /\ chan'[s]["status"] = <<report[s]>>
         \/ /\ s \notin subs' \ subs /\ Hears(s) /\ op[s] # "add" /\ report'[s] = report[s]
<1>1. /\ TypeInv /\ HubP!HubInv /\ [HubP!HubNext]_HubP!hubVars /\ CloseInv /\ Domains
      /\ SubscriptionInv
  BY HubMoves, DomainsHold DEF Inv, CurInv
<1>2. s \in DOMAIN at /\ s \in DOMAIN ends /\ s \in DOMAIN chan
  BY <1>1 DEF Domains, HubP!HubInv, HubP!HubTypeOK, HubP!Entries
<1>3. CASE s \in subs' \ subs
  <2>1. op[s] = "add" /\ chan' = [chan EXCEPT ![s] = prime[s]]
    BY <1>1, <1>3, HubAssumed, HubP!RegisteredMoves
  <2>2. chan[s]["status"] = <<>> /\ chan'[s]["status"] = <<report[s]>>
    BY <1>1, <1>2, <2>1 DEF SubscriptionInv, HubP!Unregistered, HubP!Kinds
  <2>3. UNCHANGED serviceVars
    <3>1. subs' = subs \/ HubStep
      BY HubTouched
      DEF Calls, hubVars, Announce, BroadcastFix, BroadcastError, HubClose, AddOnce, RemoveOnce,
          Add, WatchCancelled, AwaitEvent, Receive, Hub!BroadcastStatus, Hub!BroadcastFix,
          Hub!BroadcastError, Hub!Broadcast, Hub!CloseCall, Hub!AddOnceCall, Hub!RemoveOnceCall,
          Hub!AddCall, Hub!RemoveCall, Hub!Take, Hub!Receive, Hub!registry
    <3>2. QED
      BY <1>3, <3>1 DEF HubStep
  <2>4. QED
    BY <1>3, <2>2, <2>3 DEF serviceVars, trackerVars, rest
<1>4. CASE s \notin subs' \ subs
  <2>1. stopWaits' = stopWaits
    BY <1>1, FlagsKept
  <2>2. ends'[s] = "closed" => ends[s] = "closed" \/ s \in subs
    BY <1>1, HubAssumed, HubP!RegisteredMoves
  <2>3. Live(s)' => Live(s) \/ Add(s)
    <3>1. Subscribe(s) \/ PrimeStatus(s) \/ WatchSubscription(s) \/ WatchDone(s)
            \/ WatchCancelled(s) => (Live(s)' => Live(s))
      BY <1>2
      DEF Subscribe, PrimeStatus, WatchSubscription, WatchDone, WatchCancelled, Goto, Live
    <3>2. QED
      BY <1>1, <3>1, SubscriberMoves DEF Live
  <2>4. Add(s) => ends'[s] = "open"
    BY <1>2 DEF Add, Hub!AddCall
  <2>5. Hears(s)
    BY <1>4, <2>1, <2>2, <2>3, <2>4 DEF Hears, Live
  <2>6. ends[s] # "unmade" /\ op[s] # "add"
    BY <1>1, <2>5 DEF Hears, HubP!HubInv, HubP!NoDoubleClose, HubP!CallInv
  <2>7. ~ PrimeStatus(s) /\ ~ Add(s)
    BY <1>1, <2>6 DEF SubscriptionInv, PrimeStatus, Add, Goto
  <2>8. report'[s] = report[s]
    BY <1>1, <2>7, SubscriberMoves DEF Subscribe, WatchSubscription, WatchDone, WatchCancelled, rest
  <2>9. QED
    BY <1>4, <2>5, <2>6, <2>8
<1>5. QED
  BY <1>3, <1>4

(* Every step keeps what a subscription was told current, or still to be   *)
(* told, or missed.                                                        *)
LEMMA CurrentStep ==
  ASSUME Inv, Carries, CurInv, CurrentInv, [ServiceNext]_vars
  PROVE  CurrentInv'
<1>1. /\ TypeInv /\ HubP!HubInv /\ Domains /\ AloneInv /\ RecordedInv
  BY DomainsHold DEF Inv, CurInv
<1> SUFFICES ASSUME NEW s \in Subscribers, ~ crossed', Hears(s)', Policy[s] = "DropOldest"
             PROVE  \/ told'[s] = <<status'>> \/ Missed(s)'
                    \/ \E r \in Reporters : StillTo(r, s)'
  BY DEF CurrentInv, Hears, Missed, StillTo, Telling, HubP!Active, HubP!Reading
<1> DEFINE Q == chan[s]["status"]
           UpToDate == \/ told'[s] = <<status'>> \/ Missed(s)'
                       \/ \E r \in Reporters : StillTo(r, s)'
<1>2. ~ crossed
  BY NotCrossed
<1>3. Q \in Seq(Payload) /\ Len(Q) \in Nat
  BY <1>1 DEF HubP!HubInv, HubP!HubTypeOK, HubP!Kinds
<1>4. /\ told'[s] = IF Len(chan'[s]["status"]) > Len(Q)
                    THEN <<chan'[s]["status"][Len(chan'[s]["status"])]>> ELSE told[s]
      /\ outdated'[s] <=> IF s \in subs' \ subs THEN status # report[s]
                          ELSE outdated[s] /\ status' = status
  BY <1>1, Heard DEF Statuses
<1>5. CASE s \in subs' \ subs
  <2>1. /\ status' = status /\ report'[s] = report[s]
        /\ Q = <<>> /\ chan'[s]["status"] = <<report[s]>>
    BY <1>5, HearsKept
  <2>2. told'[s] = <<report[s]>>
    BY <1>4, <2>1
  <2>3. QED
    BY <1>4, <1>5, <2>1, <2>2 DEF Missed
<1>6. CASE s \notin subs' \ subs
  <2>1. Hears(s) /\ op[s] # "add" /\ report'[s] = report[s]
    BY <1>6, HearsKept
  <2>2. told[s] = <<status>> \/ Missed(s) \/ \E r \in Reporters : StillTo(r, s)
    BY <1>2, <2>1 DEF CurrentInv
  <2>3. CASE status' # status
    <3>1. PICK r \in Reporters : Commit(r)
      BY <1>1, <2>3, OnlyCommits
    <3>2. at[r] = "commit" /\ status' = update[r].recorded
      BY <3>1 DEF Commit, Goto, Tracker!StorePointer
    <3>3. update[r].changed
      BY <1>1, <2>3, <3>2 DEF RecordedInv
    <3>4. at'[r] = "announce"
      BY <1>1, <3>1, <3>3 DEF Domains, Commit, Goto, SaysSomethingNew
    <3>5. QED
      BY <3>4 DEF StillTo
  <2>4. CASE status' = status
    <3>1. ASSUME NEW b \in Reporters, Telling(b), chan'[s]["status"] = Append(Q, msg[b].value)
          PROVE  UpToDate
      <4>1. msg[b].value = status
        BY <1>1, <1>2, <3>1 DEF RecordedInv, Carries, Telling
      <4>2. msg[b].value \in Payload
        BY <1>1, <3>1 DEF Telling, HubP!HubInv, HubP!WalkInv, HubP!Active, HubP!Message
      <4>3. /\ Len(chan'[s]["status"]) = Len(Q) + 1
            /\ chan'[s]["status"][Len(Q) + 1] = msg[b].value
        BY <1>3, <3>1, <4>2
      <4>4. told'[s] = <<status>>
        BY <1>3, <1>4, <4>1, <4>3
      <4>5. QED
        BY <2>4, <4>4
    <3>2. ASSUME NEW r \in Reporters, StillTo(r, s) PROVE UpToDate
      <4>1. StillTo(r, s)' \/ (Telling(r) /\ HubP!Sends(r, s))
        BY <1>2, <2>1, <3>2, StillKept
      <4>2. CASE Telling(r) /\ HubP!Sends(r, s)
        <5>1. chan'[s]["status"] = Append(Q, msg[r].value)
          BY <1>1, <4>2 DEF Telling, HubP!Sends, HubP!Send, HubP!HubInv, HubP!HubTypeOK, HubP!Kinds
        <5>2. QED
          BY <3>1, <4>2, <5>1
      <4>3. QED
        BY <4>1, <4>2
    <3>3. ASSUME told'[s] = told[s] PROVE UpToDate
      <4>1. Missed(s) => Missed(s)'
        BY <1>4, <1>6, <2>1, <2>4, <3>3 DEF Missed
      <4>2. QED
        BY <2>2, <2>4, <3>2, <3>3, <4>1
    <3>4. ASSUME chan'[s]["status"] = Q PROVE UpToDate
      BY <1>3, <1>4, <3>3, <3>4
    <3>5. ASSUME Q # <<>>, chan'[s]["status"] = Tail(Q) PROVE UpToDate
      <4>1. Len(Tail(Q)) = Len(Q) - 1
        BY <1>3, <3>5
      <4>2. told'[s] = told[s]
        BY <1>3, <1>4, <3>5, <4>1
      <4>3. QED
        BY <3>3, <4>2
    <3>6. \/ chan'[s]["status"] = Q
          \/ Q # <<>> /\ chan'[s]["status"] = Tail(Q)
          \/ \E b \in Reporters : Telling(b) /\ chan'[s]["status"] = Append(Q, msg[b].value)
      <4> HIDE DEF UpToDate
      <4>1. QED
        BY <2>1, StatusQueue
    <3> HIDE DEF UpToDate, Q
    <3>7. UpToDate
      BY <3>1, <3>4, <3>5, <3>6
    <3>8. QED
      BY <3>7 DEF UpToDate
  <2>5. QED
    BY <2>3, <2>4
<1>7. QED
  BY <1>5, <1>6

-----------------------------------------------------------------------------
(* All of it holds from the start.                                         *)
LEMMA CurrentInit == Init => Carries /\ CurInv /\ CurrentInv
<1> SUFFICES ASSUME Init PROVE Carries /\ CurInv /\ CurrentInv
  OBVIOUS
<1>1. \A r \in Reporters : ~ HubP!Active(r) /\ msg[r] = Nobody /\ at[r] = "idle"
  BY DEF Init, Hub!HubInit, Hub!Goroutines, HubP!Active, HubP!Reading, Goroutines
<1>2. Carries /\ RecordedInv /\ RoomInv
  BY <1>1 DEF Carries, RecordedInv, RoomInv, Telling
<1>3. AloneInv
  BY <1>1 DEF AloneInv, Crossing, Announcing, Telling
<1>4. ClosedByInv
  BY DEF Init, Hub!HubInit, ClosedByInv
<1>5. \A s \in Subscribers : /\ at[s] = "idle" /\ ends[s] = "unmade" /\ op[s] = "none"
                             /\ \A k \in HubP!Kinds : chan[s][k] = <<>>
  BY DEF Init, Hub!HubInit, Hub!Writers, Hub!NoValues, Hub!Kinds, HubP!Kinds, Goroutines
<1>6. SubscriptionInv
  BY <1>5 DEF SubscriptionInv, Live, HubP!Kinds
<1>7. CurrentInv
  BY <1>5 DEF CurrentInv, Hears, Init, Hub!HubInit
<1>8. QED
  BY <1>2, <1>3, <1>4, <1>6, <1>7 DEF CurInv

(* Every step keeps it.                                                    *)
LEMMA CurrentKept ==
  ASSUME Inv, Carries, CurInv, CurrentInv, [ServiceNext]_vars
  PROVE  Carries' /\ CurInv' /\ CurrentInv'
<1>1. AloneInv /\ RecordedInv /\ RoomInv /\ ClosedByInv /\ SubscriptionInv
  BY DEF CurInv
<1>2. CurInv'
  BY <1>1, AloneStep, RecordedStep, RoomStep, ClosedByStep, SubscriptionStep DEF CurInv
<1>3. QED
  BY <1>2, CarriesStep, CurrentStep

(* However many goroutines report: whenever no status is being announced,  *)
(* and no announcements have ever crossed, what a subscription that drops  *)
(* its oldest was told last is the status on record - or it was primed     *)
(* with one that changed before it was registered, and not since.          *)
THEOREM StatusIsCurrent == Spec => []PrimedOrCurrent
<1>1. Inv /\ CurrentInv => PrimedOrCurrent
  <2> SUFFICES ASSUME Inv, CurrentInv, StatusSettled, ~ crossed, NEW s \in Subscribers,
                      Hears(s), Policy[s] = "DropOldest"
               PROVE  told[s] = <<status>> \/ Missed(s)
    BY DEF PrimedOrCurrent
  <2>1. ASSUME NEW r \in Reporters PROVE ~ StillTo(r, s)
    BY TellingAnnounces DEF Inv, StillTo, StatusSettled, Announcing
  <2>2. QED
    BY <2>1 DEF CurrentInv
<1>2. QED
  BY <1>1, CurrentInit, CurrentKept, ServiceInvariant, PTL DEF Spec

-----------------------------------------------------------------------------
(* Beside one publisher only the teardown announces at the same time.      *)
CrossedInv == crossed => shut

(* Every step of a session with one publisher keeps that.                  *)
LEMMA CrossedStep ==
  ASSUME Inv, Carries', CurInv, CurInv', CrossedInv, NEW q, Publishers = {q}, [ServiceNext]_vars
  PROVE  CrossedInv'
<1>1. Inv' /\ TypeInv /\ HubP!HubInv /\ CloseInv /\ AloneInv
  BY HubMoves DEF Inv, CurInv
<1>2. shut => shut'
  BY <1>1, FlagsKept
<1>3. ASSUME NEW c \in Closers, Announcing(c)' PROVE shut'
  <2>1. at'[c] \in {"commit", "announce"} \/ at'[c] = "hubClose"
    <3>1. CASE msg'[c] # Nobody /\ msg'[c].kind = "status"
      BY <3>1 DEF CurInv, AloneInv, Carries, Reporters, HubP!Active, HubP!Reading
    <3>2. QED
      BY <1>3, <3>1 DEF Announcing
  <2>2. QED
    BY <1>1, <2>1 DEF Inv, CloseInv, Tearing
<1>4. Crossing' => shut'
  <2>1. \A r \in Reporters : r = q \/ r \in Closers
    BY DEF Reporters
  <2>2. SUFFICES ASSUME NEW r1 \in Reporters, NEW r2 \in Reporters, r1 # r2,
                        Announcing(r1)', Announcing(r2)'
                 PROVE  shut'
    BY DEF Crossing, Announcing
  <2>3. QED
    BY <1>3, <2>1, <2>2
<1>5. crossed' => crossed \/ Crossing'
  BY DEF ServiceNext, Hear, vars, heardVars
<1>6. QED
  BY <1>2, <1>4, <1>5 DEF CrossedInv

(* On a platform where one goroutine publishes, when it begins to tell a   *)
(* fix every subscription that drops its oldest was told Ready last: the   *)
(* readiness on record had been announced, by a goroutine that was alone.  *)
THEOREM ReadyIsBefore ==
  ASSUME NEW q, Publishers = {q}
  PROVE  Spec => []ReadyBeforeFix
<1>1. Init => CrossedInv
  BY DEF Init, CrossedInv
<1>2. Inv /\ Inv' /\ Carries' /\ CurInv /\ CurInv' /\ CrossedInv /\ [ServiceNext]_vars
        => CrossedInv'
  BY CrossedStep
<1>3. Inv /\ Carries /\ CurInv /\ CurrentInv /\ CrossedInv /\ ReadyInv => ReadyBeforeFix
  <2> SUFFICES ASSUME Inv, CurInv, CurrentInv, CrossedInv, ReadyInv, Carries,
                      NEW p \in Publishers, NEW s \in subs, at[p] = "published", ~ shut,
                      Policy[s] = "DropOldest"
               PROVE  Missed(s) \/ (told[s] # <<>> /\ told[s][1].state = "Ready")
    BY DEF ReadyBeforeFix
  <2>1. s \in Subscribers
    BY DEF Inv, HubP!HubInv, HubP!HubTypeOK
  <2>2. ASSUME NEW r \in Reporters PROVE ~ StillTo(r, s)
    <3>1. CASE r \in Closers
      <4>1. StillTo(r, s) => at[r] \in {"announce", "hubClose"}
        BY <3>1 DEF StillTo, Telling, Carries
      <4>2. QED
        BY <3>1, <4>1 DEF Inv, CloseInv, Tearing
    <3>2. CASE r = p
      BY <3>2 DEF StillTo, CurInv, AloneInv, Reporters
    <3>3. QED
      BY <3>1, <3>2 DEF Reporters
  <2>3. told[s] = <<status>> \/ Missed(s)
    BY <2>1, <2>2 DEF CrossedInv, CurrentInv, Hears
  <2>4. status.state = "Ready"
    BY DEF ReadyInv
  <2>5. ASSUME told[s] = <<status>> PROVE told[s] # <<>> /\ told[s][1] = status
    BY <2>5
  <2>6. QED
    BY <2>3, <2>4, <2>5
<1>4. QED
  BY <1>1, <1>2, <1>3, CurrentInit, CurrentKept, ReadyOnRecord, ServiceInvariant, PTL DEF Spec
=============================================================================
