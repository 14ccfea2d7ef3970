--------------------------- MODULE ChanHubProofs ---------------------------
(***************************************************************************)
(* What the hub promises however it is used: HubSpec allows any number of  *)
(* goroutines, any payloads, buffers and policies, and any order of calls. *)
(***************************************************************************)
EXTENDS ChanHub, TLAPS

(* The lock. The writer announced is the one that drains the readers or is *)
(* inside; a reader is counted in from its RLock, or from the Unlock it    *)
(* waited for, to its RUnlock.                                             *)
Reading(b) == pc[b] \in {"rlocked", "walk", "discard", "resend"}

LockInv ==
  /\ \A p \in Goroutines : pc[p] \in {"drain", "locked"} <=> writer = p
  /\ \A p \in Goroutines : pc[p] = "locked" => readers = {}
  /\ \A b \in Broadcasters :
       b \in readers <=> Reading(b) \/ (pc[b] = "blocked" /\ b \notin blocked)
  /\ \A b \in blocked : pc[b] = "blocked"
  /\ blocked # {} => writer # Nobody

(* A walk visits nothing that is not registered any more.                  *)
WalkInv ==
  \A b \in Broadcasters :
    /\ Walking(b) =>
         leftSubs[b] \subseteq subs /\ leftWaiters[b] \subseteq waiters
    /\ pc[b] \in {"discard", "resend"} => target[b] \in leftSubs[b]
    /\ (pc[b] = "blocked" \/ Reading(b)) => msg[b] \in Message

(* A write operation lasts from its call to its Unlock; until then what it *)
(* registers is open and not registered.                                   *)
CallInv ==
  /\ \A p \in Writers : op[p] # "none" => pc[p] \in {"lock", "drain", "locked"}
  /\ \A p \in Writers :
       op[p] = "empty" => p \in Closers /\ pc[p] = "locked" /\ closed
  /\ \A s \in Subs : op[s] = "add" => s \notin subs /\ ends[s] = "open"
  /\ \A w \in Waiters :
       op[w] = "addOnce" => w \notin waiters /\ ends[w] = "open"
  /\ \A s \in Subs : ends[s] = "open" => s \in subs \/ op[s] = "add"

HubInv ==
  HubTypeOK /\ LockInv /\ WalkInv /\ CallInv /\ NoDoubleClose /\ ClosedHubIsEmpty

-----------------------------------------------------------------------------
(* The three ways a channel changes under a broadcast or a receive keep    *)
(* its type and its buffer's bound.                                        *)
LEMMA ChanUpdate ==
  ASSUME HubTypeOK, NEW s \in Subs, NEW k \in Kinds,
         NEW q \in Seq(Payload), Len(q) <= Buffer[s],
         chan' = [chan EXCEPT ![s][k] = q]
  PROVE  /\ chan' \in [Subs -> [Kinds -> Seq(Payload)]]
         /\ \A t \in Subs, j \in Kinds : Len(chan'[t][j]) <= Buffer[t]
<1>1. chan \in [Subs -> [Kinds -> Seq(Payload)]]
  BY DEF HubTypeOK
<1>2. chan' \in [Subs -> [Kinds -> Seq(Payload)]]
  BY <1>1
<1>3. ASSUME NEW t \in Subs, NEW j \in Kinds PROVE Len(chan'[t][j]) <= Buffer[t]
  <2>1. CASE t = s /\ j = k
    BY <1>1, <2>1
  <2>2. CASE ~ (t = s /\ j = k)
    <3>1. chan'[t][j] = chan[t][j]
      BY <1>1, <2>2
    <3>2. QED
      BY <3>1 DEF HubTypeOK
  <2>3. QED
    BY <2>1, <2>2
<1>4. QED
  BY <1>2, <1>3

(* A broadcast begins with its RLock, which is free or waits.              *)
Enter(b, m) ==
  /\ pc[b] = "idle"
  /\ msg' = [msg EXCEPT ![b] = m]
  /\ UNCHANGED <<registry, channels, calls, leftSubs, leftWaiters, target>>

(* Broadcasting m is entering with m: by the type of m, msg' holds m itself.*)
LEMMA BroadcastEnters ==
  ASSUME NEW b \in Broadcasters, NEW m \in Message, Broadcast(b, m.kind, m.value)
  PROVE  Enter(b, m) /\ (RLockFree(b) \/ RLockWaits(b))
<1>1. m = [kind |-> m.kind, value |-> m.value]
  BY DEF Message
<1>2. QED
  BY <1>1 DEF Broadcast, Enter

(* The channels' part of the type, under trySend and under a receive.      *)
ChanOK ==
  /\ chan \in [Subs -> [Kinds -> Seq(Payload)]]
  /\ \A s \in Subs, k \in Kinds : Len(chan[s][k]) <= Buffer[s]

EventOK ==
  /\ event \in [Waiters -> Seq(Message)]
  /\ \A w \in Waiters : Len(event[w]) <= 1

(* A waiter's channel given at most one event keeps its type.              *)
LEMMA EventUpdate ==
  ASSUME EventOK, NEW w \in Waiters, NEW e \in Seq(Message), Len(e) <= 1,
         event' = [event EXCEPT ![w] = e]
  PROVE  EventOK'
BY DEF EventOK

(* trySend into a channel that has room keeps it within its buffer.        *)
LEMMA SendOK ==
  ASSUME HubTypeOK, NEW b \in Broadcasters, NEW s \in Subs, msg[b] \in Message,
         HasRoom(b, s), Send(b, s)
  PROVE  ChanOK'
<1> DEFINE k == msg[b].kind
           q == Append(chan[s][k], msg[b].value)
<1>1. k \in Kinds /\ msg[b].value \in Payload
  BY DEF Message
<1>2. chan[s][k] \in Seq(Payload) /\ Len(chan[s][k]) < Buffer[s]
  BY <1>1 DEF HubTypeOK, HasRoom, Queue
<1>3. q \in Seq(Payload) /\ Len(q) <= Buffer[s]
  BY <1>1, <1>2, HubAssumption
<1>4. chan' = [chan EXCEPT ![s][k] = q]
  BY DEF Send
<1> HIDE DEF k, q
<1>5. QED
  BY <1>1, <1>3, <1>4, ChanUpdate DEF ChanOK

(* Taking a value out, if there is one, does too.                          *)
LEMMA DiscardOK ==
  ASSUME HubTypeOK, NEW s \in Subs, NEW k \in Kinds,
         chan' = [chan EXCEPT ![s][k] = Discarded(@)]
  PROVE  ChanOK'
<1> DEFINE q == Discarded(chan[s][k])
<1>1. chan[s][k] \in Seq(Payload) /\ Len(chan[s][k]) <= Buffer[s]
  BY DEF HubTypeOK
<1>2. q \in Seq(Payload) /\ Len(q) <= Buffer[s]
  BY <1>1, HubAssumption DEF Discarded
<1>3. chan' = [chan EXCEPT ![s][k] = q]
  OBVIOUS
<1> HIDE DEF q
<1>4. QED
  BY <1>2, <1>3, ChanUpdate DEF ChanOK

(* Every action of the hub keeps the types and the buffer bounds.          *)
LEMMA TypeStep ==
  ASSUME HubInv, [HubNext]_hubVars
  PROVE  HubTypeOK'
<1> USE HubAssumption DEF HubInv, HubTypeOK, Entries, Writers, Goroutines,
        registry, channels, mutex, walks, calls, hubVars
<1>1. CASE UNCHANGED hubVars
  BY <1>1
<1>2. ASSUME NEW b \in Broadcasters, RLockAdmitted(b) PROVE HubTypeOK'
  BY <1>2 DEF RLockAdmitted
<1>3. ASSUME NEW b \in Broadcasters, StartWalk(b) PROVE HubTypeOK'
  BY <1>3 DEF StartWalk, Woken
<1>4. ASSUME NEW b \in Broadcasters, NEW s \in Subs, Offer(b, s)
        PROVE  HubTypeOK'
  <2>1. msg[b] \in Message
    BY <1>4 DEF Offer, WalkInv, Reading
  <2>2. ChanOK'
    BY <1>4, <2>1, SendOK DEF Offer
  <2>3. QED
    BY <1>4, <2>2 DEF Offer, ChanOK
<1>5. ASSUME NEW b \in Broadcasters, NEW s \in Subs, OfferRefused(b, s)
        PROVE  HubTypeOK'
  BY <1>5 DEF OfferRefused
<1>6. ASSUME NEW b \in Broadcasters, NEW s \in Subs, OfferFull(b, s)
        PROVE  HubTypeOK'
  BY <1>6 DEF OfferFull
<1>7. ASSUME NEW b \in Broadcasters, Discard(b) PROVE HubTypeOK'
  <2>1. msg[b].kind \in Kinds /\ target[b] \in Subs
    BY <1>7 DEF Discard, WalkInv, Reading, Message
  <2>2. ChanOK'
    BY <1>7, <2>1, DiscardOK DEF Discard
  <2>3. QED
    BY <1>7, <2>2 DEF Discard, ChanOK
<1>8. ASSUME NEW b \in Broadcasters, Resend(b) PROVE HubTypeOK'
  <2>1. msg[b] \in Message /\ target[b] \in Subs
    BY <1>8 DEF Resend, WalkInv, Reading
  <2>2. ChanOK'
    <3>1. CASE HasRoom(b, target[b])
      BY <1>8, <2>1, <3>1, SendOK DEF Resend, Retry
    <3>2. CASE ~ HasRoom(b, target[b])
      BY <1>8, <3>2 DEF Resend, Retry, ChanOK
    <3>3. QED
      BY <3>1, <3>2
  <2>3. QED
    BY <1>8, <2>2 DEF Resend, ChanOK
<1>9. ASSUME NEW b \in Broadcasters, NEW w \in Waiters, Wake(b, w)
        PROVE  HubTypeOK'
  <2> DEFINE e == <<msg[b]>>
  <2>1. e \in Seq(Message) /\ Len(e) <= 1
    BY <1>9 DEF Wake, WalkInv, Reading
  <2>2. event' = [event EXCEPT ![w] = e] \/ event' = event
    BY <1>9 DEF Wake
  <2> HIDE DEF e
  <2>3. EventOK
    BY DEF EventOK
  <2>4. EventOK'
    BY <2>1, <2>2, <2>3, EventUpdate DEF EventOK
  <2>5. QED
    BY <1>9, <2>4 DEF Wake, EventOK
<1>10. ASSUME NEW b \in Broadcasters, RUnlock(b) PROVE HubTypeOK'
  BY <1>10 DEF RUnlock, Walked
<1>11. ASSUME NEW p \in Writers, Lock(p) PROVE HubTypeOK'
  BY <1>11 DEF Lock
<1>12. ASSUME NEW p \in Writers, Locked(p) PROVE HubTypeOK'
  BY <1>12 DEF Locked, Drained
<1>13. ASSUME NEW s \in Subs, Add(s) PROVE HubTypeOK'
  <2>1. ChanOK'
    <3>1. CASE HubClosed
      BY <1>13, <3>1 DEF Add, ChanOK
    <3>2. CASE ~ HubClosed
      <4>1. chan' = [chan EXCEPT ![s] = prime[s]]
        BY <1>13, <3>2 DEF Add
      <4>2. \A k \in Kinds : Len(prime[s][k]) <= Buffer[s]
        BY <1>13, HubAssumption
      <4>3. QED
        BY <1>13, <4>1, <4>2 DEF ChanOK
    <3>3. QED
      BY <3>1, <3>2
  <2>2. /\ subs' = subs \/ subs' = subs \cup {s}
        /\ ends' = ends \/ ends' = [ends EXCEPT ![s] = "refused"]
    BY <1>13 DEF Add
  <2>3. /\ writer' \in Writers \cup {Nobody} /\ readers' \subseteq Broadcasters
        /\ blocked' \subseteq Broadcasters
    BY <1>13 DEF Add, Unlock
  <2>4. QED
    BY <1>13, <2>1, <2>2, <2>3 DEF Add, Unlock, ChanOK
<1>14. ASSUME NEW s \in Subs, Remove(s) PROVE HubTypeOK'
  BY <1>14 DEF Remove, Unlock, InSection
<1>15. ASSUME NEW w \in Waiters, AddOnce(w) PROVE HubTypeOK'
  BY <1>15 DEF AddOnce, Unlock, InSection, HubClosed
<1>16. ASSUME NEW w \in Waiters, RemoveOnce(w) PROVE HubTypeOK'
  BY <1>16 DEF RemoveOnce, Unlock, InSection
<1>17. ASSUME NEW c \in Closers, Close(c) PROVE HubTypeOK'
  BY <1>17 DEF Close, InSection
<1>18. ASSUME NEW c \in Closers, CloseAgain(c) PROVE HubTypeOK'
  BY <1>18 DEF CloseAgain, Unlock, InSection
<1>19. ASSUME NEW c \in Closers, CloseDone(c) PROVE HubTypeOK'
  BY <1>19 DEF CloseDone, Unlock, InSection
<1>20. ASSUME NEW c \in Closers, NEW s \in Subs, CloseSub(c, s)
        PROVE  HubTypeOK'
  BY <1>20 DEF CloseSub, InSection
<1>21. ASSUME NEW c \in Closers, NEW w \in Waiters, CloseWaiter(c, w)
        PROVE  HubTypeOK'
  BY <1>21 DEF CloseWaiter, InSection
<1>22. ASSUME NEW s \in Subs, NEW k \in Kinds, Receive(s, k) PROVE HubTypeOK'
  <2>1. ChanOK'
    BY <1>22, DiscardOK DEF Receive, Discarded
  <2>2. QED
    BY <1>22, <2>1 DEF Receive, ChanOK
<1>23. ASSUME NEW w \in Waiters, Take(w) PROVE HubTypeOK'
  <2> DEFINE e == <<>>
  <2>1. e \in Seq(Message) /\ Len(e) <= 1
    OBVIOUS
  <2>2. event' = [event EXCEPT ![w] = e]
    BY <1>23 DEF Take
  <2> HIDE DEF e
  <2>3. EventOK
    BY DEF EventOK
  <2>4. EventOK'
    BY <2>1, <2>2, <2>3, EventUpdate
  <2>5. QED
    BY <1>23, <2>4 DEF Take, EventOK
<1>24. ASSUME NEW b \in Broadcasters, NEW m \in Message,
               Enter(b, m), RLockFree(b)
        PROVE  HubTypeOK'
  BY <1>24 DEF RLockFree, Enter
<1>25. ASSUME NEW b \in Broadcasters, NEW m \in Message,
               Enter(b, m), RLockWaits(b)
        PROVE  HubTypeOK'
  BY <1>25 DEF RLockWaits, Enter
<1>26. ASSUME NEW s \in Subs, IsPriming(prime'[s]), AddCall(s, prime'[s])
        PROVE  HubTypeOK'
  <2>1. prime' = [prime EXCEPT ![s] = prime'[s]]
    BY <1>26 DEF AddCall
  <2>2. /\ prime'[s] \in [Kinds -> Seq(Payload)]
        /\ \A k \in Kinds : Len(prime'[s][k]) <= 1
    <3>1. prime'[s] \in [Kinds -> Seq(Payload)]
      BY <1>26 DEF IsPriming
    <3>2. Len(prime'[s]["status"]) <= 1 /\ Len(prime'[s]["fix"]) <= 1
      BY <1>26 DEF IsPriming
    <3>3. prime'[s]["error"] = <<>> /\ Len(<<>>) <= 1
      BY <1>26 DEF IsPriming
    <3>4. ASSUME NEW k \in Kinds PROVE Len(prime'[s][k]) <= 1
      BY <3>2, <3>3 DEF Kinds
    <3>5. QED
      BY <3>1, <3>4
  <2>3. /\ prime' \in [Subs -> [Kinds -> Seq(Payload)]]
        /\ \A t \in Subs, k \in Kinds : Len(prime'[t][k]) <= 1
    BY <2>1, <2>2
  <2>4. QED
    BY <1>26, <2>3 DEF AddCall, Call
<1>27. ASSUME NEW s \in Subs, RemoveCall(s) PROVE HubTypeOK'
  BY <1>27 DEF RemoveCall, Call
<1>28. ASSUME NEW w \in Waiters, AddOnceCall(w) PROVE HubTypeOK'
  BY <1>28 DEF AddOnceCall, Call
<1>29. ASSUME NEW w \in Waiters, RemoveOnceCall(w) PROVE HubTypeOK'
  BY <1>29 DEF RemoveOnceCall, Call
<1>30. ASSUME NEW c \in Closers, CloseCall(c) PROVE HubTypeOK'
  BY <1>30 DEF CloseCall, Call
<1> HIDE DEF HubInv, HubTypeOK, Entries
<1>31. QED
  BY <1>1, <1>2, <1>3, <1>4, <1>5, <1>6, <1>7, <1>8, <1>9, <1>10, <1>11,
     <1>12, <1>13, <1>14, <1>15, <1>16, <1>17, <1>18, <1>19, <1>20, <1>21,
     <1>22, <1>23, <1>24, <1>25, <1>26, <1>27, <1>28, <1>29, <1>30,
     BroadcastEnters
  DEF HubNext, HubStep, HubCall, Read, BroadcastStep, WriteStep

(* The lock stays exclusive for its writer and shared by its readers.      *)
LEMMA LockInvStep ==
  ASSUME HubInv, [HubNext]_hubVars
  PROVE  LockInv'
<1> USE HubAssumption DEF HubInv, HubTypeOK, LockInv, Reading, Writers,
        Goroutines, registry, channels, mutex, walks, calls, hubVars
<1>1. CASE UNCHANGED <<mutex, pc>>
  BY <1>1
<1>2. ASSUME NEW b \in Broadcasters, RLockAdmitted(b) PROVE LockInv'
  BY <1>2 DEF RLockAdmitted
<1>3. ASSUME NEW b \in Broadcasters, StartWalk(b) PROVE LockInv'
  BY <1>3 DEF StartWalk, Woken
<1>4. ASSUME NEW b \in Broadcasters, NEW s \in Subs, OfferFull(b, s)
        PROVE  LockInv'
  BY <1>4 DEF OfferFull
<1>5. ASSUME NEW b \in Broadcasters, Discard(b) PROVE LockInv'
  BY <1>5 DEF Discard, Discarded
<1>6. ASSUME NEW b \in Broadcasters, Resend(b) PROVE LockInv'
  BY <1>6 DEF Resend, Retry, Send, HasRoom, Queue
<1>7. ASSUME NEW b \in Broadcasters, RUnlock(b) PROVE LockInv'
  BY <1>7 DEF RUnlock, Walked
<1>8. ASSUME NEW p \in Writers, Lock(p) PROVE LockInv'
  BY <1>8 DEF Lock
<1>9. ASSUME NEW p \in Writers, Locked(p) PROVE LockInv'
  BY <1>9 DEF Locked, Drained
<1>10. ASSUME NEW s \in Subs, Add(s) PROVE LockInv'
  BY <1>10 DEF Add, Unlock, InSection, HubClosed
<1>11. ASSUME NEW s \in Subs, Remove(s) PROVE LockInv'
  BY <1>11 DEF Remove, Unlock, InSection
<1>12. ASSUME NEW w \in Waiters, AddOnce(w) PROVE LockInv'
  BY <1>12 DEF AddOnce, Unlock, InSection, HubClosed
<1>13. ASSUME NEW w \in Waiters, RemoveOnce(w) PROVE LockInv'
  BY <1>13 DEF RemoveOnce, Unlock, InSection
<1>14. ASSUME NEW c \in Closers, CloseAgain(c) PROVE LockInv'
  BY <1>14 DEF CloseAgain, Unlock, InSection
<1>15. ASSUME NEW c \in Closers, CloseDone(c) PROVE LockInv'
  BY <1>15 DEF CloseDone, Unlock, InSection
<1>16. ASSUME NEW b \in Broadcasters, NEW m \in Message,
               Enter(b, m), RLockFree(b)
        PROVE  LockInv'
  BY <1>16 DEF RLockFree, Enter
<1>17. ASSUME NEW b \in Broadcasters, NEW m \in Message,
               Enter(b, m), RLockWaits(b)
        PROVE  LockInv'
  BY <1>17 DEF RLockWaits, Enter
<1>18. ASSUME NEW s \in Subs, IsPriming(prime'[s]), AddCall(s, prime'[s])
        PROVE  LockInv'
  BY <1>18 DEF AddCall, Call
<1>19. ASSUME NEW s \in Subs, RemoveCall(s) PROVE LockInv'
  BY <1>19 DEF RemoveCall, Call
<1>20. ASSUME NEW w \in Waiters, AddOnceCall(w) PROVE LockInv'
  BY <1>20 DEF AddOnceCall, Call
<1>21. ASSUME NEW w \in Waiters, RemoveOnceCall(w) PROVE LockInv'
  BY <1>21 DEF RemoveOnceCall, Call
<1>22. ASSUME NEW c \in Closers, CloseCall(c) PROVE LockInv'
  BY <1>22 DEF CloseCall, Call
<1> HIDE DEF HubInv, HubTypeOK, LockInv, Reading
<1>23. QED
  BY <1>1, <1>2, <1>3, <1>4, <1>5, <1>6, <1>7, <1>8, <1>9, <1>10, <1>11,
     <1>12, <1>13, <1>14, <1>15, <1>16, <1>17, <1>18, <1>19, <1>20, <1>21,
     <1>22, BroadcastEnters
  DEF HubNext, HubStep, HubCall, Read, BroadcastStep, WriteStep, Offer,
      OfferRefused, Wake, Close, CloseSub, CloseWaiter, Receive, Take

(* No removal or Close takes an entry from under a walk.                   *)
LEMMA WalkInvStep ==
  ASSUME HubInv, [HubNext]_hubVars
  PROVE  WalkInv'
<1> USE HubAssumption DEF HubInv, HubTypeOK, LockInv, WalkInv, Walking,
        Reading, Writers, Goroutines, registry, channels, mutex, walks,
        calls, hubVars
<1>1. CASE UNCHANGED <<subs, waiters, pc, walks>>
  BY <1>1
<1>2. ASSUME NEW b \in Broadcasters, RLockAdmitted(b) PROVE WalkInv'
  BY <1>2 DEF RLockAdmitted
<1>3. ASSUME NEW b \in Broadcasters, StartWalk(b) PROVE WalkInv'
  BY <1>3 DEF StartWalk, Woken
<1>4. ASSUME NEW b \in Broadcasters, NEW s \in Subs, Offer(b, s)
        PROVE  WalkInv'
  BY <1>4 DEF Offer, Send, HasRoom, Queue
<1>5. ASSUME NEW b \in Broadcasters, NEW s \in Subs, OfferRefused(b, s)
        PROVE  WalkInv'
  BY <1>5 DEF OfferRefused
<1>6. ASSUME NEW b \in Broadcasters, NEW s \in Subs, OfferFull(b, s)
        PROVE  WalkInv'
  BY <1>6 DEF OfferFull
<1>7. ASSUME NEW b \in Broadcasters, Discard(b) PROVE WalkInv'
  BY <1>7 DEF Discard, Discarded
<1>8. ASSUME NEW b \in Broadcasters, Resend(b) PROVE WalkInv'
  BY <1>8 DEF Resend, Retry, Send, HasRoom, Queue
<1>9. ASSUME NEW b \in Broadcasters, NEW w \in Waiters, Wake(b, w)
        PROVE  WalkInv'
  BY <1>9 DEF Wake
<1>10. ASSUME NEW b \in Broadcasters, RUnlock(b) PROVE WalkInv'
  BY <1>10 DEF RUnlock, Walked
<1>11. ASSUME NEW p \in Writers, Lock(p) PROVE WalkInv'
  BY <1>11 DEF Lock
<1>12. ASSUME NEW p \in Writers, Locked(p) PROVE WalkInv'
  BY <1>12 DEF Locked, Drained
<1>13. ASSUME NEW s \in Subs, Add(s) PROVE WalkInv'
  BY <1>13 DEF Add, Unlock, InSection, HubClosed
<1>14. ASSUME NEW s \in Subs, Remove(s) PROVE WalkInv'
  BY <1>14 DEF Remove, Unlock, InSection
<1>15. ASSUME NEW w \in Waiters, AddOnce(w) PROVE WalkInv'
  BY <1>15 DEF AddOnce, Unlock, InSection, HubClosed
<1>16. ASSUME NEW w \in Waiters, RemoveOnce(w) PROVE WalkInv'
  BY <1>16 DEF RemoveOnce, Unlock, InSection
<1>17. ASSUME NEW c \in Closers, CloseAgain(c) PROVE WalkInv'
  BY <1>17 DEF CloseAgain, Unlock, InSection
<1>18. ASSUME NEW c \in Closers, CloseDone(c) PROVE WalkInv'
  BY <1>18 DEF CloseDone, Unlock, InSection
<1>19. ASSUME NEW c \in Closers, NEW s \in Subs, CloseSub(c, s) PROVE WalkInv'
  BY <1>19 DEF CloseSub, InSection
<1>20. ASSUME NEW c \in Closers, NEW w \in Waiters, CloseWaiter(c, w)
        PROVE  WalkInv'
  BY <1>20 DEF CloseWaiter, InSection
<1>21. ASSUME NEW b \in Broadcasters, NEW m \in Message,
               Enter(b, m), RLockFree(b)
        PROVE  WalkInv'
  BY <1>21 DEF RLockFree, Enter
<1>22. ASSUME NEW b \in Broadcasters, NEW m \in Message,
               Enter(b, m), RLockWaits(b)
        PROVE  WalkInv'
  BY <1>22 DEF RLockWaits, Enter
<1>23. ASSUME NEW s \in Subs, IsPriming(prime'[s]), AddCall(s, prime'[s])
        PROVE  WalkInv'
  BY <1>23 DEF AddCall, Call
<1>24. ASSUME NEW s \in Subs, RemoveCall(s) PROVE WalkInv'
  BY <1>24 DEF RemoveCall, Call
<1>25. ASSUME NEW w \in Waiters, AddOnceCall(w) PROVE WalkInv'
  BY <1>25 DEF AddOnceCall, Call
<1>26. ASSUME NEW w \in Waiters, RemoveOnceCall(w) PROVE WalkInv'
  BY <1>26 DEF RemoveOnceCall, Call
<1>27. ASSUME NEW c \in Closers, CloseCall(c) PROVE WalkInv'
  BY <1>27 DEF CloseCall, Call
<1> HIDE DEF HubInv, HubTypeOK, LockInv, WalkInv, Walking, Reading
<1>28. QED
  BY <1>1, <1>2, <1>3, <1>4, <1>5, <1>6, <1>7, <1>8, <1>9, <1>10, <1>11,
     <1>12, <1>13, <1>14, <1>15, <1>16, <1>17, <1>18, <1>19, <1>20, <1>21,
     <1>22, <1>23, <1>24, <1>25, <1>26, <1>27, BroadcastEnters
  DEF HubNext, HubStep, HubCall, Read, BroadcastStep, WriteStep, Close,
      Receive, Take

(* What a write operation is about to register nobody else touches.        *)
LEMMA CallInvStep ==
  ASSUME HubInv, [HubNext]_hubVars
  PROVE  CallInv'
<1> USE HubAssumption DEF HubInv, HubTypeOK, LockInv, CallInv,
        NoDoubleClose, Entries, Writers, Goroutines, registry, channels,
        mutex, walks, calls, hubVars
<1>1. CASE UNCHANGED <<registry, ends, pc, op>>
  BY <1>1
<1>2. ASSUME NEW b \in Broadcasters, RLockAdmitted(b) PROVE CallInv'
  BY <1>2 DEF RLockAdmitted
<1>3. ASSUME NEW b \in Broadcasters, StartWalk(b) PROVE CallInv'
  BY <1>3 DEF StartWalk, Woken
<1>4. ASSUME NEW b \in Broadcasters, NEW s \in Subs, OfferFull(b, s)
        PROVE  CallInv'
  BY <1>4 DEF OfferFull
<1>5. ASSUME NEW b \in Broadcasters, Discard(b) PROVE CallInv'
  BY <1>5 DEF Discard, Discarded
<1>6. ASSUME NEW b \in Broadcasters, Resend(b) PROVE CallInv'
  BY <1>6 DEF Resend, Retry, Send, HasRoom, Queue
<1>7. ASSUME NEW b \in Broadcasters, RUnlock(b) PROVE CallInv'
  BY <1>7 DEF RUnlock, Walked
<1>8. ASSUME NEW p \in Writers, Lock(p) PROVE CallInv'
  BY <1>8 DEF Lock
<1>9. ASSUME NEW p \in Writers, Locked(p) PROVE CallInv'
  BY <1>9 DEF Locked, Drained
<1>10. ASSUME NEW s \in Subs, Add(s) PROVE CallInv'
  BY <1>10 DEF Add, Unlock, InSection, HubClosed
<1>11. ASSUME NEW s \in Subs, Remove(s) PROVE CallInv'
  BY <1>11 DEF Remove, Unlock, InSection
<1>12. ASSUME NEW w \in Waiters, AddOnce(w) PROVE CallInv'
  BY <1>12 DEF AddOnce, Unlock, InSection, HubClosed
<1>13. ASSUME NEW w \in Waiters, RemoveOnce(w) PROVE CallInv'
  BY <1>13 DEF RemoveOnce, Unlock, InSection
<1>14. ASSUME NEW c \in Closers, Close(c) PROVE CallInv'
  BY <1>14 DEF Close, InSection
<1>15. ASSUME NEW c \in Closers, CloseAgain(c) PROVE CallInv'
  BY <1>15 DEF CloseAgain, Unlock, InSection
<1>16. ASSUME NEW c \in Closers, CloseDone(c) PROVE CallInv'
  BY <1>16 DEF CloseDone, Unlock, InSection
<1>17. ASSUME NEW c \in Closers, NEW s \in Subs, CloseSub(c, s) PROVE CallInv'
  BY <1>17 DEF CloseSub, InSection
<1>18. ASSUME NEW c \in Closers, NEW w \in Waiters, CloseWaiter(c, w)
        PROVE  CallInv'
  BY <1>18 DEF CloseWaiter, InSection
<1>19. ASSUME NEW b \in Broadcasters, NEW m \in Message,
               Enter(b, m), RLockFree(b)
        PROVE  CallInv'
  BY <1>19 DEF RLockFree, Enter
<1>20. ASSUME NEW b \in Broadcasters, NEW m \in Message,
               Enter(b, m), RLockWaits(b)
        PROVE  CallInv'
  BY <1>20 DEF RLockWaits, Enter
<1>21. ASSUME NEW s \in Subs, IsPriming(prime'[s]), AddCall(s, prime'[s])
        PROVE  CallInv'
  BY <1>21 DEF AddCall, Call
<1>22. ASSUME NEW s \in Subs, RemoveCall(s) PROVE CallInv'
  BY <1>22 DEF RemoveCall, Call
<1>23. ASSUME NEW w \in Waiters, AddOnceCall(w) PROVE CallInv'
  BY <1>23 DEF AddOnceCall, Call
<1>24. ASSUME NEW w \in Waiters, RemoveOnceCall(w) PROVE CallInv'
  BY <1>24 DEF RemoveOnceCall, Call
<1>25. ASSUME NEW c \in Closers, CloseCall(c) PROVE CallInv'
  BY <1>25 DEF CloseCall, Call
<1> HIDE DEF HubInv, HubTypeOK, LockInv, CallInv, NoDoubleClose, Entries
<1>26. QED
  BY <1>1, <1>2, <1>3, <1>4, <1>5, <1>6, <1>7, <1>8, <1>9, <1>10, <1>11,
     <1>12, <1>13, <1>14, <1>15, <1>16, <1>17, <1>18, <1>19, <1>20, <1>21,
     <1>22, <1>23, <1>24, <1>25, BroadcastEnters
  DEF HubNext, HubStep, HubCall, Read, BroadcastStep, WriteStep, Offer,
      OfferRefused, Wake, Receive, Take

(* What is registered is open: entries leave the maps as they are closed.  *)
LEMMA NoDoubleCloseStep ==
  ASSUME HubInv, [HubNext]_hubVars
  PROVE  NoDoubleClose'
<1> USE HubAssumption DEF HubInv, HubTypeOK, LockInv, CallInv,
        NoDoubleClose, Entries, Writers, Goroutines, registry, channels,
        mutex, walks, calls, hubVars
<1>1. CASE UNCHANGED <<subs, waiters, ends>>
  BY <1>1
<1>2. ASSUME NEW s \in Subs, Add(s) PROVE NoDoubleClose'
  BY <1>2 DEF Add, Unlock, InSection, HubClosed
<1>3. ASSUME NEW s \in Subs, Remove(s) PROVE NoDoubleClose'
  BY <1>3 DEF Remove, Unlock, InSection
<1>4. ASSUME NEW w \in Waiters, AddOnce(w) PROVE NoDoubleClose'
  BY <1>4 DEF AddOnce, Unlock, InSection, HubClosed
<1>5. ASSUME NEW w \in Waiters, RemoveOnce(w) PROVE NoDoubleClose'
  BY <1>5 DEF RemoveOnce, Unlock, InSection
<1>6. ASSUME NEW c \in Closers, NEW s \in Subs, CloseSub(c, s)
        PROVE  NoDoubleClose'
  BY <1>6 DEF CloseSub, InSection
<1>7. ASSUME NEW c \in Closers, NEW w \in Waiters, CloseWaiter(c, w)
        PROVE  NoDoubleClose'
  BY <1>7 DEF CloseWaiter, InSection
<1>8. ASSUME NEW s \in Subs, IsPriming(prime'[s]), AddCall(s, prime'[s])
        PROVE  NoDoubleClose'
  BY <1>8 DEF AddCall, Call
<1>9. ASSUME NEW w \in Waiters, AddOnceCall(w) PROVE NoDoubleClose'
  BY <1>9 DEF AddOnceCall, Call
<1> HIDE DEF HubInv, HubTypeOK, LockInv, CallInv, NoDoubleClose, Entries
<1>10. QED
  BY <1>1, <1>2, <1>3, <1>4, <1>5, <1>6, <1>7, <1>8, <1>9, BroadcastEnters
  DEF HubNext, HubStep, HubCall, Read, BroadcastStep, WriteStep,
      RLockAdmitted, StartWalk, Offer, OfferRefused, OfferFull, Discard,
      Resend, Wake, RUnlock, Lock, Locked, Close, CloseAgain, CloseDone,
      Receive, Take, RLockFree, RLockWaits, RemoveCall, RemoveOnceCall,
      CloseCall, Enter

(* A hub once closed is emptied by the Close that holds the lock, and an   *)
(* Add or AddOnce that comes after it is turned away.                      *)
LEMMA ClosedHubStep ==
  ASSUME HubInv, [HubNext]_hubVars
  PROVE  ClosedHubIsEmpty'
<1> USE HubAssumption DEF HubInv, HubTypeOK, LockInv, CallInv,
        NoDoubleClose, ClosedHubIsEmpty, Emptying, Entries, Writers,
        Goroutines, registry, channels, mutex, walks, calls, hubVars
<1>1. CASE UNCHANGED <<registry, ends, op>>
  BY <1>1
<1>2. ASSUME NEW s \in Subs, Add(s) PROVE ClosedHubIsEmpty'
  BY <1>2 DEF Add, Unlock, InSection, HubClosed
<1>3. ASSUME NEW s \in Subs, Remove(s) PROVE ClosedHubIsEmpty'
  BY <1>3 DEF Remove, Unlock, InSection
<1>4. ASSUME NEW w \in Waiters, AddOnce(w) PROVE ClosedHubIsEmpty'
  BY <1>4 DEF AddOnce, Unlock, InSection, HubClosed
<1>5. ASSUME NEW w \in Waiters, RemoveOnce(w) PROVE ClosedHubIsEmpty'
  BY <1>5 DEF RemoveOnce, Unlock, InSection
<1>6. ASSUME NEW c \in Closers, Close(c) PROVE ClosedHubIsEmpty'
  BY <1>6 DEF Close, InSection
<1>7. ASSUME NEW c \in Closers, CloseAgain(c) PROVE ClosedHubIsEmpty'
  BY <1>7 DEF CloseAgain, Unlock, InSection
<1>8. ASSUME NEW c \in Closers, CloseDone(c) PROVE ClosedHubIsEmpty'
  BY <1>8 DEF CloseDone, Unlock, InSection
<1>9. ASSUME NEW c \in Closers, NEW s \in Subs, CloseSub(c, s)
        PROVE  ClosedHubIsEmpty'
  BY <1>9 DEF CloseSub, InSection
<1>10. ASSUME NEW c \in Closers, NEW w \in Waiters, CloseWaiter(c, w)
        PROVE  ClosedHubIsEmpty'
  BY <1>10 DEF CloseWaiter, InSection
<1>11. ASSUME NEW s \in Subs, IsPriming(prime'[s]), AddCall(s, prime'[s])
        PROVE  ClosedHubIsEmpty'
  BY <1>11 DEF AddCall, Call
<1>12. ASSUME NEW s \in Subs, RemoveCall(s) PROVE ClosedHubIsEmpty'
  BY <1>12 DEF RemoveCall, Call
<1>13. ASSUME NEW w \in Waiters, AddOnceCall(w) PROVE ClosedHubIsEmpty'
  BY <1>13 DEF AddOnceCall, Call
<1>14. ASSUME NEW w \in Waiters, RemoveOnceCall(w) PROVE ClosedHubIsEmpty'
  BY <1>14 DEF RemoveOnceCall, Call
<1>15. ASSUME NEW c \in Closers, CloseCall(c) PROVE ClosedHubIsEmpty'
  BY <1>15 DEF CloseCall, Call
<1> HIDE DEF HubInv, HubTypeOK, LockInv, CallInv, NoDoubleClose,
        ClosedHubIsEmpty, Emptying, Entries
<1>16. QED
  BY <1>1, <1>2, <1>3, <1>4, <1>5, <1>6, <1>7, <1>8, <1>9, <1>10, <1>11,
     <1>12, <1>13, <1>14, <1>15, BroadcastEnters
  DEF HubNext, HubStep, HubCall, Read, BroadcastStep, WriteStep,
      RLockAdmitted, StartWalk, Offer, OfferRefused, OfferFull, Discard,
      Resend, Wake, RUnlock, Lock, Locked, Receive, Take, RLockFree,
      RLockWaits, Enter

(* Nothing is registered, locked or under way at the start.                *)
LEMMA HubInvInit == HubInit => HubInv
<1> SUFFICES ASSUME HubInit PROVE HubInv
  OBVIOUS
<1> USE HubAssumption DEF HubInit, Writers, Goroutines, Entries
<1>1. <<>> \in Seq(Payload) /\ <<>> \in Seq(Message) /\ Len(<<>>) <= 1
  OBVIOUS
<1>2. \A s \in Subs : Len(<<>>) <= Buffer[s]
  OBVIOUS
<1>3. NoValues \in [Kinds -> Seq(Payload)]
  BY <1>1 DEF NoValues
<1>4. ASSUME NEW s \in Subs, NEW k \in Kinds
      PROVE  chan[s][k] = <<>> /\ prime[s][k] = <<>>
  BY DEF NoValues
<1>5. HubTypeOK
  BY <1>1, <1>2, <1>3, <1>4 DEF HubTypeOK
<1>6. LockInv /\ WalkInv /\ CallInv
  BY DEF LockInv, WalkInv, CallInv, Reading, Walking
<1>7. NoDoubleClose /\ ClosedHubIsEmpty
  BY DEF NoDoubleClose, ClosedHubIsEmpty
<1>8. QED
  BY <1>5, <1>6, <1>7 DEF HubInv

(* Each step of the hub keeps each part of the invariant.                  *)
LEMMA HubInvStep ==
  ASSUME HubInv, [HubNext]_hubVars
  PROVE  HubInv'
BY TypeStep, LockInvStep, WalkInvStep, CallInvStep, NoDoubleCloseStep, ClosedHubStep
DEF HubInv

(* The inductive invariant, for every way of using the hub.                *)
THEOREM HubInvariant == HubSpec => []HubInv
BY HubInvInit, HubInvStep, PTL DEF HubSpec

(* However the hub is used, every variable keeps its type and no channel   *)
(* ever holds more than its buffer: offer never waits for room.            *)
THEOREM HubTypeCorrect == HubSpec => []HubTypeOK
<1>1. HubInv => HubTypeOK
  BY DEF HubInv
<1>2. QED
  BY <1>1, HubInvariant, PTL

(* However many goroutines broadcast, remove and close at once, none sends *)
(* on a channel another has closed: offer and wake cannot panic.           *)
THEOREM NeverSendsOnClosed == HubSpec => []NoSendOnClosed
<1>1. HubInv => NoSendOnClosed
  BY DEF HubInv, WalkInv, NoDoubleClose, NoSendOnClosed
<1>2. QED
  BY <1>1, HubInvariant, PTL

(* No channel is closed a second time, by any mix of Remove and Close.     *)
THEOREM NeverClosesTwice == HubSpec => []NoDoubleClose
<1>1. HubInv => NoDoubleClose
  BY DEF HubInv
<1>2. QED
  BY <1>1, HubInvariant, PTL

(* A hub that has been closed holds nothing and registers nothing more: no *)
(* Add or AddOnce slips in behind Close.                                   *)
THEOREM ClosedForGood == HubSpec => []ClosedHubIsEmpty
<1>1. HubInv => ClosedHubIsEmpty
  BY DEF HubInv
<1>2. QED
  BY <1>1, HubInvariant, PTL

(* A broadcast sends to a subscription it has yet to serve and that has    *)
(* room, at its first offer or at its second.                              *)
Sends(b, s) ==
  /\ pc[b] \in {"walk", "resend"}
  /\ s \in leftSubs[b] /\ HasRoom(b, s)
  /\ Send(b, s)
  /\ leftSubs' = [leftSubs EXCEPT ![b] = @ \ {s}]

Primes(s) == Add(s) /\ chan' = [chan EXCEPT ![s] = prime[s]]

(* The ways the hub itself changes the channels: one send, one discard, or *)
(* the priming of a subscription that enters the map.                      *)
LEMMA HubStepMoves ==
  ASSUME HubInv, HubStep
  PROVE  \/ chan' = chan
         \/ \E b \in Broadcasters, s \in Subs : Sends(b, s)
         \/ \E b \in Broadcasters : Discard(b)
         \/ \E s \in Subs : Primes(s)
<1> DEFINE Moves == \/ chan' = chan
                    \/ \E b \in Broadcasters, s \in Subs : Sends(b, s)
                    \/ \E b \in Broadcasters : Discard(b)
                    \/ \E s \in Subs : Primes(s)
<1>1. ASSUME NEW b \in Broadcasters, BroadcastStep(b) PROVE Moves
  <2>1. ASSUME NEW s \in Subs, Offer(b, s) PROVE Sends(b, s)
    BY <2>1 DEF Offer, Sends
  <2>2. ASSUME Resend(b)
        PROVE  chan' = chan \/ \E s \in Subs : Sends(b, s)
    <3>1. target[b] \in leftSubs[b] /\ target[b] \in Subs
      BY <2>2 DEF HubInv, WalkInv, HubTypeOK, Resend
    <3>2. HasRoom(b, target[b]) => Sends(b, target[b])
      BY <2>2, <3>1 DEF Resend, Retry, Sends
    <3>3. QED
      BY <2>2, <3>1, <3>2 DEF Resend, Retry
  <2>3. QED
    BY <1>1, <2>1, <2>2
    DEF BroadcastStep, RLockAdmitted, StartWalk, OfferRefused, OfferFull, Wake, RUnlock,
        channels
<1>2. ASSUME NEW p \in Writers, WriteStep(p) PROVE Moves
  <2>1. ASSUME NEW s \in Subs, Add(s) PROVE chan' = chan \/ Primes(s)
    BY <2>1 DEF Add, Primes
  <2>2. QED
    BY <1>2, <2>1
    DEF WriteStep, Lock, Locked, Remove, AddOnce, RemoveOnce, Close, CloseAgain, CloseDone,
        CloseSub, CloseWaiter, channels
<1> HIDE DEF Moves
<1>3. Moves
  BY <1>1, <1>2 DEF HubStep
<1>4. QED
  BY <1>3 DEF Moves

(* A call changes nothing its readers or a broadcast can see.              *)
LEMMA CallMoves ==
  ASSUME HubCall
  PROVE  UNCHANGED <<registry, chan, event>>
<1>1. ASSUME NEW b \in Broadcasters, Broadcast(b, msg'[b].kind, msg'[b].value)
      PROVE  UNCHANGED <<registry, chan, event>>
  BY <1>1 DEF Broadcast, RLockFree, RLockWaits, channels
<1>2. ASSUME NEW s \in Subs, AddCall(s, prime'[s]) \/ RemoveCall(s)
      PROVE  UNCHANGED <<registry, chan, event>>
  BY <1>2 DEF AddCall, RemoveCall, channels
<1>3. ASSUME NEW w \in Waiters, AddOnceCall(w) \/ RemoveOnceCall(w)
      PROVE  UNCHANGED <<registry, chan, event>>
  BY <1>3 DEF AddOnceCall, RemoveOnceCall, channels
<1>4. ASSUME NEW c \in Closers, CloseCall(c)
      PROVE  UNCHANGED <<registry, chan, event>>
  BY <1>4 DEF CloseCall, channels
<1>5. QED
  BY <1>1, <1>2, <1>3, <1>4 DEF HubCall

(* Together with a reader's receive, these are all the ways there are.     *)
LEMMA ChannelMoves ==
  ASSUME HubInv, [HubNext]_hubVars
  PROVE  \/ chan' = chan
         \/ \E b \in Broadcasters, s \in Subs : Sends(b, s)
         \/ \E b \in Broadcasters : Discard(b)
         \/ \E s \in Subs, k \in Kinds : Receive(s, k)
         \/ \E s \in Subs : Primes(s)
<1>1. CASE UNCHANGED hubVars
  BY <1>1 DEF hubVars, channels
<1>2. CASE Read
  BY <1>2 DEF Read, Take
<1>3. QED
  BY <1>1, <1>2, HubStepMoves, CallMoves DEF HubNext

(* From the call of a Broadcast method to its RUnlock.                     *)
Active(b) == pc[b] = "blocked" \/ Reading(b)

(* A broadcast under way carries the message it began with.                *)
LEMMA MessageKept ==
  ASSUME HubInv, HubStep \/ Read, NEW b \in Broadcasters, Active(b)'
  PROVE  Active(b) /\ msg'[b] = msg[b]
<1> USE HubAssumption DEF HubInv, HubTypeOK, LockInv, Active, Reading, Writers, Goroutines,
        registry, channels, mutex, walks, calls
<1>1. ASSUME NEW c \in Broadcasters, BroadcastStep(c) PROVE Active(b) /\ msg'[b] = msg[b]
  <2>1. CASE RUnlock(c)
    BY <2>1 DEF RUnlock, Walked
  <2>2. CASE RLockAdmitted(c) \/ StartWalk(c) \/ Discard(c) \/ Resend(c)
    BY <2>2 DEF RLockAdmitted, StartWalk, Discard, Resend
  <2>3. ASSUME NEW s \in Subs, Offer(c, s) \/ OfferRefused(c, s) \/ OfferFull(c, s)
        PROVE  Active(b) /\ msg'[b] = msg[b]
    BY <2>3 DEF Offer, OfferRefused, OfferFull
  <2>4. ASSUME NEW w \in Waiters, Wake(c, w) PROVE Active(b) /\ msg'[b] = msg[b]
    BY <2>4 DEF Wake
  <2>5. QED
    BY <1>1, <2>1, <2>2, <2>3, <2>4 DEF BroadcastStep
<1>2. ASSUME NEW p \in Writers, WriteStep(p) PROVE Active(b) /\ msg'[b] = msg[b]
  <2>1. CASE Lock(p) \/ Locked(p)
    BY <2>1 DEF Lock, Locked
  <2>2. CASE p \in Subs /\ (Add(p) \/ Remove(p))
    BY <2>2 DEF Add, Remove, Unlock
  <2>3. CASE p \in Waiters /\ (AddOnce(p) \/ RemoveOnce(p))
    BY <2>3 DEF AddOnce, RemoveOnce, Unlock
  <2>4. CASE p \in Closers /\ (Close(p) \/ CloseAgain(p) \/ CloseDone(p))
    BY <2>4 DEF Close, CloseAgain, CloseDone, Unlock
  <2>5. ASSUME NEW s \in Subs, CloseSub(p, s) PROVE Active(b) /\ msg'[b] = msg[b]
    BY <2>5 DEF CloseSub
  <2>6. ASSUME NEW w \in Waiters, CloseWaiter(p, w) PROVE Active(b) /\ msg'[b] = msg[b]
    BY <2>6 DEF CloseWaiter
  <2>7. QED
    BY <1>2, <2>1, <2>2, <2>3, <2>4, <2>5, <2>6 DEF WriteStep
<1>3. CASE Read
  BY <1>3 DEF Read, Receive, Take
<1>4. QED
  BY <1>1, <1>2, <1>3 DEF HubStep

(* A subscription whose Add is yet to be called, or to get the lock.       *)
Unregistered(s) == ends[s] = "unmade" \/ op[s] = "add"

(* None gets back there: a registration is used once.                      *)
LEMMA UnregisteredKept ==
  ASSUME HubInv, [HubNext]_hubVars, NEW s \in Subs, Unregistered(s)'
  PROVE  Unregistered(s)
<1> USE HubAssumption DEF HubInv, HubTypeOK, Unregistered, Writers, Entries, Goroutines,
        registry, channels, mutex, walks, calls
<1>1. CASE UNCHANGED <<ends, op>>
  BY <1>1
<1>2. ASSUME NEW t \in Subs, Add(t) \/ Remove(t) PROVE Unregistered(s)
  BY <1>2 DEF Add, Remove, Unlock
<1>3. ASSUME NEW w \in Waiters, AddOnce(w) \/ RemoveOnce(w) PROVE Unregistered(s)
  BY <1>3 DEF AddOnce, RemoveOnce, Unlock
<1>4. ASSUME NEW c \in Closers, Close(c) \/ CloseAgain(c) \/ CloseDone(c)
      PROVE  Unregistered(s)
  BY <1>4 DEF Close, CloseAgain, CloseDone, Unlock
<1>5. ASSUME NEW c \in Closers, NEW t \in Subs, CloseSub(c, t) PROVE Unregistered(s)
  BY <1>5 DEF CloseSub
<1>6. ASSUME NEW c \in Closers, NEW w \in Waiters, CloseWaiter(c, w) PROVE Unregistered(s)
  BY <1>6 DEF CloseWaiter
<1>7. ASSUME NEW t \in Subs, AddCall(t, prime'[t]) \/ RemoveCall(t) PROVE Unregistered(s)
  BY <1>7 DEF AddCall, RemoveCall, Call
<1>8. ASSUME NEW w \in Waiters, AddOnceCall(w) \/ RemoveOnceCall(w) PROVE Unregistered(s)
  BY <1>8 DEF AddOnceCall, RemoveOnceCall, Call
<1>9. ASSUME NEW c \in Closers, CloseCall(c) PROVE Unregistered(s)
  BY <1>9 DEF CloseCall, Call
<1>10. ASSUME NEW b \in Broadcasters, BroadcastStep(b) PROVE UNCHANGED <<ends, op>>
  BY <1>10 DEF BroadcastStep, RLockAdmitted, StartWalk, Offer, OfferRefused, OfferFull,
               Discard, Resend, Wake, RUnlock
<1>11. ASSUME NEW p \in Writers, Lock(p) \/ Locked(p) PROVE UNCHANGED <<ends, op>>
  BY <1>11 DEF Lock, Locked
<1>12. ASSUME NEW b \in Broadcasters, Broadcast(b, msg'[b].kind, msg'[b].value)
       PROVE  UNCHANGED <<ends, op>>
  BY <1>12 DEF Broadcast, RLockFree, RLockWaits
<1>13. ASSUME Read \/ UNCHANGED hubVars PROVE UNCHANGED <<ends, op>>
  BY <1>13 DEF Read, Receive, Take, hubVars
<1> HIDE DEF Unregistered, HubInv, HubTypeOK
<1>14. ASSUME NEW p \in Writers, WriteStep(p) PROVE Unregistered(s)
  BY <1>1, <1>2, <1>3, <1>4, <1>5, <1>6, <1>11, <1>14 DEF WriteStep
<1>15. QED
  BY <1>1, <1>7, <1>8, <1>9, <1>10, <1>12, <1>13, <1>14 DEF HubNext, HubStep, HubCall

(* Nothing is in its channels, and nobody puts anything in.                *)
LEMMA UnregisteredIsEmpty ==
  ASSUME HubInv, [HubNext]_hubVars, NEW s \in Subs, Unregistered(s)',
         \A k \in Kinds : chan[s][k] = <<>>
  PROVE  chan'[s] = chan[s]
<1>1. Unregistered(s)
  BY UnregisteredKept
<1>2. s \notin subs
  BY <1>1 DEF Unregistered, HubInv, CallInv, NoDoubleClose
<1>3. chan \in [Subs -> [Kinds -> Seq(Payload)]]
  BY DEF HubInv, HubTypeOK
<1>4. ASSUME NEW b \in Broadcasters, NEW t \in Subs, Sends(b, t) PROVE chan'[s] = chan[s]
  <2>1. t \in subs
    BY <1>4 DEF Sends, HubInv, WalkInv, Walking
  <2>2. QED
    BY <1>2, <1>3, <1>4, <2>1 DEF Sends, Send
<1>5. ASSUME NEW b \in Broadcasters, Discard(b) PROVE chan'[s] = chan[s]
  <2>1. target[b] \in subs
    BY <1>5 DEF Discard, HubInv, WalkInv, Walking
  <2>2. QED
    BY <1>2, <1>3, <1>5, <2>1 DEF Discard
<1>6. ASSUME NEW t \in Subs, NEW k \in Kinds, Receive(t, k) PROVE chan'[s] = chan[s]
  BY <1>3, <1>6 DEF Receive
<1>7. ASSUME NEW t \in Subs, Primes(t) PROVE chan'[s] = chan[s]
  <2>1. t # s
    BY <1>7, HubAssumption
    DEF Primes, Add, InSection, Unlock, HubInv, HubTypeOK, CallInv, Unregistered, Writers, Entries
  <2>2. QED
    BY <1>3, <1>7, <2>1 DEF Primes
<1>8. QED
  BY <1>4, <1>5, <1>6, <1>7, ChannelMoves

(* Behind a Close that is over no subscription is sent anything: what an   *)
(* unread channel holds only gets less.                                    *)
LEMMA ClosedHubSendsNothing ==
  ASSUME HubInv, closed, ~ Emptying, [HubNext]_hubVars
  PROVE  \A s \in Subs, k \in Kinds : Len(chan'[s][k]) <= Len(chan[s][k])
<1> DEFINE Less == \A s \in Subs, k \in Kinds : Len(chan'[s][k]) <= Len(chan[s][k])
<1>1. \A b \in Broadcasters : Walking(b) => leftSubs[b] = {}
  BY DEF HubInv, WalkInv, ClosedHubIsEmpty
<1>2. \A b \in Broadcasters : pc[b] \notin {"discard", "resend"}
  BY <1>1 DEF HubInv, WalkInv, Walking
<1>3. chan \in [Subs -> [Kinds -> Seq(Payload)]]
  BY DEF HubInv, HubTypeOK
<1>4. \A s \in Subs, k \in Kinds : Len(chan[s][k]) \in Nat
  BY <1>3
<1>5. chan' = chan => Less
  BY <1>4
<1>6. ASSUME NEW s \in Subs, NEW k \in Kinds, Receive(s, k) PROVE Less
  <2>1. chan'[s][k] = Tail(chan[s][k]) /\ chan[s][k] \in Seq(Payload) /\ chan[s][k] # <<>>
    BY <1>3, <1>6 DEF Receive
  <2>2. Len(chan'[s][k]) <= Len(chan[s][k])
    BY <2>1
  <2>3. ASSUME NEW t \in Subs, NEW j \in Kinds, ~ (t = s /\ j = k)
        PROVE  chan'[t][j] = chan[t][j]
    BY <1>3, <1>6, <2>3 DEF Receive
  <2>4. QED
    BY <1>4, <2>2, <2>3
<1>7. ASSUME NEW b \in Broadcasters, Discard(b) \/ \E s \in Subs : Sends(b, s) PROVE FALSE
  BY <1>1, <1>2, <1>7 DEF Discard, Sends, Walking
<1>8. ASSUME NEW s \in Subs, Primes(s) PROVE chan' = chan
  BY <1>8 DEF Primes, Add, HubClosed
<1> HIDE DEF Less
<1>9. Less
  BY <1>5, <1>6, <1>7, <1>8, ChannelMoves
<1>10. QED
  BY <1>9 DEF Less

(* A broadcast under way is moved by its own goroutine alone.              *)
LEMMA BroadcastIsOwn ==
  ASSUME HubInv, [HubNext]_hubVars, NEW b \in Broadcasters, Active(b) \/ Walking(b)'
  PROVE  \/ BroadcastStep(b)
         \/ /\ pc'[b] = pc[b] /\ msg'[b] = msg[b] /\ target'[b] = target[b]
            /\ leftSubs'[b] = leftSubs[b] /\ leftWaiters'[b] = leftWaiters[b]
<1> DEFINE Still == /\ pc'[b] = pc[b] /\ msg'[b] = msg[b] /\ target'[b] = target[b]
                    /\ leftSubs'[b] = leftSubs[b] /\ leftWaiters'[b] = leftWaiters[b]
<1> USE HubAssumption DEF HubInv, HubTypeOK, LockInv, Active, Reading, Walking, Writers,
        Goroutines, registry, channels, mutex, walks, calls
<1>1. ASSUME NEW c \in Broadcasters, c # b, BroadcastStep(c) PROVE Still
  <2>1. CASE RLockAdmitted(c) \/ StartWalk(c) \/ Discard(c) \/ Resend(c) \/ RUnlock(c)
    BY <1>1, <2>1 DEF RLockAdmitted, StartWalk, Discard, Resend, RUnlock, Walked
  <2>2. ASSUME NEW s \in Subs, Offer(c, s) \/ OfferRefused(c, s) \/ OfferFull(c, s)
        PROVE  Still
    BY <1>1, <2>2 DEF Offer, OfferRefused, OfferFull
  <2>3. ASSUME NEW w \in Waiters, Wake(c, w) PROVE Still
    BY <1>1, <2>3 DEF Wake
  <2>4. QED
    BY <1>1, <2>1, <2>2, <2>3 DEF BroadcastStep
<1>2. ASSUME NEW p \in Writers, WriteStep(p) PROVE Still
  <2>1. CASE Lock(p) \/ Locked(p)
    BY <2>1 DEF Lock, Locked
  <2>2. CASE p \in Subs /\ (Add(p) \/ Remove(p))
    BY <2>2 DEF Add, Remove, Unlock, InSection
  <2>3. CASE p \in Waiters /\ (AddOnce(p) \/ RemoveOnce(p))
    BY <2>3 DEF AddOnce, RemoveOnce, Unlock, InSection
  <2>4. CASE p \in Closers /\ (Close(p) \/ CloseAgain(p) \/ CloseDone(p))
    BY <2>4 DEF Close, CloseAgain, CloseDone, Unlock, InSection
  <2>5. ASSUME NEW s \in Subs, CloseSub(p, s) PROVE Still
    BY <2>5 DEF CloseSub
  <2>6. ASSUME NEW w \in Waiters, CloseWaiter(p, w) PROVE Still
    BY <2>6 DEF CloseWaiter
  <2>7. QED
    BY <1>2, <2>1, <2>2, <2>3, <2>4, <2>5, <2>6 DEF WriteStep
<1>3. ASSUME Read PROVE Still
  BY <1>3 DEF Read, Receive, Take
<1>4. ASSUME UNCHANGED hubVars PROVE Still
  BY <1>4 DEF hubVars
<1>5. ASSUME NEW c \in Broadcasters, Broadcast(c, msg'[c].kind, msg'[c].value) PROVE Still
  BY <1>5 DEF Broadcast, RLockFree, RLockWaits
<1>6. ASSUME NEW p \in Writers, NEW o, Call(p, o), UNCHANGED walks PROVE Still
  BY <1>6 DEF Call
<1> HIDE DEF Still, HubInv, HubTypeOK, LockInv, Active, Walking, Goroutines, registry, channels,
         mutex, walks, calls
<1>7. ASSUME HubCall PROVE Still
  <2>1. ASSUME NEW s \in Subs, AddCall(s, prime'[s]) \/ RemoveCall(s) PROVE Still
    BY <1>6, <2>1 DEF AddCall, RemoveCall
  <2>2. ASSUME NEW w \in Waiters, AddOnceCall(w) \/ RemoveOnceCall(w) PROVE Still
    BY <1>6, <2>2 DEF AddOnceCall, RemoveOnceCall
  <2>3. ASSUME NEW c \in Closers, CloseCall(c) PROVE Still
    BY <1>6, <2>3 DEF CloseCall
  <2>4. QED
    BY <1>5, <1>7, <2>1, <2>2, <2>3 DEF HubCall
<1>8. BroadcastStep(b) \/ Still
  BY <1>1, <1>2, <1>3, <1>4, <1>7 DEF HubNext, HubStep
<1>9. QED
  BY <1>8 DEF Still

(* Its walk of the maps, then, as well.                                    *)
LEMMA WalkIsOwn ==
  ASSUME HubInv, [HubNext]_hubVars, NEW b \in Broadcasters, Walking(b) \/ Walking(b)'
  PROVE  \/ BroadcastStep(b)
         \/ /\ pc'[b] = pc[b] /\ msg'[b] = msg[b] /\ target'[b] = target[b]
            /\ leftSubs'[b] = leftSubs[b] /\ leftWaiters'[b] = leftWaiters[b]
BY BroadcastIsOwn DEF Active, Reading, Walking

(* While it lasts, the maps it walks are the same: no writer is inside.    *)
LEMMA RegistryHeld ==
  ASSUME HubInv, [HubNext]_hubVars, NEW b \in Broadcasters, Reading(b)
  PROVE  UNCHANGED registry
<1>1. \A p \in Writers : pc[p] # "locked"
  BY DEF HubInv, LockInv, Writers, Goroutines
<1>2. \A p \in Writers : \A o : ~ InSection(p, o)
  BY <1>1 DEF InSection
<1>3. CASE HubStep
  BY <1>2, <1>3
  DEF HubStep, BroadcastStep, RLockAdmitted, StartWalk, Offer, OfferRefused, OfferFull, Discard,
      Resend, Wake, RUnlock, WriteStep, Lock, Locked, Add, Remove, AddOnce, RemoveOnce, Close,
      CloseAgain, CloseDone, CloseSub, CloseWaiter, registry, Writers
<1>4. CASE Read \/ UNCHANGED hubVars
  BY <1>4 DEF Read, Receive, Take, registry, hubVars
<1>5. QED
  BY <1>3, <1>4, CallMoves DEF HubNext

(* A waiter's event comes from a broadcast that walks it, or is taken.     *)
LEMMA EventMoves ==
  ASSUME HubInv, [HubNext]_hubVars
  PROVE  \/ event' = event
         \/ \E b \in Broadcasters, w \in Waiters : Wake(b, w)
         \/ \E w \in Waiters : Take(w)
<1>1. HubStep => event' = event \/ \E b \in Broadcasters, w \in Waiters : Wake(b, w)
  BY DEF HubStep, BroadcastStep, RLockAdmitted, StartWalk, Offer, OfferRefused, OfferFull,
         Discard, Resend, RUnlock, WriteStep, Lock, Locked, Add, Remove, AddOnce, RemoveOnce,
         Close, CloseAgain, CloseDone, CloseSub, CloseWaiter, channels
<1>2. Read => event' = event \/ \E w \in Waiters : Take(w)
  BY DEF Read, Receive
<1>3. QED
  BY <1>1, <1>2, CallMoves DEF HubNext, hubVars, channels

(* What the hub does by itself makes no channels.                          *)
LEMMA UnmadeKept ==
  ASSUME HubInv, HubStep \/ Read, NEW e \in Entries, ends[e] = "unmade"
  PROVE  ends'[e] = "unmade"
<1> USE DEF HubInv, HubTypeOK, CallInv, NoDoubleClose, Entries, Writers, channels, InSection
<1>1. ASSUME NEW s \in Subs, Add(s) \/ Remove(s) PROVE ends'[e] = "unmade"
  BY <1>1 DEF Add, Remove
<1>2. ASSUME NEW w \in Waiters, AddOnce(w) \/ RemoveOnce(w) PROVE ends'[e] = "unmade"
  BY <1>2 DEF AddOnce, RemoveOnce
<1>3. ASSUME NEW c \in Closers, NEW s \in Subs, CloseSub(c, s) PROVE ends'[e] = "unmade"
  BY <1>3 DEF CloseSub
<1>4. ASSUME NEW c \in Closers, NEW w \in Waiters, CloseWaiter(c, w) PROVE ends'[e] = "unmade"
  BY <1>4 DEF CloseWaiter
<1>5. ASSUME NEW p \in Writers, Lock(p) \/ Locked(p) \/ Close(p) \/ CloseAgain(p) \/ CloseDone(p)
      PROVE  ends'[e] = "unmade"
  BY <1>5 DEF Lock, Locked, Close, CloseAgain, CloseDone
<1>6. ASSUME NEW b \in Broadcasters, BroadcastStep(b) PROVE ends'[e] = "unmade"
  BY <1>6 DEF BroadcastStep, RLockAdmitted, StartWalk, Offer, OfferRefused, OfferFull, Discard,
              Resend, Wake, RUnlock
<1>7. CASE Read
  BY <1>7 DEF Read, Receive, Take
<1> HIDE DEF HubInv
<1>8. QED
  BY <1>1, <1>2, <1>3, <1>4, <1>5, <1>6, <1>7 DEF HubStep, WriteStep

(* What an Add will prime its channels with is set by its call, for good.  *)
LEMMA PrimeKept ==
  ASSUME HubStep \/ Read
  PROVE  prime' = prime
<1>1. CASE HubStep
  BY <1>1
  DEF HubStep, BroadcastStep, RLockAdmitted, StartWalk, Offer, OfferRefused, OfferFull, Discard,
      Resend, Wake, RUnlock, WriteStep, Lock, Locked, Add, Remove, AddOnce, RemoveOnce, Close,
      CloseAgain, CloseDone, CloseSub, CloseWaiter, calls
<1>2. CASE Read
  BY <1>2 DEF Read, Receive, Take, calls
<1>3. QED
  BY <1>1, <1>2

(* A subscription's channels are closed by its own Remove or by Close; the *)
(* operation it is in ends.                                                *)
LEMMA SubMoves ==
  ASSUME HubInv, HubStep \/ Read, NEW s \in Subs
  PROVE  /\ ends'[s] = ends[s] \/ op[s] = "remove" \/ closed
         /\ ends'[s] = "unmade" <=> ends[s] = "unmade"
         /\ op'[s] = op[s] \/ op'[s] = "none"
<1> DEFINE Moves == /\ ends'[s] = ends[s] \/ op[s] = "remove" \/ closed
                    /\ ends'[s] = "unmade" <=> ends[s] = "unmade"
                    /\ op'[s] = op[s] \/ op'[s] = "none"
<1> USE HubAssumption
    DEF HubInv, HubTypeOK, CallInv, NoDoubleClose, Writers, Entries, Goroutines, InSection, Unlock,
        channels, calls
<1>1. ASSUME NEW t \in Subs, Add(t) \/ Remove(t) PROVE Moves
  BY <1>1 DEF Add, Remove, HubClosed
<1>2. ASSUME NEW w \in Waiters, AddOnce(w) \/ RemoveOnce(w) PROVE Moves
  BY <1>2 DEF AddOnce, RemoveOnce
<1>3. ASSUME NEW c \in Closers, Close(c) \/ CloseAgain(c) \/ CloseDone(c) PROVE Moves
  BY <1>3 DEF Close, CloseAgain, CloseDone
<1>4. ASSUME NEW c \in Closers, NEW t \in Subs, CloseSub(c, t) PROVE Moves
  BY <1>4 DEF CloseSub
<1>5. ASSUME NEW c \in Closers, NEW w \in Waiters, CloseWaiter(c, w) PROVE Moves
  BY <1>5 DEF CloseWaiter
<1>6. ASSUME NEW p \in Writers, Lock(p) \/ Locked(p) PROVE Moves
  BY <1>6 DEF Lock, Locked
<1>7. ASSUME NEW b \in Broadcasters, BroadcastStep(b) PROVE Moves
  BY <1>7 DEF BroadcastStep, RLockAdmitted, StartWalk, Offer, OfferRefused, OfferFull, Discard,
              Resend, Wake, RUnlock
<1>8. ASSUME Read PROVE Moves
  BY <1>8 DEF Read, Receive, Take
<1> HIDE DEF HubInv, HubTypeOK, CallInv, Moves
<1>9. Moves
  BY <1>1, <1>2, <1>3, <1>4, <1>5, <1>6, <1>7, <1>8 DEF HubStep, WriteStep
<1>10. QED
  BY <1>9 DEF Moves

(* The hub is closed by a Close that has the lock, and stays closed.       *)
LEMMA ClosedMoves ==
  ASSUME [HubNext]_hubVars
  PROVE  /\ closed => closed'
         /\ closed' => closed \/ \E c \in Closers : op[c] = "close"
<1>1. ASSUME NEW b \in Broadcasters, BroadcastStep(b) PROVE closed' = closed
  BY <1>1
  DEF BroadcastStep, RLockAdmitted, StartWalk, Offer, OfferRefused, OfferFull, Discard, Resend,
      Wake, RUnlock, registry
<1>2. ASSUME NEW p \in Writers, WriteStep(p)
      PROVE  closed' = closed \/ (closed' /\ \E c \in Closers : op[c] = "close")
  BY <1>2
  DEF WriteStep, Lock, Locked, Add, Remove, AddOnce, RemoveOnce, Close, CloseAgain, CloseDone,
      CloseSub, CloseWaiter, InSection, registry
<1>3. CASE Read \/ UNCHANGED hubVars
  BY <1>3 DEF Read, Receive, Take, registry, hubVars
<1>4. QED
  BY <1>1, <1>2, <1>3, CallMoves DEF HubNext, HubStep, registry

(* A broadcaster holds a message from its call to its RUnlock, and only    *)
(* then.                                                                   *)
LEMMA SilentKept ==
  ASSUME HubInv, [HubNext]_hubVars, NEW b \in Broadcasters, Active(b) \/ msg[b] = Nobody
  PROVE  Active(b)' \/ msg'[b] = Nobody
<1>1. b \in DOMAIN pc /\ b \in DOMAIN msg
  BY DEF HubInv, HubTypeOK, Goroutines
<1>2. CASE Active(b)
  <2>1. CASE pc'[b] = pc[b]
    BY <1>2, <2>1 DEF Active, Reading
  <2>2. CASE RLockAdmitted(b) \/ StartWalk(b) \/ Discard(b) \/ Resend(b) \/ RUnlock(b)
    BY <1>1, <2>2 DEF RLockAdmitted, StartWalk, Discard, Resend, RUnlock, Active, Reading, Walked
  <2>3. ASSUME NEW s \in Subs, Offer(b, s) \/ OfferRefused(b, s) \/ OfferFull(b, s)
        PROVE  Active(b)'
    BY <1>1, <1>2, <2>3 DEF Offer, OfferRefused, OfferFull, Active, Reading
  <2>4. ASSUME NEW w \in Waiters, Wake(b, w) PROVE Active(b)'
    BY <1>2, <2>4 DEF Wake, Active, Reading
  <2>5. QED
    BY <1>2, <2>1, <2>2, <2>3, <2>4, BroadcastIsOwn DEF BroadcastStep
<1>3. CASE msg[b] = Nobody /\ ~ Active(b)
  <2>1. ASSUME NEW c \in Broadcasters, BroadcastStep(c) PROVE msg'[b] = Nobody
    BY <1>1, <1>3, <2>1
    DEF BroadcastStep, RLockAdmitted, StartWalk, Offer, OfferRefused, OfferFull, Discard, Resend,
        Wake, RUnlock, walks
  <2>2. ASSUME NEW p \in Writers, WriteStep(p) PROVE msg' = msg
    BY <2>2
    DEF WriteStep, Lock, Locked, Add, Remove, AddOnce, RemoveOnce, Close, CloseAgain, CloseDone,
        CloseSub, CloseWaiter, walks
  <2>3. ASSUME NEW c \in Broadcasters, Broadcast(c, msg'[c].kind, msg'[c].value)
        PROVE  Active(b)' \/ msg'[b] = Nobody
    BY <1>1, <1>3, <2>3 DEF Broadcast, RLockFree, RLockWaits, Active, Reading
  <2>4. ASSUME NEW s \in Subs, AddCall(s, prime'[s]) \/ RemoveCall(s) PROVE msg' = msg
    BY <2>4 DEF AddCall, RemoveCall, walks
  <2>5. ASSUME NEW w \in Waiters, AddOnceCall(w) \/ RemoveOnceCall(w) PROVE msg' = msg
    BY <2>5 DEF AddOnceCall, RemoveOnceCall, walks
  <2>6. ASSUME NEW c \in Closers, CloseCall(c) PROVE msg' = msg
    BY <2>6 DEF CloseCall, walks
  <2>7. Read \/ UNCHANGED hubVars => msg' = msg
    BY DEF Read, Receive, Take, walks, hubVars
  <2>8. QED
    BY <1>3, <2>1, <2>2, <2>3, <2>4, <2>5, <2>6, <2>7 DEF HubNext, HubStep, HubCall
<1>4. QED
  BY <1>2, <1>3

(* A subscription enters the map by its Add, which primes it, and its      *)
(* channels are closed while it leaves.                                    *)
LEMMA RegisteredMoves ==
  ASSUME HubInv, [HubNext]_hubVars, NEW s \in Subs
  PROVE  /\ s \in subs' \ subs => op[s] = "add" /\ chan' = [chan EXCEPT ![s] = prime[s]]
         /\ ends'[s] = "closed" => ends[s] = "closed" \/ s \in subs
<1> DEFINE Moves == /\ s \in subs' \ subs => op[s] = "add" /\ chan' = [chan EXCEPT ![s] = prime[s]]
                    /\ ends'[s] = "closed" => ends[s] = "closed" \/ s \in subs
<1>1. s \in DOMAIN ends /\ s \in Entries /\ DOMAIN ends = Entries
  BY DEF HubInv, HubTypeOK, Entries
<1> USE <1>1, HubAssumption DEF registry, channels, InSection
<1>2. ASSUME NEW t \in Subs, Add(t) \/ Remove(t) PROVE Moves
  BY <1>2 DEF Add, Remove
<1>3. ASSUME NEW w \in Waiters, AddOnce(w) \/ RemoveOnce(w) PROVE Moves
  BY <1>3 DEF AddOnce, RemoveOnce
<1>4. ASSUME NEW c \in Closers, Close(c) \/ CloseAgain(c) \/ CloseDone(c) PROVE Moves
  BY <1>4 DEF Close, CloseAgain, CloseDone
<1>5. ASSUME NEW c \in Closers, NEW t \in Subs, CloseSub(c, t) PROVE Moves
  BY <1>5 DEF CloseSub
<1>6. ASSUME NEW c \in Closers, NEW w \in Waiters, CloseWaiter(c, w) PROVE Moves
  BY <1>6 DEF CloseWaiter
<1>7. ASSUME NEW p \in Writers, Lock(p) \/ Locked(p) PROVE Moves
  BY <1>7 DEF Lock, Locked
<1>8. ASSUME NEW b \in Broadcasters, BroadcastStep(b) PROVE Moves
  BY <1>8
  DEF BroadcastStep, RLockAdmitted, StartWalk, Offer, OfferRefused, OfferFull, Discard, Resend,
      Wake, RUnlock
<1>9. ASSUME Read PROVE Moves
  BY <1>9 DEF Read, Receive, Take
<1>0. ASSUME UNCHANGED hubVars PROVE Moves
  BY <1>0 DEF hubVars
<1>10. ASSUME NEW t \in Subs, AddCall(t, prime'[t]) \/ RemoveCall(t) PROVE Moves
  BY <1>10 DEF AddCall, RemoveCall
<1>11. ASSUME NEW w \in Waiters, AddOnceCall(w) \/ RemoveOnceCall(w) PROVE Moves
  BY <1>11 DEF AddOnceCall, RemoveOnceCall
<1>12. ASSUME NEW c \in Closers, CloseCall(c) PROVE Moves
  BY <1>12 DEF CloseCall
<1>13. ASSUME NEW b \in Broadcasters, Broadcast(b, msg'[b].kind, msg'[b].value) PROVE Moves
  BY <1>13 DEF Broadcast
<1> HIDE DEF Moves, registry, channels, InSection
<1>14. ASSUME NEW p \in Writers, WriteStep(p) PROVE Moves
  BY <1>2, <1>3, <1>4, <1>5, <1>6, <1>7, <1>14 DEF WriteStep
<1>15. HubCall => Moves
  BY <1>10, <1>11, <1>12, <1>13 DEF HubCall
<1>16. Moves
  BY <1>0, <1>8, <1>9, <1>14, <1>15 DEF HubNext, HubStep
<1>17. QED
  BY <1>16 DEF Moves
=============================================================================
