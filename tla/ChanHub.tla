------------------------------ MODULE ChanHub ------------------------------
(***************************************************************************)
(* The subscriber registry of internal/feature/fanout/adapter/chanhub: an  *)
(* RWMutex, a map of subscriptions, a map of one-shot waiters and the      *)
(* buffered channels both kinds of entry own.                              *)
(*                                                                         *)
(* One step is one thing another goroutine can see: a lock operation, one  *)
(* non-blocking channel operation of a broadcast, one entry of Close's     *)
(* loops. Broadcasts run under the read lock, so several may be walking    *)
(* the same maps at once; everything else takes the write lock.            *)
(*                                                                         *)
(* Who calls what, and with which values, is left open: any broadcaster    *)
(* may broadcast any payload at any time, and every registrant may use its *)
(* registration in any order. HubClient and LocationService drive it.      *)
(***************************************************************************)
EXTENDS Naturals, Sequences, FiniteSets

CONSTANTS Broadcasters,  \* goroutines that call a Broadcast method
          Subs,          \* subscriptions: one Add, any number of Removes
          Waiters,       \* one-shot waiters: one AddOnce, any RemoveOnces
          Closers,       \* goroutines that call Close
          Payload,       \* what is broadcast: fixes, errors, statuses
          Buffer,        \* cfg.Buffer of each subscription
          Policy,        \* cfg.DropPolicy of each subscription
          Nobody         \* no goroutine

Kinds == {"fix", "error", "status"}

(* Registrations and closers are distinct, and fanout/port requires a      *)
(* normalized configuration: a buffer of at least one and a concrete       *)
(* policy. A goroutine that broadcasts may also close, as a teardown does. *)
ASSUME HubAssumption ==
  /\ Subs \cap (Waiters \cup Closers) = {}
  /\ Waiters \cap Closers = {}
  /\ Nobody \notin Broadcasters \cup Subs \cup Waiters \cup Closers
  /\ Buffer \in [Subs -> Nat \ {0}]
  /\ Policy \in [Subs -> {"DropOldest", "DropNewest"}]

Writers    == Subs \cup Waiters \cup Closers
Goroutines == Broadcasters \cup Writers

VARIABLES
  subs, waiters,          \* h.subs and h.waiters: the keys registered
  closed,                 \* h.closed; h.done is closed in the same section
  ends,                   \* the channels of an entry: not made, open, closed,
                          \* or closed at birth with geo.ErrClosed
  chan,                   \* buffered values of each subscription, by kind
  event,                  \* the buffered event of each waiter
  writer, readers, blocked, \* h.mu: who announced Lock, who holds RLock,
                            \* whose RLock waits behind the announcement
  pc,                     \* where each goroutine is
  op,                     \* the write operation a goroutine is in
  prime,                  \* what an Add will prime its channels with
  msg,                    \* what each broadcaster is delivering
  leftSubs, leftWaiters,  \* what its two range loops have yet to visit
  target                  \* the subscription it is making room in

registry == <<subs, waiters, closed>>
channels == <<ends, chan, event>>
mutex    == <<writer, readers, blocked>>
walks    == <<msg, leftSubs, leftWaiters, target>>
calls    == <<op, prime>>
hubVars  == <<registry, channels, mutex, pc, calls, walks>>

NoValues == [k \in Kinds |-> <<>>]

HubInit ==
  /\ subs = {} /\ waiters = {} /\ closed = FALSE
  /\ ends = [e \in Subs \cup Waiters |-> "unmade"]
  /\ chan = [s \in Subs |-> NoValues]
  /\ event = [w \in Waiters |-> <<>>]
  /\ writer = Nobody /\ readers = {} /\ blocked = {}
  /\ pc = [p \in Goroutines |-> "idle"]
  /\ op = [p \in Writers |-> "none"]
  /\ prime = [s \in Subs |-> NoValues]
  /\ msg = [b \in Broadcasters |-> Nobody]
  /\ leftSubs = [b \in Broadcasters |-> {}]
  /\ leftWaiters = [b \in Broadcasters |-> {}]
  /\ target = [b \in Broadcasters |-> Nobody]

(***************************************************************************)
(* h.mu, Go's sync.RWMutex. Lock first takes the inner mutex and announces *)
(* itself (writer), which sends every later RLock to wait (blocked), then  *)
(* waits for the readers already inside. Unlock admits all of those that   *)
(* waited before another writer can announce itself.                       *)
(***************************************************************************)
Lock(p) ==
  /\ pc[p] = "lock"
  /\ writer = Nobody
  /\ writer' = p
  /\ pc' = [pc EXCEPT ![p] = "drain"]
  /\ UNCHANGED <<registry, channels, readers, blocked, calls, walks>>

(* A fault: the writer does not wait for the readers inside.               *)
NotDrained == TRUE

Drained == readers = {}

Locked(p) ==
  /\ pc[p] = "drain"
  /\ Drained
  /\ pc' = [pc EXCEPT ![p] = "locked"]
  /\ UNCHANGED <<registry, channels, mutex, calls, walks>>

Unlock(p) ==
  /\ writer' = Nobody
  /\ readers' = blocked
  /\ blocked' = {}
  /\ pc' = [pc EXCEPT ![p] = "idle"]
  /\ op' = [op EXCEPT ![p] = "none"]

(* The reader count is raised by RLock itself when no writer is announced. *)
RLockFree(b) ==
  /\ writer = Nobody
  /\ readers' = readers \cup {b}
  /\ pc' = [pc EXCEPT ![b] = "rlocked"]
  /\ UNCHANGED <<writer, blocked>>

RLockWaits(b) ==
  /\ writer # Nobody
  /\ blocked' = blocked \cup {b}
  /\ pc' = [pc EXCEPT ![b] = "blocked"]
  /\ UNCHANGED <<writer, readers>>

(* A reader that waited finds itself counted in after the Unlock.          *)
RLockAdmitted(b) ==
  /\ pc[b] = "blocked"
  /\ b \in readers
  /\ pc' = [pc EXCEPT ![b] = "rlocked"]
  /\ UNCHANGED <<registry, channels, mutex, calls, walks>>

(***************************************************************************)
(* Broadcasts. The two range loops begin once the read lock is held.       *)
(***************************************************************************)
Broadcast(b, kind, value) ==
  /\ pc[b] = "idle"
  /\ msg' = [msg EXCEPT ![b] = [kind |-> kind, value |-> value]]
  /\ RLockFree(b) \/ RLockWaits(b)
  /\ UNCHANGED <<registry, channels, calls, leftSubs, leftWaiters, target>>

BroadcastFix(b, fix)       == Broadcast(b, "fix", fix)
BroadcastError(b, err)     == Broadcast(b, "error", err)
BroadcastStatus(b, status) == Broadcast(b, "status", status)

(* A fault: the test of the kind is inverted.                              *)
StatusWakes(b) == IF msg[b].kind = "status" THEN waiters ELSE {}

(* Waiters are left alone by a status.                                     *)
Woken(b) == IF msg[b].kind = "status" THEN {} ELSE waiters

StartWalk(b) ==
  /\ pc[b] = "rlocked"
  /\ leftSubs' = [leftSubs EXCEPT ![b] = subs]
  /\ leftWaiters' = [leftWaiters EXCEPT ![b] = Woken(b)]
  /\ pc' = [pc EXCEPT ![b] = "walk"]
  /\ UNCHANGED <<registry, channels, mutex, calls, msg, target>>

Queue(b, s)   == chan[s][msg[b].kind]

(* A fault: one value too many.                                            *)
HasOneMore(b, s) == Len(Queue(b, s)) <= Buffer[s]

HasRoom(b, s) == Len(Queue(b, s)) < Buffer[s]

(* trySend's channel send, on the channel of b's kind.                     *)
Send(b, s) ==
  chan' = [chan EXCEPT ![s][msg[b].kind] = Append(@, msg[b].value)]

(* offer: the first trySend finds room.                                    *)
Offer(b, s) ==
  /\ pc[b] = "walk"
  /\ s \in leftSubs[b]
  /\ HasRoom(b, s)
  /\ Send(b, s)
  /\ leftSubs' = [leftSubs EXCEPT ![b] = @ \ {s}]
  /\ UNCHANGED <<registry, ends, event, mutex, pc, calls, msg, leftWaiters, target>>

(* A fault: the policy is not looked at.                                   *)
NeverRefuses(s) == FALSE

Refuses(s) == Policy[s] = "DropNewest"

(* offer: no room, and the policy keeps what is queued.                    *)
OfferRefused(b, s) ==
  /\ pc[b] = "walk"
  /\ s \in leftSubs[b]
  /\ ~ HasRoom(b, s)
  /\ Refuses(s)
  /\ leftSubs' = [leftSubs EXCEPT ![b] = @ \ {s}]
  /\ UNCHANGED <<registry, channels, mutex, pc, calls, msg, leftWaiters, target>>

(* A fault: a blocking send, which waits for the subscriber to read.       *)
OfferBlocks(b, s) == FALSE

(* offer: no room, and the policy is to make some.                         *)
OfferFull(b, s) ==
  /\ pc[b] = "walk"
  /\ s \in leftSubs[b]
  /\ ~ HasRoom(b, s)
  /\ ~ Refuses(s)
  /\ target' = [target EXCEPT ![b] = s]
  /\ pc' = [pc EXCEPT ![b] = "discard"]
  /\ UNCHANGED <<registry, channels, mutex, calls, msg, leftSubs, leftWaiters>>

(* A fault: nothing is discarded.                                          *)
Kept(q) == q

(* The channel may have been drained since, and then nothing is discarded. *)
Discarded(q) == IF q = <<>> THEN q ELSE Tail(q)

(* offer: the non-blocking receive that makes room.                        *)
Discard(b) ==
  /\ pc[b] = "discard"
  /\ chan' = [chan EXCEPT ![target[b]][msg[b].kind] = Discarded(@)]
  /\ pc' = [pc EXCEPT ![b] = "resend"]
  /\ UNCHANGED <<registry, ends, event, mutex, calls, walks>>

(* A fault: the value is not offered again.                                *)
NoRetry(b, s) == chan' = chan

(* A fault: the value overwrites the slot freed, in front of the rest.     *)
RetryInFront(b, s) ==
  chan' = [chan EXCEPT ![s][msg[b].kind] = <<msg[b].value>> \o @]

Retry(b, s) == IF HasRoom(b, s) THEN Send(b, s) ELSE chan' = chan

(* offer: the second trySend, whose result the code ignores.               *)
Resend(b) ==
  /\ pc[b] = "resend"
  /\ Retry(b, target[b])
  /\ leftSubs' = [leftSubs EXCEPT ![b] = @ \ {target[b]}]
  /\ target' = [target EXCEPT ![b] = Nobody]
  /\ pc' = [pc EXCEPT ![b] = "walk"]
  /\ UNCHANGED <<registry, ends, event, mutex, calls, msg, leftWaiters>>

(* wake: only once every subscription is served, and only when the         *)
(* waiter's buffer of one is free.                                         *)
Wake(b, w) ==
  /\ pc[b] = "walk"
  /\ leftSubs[b] = {}
  /\ w \in leftWaiters[b]
  /\ event' = IF event[w] = <<>> THEN [event EXCEPT ![w] = <<msg[b]>>]
              ELSE event
  /\ leftWaiters' = [leftWaiters EXCEPT ![b] = @ \ {w}]
  /\ UNCHANGED <<registry, ends, chan, mutex, pc, calls, msg, leftSubs, target>>

Walked(b) == pc[b] = "walk" /\ leftSubs[b] = {} /\ leftWaiters[b] = {}

(* A fault: a return that forgets the read lock.                           *)
RUnlockForgotten(b) ==
  /\ Walked(b)
  /\ pc' = [pc EXCEPT ![b] = "idle"]
  /\ msg' = [msg EXCEPT ![b] = Nobody]
  /\ UNCHANGED <<registry, channels, mutex, calls, leftSubs, leftWaiters, target>>

RUnlock(b) ==
  /\ Walked(b)
  /\ readers' = readers \ {b}
  /\ pc' = [pc EXCEPT ![b] = "idle"]
  /\ msg' = [msg EXCEPT ![b] = Nobody]
  /\ UNCHANGED <<registry, channels, writer, blocked, calls, leftSubs, leftWaiters, target>>

(***************************************************************************)
(* Registration. The call makes the channels, the locked section decides.  *)
(***************************************************************************)
Call(p, o) ==
  /\ pc[p] = "idle"
  /\ op' = [op EXCEPT ![p] = o]
  /\ pc' = [pc EXCEPT ![p] = "lock"]

(* A fault: the subscription enters the map before the lock is taken.      *)
AddCallRegisters(s, primed) ==
  /\ ends[s] = "unmade"
  /\ Call(s, "add")
  /\ ends' = [ends EXCEPT ![s] = "open"]
  /\ prime' = [prime EXCEPT ![s] = primed]
  /\ subs' = subs \cup {s}
  /\ UNCHANGED <<waiters, closed, chan, event, mutex, walks>>

(* primed is what normalization left of the Priming: one status, and one   *)
(* fix when the configuration replays and a fix exists.                    *)
AddCall(s, primed) ==
  /\ ends[s] = "unmade"
  /\ Call(s, "add")
  /\ ends' = [ends EXCEPT ![s] = "open"]
  /\ prime' = [prime EXCEPT ![s] = primed]
  /\ UNCHANGED <<registry, chan, event, mutex, walks>>

InSection(p, o) == pc[p] = "locked" /\ op[p] = o

(* A fault: a closed hub is not looked for.                                *)
Accepting == FALSE

HubClosed == closed

(* Both offers of the priming find an empty channel of at least one slot.  *)
Add(s) ==
  /\ InSection(s, "add")
  /\ IF HubClosed
     THEN /\ ends' = [ends EXCEPT ![s] = "refused"]
          /\ UNCHANGED <<subs, chan>>
     ELSE /\ chan' = [chan EXCEPT ![s] = prime[s]]
          /\ subs' = subs \cup {s}
          /\ UNCHANGED ends
  /\ Unlock(s)
  /\ UNCHANGED <<waiters, closed, event, prime, walks>>

RemoveCall(s) ==
  /\ ends[s] # "unmade"
  /\ Call(s, "remove")
  /\ UNCHANGED <<registry, channels, mutex, prime, walks>>

(* A fault: the channels are closed, the entry stays in the map.           *)
RemoveKeepsEntry(s) ==
  /\ InSection(s, "remove")
  /\ ends' = IF s \in subs THEN [ends EXCEPT ![s] = "closed"] ELSE ends
  /\ Unlock(s)
  /\ UNCHANGED <<subs, waiters, closed, chan, event, prime, walks>>

Remove(s) ==
  /\ InSection(s, "remove")
  /\ subs' = subs \ {s}
  /\ ends' = IF s \in subs THEN [ends EXCEPT ![s] = "closed"] ELSE ends
  /\ Unlock(s)
  /\ UNCHANGED <<waiters, closed, chan, event, prime, walks>>

AddOnceCall(w) ==
  /\ ends[w] = "unmade"
  /\ Call(w, "addOnce")
  /\ ends' = [ends EXCEPT ![w] = "open"]
  /\ UNCHANGED <<registry, chan, event, mutex, prime, walks>>

AddOnce(w) ==
  /\ InSection(w, "addOnce")
  /\ IF HubClosed
     THEN ends' = [ends EXCEPT ![w] = "refused"] /\ UNCHANGED waiters
     ELSE waiters' = waiters \cup {w} /\ UNCHANGED ends
  /\ Unlock(w)
  /\ UNCHANGED <<subs, closed, chan, event, prime, walks>>

RemoveOnceCall(w) ==
  /\ ends[w] # "unmade"
  /\ Call(w, "removeOnce")
  /\ UNCHANGED <<registry, channels, mutex, prime, walks>>

(* The channel is dropped, never closed.                                   *)
RemoveOnce(w) ==
  /\ InSection(w, "removeOnce")
  /\ waiters' = waiters \ {w}
  /\ Unlock(w)
  /\ UNCHANGED <<subs, closed, channels, prime, walks>>

(***************************************************************************)
(* Close: raise the flag and close done, then empty both maps one entry at *)
(* a time, closing channels their readers may be draining meanwhile.       *)
(***************************************************************************)
CloseCall(c) ==
  /\ Call(c, "close")
  /\ UNCHANGED <<registry, channels, mutex, prime, walks>>

Close(c) ==
  /\ InSection(c, "close")
  /\ ~ closed
  /\ closed' = TRUE
  /\ op' = [op EXCEPT ![c] = "empty"]
  /\ UNCHANGED <<subs, waiters, channels, mutex, pc, prime, walks>>

CloseAgain(c) ==
  /\ InSection(c, "close")
  /\ closed
  /\ Unlock(c)
  /\ UNCHANGED <<registry, channels, prime, walks>>

CloseSub(c, s) ==
  /\ InSection(c, "empty")
  /\ s \in subs
  /\ subs' = subs \ {s}
  /\ ends' = [ends EXCEPT ![s] = "closed"]
  /\ UNCHANGED <<waiters, closed, chan, event, mutex, pc, calls, walks>>

(* A fault: the waiter is forgotten, its channel left open.                *)
CloseWaiterForgets(c, w) ==
  /\ InSection(c, "empty")
  /\ subs = {}
  /\ w \in waiters
  /\ waiters' = waiters \ {w}
  /\ UNCHANGED <<subs, closed, channels, mutex, pc, calls, walks>>

CloseWaiter(c, w) ==
  /\ InSection(c, "empty")
  /\ subs = {}
  /\ w \in waiters
  /\ waiters' = waiters \ {w}
  /\ ends' = [ends EXCEPT ![w] = "closed"]
  /\ UNCHANGED <<subs, closed, chan, event, mutex, pc, calls, walks>>

CloseDone(c) ==
  /\ InSection(c, "empty")
  /\ subs = {} /\ waiters = {}
  /\ Unlock(c)
  /\ UNCHANGED <<registry, channels, prime, walks>>

(***************************************************************************)
(* The readers of the channels, at their own pace and under no lock.       *)
(***************************************************************************)
Receive(s, k) ==
  /\ chan[s][k] # <<>>
  /\ chan' = [chan EXCEPT ![s][k] = Tail(@)]
  /\ UNCHANGED <<registry, ends, event, mutex, pc, calls, walks>>

Take(w) ==
  /\ event[w] # <<>>
  /\ event' = [event EXCEPT ![w] = <<>>]
  /\ UNCHANGED <<registry, ends, chan, mutex, pc, calls, walks>>

(***************************************************************************)
(* What the hub does by itself once a method has been called.              *)
(***************************************************************************)
BroadcastStep(b) ==
  \/ RLockAdmitted(b) \/ StartWalk(b)
  \/ \E s \in Subs : Offer(b, s) \/ OfferRefused(b, s) \/ OfferFull(b, s)
  \/ Discard(b) \/ Resend(b)
  \/ \E w \in Waiters : Wake(b, w)
  \/ RUnlock(b)

WriteStep(p) ==
  \/ Lock(p) \/ Locked(p)
  \/ p \in Subs /\ (Add(p) \/ Remove(p))
  \/ p \in Waiters /\ (AddOnce(p) \/ RemoveOnce(p))
  \/ p \in Closers /\ ( \/ Close(p) \/ CloseAgain(p) \/ CloseDone(p)
                        \/ \E s \in Subs : CloseSub(p, s)
                        \/ \E w \in Waiters : CloseWaiter(p, w) )

HubStep == \/ \E b \in Broadcasters : BroadcastStep(b)
           \/ \E p \in Writers : WriteStep(p)

Read == \/ \E s \in Subs, k \in Kinds : Receive(s, k)
        \/ \E w \in Waiters : Take(w)

Message == [kind : Kinds, value : Payload]

(* A Priming holds one status, never an error, and at most one fix.        *)
IsPriming(primed) ==
  /\ primed \in [Kinds -> Seq(Payload)]
  /\ Len(primed["status"]) = 1
  /\ Len(primed["fix"]) <= 1
  /\ primed["error"] = <<>>

(* Any call with any argument: the argument is what the call leaves in msg *)
(* or in prime.                                                            *)
HubCall ==
  \/ \E b \in Broadcasters :
       msg'[b] \in Message /\ Broadcast(b, msg'[b].kind, msg'[b].value)
  \/ \E s \in Subs : IsPriming(prime'[s]) /\ AddCall(s, prime'[s])
  \/ \E s \in Subs : RemoveCall(s)
  \/ \E w \in Waiters : AddOnceCall(w) \/ RemoveOnceCall(w)
  \/ \E c \in Closers : CloseCall(c)

HubNext == HubStep \/ Read \/ HubCall

HubSpec == HubInit /\ [][HubNext]_hubVars

-----------------------------------------------------------------------------
Entries == Subs \cup Waiters

(* Every variable has its type, and no channel holds more than its buffer. *)
HubTypeOK ==
  /\ subs \subseteq Subs /\ waiters \subseteq Waiters /\ closed \in BOOLEAN
  /\ ends \in [Entries -> {"unmade", "open", "closed", "refused"}]
  /\ chan \in [Subs -> [Kinds -> Seq(Payload)]]
  /\ \A s \in Subs, k \in Kinds : Len(chan[s][k]) <= Buffer[s]
  /\ event \in [Waiters -> Seq(Message)]
  /\ \A w \in Waiters : Len(event[w]) <= 1
  /\ writer \in Writers \cup {Nobody}
  /\ readers \subseteq Broadcasters /\ blocked \subseteq Broadcasters
  /\ pc \in [Goroutines -> {"idle", "lock", "drain", "locked", "blocked", "rlocked",
                       "walk", "discard", "resend"}]
  /\ op \in [Writers -> {"none", "add", "remove", "addOnce", "removeOnce",
                         "close", "empty"}]
  /\ prime \in [Subs -> [Kinds -> Seq(Payload)]]
  /\ \A s \in Subs, k \in Kinds : Len(prime[s][k]) <= 1
  /\ msg \in [Broadcasters -> Message \cup {Nobody}]
  /\ leftSubs \in [Broadcasters -> SUBSET Subs]
  /\ leftWaiters \in [Broadcasters -> SUBSET Waiters]
  /\ target \in [Broadcasters -> Subs \cup {Nobody}]

Walking(b) == pc[b] \in {"walk", "discard", "resend"}

(* A broadcast never sends on a closed channel, which in Go is a panic: no *)
(* entry a range loop has yet to visit is closed under it, by a Remove, a  *)
(* Close or a second Close running at the same time.                       *)
NoSendOnClosed ==
  \A b \in Broadcasters :
    Walking(b) => \A e \in leftSubs[b] \cup leftWaiters[b] : ends[e] = "open"

(* No channel is closed twice, also a panic: what is still registered, and *)
(* so may be closed by Remove or by Close, is open.                        *)
NoDoubleClose == \A e \in subs \cup waiters : ends[e] = "open"

Emptying == \E c \in Closers : op[c] = "empty"

(* Once Close has let go of the lock nothing is registered any more, and   *)
(* nothing ever will be: an Add or AddOnce that raced it was turned away.  *)
(* Every subscription handed out has been closed; the only open channels   *)
(* left belong to a call that has not taken the lock yet, or to a waiter   *)
(* that had left by itself.                                                *)
ClosedHubIsEmpty ==
  closed /\ ~ Emptying =>
    /\ subs = {} /\ waiters = {}
    /\ \A s \in Subs : ends[s] = "open" => op[s] = "add"
=============================================================================
