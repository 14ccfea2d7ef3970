--------------------------- MODULE HubClientProofs --------------------------
(***************************************************************************)
(* What the hub's callers are promised, for any number of goroutines,      *)
(* registrations, broadcasts and removals, any buffers and any policies.   *)
(* The proofs have the hub's own invariant to start from: HubClient uses   *)
(* the hub as HubSpec allows.                                              *)
(***************************************************************************)
EXTENDS HubClient, ChanHubProofs, FiniteSetTheorems

(* The counters and ghosts have their types.                               *)
ClientTypeOK ==
  /\ issued \in [Broadcasters -> 0 .. MaxBroadcasts]
  /\ got \in [Subs -> [Kinds -> [Broadcasters -> Nat]]]
  /\ full \in [Subs -> [Kinds -> BOOLEAN]]
  /\ taken \in [Waiters -> BOOLEAN]

(* What a registration is primed with.                                     *)
Primed(b, fx) == [status |-> <<Latest(b)>>, error |-> <<>>, fix |-> fx]

LEMMA PrimedIsPriming ==
  ASSUME NEW b \in Broadcasters, \A c \in Broadcasters : Latest(c) \in Payload,
         NEW fx \in {<<>>} \cup {<<Latest(c)>> : c \in Broadcasters}
  PROVE  Primed(b, fx) \in [Kinds -> Seq(Payload)] /\ IsPriming(Primed(b, fx))
<1>1. <<Latest(b)>> \in Seq(Payload) /\ Len(<<Latest(b)>>) = 1
  OBVIOUS
<1>2. fx \in Seq(Payload) /\ Len(fx) <= 1
  <2>1. CASE fx = <<>>
    BY <2>1
  <2>2. ASSUME NEW c \in Broadcasters, fx = <<Latest(c)>>
        PROVE  fx \in Seq(Payload) /\ Len(fx) <= 1
    BY <2>2
  <2>3. QED
    BY <2>1, <2>2
<1>3. Primed(b, fx) = [k \in Kinds |-> IF k = "status" THEN <<Latest(b)>>
                                     ELSE IF k = "fix" THEN fx ELSE <<>>]
  BY DEF Primed, Kinds
<1>4. QED
  BY <1>1, <1>2, <1>3 DEF IsPriming, Kinds

(* Whatever a client does, the hub's variables move as HubSpec lets them.  *)
LEMMA ClientUsesHub ==
  ASSUME HubTypeOK, ClientTypeOK, [Next]_vars
  PROVE  [HubNext]_hubVars
<1> USE ClientAssumption
<1>1. \A b \in Broadcasters : Latest(b) \in Payload
  BY DEF ClientTypeOK, Latest
<1>2. ASSUME NEW b \in Broadcasters, NEW k \in Used, ClientBroadcast(b, k) PROVE HubCall
  <2> DEFINE m == [kind |-> k, value |-> [by |-> b, n |-> issued[b] + 1]]
  <2>1. issued[b] + 1 \in 0 .. MaxBroadcasts
    BY <1>2 DEF ClientBroadcast, ClientTypeOK
  <2>2. m \in Message
    BY <2>1 DEF Message
  <2>3. msg'[b] = m
    BY <1>2 DEF ClientBroadcast, Broadcast, HubTypeOK
  <2>4. QED
    BY <1>2, <2>2, <2>3 DEF ClientBroadcast, HubCall
<1>3. ASSUME NEW s \in Subs, ClientAdd(s) PROVE HubCall
  <2>1. PICK b \in Broadcasters, fx \in {<<>>} \cup {<<Latest(c)>> : c \in Broadcasters} :
          AddCall(s, [status |-> <<Latest(b)>>, error |-> <<>>, fix |-> fx])
    BY <1>3 DEF ClientAdd
  <2>2. Primed(b, fx) \in [Kinds -> Seq(Payload)] /\ IsPriming(Primed(b, fx))
    BY <1>1, PrimedIsPriming
  <2>3. prime'[s] = Primed(b, fx)
    BY <2>1 DEF AddCall, HubTypeOK, Primed
  <2>4. QED
    BY <2>1, <2>2, <2>3 DEF HubCall, Primed
<1>4. ASSUME NEW e \in Subs \cup Waiters, ClientRemove(e) PROVE HubCall
  <2>1. CASE e \in Subs /\ RemoveCall(e)
    BY <2>1 DEF HubCall
  <2>2. CASE e \in Waiters /\ RemoveOnceCall(e)
    BY <2>2 DEF HubCall
  <2>3. QED
    BY <1>4, <2>1, <2>2 DEF ClientRemove
<1>5. CASE CallStep
  <2>1. ASSUME NEW w \in Waiters, AddOnceCall(w) PROVE HubCall
    BY <2>1 DEF HubCall
  <2>2. ASSUME NEW c \in Closers, CloseCall(c) PROVE HubCall
    BY <2>2 DEF HubCall
  <2>3. ASSUME NEW w \in Waiters, ClientTake(w) PROVE Read
    BY <2>3 DEF ClientTake, Read
  <2>4. QED
    BY <1>2, <1>3, <1>4, <1>5, <2>1, <2>2, <2>3 DEF CallStep, HubNext
<1>6. ASSUME NEW s \in Subs, NEW k \in Kinds, ClientReceive(s, k) PROVE Read
  BY <1>6 DEF ClientReceive, Read
<1>7. CASE UNCHANGED vars
  BY <1>7 DEF vars, hubVars
<1>8. QED
  BY <1>5, <1>6, <1>7 DEF Next, HubNext

-----------------------------------------------------------------------------
(* The bookkeeping. What a broadcast carries is its goroutine's latest.    *)
Carried ==
  \A b \in Broadcasters : Active(b) => msg[b].value = Latest(b)

(* An unregistered subscription has received nothing yet.                  *)
Untouched ==
  \A s \in Subs, k \in Kinds : Unregistered(s) =>
    /\ chan[s][k] = <<>> /\ ~ full[s][k]
    /\ \A b \in Broadcasters : got[s][k][b] = 0

(* Nothing is queued, primed or received that has not been issued.         *)
Issued(q) == \A i \in 1 .. Len(q) : q[i].n <= issued[q[i].by]

NothingInvented ==
  \A s \in Subs, k \in Kinds :
    /\ Issued(chan[s][k]) /\ Issued(prime[s][k])
    /\ \A b \in Broadcasters : got[s][k][b] <= issued[b]

ClientInv ==
  HubInv /\ ClientTypeOK /\ Carried /\ Untouched /\ NothingInvented /\ InOrder

(* How one channel and its reader's memory change, together.               *)
Same(s, k) == chan'[s][k] = chan[s][k] /\ got'[s][k] = got[s][k]

Grows(s, k) ==
  \E b \in Broadcasters :
    /\ msg[b].kind = k /\ Sends(b, s)
    /\ chan'[s][k] = Append(chan[s][k], Latest(b))
    /\ got'[s][k] = got[s][k]

Loses(s, k) ==
  \E b \in Broadcasters :
    /\ Discard(b) /\ target[b] = s /\ msg[b].kind = k
    /\ chan[s][k] # <<>> /\ chan'[s][k] = Tail(chan[s][k])
    /\ got'[s][k] = got[s][k]

IsRead(s, k) ==
  /\ ClientReceive(s, k)
  /\ full'[s][k] => Len(chan'[s][k]) = Buffer[s]
  /\ chan[s][k] # <<>> /\ chan'[s][k] = Tail(chan[s][k])
  /\ got'[s][k] = [got[s][k] EXCEPT ![Head(chan[s][k]).by] = Head(chan[s][k]).n]

IsPrimed(s, k) ==
  /\ Primes(s) /\ Unregistered(s)
  /\ chan'[s][k] = prime[s][k] /\ got'[s][k] = got[s][k]

(* The hub's own steps, seen from any one channel.                         *)
LEMMA HubQueueMoves ==
  ASSUME ClientInv, HubStep, UNCHANGED clientVars, NEW s \in Subs, NEW k \in Kinds
  PROVE  Same(s, k) \/ Grows(s, k) \/ Loses(s, k) \/ IsPrimed(s, k)
<1>1. chan \in [Subs -> [Kinds -> Seq(Payload)]] /\ target \in [Broadcasters -> Subs \cup {Nobody}]
  BY DEF ClientInv, HubInv, HubTypeOK
<1>2. got' = got
  BY DEF clientVars
<1>3. ASSUME NEW b \in Broadcasters, NEW t \in Subs, Sends(b, t)
      PROVE  Same(s, k) \/ Grows(s, k)
  <2>1. Active(b) /\ msg[b].value = Latest(b)
    BY <1>3 DEF Sends, ClientInv, Carried, Active, Reading
  <2>2. msg[b].kind \in Kinds
    BY <2>1 DEF ClientInv, HubInv, WalkInv, Active, Message
  <2>3. CASE t = s /\ msg[b].kind = k
    BY <1>1, <1>2, <1>3, <2>1, <2>3 DEF Grows, Sends, Send
  <2>4. CASE ~ (t = s /\ msg[b].kind = k)
    BY <1>1, <1>2, <1>3, <2>2, <2>4 DEF Same, Sends, Send
  <2>5. QED
    BY <2>3, <2>4
<1>4. ASSUME NEW b \in Broadcasters, Discard(b) PROVE Same(s, k) \/ Loses(s, k)
  <2>1. msg[b].kind \in Kinds /\ target[b] \in Subs
    BY <1>4 DEF Discard, ClientInv, HubInv, WalkInv, HubTypeOK, Reading, Message
  <2>2. CASE target[b] = s /\ msg[b].kind = k
    BY <1>1, <1>2, <1>4, <2>1, <2>2 DEF Discard, Discarded, Same, Loses
  <2>3. CASE ~ (target[b] = s /\ msg[b].kind = k)
    BY <1>1, <1>2, <1>4, <2>1, <2>3 DEF Discard, Same
  <2>4. QED
    BY <2>2, <2>3
<1>5. ASSUME NEW t \in Subs, Primes(t) PROVE Same(s, k) \/ IsPrimed(s, k)
  BY <1>1, <1>2, <1>5 DEF Primes, Add, InSection, Unregistered, Same, IsPrimed
<1>6. QED
  BY <1>2, <1>3, <1>4, <1>5, HubStepMoves DEF ClientInv, Same

(* A step of the system is one of these, seen from any one channel.        *)
LEMMA QueueMoves ==
  ASSUME ClientInv, [Next]_vars, NEW s \in Subs, NEW k \in Kinds
  PROVE  Same(s, k) \/ Grows(s, k) \/ Loses(s, k) \/ IsRead(s, k) \/ IsPrimed(s, k)
<1>1. chan \in [Subs -> [Kinds -> Seq(Payload)]] /\ target \in [Broadcasters -> Subs \cup {Nobody}]
  BY DEF ClientInv, HubInv, HubTypeOK
<1>2. CASE HubStep /\ UNCHANGED clientVars
  BY <1>2, HubQueueMoves
<1>3. CASE CallStep
  BY <1>3 DEF CallStep, ClientBroadcast, Broadcast, RLockFree, RLockWaits, ClientAdd, AddCall,
              ClientRemove, RemoveCall, RemoveOnceCall, AddOnceCall, CloseCall, ClientTake,
              Take, channels, clientVars, Same
<1>4. ASSUME NEW t \in Subs, NEW j \in Kinds, ClientReceive(t, j),
             Note([NoRead EXCEPT ![t][j] = TRUE])
      PROVE  Same(s, k) \/ IsRead(s, k)
  <2>1. got \in [Subs -> [Kinds -> [Broadcasters -> Nat]]]
    BY DEF ClientInv, ClientTypeOK
  <2>2. CASE t = s /\ j = k
    <3>1. full'[s][k] => Len(chan'[s][k]) = Buffer[s]
      BY <1>4, <2>2 DEF Note, NoRead
    <3>2. QED
      BY <1>1, <1>4, <2>1, <2>2, <3>1 DEF ClientReceive, Receive, IsRead
  <2>3. CASE ~ (t = s /\ j = k)
    BY <1>1, <1>4, <2>1, <2>3 DEF ClientReceive, Receive, Same
  <2>4. QED
    BY <2>2, <2>3
<1>5. CASE UNCHANGED vars
  BY <1>5 DEF vars, hubVars, channels, clientVars, Same
<1>6. QED
  BY <1>2, <1>3, <1>4, <1>5 DEF Next

(* A channel is noted as full only when it is, or already was.             *)
LEMMA FullNoted ==
  ASSUME [Next]_vars, NEW s \in Subs, NEW k \in Kinds, full'[s][k]
  PROVE  Len(chan'[s][k]) = Buffer[s] \/ full[s][k]
BY DEF Next, Note, vars

(* Only a new broadcast is issued, under the next number.                  *)
LEMMA IssuedGrows ==
  ASSUME ClientTypeOK, [Next]_vars, NEW b \in Broadcasters
  PROVE  issued[b] \in Nat /\ issued'[b] \in Nat /\ issued[b] <= issued'[b]
<1>1. issued \in [Broadcasters -> 0 .. MaxBroadcasts] /\ MaxBroadcasts \in Nat
  BY ClientAssumption DEF ClientTypeOK
<1>2. ASSUME NEW c \in Broadcasters, NEW k \in Used, ClientBroadcast(c, k)
      PROVE  issued'[b] = issued[b] \/ issued'[b] = issued[b] + 1
  BY <1>1, <1>2 DEF ClientBroadcast
<1>3. CASE UNCHANGED issued
  BY <1>1, <1>3
<1>4. (\E c \in Broadcasters, k \in Used : ClientBroadcast(c, k)) \/ UNCHANGED issued
  BY DEF Next, CallStep, ClientAdd, ClientRemove, ClientTake, ClientReceive, clientVars, vars
<1>5. issued[b] \in Nat
  BY <1>1
<1>6. QED
  BY <1>2, <1>3, <1>4, <1>5

(* The types of the counters and ghosts.                                   *)
LEMMA ClientTypeStep ==
  ASSUME ClientInv, [Next]_vars
  PROVE  ClientTypeOK'
<1>1. issued' \in [Broadcasters -> 0 .. MaxBroadcasts]
  <2>1. ASSUME NEW b \in Broadcasters, NEW k \in Used, ClientBroadcast(b, k)
        PROVE  issued' \in [Broadcasters -> 0 .. MaxBroadcasts]
    BY <2>1, ClientAssumption DEF ClientBroadcast, ClientInv, ClientTypeOK
  <2>2. QED
    BY <2>1
    DEF Next, CallStep, ClientAdd, ClientRemove, ClientTake, ClientReceive, clientVars, vars,
        ClientInv, ClientTypeOK
<1>2. got' \in [Subs -> [Kinds -> [Broadcasters -> Nat]]]
  <2>1. ASSUME NEW s \in Subs, NEW k \in Kinds, ClientReceive(s, k)
        PROVE  got' \in [Subs -> [Kinds -> [Broadcasters -> Nat]]]
    <3>1. chan[s][k] \in Seq(Payload) /\ chan[s][k] # <<>>
      BY <2>1 DEF ClientReceive, Receive, ClientInv, HubInv, HubTypeOK
    <3>2. Head(chan[s][k]) \in Payload
      BY <3>1
    <3>3. Head(chan[s][k]).n \in Nat
      BY <3>2, ClientAssumption
    <3>4. QED
      BY <2>1, <3>3 DEF ClientReceive, ClientInv, ClientTypeOK
  <2>2. QED
    BY <2>1
    DEF Next, CallStep, ClientBroadcast, ClientAdd, ClientRemove, ClientTake, clientVars, vars,
        ClientInv, ClientTypeOK
<1>3. full' \in [Subs -> [Kinds -> BOOLEAN]]
  <2>1. ASSUME NEW reading, Note(reading) PROVE full' \in [Subs -> [Kinds -> BOOLEAN]]
    BY <2>1, Zenon DEF Note
  <2>2. CASE UNCHANGED vars
    BY <2>2 DEF vars, ClientInv, ClientTypeOK
  <2>3. QED
    BY <2>1, <2>2, Zenon DEF Next
<1>4. taken' \in [Waiters -> BOOLEAN]
  <2>1. ASSUME NEW w \in Waiters, ClientTake(w) PROVE taken' \in [Waiters -> BOOLEAN]
    BY <2>1 DEF ClientTake, ClientInv, ClientTypeOK
  <2>2. QED
    BY <2>1
    DEF Next, CallStep, ClientBroadcast, ClientAdd, ClientRemove, ClientReceive, clientVars,
        vars, ClientInv, ClientTypeOK
<1>5. QED
  BY <1>1, <1>2, <1>3, <1>4 DEF ClientTypeOK

(* While it broadcasts, a goroutine begins no other broadcast.             *)
LEMMA CarriedStep ==
  ASSUME ClientInv, [Next]_vars
  PROVE  Carried'
<1> SUFFICES ASSUME NEW b \in Broadcasters, Active(b)' PROVE (msg[b].value = Latest(b))'
  BY DEF Carried
<1> USE DEF ClientInv
<1>1. pc \in [Goroutines -> {"idle", "lock", "drain", "locked", "blocked", "rlocked",
                       "walk", "discard", "resend"}]
      /\ msg \in [Broadcasters -> Message \cup {Nobody}] /\ b \in Goroutines
  BY DEF HubInv, HubTypeOK, Goroutines
<1>2. ASSUME Active(b), msg'[b] = msg[b], issued'[b] = issued[b]
      PROVE  (msg[b].value = Latest(b))'
  BY <1>2 DEF Carried, Latest
<1>3. CASE (HubStep \/ Read) /\ UNCHANGED issued
  BY <1>2, <1>3, MessageKept
<1>4. ASSUME NEW c \in Broadcasters, NEW k \in Used, ClientBroadcast(c, k)
      PROVE  (msg[b].value = Latest(b))'
  <2>1. CASE b = c
    BY <1>1, <1>4, <2>1 DEF ClientBroadcast, Broadcast, Latest, ClientTypeOK
  <2>2. CASE b # c
    <3>1. pc'[b] = pc[b] /\ msg'[b] = msg[b] /\ issued'[b] = issued[b]
      BY <1>1, <1>4, <2>2
      DEF ClientBroadcast, Broadcast, RLockFree, RLockWaits, ClientTypeOK
    <3>2. QED
      BY <1>2, <3>1 DEF Active, Reading
  <2>3. QED
    BY <2>1, <2>2
<1>5. ASSUME NEW p \in Writers, NEW o, Call(p, o), UNCHANGED <<msg, issued>>
      PROVE  (msg[b].value = Latest(b))'
  BY <1>1, <1>2, <1>5 DEF Call, Active, Reading
<1>6. CASE CallStep
  <2>1. ASSUME NEW w \in Waiters, ClientTake(w) PROVE (msg[b].value = Latest(b))'
    BY <1>3, <2>1 DEF ClientTake, Read
  <2>2. Subs \subseteq Writers /\ Waiters \subseteq Writers /\ Closers \subseteq Writers
    BY DEF Writers
  <2>3. ASSUME NEW s \in Subs, ClientAdd(s) PROVE (msg[b].value = Latest(b))'
    BY <1>5, <2>2, <2>3 DEF ClientAdd, AddCall, walks, clientVars
  <2>4. ASSUME NEW e \in Subs \cup Waiters, ClientRemove(e) PROVE (msg[b].value = Latest(b))'
    BY <1>5, <2>2, <2>4 DEF ClientRemove, RemoveCall, RemoveOnceCall, walks
  <2>5. ASSUME NEW w \in Waiters, AddOnceCall(w), UNCHANGED clientVars
        PROVE  (msg[b].value = Latest(b))'
    BY <1>5, <2>2, <2>5 DEF AddOnceCall, walks, clientVars
  <2>6. ASSUME NEW c \in Closers, CloseCall(c), UNCHANGED clientVars
        PROVE  (msg[b].value = Latest(b))'
    BY <1>5, <2>2, <2>6 DEF CloseCall, walks, clientVars
  <2>7. QED
    BY <1>4, <1>6, <2>1, <2>3, <2>4, <2>5, <2>6 DEF CallStep
<1>7. ASSUME NEW s \in Subs, NEW k \in Kinds, ClientReceive(s, k)
      PROVE  (msg[b].value = Latest(b))'
  BY <1>3, <1>7 DEF ClientReceive, Read
<1>8. CASE UNCHANGED vars
  BY <1>2, <1>8 DEF vars, hubVars, walks, clientVars, Active, Reading
<1>9. QED
  BY <1>3, <1>6, <1>7, <1>8 DEF Next, clientVars

(* Nothing reaches a subscription before its Add does.                     *)
LEMMA UntouchedStep ==
  ASSUME ClientInv, [Next]_vars
  PROVE  Untouched'
<1> SUFFICES ASSUME NEW s \in Subs, NEW k \in Kinds, Unregistered(s)'
             PROVE  /\ chan'[s][k] = <<>> /\ ~ full'[s][k]
                    /\ \A b \in Broadcasters : got'[s][k][b] = 0
  BY DEF Untouched
<1>1. [HubNext]_hubVars
  BY ClientUsesHub DEF ClientInv, HubInv
<1>2. Unregistered(s)
  BY <1>1, UnregisteredKept DEF ClientInv
<1>3. /\ \A j \in Kinds : chan[s][j] = <<>>
      /\ ~ full[s][k] /\ \A b \in Broadcasters : got[s][k][b] = 0
  BY <1>2 DEF ClientInv, Untouched
<1>4. chan'[s][k] = <<>>
  BY <1>1, <1>3, UnregisteredIsEmpty DEF ClientInv
<1>5. ~ full'[s][k]
  BY <1>3, <1>4, FullNoted, HubAssumption
<1>6. ~ Grows(s, k)
  <2>1. \A b \in Broadcasters : Latest(b) \in Payload
    BY ClientAssumption DEF ClientInv, ClientTypeOK, Latest
  <2>2. ASSUME NEW b \in Broadcasters PROVE Append(chan[s][k], Latest(b)) # <<>>
    <3>1. <<>> \in Seq(Payload)
      OBVIOUS
    <3>2. QED
      BY <1>3, <2>1, <3>1
  <2>3. QED
    BY <1>4, <2>2 DEF Grows
<1>7. got'[s][k] = got[s][k]
  BY <1>3, <1>6, QueueMoves DEF Same, Loses, IsRead, IsPrimed
<1>8. QED
  BY <1>3, <1>4, <1>5, <1>7

(* What is counted as issued stays so.                                     *)
LEMMA StaysIssued ==
  ASSUME ClientTypeOK, [Next]_vars, NEW q \in Seq(Payload), Issued(q)
  PROVE  \A i \in 1 .. Len(q) : q[i].n <= issued'[q[i].by]
<1>1. ASSUME NEW i \in 1 .. Len(q) PROVE q[i].n <= issued'[q[i].by]
  <2>1. q[i] \in Payload /\ q[i].n <= issued[q[i].by]
    BY DEF Issued
  <2>2. q[i].n \in Nat /\ q[i].by \in Broadcasters
    BY <2>1, ClientAssumption
  <2>3. QED
    BY <2>1, <2>2, IssuedGrows
<1>2. QED
  BY <1>1

(* What is primed is the latest there is.                                  *)
LEMMA PrimeIssued ==
  ASSUME ClientInv, [Next]_vars, NEW s \in Subs, NEW k \in Kinds
  PROVE  Issued(prime[s][k])'
<1>1. prime \in [Subs -> [Kinds -> Seq(Payload)]] /\ Issued(prime[s][k]) /\ ClientTypeOK
  BY DEF ClientInv, HubInv, HubTypeOK, NothingInvented
<1>2. CASE prime'[s][k] = prime[s][k]
  BY <1>1, <1>2, StaysIssued DEF Issued
<1>3. ASSUME NEW t \in Subs, ClientAdd(t) PROVE Issued(prime[s][k])'
  <2>1. PICK b \in Broadcasters, fx \in {<<>>} \cup {<<Latest(c)>> : c \in Broadcasters} :
          AddCall(t, Primed(b, fx))
    BY <1>3 DEF ClientAdd, Primed
  <2>2. issued' = issued
    BY <1>3 DEF ClientAdd, clientVars
  <2>3. CASE t # s
    BY <1>1, <1>2, <2>1, <2>3 DEF AddCall
  <2>4. ASSUME NEW c \in Broadcasters PROVE Issued(<<Latest(c)>>)
    BY <1>1 DEF Issued, Latest, ClientTypeOK
  <2>5. Issued(<<>>)
    BY DEF Issued
  <2>6. Issued(fx)
    BY <2>4, <2>5
  <2>7. Issued(Primed(b, fx)[k])
    BY <2>4, <2>5, <2>6 DEF Primed, Kinds
  <2>8. CASE t = s
    <3>1. prime'[s][k] = Primed(b, fx)[k]
      BY <1>1, <2>1, <2>8 DEF AddCall
    <3>2. QED
      BY <2>2, <2>7, <3>1 DEF Issued
  <2>9. QED
    BY <2>3, <2>8
<1>4. UNCHANGED prime \/ \E t \in Subs : ClientAdd(t)
  <2>1. HubStep => UNCHANGED prime
    BY DEF HubStep, BroadcastStep, WriteStep, RLockAdmitted, StartWalk, Offer, OfferRefused,
           OfferFull, Discard, Resend, Wake, RUnlock, Lock, Locked, Add, Remove, AddOnce,
           RemoveOnce, Close, CloseAgain, CloseDone, CloseSub, CloseWaiter, calls
  <2>2. CallStep => UNCHANGED prime \/ \E t \in Subs : ClientAdd(t)
    BY DEF CallStep, ClientBroadcast, Broadcast, ClientRemove, RemoveCall, RemoveOnceCall,
           AddOnceCall, CloseCall, ClientTake, Take, calls
  <2>3. QED
    BY <2>1, <2>2 DEF Next, ClientReceive, Receive, calls, vars, hubVars
<1>5. QED
  BY <1>2, <1>3, <1>4

(* Nothing is queued or received that was not issued.                      *)
LEMMA NothingInventedStep ==
  ASSUME ClientInv, [Next]_vars
  PROVE  NothingInvented'
<1> SUFFICES ASSUME NEW s \in Subs, NEW k \in Kinds
             PROVE  /\ Issued(chan[s][k])'
                    /\ \A b \in Broadcasters : got'[s][k][b] <= issued'[b]
  BY PrimeIssued DEF NothingInvented
<1> DEFINE q == chan[s][k]
<1>1. /\ q \in Seq(Payload) /\ prime[s][k] \in Seq(Payload) /\ ClientTypeOK
      /\ Issued(q) /\ Issued(prime[s][k])
      /\ got[s][k] \in [Broadcasters -> Nat]
      /\ \A b \in Broadcasters : got[s][k][b] <= issued[b]
  BY DEF ClientInv, ClientTypeOK, HubInv, HubTypeOK, NothingInvented
<1>2. ASSUME NEW r \in Seq(Payload), Issued(r), chan'[s][k] = r PROVE Issued(chan[s][k])'
  BY <1>1, <1>2, StaysIssued DEF Issued
<1>3. ASSUME q # <<>> PROVE Tail(q) \in Seq(Payload) /\ Issued(Tail(q))
  BY <1>1, <1>3 DEF Issued
<1>4. ASSUME NEW b \in Broadcasters
      PROVE  Append(q, Latest(b)) \in Seq(Payload) /\ Issued(Append(q, Latest(b)))
  <2>1. Latest(b) \in Payload
    BY <1>1, ClientAssumption DEF Latest, ClientTypeOK
  <2>2. issued[b] <= issued[b]
    BY <1>1, IssuedGrows
  <2>3. QED
    BY <1>1, <2>1, <2>2 DEF Issued, Latest
<1>5. Issued(chan[s][k])'
  BY <1>1, <1>2, <1>3, <1>4, QueueMoves DEF Same, Grows, Loses, IsRead, IsPrimed
<1>6. ASSUME NEW b \in Broadcasters PROVE got'[s][k][b] <= issued'[b]
  <2>1. CASE got'[s][k] = got[s][k]
    BY <1>1, <2>1, IssuedGrows
  <2>2. CASE IsRead(s, k)
    <3>1. Head(q) \in Payload /\ Head(q).n <= issued[Head(q).by]
      BY <1>1, <2>2 DEF IsRead, Issued
    <3>2. Head(q).n \in Nat /\ Head(q).by \in Broadcasters
      BY <3>1, ClientAssumption
    <3>3. (got'[s][k][b] = Head(q).n /\ b = Head(q).by) \/ got'[s][k][b] = got[s][k][b]
      BY <1>1, <2>2, <3>2 DEF IsRead
    <3>4. QED
      BY <1>1, <3>1, <3>2, <3>3, IssuedGrows
  <2>3. QED
    BY <2>1, <2>2, QueueMoves DEF Same, Grows, Loses, IsPrimed
<1>7. QED
  BY <1>5, <1>6

(* A queue in order, for a reader that has received up to g.               *)
Ordered(q, g) ==
  \A i \in 1 .. Len(q) :
    /\ g[q[i].by] <= q[i].n
    /\ \A j \in i .. Len(q) : q[i].by = q[j].by => q[i].n <= q[j].n

(* It stays in order when the oldest value is dropped,                     *)
LEMMA OrderedTail ==
  ASSUME NEW q \in Seq(Payload), q # <<>>, NEW g \in [Broadcasters -> Nat], Ordered(q, g)
  PROVE  Ordered(Tail(q), g)
<1>1. Len(Tail(q)) = Len(q) - 1 /\ \A i \in 1 .. Len(Tail(q)) : Tail(q)[i] = q[i + 1]
  OBVIOUS
<1>2. Len(q) \in Nat
  OBVIOUS
<1> DEFINE r == Tail(q)
<1> HIDE DEF r
<1>3. ASSUME NEW i \in 1 .. Len(r)
      PROVE  /\ g[r[i].by] <= r[i].n
             /\ \A j \in i .. Len(r) : r[i].by = r[j].by => r[i].n <= r[j].n
  <2>1. r[i] = q[i + 1] /\ i + 1 \in 1 .. Len(q)
    BY <1>1, <1>2, <1>3 DEF r
  <2>2. ASSUME NEW j \in i .. Len(r)
        PROVE  r[j] = q[j + 1] /\ j + 1 \in (i + 1) .. Len(q)
    BY <1>1, <1>2, <2>2 DEF r
  <2>3. QED
    BY <2>1, <2>2 DEF Ordered
<1>4. QED
  BY <1>3 DEF Ordered, r

(* when it is received,                                                    *)
LEMMA OrderedRead ==
  ASSUME NEW q \in Seq(Payload), q # <<>>, NEW g \in [Broadcasters -> Nat], Ordered(q, g)
  PROVE  Ordered(Tail(q), [g EXCEPT ![Head(q).by] = Head(q).n])
<1> DEFINE r == Tail(q)
           h == [g EXCEPT ![Head(q).by] = Head(q).n]
<1>1. /\ Len(r) = Len(q) - 1 /\ Len(q) \in Nat
      /\ \A i \in 1 .. Len(r) : r[i] = q[i + 1] /\ i + 1 \in 1 .. Len(q)
      /\ Head(q) = q[1] /\ 1 \in 1 .. Len(q)
  OBVIOUS
<1>2. Ordered(r, g)
  BY OrderedTail
<1>3. ASSUME NEW i \in 1 .. Len(q) PROVE q[i].by \in Broadcasters
  <2>1. q[i] \in Payload
    OBVIOUS
  <2>2. QED
    BY <2>1, ClientAssumption
<1>4. ASSUME NEW i \in 1 .. Len(r) PROVE h[r[i].by] <= r[i].n
  <2>1. r[i] = q[i + 1] /\ i + 1 \in 1 .. Len(q)
    BY <1>1
  <2>2. CASE r[i].by = q[1].by
    <3>1. q[1].n <= r[i].n
      BY <1>1, <2>1, <2>2 DEF Ordered
    <3>2. h[r[i].by] = q[1].n
      BY <1>1, <1>3, <2>1, <2>2
    <3>3. QED
      BY <3>1, <3>2
  <2>3. CASE r[i].by # q[1].by
    <3>1. h[r[i].by] = g[r[i].by]
      BY <1>1, <2>3
    <3>2. QED
      BY <1>2, <3>1 DEF Ordered
  <2>4. QED
    BY <2>2, <2>3
<1> HIDE DEF r, h
<1>5. Ordered(r, h)
  BY <1>2, <1>4 DEF Ordered
<1>6. QED
  BY <1>5 DEF r, h

(* and when what is added is the latest of its goroutine.                  *)
LEMMA OrderedAppend ==
  ASSUME NEW q \in Seq(Payload), NEW g \in [Broadcasters -> Nat], Ordered(q, g),
         NEW b \in Broadcasters, Latest(b) \in Payload, g[b] <= issued[b], Issued(q)
  PROVE  Ordered(Append(q, Latest(b)), g)
<1> DEFINE r == Append(q, Latest(b))
<1>1. /\ Len(r) = Len(q) + 1 /\ Len(q) \in Nat
      /\ \A i \in 1 .. Len(q) : r[i] = q[i]
      /\ r[Len(q) + 1] = Latest(b)
  OBVIOUS
<1>2. Latest(b).by = b /\ Latest(b).n = issued[b] /\ issued[b] \in Nat
  BY ClientAssumption DEF Latest
<1> HIDE DEF r
<1>3. ASSUME NEW i \in 1 .. Len(r)
      PROVE  /\ g[r[i].by] <= r[i].n
             /\ \A j \in i .. Len(r) : r[i].by = r[j].by => r[i].n <= r[j].n
  <2>1. CASE i = Len(q) + 1
    BY <1>1, <1>2, <2>1
  <2>2. CASE i \in 1 .. Len(q)
    <3>1. g[r[i].by] <= r[i].n
      BY <1>1, <2>2 DEF Ordered
    <3>2. ASSUME NEW j \in i .. Len(r), r[i].by = r[j].by PROVE r[i].n <= r[j].n
      <4>1. CASE j = Len(q) + 1
        BY <1>1, <1>2, <2>2, <3>2, <4>1 DEF Issued
      <4>2. CASE j \in i .. Len(q)
        BY <1>1, <2>2, <3>2, <4>2 DEF Ordered
      <4>3. QED
        BY <1>1, <2>2, <4>1, <4>2
    <3>3. QED
      BY <3>1, <3>2
  <2>3. QED
    BY <1>1, <2>1, <2>2
<1>4. QED
  BY <1>3 DEF Ordered, r

(* Every step keeps every channel in order.                                *)
LEMMA InOrderStep ==
  ASSUME ClientInv, [Next]_vars
  PROVE  InOrder'
<1> SUFFICES ASSUME NEW s \in Subs, NEW k \in Kinds
             PROVE  Ordered(chan'[s][k], got'[s][k])
  BY DEF InOrder, Ordered
<1> DEFINE q == chan[s][k]
           g == got[s][k]
<1>1. /\ q \in Seq(Payload) /\ g \in [Broadcasters -> Nat]
      /\ Ordered(q, g) /\ Issued(q) /\ \A b \in Broadcasters : g[b] <= issued[b]
  BY DEF ClientInv, ClientTypeOK, HubInv, HubTypeOK, NothingInvented, InOrder, Ordered
<1>2. CASE Same(s, k)
  BY <1>1, <1>2 DEF Same
<1>3. CASE Grows(s, k)
  <2>1. PICK b \in Broadcasters : chan'[s][k] = Append(q, Latest(b)) /\ got'[s][k] = g
    BY <1>3 DEF Grows
  <2>2. Latest(b) \in Payload
    BY ClientAssumption DEF Latest, ClientInv, ClientTypeOK
  <2>3. Ordered(Append(q, Latest(b)), g)
    BY <1>1, <2>2, OrderedAppend
  <2>4. QED
    BY <2>1, <2>3
<1>4. CASE Loses(s, k)
  BY <1>1, <1>4, OrderedTail DEF Loses
<1>5. CASE IsRead(s, k)
  BY <1>1, <1>5, OrderedRead DEF IsRead
<1>6. CASE IsPrimed(s, k)
  <2>1. chan'[s][k] = prime[s][k] /\ got'[s][k] = g /\ \A b \in Broadcasters : g[b] = 0
    BY <1>6 DEF IsPrimed, ClientInv, Untouched
  <2>2. prime[s][k] \in Seq(Payload) /\ Len(prime[s][k]) <= 1
    BY DEF ClientInv, HubInv, HubTypeOK
  <2> DEFINE p == prime[s][k]
  <2>3. ASSUME NEW i \in 1 .. Len(p) PROVE p[i].by \in Broadcasters /\ p[i].n \in Nat
    <3>1. p[i] \in Payload
      BY <2>2
    <3>2. QED
      BY <3>1, ClientAssumption
  <2>4. \A i \in 1 .. Len(p) : \A j \in i .. Len(p) : i = j
    BY <2>2
  <2> HIDE DEF p
  <2>5. Ordered(p, g)
    BY <2>1, <2>3, <2>4 DEF Ordered
  <2>6. QED
    BY <2>1, <2>5 DEF p
<1>7. QED
  BY <1>2, <1>3, <1>4, <1>5, <1>6, QueueMoves

(* All of it holds at the start, and each step keeps it.                   *)
LEMMA ClientInvInit == Init => ClientInv
<1> SUFFICES ASSUME Init PROVE ClientInv
  OBVIOUS
<1>1. HubInv
  BY HubInvInit DEF Init
<1>2. ClientTypeOK
  BY ClientAssumption DEF Init, ClientTypeOK
<1>3. Carried
  BY DEF Init, HubInit, Carried, Active, Reading, Goroutines
<1>4. ASSUME NEW s \in Subs, NEW k \in Kinds PROVE chan[s][k] = <<>> /\ prime[s][k] = <<>>
  BY DEF Init, HubInit, NoValues
<1>5. \A s \in Subs, k \in Kinds : ~ full[s][k] /\ \A b \in Broadcasters : got[s][k][b] = 0
  BY DEF Init
<1>6. Untouched /\ InOrder
  BY <1>4, <1>5 DEF Untouched, InOrder
<1>7. NothingInvented
  BY <1>4, <1>5 DEF Init, NothingInvented, Issued
<1>8. QED
  BY <1>1, <1>2, <1>3, <1>6, <1>7 DEF ClientInv

(* A step keeps all parts, and is a step of the hub's specification.       *)
LEMMA ClientInvStep ==
  ASSUME ClientInv, [Next]_vars
  PROVE  ClientInv' /\ [HubNext]_hubVars
<1>1. [HubNext]_hubVars
  BY ClientUsesHub DEF ClientInv, HubInv
<1>2. HubInv'
  BY <1>1, HubInvStep DEF ClientInv
<1>3. QED
  BY <1>1, <1>2, ClientTypeStep, CarriedStep, UntouchedStep, NothingInventedStep, InOrderStep
  DEF ClientInv

(* The inductive invariant of the hub together with its callers.           *)
THEOREM ClientInvariant == Spec => []ClientInv
BY ClientInvInit, ClientInvStep, PTL DEF Spec

(* The callers, in whatever order they come, use the hub as its            *)
(* specification allows: all that is proved of it holds for them.          *)
THEOREM ClientsUseHub == Spec => HubSpec
<1>1. Init => HubInit
  BY DEF Init
<1>2. QED
  BY <1>1, ClientInvariant, ClientInvStep, PTL DEF Spec, HubSpec

(* What one goroutine broadcast is queued and received in that order,      *)
(* however many goroutines race it, drop values or read.                   *)
THEOREM QueuesAreInOrder == Spec => []InOrder
<1>1. ClientInv => InOrder
  BY DEF ClientInv
<1>2. QED
  BY <1>1, ClientInvariant, PTL

-----------------------------------------------------------------------------
(* The waiters. One that has been woken, or has taken its event, stays so; *)
(* those a walk has passed are all woken.                                  *)
Woke(w) == event[w] # <<>> \/ taken[w]

AllWoken ==
  \A b \in Broadcasters :
    Walking(b) /\ msg[b].kind # "status" => \A w \in waiters \ leftWaiters[b] : Woke(w)

LEMMA WokeStays ==
  ASSUME ClientInv, [Next]_vars, NEW w \in Waiters, Woke(w)
  PROVE  Woke(w)'
<1> USE DEF ClientInv, HubInv, HubTypeOK, ClientTypeOK, Woke
<1>1. ASSUME NEW b \in Broadcasters, NEW v \in Waiters, Wake(b, v), UNCHANGED taken
      PROVE  Woke(w)'
  BY <1>1 DEF Wake
<1>2. ASSUME NEW v \in Waiters, ClientTake(v) PROVE Woke(w)'
  BY <1>2 DEF ClientTake, Take
<1>3. CASE UNCHANGED <<event, taken>>
  BY <1>3
<1>4. ASSUME HubStep PROVE UNCHANGED event \/ \E b \in Broadcasters, v \in Waiters : Wake(b, v)
  BY <1>4
  DEF HubStep, BroadcastStep, RLockAdmitted, StartWalk, Offer, OfferRefused, OfferFull, Discard,
      Resend, RUnlock, WriteStep, Lock, Locked, Add, Remove, AddOnce, RemoveOnce, Close,
      CloseAgain, CloseDone, CloseSub, CloseWaiter, channels
<1>5. ASSUME CallStep PROVE UNCHANGED <<event, taken>> \/ \E v \in Waiters : ClientTake(v)
  BY <1>5
  DEF CallStep, ClientBroadcast, Broadcast, ClientAdd, AddCall, ClientRemove, RemoveCall,
      RemoveOnceCall, AddOnceCall, CloseCall, channels, clientVars
<1> HIDE DEF Woke
<1>6. QED
  BY <1>1, <1>2, <1>3, <1>4, <1>5
  DEF Next, ClientReceive, Receive, clientVars, vars, hubVars, channels

(* A walk wakes what it passes.                                            *)
LEMMA AllWokenStep ==
  ASSUME ClientInv, AllWoken, [Next]_vars
  PROVE  AllWoken'
<1> SUFFICES ASSUME NEW b \in Broadcasters, Walking(b)', msg'[b].kind # "status",
                    NEW w \in waiters' \ leftWaiters'[b]
             PROVE  Woke(w)'
  BY DEF AllWoken
<1>1. [HubNext]_hubVars /\ ClientInv'
  BY ClientInvStep
<1>2. w \in Waiters
  BY <1>1 DEF ClientInv, HubInv, HubTypeOK
<1> USE DEF ClientInv, HubInv
<1>3. ASSUME Reading(b), msg'[b] = msg[b], Walking(b), leftWaiters'[b] = leftWaiters[b]
      PROVE  Woke(w)'
  <2>1. waiters' = waiters
    BY <1>1, <1>3, RegistryHeld DEF registry
  <2>2. Woke(w)
    BY <1>3, <2>1 DEF AllWoken
  <2>3. QED
    BY <1>2, <2>2, WokeStays
<1>4. Walking(b) => Reading(b)
  BY DEF Walking, Reading
<1>5. CASE BroadcastStep(b)
  <2> USE DEF HubTypeOK
  <2>1. CASE RLockAdmitted(b) \/ RUnlock(b)
    BY <2>1 DEF RLockAdmitted, RUnlock, Walking, Goroutines
  <2>2. CASE StartWalk(b)
    BY <2>2 DEF StartWalk, Woken, walks, registry
  <2>3. CASE \/ \E s \in Subs : Offer(b, s) \/ OfferRefused(b, s) \/ OfferFull(b, s)
             \/ Discard(b) \/ Resend(b)
    BY <1>3, <1>4, <2>3
    DEF Offer, OfferRefused, OfferFull, Discard, Resend, Walking, walks
  <2>4. ASSUME NEW v \in Waiters, Wake(b, v) PROVE Woke(w)'
    <3>1. CASE v = w
      BY <2>4, <3>1 DEF Wake, Woke
    <3>2. CASE v # w
      <4>1. w \in waiters \ leftWaiters[b] /\ Walking(b) /\ msg[b].kind # "status"
        BY <2>4, <3>2 DEF Wake, Walking, registry
      <4>2. QED
        BY <1>2, <4>1, WokeStays DEF AllWoken
    <3>3. QED
      BY <3>1, <3>2
  <2>5. QED
    BY <1>5, <2>1, <2>2, <2>3, <2>4 DEF BroadcastStep
<1>6. CASE ~ BroadcastStep(b)
  <2>1. /\ pc'[b] = pc[b] /\ msg'[b] = msg[b] /\ leftWaiters'[b] = leftWaiters[b]
    BY <1>1, <1>6, WalkIsOwn
  <2>2. Walking(b)
    BY <2>1 DEF Walking
  <2>3. QED
    BY <1>3, <1>4, <2>1, <2>2
<1>7. QED
  BY <1>5, <1>6

(* A fix or an error that has been broadcast has woken every waiter there  *)
(* is, whatever was registered, removed or closed while it was under way.  *)
THEOREM EveryWaiterIsWoken == Spec => []WakesEveryWaiter
<1>1. Init => AllWoken
  BY DEF Init, HubInit, AllWoken, Walking, Goroutines
<1>2. AllWoken => WakesEveryWaiter
  <2>1. SUFFICES ASSUME AllWoken, NEW b \in Broadcasters, Walked(b), msg[b].kind # "status",
                        NEW w \in waiters
                 PROVE  event[w] # <<>> \/ taken[w]
    BY DEF WakesEveryWaiter
  <2>2. QED
    BY <2>1 DEF AllWoken, Walked, Walking, Woke
<1>3. QED
  BY <1>1, <1>2, AllWokenStep, ClientInvariant, PTL DEF Spec

-----------------------------------------------------------------------------
(* Room is made in a subscription that drops its oldest value, no other.   *)
RoomMade ==
  \A b \in Broadcasters :
    pc[b] \in {"discard", "resend"} => Policy[target[b]] # "DropNewest"

(* A goroutine makes room only where it found no policy against it.        *)
LEMMA RoomMadeStep ==
  ASSUME ClientInv, RoomMade, [Next]_vars
  PROVE  RoomMade'
<1> SUFFICES ASSUME NEW b \in Broadcasters, pc'[b] \in {"discard", "resend"}
             PROVE  Policy[target'[b]] # "DropNewest"
  BY DEF RoomMade
<1>1. [HubNext]_hubVars
  BY ClientInvStep
<1> USE DEF ClientInv, HubInv
<1>2. CASE BroadcastStep(b)
  <2> USE DEF HubTypeOK, Goroutines
  <2>1. CASE RLockAdmitted(b) \/ RUnlock(b) \/ StartWalk(b) \/ Resend(b)
    BY <2>1 DEF RLockAdmitted, RUnlock, StartWalk, Resend
  <2>2. ASSUME NEW s \in Subs, Offer(b, s) \/ OfferRefused(b, s) PROVE FALSE
    BY <2>2 DEF Offer, OfferRefused
  <2>3. ASSUME NEW s \in Subs, OfferFull(b, s) PROVE Policy[target'[b]] # "DropNewest"
    BY <2>3 DEF OfferFull, Refuses
  <2>4. CASE Discard(b)
    BY <2>4 DEF Discard, RoomMade, walks
  <2>5. ASSUME NEW w \in Waiters, Wake(b, w) PROVE FALSE
    BY <2>5 DEF Wake
  <2>6. QED
    BY <1>2, <2>1, <2>2, <2>3, <2>4, <2>5 DEF BroadcastStep
<1>3. CASE ~ BroadcastStep(b)
  BY <1>1, <1>3, WalkIsOwn DEF Walking, RoomMade
<1>4. QED
  BY <1>2, <1>3

(* A queue is a prefix of itself.                                          *)
LEMMA PrefixSelf ==
  ASSUME NEW q \in Seq(Payload)
  PROVE  Seqs!IsPrefix(q, q)
BY DEF Seqs!IsPrefix

(* The empty one is a prefix of any.                                       *)
LEMMA PrefixEmpty ==
  ASSUME NEW q \in Seq(Payload)
  PROVE  Seqs!IsPrefix(<<>>, q)
<1>1. SubSeq(q, 1, 0) = <<>> /\ SubSeq(<<>>, 1, 0) = <<>> /\ Len(<<>>) = 0 /\ 0 <= Len(q)
  OBVIOUS
<1>2. QED
  BY <1>1 DEF Seqs!IsPrefix

(* A queue is a prefix of itself with a value more.                        *)
LEMMA PrefixAppend ==
  ASSUME NEW q \in Seq(Payload), NEW v \in Payload
  PROVE  Seqs!IsPrefix(q, Append(q, v))
<1>1. Len(Append(q, v)) = Len(q) + 1 /\ Len(q) \in Nat
  OBVIOUS
<1>2. \A i \in 1 .. Len(q) : Append(q, v)[i] = q[i]
  OBVIOUS
<1>3. SubSeq(q, 1, Len(q)) = [i \in 1 .. Len(q) |-> q[i]]
  OBVIOUS
<1>4. SubSeq(Append(q, v), 1, Len(q)) = [i \in 1 .. Len(q) |-> Append(q, v)[i]]
  BY <1>1
<1>5. QED
  BY <1>1, <1>2, <1>3, <1>4 DEF Seqs!IsPrefix

(* Under DropNewest the hub only adds at the end.                          *)
LEMMA NewestDropped ==
  ASSUME ClientInv, RoomMade, HubStep, NEW s \in Subs, NEW k \in Kinds, Policy[s] = "DropNewest"
  PROVE  Seqs!IsPrefix(chan[s][k], chan'[s][k])
<1>1. chan \in [Subs -> [Kinds -> Seq(Payload)]] /\ prime[s][k] \in Seq(Payload)
  BY DEF ClientInv, HubInv, HubTypeOK
<1>2. CASE chan'[s][k] = chan[s][k]
  BY <1>1, <1>2, PrefixSelf
<1>3. ASSUME NEW b \in Broadcasters, NEW t \in Subs, Sends(b, t)
      PROVE  Seqs!IsPrefix(chan[s][k], chan'[s][k])
  <2>1. msg[b] \in Message
    BY <1>3 DEF Sends, Reading, ClientInv, HubInv, WalkInv
  <2>2. CASE t = s /\ msg[b].kind = k
    <3>1. chan'[s][k] = Append(chan[s][k], msg[b].value) /\ msg[b].value \in Payload
      BY <1>1, <1>3, <2>1, <2>2 DEF Sends, Send, Message
    <3>2. QED
      BY <1>1, <3>1, PrefixAppend
  <2>3. CASE ~ (t = s /\ msg[b].kind = k)
    BY <1>1, <1>2, <1>3, <2>1, <2>3 DEF Sends, Send, Message
  <2>4. QED
    BY <2>2, <2>3
<1>4. ASSUME NEW b \in Broadcasters, Discard(b) PROVE chan'[s][k] = chan[s][k]
  <2>1. target[b] # s
    BY <1>4 DEF Discard, RoomMade
  <2>2. QED
    BY <1>1, <1>4, <2>1 DEF Discard
<1>5. ASSUME NEW t \in Subs, Primes(t) PROVE Seqs!IsPrefix(chan[s][k], chan'[s][k])
  <2>1. CASE t # s
    BY <1>1, <1>2, <1>5, <2>1 DEF Primes
  <2>2. CASE t = s
    <3>1. chan[s][k] = <<>> /\ chan'[s][k] = prime[s][k]
      BY <1>1, <1>5, <2>2 DEF Primes, Add, InSection, Unregistered, ClientInv, Untouched
    <3>2. Seqs!IsPrefix(<<>>, prime[s][k])
      BY <1>1, PrefixEmpty
    <3>3. QED
      BY <3>1, <3>2
  <2>3. QED
    BY <2>1, <2>2
<1>6. QED
  BY <1>2, <1>3, <1>4, <1>5, HubStepMoves DEF ClientInv

(* Whatever a DropNewest subscription has queued stays queued, in its      *)
(* place, until its own reader takes it.                                   *)
THEOREM NewestIsDropped == Spec => DropNewestKeeps
<1>1. Init => RoomMade
  BY DEF Init, HubInit, RoomMade, Goroutines
<1>2. ClientInv /\ RoomMade /\ HubStep =>
        \A s \in Subs, k \in Kinds :
          Policy[s] = "DropNewest" => Seqs!IsPrefix(chan[s][k], chan'[s][k])
  BY NewestDropped
<1>3. QED
  BY <1>1, <1>2, RoomMadeStep, ClientInvariant, PTL DEF Spec, DropNewestKeeps

-----------------------------------------------------------------------------
(* DropOldest with one goroutine broadcasting. The room it makes is still  *)
(* there when it sends again: meanwhile only the reader touches the queue. *)
Alone == \A b, c \in Broadcasters : b = c

RoomLeft ==
  \A b \in Broadcasters : pc[b] = "resend" => HasRoom(b, target[b])

(* The value is queued for the reader, or is the last the reader received. *)
Delivered(b, s) ==
  LET m == msg[b].value  q == chan[s][msg[b].kind] IN
  (\E i \in 1 .. Len(q) : q[i] = m) \/ got[s][msg[b].kind][b] = m.n

(* A queue gets shorter by its head.                                       *)
LEMMA TailIsShorter ==
  ASSUME NEW q \in Seq(Payload), q # <<>>
  PROVE  Tail(q) \in Seq(Payload) /\ Len(Tail(q)) <= Len(q) /\ Len(q) \in Nat
OBVIOUS

(* The room it made is not taken by anyone else.                           *)
LEMMA RoomLeftStep ==
  ASSUME Alone, ClientInv, RoomLeft, [Next]_vars
  PROVE  RoomLeft'
<1> SUFFICES ASSUME NEW b \in Broadcasters, pc'[b] = "resend"
             PROVE  HasRoom(b, target[b])'
  BY DEF RoomLeft
<1>1. [HubNext]_hubVars
  BY ClientInvStep
<1> USE DEF ClientInv, HubInv
<1>2. CASE BroadcastStep(b)
  <2> USE DEF HubTypeOK, Goroutines
  <2>1. ~ (RLockAdmitted(b) \/ RUnlock(b) \/ StartWalk(b) \/ Resend(b))
    BY DEF RLockAdmitted, RUnlock, StartWalk, Resend
  <2>2. ~ \E s \in Subs : Offer(b, s) \/ OfferRefused(b, s) \/ OfferFull(b, s)
    BY DEF Offer, OfferRefused, OfferFull
  <2>3. ~ \E w \in Waiters : Wake(b, w)
    BY DEF Wake
  <2>4. CASE Discard(b)
    <3>1. /\ msg[b] \in Message /\ target[b] \in Subs
          /\ msg'[b] = msg[b] /\ target'[b] = target[b]
      BY <2>4 DEF Discard, WalkInv, Reading, walks
    <3>2. chan'[target[b]][msg[b].kind] = Discarded(Queue(b, target[b]))
      BY <2>4, <3>1 DEF Discard, Queue, Message
    <3>3. Queue(b, target[b]) \in Seq(Payload) /\ Len(Queue(b, target[b])) <= Buffer[target[b]]
      BY <3>1 DEF Queue, Message
    <3>4. Len(Discarded(Queue(b, target[b]))) < Buffer[target[b]]
      BY <3>1, <3>3, HubAssumption DEF Discarded
    <3>5. QED
      BY <3>1, <3>2, <3>4 DEF HasRoom, Queue
  <2>5. QED
    BY <1>2, <2>1, <2>2, <2>3, <2>4 DEF BroadcastStep
<1>3. CASE ~ BroadcastStep(b)
  <2>1. /\ pc[b] = "resend" /\ msg'[b] = msg[b] /\ target'[b] = target[b]
        /\ leftSubs'[b] = leftSubs[b]
    BY <1>1, <1>3, WalkIsOwn DEF Walking
  <2>2. msg[b] \in Message /\ target[b] \in Subs /\ HasRoom(b, target[b])
    BY <2>1 DEF HubTypeOK, WalkInv, Reading, RoomLeft
  <2> DEFINE s == target[b]
             k == msg[b].kind
  <2>3. s \in Subs /\ k \in Kinds /\ chan[s][k] \in Seq(Payload) /\ Len(chan[s][k]) < Buffer[s]
    BY <2>2 DEF HubTypeOK, Message, HasRoom, Queue
  <2>4. ~ Grows(s, k)
    BY <2>1 DEF Alone, Grows, Sends, HubTypeOK
  <2>5. ~ IsPrimed(s, k)
    <3>1. s \in subs
      BY <2>1 DEF WalkInv, Walking
    <3>2. QED
      BY <2>3, <3>1 DEF IsPrimed, Unregistered, CallInv, NoDoubleClose
  <2> HIDE DEF s, k
  <2>6. Len(chan'[s][k]) < Buffer[s]
    <3>1. \/ chan'[s][k] = chan[s][k]
          \/ chan[s][k] # <<>> /\ chan'[s][k] = Tail(chan[s][k])
      BY <2>3, <2>4, <2>5, QueueMoves DEF Same, Loses, IsRead
    <3>2. Len(chan'[s][k]) <= Len(chan[s][k]) /\ Len(chan[s][k]) \in Nat
      <4>1. Len(chan[s][k]) \in Nat
        BY <2>3
      <4>2. CASE chan'[s][k] = chan[s][k]
        BY <4>1, <4>2
      <4>3. CASE chan[s][k] # <<>> /\ chan'[s][k] = Tail(chan[s][k])
        BY <2>3, <4>3, TailIsShorter
      <4>4. QED
        BY <3>1, <4>2, <4>3
    <3>3. Buffer[s] \in Nat /\ Len(chan'[s][k]) \in Nat
      BY <2>3, <3>1, HubAssumption
    <3>4. QED
      BY <2>3, <3>2, <3>3
  <2>7. QED
    BY <2>1, <2>6 DEF HasRoom, Queue, s, k
<1>4. QED
  BY <1>2, <1>3

(* What is past a subscription stays delivered to it.                      *)
LEMMA DeliveredStays ==
  ASSUME Alone, ClientInv, [Next]_vars, NEW b \in Broadcasters, NEW s \in subs,
         Walking(b), s \notin leftSubs[b], pc[b] = "discard" => target[b] # s,
         msg'[b] = msg[b], Delivered(b, s)
  PROVE  Delivered(b, s)'
<1> DEFINE k == msg[b].kind
           m == msg[b].value
           q == chan[s][k]
<1> USE DEF ClientInv, HubInv
<1>1. /\ s \in Subs /\ k \in Kinds /\ m = Latest(b)
      /\ q \in Seq(Payload) /\ got[s][k] \in [Broadcasters -> Nat]
      /\ (\E i \in 1 .. Len(q) : q[i] = m) \/ got[s][k][b] = m.n
  BY DEF HubTypeOK, ClientTypeOK, WalkInv, Reading, Walking, Carried, Active, Message, Delivered
<1>2. m = [by |-> b, n |-> issued[b]] /\ m \in Payload
  BY <1>1, ClientAssumption DEF Latest, ClientTypeOK
<1>3. SUFFICES (\E i \in 1 .. Len(chan'[s][k]) : chan'[s][k][i] = m) \/ got'[s][k][b] = m.n
  BY DEF Delivered
<1>4. CASE Same(s, k)
  BY <1>1, <1>4 DEF Same
<1>5. CASE Grows(s, k)
  <2>1. FALSE
    BY <1>5 DEF Grows, Sends, Alone
  <2>2. QED
    BY <2>1
<1>6. CASE Loses(s, k)
  <2>1. FALSE
    BY <1>6 DEF Loses, Discard, Alone
  <2>2. QED
    BY <2>1
<1>7. CASE IsPrimed(s, k)
  BY <1>1, <1>7 DEF IsPrimed, Unregistered, CallInv, NoDoubleClose
<1>8. CASE IsRead(s, k)
  <2>1. /\ q # <<>> /\ chan'[s][k] = Tail(q)
        /\ got'[s][k] = [got[s][k] EXCEPT ![Head(q).by] = Head(q).n]
    BY <1>8 DEF IsRead
  <2> HIDE DEF q, k, m
  <2>2. /\ Head(q) = q[1] /\ 1 \in 1 .. Len(q)
        /\ Len(Tail(q)) = Len(q) - 1
        /\ \A i \in 2 .. Len(q) : q[i] = Tail(q)[i - 1] /\ i - 1 \in 1 .. Len(Tail(q))
    BY <1>1, <2>1
  <2>3. q[1] \in Payload
    BY <1>1, <2>2
  <2>4. q[1].by \in Broadcasters /\ q[1].n \in Nat
    BY <2>3, ClientAssumption
  <2>5. q[1].by = b
    BY <2>4 DEF Alone
  <2>6. got'[s][k][b] = q[1].n
    BY <1>1, <2>1, <2>2, <2>5
  <2>7. CASE got[s][k][b] = m.n
    <3>1. got[s][k][b] <= q[1].n
      BY <1>1, <2>2, <2>5 DEF InOrder, q
    <3>2. q[1].n <= issued[b]
      BY <1>1, <2>2, <2>5 DEF NothingInvented, Issued, q
    <3>3. m.n = issued[b] /\ issued[b] \in Nat
      BY <1>2, ClientAssumption DEF ClientTypeOK
    <3>4. QED
      BY <2>4, <2>6, <2>7, <3>1, <3>2, <3>3
  <2>8. ASSUME NEW i \in 1 .. Len(q), q[i] = m
        PROVE  (\E j \in 1 .. Len(chan'[s][k]) : chan'[s][k][j] = m) \/ got'[s][k][b] = m.n
    <3>1. CASE i = 1
      BY <2>6, <2>8, <3>1
    <3>2. CASE i # 1
      <4>1. Tail(q)[i - 1] = m /\ i - 1 \in 1 .. Len(Tail(q))
        BY <1>1, <2>2, <2>8, <3>2
      <4>2. QED
        BY <2>1, <4>1
    <3>3. QED
      BY <3>1, <3>2
  <2>9. QED
    BY <1>1, <2>7, <2>8 DEF q
<1>9. QED
  BY <1>1, <1>4, <1>5, <1>6, <1>7, <1>8, QueueMoves

(* A send delivers.                                                        *)
LEMMA SendDelivers ==
  ASSUME ClientInv, NEW b \in Broadcasters, NEW s \in Subs, msg[b] \in Message,
         msg'[b] = msg[b], Send(b, s)
  PROVE  Delivered(b, s)'
<1> DEFINE k == msg[b].kind
           q == chan[s][k]
           r == Append(q, msg[b].value)
<1>1. k \in Kinds /\ q \in Seq(Payload) /\ msg[b].value \in Payload
  BY DEF ClientInv, HubInv, HubTypeOK, Message
<1>2. chan'[s][k] = r
  BY <1>1 DEF Send, ClientInv, HubInv, HubTypeOK
<1>3. Len(q) + 1 \in 1 .. Len(r) /\ r[Len(q) + 1] = msg[b].value
  BY <1>1
<1> HIDE DEF r
<1>4. \E i \in 1 .. Len(r) : r[i] = msg[b].value
  BY <1>3
<1>5. QED
  BY <1>2, <1>4 DEF Delivered

(* A walk passes a DropOldest subscription only by sending to it.          *)
LEMMA DropOldestStep ==
  ASSUME Alone, ClientInv, RoomLeft, DropOldestDelivers, [Next]_vars
  PROVE  DropOldestDelivers'
<1> SUFFICES ASSUME NEW b \in Broadcasters, Walking(b)', NEW s \in subs' \ leftSubs'[b],
                    Policy[s] = "DropOldest"
             PROVE  Delivered(b, s)'
  BY DEF DropOldestDelivers, Delivered
<1>1. [HubNext]_hubVars /\ HubInv'
  BY ClientInvStep DEF ClientInv
<1>2. s \in Subs
  BY <1>1 DEF HubInv, HubTypeOK
<1> USE DEF ClientInv, HubInv
<1>3. ASSUME Walking(b), s \notin leftSubs[b], msg'[b] = msg[b] PROVE Delivered(b, s)'
  <2>1. s \in subs
    BY <1>1, <1>3, RegistryHeld DEF Walking, Reading, registry
  <2>2. Delivered(b, s)
    BY <1>3, <2>1 DEF DropOldestDelivers, Delivered
  <2>3. pc[b] = "discard" => target[b] # s
    BY <1>3 DEF WalkInv
  <2>4. QED
    BY <1>3, <2>1, <2>2, <2>3, DeliveredStays
<1>4. CASE BroadcastStep(b)
  <2> USE DEF HubTypeOK, Goroutines
  <2>1. CASE RLockAdmitted(b) \/ RUnlock(b)
    BY <2>1 DEF RLockAdmitted, RUnlock, Walking
  <2>2. CASE StartWalk(b)
    BY <2>2 DEF StartWalk, registry
  <2>3. ASSUME NEW t \in Subs, Offer(b, t) PROVE Delivered(b, s)'
    <3>1. msg[b] \in Message /\ Walking(b) /\ msg'[b] = msg[b]
      BY <2>3 DEF Offer, WalkInv, Reading, Walking
    <3>2. CASE t = s
      BY <2>3, <3>1, <3>2, SendDelivers DEF Offer
    <3>3. CASE t # s
      BY <1>3, <2>3, <3>1, <3>3 DEF Offer
    <3>4. QED
      BY <3>2, <3>3
  <2>4. ASSUME NEW t \in Subs, OfferRefused(b, t) PROVE Delivered(b, s)'
    BY <1>3, <2>4 DEF OfferRefused, Refuses, Walking
  <2>5. ASSUME NEW t \in Subs, OfferFull(b, t) PROVE Delivered(b, s)'
    BY <1>3, <2>5 DEF OfferFull, Walking
  <2>6. CASE Discard(b)
    BY <1>3, <2>6 DEF Discard, Walking, walks
  <2>7. CASE Resend(b)
    <3>1. msg[b] \in Message /\ Walking(b) /\ msg'[b] = msg[b] /\ HasRoom(b, target[b])
      BY <2>7 DEF Resend, WalkInv, Reading, Walking, RoomLeft
    <3>2. CASE target[b] = s
      BY <1>2, <2>7, <3>1, <3>2, SendDelivers DEF Resend, Retry
    <3>3. CASE target[b] # s
      BY <1>3, <2>7, <3>1, <3>3 DEF Resend
    <3>4. QED
      BY <3>2, <3>3
  <2>8. ASSUME NEW w \in Waiters, Wake(b, w) PROVE Delivered(b, s)'
    BY <1>3, <2>8 DEF Wake, Walking
  <2>9. QED
    BY <1>4, <2>1, <2>2, <2>3, <2>4, <2>5, <2>6, <2>7, <2>8 DEF BroadcastStep
<1>5. CASE ~ BroadcastStep(b)
  BY <1>1, <1>3, <1>5, WalkIsOwn DEF Walking
<1>6. QED
  BY <1>4, <1>5

(* As long as one goroutine broadcasts, DropOldest loses older values      *)
(* only: the second trySend, whose result offer ignores, never fails.      *)
THEOREM OldestIsDropped ==
  ASSUME Alone
  PROVE  Spec => []DropOldestDelivers
<1>1. Init => RoomLeft /\ DropOldestDelivers
  BY DEF Init, HubInit, RoomLeft, DropOldestDelivers, Walking, Goroutines
<1>2. ClientInv /\ RoomLeft /\ DropOldestDelivers /\ [Next]_vars
        => RoomLeft' /\ DropOldestDelivers'
  BY RoomLeftStep, DropOldestStep
<1>3. QED
  BY <1>1, <1>2, ClientInvariant, PTL DEF Spec

-----------------------------------------------------------------------------
(* Any number of goroutines broadcasting. The holes in a channel: whoever  *)
(* has discarded from it and has yet to send again.                        *)
Holes(s, k) == {b \in Broadcasters : pc[b] = "resend" /\ target[b] = s /\ msg[b].kind = k}

(* There are finitely many.                                                *)
LEMMA HolesFinite ==
  ASSUME NEW s, NEW k
  PROVE  /\ IsFiniteSet(Holes(s, k)) /\ Cardinality(Holes(s, k)) \in Nat
         /\ IsFiniteSet(Holes(s, k)') /\ Cardinality(Holes(s, k)') \in Nat
<1>1. Holes(s, k) \subseteq Broadcasters /\ Holes(s, k)' \subseteq Broadcasters
  BY DEF Holes
<1>2. IsFiniteSet(Holes(s, k)) /\ IsFiniteSet(Holes(s, k)')
  BY <1>1, ClientAssumption, FS_Subset
<1>3. QED
  BY <1>2, FS_CardinalityType

(* A hole is made by a discard and filled by a second send, of its owner.  *)
LEMMA HolesMove ==
  ASSUME ClientInv, [Next]_vars, NEW b \in Broadcasters, NEW s \in Subs, NEW k \in Kinds,
         b \in Holes(s, k)' <=> b \notin Holes(s, k)
  PROVE  Discard(b) \/ Resend(b)
<1>1. [HubNext]_hubVars
  BY ClientInvStep
<1>2. (pc[b] = "resend") # (pc'[b] = "resend") \/ msg'[b] # msg[b] \/ target'[b] # target[b]
  BY DEF Holes
<1>3. pc[b] = "resend" \/ pc'[b] = "resend"
  BY DEF Holes
<1>4. BroadcastStep(b)
  BY <1>1, <1>2, <1>3, WalkIsOwn DEF ClientInv, Walking
<1> USE DEF ClientInv, HubInv, HubTypeOK, Goroutines
<1>5. ~ (RLockAdmitted(b) \/ StartWalk(b) \/ RUnlock(b))
  BY <1>3 DEF RLockAdmitted, StartWalk, RUnlock, Walked
<1>6. ~ \E t \in Subs : Offer(b, t) \/ OfferRefused(b, t) \/ OfferFull(b, t)
  BY <1>3 DEF Offer, OfferRefused, OfferFull
<1>7. ~ \E w \in Waiters : Wake(b, w)
  BY <1>3 DEF Wake
<1>8. QED
  BY <1>4, <1>5, <1>6, <1>7 DEF BroadcastStep

(* The step of one goroutine opens or closes its own hole only.            *)
LEMMA OwnHole ==
  ASSUME ClientInv, [Next]_vars, NEW b \in Broadcasters, NEW s \in Subs, NEW k \in Kinds,
         Discard(b) \/ Resend(b)
  PROVE  Holes(s, k)' \ {b} = Holes(s, k) \ {b}
<1>1. ASSUME NEW c \in Broadcasters, c # b PROVE c \in Holes(s, k)' <=> c \in Holes(s, k)
  BY <1>1 DEF Holes, Discard, Resend, walks, ClientInv, HubInv, HubTypeOK, Goroutines
<1>2. QED
  BY <1>1 DEF Holes

(* The books balance over every step.                                      *)
LEMMA HolesStep ==
  ASSUME ClientInv, HolesAreOwned, [Next]_vars
  PROVE  HolesAreOwned'
<1> SUFFICES ASSUME NEW s \in Subs, NEW k \in Kinds, full'[s][k]
             PROVE  Buffer[s] - Len(chan'[s][k]) <= Cardinality(Holes(s, k)')
  BY DEF HolesAreOwned, Holes
<1> DEFINE q == chan[s][k]
           H == Holes(s, k)
           n == Cardinality(H)
           r == chan'[s][k]
           I == Holes(s, k)'
           m == Cardinality(I)
<1>1. ClientInv'
  BY ClientInvStep
<1>2. /\ q \in Seq(Payload) /\ r \in Seq(Payload)
      /\ Len(q) \in Nat /\ Len(r) \in Nat /\ Buffer[s] \in Nat
      /\ Len(q) <= Buffer[s]
  <2>1. q \in Seq(Payload) /\ r \in Seq(Payload) /\ Len(q) <= Buffer[s]
    BY <1>1 DEF ClientInv, HubInv, HubTypeOK
  <2>2. QED
    BY <2>1, HubAssumption
<1>3. n \in Nat /\ m \in Nat /\ IsFiniteSet(H) /\ IsFiniteSet(I)
  BY HolesFinite
<1>4. CASE Len(r) = Buffer[s]
  BY <1>2, <1>3, <1>4
<1>5. CASE Len(r) # Buffer[s]
  <2>1. full[s][k]
    BY <1>5, FullNoted
  <2>2. Buffer[s] - Len(q) <= n
    BY <2>1 DEF HolesAreOwned, Holes
  <2>3. ~ IsRead(s, k)
    BY <1>5 DEF IsRead
  <2>4. ~ IsPrimed(s, k)
    BY <2>1 DEF IsPrimed, ClientInv, Untouched
  <2>5. CASE \E b \in Broadcasters : Discard(b) \/ Resend(b)
    <3>1. PICK b \in Broadcasters : Discard(b) \/ Resend(b)
      BY <2>5
    <3>2. I \ {b} = H \ {b}
      BY <3>1, OwnHole
    <3>3. b \notin Broadcasters \/ b \in Goroutines
      BY DEF Goroutines
    <3> USE DEF ClientInv, HubInv, HubTypeOK
    <3>4. /\ msg[b].kind \in Kinds /\ target[b] \in Subs /\ target[b] \in leftSubs[b]
      BY <3>1 DEF Discard, Resend, WalkInv, Reading, Message
    <3>5. CASE Discard(b) /\ target[b] = s /\ msg[b].kind = k
      <4>1. b \notin H /\ b \in I
        BY <3>3, <3>5 DEF Discard, Holes, walks
      <4>2. I = H \cup {b}
        BY <3>2, <4>1
      <4>3. m = n + 1
        BY <1>3, <4>1, <4>2, FS_AddElement
      <4>4. r = Discarded(q)
        BY <3>4, <3>5 DEF Discard
      <4>5. Len(r) >= Len(q) - 1
        BY <1>2, <4>4 DEF Discarded
      <4>6. QED
        BY <1>2, <1>3, <2>2, <4>3, <4>5
    <3>6. CASE Discard(b) /\ ~ (target[b] = s /\ msg[b].kind = k)
      <4>1. b \notin H /\ b \notin I
        BY <3>6 DEF Discard, Holes, walks
      <4>2. I = H
        <5>1. H \ {b} = H /\ I \ {b} = I
          BY <4>1
        <5>2. QED
          BY <3>2, <5>1
      <4>3. r = q
        BY <3>4, <3>6 DEF Discard
      <4>4. QED
        BY <2>2, <4>2, <4>3
    <3>7. CASE Resend(b) /\ target[b] = s /\ msg[b].kind = k
      <4>1. b \in H /\ b \notin I
        BY <3>3, <3>7 DEF Resend, Holes
      <4>2. I = H \ {b}
        BY <3>2, <4>1
      <4>3. m = n - 1
        BY <1>3, <4>1, <4>2, FS_RemoveElement
      <4>4. Len(q) < Buffer[s] => r = Append(q, msg[b].value) /\ msg[b].value \in Payload
        BY <3>4, <3>7 DEF Resend, Retry, Send, HasRoom, Queue, WalkInv, Reading, Message
      <4>5. Len(q) >= Buffer[s] => r = q
        BY <1>2, <3>4, <3>7 DEF Resend, Retry, HasRoom, Queue
      <4>6. Len(q) < Buffer[s]
        BY <1>2, <1>5, <4>5
      <4>7. Len(r) = Len(q) + 1
        BY <1>2, <4>4, <4>6
      <4>8. QED
        BY <1>2, <1>3, <2>2, <4>3, <4>7
    <3>8. CASE Resend(b) /\ ~ (target[b] = s /\ msg[b].kind = k)
      <4>1. b \notin H /\ b \notin I
        BY <3>3, <3>8 DEF Resend, Holes
      <4>2. I = H
        <5>1. H \ {b} = H /\ I \ {b} = I
          BY <4>1
        <5>2. QED
          BY <3>2, <5>1
      <4>3. r = q
        BY <3>4, <3>8 DEF Resend, Retry, Send
      <4>4. QED
        BY <2>2, <4>2, <4>3
    <3>9. QED
      BY <3>1, <3>5, <3>6, <3>7, <3>8
  <2>6. CASE ~ \E b \in Broadcasters : Discard(b) \/ Resend(b)
    <3>1. I = H
      BY <2>6, HolesMove DEF Holes
    <3>2. r = q \/ \E b \in Broadcasters : r = Append(q, Latest(b))
      BY <2>3, <2>4, <2>6, QueueMoves DEF Same, Grows, Loses
    <3>3. \A b \in Broadcasters : Latest(b) \in Payload
      BY ClientAssumption DEF ClientInv, ClientTypeOK, Latest
    <3>4. Len(q) <= Len(r)
      <4>1. ASSUME NEW b \in Broadcasters, r = Append(q, Latest(b)) PROVE Len(q) <= Len(r)
        BY <1>2, <3>3, <4>1
      <4>2. QED
        BY <1>2, <3>2, <4>1
    <3>5. QED
      BY <1>2, <1>3, <2>2, <3>1, <3>4
  <2>7. QED
    BY <2>5, <2>6
<1>6. QED
  BY <1>4, <1>5

(* However many goroutines discard and send in each other's way, a channel *)
(* that was full and is not read wastes no slot: each one free belongs to  *)
(* a broadcast about to fill it.                                           *)
THEOREM NoCapacityIsWasted == Spec => []HolesAreOwned
<1>1. Init => HolesAreOwned
  BY DEF Init, HolesAreOwned
<1>2. QED
  BY <1>1, HolesStep, ClientInvariant, PTL DEF Spec
=============================================================================
