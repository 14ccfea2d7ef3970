----------------------------- MODULE HubClient -----------------------------
(***************************************************************************)
(* The callers of the hub, any number of them and in any order: what the   *)
(* hub promises is promised to these. Every broadcast is numbered by the   *)
(* goroutine that makes it, so that the contents of a channel show what    *)
(* was kept, what was dropped and in which order.                          *)
(***************************************************************************)
EXTENDS ChanHub

Seqs == INSTANCE SequencesExt

CONSTANTS MaxBroadcasts,  \* how often one goroutine broadcasts
          MaxRemoves,     \* how often one registration is removed
          Used            \* the kinds of value broadcast in this run

ASSUME ClientAssumption ==
  /\ IsFiniteSet(Broadcasters)
  /\ MaxBroadcasts \in Nat /\ MaxRemoves \in Nat
  /\ Used \subseteq Kinds
  /\ Payload = [by : Broadcasters, n : 0 .. MaxBroadcasts]

VARIABLES
  issued,   \* broadcasts each goroutine has begun
  removed,  \* removals of each registration so far
  got,      \* per channel, the last number received from each goroutine
  full,     \* channels filled to the brim since their reader last read
  taken     \* waiters that have received their event

clientVars == <<issued, removed, got, taken>>
vars == <<hubVars, clientVars, full>>

Init ==
  /\ HubInit
  /\ issued = [b \in Broadcasters |-> 0]
  /\ removed = [e \in Subs \cup Waiters |-> 0]
  /\ got = [s \in Subs |-> [k \in Kinds |-> [b \in Broadcasters |-> 0]]]
  /\ full = [s \in Subs |-> [k \in Kinds |-> FALSE]]
  /\ taken = [w \in Waiters |-> FALSE]

Latest(b) == [by |-> b, n |-> issued[b]]

ClientBroadcast(b, k) ==
  /\ issued[b] < MaxBroadcasts
  /\ Broadcast(b, k, [by |-> b, n |-> issued[b] + 1])
  /\ issued' = [issued EXCEPT ![b] = @ + 1]
  /\ UNCHANGED <<removed, got, taken>>

(* Whoever registers has read the latest status, and the latest fix there  *)
(* was, of some publisher.                                                 *)
ClientAdd(s) ==
  /\ \E b \in Broadcasters, fx \in {<<>>} \cup {<<Latest(b)>> : b \in Broadcasters} :
       AddCall(s, [status |-> <<Latest(b)>>, error |-> <<>>, fix |-> fx])
  /\ UNCHANGED clientVars

ClientRemove(e) ==
  /\ removed[e] < MaxRemoves
  /\ \/ e \in Subs /\ RemoveCall(e)
     \/ e \in Waiters /\ RemoveOnceCall(e)
  /\ removed' = [removed EXCEPT ![e] = @ + 1]
  /\ UNCHANGED <<issued, got, taken>>

ClientReceive(s, k) ==
  /\ Receive(s, k)
  /\ LET v == Head(chan[s][k]) IN got' = [got EXCEPT ![s][k][v.by] = v.n]
  /\ UNCHANGED <<issued, removed, taken>>

ClientTake(w) ==
  /\ Take(w)
  /\ taken' = [taken EXCEPT ![w] = TRUE]
  /\ UNCHANGED <<issued, removed, got>>

(* A channel is noted as full when a step fills it, and forgotten when its *)
(* reader takes a value.                                                   *)
Note(reading) ==
  full' = [s \in Subs |-> [k \in Kinds |->
             \/ Len(chan'[s][k]) = Buffer[s]
             \/ full[s][k] /\ ~ reading[s][k]]]

NoRead == [s \in Subs |-> [k \in Kinds |-> FALSE]]

CallStep ==
  \/ \E b \in Broadcasters, k \in Used : ClientBroadcast(b, k)
  \/ \E s \in Subs : ClientAdd(s)
  \/ \E e \in Subs \cup Waiters : ClientRemove(e)
  \/ \E w \in Waiters : AddOnceCall(w) /\ UNCHANGED clientVars
  \/ \E c \in Closers : CloseCall(c) /\ UNCHANGED clientVars
  \/ \E w \in Waiters : ClientTake(w)

Next ==
  \/ CallStep /\ Note(NoRead)
  \/ HubStep /\ UNCHANGED clientVars /\ Note(NoRead)
  \/ \E s \in Subs, k \in Kinds :
       ClientReceive(s, k) /\ Note([NoRead EXCEPT ![s][k] = TRUE])

Spec == Init /\ [][Next]_vars

-----------------------------------------------------------------------------
(* Values one goroutine broadcast one after the other are queued, and so   *)
(* received, in that order, whatever was dropped in between; a primed      *)
(* value is never queued behind an older broadcast, although a broadcast   *)
(* of the very same value may follow it.                                   *)
InOrder ==
  \A s \in Subs, k \in Kinds :
    LET q == chan[s][k] IN
    \A i \in 1 .. Len(q) :
      /\ got[s][k][q[i].by] <= q[i].n
      /\ \A j \in i .. Len(q) : q[i].by = q[j].by => q[i].n <= q[j].n

(* A fix or an error reaches every waiter registered while it is           *)
(* broadcast: when the walk ends each one has its event, or had one.       *)
WakesEveryWaiter ==
  \A b \in Broadcasters :
    Walked(b) /\ msg[b].kind # "status" =>
      \A w \in waiters : event[w] # <<>> \/ taken[w]

(* With one goroutine broadcasting, DropOldest loses only older values:    *)
(* past a DropOldest subscription, the value is in its channel or has been *)
(* received from it, however the reader raced the discard.                 *)
DropOldestDelivers ==
  \A b \in Broadcasters :
    Walking(b) =>
      \A s \in subs \ leftSubs[b] :
        Policy[s] = "DropOldest" =>
          LET m == msg[b].value  q == chan[s][msg[b].kind] IN
          \/ \E i \in 1 .. Len(q) : q[i] = m
          \/ got[s][msg[b].kind][b] = m.n

(* With DropNewest only its own reader ever takes a value out of a         *)
(* channel; a broadcast adds at the end or does nothing.                   *)
DropNewestKeeps ==
  [][HubStep =>
       \A s \in Subs, k \in Kinds :
         Policy[s] = "DropNewest" => Seqs!IsPrefix(chan[s][k], chan'[s][k])]_vars

(* Racing DropOldest broadcasts waste no capacity: in a channel that was   *)
(* full and has not been read since, every free slot is the hole of one    *)
(* broadcast between its discard and its second send.                      *)
HolesAreOwned ==
  \A s \in Subs, k \in Kinds :
    full[s][k] =>
      Buffer[s] - Len(chan[s][k]) <=
        Cardinality({b \in Broadcasters :
                      pc[b] = "resend" /\ target[b] = s /\ msg[b].kind = k})

=============================================================================
