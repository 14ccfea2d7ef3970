---------------------------- MODULE AtomicState ----------------------------
(***************************************************************************)
(* The lifecycle tracker of internal/feature/lifecycle/adapter/atomicstate:*)
(* a state word and a status pointer that readers load without a lock, and *)
(* a mutex that serializes the updates. An update stores the word first    *)
(* and the pointer after it, so the two may be seen apart.                 *)
(*                                                                         *)
(* UpdatedAt is left out: it is excluded from every comparison.            *)
(***************************************************************************)
EXTENDS Naturals

CONSTANTS Reporters,  \* goroutines that update the tracker
          Free,       \* the mutex is held by nobody
          Messages    \* the messages a status may carry

ASSUME TrackerAssumption ==
  Free \notin Reporters /\ {"none", "receiving"} \subseteq Messages

(* geo/status.go.                                                          *)
States == {"Starting", "Ready", "Reconnecting", "Unavailable", "Disabled", "Closed"}
Permissions == {"Unknown", "PromptRequired", "Granted", "Denied", "Restricted"}
Statuses == [state : States, permission : Permissions, message : Messages]

VARIABLES word,    \* t.state
          status,  \* t.status
          mu,      \* who holds t.mu, between the two stores of an update
          update   \* what each goroutine's last update returns

trackerVars == <<word, status, mu, update>>

(* core.New's tracker; a goroutine that has not updated yet has nothing to *)
(* announce.                                                               *)
Initial == [state |-> "Starting", permission |-> "Unknown", message |-> "none"]

TrackerInit ==
  /\ word = Initial.state
  /\ status = Initial
  /\ mu = Free
  /\ update = [r \in Reporters |-> [recorded |-> Initial, changed |-> FALSE]]

(* A fault: readiness is taken for news, as the caller's look at the state *)
(* before the lock said it was.                                            *)
ReadySaysSo(next) == next.state = "Ready" \/ status # next

Changed(next) == status # next

(* A fault: the word lags one update behind.                               *)
OldWord(next) == status.state

NewWord(next) == next.state

(* store, up to and including the store of the word. The comparison and    *)
(* both stores happen under the mutex.                                     *)
Store(r, next) ==
  /\ mu = Free
  /\ mu' = r
  /\ word' = NewWord(next)
  /\ update' = [update EXCEPT ![r] = [recorded |-> next, changed |-> Changed(next)]]
  /\ UNCHANGED status

(* The store of the pointer, and the unlock.                               *)
StorePointer(r) ==
  /\ mu = r
  /\ mu' = Free
  /\ status' = update[r].recorded
  /\ UNCHANGED <<word, update>>

(* A fault: a report replaces the permission whether it knows one or not.  *)
Replace(report) == report

(* An unknown permission inherits what is already known.                   *)
Inherit(report) ==
  IF report.permission = "Unknown"
  THEN [report EXCEPT !.permission = status.permission]
  ELSE report

Set(r, report) == Store(r, Inherit(report))

(* Readiness settles a permission that was never decided, and only that.   *)
Settled(permission) ==
  IF permission \in {"Unknown", "PromptRequired"} THEN "Granted" ELSE permission

MarkReady(r, message) ==
  Store(r, [state |-> "Ready", permission |-> Settled(status.permission),
            message |-> message])

(* The two reads callers make, each one atomic load.                       *)
State == word
Get   == status
=============================================================================
