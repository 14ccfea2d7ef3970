---------------------------- MODULE CoreLocation ----------------------------
(***************************************************************************)
(* The macOS provider: one locked thread that makes the location manager   *)
(* and its delegate, settles the permission, and then turns the run loop   *)
(* until it is told to stop. The delegate's callbacks arrive on that thread*)
(* while the loop turns and only queue what they are told; what a turn has *)
(* queued is published after it, kind by kind.                             *)
(*                                                                         *)
(* Every failure of the set-up is permanent, so retry.Do tries once. What  *)
(* no other thread can see is one step: closing a session, for instance.   *)
(***************************************************************************)
EXTENDS Provider

CONSTANTS Authorizations, \* the values CLAuthorizationStatus may take
          MaxCallbacks    \* callbacks in one turn of the run loop

ASSUME CoreAssumption ==
  0 \in Authorizations /\ Authorizations \subseteq Nat /\ MaxCallbacks \in Nat

VARIABLES
  thread,        \* where the thread of run is
  seen,          \* the authorization startSession has read
  made,          \* the objects made and not yet released
  listening,     \* whether the manager has the delegate
  queues,        \* what the delegate has queued, by kind
  stopCh,        \* whether stopCh is closed
  authorization, \* the application's CLAuthorizationStatus
  changed,       \* whether the delegate is yet to be told of it
  newest         \* the kind of the last callback, unless its fix was dropped

nativeSession == <<made, listening, queues>>
mac           == <<authorization, changed>>
coreVars      == <<thread, seen, nativeSession, stopCh, mac, newest>>

(* A fault: the authorization is published ahead of what led to it.        *)
AuthorizationFirst == <<"authorizations", "locations", "failures">>

(* publishQueued's order.                                                  *)
Kinds == <<"locations", "failures", "authorizations">>

NothingQueued == [kind \in {"locations", "failures", "authorizations"} |-> <<>>]

CoreInit ==
  /\ thread = "off" /\ seen = 0
  /\ made = {} /\ listening = FALSE /\ queues = NothingQueued
  /\ stopCh = FALSE
  /\ authorization = 0 /\ changed = FALSE
  /\ newest = "none"

At(from, to) == thread = from /\ thread' = to

-----------------------------------------------------------------------------
(* What a CLAuthorizationStatus means, and publishing it.                  *)
Meaning(state, permission) == [state |-> state, permission |-> permission]

AuthorizationMeaning(a) ==
  CASE a = 0      -> Meaning("Starting", "PromptRequired")
    [] a = 1      -> Meaning("Disabled", "Restricted")
    [] a = 2      -> Meaning("Disabled", "Denied")
    [] a \in 3..4 -> Meaning("Starting", "Granted")
    [] OTHER      -> Meaning("Unavailable", "Unknown")

PublishAuthorization(a) ==
  LET m == AuthorizationMeaning(a) IN Record(m.state, m.permission)

(* kCLErrorDenied moves the status; any other failure is only an error.    *)
PublishFailure(code) ==
  IF code = 1 THEN Record("Disabled", "Denied") ELSE UNCHANGED status

-----------------------------------------------------------------------------
(* openSession. No manager class, or location services switched off.       *)
FindManagerFails ==
  /\ At("open", "gone")
  /\ \E sentinel \in {"ErrServiceUnavailable", "ErrServiceDisabled"} :
       ready' = <<Error("CLLocationManager", sentinel, FALSE)>>
  /\ UNCHANGED <<opts, seen, nativeSession, stopCh, mac, newest, sink>>

(* Objects are made in this order, the queues only for a whole pair, and   *)
(* no queue after one that could not be made.                              *)
Objects == {"manager", "delegate", "locations", "failures", "authorizations"}

Makeable == (SUBSET {"manager", "delegate"})
              \cup {{"manager", "delegate"} \cup {Kinds[i] : i \in 1 .. n} : n \in 1 .. 3}

CreateSessionObjects ==
  /\ At("open", "created")
  /\ made' \in Makeable
  /\ UNCHANGED <<opts, seen, listening, queues, stopCh, mac, newest, ready, sink>>

(* A partial failure gives back what was made.                             *)
CreateFails ==
  /\ made # Objects
  /\ At("created", "gone")
  /\ made' = {}
  /\ ready' = <<Error("CoreLocation objects", "ErrServiceUnavailable", FALSE)>>
  /\ UNCHANGED <<opts, seen, listening, queues, stopCh, mac, newest, sink>>

(* startSession. The system may tell a new delegate how matters stand.     *)
Configure ==
  /\ made = Objects
  /\ At("created", "read")
  /\ listening' = TRUE
  /\ changed' \in BOOLEAN
  /\ UNCHANGED <<opts, seen, made, queues, stopCh, authorization, newest, ready, sink>>

ReadAuthorization ==
  /\ At("read", "publish")
  /\ seen' = authorization
  /\ UNCHANGED <<opts, nativeSession, stopCh, mac, newest, ready, sink>>

PublishSeen ==
  /\ thread = "publish"
  /\ thread' = IF seen = 0 THEN "request" ELSE "live"
  /\ PublishAuthorization(seen)
  /\ seen' = 0
  /\ UNCHANGED <<opts, nativeSession, stopCh, mac, newest, ready, shut>>

RequestAuthorization ==
  /\ opts.ask
  /\ At("request", "live")
  /\ Record("Starting", "PromptRequired")
  /\ UNCHANGED <<opts, seen, nativeSession, stopCh, mac, newest, ready, shut>>

(* closeSession.                                                           *)
SessionClosed == made' = {} /\ listening' = FALSE /\ queues' = NothingQueued

(* A caller that asked never to be prompted: the attempt is given up.      *)
RequestRefused ==
  /\ ~ opts.ask
  /\ At("request", "gone")
  /\ SessionClosed
  /\ ready' = <<Error("authorization", "ErrPermissionNeeded", FALSE)>>
  /\ UNCHANGED <<opts, seen, stopCh, mac, newest, sink>>

GoLive ==
  /\ At("live", "check")
  /\ ready' = <<<<>>>>
  /\ UNCHANGED <<opts, seen, nativeSession, stopCh, mac, newest, sink>>

-----------------------------------------------------------------------------
(* spin: a turn of the run loop unless stopCh is closed...                 *)
SpinTurn ==
  /\ ~ stopCh
  /\ At("check", "turn")
  /\ UNCHANGED <<opts, seen, nativeSession, stopCh, mac, newest, ready, sink>>

SpinStops ==
  /\ stopCh
  /\ At("check", "close")
  /\ UNCHANGED <<opts, seen, nativeSession, stopCh, mac, newest, ready, sink>>

Queued == Len(queues.locations) + Len(queues.failures) + Len(queues.authorizations)

Enqueue(kind, value) ==
  /\ thread = "turn" /\ listening /\ Queued < MaxCallbacks
  /\ queues' = [queues EXCEPT ![kind] = Append(@, value)]
  /\ newest' = kind
  /\ UNCHANGED <<opts, thread, seen, made, listening, stopCh, authorization, ready, sink>>

(* ...in which the delegate is called back. A location needs access, a     *)
(* denial that there is none.                                              *)
DidUpdateLocations ==
  authorization \in 3 .. 4 /\ Enqueue("locations", "location") /\ UNCHANGED changed

DidFail(code) ==
  /\ code = 1 => authorization \in 1 .. 2
  /\ Enqueue("failures", code) /\ UNCHANGED changed

(* The value is boxed now, not when it is published.                       *)
DidChangeAuthorization ==
  changed /\ Enqueue("authorizations", authorization) /\ changed' = FALSE

Callback == DidUpdateLocations \/ (\E code \in 0 .. 1 : DidFail(code)) \/ DidChangeAuthorization

EndTurn ==
  /\ At("turn", "publishQueued")
  /\ UNCHANGED <<opts, seen, nativeSession, stopCh, mac, newest, ready, sink>>

(* publishQueued takes the first of the first kind that has any.           *)
IsNext(kind) ==
  \E i \in 1 .. 3 : /\ Kinds[i] = kind /\ queues[kind] # <<>>
                    /\ \A j \in 1 .. i - 1 : queues[Kinds[j]] = <<>>

Drain(kind) ==
  /\ thread = "publishQueued" /\ IsNext(kind)
  /\ queues' = [queues EXCEPT ![kind] = Tail(@)]
  /\ UNCHANGED <<opts, thread, seen, made, listening, stopCh, mac, ready, shut>>

PublishLocations ==
  /\ Drain("locations")
  /\ \/ MarkReady /\ UNCHANGED newest
     \/ UNCHANGED status /\ newest' = "none"

PublishFailures ==
  Drain("failures") /\ PublishFailure(Head(queues.failures)) /\ UNCHANGED newest

PublishAuthorizations ==
  /\ Drain("authorizations")
  /\ PublishAuthorization(Head(queues.authorizations))
  /\ UNCHANGED newest

PublishedQueued ==
  /\ At("publishQueued", "check")
  /\ queues = NothingQueued
  /\ UNCHANGED <<opts, seen, nativeSession, stopCh, mac, newest, ready, sink>>

CloseSession ==
  /\ At("close", "gone")
  /\ SessionClosed
  /\ UNCHANGED <<opts, seen, stopCh, mac, newest, ready, sink>>

Thread ==
  \/ FindManagerFails \/ CreateSessionObjects \/ CreateFails \/ Configure
  \/ ReadAuthorization \/ PublishSeen \/ RequestAuthorization \/ RequestRefused \/ GoLive
  \/ SpinTurn \/ SpinStops \/ EndTurn
  \/ PublishLocations \/ PublishFailures \/ PublishAuthorizations \/ PublishedQueued
  \/ CloseSession

-----------------------------------------------------------------------------
(* The user and the system: the authorization may change any time.         *)
Authorize ==
  /\ authorization' \in Authorizations \ {authorization}
  /\ changed' = listening
  /\ UNCHANGED <<port, thread, seen, nativeSession, stopCh, newest, sink>>
=============================================================================
