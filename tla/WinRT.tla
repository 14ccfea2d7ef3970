-------------------------------- MODULE WinRT --------------------------------
(***************************************************************************)
(* The Windows provider. Start and Stop do all their work on the goroutine *)
(* of their caller; beside it run a goroutine that waits for the answer to *)
(* the access request, one that waits for the initial position, and the    *)
(* system's threads, which call the two event handlers while they are      *)
(* registered. Stop waits for none of them.                                *)
(*                                                                         *)
(* A publish is two steps: the check that the service is not closed, and   *)
(* the update of the status. Start's own publishes are one, for the caller *)
(* cannot close a session that it is still opening. The system reports one *)
(* status change at a time.                                                *)
(***************************************************************************)
EXTENDS Provider

CONSTANT Statuses  \* the values PositionStatus may take

ASSUME WinAssumption == "NotInitialized" \in Statuses

VARIABLES
  line,     \* where the caller is in Start or Stop
  rest,     \* what a build has yet to do, or an unwinding to give back
  owned,    \* the objects that live and the events that are registered
  stuck,    \* events that stay registered, for their removal failed
  adopted,  \* whether b.locator and the rest of the session are set
  read,     \* the status Start has read
  expired,  \* whether the context of Start is done
  access,   \* the answer to the access request
  asker,    \* the goroutine that waits for it
  awaiting, \* whether a goroutine waits for the initial position
  passed,   \* the threads with a position that found the service open
  event,    \* the status change being reported, and how far it has come
  os        \* the system's location status

startStop  == <<line, rest, owned, stuck, adopted, read>>
requests   == <<expired, access, asker>>
publishers == <<awaiting, passed, event, os>>
winVars    == <<startStop, requests, publishers>>

WinInit ==
  /\ line = "out" /\ rest = {} /\ owned = {} /\ stuck = {} /\ adopted = FALSE
  /\ read = <<>>
  /\ expired = FALSE /\ access = <<>> /\ asker = "none"
  /\ awaiting = FALSE /\ passed = {} /\ event = <<>>
  /\ os = "NotInitialized"

OnLine(from, to) == line = from /\ line' = to

(* publishWindowsStatus. What it publishes as an error besides records     *)
(* nothing.                                                                *)
WindowsMeaning(s) ==
  CASE s = "Ready"          -> Reported("Ready", "Granted")
    [] s = "Initializing"   -> Reported("Starting", "Granted")
    [] s = "NoData"         -> Reported("Unavailable", "Granted")
    [] s = "Disabled"       -> Reported("Disabled", "Denied")
    [] s = "NotInitialized" -> Reported("Starting", "Unknown")
    [] s = "NotAvailable"   -> Reported("Unavailable", "Granted")
    [] OTHER                -> Reported("Unavailable", "Unknown")

-----------------------------------------------------------------------------
(* buildLocator, call by call; the scalar accuracy is set if one is asked  *)
(* for. Registering an event gives its token.                              *)
BuildOrder ==
  <<"locator", "accuracy", "meters", "interval",
    "positionEvent", "statusEvent", "positionToken", "statusToken">>

Resources == {"locator", "positionEvent", "statusEvent", "positionToken", "statusToken"}
Tokens    == {"positionToken", "statusToken"}

BuildSteps ==
  Resources \cup {"accuracy"} \cup (IF opts.meters THEN {"meters"} ELSE {})
    \cup (IF opts.interval THEN {"interval"} ELSE {})

(* A fault: the handlers are closed while the system may still call them.  *)
HandlersFirst ==
  <<"positionEvent", "statusEvent", "positionToken", "statusToken", "locator">>

(* The order of teardown. The failure paths of buildLocator give back what *)
(* there is by then in the same order, but close the two handlers in the   *)
(* other, which nobody can tell.                                           *)
Unwinding == <<"positionToken", "statusToken", "positionEvent", "statusEvent", "locator">>

(* What comes first of what is left to do.                                 *)
IsFirst(r, order) ==
  r \in rest /\ \E i \in DOMAIN order :
                  order[i] = r /\ \A j \in 1 .. i - 1 : order[j] \notin rest

(* Start. Unless the caller manages permission itself, it asks first.      *)
PublishAsking ==
  /\ OnLine("ask", "request")
  /\ Record("Starting", "PromptRequired")
  /\ UNCHANGED <<port, rest, owned, stuck, adopted, read, requests, publishers, shut>>

StartFails(e) ==
  ready' = <<e>> /\ UNCHANGED <<opts, rest, owned, stuck, adopted, read, publishers, shut>>

(* requestAccess: the calls that begin it may fail...                      *)
RequestFails ==
  /\ OnLine("request", "failed")
  /\ StartFails(Error("RequestAccessAsync", "none", FALSE))
  /\ UNCHANGED <<requests, status>>

RequestAccess ==
  /\ OnLine("request", "await")
  /\ asker' = "waiting"
  /\ UNCHANGED <<port, rest, owned, stuck, adopted, read, expired, access, publishers,
                 sink>>

(* ...its goroutine waits for the user...                                  *)
Answers == {"Allowed", "Denied", "Unspecified", "error"}

AccessAnswered ==
  /\ asker = "waiting" /\ asker' = "answered"
  /\ access' \in {<<a>> : a \in Answers}
  /\ UNCHANGED <<port, startStop, expired, publishers, sink>>

(* A fault: the channel has no room, and the answer needs a receiver.      *)
NeedsReceiver == line = "await"

HasRoomForAnswer == TRUE

(* ...and sends the answer, which Start may not be waiting for any more.   *)
SendAnswer ==
  /\ asker = "answered" /\ HasRoomForAnswer
  /\ asker' = "ended"
  /\ UNCHANGED <<port, startStop, expired, access, publishers, sink>>

(* The error is temporary, but with the context done nothing is retried.   *)
AwaitExpired ==
  /\ expired
  /\ OnLine("await", "failed")
  /\ StartFails(Error("Canceled", "none", TRUE))
  /\ UNCHANGED <<requests, status>>

AccessAllowed ==
  /\ asker = "ended" /\ access = <<"Allowed">>
  /\ OnLine("await", "build")
  /\ Record("Starting", "Granted")
  /\ rest' = BuildSteps
  /\ UNCHANGED <<port, owned, stuck, adopted, read, requests, publishers, shut>>

AccessDenied ==
  /\ asker = "ended" /\ access = <<"Denied">>
  /\ OnLine("await", "failed")
  /\ Record("Disabled", "Denied")
  /\ StartFails(Error("RequestAccess", "ErrPermissionDenied", FALSE))
  /\ UNCHANGED requests

AccessUnsettled ==
  /\ asker = "ended" /\ access[1] \in {"Unspecified", "error"}
  /\ OnLine("await", "failed")
  /\ StartFails(Error("RequestAccess",
                      IF access[1] = "error" THEN "none" ELSE "ErrPermissionNeeded", FALSE))
  /\ UNCHANGED <<requests, status>>

-----------------------------------------------------------------------------
BuildStep ==
  /\ line = "build"
  /\ \E r \in rest :
       /\ IsFirst(r, BuildOrder)
       /\ rest' = rest \ {r}
       /\ owned' = owned \cup ({r} \cap Resources)
  /\ UNCHANGED <<port, line, stuck, adopted, read, requests, publishers, sink>>

BuildFails ==
  /\ rest # {}
  /\ OnLine("build", "unwind")
  /\ rest' = owned
  /\ UNCHANGED <<port, owned, stuck, adopted, read, requests, publishers, sink>>

(* The failure is permanent whichever call it was.                         *)
Unwound ==
  /\ rest = {}
  /\ OnLine("unwind", "failed")
  /\ StartFails(Error("Geolocator", "none", FALSE))
  /\ UNCHANGED <<requests, status>>

Adopted ==
  /\ rest = {}
  /\ OnLine("build", "adopted")
  /\ adopted' = TRUE
  /\ UNCHANGED <<port, rest, owned, stuck, read, requests, publishers, sink>>

(* The status is read, or found unreadable, and then published: an event   *)
(* may come in between.                                                    *)
ReadStatus ==
  /\ OnLine("adopted", "status")
  /\ read' \in {<<>>, <<os>>}
  /\ UNCHANGED <<port, rest, owned, stuck, adopted, requests, publishers, sink>>

PublishRead ==
  /\ OnLine("status", "initial")
  /\ status' = IF read = <<>> THEN Reported("Starting", "Granted") ELSE WindowsMeaning(read[1])
  /\ read' = <<>>
  /\ UNCHANGED <<port, rest, owned, stuck, adopted, requests, publishers, shut>>

(* startInitialRead, whose failure is only an error; Start succeeds.       *)
StartInitialRead ==
  /\ OnLine("initial", "up")
  /\ awaiting' \in BOOLEAN
  /\ ready' = <<<<>>>>
  /\ UNCHANGED <<opts, rest, owned, stuck, adopted, read, requests, passed, event, os, sink>>

-----------------------------------------------------------------------------
(* Stop: teardown takes the session over, then gives it back.              *)
TakeSession ==
  /\ line \in {"up", "failed"} /\ line' = "teardown"
  /\ rest' = IF adopted THEN Resources ELSE {}
  /\ adopted' = FALSE
  /\ UNCHANGED <<port, owned, stuck, read, requests, publishers, sink>>

(* Removing an event may fail: it stays registered then.                   *)
Release ==
  /\ line \in {"unwind", "teardown"}
  /\ \E r \in rest :
       /\ IsFirst(r, Unwinding)
       /\ rest' = rest \ {r}
       /\ \/ owned' = owned \ {r} /\ UNCHANGED stuck
          \/ r \in Tokens /\ stuck' = stuck \cup {r} /\ UNCHANGED owned
  /\ UNCHANGED <<port, line, adopted, read, requests, publishers, sink>>

TornDown ==
  /\ rest = {}
  /\ OnLine("teardown", "over")
  /\ UNCHANGED <<port, rest, owned, stuck, adopted, read, requests, publishers, sink>>

StartOrStop ==
  \/ PublishAsking \/ RequestFails \/ RequestAccess
  \/ AwaitExpired \/ AccessAllowed \/ AccessDenied \/ AccessUnsettled
  \/ BuildStep \/ BuildFails \/ Unwound \/ Adopted
  \/ ReadStatus \/ PublishRead \/ StartInitialRead
  \/ Release \/ TornDown

-----------------------------------------------------------------------------
(* The goroutine of the initial position, and the position handler: each   *)
(* reads a position, which may fail, and publishes a fix. A handler that   *)
(* is closed calls nothing.                                                *)
InitialPosition ==
  /\ awaiting /\ awaiting' = FALSE
  /\ \/ UNCHANGED passed
     \/ ~ shut /\ passed' = passed \cup {"reader"}
  /\ UNCHANGED <<port, startStop, requests, event, os, sink>>

PositionChanged ==
  /\ {"positionToken", "positionEvent"} \subseteq owned /\ ~ shut
  /\ passed' = passed \cup {"handler"}
  /\ UNCHANGED <<port, startStop, requests, awaiting, event, os, sink>>

PublishPosition(t) ==
  /\ t \in passed /\ passed' = passed \ {t}
  /\ status' \in {status, Readied}
  /\ UNCHANGED <<port, startStop, requests, awaiting, event, os, shut>>

(* The system's status changes; once the event is registered, its handler  *)
(* is called with the new one.                                             *)
LocationStatusChanges ==
  /\ event = <<>>
  /\ os' \in Statuses \ {os}
  /\ event' = IF {"statusToken", "statusEvent"} \subseteq owned
              THEN <<[status |-> os', passed |-> FALSE]>>
              ELSE <<>>
  /\ UNCHANGED <<port, startStop, requests, awaiting, passed, sink>>

StatusChanged ==
  /\ event # <<>> /\ ~ event[1].passed
  /\ event' = IF shut THEN <<>> ELSE <<[event[1] EXCEPT !.passed = TRUE]>>
  /\ UNCHANGED <<port, startStop, requests, awaiting, passed, os, sink>>

PublishStatusChange ==
  /\ event # <<>> /\ event[1].passed
  /\ status' = WindowsMeaning(event[1].status)
  /\ event' = <<>>
  /\ UNCHANGED <<port, startStop, requests, awaiting, passed, os, shut>>

Callbacks ==
  \/ InitialPosition \/ StatusChanged \/ PublishStatusChange
  \/ \E t \in {"reader", "handler"} : PublishPosition(t)

Windows == AccessAnswered \/ PositionChanged \/ LocationStatusChanges
=============================================================================
