------------------------------- MODULE GeoClue -------------------------------
(***************************************************************************)
(* The Linux provider: one goroutine that connects to the system bus, sets *)
(* up a GeoClue client, delivers its fixes and rebuilds the session when   *)
(* it is lost; Start, which waits for the first session, and Stop.         *)
(*                                                                         *)
(* Two parties answer its calls: the bus daemon, which always does, and    *)
(* the GeoClue service behind it. At first a call may succeed or fail and  *)
(* a connection may die; the service may then be well for good, or fall    *)
(* silent. A call made with the run's context also returns when that is    *)
(* cancelled; a call made without one only when it is answered or its      *)
(* connection dies.                                                        *)
(***************************************************************************)
EXTENDS Provider

CONSTANTS DBusErrors,  \* the names of the errors a call may be answered with
          MaxSignals   \* signals that may queue; the code has room for 32

ASSUME GeoClueAssumption == MaxSignals \in Nat

VARIABLES
  pc,        \* where the run goroutine is
  phase,     \* whether it is dialling until Start is answered, or again
  todo,      \* the calls openSession has yet to make
  err,       \* the error it carries, or none
  conn,      \* its session's connection, 0 for none
  open,      \* the private connections that are open
  alive,     \* whether the current connection still works
  signals,   \* LocationUpdated signals queued for the session
  held,      \* b.conn: what Stop will find, 0 for nil
  cancelled, \* whether the run's context has been cancelled
  bus        \* whether calls are answered: unsure, well or silent

session == <<todo, conn, open, alive, signals, held>>
backend == <<opts, pc, phase, err, session, ready>>
geoClueVars == <<pc, phase, err, session, cancelled, bus>>

GeoClueInit ==
  /\ pc = "off" /\ phase = "dial" /\ todo = <<>> /\ err = <<>>
  /\ conn = 0 /\ open = {} /\ alive = FALSE /\ signals = 0 /\ held = 0
  /\ cancelled = FALSE
  /\ bus = "unsure"

-----------------------------------------------------------------------------
Denials  == {"AccessDenied", "NotAuthorized"}
Absences == {"ServiceUnknown", "NameHasNoOwner"}

(* A fault: a denial is looked at like any other failure.                  *)
MapAllTemporary(name) == Error(name, "none", TRUE)

(* mapGeoClueError, for a named D-Bus error, a dead connection, or a       *)
(* cancelled context.                                                      *)
MapGeoClueError(name) ==
  IF name \in Denials THEN Error(name, "ErrPermissionDenied", FALSE)
  ELSE IF name \in Absences THEN Error(name, "ErrServiceUnavailable", TRUE)
  ELSE Error(name, "none", TRUE)

IsDenied(e) == e # <<>> /\ e[1].sentinel = "ErrPermissionDenied"

(* What a call to the service can come back with: nothing while it is      *)
(* silent, unless the connection dies or the context it carries is done.   *)
Replies(carriesContext) ==
  (IF ~ alive THEN {"Closed"} ELSE IF bus = "unsure" THEN DBusErrors ELSE {})
    \cup (IF carriesContext /\ cancelled THEN {"Canceled"} ELSE {})

Succeeds == alive /\ bus # "silent"

Goto(from, to) == pc = from /\ pc' = to

-----------------------------------------------------------------------------
(* connect: a private bus connection...                                    *)
Fresh == CHOOSE c \in 1 .. 3 : c \notin open \cup {held}

DialFails ==
  /\ bus # "well"
  /\ Goto("dial", "failed")
  /\ err' = Error("Dial", "ErrServiceUnavailable", TRUE)
  /\ UNCHANGED <<opts, phase, session, cancelled, ready, bus, sink>>

Dial ==
  /\ Goto("dial", "auth")
  /\ conn' = Fresh
  /\ open' = open \cup {conn'}
  /\ alive' = TRUE /\ signals' = 0
  /\ UNCHANGED <<opts, phase, err, todo, held, cancelled, ready, bus, sink>>

(* A fault: the connection is not given back.                              *)
Leaked == open

Closed == open \ {conn}

(* Auth and Hello; a connection that cannot get past them is given up for  *)
(* good.                                                                   *)
AuthFails ==
  /\ bus # "well"
  /\ Goto("auth", "failed")
  /\ err' = Error("Auth", "none", FALSE)
  /\ open' = Closed /\ conn' = 0 /\ alive' = FALSE
  /\ UNCHANGED <<opts, phase, todo, signals, held, cancelled, ready, bus, sink>>

(* The calls openSession makes: newClient, configure, subscribe.           *)
SetupCalls ==
  <<"GetClient", "DesktopId", "RequestedAccuracyLevel">>
    \o (IF opts.distance THEN <<"DistanceThreshold">> ELSE <<>>)
    \o (IF opts.interval THEN <<"TimeThreshold">> ELSE <<>>)
    \o <<"AddMatch", "Start">>

Auth ==
  /\ Goto("auth", "setup")
  /\ todo' = SetupCalls
  /\ UNCHANGED <<opts, phase, err, conn, open, alive, signals, held, cancelled, ready,
                 bus, sink>>

(* ...a configured client that is subscribed to and started. AddMatch is   *)
(* the daemon's to answer and carries no context.                          *)
OpenSession ==
  /\ pc = "setup"
  /\ IF Head(todo) = "AddMatch" THEN alive ELSE Succeeds
  /\ todo' = Tail(todo)
  /\ pc' = IF Len(todo) = 1 THEN "adopt" ELSE "setup"
  /\ UNCHANGED <<opts, phase, err, conn, open, alive, signals, held, cancelled, ready,
                 bus, sink>>

(* A failing call, an object path that is none included, closes the        *)
(* connection; it takes the signal channel with it.                        *)
OpenSessionFails ==
  /\ Goto("setup", "failed")
  /\ \/ Head(todo) = "AddMatch" /\ (alive => bus # "well") /\ err' = Error("AddMatch", "none", TRUE)
     \/ Head(todo) # "AddMatch" /\ \E name \in Replies(TRUE) : err' = MapGeoClueError(name)
  /\ open' = Closed /\ conn' = 0 /\ alive' = FALSE /\ todo' = <<>> /\ signals' = 0
  /\ UNCHANGED <<opts, phase, held, cancelled, ready, bus, sink>>

Adopt ==
  /\ Goto("adopt", "started")
  /\ held' = conn
  /\ UNCHANGED <<opts, phase, err, todo, conn, open, alive, signals, cancelled, ready,
                 bus, sink>>

PublishStarted ==
  /\ Goto("started", "initial")
  /\ Record("Starting", "Granted")
  /\ UNCHANGED <<opts, phase, err, session, cancelled, ready, bus, shut>>

Connected == IF phase = "dial" THEN "answer" ELSE "step"

(* publishInitialFix: the Location property is read without a context;     *)
(* there may be none, or the object behind it may not be readable.         *)
GetLocation ==
  /\ pc = "initial"
  /\ \/ Succeeds /\ pc' \in {Connected, "initialRead"}
     \/ Replies(FALSE) # {} /\ pc' = Connected
  /\ UNCHANGED <<opts, phase, err, session, cancelled, ready, bus, sink>>

PublishInitialFix ==
  /\ Goto("initialRead", Connected)
  /\ \/ Succeeds /\ (PublishFix \/ UNCHANGED status)
     \/ Replies(TRUE) # {} /\ UNCHANGED status
  /\ UNCHANGED <<opts, phase, err, session, cancelled, ready, bus, shut>>

-----------------------------------------------------------------------------
(* retry.Do around connect. A failure ends it when only one try is allowed *)
(* or another is not worth it or not wanted any more.                      *)
OnlyOnce == phase = "dial" /\ ~ opts.reconnect

(* A fault: a stop does not end the attempts.                              *)
MindsNoStop == OnlyOnce \/ ~ Retryable(err)

GivesUp == OnlyOnce \/ ~ Retryable(err) \/ cancelled

(* A fault: nobody is told.                                                *)
NothingToSay == UNCHANGED status

PublishReconnecting == Record("Reconnecting", "Unknown")

(* dialUntilReady's notification publishes a status, redial's the error.   *)
Backoff ==
  /\ Goto("failed", "wait")
  /\ ~ GivesUp
  /\ IF phase = "dial" THEN PublishReconnecting ELSE UNCHANGED status
  /\ UNCHANGED <<opts, phase, err, session, cancelled, ready, bus, shut>>

(* A fault: an attempt that succeeds reports the error before it.          *)
StaleError == err

NoError == <<>>

Retry ==
  /\ Goto("wait", "dial")
  /\ err' = NoError
  /\ UNCHANGED <<opts, phase, session, cancelled, ready, bus, sink>>

GiveUp ==
  /\ \/ pc = "failed" /\ GivesUp
     \/ pc = "wait" /\ cancelled
  /\ pc' = IF phase = "dial" THEN "answer" ELSE "over"
  /\ UNCHANGED <<opts, phase, err, session, cancelled, ready, bus, sink>>

(* run: Start gets its answer from a channel with room for it.             *)
Answer ==
  /\ pc = "answer"
  /\ ready' = <<err>>
  /\ pc' = IF err = <<>> THEN "step" ELSE "ended"
  /\ UNCHANGED <<opts, phase, err, session, cancelled, bus, sink>>

PublishDenied == Record("Disabled", "Denied")

(* redial: a run that is not being stopped says why it is over.            *)
RedialFailed ==
  /\ Goto("over", "ended")
  /\ IF ~ cancelled /\ IsDenied(err) THEN PublishDenied ELSE UNCHANGED status
  /\ UNCHANGED <<opts, phase, err, session, cancelled, ready, bus, shut>>

-----------------------------------------------------------------------------
(* session.step: whatever of this is the case, in no particular order.     *)
StepDone ==
  /\ cancelled
  /\ Goto("step", "close")
  /\ UNCHANGED <<opts, phase, err, session, cancelled, ready, bus, sink>>

(* A signal that is not an update is not this session's business.          *)
StepSignal ==
  /\ signals > 0
  /\ pc = "step" /\ pc' \in {"step", "read"}
  /\ signals' = signals - 1
  /\ UNCHANGED <<opts, phase, err, todo, conn, open, alive, held, cancelled, ready,
                 bus, sink>>

(* The channel is closed with the connection, behind what it still holds.  *)
StepClosed ==
  /\ ~ alive /\ signals = 0
  /\ Goto("step", "close")
  /\ UNCHANGED <<opts, phase, err, session, cancelled, ready, bus, sink>>

StepPing ==
  /\ Goto("step", "ping")
  /\ UNCHANGED <<opts, phase, err, session, cancelled, ready, bus, sink>>

Ping ==
  /\ pc = "ping"
  /\ \/ Succeeds /\ pc' = "step"
     \/ Replies(TRUE) # {} /\ pc' = "close"
  /\ UNCHANGED <<opts, phase, err, session, cancelled, ready, bus, sink>>

(* publishSignal: a location that cannot be read or decoded is an error.   *)
PublishSignal ==
  /\ Goto("read", "step")
  /\ \/ Succeeds /\ (PublishFix \/ UNCHANGED status)
     \/ Replies(TRUE) # {} /\ UNCHANGED status
  /\ UNCHANGED <<opts, phase, err, session, cancelled, ready, bus, shut>>

-----------------------------------------------------------------------------
(* session.close: the client is stopped, a call without a context, then    *)
(* the connection is closed, then forgotten under the lock.                *)
CloseStop ==
  /\ Goto("close", "closeConn")
  /\ Succeeds \/ Replies(FALSE) # {}
  /\ UNCHANGED <<opts, phase, err, session, cancelled, ready, bus, sink>>

CloseConn ==
  /\ Goto("closeConn", "forget")
  /\ open' = Closed
  /\ alive' = FALSE /\ signals' = 0
  /\ UNCHANGED <<opts, phase, err, todo, conn, held, cancelled, ready, bus, sink>>

(* A fault: the connection stays on record.                                *)
StillHeld == held

Released == IF held = conn THEN 0 ELSE held

Forget ==
  /\ Goto("forget", "lost")
  /\ held' = Released
  /\ conn' = 0
  /\ UNCHANGED <<opts, phase, err, todo, open, alive, signals, cancelled, ready, bus, sink>>

(* deliver, after the session: stopped, or lost for good, or to be rebuilt.*)
Stopped ==
  /\ cancelled
  /\ Goto("lost", "ended")
  /\ UNCHANGED <<opts, phase, err, session, cancelled, ready, bus, sink>>

PublishLost == Record("Unavailable", "Unknown")

Lost ==
  /\ ~ cancelled /\ ~ opts.reconnect
  /\ Goto("lost", "ended")
  /\ PublishLost
  /\ UNCHANGED <<opts, phase, err, session, cancelled, ready, bus, shut>>

Redial ==
  /\ ~ cancelled /\ opts.reconnect
  /\ Goto("lost", "dial")
  /\ phase' = "redial"
  /\ PublishReconnecting
  /\ UNCHANGED <<opts, err, session, cancelled, ready, bus, shut>>

Run ==
  \/ DialFails \/ Dial \/ AuthFails \/ Auth \/ OpenSession \/ OpenSessionFails
  \/ Adopt \/ PublishStarted \/ GetLocation \/ PublishInitialFix
  \/ Backoff \/ Retry \/ GiveUp \/ Answer \/ RedialFailed
  \/ StepDone \/ StepSignal \/ StepClosed \/ StepPing \/ Ping \/ PublishSignal
  \/ CloseStop \/ CloseConn \/ Forget \/ Stopped \/ Lost \/ Redial

-----------------------------------------------------------------------------
(* The bus: a client that is started and matched emits signals, any        *)
(* connection may die, the service may fall silent.                        *)
Signal ==
  /\ alive /\ bus # "silent" /\ todo = <<>> /\ conn # 0 /\ pc # "auth"
  /\ signals < MaxSignals
  /\ signals' = signals + 1
  /\ UNCHANGED <<opts, pc, phase, err, todo, conn, open, alive, held, cancelled, ready,
                 bus, sink>>

Die ==
  /\ alive /\ bus # "well"
  /\ alive' = FALSE
  /\ UNCHANGED <<opts, pc, phase, err, todo, conn, open, signals, held, cancelled, ready,
                 bus, sink>>

FallSilent == bus = "unsure" /\ bus' = "silent" /\ UNCHANGED <<backend, cancelled, sink>>

Recover == bus = "unsure" /\ bus' = "well" /\ UNCHANGED <<backend, cancelled, sink>>

Bus == Signal \/ Die \/ FallSilent \/ Recover
=============================================================================
