-------------------------------- MODULE Open --------------------------------
(***************************************************************************)
(* A session from Open to Close: the caller's Config is resolved, a service*)
(* is built around the provider of the platform, and the provider started  *)
(* within the start timeout; a start-up that fails is torn down the way a  *)
(* Close would. The caller's goroutine runs beside the threads of the      *)
(* provider, which modules GeoClue, CoreLocation and WinRT describe, and   *)
(* what their systems do.                                                  *)
(*                                                                         *)
(* StartTimeout is positive in every resolved Config, so a start-up that   *)
(* hangs does time out; the caller's own context may end it any time.      *)
(***************************************************************************)
EXTENDS GeoClue, CoreLocation, WinRT, Config

CONSTANTS Configs,   \* the configurations Open may be called with
          Platforms  \* the platforms the program may be built for

ASSUME ConfigsAssumption == Configs \subseteq Settings

ASSUME PlatformsAssumption == Platforms \subseteq {"linux", "darwin", "windows", "other"}

VARIABLES
  platform, \* the platform the program is built for
  caller,   \* how far Open, or Close after it, has come
  given,    \* the Config Open is called with, until it is resolved
  used,     \* what normalizeConfig makes of it, or nothing
  target    \* the connection GeoClue's Stop read under the lock, 0 for nil

callerVars == <<platform, caller, given, used, target>>
vars == <<port, sink, geoClueVars, coreVars, winVars, callerVars>>

Init ==
  /\ ProviderInit /\ GeoClueInit /\ CoreInit /\ WinInit
  /\ platform \in Platforms
  /\ caller = "idle" /\ given = Zero /\ used = <<>> /\ target = 0

Proceed(from, to) == caller = from /\ caller' = to

-----------------------------------------------------------------------------
(* open. A rejected configuration touches nothing.                         *)
Normalize(c) ==
  /\ caller = "idle"
  /\ given' = c
  /\ used' = NormalizeConfig(c)
  /\ caller' = IF used' = <<>> THEN "rejected" ELSE "normalized"
  /\ UNCHANGED <<port, sink, geoClueVars, coreVars, winVars, platform, target>>

(* A nil context is turned away before anything else.                      *)
NilContext ==
  /\ Proceed("idle", "unopened")
  /\ UNCHANGED <<port, sink, geoClueVars, coreVars, winVars, platform, given, used, target>>

(* The factory of the platform: there may be none, or its framework may be *)
(* missing. Then nothing is attached, and nothing is there to close.       *)
FactoryFails ==
  /\ platform \in {"darwin", "other"}
  /\ Proceed("normalized", "unopened")
  /\ given' = Zero /\ used' = <<>>
  /\ UNCHANGED <<port, sink, geoClueVars, coreVars, winVars, platform, target>>

(* The options each adapter is handed, as far as it branches on them.      *)
ProviderOptions(c) ==
  CASE platform = "linux" ->
         [Unset EXCEPT !.reconnect = c.reconnect, !.distance = c.minimumDistance > 0,
                       !.interval = c.minimumInterval > 0]
    [] platform = "darwin" ->
         [Unset EXCEPT !.ask = c.permission # PermissionDoNotRequest]
    [] platform = "windows" ->
         [Unset EXCEPT !.ask = c.permission # PermissionDoNotRequest,
                       !.meters = c.desiredAccuracy > 0, !.interval = c.minimumInterval > 0]

(* service.Start: GeoClue and CoreLocation start their goroutine, WinRT's  *)
(* Start does the work itself.                                             *)
StartNative ==
  /\ platform # "other"
  /\ Proceed("normalized", "starting")
  /\ opts' = ProviderOptions(used[1])
  /\ CASE platform = "linux" ->
            pc' = "dial" /\ UNCHANGED <<thread, line, rest>>
       [] platform = "darwin" ->
            thread' = "open" /\ UNCHANGED <<pc, line, rest>>
       [] platform = "windows" ->
            /\ IF opts'.ask THEN line' = "ask" /\ UNCHANGED rest
               ELSE line' = "build" /\ rest' = BuildSteps'
            /\ UNCHANGED <<pc, thread>>
  /\ given' = Zero /\ used' = <<>>
  /\ UNCHANGED <<ready, sink, phase, err, session, cancelled, bus,
                 seen, nativeSession, stopCh, mac, newest,
                 owned, stuck, adopted, read, requests, publishers, platform, target>>

Started ==
  /\ caller = "starting" /\ ready # <<>>
  /\ caller' = IF ready[1] = <<>> THEN "opened" ELSE "failed"
  /\ ready' = <<>>
  /\ UNCHANGED <<opts, sink, geoClueVars, coreVars, winVars, platform, given, used, target>>

(* startCtx is done first, or at the same time: select takes either. Two   *)
(* Starts tell their goroutine to stop and wait for it; WinRT's looks at   *)
(* the context where it waits.                                             *)
StartExpired ==
  \/ /\ platform = "linux"
     /\ Proceed("starting", "abandoned")
     /\ cancelled' = TRUE
     /\ UNCHANGED <<port, sink, pc, phase, err, session, bus, coreVars, winVars, platform,
                    given, used, target>>
  \/ /\ platform = "darwin"
     /\ Proceed("starting", "abandoned")
     /\ stopCh' = TRUE
     /\ UNCHANGED <<port, sink, geoClueVars, thread, seen, nativeSession, mac, newest,
                    winVars, platform, given, used, target>>
  \/ /\ platform = "windows" /\ caller = "starting" /\ ~ expired
     /\ expired' = TRUE
     /\ UNCHANGED <<port, sink, geoClueVars, coreVars, startStop, access, asker, publishers,
                    callerVars>>

(* A fault: not waiting for the goroutine.                                 *)
NoWait == TRUE

RunOver ==
  CASE platform = "linux"   -> pc = "ended"
    [] platform = "darwin"  -> thread = "gone"
    [] platform = "windows" -> line = "over"
    [] OTHER                -> TRUE

Abandoned ==
  /\ RunOver
  /\ Proceed("abandoned", "failed")
  /\ UNCHANGED <<port, sink, geoClueVars, coreVars, winVars, platform, given, used, target>>

-----------------------------------------------------------------------------
(* The teardown of a Close by the caller, or by an Open that failed.       *)
Teardown ==
  /\ caller \in {"opened", "failed"}
  /\ caller' = "cancel"
  /\ shut' = TRUE
  /\ UNCHANGED <<port, status, geoClueVars, coreVars, winVars, platform, given, used, target>>

(* The provider's Stop. GeoClue's cancels the run, and calls the service.  *)
StopCancel ==
  /\ platform = "linux"
  /\ Proceed("cancel", "take")
  /\ cancelled' = TRUE
  /\ UNCHANGED <<port, sink, pc, phase, err, session, bus, coreVars, winVars, platform,
                 given, used, target>>

StopTake ==
  /\ caller = "take"
  /\ target' = held
  /\ caller' = IF held # 0 THEN "call" ELSE "wait"
  /\ UNCHANGED <<port, sink, geoClueVars, coreVars, winVars, platform, given, used>>

(* Stop is called without a context.                                       *)
StopCall ==
  /\ Proceed("call", "wait")
  /\ bus # "silent" \/ target \notin open \/ ~ alive
  /\ target' = 0
  /\ UNCHANGED <<port, sink, geoClueVars, coreVars, winVars, platform, given, used>>

(* CoreLocation's closes stopCh; the guard lets only the first one do it.  *)
StopSpin ==
  /\ platform = "darwin"
  /\ Proceed("cancel", "wait")
  /\ stopCh' = TRUE
  /\ UNCHANGED <<port, sink, geoClueVars, thread, seen, nativeSession, mac, newest, winVars,
                 platform, given, used, target>>

(* WinRT's takes the session apart.                                        *)
StopTeardown ==
  /\ platform = "windows"
  /\ Proceed("cancel", "wait")
  /\ TakeSession
  /\ UNCHANGED <<geoClueVars, coreVars, platform, given, used, target>>

(* Stop returns; Closed is recorded past the closed flag.                  *)
StopWait ==
  /\ RunOver
  /\ Proceed("wait", "closed")
  /\ status' = [status EXCEPT !.state = "Closed"]
  /\ UNCHANGED <<port, shut, geoClueVars, coreVars, winVars, platform, given, used, target>>

-----------------------------------------------------------------------------
Opening == StartNative \/ Started \/ Abandoned
Closing == StopCancel \/ StopTake \/ StopCall \/ StopSpin \/ StopTeardown \/ StopWait

Linux  == UNCHANGED <<coreVars, winVars, callerVars>>
Darwin == UNCHANGED <<geoClueVars, winVars, callerVars>>
WinNT  == UNCHANGED <<geoClueVars, coreVars, callerVars>>

System ==
  \/ platform = "linux" /\ Bus /\ Linux
  \/ platform = "darwin" /\ (Callback \/ Authorize) /\ Darwin
  \/ platform = "windows" /\ Windows /\ WinNT

Next ==
  \/ \E c \in Configs : Normalize(c)
  \/ NilContext \/ FactoryFails \/ Opening \/ StartExpired
  \/ Teardown \/ Closing
  \/ Run /\ Linux
  \/ Thread /\ Darwin
  \/ (StartOrStop \/ Callbacks \/ SendAnswer) /\ WinNT
  \/ System

Spec == Init /\ [][Next]_vars

(* Every goroutine runs, start-up times out, a failed Open tears down, and *)
(* a select that finds the context done, or the channel closed, again and  *)
(* again does take that branch. Of the systems nothing is assumed, but     *)
(* that a turn of the run loop is over when its time is.                   *)
Fairness ==
  /\ WF_vars(Opening) /\ WF_vars(StartExpired) /\ WF_vars(Closing)
  /\ WF_vars(caller = "failed" /\ Teardown)
  /\ WF_vars(Run /\ Linux) /\ SF_vars(StepDone /\ Linux) /\ SF_vars(StepClosed /\ Linux)
  /\ WF_vars(Thread /\ Darwin)
  /\ WF_vars(StartOrStop /\ WinNT) /\ WF_vars(SendAnswer /\ WinNT)

FairSpec == Spec /\ Fairness

-----------------------------------------------------------------------------
Dialling == {"off", "dial", "failed", "wait", "over", "lost", "ended"}
InSession == {"adopt", "started", "initial", "initialRead", "step", "ping", "read",
              "close", "closeConn", "forget"}

GeoClueTypeOK ==
  /\ pc \in Dialling \cup InSession \cup {"auth", "setup", "answer"}
  /\ phase \in {"dial", "redial"}
  /\ (pc = "setup") = (todo # <<>>)
  /\ pc \in InSession \cup {"auth", "setup"} => err = <<>>
  /\ pc \in {"failed", "over"} => err # <<>>
  /\ conn \in 0 .. 3 /\ open \subseteq 1 .. 3 /\ held \in 0 .. 3 /\ target \in 0 .. 3
  /\ alive \in BOOLEAN /\ signals \in 0 .. MaxSignals /\ cancelled \in BOOLEAN
  /\ bus \in {"unsure", "well", "silent"}

CoreTypeOK ==
  /\ thread \in {"off", "open", "created", "read", "publish", "request", "live", "check",
                 "turn", "publishQueued", "close", "gone"}
  /\ made \subseteq Objects /\ (listening => made = Objects)
  /\ (thread \in {"off", "open", "gone"} => made = {}) /\ Queued <= MaxCallbacks
  /\ authorization \in Authorizations /\ seen \in Authorizations \cup {0}
  /\ changed \in BOOLEAN /\ stopCh \in BOOLEAN

WinTypeOK ==
  /\ line \in {"out", "ask", "request", "await", "build", "unwind", "adopted", "status",
               "initial", "up", "failed", "teardown", "over"}
  /\ rest # {} => line \in {"build", "unwind", "teardown"}
  /\ owned \subseteq Resources /\ stuck \subseteq owned \cap Tokens
  /\ adopted => owned = Resources
  /\ asker \in {"none", "waiting", "answered", "ended"}
  /\ asker \in {"answered", "ended"} => access # <<>>
  /\ awaiting \in BOOLEAN /\ expired \in BOOLEAN /\ passed \subseteq {"reader", "handler"}
  /\ os \in Statuses

(* Every variable has its type, and a goroutine that has a session carries *)
(* no error (geoclue.go: retry.Do returns a session or an error).          *)
TypeOK ==
  /\ DOMAIN opts = DOMAIN Unset /\ shut \in BOOLEAN
  /\ status \in [state : {"Starting", "Ready", "Reconnecting", "Unavailable",
                          "Disabled", "Closed"},
                 permission : {"Unknown", "PromptRequired", "Granted", "Denied",
                               "Restricted"}]
  /\ caller \in {"idle", "rejected", "normalized", "unopened", "starting", "abandoned",
                 "failed", "opened", "cancel", "take", "call", "wait", "closed"}
  /\ GeoClueTypeOK /\ CoreTypeOK /\ WinTypeOK

(* A Config that is accepted is the caller's where he set a field and      *)
(* DefaultConfig where he did not (config.go:98) - but for Reconnect, a    *)
(* bool nobody fills in: README.md:209, "A zero Config{} is equivalent to  *)
(* DefaultConfig()", is not so, as a session opened with the zero Config   *)
(* does not reconnect. What is used is in range throughout, resolving it   *)
(* again changes nothing, and the zero Config is accepted (config.go:28).  *)
ConfigResolved ==
  /\ caller = "rejected" => given # Zero
  /\ used # <<>> =>
       LET c == used[1] IN
       /\ \A k \in DOMAIN given :
            /\ given[k] # Zero[k] => c[k] = given[k]
            /\ given[k] = Zero[k] /\ k # "reconnect" => c[k] = DefaultConfig[k]
       /\ c.minimumInterval > 0 /\ c.maximumAge > 0 /\ c.startTimeout > 0
       /\ c.buffer > 0 /\ c.policy # DropDefault
       /\ c.reconnectMin > 0 /\ c.reconnectMax >= c.reconnectMin
       /\ NormalizeConfig(c) = used

(* However often a session is lost, set up in part or rebuilt, there is    *)
(* one bus connection at most, and none while the goroutine has no session *)
(* (geoclue.go:312 and 634: every path that gives a session up closes it). *)
OneConnection ==
  /\ \A c, d \in open : c = d
  /\ pc \in Dialling => open = {}

(* What Stop finds to call is the connection the goroutine works with now, *)
(* never one it has given up (geoclue.go:622).                             *)
HeldIsOwn == held # 0 => held = conn

(* After Close, or an Open that failed, the provider's thread is gone and  *)
(* nothing is left behind: no connection, no object of the framework, no   *)
(* event, but one that could not be removed. Where Stop waits for whoever  *)
(* publishes, the status stays Closed (location.go:66).                    *)
ClosedIsClean ==
  caller = "closed" =>
    /\ RunOver
    /\ open = {} /\ held = 0
    /\ made = {} /\ ~ listening
    /\ owned \subseteq stuck /\ ~ adopted
    /\ platform # "windows" => status.state = "Closed"

(* Ready is shown only while there is a session to deliver fixes, or one   *)
(* just lost: a loss is told before the next attempt (geoclue.go:245). And *)
(* a session that was opened ends by itself only if it may not reconnect,  *)
(* which is told (geoclue.go:240), or was refused, or the bus will not     *)
(* have it.                                                                *)
LossIsTold ==
  platform = "linux" =>
    /\ status.state = "Ready" /\ ~ shut /\ ~ cancelled => pc \in InSession \cup {"answer", "lost"}
    /\ caller = "opened" /\ pc = "ended" =>
         IF opts.reconnect THEN err # <<>> /\ ~ err[1].temporary
         ELSE status.state = "Unavailable"

(* A refusal is never waited out and tried again, and the user of a        *)
(* session that is refused while it reconnects is told: Disabled, Denied   *)
(* (geoclue.go:205 and 273).                                               *)
RefusalIsFinal ==
  err # <<>> /\ err[1].name \in Denials =>
    /\ pc # "wait"
    /\ caller = "opened" /\ pc = "ended" =>
         status.state = "Disabled" /\ status.permission = "Denied"

(* However callbacks of several kinds met in a turn of the run loop, once  *)
(* they are published the status says what access the application has, if  *)
(* the delegate has been told: granted, or disabled and why                *)
(* (corelocation.go:532 publishes by kind, not in the order of arrival).   *)
PermissionIsCurrent ==
  platform = "darwin" /\ thread = "check" /\ ~ changed /\ ~ shut =>
    /\ authorization \in 1 .. 2 =>
         status.state = "Disabled" /\ status.permission \in {"Denied", "Restricted"}
    /\ authorization \in 3 .. 4 =>
         status.state \in {"Starting", "Ready"} /\ status.permission = "Granted"

(* While an event is registered its handler and the Geolocator live: the   *)
(* system never calls a handler that is closed, whether a build that fails *)
(* half way is unwound or Stop takes the session apart (winrt.go:249 and   *)
(* 298), unless the event could not be removed.                            *)
EventsHaveHandlers ==
  /\ "positionToken" \in owned \ stuck => {"positionEvent", "locator"} \subseteq owned
  /\ "statusToken" \in owned \ stuck => {"statusEvent", "locator"} \subseteq owned

(* README.md:313 has Reconnecting mean "Connection lost, retrying".        *)
ReconnectingIsRetrying ==
  platform = "linux" /\ caller = "opened" /\ status.state = "Reconnecting" => pc # "ended"

(* geo/status.go:10 has it that "StateClosed is terminal".                 *)
ClosedIsTerminal == caller = "closed" => status.state = "Closed"

(* README.md:311 has Starting mean "Provider starting, or waiting on a     *)
(* permission prompt": not that it delivers fixes, the last thing it did.  *)
StartingIsWaiting ==
  platform = "darwin" /\ caller = "opened" /\ thread = "check" /\ newest = "locations" =>
    status.state # "Starting"

-----------------------------------------------------------------------------
(* Open blocks until the provider starts or StartTimeout elapses           *)
(* (README.md:173).                                                        *)
OpenReturns == caller = "starting" ~> caller \in {"opened", "closed"}

CloseReturns == caller = "cancel" ~> caller = "closed"

(* As long as the GeoClue service answers its calls, Open and Close return *)
(* on every platform, whatever the user does about a prompt.               *)
ReturnsIfAnswered == [](bus # "silent") => OpenReturns /\ CloseReturns

(* A session lost for a reason that may pass is rebuilt once the bus and   *)
(* the service are well, unless it is closed (config.go:64).               *)
Reconnects ==
  (/\ bus = "well" /\ phase = "redial" /\ pc \in {"dial", "failed", "wait"}
   /\ err # <<>> => err[1].temporary)
    ~> pc = "step" \/ cancelled

(* The goroutine that waits for the user's answer is not left behind when  *)
(* Start gave up waiting for it (winrt.go:335, the channel's one slot).    *)
RequestEnds == asker = "answered" ~> asker = "ended"
=============================================================================
