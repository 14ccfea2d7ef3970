----------------------------- MODULE OpenProofs -----------------------------
(***************************************************************************)
(* Open, its session and Close for any configurations, any errors the bus  *)
(* may answer with, any values of an authorization or a location status,   *)
(* and however many signals or callbacks may queue.                        *)
(***************************************************************************)
EXTENDS Open, TLAPS

Early  == {"idle", "rejected", "normalized", "unopened"}
Active == {"starting", "opened"}
Callers == Early \cup Active \cup {"abandoned", "failed", "cancel", "take", "call", "wait",
                                   "closed"}

(* A platform's part of the state moves only on that platform, and only    *)
(* once a provider has been started. What has been told to stop is neither *)
(* being opened nor open.                                                  *)
CallerInv ==
  /\ caller \in Callers /\ platform \in {"linux", "darwin", "windows", "other"}
  /\ platform # "linux" => pc = "off"
  /\ platform # "darwin" => thread = "off"
  /\ platform # "windows" => line = "out" /\ ~ awaiting /\ passed = {} /\ event = <<>>
  /\ caller \in Early => /\ pc = "off" /\ thread = "off" /\ line = "out"
                         /\ ready = <<>>
                         /\ platform = "linux" => status.state # "Ready"
  /\ caller \notin Early => platform # "other"
  /\ cancelled \/ shut => caller \notin Early \cup Active
  /\ caller = "closed" =>
       RunOver /\ (platform # "windows" => status.state = "Closed")

-----------------------------------------------------------------------------
(* GeoClue. Whether there is a connection follows from where the goroutine *)
(* is and whether it carries an error, and so does whether one is held.    *)
NoSession == pc \in Dialling \/ (pc = "answer" /\ err # <<>>)

ConnInv ==
  /\ pc \in Dialling \cup InSession \cup {"auth", "setup", "answer"}
  /\ pc \in InSession \cup {"auth", "setup", "off", "dial", "lost"} => err = <<>>
  /\ pc \in {"failed", "wait", "over"} => err # <<>>
  /\ NoSession => conn = 0 /\ open = {} /\ held = 0
  /\ ~ NoSession => conn \in 1 .. 3 /\ open \subseteq {conn}
  /\ pc = "forget" => open = {}
  /\ pc \in {"auth", "setup", "adopt"} => held = 0
  /\ held \in {0, conn}

(* A denial is one whoever looks at it, and will not pass.                 *)
Sound(e) ==
  /\ e[1].temporary \in BOOLEAN
  /\ e[1].name \in Denials => e[1].sentinel = "ErrPermissionDenied"
  /\ e[1].sentinel = "ErrPermissionDenied" => e[1].temporary = FALSE
  /\ e[1].sentinel # "ErrPermissionNeeded"

ErrorInv == err # <<>> => Sound(err)

(* Start is answered once, by the first outcome.                           *)
Unanswered ==
  \/ pc = "answer"
  \/ phase = "dial" /\ pc \in {"dial", "failed", "wait", "auth", "setup", "adopt",
                               "started", "initial", "initialRead"}

DialInv ==
  /\ pc = "off" => phase = "dial"
  /\ phase \in {"dial", "redial"}
  /\ pc = "wait" => Retryable(err)
  /\ phase = "redial" => opts.reconnect
  /\ pc = "over" => phase = "redial" /\ (cancelled \/ ~ Retryable(err))
  /\ Unanswered => ready = <<>> /\ caller \in {"starting", "abandoned"}

(* How a session ends that was opened, or is about to be: with an outcome  *)
(* that fails Open, or told.                                               *)
EndTold ==
  IF opts.reconnect
  THEN /\ err # <<>> /\ err[1].temporary = FALSE
       /\ err[1].name \in Denials => status.state = "Disabled" /\ status.permission = "Denied"
  ELSE err = <<>> /\ status.state = "Unavailable"

TellInv ==
  /\ pc = "ended" /\ caller \in Active =>
       \/ caller = "starting" /\ err # <<>> /\ ready = <<err>>
       \/ EndTold
  /\ platform = "linux" /\ status.state = "Ready" /\ ~ shut /\ ~ cancelled =>
       pc = "lost" \/ (~ NoSession /\ pc \notin {"auth", "setup"})

-----------------------------------------------------------------------------
(* CoreLocation: what the thread has made follows from where it is.        *)
CoreInv ==
  /\ thread \in {"off", "open", "gone"} => made = {} /\ ~ listening
  /\ thread = "created" => ~ listening

(* WinRT. A build has gone as far as its order says, and owns what it has  *)
(* made; an unwinding owns what it has left to give back and what is stuck.*)
InOrder(steps, order) ==
  \A i, j \in DOMAIN order :
    i < j /\ order[i] \in steps /\ order[j] \in Resources => order[j] \in steps

WinInv ==
  /\ stuck \subseteq Tokens
  /\ line \in {"out", "ask", "request", "await"} =>
       rest = {} /\ owned = {} /\ stuck = {} /\ ~ adopted
  /\ line = "build" =>
       InOrder(rest, BuildOrder) /\ owned = Resources \ rest /\ stuck = {} /\ ~ adopted
  /\ line \in {"adopted", "status", "initial", "up"} =>
       rest = {} /\ owned = Resources /\ stuck = {} /\ adopted
  /\ line \in {"unwind", "teardown"} =>
       owned = rest \cup stuck /\ rest \cap stuck = {} /\ rest \subseteq Resources /\ ~ adopted
  /\ line \in {"failed", "over"} => owned = stuck /\ rest = {} /\ ~ adopted
  /\ line \in {"out", "ask", "request", "await", "build", "adopted", "status", "initial",
               "up", "unwind", "teardown", "failed", "over"}

(* What every reachable state satisfies.                                   *)
OpenInv ==
  CallerInv /\ ConnInv /\ ErrorInv /\ DialInv /\ TellInv /\ CoreInv /\ WinInv /\ EventsHaveHandlers

(* A failing call is always told as an error, and a denial as one.         *)
LEMMA MappedError ==
  ASSUME NEW name
  PROVE  MapGeoClueError(name) # <<>> /\ Sound(MapGeoClueError(name))
BY DEF MapGeoClueError, Error, Sound, Denials, Absences

(* So a set-up that fails leaves one behind.                               *)
LEMMA SetupError ==
  ASSUME OpenSessionFails
  PROVE  err' # <<>> /\ Sound(err')
<1>1. CASE Head(todo) = "AddMatch"
  <2>1. err' = Error("AddMatch", "none", TRUE)
    BY <1>1 DEF OpenSessionFails
  <2>2. QED
    BY <2>1 DEF Error, Sound, Denials
<1>2. CASE Head(todo) # "AddMatch"
  <2>1. PICK name \in Replies(TRUE) : err' = MapGeoClueError(name)
    BY <1>2 DEF OpenSessionFails
  <2>2. QED
    BY <2>1, MappedError
<1>3. QED
  BY <1>1, <1>2

(* Every step of the run goroutine keeps its connection on record.         *)
LEMMA ConnStep ==
  ASSUME ConnInv, Run
  PROVE  ConnInv'
<1> USE DEF ConnInv, NoSession, Dialling, InSession, Goto, session
<1>1. CASE DialFails
  BY <1>1 DEF DialFails, Error
<1>2. CASE Dial
  BY <1>2 DEF Dial, Fresh
<1>3. CASE AuthFails
  BY <1>3 DEF AuthFails, Closed, Error
<1>4. CASE Auth
  BY <1>4 DEF Auth
<1>5. CASE OpenSession
  BY <1>5 DEF OpenSession
<1>6. CASE OpenSessionFails
  BY <1>6, SetupError DEF OpenSessionFails, Closed
<1>7. CASE Adopt
  BY <1>7 DEF Adopt
<1>8. CASE PublishStarted
  BY <1>8 DEF PublishStarted
<1>9. CASE GetLocation
  BY <1>9 DEF GetLocation, Connected
<1>10. CASE PublishInitialFix
  BY <1>10 DEF PublishInitialFix, Connected
<1>11. CASE Backoff
  BY <1>11 DEF Backoff
<1>12. CASE Retry
  BY <1>12 DEF Retry, NoError
<1>13. CASE GiveUp
  BY <1>13 DEF GiveUp
<1>14. CASE Answer
  BY <1>14 DEF Answer
<1>15. CASE RedialFailed
  BY <1>15 DEF RedialFailed
<1>16. CASE StepDone
  BY <1>16 DEF StepDone
<1>17. CASE StepSignal
  BY <1>17 DEF StepSignal
<1>18. CASE StepClosed
  BY <1>18 DEF StepClosed
<1>19. CASE StepPing
  BY <1>19 DEF StepPing
<1>20. CASE Ping
  BY <1>20 DEF Ping
<1>21. CASE PublishSignal
  BY <1>21 DEF PublishSignal
<1>22. CASE CloseStop
  BY <1>22 DEF CloseStop
<1>23. CASE CloseConn
  BY <1>23 DEF CloseConn, Closed
<1>24. CASE Forget
  BY <1>24 DEF Forget, Released
<1>25. CASE Stopped
  BY <1>25 DEF Stopped
<1>26. CASE Lost
  BY <1>26 DEF Lost
<1>27. CASE Redial
  BY <1>27 DEF Redial
<1>28. QED
  BY <1>1, <1>2, <1>3, <1>4, <1>5, <1>6, <1>7, <1>8, <1>9, <1>10, <1>11,
     <1>12, <1>13, <1>14, <1>15, <1>16, <1>17, <1>18, <1>19, <1>20, <1>21,
     <1>22, <1>23, <1>24, <1>25, <1>26, <1>27 DEF Run

(* Whatever a call is answered with, a denial is known for one.            *)
LEMMA ErrorStep ==
  ASSUME ErrorInv, Run
  PROVE  ErrorInv'
<1> USE DEF ErrorInv, Goto, session
<1>1. CASE DialFails
  BY <1>1 DEF DialFails, Error, Denials, Sound
<1>2. CASE Dial
  BY <1>2 DEF Dial, Fresh
<1>3. CASE AuthFails
  BY <1>3 DEF AuthFails, Closed, Error, Denials, Sound
<1>4. CASE Auth
  BY <1>4 DEF Auth
<1>5. CASE OpenSession
  BY <1>5 DEF OpenSession
<1>6. CASE OpenSessionFails
  BY <1>6, SetupError
<1>7. CASE Adopt
  BY <1>7 DEF Adopt
<1>8. CASE PublishStarted
  BY <1>8 DEF PublishStarted
<1>9. CASE GetLocation
  BY <1>9 DEF GetLocation, Connected
<1>10. CASE PublishInitialFix
  BY <1>10 DEF PublishInitialFix, Connected
<1>11. CASE Backoff
  BY <1>11 DEF Backoff
<1>12. CASE Retry
  BY <1>12 DEF Retry, NoError
<1>13. CASE GiveUp
  BY <1>13 DEF GiveUp
<1>14. CASE Answer
  BY <1>14 DEF Answer
<1>15. CASE RedialFailed
  BY <1>15 DEF RedialFailed
<1>16. CASE StepDone
  BY <1>16 DEF StepDone
<1>17. CASE StepSignal
  BY <1>17 DEF StepSignal
<1>18. CASE StepClosed
  BY <1>18 DEF StepClosed
<1>19. CASE StepPing
  BY <1>19 DEF StepPing
<1>20. CASE Ping
  BY <1>20 DEF Ping
<1>21. CASE PublishSignal
  BY <1>21 DEF PublishSignal
<1>22. CASE CloseStop
  BY <1>22 DEF CloseStop
<1>23. CASE CloseConn
  BY <1>23 DEF CloseConn, Closed
<1>24. CASE Forget
  BY <1>24 DEF Forget, Released
<1>25. CASE Stopped
  BY <1>25 DEF Stopped
<1>26. CASE Lost
  BY <1>26 DEF Lost
<1>27. CASE Redial
  BY <1>27 DEF Redial
<1>28. QED
  BY <1>1, <1>2, <1>3, <1>4, <1>5, <1>6, <1>7, <1>8, <1>9, <1>10, <1>11,
     <1>12, <1>13, <1>14, <1>15, <1>16, <1>17, <1>18, <1>19, <1>20, <1>21,
     <1>22, <1>23, <1>24, <1>25, <1>26, <1>27 DEF Run

(* What the goroutine dials for follows from what it has answered.         *)
LEMMA DialStep ==
  ASSUME ConnInv, DialInv, CallerInv, platform = "linux", Run, Linux
  PROVE  DialInv'
<1> USE DEF ConnInv, NoSession, DialInv, CallerInv, Unanswered, Dialling,
            InSession, Goto, session, Linux, callerVars
<1>1. CASE DialFails
  BY <1>1 DEF DialFails, Error
<1>2. CASE Dial
  BY <1>2 DEF Dial, Fresh
<1>3. CASE AuthFails
  BY <1>3 DEF AuthFails, Closed, Error
<1>4. CASE Auth
  BY <1>4 DEF Auth
<1>5. CASE OpenSession
  BY <1>5 DEF OpenSession
<1>6. CASE OpenSessionFails
  BY <1>6 DEF OpenSessionFails, Closed, Error, MapGeoClueError
<1>7. CASE Adopt
  BY <1>7 DEF Adopt
<1>8. CASE PublishStarted
  BY <1>8 DEF PublishStarted
<1>9. CASE GetLocation
  BY <1>9 DEF GetLocation, Connected
<1>10. CASE PublishInitialFix
  BY <1>10 DEF PublishInitialFix, Connected
<1>11. CASE Backoff
  BY <1>11 DEF Backoff, GivesUp, OnlyOnce, Retryable
<1>12. CASE Retry
  BY <1>12 DEF Retry, NoError
<1>13. CASE GiveUp
  BY <1>13 DEF GiveUp, GivesUp, OnlyOnce, Retryable
<1>14. CASE Answer
  BY <1>14 DEF Answer
<1>15. CASE RedialFailed
  BY <1>15 DEF RedialFailed
<1>16. CASE StepDone
  BY <1>16 DEF StepDone
<1>17. CASE StepSignal
  BY <1>17 DEF StepSignal
<1>18. CASE StepClosed
  BY <1>18 DEF StepClosed
<1>19. CASE StepPing
  BY <1>19 DEF StepPing
<1>20. CASE Ping
  BY <1>20 DEF Ping
<1>21. CASE PublishSignal
  BY <1>21 DEF PublishSignal
<1>22. CASE CloseStop
  BY <1>22 DEF CloseStop
<1>23. CASE CloseConn
  BY <1>23 DEF CloseConn, Closed
<1>24. CASE Forget
  BY <1>24 DEF Forget, Released
<1>25. CASE Stopped
  BY <1>25 DEF Stopped
<1>26. CASE Lost
  BY <1>26 DEF Lost
<1>27. CASE Redial
  BY <1>27 DEF Redial
<1>28. QED
  BY <1>1, <1>2, <1>3, <1>4, <1>5, <1>6, <1>7, <1>8, <1>9, <1>10, <1>11,
     <1>12, <1>13, <1>14, <1>15, <1>16, <1>17, <1>18, <1>19, <1>20, <1>21,
     <1>22, <1>23, <1>24, <1>25, <1>26, <1>27 DEF Run

(* And how it ends, or that it has a session to be ready over.             *)
LEMMA TellStep ==
  ASSUME ConnInv, ErrorInv, DialInv, TellInv, CallerInv, platform = "linux", Run, Linux
  PROVE  TellInv'
<1> USE DEF ConnInv, NoSession, DialInv, CallerInv, TellInv, EndTold,
            Active, Dialling, InSession, Goto, session, Linux, callerVars,
            Record, Reported, sink
<1>1. CASE DialFails
  BY <1>1 DEF DialFails, Error
<1>2. CASE Dial
  BY <1>2 DEF Dial, Fresh
<1>3. CASE AuthFails
  BY <1>3 DEF AuthFails, Closed, Error
<1>4. CASE Auth
  BY <1>4 DEF Auth
<1>5. CASE OpenSession
  BY <1>5 DEF OpenSession
<1>6. CASE OpenSessionFails
  BY <1>6 DEF OpenSessionFails, Closed, Error, MapGeoClueError
<1>7. CASE Adopt
  BY <1>7 DEF Adopt
<1>8. CASE PublishStarted
  BY <1>8 DEF PublishStarted
<1>9. CASE GetLocation
  BY <1>9 DEF GetLocation, Connected
<1>10. CASE PublishInitialFix
  BY <1>10 DEF PublishInitialFix, Connected, PublishFix, MarkReady, Readied
<1>11. CASE Backoff
  BY <1>11 DEF Backoff, PublishReconnecting
<1>12. CASE Retry
  BY <1>12 DEF Retry, NoError
<1>13. CASE GiveUp
  BY <1>13 DEF GiveUp
<1>14. CASE Answer
  BY <1>14 DEF Answer, Unanswered
<1>15. CASE RedialFailed
  BY <1>15 DEF RedialFailed, IsDenied, PublishDenied, ErrorInv, Sound,
               Retryable
<1>16. CASE StepDone
  BY <1>16 DEF StepDone
<1>17. CASE StepSignal
  BY <1>17 DEF StepSignal
<1>18. CASE StepClosed
  BY <1>18 DEF StepClosed
<1>19. CASE StepPing
  BY <1>19 DEF StepPing
<1>20. CASE Ping
  BY <1>20 DEF Ping
<1>21. CASE PublishSignal
  BY <1>21 DEF PublishSignal, PublishFix, MarkReady, Readied
<1>22. CASE CloseStop
  BY <1>22 DEF CloseStop
<1>23. CASE CloseConn
  BY <1>23 DEF CloseConn, Closed
<1>24. CASE Forget
  BY <1>24 DEF Forget, Released
<1>25. CASE Stopped
  BY <1>25 DEF Stopped
<1>26. CASE Lost
  BY <1>26 DEF Lost, PublishLost
<1>27. CASE Redial
  BY <1>27 DEF Redial, PublishReconnecting
<1>28. QED
  BY <1>1, <1>2, <1>3, <1>4, <1>5, <1>6, <1>7, <1>8, <1>9, <1>10, <1>11,
     <1>12, <1>13, <1>14, <1>15, <1>16, <1>17, <1>18, <1>19, <1>20, <1>21,
     <1>22, <1>23, <1>24, <1>25, <1>26, <1>27 DEF Run

(* A goroutine that runs has been started and is not over.                 *)
LEMMA RunStep ==
  ASSUME ConnInv, CallerInv, platform = "linux", Run, Linux
  PROVE  CallerInv'
<1> USE DEF ConnInv, CallerInv, Early, Active, Callers, Dialling, InSession,
            RunOver, Goto, Linux, coreVars, winVars, startStop, publishers,
            callerVars, session, sink
<1>1. CASE DialFails
  BY <1>1 DEF DialFails
<1>2. CASE Dial
  BY <1>2 DEF Dial
<1>3. CASE AuthFails
  BY <1>3 DEF AuthFails
<1>4. CASE Auth
  BY <1>4 DEF Auth
<1>5. CASE OpenSession
  BY <1>5 DEF OpenSession
<1>6. CASE OpenSessionFails
  BY <1>6 DEF OpenSessionFails
<1>7. CASE Adopt
  BY <1>7 DEF Adopt
<1>8. CASE PublishStarted
  BY <1>8 DEF PublishStarted
<1>9. CASE GetLocation
  BY <1>9 DEF GetLocation
<1>10. CASE PublishInitialFix
  BY <1>10 DEF PublishInitialFix
<1>11. CASE Backoff
  BY <1>11 DEF Backoff
<1>12. CASE Retry
  BY <1>12 DEF Retry
<1>13. CASE GiveUp
  BY <1>13 DEF GiveUp
<1>14. CASE Answer
  BY <1>14 DEF Answer, DialInv, Unanswered
<1>15. CASE RedialFailed
  BY <1>15 DEF RedialFailed
<1>16. CASE StepDone
  BY <1>16 DEF StepDone
<1>17. CASE StepSignal
  BY <1>17 DEF StepSignal
<1>18. CASE StepClosed
  BY <1>18 DEF StepClosed
<1>19. CASE StepPing
  BY <1>19 DEF StepPing
<1>20. CASE Ping
  BY <1>20 DEF Ping
<1>21. CASE PublishSignal
  BY <1>21 DEF PublishSignal
<1>22. CASE CloseStop
  BY <1>22 DEF CloseStop
<1>23. CASE CloseConn
  BY <1>23 DEF CloseConn
<1>24. CASE Forget
  BY <1>24 DEF Forget
<1>25. CASE Stopped
  BY <1>25 DEF Stopped
<1>26. CASE Lost
  BY <1>26 DEF Lost
<1>27. CASE Redial
  BY <1>27 DEF Redial
<1>28. QED
  BY <1>1, <1>2, <1>3, <1>4, <1>5, <1>6, <1>7, <1>8, <1>9, <1>10, <1>11,
     <1>12, <1>13, <1>14, <1>15, <1>16, <1>17, <1>18, <1>19, <1>20, <1>21,
     <1>22, <1>23, <1>24, <1>25, <1>26, <1>27 DEF Run

(* The locked thread makes its objects and gives them back.                *)
LEMMA ThreadStep ==
  ASSUME CoreInv, CallerInv, platform = "darwin", Thread, Darwin
  PROVE  CoreInv' /\ CallerInv'
<1> USE DEF CoreInv, CallerInv, Early, Active, Callers, RunOver, At, Darwin,
            geoClueVars, winVars, startStop, publishers, callerVars,
            nativeSession, mac, sink, session
<1>1. CASE FindManagerFails
  BY <1>1 DEF FindManagerFails
<1>2. CASE CreateSessionObjects
  BY <1>2 DEF CreateSessionObjects
<1>3. CASE CreateFails
  BY <1>3 DEF CreateFails
<1>4. CASE Configure
  BY <1>4 DEF Configure
<1>5. CASE ReadAuthorization
  BY <1>5 DEF ReadAuthorization
<1>6. CASE PublishSeen
  BY <1>6 DEF PublishSeen
<1>7. CASE RequestAuthorization
  BY <1>7 DEF RequestAuthorization
<1>8. CASE RequestRefused
  BY <1>8 DEF RequestRefused, SessionClosed
<1>9. CASE GoLive
  BY <1>9 DEF GoLive
<1>10. CASE SpinTurn
  BY <1>10 DEF SpinTurn
<1>11. CASE SpinStops
  BY <1>11 DEF SpinStops
<1>12. CASE EndTurn
  BY <1>12 DEF EndTurn
<1>13. CASE PublishLocations
  BY <1>13 DEF PublishLocations, Drain
<1>14. CASE PublishFailures
  BY <1>14 DEF PublishFailures, Drain
<1>15. CASE PublishAuthorizations
  BY <1>15 DEF PublishAuthorizations, Drain
<1>16. CASE PublishedQueued
  BY <1>16 DEF PublishedQueued
<1>17. CASE CloseSession
  BY <1>17 DEF CloseSession, SessionClosed
<1>18. QED
  BY <1>1, <1>2, <1>3, <1>4, <1>5, <1>6, <1>7, <1>8, <1>9, <1>10, <1>11,
     <1>12, <1>13, <1>14, <1>15, <1>16, <1>17 DEF Thread

(* What Start and Stop own follows from how far they have come.            *)
LEMMA WinStep ==
  ASSUME WinInv, StartOrStop
  PROVE  WinInv'
<1> USE DEF WinInv, OnLine
<1>1. CASE PublishAsking
  BY <1>1 DEF PublishAsking
<1>2. CASE RequestFails
  BY <1>2 DEF RequestFails, StartFails
<1>3. CASE RequestAccess
  BY <1>3 DEF RequestAccess
<1>4. CASE AwaitExpired
  BY <1>4 DEF AwaitExpired, StartFails
<1>5. CASE AccessAllowed
  BY <1>5 DEF AccessAllowed, InOrder, BuildOrder, BuildSteps, Resources
<1>6. CASE AccessDenied
  BY <1>6 DEF AccessDenied, StartFails
<1>7. CASE AccessUnsettled
  BY <1>7 DEF AccessUnsettled, StartFails
<1>8. CASE BuildStep
  <2>1. PICK r \in rest : /\ IsFirst(r, BuildOrder)
                          /\ rest' = rest \ {r}
                          /\ owned' = owned \cup ({r} \cap Resources)
    BY <1>8 DEF BuildStep
  <2>2. InOrder(rest', BuildOrder)
    <3> SUFFICES ASSUME NEW i \in DOMAIN BuildOrder, NEW j \in DOMAIN BuildOrder, i < j,
                        BuildOrder[i] \in rest', BuildOrder[j] \in Resources
                 PROVE  BuildOrder[j] \in rest'
      BY DEF InOrder
    <3>1. BuildOrder[j] \in rest
      BY <1>8, <2>1 DEF BuildStep, InOrder
    <3>2. PICK k \in DOMAIN BuildOrder :
            BuildOrder[k] = r /\ \A l \in 1 .. k - 1 : BuildOrder[l] \notin rest
      BY <2>1 DEF IsFirst
    <3>3. BuildOrder[j] # r
      <4>1. DOMAIN BuildOrder = 1 .. 8
        BY DEF BuildOrder
      <4>2. BuildOrder[j] = BuildOrder[k] => j = k
        BY <4>1 DEF BuildOrder
      <4>3. QED
        BY <2>1, <3>2, <4>1, <4>2
    <3>4. QED
      BY <2>1, <3>1, <3>3
  <2>3. QED
    BY <1>8, <2>1, <2>2 DEF BuildStep
<1>9. CASE BuildFails
  BY <1>9 DEF BuildFails, Resources
<1>10. CASE Unwound
  BY <1>10 DEF Unwound, StartFails
<1>11. CASE Adopted
  BY <1>11 DEF Adopted, Resources
<1>12. CASE ReadStatus
  BY <1>12 DEF ReadStatus
<1>13. CASE PublishRead
  BY <1>13 DEF PublishRead
<1>14. CASE StartInitialRead
  BY <1>14 DEF StartInitialRead
<1>15. CASE Release
  BY <1>15 DEF Release
<1>16. CASE TornDown
  BY <1>16 DEF TornDown
<1>17. QED
  BY <1>1, <1>2, <1>3, <1>4, <1>5, <1>6, <1>7, <1>8, <1>9, <1>10, <1>11,
     <1>12, <1>13, <1>14, <1>15, <1>16 DEF StartOrStop

(* What is being built, or is up, has its handlers before its events, and  *)
(* keeps them until the events are removed, or cannot be.                  *)
LEMMA HandlersStep ==
  ASSUME WinInv, EventsHaveHandlers, StartOrStop
  PROVE  EventsHaveHandlers'
<1>1. WinInv'
  BY WinStep
<1>2. CASE Release
  <2>1. PICK r \in rest : /\ IsFirst(r, Unwinding)
                          /\ \/ owned' = owned \ {r} /\ UNCHANGED stuck
                             \/ r \in Tokens /\ stuck' = stuck \cup {r} /\ UNCHANGED owned
    BY <1>2 DEF Release
  <2>2. owned = rest \cup stuck
    BY <1>2 DEF Release, WinInv
  <2>3. /\ r \in {"positionEvent", "locator"} => "positionToken" \notin rest
        /\ r \in {"statusEvent", "locator"} => "statusToken" \notin rest
    BY <2>1 DEF IsFirst, Unwinding
  <2>4. QED
    BY <2>1, <2>2, <2>3 DEF EventsHaveHandlers
<1>3. CASE line' = "build"
  <2>1. /\ "positionToken" \notin rest' => {"positionEvent", "locator"} \cap rest' = {}
        /\ "statusToken" \notin rest' => {"statusEvent", "locator"} \cap rest' = {}
    BY <1>1, <1>3 DEF WinInv, InOrder, BuildOrder, Resources
  <2>2. QED
    BY <1>1, <1>3, <2>1 DEF WinInv, EventsHaveHandlers, Resources
<1>4. CASE line' \notin {"build", "unwind", "teardown"}
  BY <1>1, <1>4 DEF WinInv, EventsHaveHandlers, Resources
<1>5. CASE ~ Release /\ line' \in {"unwind", "teardown"}
  BY <1>5
  DEF StartOrStop, OnLine, PublishAsking, RequestFails, RequestAccess, AwaitExpired,
      AccessAllowed, AccessDenied, AccessUnsettled, BuildStep, BuildFails, Unwound, Adopted,
      ReadStatus, PublishRead, StartInitialRead, TornDown, StartFails, EventsHaveHandlers
<1>6. QED
  BY <1>2, <1>3, <1>4, <1>5

(* Only a Windows session that was started takes these steps.              *)
LEMMA WinCaller ==
  ASSUME CallerInv, StartOrStop, WinNT
  PROVE  CallerInv'
<1> USE DEF CallerInv, Early, Active, Callers, RunOver, OnLine, WinNT, geoClueVars, coreVars,
            callerVars, session, nativeSession, mac
<1>1. CASE PublishAsking
  BY <1>1 DEF PublishAsking, publishers, sink
<1>2. CASE RequestFails
  BY <1>2 DEF RequestFails, publishers, sink, StartFails
<1>3. CASE RequestAccess
  BY <1>3 DEF RequestAccess, publishers, sink
<1>4. CASE AwaitExpired
  BY <1>4 DEF AwaitExpired, publishers, sink, StartFails
<1>5. CASE AccessAllowed
  BY <1>5 DEF AccessAllowed, publishers, sink
<1>6. CASE AccessDenied
  BY <1>6 DEF AccessDenied, publishers, sink, StartFails
<1>7. CASE AccessUnsettled
  BY <1>7 DEF AccessUnsettled, publishers, sink, StartFails
<1>8. CASE BuildStep
  BY <1>8 DEF BuildStep, publishers, sink
<1>9. CASE BuildFails
  BY <1>9 DEF BuildFails, publishers, sink
<1>10. CASE Unwound
  BY <1>10 DEF Unwound, publishers, sink, StartFails
<1>11. CASE Adopted
  BY <1>11 DEF Adopted, publishers, sink
<1>12. CASE ReadStatus
  BY <1>12 DEF ReadStatus, publishers, sink
<1>13. CASE PublishRead
  BY <1>13 DEF PublishRead, publishers, sink
<1>14. CASE StartInitialRead
  BY <1>14 DEF StartInitialRead, publishers, sink
<1>15. CASE Release
  BY <1>15 DEF Release, publishers, sink
<1>16. CASE TornDown
  BY <1>16 DEF TornDown, publishers, sink
<1>17. QED
  BY <1>1, <1>2, <1>3, <1>4, <1>5, <1>6, <1>7, <1>8, <1>9, <1>10, <1>11,
     <1>12, <1>13, <1>14, <1>15, <1>16 DEF StartOrStop

-----------------------------------------------------------------------------
(* The steps of the goroutine in Open or Close keep what each part of the  *)
(* provider's state says.                                                  *)
CallerAct ==
  (\E c \in Configs : Normalize(c)) \/ FactoryFails \/ NilContext \/ Opening
  \/ StartExpired \/ Teardown
    \/ Closing

(* What it has read or told to stop is not the connection's business.      *)
LEMMA CallerConn ==
  ASSUME OpenInv, CallerAct
  PROVE  ConnInv' /\ ErrorInv'
<1> USE DEF OpenInv, CallerInv, Early, Active, Callers, Proceed, ConnInv,
            NoSession, Dialling, InSession, ErrorInv, port, sink,
            geoClueVars, session, coreVars, nativeSession, mac, winVars,
            startStop, requests, publishers, callerVars
<1>1. ASSUME NEW c \in Configs, Normalize(c) PROVE ConnInv' /\ ErrorInv'
  BY <1>1 DEF Normalize
<1>2. CASE FactoryFails \/ NilContext
  BY <1>2 DEF FactoryFails, NilContext
<1>3. CASE StartNative
  <2>1. CASE platform = "linux"
    BY <1>3, <2>1 DEF StartNative
  <2>2. CASE platform = "darwin"
    BY <1>3, <2>2 DEF StartNative
  <2>3. CASE platform = "windows"
    BY <1>3, <2>3 DEF StartNative
  <2>4. QED
    BY <1>3, <2>1, <2>2, <2>3 DEF StartNative
<1>4. CASE Started
  BY <1>4 DEF Started
<1>5. CASE Abandoned
  BY <1>5 DEF Abandoned
<1>6. CASE StartExpired
  BY <1>6 DEF StartExpired
<1>7. CASE Teardown
  BY <1>7 DEF Teardown
<1>8. CASE StopCancel
  BY <1>8 DEF StopCancel
<1>9. CASE StopTake
  BY <1>9 DEF StopTake
<1>10. CASE StopCall
  BY <1>10 DEF StopCall
<1>11. CASE StopSpin
  BY <1>11 DEF StopSpin
<1>12. CASE StopTeardown
  BY <1>12 DEF StopTeardown
<1>13. CASE StopWait
  BY <1>13 DEF StopWait
<1>14. QED
  BY <1>1, <1>2, <1>3, <1>4, <1>5, <1>6, <1>7, <1>8, <1>9, <1>10, <1>11,
     <1>12, <1>13 DEF CallerAct, Opening, Closing

(* It starts the goroutine, and receives its answer.                       *)
LEMMA CallerDial ==
  ASSUME OpenInv, CallerAct
  PROVE  DialInv' /\ TellInv'
<1> USE DEF OpenInv, CallerInv, Early, Active, Callers, Proceed, ConnInv,
            DialInv, Unanswered, TellInv, EndTold, NoSession, Dialling,
            InSession, port, sink, geoClueVars, session, coreVars,
            nativeSession, mac, winVars, startStop, requests, publishers,
            callerVars
<1>1. ASSUME NEW c \in Configs, Normalize(c) PROVE DialInv' /\ TellInv'
  BY <1>1 DEF Normalize
<1>2. CASE FactoryFails \/ NilContext
  BY <1>2 DEF FactoryFails, NilContext
<1>3. CASE StartNative
  <2>1. CASE platform = "linux"
    BY <1>3, <2>1 DEF StartNative
  <2>2. CASE platform = "darwin"
    BY <1>3, <2>2 DEF StartNative
  <2>3. CASE platform = "windows"
    BY <1>3, <2>3 DEF StartNative
  <2>4. QED
    BY <1>3, <2>1, <2>2, <2>3 DEF StartNative
<1>4. CASE Started
  BY <1>4 DEF Started
<1>5. CASE Abandoned
  BY <1>5 DEF Abandoned, RunOver
<1>6. CASE StartExpired
  BY <1>6 DEF StartExpired
<1>7. CASE Teardown
  BY <1>7 DEF Teardown
<1>8. CASE StopCancel
  BY <1>8 DEF StopCancel
<1>9. CASE StopTake
  BY <1>9 DEF StopTake
<1>10. CASE StopCall
  BY <1>10 DEF StopCall
<1>11. CASE StopSpin
  BY <1>11 DEF StopSpin
<1>12. CASE StopTeardown
  BY <1>12 DEF StopTeardown
<1>13. CASE StopWait
  BY <1>13 DEF StopWait
<1>14. QED
  BY <1>1, <1>2, <1>3, <1>4, <1>5, <1>6, <1>7, <1>8, <1>9, <1>10, <1>11,
     <1>12, <1>13 DEF CallerAct, Opening, Closing

(* On macOS it starts the thread; on Windows it works itself.              *)
LEMMA CallerNative ==
  ASSUME OpenInv, CallerAct
  PROVE  CoreInv' /\ WinInv' /\ EventsHaveHandlers'
<1> USE DEF OpenInv, CallerInv, Early, Active, Callers, Proceed, CoreInv,
            WinInv, EventsHaveHandlers, port, sink, geoClueVars, session,
            coreVars, nativeSession, mac, winVars, startStop, requests,
            publishers, callerVars
<1>1. ASSUME NEW c \in Configs, Normalize(c) PROVE CoreInv' /\ WinInv' /\ EventsHaveHandlers'
  BY <1>1 DEF Normalize
<1>2. CASE FactoryFails \/ NilContext
  BY <1>2 DEF FactoryFails, NilContext
<1>3. CASE StartNative
  <2>1. CASE platform = "linux"
    BY <1>3, <2>1 DEF StartNative
  <2>2. CASE platform = "darwin"
    BY <1>3, <2>2 DEF StartNative
  <2>3. CASE platform = "windows"
    BY <1>3, <2>3 DEF StartNative, BuildSteps, InOrder, BuildOrder,
                      Resources
  <2>4. QED
    BY <1>3, <2>1, <2>2, <2>3 DEF StartNative
<1>4. CASE Started
  BY <1>4 DEF Started
<1>5. CASE Abandoned
  BY <1>5 DEF Abandoned
<1>6. CASE StartExpired
  BY <1>6 DEF StartExpired
<1>7. CASE Teardown
  BY <1>7 DEF Teardown
<1>8. CASE StopCancel
  BY <1>8 DEF StopCancel
<1>9. CASE StopTake
  BY <1>9 DEF StopTake
<1>10. CASE StopCall
  BY <1>10 DEF StopCall
<1>11. CASE StopSpin
  BY <1>11 DEF StopSpin
<1>12. CASE StopTeardown
  BY <1>12 DEF StopTeardown, TakeSession, Resources
<1>13. CASE StopWait
  BY <1>13 DEF StopWait
<1>14. QED
  BY <1>1, <1>2, <1>3, <1>4, <1>5, <1>6, <1>7, <1>8, <1>9, <1>10, <1>11,
     <1>12, <1>13 DEF CallerAct, Opening, Closing

(* And it goes no further than the provider lets it.                       *)
LEMMA CallerOwn ==
  ASSUME OpenInv, CallerAct
  PROVE  CallerInv'
<1> USE DEF OpenInv, CallerInv, Early, Active, Callers, Proceed, RunOver,
            port, sink, geoClueVars, session, coreVars, nativeSession, mac,
            winVars, startStop, requests, publishers, callerVars
<1>1. ASSUME NEW c \in Configs, Normalize(c) PROVE CallerInv'
  BY <1>1 DEF Normalize
<1>2. CASE FactoryFails \/ NilContext
  BY <1>2 DEF FactoryFails, NilContext
<1>3. CASE StartNative
  <2>1. CASE platform = "linux"
    BY <1>3, <2>1 DEF StartNative
  <2>2. CASE platform = "darwin"
    BY <1>3, <2>2 DEF StartNative
  <2>3. CASE platform = "windows"
    BY <1>3, <2>3 DEF StartNative
  <2>4. QED
    BY <1>3, <2>1, <2>2, <2>3 DEF StartNative
<1>4. CASE Started
  BY <1>4 DEF Started
<1>5. CASE Abandoned
  BY <1>5 DEF Abandoned
<1>6. CASE StartExpired
  BY <1>6 DEF StartExpired
<1>7. CASE Teardown
  BY <1>7 DEF Teardown
<1>8. CASE StopCancel
  BY <1>8 DEF StopCancel
<1>9. CASE StopTake
  BY <1>9 DEF StopTake
<1>10. CASE StopCall
  BY <1>10 DEF StopCall
<1>11. CASE StopSpin
  BY <1>11 DEF StopSpin
<1>12. CASE StopTeardown
  BY <1>12 DEF StopTeardown, TakeSession
<1>13. CASE StopWait
  BY <1>13 DEF StopWait
<1>14. QED
  BY <1>1, <1>2, <1>3, <1>4, <1>5, <1>6, <1>7, <1>8, <1>9, <1>10, <1>11,
     <1>12, <1>13 DEF CallerAct, Opening, Closing

-----------------------------------------------------------------------------
(* A provider takes steps on its own platform only: elsewhere it is off.   *)
LEMMA OwnPlatform ==
  ASSUME OpenInv
  PROVE  /\ Run => platform = "linux"
         /\ Thread => platform = "darwin"
         /\ StartOrStop \/ Callbacks => platform = "windows"
<1> USE DEF OpenInv, CallerInv
<1>1. ASSUME Run PROVE pc # "off"
  BY <1>1
  DEF Run, Goto, DialFails, Dial, AuthFails, Auth, OpenSession,
      OpenSessionFails, Adopt, PublishStarted, GetLocation,
      PublishInitialFix, Backoff, Retry, GiveUp, Answer, RedialFailed,
      StepDone, StepSignal, StepClosed, StepPing, Ping, PublishSignal,
      CloseStop, CloseConn, Forget, Stopped, Lost, Redial
<1>2. ASSUME Thread PROVE thread # "off"
  BY <1>2
  DEF Thread, At, Drain, FindManagerFails, CreateSessionObjects,
      CreateFails, Configure, ReadAuthorization, PublishSeen,
      RequestAuthorization, RequestRefused, GoLive, SpinTurn, SpinStops,
      EndTurn, PublishLocations, PublishFailures, PublishAuthorizations,
      PublishedQueued, CloseSession
<1>3. ASSUME StartOrStop PROVE line # "out"
  BY <1>3
  DEF StartOrStop, OnLine, PublishAsking, RequestFails, RequestAccess,
      AwaitExpired, AccessAllowed, AccessDenied, AccessUnsettled, BuildStep,
      BuildFails, Unwound, Adopted, ReadStatus, PublishRead,
      StartInitialRead, Release, TornDown
<1>4. ASSUME Callbacks PROVE awaiting \/ passed # {} \/ event # <<>>
  BY <1>4 DEF Callbacks, InitialPosition, StatusChanged, PublishStatusChange, PublishPosition
<1>5. QED
  BY <1>1, <1>2, <1>3, <1>4

(* What the systems and their threads do changes the status at most.       *)
LEMMA SystemStep ==
  ASSUME OpenInv, (Callbacks /\ WinNT) \/ (SendAnswer /\ WinNT) \/ System
  PROVE  OpenInv'
<1> USE DEF OpenInv, Linux, Darwin, WinNT, vars, port, sink, geoClueVars, session, backend, coreVars,
            nativeSession, mac, winVars, startStop, requests, publishers, callerVars,
            ConnInv, NoSession, Dialling, InSession, ErrorInv, DialInv, Unanswered, TellInv,
            EndTold, Active, CoreInv, WinInv, EventsHaveHandlers, CallerInv, Early, Callers, RunOver
<1>1. ASSUME Callbacks, WinNT PROVE OpenInv'
  <2>1. platform = "windows"
    BY <1>1, OwnPlatform
  <2>2. CASE InitialPosition
    BY <1>1, <2>1, <2>2 DEF InitialPosition
  <2>3. CASE StatusChanged
    BY <1>1, <2>1, <2>3 DEF StatusChanged
  <2>4. CASE PublishStatusChange
    BY <1>1, <2>1, <2>4 DEF PublishStatusChange
  <2>5. ASSUME NEW t \in {"reader", "handler"}, PublishPosition(t) PROVE OpenInv'
    BY <1>1, <2>1, <2>5 DEF PublishPosition
  <2>6. QED
    BY <1>1, <2>2, <2>3, <2>4, <2>5 DEF Callbacks
<1>2. ASSUME SendAnswer, WinNT PROVE OpenInv'
  BY <1>2 DEF SendAnswer
<1>3. CASE platform = "linux" /\ Bus /\ Linux
  BY <1>3 DEF Bus, Signal, Die, FallSilent, Recover
<1>4. CASE platform = "darwin" /\ (Callback \/ Authorize) /\ Darwin
  BY <1>4 DEF Callback, DidUpdateLocations, DidFail, DidChangeAuthorization, Enqueue, Authorize
<1>5. CASE platform = "windows" /\ Windows /\ WinNT
  BY <1>5 DEF Windows, AccessAnswered, PositionChanged, LocationStatusChanges
<1>6. QED
  BY <1>1, <1>2, <1>3, <1>4, <1>5 DEF System

(* The provider's own steps, each on its platform, leave the rest alone.   *)
LEMMA ProviderStep ==
  ASSUME OpenInv, (Run /\ Linux) \/ (Thread /\ Darwin) \/ (StartOrStop /\ WinNT)
  PROVE  OpenInv'
<1> USE DEF OpenInv
<1>1. ASSUME Run, Linux PROVE OpenInv'
  <2>1. platform = "linux"
    BY <1>1, OwnPlatform
  <2>2. ConnInv' /\ ErrorInv' /\ DialInv' /\ TellInv' /\ CallerInv'
    BY <1>1, <2>1, ConnStep, ErrorStep, DialStep, TellStep, RunStep
  <2>3. CoreInv' /\ WinInv' /\ EventsHaveHandlers'
    BY <1>1
    DEF Linux, coreVars, nativeSession, winVars, startStop, CoreInv, WinInv, EventsHaveHandlers
  <2>4. QED
    BY <2>2, <2>3
<1>2. ASSUME Thread, Darwin PROVE OpenInv'
  <2>1. platform = "darwin"
    BY <1>2, OwnPlatform
  <2>2. CoreInv' /\ CallerInv'
    BY <1>2, <2>1, ThreadStep
  <2>3. ConnInv' /\ ErrorInv' /\ WinInv' /\ EventsHaveHandlers'
    BY <1>2 DEF Darwin, geoClueVars, session, winVars, startStop, ConnInv, NoSession, ErrorInv,
                WinInv, EventsHaveHandlers
  <2>4. pc = "off" /\ pc' = "off" /\ platform' = "darwin" /\ UNCHANGED phase
    BY <1>2, <2>1 DEF Darwin, geoClueVars, callerVars, CallerInv
  <2>5. DialInv' /\ TellInv'
    BY <2>4 DEF DialInv, Unanswered, TellInv
  <2>6. QED
    BY <2>2, <2>3, <2>5
<1>3. ASSUME StartOrStop, WinNT PROVE OpenInv'
  <2>1. platform = "windows"
    BY <1>3, OwnPlatform
  <2>2. WinInv' /\ EventsHaveHandlers' /\ CallerInv'
    BY <1>3, WinStep, HandlersStep, WinCaller
  <2>3. ConnInv' /\ ErrorInv' /\ CoreInv'
    BY <1>3 DEF WinNT, geoClueVars, session, coreVars, nativeSession, ConnInv, NoSession,
                ErrorInv, CoreInv
  <2>4. pc = "off" /\ pc' = "off" /\ platform' = "windows" /\ UNCHANGED phase
    BY <1>3, <2>1 DEF WinNT, geoClueVars, callerVars, CallerInv
  <2>5. DialInv' /\ TellInv'
    BY <2>4 DEF DialInv, Unanswered, TellInv
  <2>6. QED
    BY <2>2, <2>3, <2>5
<1>4. QED
  BY <1>1, <1>2, <1>3

-----------------------------------------------------------------------------
(* Initially nothing has been started.                                     *)
LEMMA OpenInit == Init => OpenInv
BY PlatformsAssumption
DEF Init, ProviderInit, GeoClueInit, CoreInit, WinInit, OpenInv, CallerInv, Callers, Early, Active,
    ConnInv, NoSession, Dialling, InSession, ErrorInv, DialInv, Unanswered, TellInv, CoreInv, WinInv,
    EventsHaveHandlers

(* The inductive step: whoever moves.                                      *)
LEMMA OpenStep == OpenInv /\ [Next]_vars => OpenInv'
<1> SUFFICES ASSUME OpenInv, [Next]_vars PROVE OpenInv'
  OBVIOUS
<1>1. CASE UNCHANGED vars
  BY <1>1
  DEF vars, port, sink, geoClueVars, session, coreVars, nativeSession, winVars, startStop,
      publishers, callerVars, OpenInv, CallerInv, RunOver, ConnInv, NoSession, ErrorInv, DialInv,
      Unanswered, TellInv, EndTold, CoreInv, WinInv, EventsHaveHandlers
<1>2. CASE CallerAct
  BY <1>2, CallerConn, CallerDial, CallerNative, CallerOwn DEF OpenInv
<1>3. CASE (Run /\ Linux) \/ (Thread /\ Darwin) \/ (StartOrStop /\ WinNT)
  BY <1>3, ProviderStep
<1>4. CASE (Callbacks /\ WinNT) \/ (SendAnswer /\ WinNT) \/ System
  BY <1>4, SystemStep
<1>5. QED
  BY <1>1, <1>2, <1>3, <1>4 DEF Next, CallerAct

(* Every reachable state of a session, on any platform, satisfies the      *)
(* invariant that the properties follow from.                              *)
THEOREM OpenInvariant == Spec => []OpenInv
<1>1. QED
  BY OpenInit, OpenStep, PTL DEF Spec

(* However a session is set up, lost and rebuilt, one bus connection exists*)
(* at most, and none while there is no session (geoclue.go:312).           *)
THEOREM OneConnectionAtMost == Spec => []OneConnection
<1>1. OpenInv => OneConnection
  BY DEF OpenInv, OneConnection, ConnInv, NoSession
<1>2. QED
  BY <1>1, OpenInvariant, PTL

(* Stop calls the connection the goroutine works with, never one that it   *)
(* has given up (geoclue.go:622).                                          *)
THEOREM StopFindsItsOwn == Spec => []HeldIsOwn
<1>1. OpenInv => HeldIsOwn
  BY DEF OpenInv, HeldIsOwn, ConnInv
<1>2. QED
  BY <1>1, OpenInvariant, PTL

(* Ready is never shown over a lost session, and a session that ends by    *)
(* itself says so, whatever the bus answers (geoclue.go:240).              *)
THEOREM LossesAreTold == Spec => []LossIsTold
<1>1. OpenInv => LossIsTold
  BY DEF OpenInv, LossIsTold, ConnInv, NoSession, DialInv, TellInv, EndTold,
         Active, Dialling, InSession, ErrorInv, Sound
<1>2. QED
  BY <1>1, OpenInvariant, PTL

(* A refusal is not asked again, and told when it ends an open session     *)
(* (geoclue.go:205).                                                       *)
THEOREM RefusalsAreFinal == Spec => []RefusalIsFinal
<1>1. OpenInv => RefusalIsFinal
  BY DEF OpenInv, RefusalIsFinal, ErrorInv, Sound, DialInv, Retryable,
         ConnInv, TellInv, EndTold, Active
<1>2. QED
  BY <1>1, OpenInvariant, PTL

(* An event is registered only while its handler and the Geolocator live,  *)
(* at whichever call a build fails or a removal does (winrt.go:249).       *)
THEOREM HandlersOutliveEvents == Spec => []EventsHaveHandlers
<1>1. OpenInv => EventsHaveHandlers
  BY DEF OpenInv, EventsHaveHandlers
<1>2. QED
  BY <1>1, OpenInvariant, PTL

(* A session that is closed, or could not be opened, leaves no connection, *)
(* object or event behind on any platform (location.go:66).                *)
THEOREM ClosedLeavesNothing == Spec => []ClosedIsClean
<1>1. OpenInv => ClosedIsClean
  BY DEF OpenInv, ClosedIsClean, CallerInv, RunOver, ConnInv, NoSession,
         Dialling, CoreInv, WinInv
<1>2. QED
  BY <1>1, OpenInvariant, PTL

-----------------------------------------------------------------------------
(* The Config. Whatever the program does after resolving it, what is used  *)
(* is what was given with its defaults, and was found valid.               *)
ConfigInv ==
  /\ used # <<>> => given \in Configs /\ Valid(WithDefaults(given))
                     /\ used = <<WithDefaults(given)>>
  /\ caller = "rejected" => given \in Configs /\ ~ Valid(WithDefaults(given))

(* No default is a zero that would mean "use the default" again.           *)
LEMMA NoDefaultIsUnset == \A k \in Defaulted : DefaultConfig[k] # Zero[k]
BY DEF Defaulted, DefaultConfig, Zero, DropOldest, DropDefault

(* What is not filled in defaults to its zero, but for Reconnect.          *)
LEMMA OthersAreZero ==
  \A k \in DOMAIN Zero \ Defaulted : k # "reconnect" => DefaultConfig[k] = Zero[k]
BY DEF Defaulted, DefaultConfig, Zero

(* So filling in the defaults again changes nothing.                       *)
LEMMA DefaultsOnce ==
  ASSUME NEW in
  PROVE  WithDefaults(WithDefaults(in)) = WithDefaults(in)
BY NoDefaultIsUnset DEF WithDefaults

(* The zero Config, with its defaults, passes every check.                 *)
LEMMA ZeroIsValid == Valid(WithDefaults(Zero))
BY DistanceAssumption
DEF WithDefaults, Zero, DefaultConfig, Defaulted, DropOldest, DropDefault, DropNewest, Valid, ValidEnums,
    ValidDurations, ValidDistance, ValidBuffer, ValidReconnect, ValidIdentity,
    AccuracyNavigation, PermissionDoNotRequest

(* A step resolves a Config, forgets it once it is handed over, or leaves  *)
(* it alone.                                                               *)
LEMMA ConfigMoves ==
  ASSUME [Next]_vars
  PROVE  \/ \E c \in Configs : Normalize(c)
         \/ used' = <<>> /\ caller' # "rejected"
         \/ UNCHANGED <<given, used>> /\ (caller' = "rejected" => caller = "rejected")
<1>1. CASE UNCHANGED vars
  BY <1>1 DEF vars, callerVars
<1>2. CASE FactoryFails \/ NilContext \/ StartNative
  BY <1>2 DEF FactoryFails, NilContext, StartNative, Proceed
<1>3. CASE Started \/ Abandoned \/ StartExpired \/ Teardown \/ Closing
  BY <1>3 DEF Started, Abandoned, StartExpired, Teardown, Closing, StopCancel, StopTake,
              StopCall, StopSpin, StopTeardown, StopWait, Proceed, callerVars
<1>4. CASE Linux \/ Darwin \/ WinNT
  BY <1>4 DEF Linux, Darwin, WinNT, callerVars
<1>5. QED
  BY <1>1, <1>2, <1>3, <1>4 DEF Next, Opening, System

(* Every step keeps it.                                                    *)
LEMMA ConfigStep == ConfigInv /\ [Next]_vars => ConfigInv'
<1> SUFFICES ASSUME ConfigInv, [Next]_vars PROVE ConfigInv'
  OBVIOUS
<1>1. ASSUME NEW c \in Configs, Normalize(c) PROVE ConfigInv'
  BY <1>1 DEF Normalize, NormalizeConfig, ConfigInv
<1>2. CASE used' = <<>> /\ caller' # "rejected"
  BY <1>2 DEF ConfigInv
<1>3. CASE UNCHANGED <<given, used>> /\ (caller' = "rejected" => caller = "rejected")
  BY <1>3 DEF ConfigInv
<1>4. QED
  BY <1>1, <1>2, <1>3, ConfigMoves

(* What it says of a Config that is used.                                  *)
LEMMA ResolvedSays ==
  ASSUME NEW in \in Settings, Valid(WithDefaults(in)), NEW c, c = WithDefaults(in)
  PROVE  /\ \A k \in DOMAIN in :
              /\ in[k] # Zero[k] => c[k] = in[k]
              /\ in[k] = Zero[k] /\ k # "reconnect" => c[k] = DefaultConfig[k]
         /\ c.minimumInterval > 0 /\ c.maximumAge > 0 /\ c.startTimeout > 0
         /\ c.buffer > 0 /\ c.policy # DropDefault
         /\ c.reconnectMin > 0 /\ c.reconnectMax >= c.reconnectMin
         /\ NormalizeConfig(c) = <<c>>
<1>1. ASSUME NEW k \in DOMAIN in
      PROVE  /\ in[k] # Zero[k] => c[k] = in[k]
             /\ in[k] = Zero[k] /\ k # "reconnect" => c[k] = DefaultConfig[k]
  <2>1. DOMAIN in = DOMAIN Zero
    BY DEF Settings, Zero
  <2>2. QED
    BY <2>1, OthersAreZero DEF WithDefaults
<1>2. Valid(c) /\ WithDefaults(c) = c
  BY DefaultsOnce
<1>3. NormalizeConfig(c) = <<c>>
  BY <1>2 DEF NormalizeConfig
<1>4. \A k \in Defaulted : c[k] # Zero[k]
  <2>1. Defaulted \subseteq DOMAIN in
    BY DEF Defaulted, Settings
  <2>2. QED
    BY <2>1, NoDefaultIsUnset DEF WithDefaults
<1>5. /\ c.minimumInterval \in Int /\ c.maximumAge \in Int /\ c.startTimeout \in Int
      /\ c.buffer \in Int /\ c.reconnectMin \in Int /\ c.reconnectMax \in Int
  BY DEF WithDefaults, Settings, DefaultConfig, Defaulted, Zero
<1>6. /\ c.minimumInterval # 0 /\ c.maximumAge # 0 /\ c.startTimeout # 0
      /\ c.policy # DropDefault /\ c.reconnectMin # 0
  BY <1>4 DEF Defaulted, Zero
<1>7. QED
  BY <1>1, <1>2, <1>3, <1>5, <1>6 DEF Valid, ValidDurations, ValidBuffer, ValidReconnect

(* Whatever the caller sets, a Config that is accepted is his where he set *)
(* a field and the default elsewhere, Reconnect excepted; it is in range   *)
(* and resolved for good, and the zero Config is accepted (config.go:98).  *)
THEOREM ConfigsAreResolved == Spec => []ConfigResolved
<1>1. Init => ConfigInv
  BY DEF Init, ConfigInv
<1>2. ConfigInv => ConfigResolved
  <2> SUFFICES ASSUME ConfigInv PROVE ConfigResolved
    OBVIOUS
  <2>1. caller = "rejected" => given # Zero
    BY ZeroIsValid DEF ConfigInv
  <2>2. ASSUME used # <<>>
        PROVE  LET c == used[1] IN
               /\ \A k \in DOMAIN given :
                    /\ given[k] # Zero[k] => c[k] = given[k]
                    /\ given[k] = Zero[k] /\ k # "reconnect" => c[k] = DefaultConfig[k]
               /\ c.minimumInterval > 0 /\ c.maximumAge > 0 /\ c.startTimeout > 0
               /\ c.buffer > 0 /\ c.policy # DropDefault
               /\ c.reconnectMin > 0 /\ c.reconnectMax >= c.reconnectMin
               /\ NormalizeConfig(c) = used
    <3>1. given \in Settings /\ Valid(WithDefaults(given)) /\ used = <<WithDefaults(given)>>
      BY <2>2, ConfigsAssumption DEF ConfigInv
    <3>2. used[1] = WithDefaults(given) /\ used = <<used[1]>>
      BY <3>1
    <3>3. QED
      BY <3>1, <3>2, ResolvedSays
  <2>3. QED
    BY <2>1, <2>2 DEF ConfigResolved
<1>3. QED
  BY <1>1, <1>2, ConfigStep, PTL DEF Spec

-----------------------------------------------------------------------------
(* The permission on macOS. While the delegate has been told all there is  *)
(* to tell, what the thread has read, or has last been told and not yet    *)
(* published, is the authorization; nothing that it was told contradicts   *)
(* it; and once no more of it is queued the status says it.                *)
Turning == {"turn", "publishQueued"}
Live    == {"live", "check"} \cup Turning

QueueTypes ==
  /\ DOMAIN queues = {"locations", "failures", "authorizations"}
  /\ queues.locations \in Seq({"location"})
  /\ queues.failures \in Seq(Nat)
  /\ queues.authorizations \in Seq(Nat)

StatusSays ==
  /\ authorization \in 1 .. 2 =>
       status.state = "Disabled" /\ status.permission \in {"Denied", "Restricted"}
  /\ authorization \in 3 .. 4 =>
       status.state \in {"Starting", "Ready"} /\ status.permission = "Granted"

LastTold(q) == q[Len(q)]

SettledInv ==
  /\ thread = "publish" => seen = authorization
  /\ thread = "request" => authorization = 0
  /\ thread \in Turning /\ queues.authorizations # <<>> =>
       LastTold(queues.authorizations) = authorization
  /\ thread \in Live /\ queues.authorizations = <<>> =>
       /\ ~ shut => StatusSays
       /\ queues.locations # <<>> => authorization \in 3 .. 4
       /\ \A i \in 1 .. Len(queues.failures) :
            queues.failures[i] = 1 => authorization \in 1 .. 2

PermissionInv ==
  /\ QueueTypes /\ authorization \in Nat /\ seen \in Nat
  /\ thread \in Live \cup {"read", "publish", "request", "close"} => listening = TRUE
  /\ thread \notin Live \cup {"read", "publish", "request", "close"} => listening = FALSE
  /\ thread \notin Turning => queues = NothingQueued
  /\ ~ changed => SettledInv

MacInv == platform = "darwin" => PermissionInv

(* What the thread publishes of an authorization is what it means.         *)
LEMMA MeaningIsSaid ==
  ASSUME ~ shut, authorization' = authorization, PublishAuthorization(authorization)
  PROVE  StatusSays'
BY DEF PublishAuthorization, AuthorizationMeaning, Meaning, Record, Reported, StatusSays

(* The last of a queue stays the last until it is the next.                *)
LEMMA LastOfTail ==
  ASSUME NEW q \in Seq(Nat), q # <<>>
  PROVE  IF Tail(q) = <<>> THEN Head(q) = LastTold(q) ELSE LastTold(Tail(q)) = LastTold(q)
<1>1. PICK n \in Nat : n = Len(q)
  OBVIOUS
<1>2. n # 0
  BY <1>1
<1>3. Len(Tail(q)) = n - 1 /\ Head(q) = q[1] /\ \A i \in 1 .. n - 1 : Tail(q)[i] = q[i + 1]
  BY <1>1, <1>2
<1>4. CASE n = 1
  <2>1. Tail(q) = <<>>
    <3>1. Tail(q) \in Seq(Nat) /\ Len(Tail(q)) = 0
      BY <1>3, <1>4
    <3>2. \A t \in Seq(Nat) : Len(t) = 0 => t = <<>>
      OBVIOUS
    <3>3. QED
      BY <3>1, <3>2
  <2>2. Head(q) = LastTold(q)
    BY <1>1, <1>3, <1>4 DEF LastTold
  <2>3. QED
    BY <2>1, <2>2
<1>5. CASE n > 1
  <2>1. n - 1 \in 1 .. n - 1 /\ n - 1 # 0
    BY <1>5
  <2>2. LastTold(Tail(q)) = LastTold(q)
    BY <1>1, <1>3, <2>1 DEF LastTold
  <2>3. Tail(q) # <<>>
    BY <1>3, <2>1
  <2>4. QED
    BY <2>2, <2>3
<1>6. QED
  BY <1>2, <1>4, <1>5

(* Nothing is queued in what has just been made.                           *)
LEMMA NothingIsQueued ==
  queues = NothingQueued =>
    QueueTypes /\ queues.locations = <<>> /\ queues.failures = <<>> /\ queues.authorizations = <<>>
BY DEF NothingQueued, QueueTypes

(* The delegate queues what agrees with the authorization as it is.        *)
LEMMA CallbackSettles ==
  ASSUME PermissionInv, CoreAssumption, Callback
  PROVE  PermissionInv'
<1> USE DEF PermissionInv, Enqueue, Turning, Live
<1>1. CASE DidUpdateLocations
  <2>1. /\ thread = "turn" /\ QueueTypes
        /\ queues' = [queues EXCEPT !["locations"] = Append(@, "location")]
        /\ UNCHANGED <<thread, seen, listening, authorization, changed, shut, status>>
    BY <1>1 DEF DidUpdateLocations, sink
  <2>2. /\ QueueTypes'
        /\ UNCHANGED <<queues.authorizations, queues.failures>>
    BY <2>1 DEF QueueTypes
  <2>3. authorization \in 3 .. 4
    BY <1>1 DEF DidUpdateLocations
  <2>4. QED
    BY <2>1, <2>2, <2>3 DEF SettledInv, StatusSays
<1>2. ASSUME NEW code \in 0 .. 1, DidFail(code) PROVE PermissionInv'
  <2>1. /\ thread = "turn" /\ QueueTypes
        /\ queues' = [queues EXCEPT !["failures"] = Append(@, code)]
        /\ UNCHANGED <<thread, seen, listening, authorization, changed, shut, status>>
    BY <1>2 DEF DidFail, sink
  <2>2. /\ QueueTypes'
        /\ UNCHANGED <<queues.authorizations, queues.locations>>
        /\ queues'.failures = Append(queues.failures, code)
    BY <2>1 DEF QueueTypes
  <2>3. code = 1 => authorization \in 1 .. 2
    BY <1>2 DEF DidFail
  <2>4. \A i \in 1 .. Len(queues'.failures) :
          queues'.failures[i] = code \/ (i \in 1 .. Len(queues.failures)
                                           /\ queues'.failures[i] = queues.failures[i])
    BY <2>1, <2>2 DEF QueueTypes
  <2>5. QED
    BY <2>1, <2>2, <2>3, <2>4 DEF SettledInv, StatusSays
<1>3. CASE DidChangeAuthorization
  <2>1. /\ thread = "turn" /\ QueueTypes /\ authorization \in Nat
        /\ queues' = [queues EXCEPT !["authorizations"] = Append(@, authorization)]
        /\ UNCHANGED <<thread, seen, listening, authorization, shut, status>>
    BY <1>3 DEF DidChangeAuthorization, sink
  <2>2. /\ QueueTypes' /\ queues'.authorizations = Append(queues.authorizations, authorization)
    BY <2>1 DEF QueueTypes
  <2>3. queues'.authorizations # <<>> /\ LastTold(queues'.authorizations) = authorization
    BY <2>1, <2>2 DEF QueueTypes, LastTold
  <2>4. QED
    BY <2>1, <2>2, <2>3 DEF SettledInv
<1>4. QED
  BY <1>1, <1>2, <1>3 DEF Callback

(* When the authorization changes the delegate is yet to be told.          *)
LEMMA AuthorizeSettles ==
  ASSUME PermissionInv, Authorize
  PROVE  PermissionInv'
<1>1. QueueTypes' /\ authorization' \in Nat /\ seen' \in Nat
  BY CoreAssumption DEF PermissionInv, Authorize, QueueTypes, nativeSession
<1>2. UNCHANGED <<thread, listening, queues>> /\ changed' = listening
  BY DEF Authorize, nativeSession
<1>3. QED
  BY <1>1, <1>2 DEF PermissionInv, SettledInv, Live, Turning

(* The thread's own steps: it reads the authorization and says what it     *)
(* read, and publishes what a turn has queued, the last told last.         *)
LEMMA ThreadSettles ==
  ASSUME PermissionInv, CoreInv, Thread
  PROVE  PermissionInv'
<1> USE DEF PermissionInv, At, Turning, Live
<1>1. CASE FindManagerFails \/ CreateSessionObjects \/ CreateFails
  <2>1. /\ thread \in {"open", "created"} /\ thread' \in {"created", "gone"}
        /\ UNCHANGED <<seen, listening, queues, authorization, changed>>
    BY <1>1 DEF FindManagerFails, CreateSessionObjects, CreateFails, nativeSession, mac
  <2>2. queues = NothingQueued /\ listening = FALSE
    BY <2>1
  <2>3. QED
    BY <2>1, <2>2 DEF QueueTypes, SettledInv
<1>2. CASE Configure
  BY <1>2 DEF Configure, QueueTypes, SettledInv, NothingQueued
<1>3. CASE ReadAuthorization
  BY <1>3 DEF ReadAuthorization, QueueTypes, SettledInv, nativeSession, mac
<1>4. CASE PublishSeen
  <2>1. /\ thread = "publish" /\ thread' = (IF seen = 0 THEN "request" ELSE "live")
        /\ PublishAuthorization(seen) /\ seen' = 0
        /\ UNCHANGED <<listening, queues, authorization, changed, shut>>
    BY <1>4 DEF PublishSeen, nativeSession, mac
  <2>2. queues = NothingQueued
    BY <2>1
  <2>3. ASSUME ~ changed, ~ shut PROVE StatusSays'
    BY <2>1, <2>3, MeaningIsSaid DEF SettledInv
  <2>4. QED
    BY <2>1, <2>2, <2>3, NothingIsQueued DEF QueueTypes, SettledInv
<1>5. CASE RequestAuthorization
  <2>1. /\ thread = "request" /\ thread' = "live"
        /\ UNCHANGED <<seen, listening, queues, authorization, changed, shut>>
    BY <1>5 DEF RequestAuthorization, nativeSession, mac
  <2>2. queues = NothingQueued
    BY <2>1
  <2>3. ~ changed => StatusSays'
    BY <2>1 DEF SettledInv, StatusSays
  <2>4. QED
    BY <2>1, <2>2, <2>3, NothingIsQueued DEF QueueTypes, SettledInv
<1>6. CASE GoLive
  BY <1>6 DEF GoLive, QueueTypes, SettledInv, StatusSays, nativeSession, mac, sink
<1>7. CASE SpinTurn \/ EndTurn
  BY <1>7, NothingIsQueued
  DEF SpinTurn, EndTurn, QueueTypes, SettledInv, StatusSays, nativeSession, mac, sink
<1>8. CASE SpinStops
  BY <1>8 DEF SpinStops, QueueTypes, SettledInv, nativeSession, mac
<1>9. CASE RequestRefused \/ CloseSession
  <2>1. /\ thread' = "gone" /\ queues' = NothingQueued /\ listening' = FALSE
        /\ UNCHANGED <<seen, authorization>>
    BY <1>9 DEF RequestRefused, CloseSession, SessionClosed, mac
  <2>2. QueueTypes'
    BY <2>1 DEF NothingQueued, QueueTypes
  <2>3. QED
    BY <2>1, <2>2 DEF SettledInv
<1>10. CASE PublishedQueued
  <2>1. /\ thread = "publishQueued" /\ thread' = "check" /\ queues = NothingQueued
        /\ UNCHANGED <<seen, listening, queues, authorization, changed, shut, status>>
    BY <1>10 DEF PublishedQueued, nativeSession, mac, sink
  <2>2. QED
    BY <2>1, NothingIsQueued DEF QueueTypes, SettledInv, StatusSays
<1>11. CASE PublishLocations
  <2>1. /\ thread = "publishQueued" /\ thread' = thread
        /\ queues' = [queues EXCEPT !["locations"] = Tail(@)]
        /\ queues.locations # <<>>
        /\ UNCHANGED <<seen, listening, authorization, changed, shut>>
        /\ MarkReady \/ UNCHANGED status
    BY <1>11 DEF PublishLocations, Drain, IsNext, mac
  <2>2. /\ QueueTypes' /\ UNCHANGED <<queues.failures, queues.authorizations>>
    BY <2>1 DEF QueueTypes
  <2>3. ASSUME authorization \in 3 .. 4, StatusSays, ~ shut PROVE StatusSays'
    BY <2>1, <2>3 DEF StatusSays, MarkReady, Readied, Settled
  <2>4. QED
    BY <2>1, <2>2, <2>3 DEF SettledInv
<1>12. CASE PublishFailures
  <2>1. /\ thread = "publishQueued" /\ thread' = thread
        /\ queues' = [queues EXCEPT !["failures"] = Tail(@)]
        /\ queues.failures # <<>>
        /\ UNCHANGED <<seen, listening, authorization, changed, shut>>
        /\ PublishFailure(Head(queues.failures))
    BY <1>12 DEF PublishFailures, Drain, IsNext, mac
  <2>2. /\ QueueTypes' /\ UNCHANGED <<queues.locations, queues.authorizations>>
        /\ queues'.failures = Tail(queues.failures)
    BY <2>1 DEF QueueTypes
  <2>3. Head(queues.failures) = queues.failures[1] /\ 1 \in 1 .. Len(queues.failures)
    BY <2>1 DEF QueueTypes
  <2>4. \A i \in 1 .. Len(queues'.failures) :
          i + 1 \in 1 .. Len(queues.failures) /\ queues'.failures[i] = queues.failures[i + 1]
    BY <2>1, <2>2 DEF QueueTypes
  <2>5. ASSUME Head(queues.failures) = 1 => authorization \in 1 .. 2, StatusSays, ~ shut
        PROVE  StatusSays'
    BY <2>1, <2>5 DEF StatusSays, PublishFailure, Record, Reported
  <2>6. QED
    BY <2>1, <2>2, <2>3, <2>4, <2>5 DEF SettledInv
<1>13. CASE PublishAuthorizations
  <2>1. /\ thread = "publishQueued" /\ thread' = thread
        /\ queues' = [queues EXCEPT !["authorizations"] = Tail(@)]
        /\ queues.authorizations # <<>>
        /\ UNCHANGED <<seen, listening, authorization, changed, shut>>
        /\ PublishAuthorization(Head(queues.authorizations))
    BY <1>13 DEF PublishAuthorizations, Drain, IsNext, mac
  <2>2. queues.locations = <<>> /\ queues.failures = <<>>
    BY <1>13 DEF PublishAuthorizations, Drain, IsNext, Kinds
  <2>3. /\ QueueTypes' /\ UNCHANGED <<queues.locations, queues.failures>>
        /\ queues'.authorizations = Tail(queues.authorizations)
    BY <2>1 DEF QueueTypes
  <2>4. IF queues'.authorizations = <<>>
        THEN Head(queues.authorizations) = LastTold(queues.authorizations)
        ELSE LastTold(queues'.authorizations) = LastTold(queues.authorizations)
    BY <2>1, <2>3, LastOfTail DEF QueueTypes
  <2>5. ASSUME ~ changed, ~ shut, queues'.authorizations = <<>> PROVE StatusSays'
    BY <2>1, <2>4, <2>5, MeaningIsSaid DEF SettledInv
  <2>6. QED
    BY <2>1, <2>2, <2>3, <2>4, <2>5 DEF SettledInv
<1>14. QED
  BY <1>1, <1>2, <1>3, <1>4, <1>5, <1>6, <1>7, <1>8, <1>9, <1>10, <1>11, <1>12, <1>13 DEF Thread

(* What the caller does touches the thread only to start it, and records   *)
(* no status before the thread is gone.                                    *)
LEMMA CallerSettles ==
  ASSUME PermissionInv, OpenInv, platform = "darwin", CallerAct
  PROVE  PermissionInv' /\ platform' = platform
<1> USE DEF port, sink, coreVars, nativeSession, mac, callerVars
<1>1. UNCHANGED <<platform, seen, listening, queues, authorization, changed>>
  BY DEF CallerAct, Normalize, FactoryFails, NilContext, Opening, StartNative, Started, Abandoned,
         StartExpired, Teardown, Closing, StopCancel, StopTake, StopCall, StopSpin, StopTeardown, StopWait
<1>2. thread' = thread \/ (thread = "off" /\ thread' = "open")
  BY DEF CallerAct, Normalize, FactoryFails, NilContext, Opening, StartNative, Started, Abandoned,
         StartExpired, Teardown, Closing, StopCancel, StopTake, StopCall, StopSpin, StopTeardown, StopWait,
         Proceed, OpenInv, CallerInv, Early
<1>3. thread = "gone" \/ UNCHANGED status
  BY DEF CallerAct, Normalize, FactoryFails, NilContext, Opening, StartNative, Started, Abandoned,
         StartExpired, Teardown, Closing, StopCancel, StopTake, StopCall, StopSpin, StopTeardown, StopWait, RunOver
<1>4. shut' = shut \/ shut'
  BY DEF CallerAct, Normalize, FactoryFails, NilContext, Opening, StartNative, Started, Abandoned,
         StartExpired, Teardown, Closing, StopCancel, StopTake, StopCall, StopSpin, StopTeardown, StopWait
<1>5. QueueTypes'
  BY <1>1 DEF PermissionInv, QueueTypes
<1>6. QED
  BY <1>1, <1>2, <1>3, <1>4, <1>5 DEF PermissionInv, SettledInv, StatusSays, Live, Turning

(* On macOS every step keeps it; the platform stays what it is.            *)
LEMMA PermissionStep ==
  OpenInv /\ MacInv /\ [Next]_vars => MacInv'
<1> SUFFICES ASSUME OpenInv, MacInv, [Next]_vars, platform' = "darwin"
             PROVE  PermissionInv'
  BY DEF MacInv
<1>1. platform = "darwin"
  BY DEF Next, vars, callerVars, Normalize, FactoryFails, NilContext, Opening, StartNative, Started, Abandoned,
         StartExpired, Teardown, Closing, StopCancel, StopTake, StopCall, StopSpin, StopTeardown,
         StopWait, Linux, Darwin, WinNT, System
<1>2. PermissionInv
  BY <1>1 DEF MacInv
<1>3. CASE UNCHANGED vars
  BY <1>3, <1>2 DEF vars, coreVars, nativeSession, mac, sink, PermissionInv, QueueTypes, SettledInv,
                    StatusSays
<1>4. CASE CallerAct
  BY <1>1, <1>4, <1>2, CallerSettles
<1>5. CASE Thread
  BY <1>1, <1>5, <1>2, ThreadSettles DEF OpenInv
<1>6. CASE Callback
  BY <1>1, <1>6, <1>2, CallbackSettles, CoreAssumption
<1>7. CASE Authorize
  BY <1>1, <1>7, <1>2, AuthorizeSettles
<1>8. CASE SendAnswer /\ WinNT
  BY <1>8, <1>2 DEF SendAnswer, WinNT, coreVars, nativeSession, mac, sink, PermissionInv,
                    QueueTypes, SettledInv, StatusSays
<1>9. QED
  BY <1>1, <1>3, <1>4, <1>5, <1>6, <1>7, <1>8, OwnPlatform DEF Next, CallerAct, System

(* However callbacks of three kinds met in a turn of the run loop, once    *)
(* they are published, by kind, the status says what access there is, if   *)
(* the delegate has been told (corelocation.go:532).                       *)
THEOREM PermissionsAreCurrent == Spec => []PermissionIsCurrent
<1>1. Init => MacInv
  BY NothingIsQueued DEF MacInv, Init, CoreInit, PermissionInv, SettledInv, Live, Turning
<1>2. MacInv => PermissionIsCurrent
  <2> SUFFICES ASSUME PermissionInv, thread = "check", ~ changed, ~ shut PROVE StatusSays
    BY DEF MacInv, PermissionIsCurrent, StatusSays
  <2>1. queues = NothingQueued
    BY DEF PermissionInv, Turning
  <2>2. QED
    BY <2>1, NothingIsQueued DEF PermissionInv, SettledInv, Live
<1>3. QED
  BY <1>1, <1>2, OpenInvariant, PermissionStep, PTL DEF Spec

-----------------------------------------------------------------------------
(* Types. What is left once the invariants above have said where each      *)
(* thread is and what it has: the status, the options, the calls yet to be *)
(* made and the parts of the systems.                                      *)
States      == {"Starting", "Ready", "Reconnecting", "Unavailable", "Disabled", "Closed"}
Permissions == {"Unknown", "PromptRequired", "Granted", "Denied", "Restricted"}
StatusTypes == [state : States, permission : Permissions]

PortTypes ==
  DOMAIN opts = DOMAIN Unset /\ shut \in BOOLEAN /\ status \in StatusTypes

Calls == {"GetClient", "DesktopId", "RequestedAccuracyLevel", "DistanceThreshold",
          "TimeThreshold", "AddMatch", "Start"}

BusTypes ==
  /\ todo \in Seq(Calls) /\ (pc = "setup" <=> todo # <<>>)
  /\ target \in 0 .. 3 /\ alive \in BOOLEAN /\ signals \in 0 .. MaxSignals
  /\ cancelled \in BOOLEAN /\ bus \in {"unsure", "well", "silent"}

MacTypes ==
  /\ thread \in {"off", "open", "created", "read", "publish", "request", "live", "check",
                 "turn", "publishQueued", "close", "gone"}
  /\ made \subseteq Objects /\ (listening = TRUE => made = Objects)
  /\ Queued <= MaxCallbacks
  /\ authorization \in Authorizations /\ seen \in Authorizations \cup {0}
  /\ changed \in BOOLEAN /\ stopCh \in BOOLEAN

WinTypes ==
  /\ asker \in {"none", "waiting", "answered", "ended"}
  /\ asker \in {"answered", "ended"} => access # <<>>
  /\ awaiting \in BOOLEAN /\ expired \in BOOLEAN /\ passed \subseteq {"reader", "handler"}
  /\ os \in Statuses

TypeInv == PortTypes /\ BusTypes /\ MacTypes /\ WinTypes

(* Whatever is recorded is a status.                                       *)
LEMMA RecordTypes ==
  ASSUME status \in StatusTypes
  PROVE  /\ \A s \in States, p \in Permissions : Record(s, p) => status' \in StatusTypes
         /\ MarkReady => status' \in StatusTypes
         /\ PublishFix => status' \in StatusTypes
         /\ Readied \in StatusTypes
         /\ \A s : WindowsMeaning(s) \in StatusTypes
         /\ Reported("Starting", "Granted") \in StatusTypes
         /\ [status EXCEPT !.state = "Closed"] \in StatusTypes
<1>1. \A s \in States, p \in Permissions : Reported(s, p) \in StatusTypes
  BY DEF StatusTypes, Reported
<1>2. Readied \in StatusTypes
  BY DEF StatusTypes, States, Permissions, Readied, Settled
<1>3. \A s : WindowsMeaning(s) \in StatusTypes
  BY <1>1 DEF WindowsMeaning, States, Permissions
<1>4. Reported("Starting", "Granted") \in StatusTypes
  BY <1>1 DEF States, Permissions
<1>5. [status EXCEPT !.state = "Closed"] \in StatusTypes
  BY DEF StatusTypes, States
<1>6. QED
  BY <1>1, <1>2, <1>3, <1>4, <1>5 DEF Record, MarkReady, PublishFix

(* An authorization is published as one.                                   *)
LEMMA MeaningTypes ==
  ASSUME status \in StatusTypes, NEW a
  PROVE  PublishAuthorization(a) => status' \in StatusTypes
<1>1. AuthorizationMeaning(a).state \in States /\ AuthorizationMeaning(a).permission \in Permissions
  BY DEF AuthorizationMeaning, Meaning, States, Permissions
<1>2. QED
  BY <1>1, RecordTypes DEF PublishAuthorization

(* The calls of a set-up are made one by one, until none is left.          *)
LEMMA SetupTypes == SetupCalls \in Seq(Calls) /\ SetupCalls # <<>>
<1> DEFINE First  == <<"GetClient", "DesktopId", "RequestedAccuracyLevel">>
           Second == IF opts.distance THEN <<"DistanceThreshold">> ELSE <<>>
           Third  == IF opts.interval THEN <<"TimeThreshold">> ELSE <<>>
           Fourth == <<"AddMatch", "Start">>
<1>1. First \in Seq(Calls) /\ Second \in Seq(Calls) /\ Third \in Seq(Calls)
        /\ Fourth \in Seq(Calls)
  <2>1. First \in Seq(Calls)
    BY DEF Calls
  <2>2. Fourth \in Seq(Calls)
    BY DEF Calls
  <2>3. <<>> \in Seq(Calls) /\ <<"DistanceThreshold">> \in Seq(Calls)
    BY DEF Calls
  <2>4. <<"TimeThreshold">> \in Seq(Calls)
    BY DEF Calls
  <2>5. QED
    BY <2>1, <2>2, <2>3, <2>4
<1>2. Len(First) = 3
  OBVIOUS
<1>3. SetupCalls = First \o Second \o Third \o Fourth
  BY DEF SetupCalls
<1> HIDE DEF First, Second, Third, Fourth
<1>4. SetupCalls \in Seq(Calls) /\ Len(SetupCalls) # 0
  BY <1>1, <1>2, <1>3
<1>5. QED
  BY <1>4

(* There is a next call as long as the last has not been made.             *)
LEMMA CallsLeft ==
  ASSUME NEW t \in Seq(Calls), t # <<>>
  PROVE  Tail(t) \in Seq(Calls) /\ (Len(t) = 1 <=> Tail(t) = <<>>)
<1>1. PICK n \in Nat : n = Len(t)
  OBVIOUS
<1>2. n # 0
  BY <1>1
<1>3. Tail(t) \in Seq(Calls) /\ Len(Tail(t)) = n - 1
  BY <1>1, <1>2
<1>4. \A s \in Seq(Calls) : Len(s) = 0 <=> s = <<>>
  OBVIOUS
<1>5. n - 1 = 0 <=> Tail(t) = <<>>
  BY <1>3, <1>4
<1>6. QED
  BY <1>1, <1>2, <1>3, <1>5

(* Every step of the run goroutine, and of the bus, keeps the types.       *)
LEMMA RunTypes ==
  ASSUME TypeInv, Run, UNCHANGED target
  PROVE  PortTypes' /\ BusTypes'
<1> USE DEF TypeInv, PortTypes, BusTypes, Goto, session, sink
<1>1. CASE OpenSession
  <2>1. /\ todo' = Tail(todo) /\ pc = "setup" /\ pc' = (IF Len(todo) = 1 THEN "adopt" ELSE "setup")
        /\ UNCHANGED <<opts, shut, status, alive, signals, cancelled, bus>>
    BY <1>1 DEF OpenSession
  <2>2. QED
    BY <2>1, CallsLeft
<1>2. CASE Auth
  BY <1>2, SetupTypes DEF Auth
<1>3. CASE DialFails \/ AuthFails
  BY <1>3 DEF DialFails, AuthFails
<1>9. CASE Dial \/ OpenSessionFails
  <2>1. 0 \in 0 .. MaxSignals
    BY GeoClueAssumption
  <2>2. CASE Dial
    BY <2>1, <2>2 DEF Dial
  <2>3. CASE OpenSessionFails
    <3>1. /\ pc' = "failed" /\ todo' = <<>> /\ alive' = FALSE /\ signals' = 0
          /\ UNCHANGED <<opts, shut, status, cancelled, bus>>
      BY <2>3 DEF OpenSessionFails
    <3>2. <<>> \in Seq(Calls)
      OBVIOUS
    <3>3. QED
      BY <2>1, <3>1, <3>2
  <2>4. QED
    BY <1>9, <2>2, <2>3
<1>4. CASE Adopt \/ GetLocation \/ Retry \/ GiveUp \/ Answer
  BY <1>4 DEF Adopt, GetLocation, Retry, GiveUp, Answer, Connected
<1>5. CASE StepDone \/ StepClosed \/ StepPing \/ Ping \/ CloseStop \/ Forget \/ Stopped
  BY <1>5 DEF StepDone, StepClosed, StepPing, Ping, CloseStop, Forget, Stopped
<1>6. CASE StepSignal \/ CloseConn
  <2>1. signals' \in 0 .. MaxSignals
    BY <1>6, GeoClueAssumption DEF StepSignal, CloseConn
  <2>2. QED
    BY <1>6, <2>1 DEF StepSignal, CloseConn
<1>7. CASE PublishStarted \/ Lost \/ Redial \/ RedialFailed \/ Backoff
  <2>1. status' \in StatusTypes
    BY <1>7, RecordTypes
    DEF PublishStarted, Lost, Redial, RedialFailed, Backoff, PublishLost, PublishReconnecting,
        PublishDenied, States, Permissions
  <2>2. QED
    BY <1>7, <2>1 DEF PublishStarted, Lost, Redial, RedialFailed, Backoff
<1>8. CASE PublishInitialFix \/ PublishSignal
  <2>1. status' \in StatusTypes
    BY <1>8, RecordTypes DEF PublishInitialFix, PublishSignal
  <2>2. QED
    BY <1>8, <2>1 DEF PublishInitialFix, PublishSignal, Connected
<1>10. QED
  BY <1>1, <1>2, <1>3, <1>4, <1>5, <1>6, <1>7, <1>8, <1>9 DEF Run

(* Whatever becomes of the bus, its parts keep their types.                *)
LEMMA BusStepTypes ==
  ASSUME TypeInv, Bus, UNCHANGED target
  PROVE  PortTypes' /\ BusTypes'
<1> USE DEF TypeInv, PortTypes, BusTypes, session, backend, sink
<1>1. CASE Signal
  <2>1. signals' \in 0 .. MaxSignals
    BY <1>1, GeoClueAssumption DEF Signal
  <2>2. QED
    BY <1>1, <2>1 DEF Signal
<1>2. CASE Die \/ FallSilent \/ Recover
  BY <1>2 DEF Die, FallSilent, Recover
<1>3. QED
  BY <1>1, <1>2 DEF Bus

(* A turn queues no more than it may, and publishing only takes away.      *)
LEMMA QueuedTypes ==
  ASSUME PermissionInv, PermissionInv', CoreInv, Queued <= MaxCallbacks, Thread \/ Callback
  PROVE  Queued' <= MaxCallbacks
<1>1. QueueTypes /\ QueueTypes'
  BY DEF PermissionInv
<1>2. PICK l \in Nat, f \in Nat, a \in Nat :
        l = Len(queues.locations) /\ f = Len(queues.failures) /\ a = Len(queues.authorizations)
  BY <1>1 DEF QueueTypes
<1>3. Queued = l + f + a /\ MaxCallbacks \in Nat
  BY <1>2, CoreAssumption DEF Queued
<1>4. CASE Callback
  <2>1. Queued < MaxCallbacks
    BY <1>4 DEF Callback, DidUpdateLocations, DidFail, DidChangeAuthorization, Enqueue
  <2>2. Queued' = Queued + 1
    <3>1. CASE DidUpdateLocations
      <4>1. queues' = [queues EXCEPT !["locations"] = Append(@, "location")]
        BY <3>1 DEF DidUpdateLocations, Enqueue
      <4>2. Len(queues'.locations) = Len(queues.locations) + 1
        BY <1>1, <4>1 DEF QueueTypes
      <4>3. UNCHANGED <<queues.failures, queues.authorizations>>
        BY <1>1, <4>1 DEF QueueTypes
      <4>4. QED
        <5>1. Queued' = (l + 1) + f + a
          BY <1>2, <4>2, <4>3 DEF Queued
        <5>2. QED
          BY <1>3, <5>1
    <3>2. ASSUME NEW code \in 0 .. 1, DidFail(code) PROVE Queued' = Queued + 1
      <4>1. queues' = [queues EXCEPT !["failures"] = Append(@, code)]
        BY <3>2 DEF DidFail, Enqueue
      <4>2. Len(queues'.failures) = Len(queues.failures) + 1
        BY <1>1, <4>1 DEF QueueTypes
      <4>3. UNCHANGED <<queues.locations, queues.authorizations>>
        BY <1>1, <4>1 DEF QueueTypes
      <4>4. QED
        <5>1. Queued' = l + (f + 1) + a
          BY <1>2, <4>2, <4>3 DEF Queued
        <5>2. QED
          BY <1>3, <5>1
    <3>3. CASE DidChangeAuthorization
      <4>1. queues' = [queues EXCEPT !["authorizations"] = Append(@, authorization)]
        BY <3>3 DEF DidChangeAuthorization, Enqueue
      <4>2. Len(queues'.authorizations) = Len(queues.authorizations) + 1
        BY <1>1, <4>1 DEF QueueTypes
      <4>3. UNCHANGED <<queues.locations, queues.failures>>
        BY <1>1, <4>1 DEF QueueTypes
      <4>4. QED
        <5>1. Queued' = l + f + (a + 1)
          BY <1>2, <4>2, <4>3 DEF Queued
        <5>2. QED
          BY <1>3, <5>1
    <3>4. QED
      BY <1>4, <3>1, <3>2, <3>3 DEF Callback
  <2>3. QED
    BY <1>3, <2>1, <2>2
<1>5. ASSUME NEW kind \in {"locations", "failures", "authorizations"}, Drain(kind)
      PROVE  Queued' <= MaxCallbacks
  <2>1. Queued' = Queued - 1
    <3>1. CASE kind = "locations"
      <4>1. queues.locations # <<>> /\ queues' = [queues EXCEPT !["locations"] = Tail(@)]
        BY <1>5, <3>1 DEF Drain, IsNext
      <4>2. Len(queues'.locations) = Len(queues.locations) - 1
        BY <1>1, <4>1 DEF QueueTypes
      <4>3. UNCHANGED <<queues.failures, queues.authorizations>>
        BY <1>1, <4>1 DEF QueueTypes
      <4>4. QED
        BY <1>2, <1>3, <4>2, <4>3 DEF Queued
    <3>2. CASE kind = "failures"
      <4>1. queues.failures # <<>> /\ queues' = [queues EXCEPT !["failures"] = Tail(@)]
        BY <1>5, <3>2 DEF Drain, IsNext
      <4>2. Len(queues'.failures) = Len(queues.failures) - 1
        BY <1>1, <4>1 DEF QueueTypes
      <4>3. UNCHANGED <<queues.locations, queues.authorizations>>
        BY <1>1, <4>1 DEF QueueTypes
      <4>4. QED
        BY <1>2, <1>3, <4>2, <4>3 DEF Queued
    <3>3. CASE kind = "authorizations"
      <4>1. queues.authorizations # <<>> /\ queues' = [queues EXCEPT !["authorizations"] = Tail(@)]
        BY <1>5, <3>3 DEF Drain, IsNext
      <4>2. Len(queues'.authorizations) = Len(queues.authorizations) - 1
        BY <1>1, <4>1 DEF QueueTypes
      <4>3. UNCHANGED <<queues.locations, queues.failures>>
        BY <1>1, <4>1 DEF QueueTypes
      <4>4. QED
        BY <1>2, <1>3, <4>2, <4>3 DEF Queued
    <3>4. QED
      BY <3>1, <3>2, <3>3
  <2>2. QED
    BY <1>3, <2>1
<1>6. CASE SessionClosed
  BY <1>6, CoreAssumption DEF SessionClosed, NothingQueued, Queued
<1>7. CASE UNCHANGED queues
  BY <1>7 DEF Queued
<1>8. Thread => UNCHANGED queues \/ SessionClosed
                  \/ \E kind \in {"locations", "failures", "authorizations"} : Drain(kind)
  BY DEF Thread, FindManagerFails, CreateSessionObjects, CreateFails, Configure, ReadAuthorization,
         PublishSeen, RequestAuthorization, RequestRefused, GoLive, SpinTurn, SpinStops, EndTurn,
         PublishLocations, PublishFailures, PublishAuthorizations, PublishedQueued, CloseSession,
         nativeSession
<1>9. QED
  BY <1>4, <1>5, <1>6, <1>7, <1>8

(* Every step of the locked thread, its callbacks and the user keeps the   *)
(* types.                                                                  *)
LEMMA ThreadTypes ==
  ASSUME TypeInv, PermissionInv, PermissionInv', CoreInv, Thread \/ Callback \/ Authorize
  PROVE  PortTypes' /\ MacTypes'
<1> USE DEF TypeInv, PortTypes, MacTypes, At, nativeSession, mac, sink
<1>1. CASE Callback \/ Authorize
  <2>1. Queued' <= MaxCallbacks
    BY <1>1, QueuedTypes DEF Authorize, Queued
  <2>2. CASE Callback
    BY <2>1, <2>2 DEF Callback, DidUpdateLocations, DidFail, DidChangeAuthorization, Enqueue
  <2>3. CASE Authorize
    <3>1. listening \in BOOLEAN
      BY DEF PermissionInv
    <3>2. QED
      BY <2>1, <2>3, <3>1 DEF Authorize, port
  <2>4. QED
    BY <1>1, <2>2, <2>3
<1>2. CASE Thread
  <2>1. Queued' <= MaxCallbacks
    BY <1>2, QueuedTypes
  <2>2. CASE FindManagerFails \/ GoLive
    BY <2>1, <2>2 DEF FindManagerFails, GoLive
  <2>3. CASE ReadAuthorization
    BY <2>1, <2>3 DEF ReadAuthorization
  <2>4. CASE SpinTurn \/ SpinStops \/ EndTurn \/ PublishedQueued
    BY <2>1, <2>4 DEF SpinTurn, SpinStops, EndTurn, PublishedQueued
  <2>5. CASE CreateSessionObjects
    <3>1. made' \subseteq Objects
      BY <2>5 DEF CreateSessionObjects, Makeable, Objects, Kinds
    <3>2. listening' = FALSE
      BY <2>5 DEF CreateSessionObjects, PermissionInv, Live, Turning
    <3>3. QED
      BY <2>1, <2>5, <3>1, <3>2 DEF CreateSessionObjects
  <2>6. CASE CreateFails
    <3>1. listening' = FALSE
      BY <2>6 DEF CreateFails, PermissionInv, Live, Turning
    <3>2. QED
      BY <2>1, <2>6, <3>1 DEF CreateFails
  <2>7. CASE RequestRefused \/ CloseSession \/ Configure
    BY <2>1, <2>7 DEF RequestRefused, CloseSession, Configure, SessionClosed
  <2>8. CASE PublishSeen \/ RequestAuthorization
    <3>1. status' \in StatusTypes
      BY <2>8, RecordTypes, MeaningTypes DEF PublishSeen, RequestAuthorization, States, Permissions
    <3>2. QED
      BY <2>1, <2>8, <3>1 DEF PublishSeen, RequestAuthorization
  <2>9. CASE PublishLocations \/ PublishFailures \/ PublishAuthorizations
    <3>1. status' \in StatusTypes
      BY <2>9, RecordTypes, MeaningTypes
      DEF PublishLocations, PublishFailures, PublishAuthorizations, PublishFailure, States,
          Permissions
    <3>2. QED
      BY <2>1, <2>9, <3>1 DEF PublishLocations, PublishFailures, PublishAuthorizations, Drain
  <2>10. QED
    BY <1>2, <2>2, <2>5, <2>6, <2>7, <2>8, <2>9, <2>3, <2>4 DEF Thread
<1>3. QED
  BY <1>1, <1>2

(* Every step on Windows does, of Start and Stop, the threads and the      *)
(* system.                                                                 *)
LEMMA WinStepTypes ==
  ASSUME TypeInv, StartOrStop \/ Callbacks \/ SendAnswer \/ Windows
  PROVE  PortTypes' /\ WinTypes'
<1> USE DEF TypeInv, PortTypes, WinTypes, OnLine, StartFails, startStop, requests, publishers, port,
            sink
<1>1. CASE PublishAsking \/ AccessAllowed \/ AccessDenied \/ PublishRead
  <2>1. status' \in StatusTypes
    BY <1>1, RecordTypes DEF PublishAsking, AccessAllowed, AccessDenied, PublishRead, States,
                             Permissions
  <2>2. QED
    BY <1>1, <2>1 DEF PublishAsking, AccessAllowed, AccessDenied, PublishRead
<1>2. CASE RequestFails \/ RequestAccess \/ AwaitExpired \/ AccessUnsettled
  BY <1>2 DEF RequestFails, RequestAccess, AwaitExpired, AccessUnsettled
<1>3. CASE BuildStep \/ BuildFails \/ Unwound \/ Adopted \/ ReadStatus \/ StartInitialRead
             \/ Release \/ TornDown
  BY <1>3 DEF BuildStep, BuildFails, Unwound, Adopted, ReadStatus, StartInitialRead, Release,
              TornDown
<1>4. CASE Callbacks
  <2>1. status' \in StatusTypes
    BY <1>4, RecordTypes DEF Callbacks, InitialPosition, StatusChanged, PublishStatusChange,
                             PublishPosition
  <2>2. QED
    BY <1>4, <2>1 DEF Callbacks, InitialPosition, StatusChanged, PublishStatusChange,
                      PublishPosition
<1>5. CASE SendAnswer \/ Windows
  <2>1. AccessAnswered => access' # <<>>
    BY DEF AccessAnswered
  <2>2. os' \in Statuses
    BY <1>5 DEF SendAnswer, Windows, AccessAnswered, PositionChanged, LocationStatusChanges
  <2>3. QED
    BY <1>5, <2>1, <2>2
    DEF SendAnswer, Windows, AccessAnswered, PositionChanged, LocationStatusChanges
<1>6. QED
  BY <1>1, <1>2, <1>3, <1>4, <1>5 DEF StartOrStop

(* And every step of Open and Close.                                       *)
LEMMA CallerTypes ==
  ASSUME TypeInv, OpenInv, CallerAct
  PROVE  TypeInv'
<1> USE DEF TypeInv, PortTypes, BusTypes, MacTypes, WinTypes, Proceed, port, sink, geoClueVars,
            session, coreVars, nativeSession, mac, winVars, startStop, requests, publishers,
            callerVars
<1>1. UNCHANGED queues => Queued' = Queued
  BY DEF Queued
<1>2. CASE StartNative
  <2>1. platform \in {"linux", "darwin", "windows"} /\ opts' = ProviderOptions(used[1])
    BY <1>2 DEF StartNative, OpenInv, CallerInv
  <2>2. caller = "normalized" /\ pc = "off" /\ pc' # "setup"
    BY <1>2 DEF StartNative, OpenInv, CallerInv, Early
  <2>3. thread' = thread \/ thread' = "open"
    BY <1>2, <2>1 DEF StartNative
  <2>4. DOMAIN opts' = DOMAIN Unset
    BY <2>1 DEF ProviderOptions, Unset
  <2>5. UNCHANGED <<todo, alive, signals, bus, made, listening, queues, authorization, seen, changed,
                    stopCh, asker, access, awaiting, passed, os, expired, cancelled, target, shut,
                    status>>
    BY <1>2 DEF StartNative
  <2>6. QED
    BY <1>1, <2>2, <2>3, <2>4, <2>5
<1>3. CASE StopWait
  BY <1>1, <1>3, RecordTypes DEF StopWait
<1>4. CASE StopTake
  BY <1>1, <1>4 DEF StopTake, OpenInv, ConnInv, NoSession
<1>5. CASE FactoryFails \/ NilContext \/ Started \/ Abandoned \/ (\E c \in Configs : Normalize(c))
  <2>1. UNCHANGED <<opts, shut, status, geoClueVars, coreVars, winVars, target>>
    BY <1>5 DEF FactoryFails, NilContext, Started, Abandoned, Normalize
  <2>2. QED
    BY <1>1, <2>1
<1>6. CASE StartExpired \/ StopCancel \/ StopCall \/ StopSpin
  <2>1. /\ cancelled' = TRUE \/ UNCHANGED cancelled
        /\ stopCh' = TRUE \/ UNCHANGED stopCh
        /\ expired' = TRUE \/ UNCHANGED expired
        /\ target' = 0 \/ UNCHANGED target
    BY <1>6 DEF StartExpired, StopCancel, StopCall, StopSpin
  <2>2. UNCHANGED <<opts, shut, status, pc, session, bus, thread, seen, nativeSession, mac, asker,
                    access, publishers>>
    BY <1>6 DEF StartExpired, StopCancel, StopCall, StopSpin
  <2>3. cancelled' \in BOOLEAN /\ stopCh' \in BOOLEAN
    BY <2>1
  <2>4. expired' \in BOOLEAN
    BY <2>1
  <2>5. target' \in 0 .. 3
    BY <2>1
  <2>6. QED
    BY <1>1, <2>2, <2>3, <2>4, <2>5
<1>7. CASE Teardown \/ StopTeardown
  <2>1. /\ shut' \in BOOLEAN
        /\ UNCHANGED <<opts, status, geoClueVars, coreVars, requests, publishers, target>>
    BY <1>7 DEF Teardown, StopTeardown, TakeSession
  <2>2. QED
    BY <1>1, <2>1
<1>8. QED
  BY <1>2, <1>3, <1>4, <1>5, <1>6, <1>7 DEF CallerAct, Opening, Closing

(* Every step of the program and of its surroundings keeps the types.      *)
LEMMA TypeStep ==
  OpenInv /\ MacInv /\ TypeInv /\ [Next]_vars => TypeInv'
<1> SUFFICES ASSUME OpenInv, MacInv, TypeInv, [Next]_vars PROVE TypeInv'
  OBVIOUS
<1>1. MacInv'
  BY PermissionStep
<1>2. UNCHANGED queues => Queued' = Queued
  BY DEF Queued
<1>3. CASE UNCHANGED vars
  BY <1>2, <1>3 DEF vars, port, sink, geoClueVars, session, coreVars, nativeSession, mac, winVars,
                    startStop, requests, publishers, callerVars, TypeInv, PortTypes, BusTypes,
                    MacTypes, WinTypes
<1>4. CASE CallerAct
  BY <1>4, CallerTypes
<1>5. ASSUME Run \/ Bus, Linux PROVE TypeInv'
  <2>1. PortTypes' /\ BusTypes'
    BY <1>5, RunTypes, BusStepTypes DEF Linux, callerVars
  <2>2. MacTypes' /\ WinTypes'
    BY <1>2, <1>5 DEF Linux, coreVars, nativeSession, mac, winVars, requests, publishers, TypeInv,
                      MacTypes, WinTypes
  <2>3. QED
    BY <2>1, <2>2 DEF TypeInv
<1>6. ASSUME Thread \/ Callback \/ Authorize, Darwin, platform = "darwin" PROVE TypeInv'
  <2>1. platform' = "darwin"
    BY <1>6 DEF Darwin, callerVars
  <2>2. PortTypes' /\ MacTypes'
    BY <1>1, <1>6, <2>1, ThreadTypes DEF MacInv, OpenInv
  <2>3. BusTypes' /\ WinTypes'
    BY <1>6 DEF Darwin, geoClueVars, session, winVars, requests, publishers, callerVars, TypeInv,
                BusTypes, WinTypes
  <2>4. QED
    BY <2>2, <2>3 DEF TypeInv
<1>7. ASSUME StartOrStop \/ Callbacks \/ SendAnswer \/ Windows, WinNT PROVE TypeInv'
  <2>1. PortTypes' /\ WinTypes'
    BY <1>7, WinStepTypes
  <2>2. BusTypes' /\ MacTypes'
    BY <1>2, <1>7 DEF WinNT, geoClueVars, session, coreVars, nativeSession, mac, callerVars, TypeInv,
                      BusTypes, MacTypes
  <2>3. QED
    BY <2>1, <2>2 DEF TypeInv
<1>8. QED
  BY <1>3, <1>4, <1>5, <1>6, <1>7, OwnPlatform DEF Next, CallerAct, System

(* Every variable keeps its type: the goroutine's place agrees with the    *)
(* calls it has yet to make, the objects and events with how far a session *)
(* has come, and no queue outgrows its bound.                              *)
THEOREM OpenTypes == Spec => []TypeOK
<1>1. Init => TypeInv
  <2> SUFFICES ASSUME Init PROVE TypeInv
    OBVIOUS
  <2>1. PortTypes
    BY DEF Init, ProviderInit, PortTypes, StatusTypes, States, Permissions
  <2>2. Queued <= MaxCallbacks
    <3>1. Queued = 0
      <4>1. queues.locations = <<>> /\ queues.failures = <<>> /\ queues.authorizations = <<>>
        BY NothingIsQueued DEF Init, CoreInit
      <4>2. QED
        BY <4>1 DEF Queued
    <3>2. QED
      BY <3>1, CoreAssumption
  <2>3. MacTypes
    BY <2>2, CoreAssumption DEF Init, CoreInit, MacTypes
  <2>4. /\ todo = <<>> /\ pc = "off" /\ target = 0 /\ alive = FALSE /\ signals = 0
        /\ cancelled = FALSE /\ bus = "unsure"
    BY DEF Init, GeoClueInit
  <2>5. BusTypes
    <3>1. <<>> \in Seq(Calls)
      OBVIOUS
    <3>2. 0 \in 0 .. MaxSignals
      BY GeoClueAssumption
    <3>3. todo \in Seq(Calls) /\ (pc = "setup" <=> todo # <<>>)
      BY <2>4, <3>1
    <3>4. target \in 0 .. 3
      BY <2>4
    <3>5. signals \in 0 .. MaxSignals
      BY <2>4, <3>2
    <3>6. alive \in BOOLEAN /\ cancelled \in BOOLEAN /\ bus \in {"unsure", "well", "silent"}
      BY <2>4
    <3>7. QED
      BY <3>3, <3>4, <3>5, <3>6 DEF BusTypes
  <2>6. WinTypes
    BY WinAssumption DEF Init, WinInit, WinTypes
  <2>7. QED
    BY <2>1, <2>3, <2>5, <2>6 DEF TypeInv
<1>2. OpenInv /\ MacInv /\ TypeInv => TypeOK
  <2> SUFFICES ASSUME OpenInv, MacInv, TypeInv PROVE TypeOK
    OBVIOUS
  <2>1. GeoClueTypeOK
    BY DEF OpenInv, ConnInv, NoSession, Dialling, InSession, DialInv, TypeInv, BusTypes,
           GeoClueTypeOK
  <2>2. CoreTypeOK
    BY DEF OpenInv, CoreInv, TypeInv, MacTypes, CoreTypeOK
  <2>3. WinTypeOK
    BY DEF OpenInv, WinInv, TypeInv, WinTypes, WinTypeOK, Resources, Tokens
  <2>4. QED
    BY <2>1, <2>2, <2>3
    DEF TypeOK, OpenInv, CallerInv, Callers, Early, Active, TypeInv, PortTypes, StatusTypes, States,
        Permissions
<1>3. Init => MacInv
  BY NothingIsQueued DEF MacInv, Init, CoreInit, PermissionInv, SettledInv, Live, Turning
<1>4. QED
  BY <1>1, <1>2, <1>3, OpenInvariant, PermissionStep, TypeStep, PTL DEF Spec

=============================================================================
