-------------------------- MODULE AdmissionProofs --------------------------
(***************************************************************************)
(* The gate for any rules, any samples and any number of publishers.       *)
(***************************************************************************)
EXTENDS Admission, TLAPS

Num == Int \cup {NaN}

(* A fix as it reaches the gate: its numbers may be anything, its times    *)
(* are stamped.                                                            *)
Stamped == [lat : Num, lon : Num, acc : Num, timestamp : Int, received : Int]

ClockOK == /\ elapsed \in Nat /\ elapsed <= MaxTime /\ offset \in Int
           /\ steps \in 0 .. MaxSteps
           /\ setBack \in BOOLEAN /\ setForward \in BOOLEAN

CallOK ==
  /\ call \in [Publishers ->
       {<<>>} \cup [fix : Stamped, now : Int, arrived : Nat]]
  /\ \A p \in Publishers : call[p] # <<>> => call[p].arrived <= elapsed

GateOK ==
  /\ last # <<>> => last \in Stamped /\ Validate(last)
  /\ lastArrived \in Nat /\ lastArrived <= elapsed

StampInv ==
  /\ ClockOK /\ CallOK /\ GateOK
  /\ verdict \in [Publishers -> {"none", "invalid", "stale", "redundant", "admitted"}]

(* Stamping leaves a sample with both of its times.                        *)
LEMMA StampOK ==
  ASSUME NEW lat \in Num, NEW lon \in Num, NEW acc \in Num,
         NEW timestamp \in Int \cup {Unset}, NEW received \in Int \cup {Unset}, NEW t \in Int
  PROVE  Stamp([lat |-> lat, lon |-> lon, acc |-> acc,
                timestamp |-> timestamp, received |-> received], t) \in Stamped
BY GateAssumption DEF Stamp, Stamped

(* A sample is stamped into the call of its publisher.                     *)
LEMMA SampleStep ==
  ASSUME StampInv, NEW p \in Publishers, NEW position \in Positions,
         NEW timestamp \in Int \cup {Unset}, NEW received \in Int \cup {Unset},
         Sample(p, position, timestamp, received)
  PROVE  StampInv'
<1> DEFINE f == Stamp([lat |-> position.lat, lon |-> position.lon, acc |-> position.acc,
                       timestamp |-> timestamp, received |-> received], wall)
<1>1. wall \in Int
  BY DEF wall, StampInv, ClockOK
<1>2. f \in Stamped
  <2>1. position.lat \in Num /\ position.lon \in Num /\ position.acc \in Num
    BY GateAssumption DEF Num
  <2>2. QED
    BY <1>1, <2>1, StampOK
<1>3. /\ call' = [call EXCEPT ![p] = [fix |-> f, now |-> wall, arrived |-> elapsed]]
      /\ verdict' = [verdict EXCEPT ![p] = "none"]
      /\ UNCHANGED <<elapsed, offset, steps, setBack, setForward, last, lastArrived>>
  BY DEF Sample, clocks, gate
<1> HIDE DEF f
<1>4. CallOK'
  BY <1>1, <1>2, <1>3 DEF StampInv, ClockOK, CallOK
<1>5. QED
  BY <1>3, <1>4 DEF StampInv, ClockOK, GateOK, Validate

(* Every answer empties the call; only an admitted fix becomes the         *)
(* baseline, and it has been found usable.                                 *)
LEMMA AnswerStep ==
  ASSUME StampInv, NEW p \in Publishers,
         AdmitInvalid(p) \/ AdmitStale(p) \/ AdmitRedundant(p) \/ Admit(p)
  PROVE  StampInv'
<1>1. call[p] # <<>> /\ call' = [call EXCEPT ![p] = <<>>] /\ UNCHANGED clocks
  BY DEF AdmitInvalid, AdmitStale, AdmitRedundant, Admit, Answer
<1>2. verdict' \in [Publishers -> {"none", "invalid", "stale", "redundant", "admitted"}]
  BY DEF StampInv, AdmitInvalid, AdmitStale, AdmitRedundant, Admit, Answer
<1>3. ClockOK'
  BY <1>1 DEF StampInv, ClockOK, clocks
<1>4. CallOK'
  BY <1>1 DEF StampInv, CallOK, clocks
<1>5. GateOK'
  <2>1. CASE UNCHANGED gate
    BY <1>1, <2>1 DEF StampInv, GateOK, gate, clocks, Validate, InRange, AtMost
  <2>2. CASE Admit(p)
    <3>1. /\ Validate(call[p].fix) /\ last' = call[p].fix
          /\ lastArrived' = call[p].arrived
      BY <2>2 DEF Admit
    <3>2. call[p].fix \in Stamped /\ call[p].arrived \in Nat /\ call[p].arrived <= elapsed
      BY <1>1 DEF StampInv, CallOK
    <3>3. QED
      BY <1>1, <3>1, <3>2 DEF GateOK, clocks, Validate, InRange, AtMost
  <2>3. QED
    BY <2>1, <2>2 DEF AdmitInvalid, AdmitStale, AdmitRedundant
<1>6. QED
  BY <1>2, <1>3, <1>4, <1>5 DEF StampInv

(* The inductive step. The clocks may be set to anything.                  *)
LEMMA StampStep == StampInv /\ [Next]_vars => StampInv'
<1> SUFFICES ASSUME StampInv, [Next]_vars PROVE StampInv'
  OBVIOUS
<1>1. CASE Tick
  BY <1>1, GateAssumption
  DEF Tick, StampInv, ClockOK, CallOK, GateOK, gate, Validate, InRange, AtMost
<1>2. ASSUME NEW d \in Steps, SetClock(d) PROVE StampInv'
  BY <1>2, GateAssumption
  DEF SetClock, StampInv, ClockOK, CallOK, GateOK, gate, Validate, InRange, AtMost
<1>3. ASSUME NEW p \in Publishers, NEW position \in Positions,
             NEW timestamp \in {Unset} \cup {wall - age : age \in Ages},
             NEW received \in {Unset, wall}, Sample(p, position, timestamp, received)
      PROVE  StampInv'
  <2>1. wall \in Int
    BY DEF wall, StampInv, ClockOK
  <2>2. timestamp \in Int \cup {Unset} /\ received \in Int \cup {Unset}
    BY <2>1, GateAssumption
  <2>3. QED
    BY <1>3, <2>2, SampleStep
<1>4. CASE UNCHANGED vars
  BY <1>4 DEF vars, clocks, gate, StampInv, ClockOK, CallOK, GateOK, Validate,
              InRange, AtMost
<1>5. QED
  BY <1>1, <1>2, <1>3, <1>4, AnswerStep DEF Next

(* By how much a sample's received time is off the time it arrived: the    *)
(* clock's offset when it was stamped.                                     *)
Shift(p) == call[p].fix.received - call[p].arrived

LastShift == last.received - lastArrived

(* A clock that was only ever set forward, or only ever back, orders the   *)
(* shifts: what arrives later is shifted no less, or no more.              *)
OneWay(forward) == IF forward THEN ~ setBack ELSE ~ setForward

UpTo(forward, a, b) == IF forward THEN a <= b ELSE b <= a

ShiftsFollow(forward) ==
  OneWay(forward) =>
    /\ \A p \in Publishers : call[p] # <<>> =>
         /\ UpTo(forward, Shift(p), offset)
         /\ \A q \in Publishers : call[q] # <<>> /\ call[p].arrived < call[q].arrived =>
              UpTo(forward, Shift(p), Shift(q))
         /\ last # <<>> =>
              /\ call[p].arrived > lastArrived => UpTo(forward, LastShift, Shift(p))
              /\ call[p].arrived < lastArrived => UpTo(forward, Shift(p), LastShift)
    /\ last # <<>> => UpTo(forward, LastShift, offset)

(* A new sample arrives last of all, and is stamped with the clock as it   *)
(* is.                                                                     *)
LEMMA ShiftedSample ==
  ASSUME StampInv, NEW forward \in BOOLEAN, ShiftsFollow(forward), NEW p \in Publishers, NEW position \in Positions,
         NEW timestamp \in {Unset} \cup {wall - age : age \in Ages},
         NEW received \in {Unset, wall}, Sample(p, position, timestamp, received)
  PROVE  ShiftsFollow(forward)'
<1> DEFINE f == Stamp([lat |-> position.lat, lon |-> position.lon, acc |-> position.acc,
                       timestamp |-> timestamp, received |-> received], wall)
<1>1. f.received = elapsed + offset
  BY DEF Stamp, wall
<1>2. /\ call' = [call EXCEPT ![p] = [fix |-> f, now |-> wall, arrived |-> elapsed]]
      /\ UNCHANGED <<elapsed, offset, setBack, setForward, last, lastArrived>>
  BY DEF Sample, clocks, gate
<1> HIDE DEF f
<1>3. /\ call \in [Publishers -> {<<>>} \cup [fix : Stamped, now : Int, arrived : Nat]]
      /\ \A q \in Publishers : call[q] # <<>> => call[q].arrived <= elapsed
      /\ elapsed \in Nat /\ offset \in Int /\ lastArrived \in Nat /\ lastArrived <= elapsed
  BY DEF StampInv, ClockOK, CallOK, GateOK
<1>4. /\ call'[p].arrived = elapsed /\ Shift(p)' = offset /\ call'[p] # <<>>
      /\ \A q \in Publishers \ {p} : call'[q] = call[q] /\ Shift(q)' = Shift(q)
  BY <1>1, <1>2, <1>3 DEF Shift
<1>5. LastShift' = LastShift
  BY <1>2 DEF LastShift
<1>6. SUFFICES ASSUME OneWay(forward) PROVE ShiftsFollow(forward)'
  BY <1>2 DEF ShiftsFollow, OneWay
<1>7. \A q \in Publishers : call[q] # <<>> => UpTo(forward, Shift(q), offset)
  BY <1>6 DEF ShiftsFollow
<1>8. last # <<>> => UpTo(forward, LastShift, offset)
  BY <1>6 DEF ShiftsFollow
<1>9. ASSUME NEW q \in Publishers, call'[q] # <<>>
      PROVE  /\ UpTo(forward, Shift(q)', offset)
             /\ \A r \in Publishers :
                  call'[r] # <<>> /\ call'[q].arrived < call'[r].arrived =>
                    UpTo(forward, Shift(q)', Shift(r)')
             /\ last # <<>> =>
                  /\ call'[q].arrived > lastArrived => UpTo(forward, LastShift, Shift(q)')
                  /\ call'[q].arrived < lastArrived => UpTo(forward, Shift(q)', LastShift)
  <2>1. CASE q = p
    <3>1. UpTo(forward, offset, offset)
      BY <1>3 DEF UpTo
    <3>2. \A r \in Publishers : call'[r] # <<>> => call'[r].arrived <= elapsed
      BY <1>3, <1>4
    <3>3. QED
      BY <1>3, <1>4, <1>8, <2>1, <3>1, <3>2
  <2>2. CASE q # p
    <3>1. call'[q] = call[q] /\ Shift(q)' = Shift(q) /\ call[q] # <<>>
      BY <1>4, <1>9, <2>2
    <3>2. UpTo(forward, Shift(q), offset)
      BY <1>7, <3>1
    <3>3. \A r \in Publishers :
            call[r] # <<>> /\ call[q].arrived < call[r].arrived => UpTo(forward, Shift(q), Shift(r))
      BY <1>6, <3>1 DEF ShiftsFollow
    <3>4. last # <<>> =>
            /\ call[q].arrived > lastArrived => UpTo(forward, LastShift, Shift(q))
            /\ call[q].arrived < lastArrived => UpTo(forward, Shift(q), LastShift)
      BY <1>6, <3>1 DEF ShiftsFollow
    <3>5. \A r \in Publishers : call'[r] # <<>> /\ call'[q].arrived < call'[r].arrived =>
            UpTo(forward, Shift(q)', Shift(r)')
      BY <1>4, <3>1, <3>2, <3>3
    <3>6. QED
      BY <3>1, <3>2, <3>4, <3>5
  <2>3. QED
    BY <2>1, <2>2
<1>10. QED
  BY <1>2, <1>5, <1>8, <1>9 DEF ShiftsFollow

(* An answered sample leaves the flight, or takes the baseline's place.    *)
LEMMA ShiftedAnswer ==
  ASSUME StampInv, NEW forward \in BOOLEAN, ShiftsFollow(forward), NEW p \in Publishers,
         AdmitInvalid(p) \/ AdmitStale(p) \/ AdmitRedundant(p) \/ Admit(p)
  PROVE  ShiftsFollow(forward)'
<1>1. call[p] # <<>> /\ call' = [call EXCEPT ![p] = <<>>] /\ UNCHANGED clocks
  BY DEF AdmitInvalid, AdmitStale, AdmitRedundant, Admit, Answer
<1>2. /\ DOMAIN call = Publishers
      /\ \A q \in Publishers : call[q] # <<>> => call[q].arrived \in Nat
      /\ lastArrived \in Nat
  BY DEF StampInv, CallOK, GateOK
<1>3. \A q \in Publishers : call'[q] # <<>> => call'[q] = call[q] /\ Shift(q)' = Shift(q)
  BY <1>1, <1>2 DEF Shift, StampInv, CallOK
<1>4. CASE UNCHANGED gate
  BY <1>1, <1>3, <1>4 DEF ShiftsFollow, OneWay, LastShift, gate, clocks
<1>5. CASE Admit(p)
  <2>1. LastShift' = Shift(p) /\ lastArrived' = call[p].arrived
    BY <1>5 DEF Admit, LastShift, Shift
  <2>2. QED
    BY <1>1, <1>2, <1>3, <2>1 DEF ShiftsFollow, OneWay, clocks
<1>6. QED
  BY <1>4, <1>5 DEF AdmitInvalid, AdmitStale, AdmitRedundant

(* Setting the clock moves the offset the way the clock only ever goes.    *)
LEMMA ShiftedClock ==
  ASSUME StampInv, NEW forward \in BOOLEAN, ShiftsFollow(forward),
         NEW d \in Steps, SetClock(d)
  PROVE  ShiftsFollow(forward)'
<1>1. d \in Int /\ offset \in Int
  BY GateAssumption DEF StampInv, ClockOK
<1>2. /\ \A p \in Publishers : call[p] # <<>> => Shift(p) \in Int
      /\ last # <<>> => LastShift \in Int
  BY DEF StampInv, CallOK, GateOK, Stamped, Shift, LastShift
<1>3. /\ offset' = offset + d /\ UNCHANGED <<call, last, lastArrived>>
      /\ setBack' = (setBack \/ d < 0) /\ setForward' = (setForward \/ d > 0)
  BY DEF SetClock, gate
<1>4. UNCHANGED LastShift /\ \A p \in Publishers : UNCHANGED Shift(p)
  BY <1>3 DEF Shift, LastShift
<1>5. SUFFICES ASSUME OneWay(forward)' PROVE ShiftsFollow(forward)'
  BY DEF ShiftsFollow
<1>6. OneWay(forward) /\ UpTo(forward, offset, offset')
  <2>1. CASE forward
    <3>1. ~ setBack /\ ~ (d < 0)
      BY <1>3, <1>5, <2>1 DEF OneWay
    <3>2. QED
      BY <1>1, <1>3, <2>1, <3>1 DEF OneWay, UpTo
  <2>2. CASE ~ forward
    <3>1. ~ setForward /\ ~ (d > 0)
      BY <1>3, <1>5, <2>2 DEF OneWay
    <3>2. QED
      BY <1>1, <1>3, <2>2, <3>1 DEF OneWay, UpTo
  <2>3. QED
    BY <2>1, <2>2
<1>7. /\ \A p \in Publishers : call[p] # <<>> => UpTo(forward, Shift(p), offset')
      /\ last # <<>> => UpTo(forward, LastShift, offset')
  BY <1>1, <1>2, <1>3, <1>6 DEF ShiftsFollow, UpTo
<1>8. QED
  BY <1>3, <1>4, <1>6, <1>7 DEF ShiftsFollow

(* What is in flight and the baseline are stamped, and as far as the clock *)
(* goes one way only, their stamps are in the order they arrived in.       *)
AdmissionInv == StampInv /\ ShiftsFollow(TRUE) /\ ShiftsFollow(FALSE)

LEMMA AdmissionStep == AdmissionInv /\ [Next]_vars => AdmissionInv'
<1> SUFFICES ASSUME AdmissionInv, [Next]_vars PROVE AdmissionInv'
  OBVIOUS
<1>1. StampInv'
  BY StampStep DEF AdmissionInv
<1>2. ASSUME NEW forward \in BOOLEAN, ShiftsFollow(forward) PROVE ShiftsFollow(forward)'
  <2>1. CASE Tick \/ UNCHANGED vars
    BY <1>2, <2>1 DEF Tick, ShiftsFollow, OneWay, Shift, LastShift, gate, vars, clocks
  <2>2. QED
    BY <1>2, <2>1, ShiftedClock, ShiftedSample, ShiftedAnswer DEF AdmissionInv, Next
<1>3. QED
  BY <1>1, <1>2 DEF AdmissionInv

(* The inductive invariant holds of every behaviour.                       *)
THEOREM AdmissionInvariant == Spec => []AdmissionInv
<1>1. Init => StampInv
  <2>1. Init => ClockOK
    <3>1. MaxTime \in Nat /\ MaxSteps \in Nat
      BY GateAssumption
    <3>2. Init => setBack \in BOOLEAN /\ setForward \in BOOLEAN
      BY DEF Init
    <3>3. QED
      BY <3>1, <3>2 DEF Init, ClockOK
  <2>2. Init => CallOK /\ GateOK
    BY GateAssumption DEF Init, CallOK, GateOK
  <2>3. QED
    BY <2>1, <2>2 DEF Init, StampInv
<1>2. Init => ShiftsFollow(TRUE) /\ ShiftsFollow(FALSE)
  BY DEF Init, ShiftsFollow
<1>3. Init => AdmissionInv
  BY <1>1, <1>2 DEF AdmissionInv
<1>4. QED
  BY <1>3, AdmissionStep, PTL DEF Spec

(* Whatever numbers a provider reports and whatever the clock does, the    *)
(* baseline the gate compares with is a position on the globe: Validate's  *)
(* positive range tests let no NaN and no infinity through.                *)
THEOREM BaselineAlwaysUsable == Spec => []BaselineIsUsable
<1>1. ASSUME StampInv, last # <<>> PROVE BaselineIsUsable
  <2>1. last \in Stamped /\ Validate(last)
    BY <1>1 DEF StampInv, GateOK
  <2>2. ASSUME NEW v \in Num, NEW low \in Int, NEW high \in Int, InRange(v, low, high)
        PROVE  v \in low .. high
    BY <2>2 DEF InRange, AtMost, Num
  <2>3. /\ last.lat \in -90 .. 90 /\ last.lon \in -180 .. 180
        /\ last.acc \in 0 .. MaxFloat
    BY <2>1, <2>2, GateAssumption DEF Validate, Stamped
  <2>4. QED
    BY <2>1, <2>3 DEF BaselineIsUsable, Stamped
<1>2. QED
  <2>1. AdmissionInv => BaselineIsUsable
    BY <1>1 DEF AdmissionInv, BaselineIsUsable
  <2>2. QED
    BY <2>1, AdmissionInvariant, PTL

(* An admitted fix and the one before it: their stamps are the interval    *)
(* apart, and so are their arrivals, by what their shifts say.             *)
LEMMA ApartStep ==
  ASSUME AdmissionInv, NEW p \in Publishers, Admit(p), last # <<>>, MinimumInterval > 0
  PROVE  /\ ~ setBack => lastArrived' >= lastArrived
         /\ ~ setForward => \/ lastArrived' - lastArrived >= MinimumInterval
                            \/ setBack /\ lastArrived' <= lastArrived
<1>1. /\ lastArrived' = call[p].arrived /\ call[p] # <<>>
      /\ call[p].fix.received - last.received >= MinimumInterval
  <2>1. /\ lastArrived' = call[p].arrived /\ call[p] # <<>>
        /\ ~ (call[p].fix.received - last.received < MinimumInterval)
    BY DEF Admit, Answer, Redundant
  <2>2. call[p].fix.received \in Int /\ last.received \in Int
    BY <2>1 DEF AdmissionInv, StampInv, CallOK, GateOK, Stamped
  <2>3. QED
    BY <2>1, <2>2, GateAssumption
<1>2. /\ call[p].arrived \in Nat /\ lastArrived \in Nat /\ MinimumInterval \in Nat
      /\ call[p].fix.received \in Int /\ last.received \in Int
      /\ offset \in Int
  BY <1>1, GateAssumption DEF AdmissionInv, StampInv, ClockOK, CallOK, GateOK, Stamped
<1>3. ~ setBack =>
        /\ call[p].arrived < lastArrived => Shift(p) <= LastShift
        /\ Shift(p) <= offset /\ LastShift <= offset
  BY <1>1 DEF AdmissionInv, ShiftsFollow, OneWay, UpTo
<1>4. ~ setForward =>
        /\ call[p].arrived > lastArrived => Shift(p) <= LastShift
        /\ offset <= Shift(p) /\ offset <= LastShift
  BY <1>1 DEF AdmissionInv, ShiftsFollow, OneWay, UpTo
<1>5. ~ setBack => lastArrived' >= lastArrived
  BY <1>1, <1>2, <1>3 DEF Shift, LastShift
<1>6. ASSUME ~ setForward, setBack
      PROVE  \/ lastArrived' - lastArrived >= MinimumInterval
             \/ lastArrived' <= lastArrived
  BY <1>1, <1>2, <1>4, <1>6 DEF Shift, LastShift
<1>7. ASSUME ~ setForward, ~ setBack PROVE lastArrived' - lastArrived >= MinimumInterval
  BY <1>1, <1>2, <1>3, <1>4, <1>7 DEF Shift, LastShift
<1>8. QED
  BY <1>5, <1>6, <1>7

(* Whichever goroutines stamp and publish, and whoever overtakes whom on   *)
(* the way to the gate: under a clock never set back no overtaken fix is   *)
(* admitted, and under one never set forward those admitted arrived the    *)
(* interval apart.                                                         *)
THEOREM AdmittedAreApart == Spec => AdmittedApart
<1> DEFINE Apart ==
      last # <<>> /\ last' # last /\ MinimumInterval > 0 =>
        /\ ~ setBack => lastArrived' >= lastArrived
        /\ ~ setForward =>
             \/ lastArrived' - lastArrived >= MinimumInterval
             \/ setBack /\ lastArrived' <= lastArrived
<1>1. ASSUME AdmissionInv, [Next]_vars PROVE [Apart]_vars
  <2>1. ASSUME NEW p \in Publishers, Admit(p) PROVE Apart
    BY <1>1, <2>1, ApartStep
  <2>2. CASE UNCHANGED last
    BY <2>2
  <2>3. QED
    BY <1>1, <2>1, <2>2
    DEF Next, Tick, SetClock, Sample, AdmitInvalid, AdmitStale, AdmitRedundant,
        vars, gate, clocks
<1>2. QED
  BY <1>1, AdmissionInvariant, PTL DEF Spec, AdmittedApart

(* As long as the wall clock has not been set back, a fix dropped as       *)
(* redundant did arrive too soon after the last one, or too close to it,   *)
(* however publishers overtake one another between stamping and the gate.  *)
THEOREM RedundantUnlessSetBack == Spec => RedundantIsSoon
<1> DEFINE Soon ==
      \A p \in Publishers :
        ~ setBack /\ verdict[p] = "none" /\ verdict'[p] = "redundant" =>
          \/ MinimumInterval > 0 /\ call[p].arrived - lastArrived < MinimumInterval
          \/ MinimumDistance > 0 /\ Distance(last, call[p].fix) < MinimumDistance
<1>1. ASSUME AdmissionInv, [Next]_vars PROVE [Soon]_vars
  <2>1. ASSUME NEW p \in Publishers, verdict[p] = "none", verdict'[p] = "redundant",
               Next
        PROVE  AdmitRedundant(p)
    BY <1>1, <2>1
    DEF Next, Tick, SetClock, Sample, AdmitInvalid, AdmitStale, AdmitRedundant, Admit,
        Answer, AdmissionInv, StampInv
  <2>2. ASSUME NEW p \in Publishers, AdmitRedundant(p), ~ setBack
        PROVE  \/ MinimumInterval > 0 /\ call[p].arrived - lastArrived < MinimumInterval
               \/ MinimumDistance > 0 /\ Distance(last, call[p].fix) < MinimumDistance
    <3>1. call[p] # <<>> /\ last # <<>> /\ Redundant(call[p].fix)
      BY <2>2 DEF AdmitRedundant, Answer
    <3>2. /\ call[p].arrived \in Nat /\ lastArrived \in Nat
          /\ call[p].fix.received \in Int /\ last.received \in Int
      BY <1>1, <3>1 DEF AdmissionInv, StampInv, CallOK, GateOK, Stamped
    <3>3. call[p].arrived > lastArrived => LastShift <= Shift(p)
      BY <1>1, <2>2, <3>1 DEF AdmissionInv, ShiftsFollow, OneWay, UpTo
    <3>4. ASSUME MinimumInterval > 0, call[p].fix.received - last.received < MinimumInterval
          PROVE  call[p].arrived - lastArrived < MinimumInterval
      BY <3>2, <3>3, <3>4, GateAssumption DEF Shift, LastShift
    <3>5. QED
      BY <3>1, <3>4 DEF Redundant
  <2>3. QED
    BY <1>1, <2>1, <2>2
<1>2. QED
  BY <1>1, AdmissionInvariant, PTL DEF Spec, RedundantIsSoon
=============================================================================
