----------------------------- MODULE Admission -----------------------------
(***************************************************************************)
(* The admission gate (adapter/rules), with the stamping PublishFix does   *)
(* before it and the validity and freshness rules of package geo it asks.  *)
(* Several goroutines may be publishing: each reads the clock, stamps its  *)
(* sample and checks it by itself; only the comparison with the last       *)
(* admitted fix is under the gate's lock.                                  *)
(*                                                                         *)
(* Both timestamps of a fix are wall-clock times: Time.UTC drops Go's      *)
(* monotonic reading. So there are two clocks here, the time that really   *)
(* passes and a wall clock somebody may set.                               *)
(***************************************************************************)
EXTENDS Integers, Sequences

CONSTANTS Publishers,
          NaN,              \* the one float that compares false with all
          Unset,            \* time.Time's zero value
          MaximumAge, MinimumInterval, MinimumDistance,  \* admission.Rules
          MaxClockSkew,
          MaxFloat,         \* math.MaxFloat64; what exceeds it is infinite
          Positions,        \* the [lat, lon, acc] a provider reports
          Ages,             \* how old a provider says its sample is
          Steps,            \* by how much the wall clock may be set
          MaxTime, MaxSteps \* bounds on both clocks

ASSUME GateAssumption ==
  /\ MaximumAge \in Nat /\ MinimumInterval \in Nat /\ MinimumDistance \in Nat
  /\ MaxClockSkew \in Nat /\ MaxFloat \in Nat /\ MaxTime \in Nat /\ MaxSteps \in Nat
  /\ NaN \notin Int /\ Unset \notin Int
  /\ Positions \subseteq [lat : Int \cup {NaN}, lon : Int \cup {NaN}, acc : Int \cup {NaN}]
  /\ Ages \subseteq Int /\ Steps \subseteq Int

VARIABLES
  elapsed,   \* time that has really passed
  offset,    \* the wall clock shows elapsed + offset
  steps,     \* how often it has been set
  setBack,    \* whether it was ever set to an earlier time
  setForward, \* or to a later one
  call,      \* the PublishFix each publisher is in: its stamped fix, the
             \* clock it read and when the sample really arrived
  verdict,   \* the outcome of each publisher's last Admit
  last,      \* g.last, or nothing before the first admitted fix
  lastArrived

clocks == <<elapsed, offset, steps, setBack, setForward>>
gate   == <<last, lastArrived>>
vars   == <<clocks, call, verdict, gate>>

wall == elapsed + offset

Init ==
  /\ elapsed = 0 /\ offset = 0 /\ steps = 0
  /\ setBack = FALSE /\ setForward = FALSE
  /\ call = [p \in Publishers |-> <<>>]
  /\ verdict = [p \in Publishers |-> "none"]
  /\ last = <<>> /\ lastArrived = 0

-----------------------------------------------------------------------------
(* geo.Validate. A bounded-range test in its positive form: NaN fails it   *)
(* like any number outside, since both comparisons are false for it.       *)
AtMost(a, b) == a # NaN /\ b # NaN /\ a <= b

(* A fault: the negative form, which NaN passes.                           *)
NotOutside(value, low, high) ==
  IF value = NaN THEN TRUE ELSE ~ (value < low \/ value > high)

InRange(value, low, high) == AtMost(low, value) /\ AtMost(value, high)

Validate(f) == /\ InRange(f.lat, -90, 90)
               /\ InRange(f.lon, -180, 180)
               /\ InRange(f.acc, 0, MaxFloat)

(* geo.Distance along one meridian, where it grows with the difference.    *)
Distance(a, b) == IF a.lat <= b.lat THEN b.lat - a.lat ELSE a.lat - b.lat

(* geo.IsFresh.                                                            *)
IsFresh(f, maxAge, t) ==
  maxAge = 0 \/ LET age == t - f.timestamp IN age <= maxAge /\ age >= -MaxClockSkew

Stale(f, t) == MaximumAge > 0 /\ ~ IsFresh(f, MaximumAge, t)

(* A fault: the interval is measured between the provider's own times.     *)
RedundantByTimestamp(f) ==
  \/ MinimumInterval > 0 /\ f.timestamp - last.timestamp < MinimumInterval
  \/ MinimumDistance > 0 /\ Distance(last, f) < MinimumDistance

(* A fault: a fix exactly one interval later is still too soon.            *)
RedundantAtInterval(f) ==
  \/ MinimumInterval > 0 /\ f.received - last.received <= MinimumInterval
  \/ MinimumDistance > 0 /\ Distance(last, f) < MinimumDistance

Redundant(f) ==
  \/ MinimumInterval > 0 /\ f.received - last.received < MinimumInterval
  \/ MinimumDistance > 0 /\ Distance(last, f) < MinimumDistance

(* core.stamp: fills in the times a provider left unset.                   *)
Stamp(f, t) ==
  LET received  == IF f.received = Unset THEN t ELSE f.received
      timestamp == IF f.timestamp = Unset THEN received ELSE f.timestamp
  IN  [f EXCEPT !.received = received, !.timestamp = timestamp]

-----------------------------------------------------------------------------
Tick ==
  /\ elapsed < MaxTime
  /\ elapsed' = elapsed + 1
  /\ UNCHANGED <<offset, steps, setBack, setForward, call, verdict, gate>>

SetClock(d) ==
  /\ steps < MaxSteps
  /\ offset' = offset + d
  /\ steps' = steps + 1
  /\ setBack' = (setBack \/ d < 0)
  /\ setForward' = (setForward \/ d > 0)
  /\ UNCHANGED <<elapsed, call, verdict, gate>>

(* The provider builds the sample, PublishFix reads the clock and stamps.  *)
Sample(p, position, timestamp, received) ==
  /\ call[p] = <<>>
  /\ LET sample == [lat |-> position.lat, lon |-> position.lon, acc |-> position.acc,
                    timestamp |-> timestamp, received |-> received] IN
       call' = [call EXCEPT ![p] =
                 [fix |-> Stamp(sample, wall), now |-> wall, arrived |-> elapsed]]
  /\ verdict' = [verdict EXCEPT ![p] = "none"]
  /\ UNCHANGED <<clocks, gate>>

(* Admit, by what it answers.                                              *)
Answer(p, v) ==
  /\ call[p] # <<>>
  /\ call' = [call EXCEPT ![p] = <<>>]
  /\ verdict' = [verdict EXCEPT ![p] = v]
  /\ UNCHANGED clocks

AdmitInvalid(p) ==
  /\ Answer(p, "invalid")
  /\ ~ Validate(call[p].fix)
  /\ UNCHANGED gate

AdmitStale(p) ==
  /\ Answer(p, "stale")
  /\ Validate(call[p].fix)
  /\ Stale(call[p].fix, call[p].now)
  /\ UNCHANGED gate

AdmitRedundant(p) ==
  /\ Answer(p, "redundant")
  /\ Validate(call[p].fix)
  /\ ~ Stale(call[p].fix, call[p].now)
  /\ last # <<>> /\ Redundant(call[p].fix)
  /\ UNCHANGED gate

Admit(p) ==
  /\ Answer(p, "admitted")
  /\ Validate(call[p].fix)
  /\ ~ Stale(call[p].fix, call[p].now)
  /\ last # <<>> => ~ Redundant(call[p].fix)
  /\ last' = call[p].fix
  /\ lastArrived' = call[p].arrived

Next ==
  \/ Tick
  \/ \E d \in Steps : SetClock(d)
  \/ \E p \in Publishers :
       \/ \E position \in Positions,
             timestamp \in {Unset} \cup {wall - age : age \in Ages},
             received \in {Unset, wall} : Sample(p, position, timestamp, received)
       \/ AdmitInvalid(p) \/ AdmitStale(p) \/ AdmitRedundant(p) \/ Admit(p)

Spec == Init /\ [][Next]_vars

-----------------------------------------------------------------------------
(* Whatever a provider reports, the baseline every later fix is compared   *)
(* with is a real position: no NaN, no infinity, nothing off the globe.    *)
BaselineIsUsable ==
  last # <<>> =>
    /\ last.lat \in -90 .. 90 /\ last.lon \in -180 .. 180
    /\ last.acc \in 0 .. MaxFloat
    /\ last.timestamp \in Int /\ last.received \in Int

(* The interval is a promise about real time, kept with wall times that    *)
(* each publisher read for itself before it came to the gate. Unless the   *)
(* clock was set back no fix is admitted that an admitted one overtook on  *)
(* its way; unless it was set forward admitted fixes did arrive the        *)
(* interval apart, but for one overtaken after the clock was set back.     *)
AdmittedApart ==
  [][last # <<>> /\ last' # last /\ MinimumInterval > 0 =>
       /\ ~ setBack => lastArrived' >= lastArrived
       /\ ~ setForward =>
            \/ lastArrived' - lastArrived >= MinimumInterval
            \/ setBack /\ lastArrived' <= lastArrived]_vars

(* admission/port: a redundant fix "arrived too soon after the last one,   *)
(* or too close to it". It did arrive soon, or is close, as long as the    *)
(* wall clock has not been set back: then fixes may be dropped for longer. *)
RedundantIsSoon ==
  [][\A p \in Publishers :
       ~ setBack /\ verdict[p] = "none" /\ verdict'[p] = "redundant" =>
         \/ MinimumInterval > 0 /\ call[p].arrived - lastArrived < MinimumInterval
         \/ MinimumDistance > 0 /\ Distance(last, call[p].fix) < MinimumDistance]_vars
=============================================================================
