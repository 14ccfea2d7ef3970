------------------------------- MODULE Config -------------------------------
(***************************************************************************)
(* config.go: what Open makes of the caller's Config. A field left at its  *)
(* zero value is unset; each unset field is given DefaultConfig's value by *)
(* itself, and only then is the whole validated.                           *)
(*                                                                         *)
(* Durations are whole seconds, the desktop ID is empty, blank or a name.  *)
(***************************************************************************)
EXTENDS Integers

CONSTANTS NaN, Infinity   \* the distances that are no numbers

ASSUME DistanceAssumption == {NaN, Infinity} \cap Int = {}

AccuracyNavigation     == 2  \* the last names of their enumerations
PermissionDoNotRequest == 2

DropDefault == 0
DropOldest  == 1
DropNewest  == 2

(* What a caller who asks for the defaults is given.                       *)
DefaultConfig ==
  [minimumInterval |-> 1, maximumAge |-> 120, startTimeout |-> 30,
   buffer |-> 1, policy |-> DropOldest, desktopID |-> "name",
   reconnectMin |-> 1, reconnectMax |-> 30,
   accuracy |-> 0, desiredAccuracy |-> 0, permission |-> 0, minimumDistance |-> 0,
   reconnect |-> TRUE]

(* The fields an unset value is filled in for. Accuracies, permission and  *)
(* distance default to their zeros anyway; Reconnect does not.             *)
Defaulted == {"minimumInterval", "maximumAge", "startTimeout", "buffer", "policy",
              "desktopID", "reconnectMin", "reconnectMax"}

(* The zero Config: no field is set.                                       *)
Zero ==
  [minimumInterval |-> 0, maximumAge |-> 0, startTimeout |-> 0,
   buffer |-> 0, policy |-> DropDefault, desktopID |-> "empty",
   reconnectMin |-> 0, reconnectMax |-> 0,
   accuracy |-> 0, desiredAccuracy |-> 0, permission |-> 0, minimumDistance |-> 0,
   reconnect |-> FALSE]

(* What a caller may set a Config to: numbers may be out of range.         *)
Settings ==
  [minimumInterval : Int, maximumAge : Int, startTimeout : Int,
   buffer : Int, policy : Nat, desktopID : STRING,
   reconnectMin : Int, reconnectMax : Int,
   accuracy : Nat, desiredAccuracy : Nat, permission : Nat,
   minimumDistance : Int \cup {NaN, Infinity}, reconnect : BOOLEAN]

(* A fault: the start timeout is left alone.                               *)
MostDefaults(in) ==
  [k \in DOMAIN in |->
     IF k \in Defaulted \ {"startTimeout"} /\ in[k] = Zero[k]
     THEN DefaultConfig[k] ELSE in[k]]

(* withTimingDefaults, withDeliveryDefaults and withLinuxDefaults.         *)
WithDefaults(in) ==
  [k \in DOMAIN in |->
     IF k \in Defaulted /\ in[k] = Zero[k] THEN DefaultConfig[k] ELSE in[k]]

ValidEnums(c) == /\ c.accuracy <= AccuracyNavigation
                 /\ c.permission <= PermissionDoNotRequest
                 /\ c.policy <= DropNewest

ValidDurations(c) == c.minimumInterval >= 0 /\ c.maximumAge >= 0 /\ c.startTimeout >= 0

ValidDistance(c) == c.minimumDistance \notin {NaN, Infinity} /\ c.minimumDistance >= 0

ValidBuffer(c) == c.buffer >= 1

ValidReconnect(c) == /\ c.reconnectMin >= 0 /\ c.reconnectMax >= 0
                     /\ c.reconnectMax >= c.reconnectMin

ValidIdentity(c) == c.desktopID \notin {"empty", "blank"}

Valid(c) == /\ ValidEnums(c) /\ ValidDurations(c) /\ ValidDistance(c)
            /\ ValidBuffer(c) /\ ValidReconnect(c) /\ ValidIdentity(c)

(* normalizeConfig: the configuration the locator uses, or nothing.        *)
NormalizeConfig(in) == IF Valid(WithDefaults(in)) THEN <<WithDefaults(in)>> ELSE <<>>
=============================================================================
