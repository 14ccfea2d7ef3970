----------------------------- MODULE MCService -----------------------------
(* Instances of LocationService for TLC.                                   *)
EXTENDS LocationService

MCSlots  == [s \in Subscribers |-> 2]
MCPolicy == [s \in Subscribers |-> "DropOldest"]
MCReplay == [s \in Subscribers |-> TRUE]

Report(st, p, m) == [state |-> st, permission |-> p, message |-> m]

Lost   == {Report("Reconnecting", "Unknown", "lost")}
=============================================================================
