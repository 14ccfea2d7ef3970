------------------------------- MODULE MCHub -------------------------------
(* Instances of HubClient for TLC: the numbered payloads, and the buffers  *)
(* and policies the runs choose from.                                      *)
EXTENDS HubClient, TLC

CONSTANTS s1, s2

MCPayload == [by : Broadcasters, n : 0 .. MaxBroadcasts]

OneSlot    == [s \in Subs |-> 1]
MixedSlots == [s \in Subs |-> IF s = s1 THEN 2 ELSE 1]

AllOldest   == [s \in Subs |-> "DropOldest"]
MixedPolicy == [s \in Subs |-> IF s = s1 THEN "DropOldest" ELSE "DropNewest"]

(* Goroutines of one kind are interchangeable; used in a safety run only.  *)
MCSymmetry == Permutations(Broadcasters) \cup Permutations(Closers)
=============================================================================
