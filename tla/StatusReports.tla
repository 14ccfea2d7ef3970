--------------------------- MODULE StatusReports ---------------------------
(***************************************************************************)
(* Goroutines reporting to the tracker: a provider's statuses, and the     *)
(* readiness the core reads off the fixes.                                 *)
(***************************************************************************)
EXTENDS AtomicState

CONSTANTS Reports,    \* the statuses reported
          MaxReports  \* updates each goroutine makes

ASSUME ReportsAssumption == Reports \subseteq Statuses /\ MaxReports \in Nat

VARIABLES made,      \* updates begun by each goroutine
          looked,    \* who found the state not Ready and is to mark it so
          told,      \* updates that returned as changed
          announced  \* the recorded status the last of them returned

vars == <<trackerVars, made, looked, told, announced>>

Init == /\ TrackerInit
        /\ made = [r \in Reporters |-> 0]
        /\ looked = [r \in Reporters |-> FALSE]
        /\ told = 0
        /\ announced = Initial

Begins(r) == /\ made[r] < MaxReports
             /\ made' = [made EXCEPT ![r] = @ + 1]

(* PublishStatus asks for an update with what the provider reports.        *)
PublishStatus(r) ==
  /\ ~ looked[r] /\ Begins(r)
  /\ \E report \in Reports : Set(r, report)
  /\ UNCHANGED <<looked, told, announced>>

(* announceReady looks at the state without the lock ...                   *)
Look(r) ==
  /\ mu # r /\ ~ looked[r] /\ Begins(r)
  /\ State # "Ready"
  /\ looked' = [looked EXCEPT ![r] = TRUE]
  /\ UNCHANGED <<trackerVars, told, announced>>

(* ... and asks for the update later, when the state may be another.       *)
AnnounceReady(r) ==
  /\ looked[r]
  /\ MarkReady(r, "receiving")
  /\ looked' = [looked EXCEPT ![r] = FALSE]
  /\ UNCHANGED <<made, told, announced>>

(* An update returns: what was changed will be broadcast.                  *)
Return(r) ==
  /\ StorePointer(r)
  /\ IF update[r].changed
     THEN told' = told + 1 /\ announced' = update[r].recorded
     ELSE UNCHANGED <<told, announced>>
  /\ UNCHANGED <<made, looked>>

Next == \E r \in Reporters :
          PublishStatus(r) \/ Look(r) \/ AnnounceReady(r) \/ Return(r)

Spec == Init /\ [][Next]_vars

-----------------------------------------------------------------------------
(* Every variable of the tracker and of its callers has its type.          *)
TypeOK ==
  /\ word \in States /\ status \in Statuses
  /\ mu \in Reporters \cup {Free}
  /\ update \in [Reporters -> [recorded : Statuses, changed : BOOLEAN]]
  /\ made \in [Reporters -> 0 .. MaxReports]
  /\ looked \in [Reporters -> BOOLEAN]
  /\ told \in Nat /\ announced \in Statuses

(* The word is the state of the recorded status, or of the one a goroutine *)
(* is half-way through recording.                                          *)
WordAgrees ==
  word = IF mu = Free THEN status.state ELSE update[mu].recorded.state

(* Of updates racing each other, those that change the status say so, once *)
(* and with the status they recorded, and no other does: two goroutines    *)
(* that both found the service not Ready announce one Ready.               *)
ChangesAreTold ==
  [][IF status' # status
     THEN told' = told + 1 /\ announced' = status'
     ELSE UNCHANGED <<told, announced>>]_vars

(* What is known of the permission is never forgotten.                     *)
PermissionKept ==
  [][status.permission # "Unknown" => status'.permission # "Unknown"]_vars
=============================================================================
