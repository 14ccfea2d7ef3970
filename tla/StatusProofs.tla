---------------------------- MODULE StatusProofs ----------------------------
(***************************************************************************)
(* The lifecycle tracker under any number of reporters and any reports.    *)
(***************************************************************************)
EXTENDS StatusReports, TLAPS

(* Between the two stores, the goroutine that holds the mutex knows what   *)
(* it records, whether that is a change, and that it keeps the permission. *)
Pending ==
  mu # Free =>
    /\ update[mu].changed = (status # update[mu].recorded)
    /\ status.permission # "Unknown" => update[mu].recorded.permission # "Unknown"

StatusInv == TypeOK /\ WordAgrees /\ Pending

(* A report is recorded as a status, whatever it inherits.                 *)
LEMMA Recorded ==
  ASSUME TypeOK, NEW report \in Statuses
  PROVE  /\ Inherit(report) \in Statuses
         /\ status.permission # "Unknown" => Inherit(report).permission # "Unknown"
BY DEF TypeOK, Inherit, Statuses

(* So is readiness, which never leaves the permission undecided.           *)
LEMMA ReadyRecorded ==
  ASSUME TypeOK, NEW message \in Messages
  PROVE  /\ [state |-> "Ready", permission |-> Settled(status.permission),
             message |-> message] \in Statuses
         /\ Settled(status.permission) # "Unknown"
BY DEF TypeOK, Settled, Statuses, States, Permissions

(* The first store of an update, of any status that keeps the permission.  *)
LEMMA StoreKeeps ==
  ASSUME StatusInv, NEW r \in Reporters, NEW next \in Statuses, Store(r, next),
         status.permission # "Unknown" => next.permission # "Unknown",
         made' \in [Reporters -> 0 .. MaxReports],
         looked' \in [Reporters -> BOOLEAN], UNCHANGED <<told, announced>>
  PROVE  StatusInv'
<1> USE TrackerAssumption DEF StatusInv, Store
<1>1. TypeOK'
  BY DEF TypeOK, NewWord, Changed, Statuses
<1>2. mu' = r /\ update'[r] = [recorded |-> next, changed |-> Changed(next)]
  BY DEF TypeOK
<1>3. WordAgrees'
  BY <1>2 DEF WordAgrees, NewWord
<1>4. Pending'
  BY <1>2 DEF Pending, Changed
<1>5. QED
  BY <1>1, <1>3, <1>4

(* The inductive step: an update begins with a status to record, and ends  *)
(* with its pointer in place.                                              *)
LEMMA StatusStep == StatusInv /\ [Next]_vars => StatusInv'
<1> SUFFICES ASSUME StatusInv, [Next]_vars PROVE StatusInv'
  OBVIOUS
<1> USE TrackerAssumption, ReportsAssumption
<1>1. TypeOK
  BY DEF StatusInv
<1>2. ASSUME NEW r \in Reporters, Begins(r)
      PROVE  made' \in [Reporters -> 0 .. MaxReports]
  <2>1. made[r] < MaxReports /\ made' = [made EXCEPT ![r] = @ + 1]
    BY <1>2 DEF Begins
  <2>2. made[r] \in 0 .. MaxReports /\ made[r] + 1 \in 0 .. MaxReports
    BY <1>1, <2>1 DEF TypeOK
  <2>3. QED
    BY <1>1, <2>1, <2>2 DEF TypeOK
<1>3. ASSUME NEW r \in Reporters, PublishStatus(r) PROVE StatusInv'
  <2>1. /\ made' \in [Reporters -> 0 .. MaxReports]
        /\ looked' \in [Reporters -> BOOLEAN] /\ UNCHANGED <<told, announced>>
    BY <1>1, <1>2, <1>3 DEF PublishStatus, TypeOK
  <2>2. PICK report \in Reports : Set(r, report)
    BY <1>3 DEF PublishStatus
  <2>3. report \in Statuses
    OBVIOUS
  <2>4. QED
    BY <1>1, <2>1, <2>2, <2>3, Recorded, StoreKeeps DEF Set
<1>4. ASSUME NEW r \in Reporters, Look(r) PROVE StatusInv'
  <2>1. /\ made' \in [Reporters -> 0 .. MaxReports]
        /\ looked' \in [Reporters -> BOOLEAN]
        /\ UNCHANGED <<word, status, mu, update, told, announced>>
    BY <1>1, <1>2, <1>4 DEF Look, TypeOK, trackerVars
  <2>2. QED
    BY <2>1 DEF StatusInv, TypeOK, WordAgrees, Pending
<1>5. ASSUME NEW r \in Reporters, AnnounceReady(r) PROVE StatusInv'
  <2> DEFINE next == [state |-> "Ready", permission |-> Settled(status.permission),
                      message |-> "receiving"]
  <2>1. next \in Statuses /\ next.permission # "Unknown"
    BY <1>1, ReadyRecorded
  <2>2. Store(r, next)
    BY <1>5 DEF AnnounceReady, MarkReady
  <2>3. /\ made' \in [Reporters -> 0 .. MaxReports]
        /\ looked' \in [Reporters -> BOOLEAN] /\ UNCHANGED <<told, announced>>
    BY <1>1, <1>5 DEF AnnounceReady, TypeOK
  <2> HIDE DEF next
  <2>4. QED
    BY <2>1, <2>2, <2>3, StoreKeeps
<1>6. ASSUME NEW r \in Reporters, Return(r) PROVE StatusInv'
  <2>1. /\ mu = r /\ mu' = Free /\ status' = update[r].recorded
        /\ UNCHANGED <<word, update, made, looked>>
        /\ \/ told' = told + 1 /\ announced' = update[r].recorded
           \/ UNCHANGED <<told, announced>>
    BY <1>6 DEF Return, StorePointer
  <2>2. update[r].recorded \in Statuses
    BY <1>1 DEF TypeOK
  <2>3. TypeOK'
    BY <1>1, <2>1, <2>2 DEF TypeOK
  <2>4. WordAgrees' /\ Pending'
    BY <2>1 DEF StatusInv, WordAgrees, Pending
  <2>5. QED
    BY <2>3, <2>4 DEF StatusInv
<1>7. CASE UNCHANGED vars
  BY <1>7 DEF StatusInv, TypeOK, WordAgrees, Pending, vars, trackerVars
<1>8. QED
  BY <1>3, <1>4, <1>5, <1>6, <1>7 DEF Next

(* The inductive invariant holds of every behaviour.                       *)
THEOREM StatusInvariant == Spec => []StatusInv
<1>1. Init => StatusInv
  <2> SUFFICES ASSUME Init PROVE StatusInv
    OBVIOUS
  <2> USE TrackerAssumption, ReportsAssumption
      DEF Init, TrackerInit
  <2>1. Initial \in Statuses
    BY DEF Initial, Statuses, States, Permissions
  <2>2. TypeOK
    <3>1. made \in [Reporters -> 0 .. MaxReports]
      OBVIOUS
    <3>2. word \in States
      BY <2>1 DEF Statuses
    <3>3. looked \in [Reporters -> BOOLEAN] /\ told \in Nat
      OBVIOUS
    <3>4. QED
      BY <2>1, <3>1, <3>2, <3>3 DEF TypeOK
  <2>3. WordAgrees /\ Pending
    BY DEF WordAgrees, Pending
  <2>4. QED
    BY <2>2, <2>3 DEF StatusInv
<1>2. QED
  BY <1>1, StatusStep, PTL DEF Spec

(* However many goroutines report, the state word the fix path reads and   *)
(* the status everyone else reads differ only inside an update.            *)
THEOREM WordNeverDisagrees == Spec => []WordAgrees
<1>1. StatusInv => WordAgrees
  BY DEF StatusInv
<1>2. QED
  BY <1>1, StatusInvariant, PTL

(* Only the return of an update changes the status on record.              *)
LEMMA StatusMoves ==
  ASSUME NEW r \in Reporters, PublishStatus(r) \/ Look(r) \/ AnnounceReady(r)
  PROVE  UNCHANGED <<status, told, announced>>
BY DEF PublishStatus, Look, AnnounceReady, Set, MarkReady, Store, trackerVars

(* Of any number of racing updates, each that changes the status on record *)
(* returns so, with what it recorded, and one that changes nothing returns *)
(* that, whatever its caller saw before it had the lock.                   *)
THEOREM ChangesAreAnnounced == Spec => ChangesAreTold
<1> DEFINE Told == IF status' # status
                   THEN told' = told + 1 /\ announced' = status'
                   ELSE UNCHANGED <<told, announced>>
<1>1. ASSUME StatusInv, [Next]_vars PROVE [Told]_vars
  <2>1. ASSUME NEW r \in Reporters, Return(r) PROVE Told
    <3>1. update[r].changed = (status # update[r].recorded)
      BY <1>1, <2>1, TrackerAssumption DEF Return, StorePointer, StatusInv, Pending
    <3>2. QED
      BY <2>1, <3>1 DEF Return, StorePointer
  <2>2. QED
    BY <1>1, <2>1, StatusMoves DEF Next
<1>2. QED
  BY <1>1, StatusInvariant, PTL DEF Spec, ChangesAreTold

(* No report, however little it knows, erases what is known of the         *)
(* permission.                                                             *)
THEOREM PermissionIsKept == Spec => PermissionKept
<1>1. ASSUME StatusInv, [Next]_vars
      PROVE  [status.permission # "Unknown" => status'.permission # "Unknown"]_vars
  <2>1. ASSUME NEW r \in Reporters, Return(r), status.permission # "Unknown"
        PROVE  status'.permission # "Unknown"
    BY <1>1, <2>1, TrackerAssumption DEF Return, StorePointer, StatusInv, Pending
  <2>2. QED
    BY <1>1, <2>1, StatusMoves DEF Next
<1>2. QED
  BY <1>1, StatusInvariant, PTL DEF Spec, PermissionKept
=============================================================================
