------------------------------ MODULE Provider ------------------------------
(***************************************************************************)
(* What the native providers have in common: the options they are built    *)
(* from, the outcome Start returns, the sink they publish through, and the *)
(* errors they tell the layers above apart by.                             *)
(*                                                                         *)
(* The sink is the service's recorded status; errors published to it       *)
(* record nothing, and locations are left out.                             *)
(***************************************************************************)
EXTENDS Naturals, Sequences

VARIABLES
  opts,    \* the adapter's options, as far as it decides anything by them
  ready,   \* the outcome of Start, until it is received
  shut,    \* the service's closed flag
  status   \* the service's recorded status

port == <<opts, ready>>
sink == <<shut, status>>

(* Each build maps the options its adapter has; the others stay unset.     *)
Unset == [ask |-> FALSE, meters |-> FALSE, interval |-> FALSE, distance |-> FALSE,
          reconnect |-> FALSE]

ProviderInit ==
  /\ opts = Unset /\ ready = <<>>
  /\ shut = FALSE /\ status = [state |-> "Starting", permission |-> "Unknown"]

-----------------------------------------------------------------------------
(* geo.Wrap; no error at all is <<>>.                                      *)
Error(name, sentinel, temporary) ==
  <<[name |-> name, sentinel |-> sentinel, temporary |-> temporary]>>

(* A fault: a failure worth another attempt is not told from the others.   *)
NeverRetryable(e) == FALSE

(* retry.Retryable, for the sentinels a provider joins to its errors.      *)
Retryable(e) ==
  e[1].temporary /\ e[1].sentinel \notin {"ErrPermissionDenied", "ErrPermissionNeeded"}

(* PublishStatus, past the check that the service is not closed: a status  *)
(* that knows nothing of the permission keeps what is known.               *)
Reported(state, permission) ==
  [state |-> state,
   permission |-> IF permission = "Unknown" THEN status.permission ELSE permission]

Record(state, permission) ==
  status' = IF shut THEN status ELSE Reported(state, permission)

(* PublishFix, past that check: a fix that is admitted announces readiness,*)
(* and with it that access was given, unless the platform had decided.     *)
Settled(permission) ==
  IF permission \in {"Unknown", "PromptRequired"} THEN "Granted" ELSE permission

Readied ==
  IF status.state = "Ready" THEN status
  ELSE [state |-> "Ready", permission |-> Settled(status.permission)]

MarkReady == status' = IF shut THEN status ELSE Readied

(* The gate may find the fix unusable or redundant, and then nothing is    *)
(* announced.                                                              *)
PublishFix == MarkReady \/ UNCHANGED status
=============================================================================
