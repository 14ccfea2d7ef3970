------------------------------ MODULE MCStatus ------------------------------
(* Instances of StatusReports for TLC.                                     *)
EXTENDS StatusReports

Report(st, p, m) == [state |-> st, permission |-> p, message |-> m]

(* One report of each shape the adapters publish: with a permission, with  *)
(* none, with a decided refusal, and a pair that differ in the message.    *)
MCReports ==
  { Report("Starting", "Granted", "connected"),
    Report("Starting", "Granted", "reconnecting"),
    Report("Reconnecting", "Unknown", "lost"),
    Report("Disabled", "Denied", "denied"),
    Report("Disabled", "Restricted", "denied"),
    Report("Starting", "PromptRequired", "asking"),
    Report("Closed", "Unknown", "closed") }

MCMessages == {"none", "receiving"} \cup {r.message : r \in MCReports}
=============================================================================
