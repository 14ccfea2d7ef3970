------------------------------- MODULE MCOpen -------------------------------
(* An instance of Open for TLC: configurations that set one or two fields  *)
(* of the zero Config, to values on either side of every check.            *)
EXTENDS Open

Values ==
  [minimumInterval |-> {-1, 5}, maximumAge |-> {-1, 60}, startTimeout |-> {-1, 9},
   buffer |-> {-1, 3}, policy |-> {DropNewest, 3}, desktopID |-> {"blank", "own"},
   reconnectMin |-> {-1, 5, 60}, reconnectMax |-> {-1, 3, 90},
   accuracy |-> {AccuracyNavigation, 3}, desiredAccuracy |-> {9},
   permission |-> {PermissionDoNotRequest, 3},
   minimumDistance |-> {NaN, Infinity, -1, 5}, reconnect |-> {TRUE}]

Setting(c) == {[c EXCEPT ![k] = v] : <<k, v>> \in UNION {{k} \X Values[k] : k \in DOMAIN c}}

MCConfigs == {Zero} \cup UNION {Setting(c) : c \in Setting(Zero)}

MCErrors == {"NotAuthorized", "ServiceUnknown", "NoReply"}
MCAuthorizations == {0, 2, 3, 5}

MCStatuses == {"NotInitialized", "Initializing", "Ready", "Disabled"}
=============================================================================
