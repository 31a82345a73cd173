------------------------------- MODULE MC_Alerts -------------------------------
(* Alerts for checking Alerts: a chain of cancellations (3 cancels 2,     *)
(* 2 cancels 1), priorities on both sides of 1000 and of the fixed        *)
(* warnings, an alert that does not apply to this node, an unsigned one,  *)
(* and expirations at different times.                                     *)
EXTENDS Alerts, TLC

MCAlertHashes == 1 .. 4
MCPriority == (1 :> 1000) @@ (2 :> 1500) @@ (3 :> 100) @@ (4 :> 5000)
MCExpiration == (1 :> 2) @@ (2 :> 1) @@ (3 :> 2) @@ (4 :> 2)
MCSigned == {1, 2, 3}
MCForMe == {1, 2}
MCCancelsRel == {<<2, 1>>, <<3, 2>>}

=============================================================================
