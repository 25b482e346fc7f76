------------------------------ MODULE MCAlertMail ------------------------------
(* Settings that mail about critical alerts outside maintenance, or not at all. *)
EXTENDS AlertMail

CriticalAlerts == [mail |-> TRUE, criticalOnly |-> TRUE, suppress |-> TRUE]
CriticalOrNone == {CriticalAlerts, [CriticalAlerts EXCEPT !.mail = FALSE]}
=============================================================================
