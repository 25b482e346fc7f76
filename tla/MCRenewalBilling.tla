--------------------------- MODULE MCRenewalBilling ---------------------------
(* Workers that overlap on one server, and staff beside them. *)
EXTENDS RenewalBilling, TLC
=============================================================================
