---------------------------- MODULE MCStatusHistory ----------------------------
(* One node, one sampling of the loop, and one load of the page.  *)
EXTENDS StatusHistory
=============================================================================
