----------------------------- MODULE MCMailHosting -----------------------------
(* Two requests over two domains of one address each. *)
EXTENDS MailHosting, TLC

Symmetry == Permutations(Requests) \cup Permutations(Domains)
=============================================================================
