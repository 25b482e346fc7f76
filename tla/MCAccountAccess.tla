--------------------------- MODULE MCAccountAccess ---------------------------
(* Two requests at work together on two users. *)
EXTENDS AccountAccess, TLC

MCBudgets ==
    {[codes |-> 3, edits |-> 0], [codes |-> 1, edits |-> 2], [codes |-> 0, edits |-> 3]}

Symmetry == Permutations(Requests) \cup Permutations(Codes) \cup Permutations(Users)
=============================================================================
