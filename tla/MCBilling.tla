------------------------------- MODULE MCBilling -------------------------------
(* Billing on small sets; processes of one kind are interchangeable.          *)
EXTENDS Billing, TLC

ProcSymmetry ==
  Permutations(Requests) \cup Permutations(Hooks) \cup Permutations(Admins)
=============================================================================
