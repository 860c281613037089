------------------------------ MODULE MCTickets ------------------------------
(* Instances of Tickets for TLC.                                            *)
EXTENDS Tickets, TLC

Symmetry == Permutations(Tickets) \cup Permutations(Syncs) \cup Permutations(Operators)
=============================================================================
