--------------------------- MODULE TicketLifecycle ---------------------------
(***************************************************************************)
(* What the ticket service promises of each ticket, whatever the           *)
(* interleaving of generation, syncs, withdrawals, crons and restarts: the *)
(* state the verification screen shows (ticketState in voucher.service.ts) *)
(* only moves along these edges, and a ticket that was sold is out of the  *)
(* reach of every withdrawal.                                              *)
(***************************************************************************)
CONSTANT Tickets

VARIABLES state,  \* what verifyVoucherForOperator answers
          sold,   \* the ticket had its first connection
          closed  \* its expiry was enforced, or it was cut

lifecycleVars == <<state, sold, closed>>

States == {"ABSENT", "UNAVAILABLE", "AVAILABLE", "IN_USE", "EXPIRED", "REVOKED", "DELETED"}

Init ==
  /\ state = [t \in Tickets |-> "ABSENT"]
  /\ sold = [t \in Tickets |-> FALSE]
  /\ closed = [t \in Tickets |-> FALSE]

\* The codes of a batch are created together, not yet on the router.
Issue ==
  /\ \A t \in Tickets : state[t] = "ABSENT"
  /\ state' = [t \in Tickets |-> "UNAVAILABLE"]
  /\ UNCHANGED <<sold, closed>>

\* The router's id of the user is recorded.
Record(t) ==
  /\ state[t] = "UNAVAILABLE"
  /\ \E s \in IF sold[t] THEN {"IN_USE", "EXPIRED"} ELSE {"AVAILABLE"} :
       /\ closed[t] => s = "EXPIRED"
       /\ state' = [state EXCEPT ![t] = s]
  /\ UNCHANGED <<sold, closed>>

\* First connection; a code whose id is not recorded yet can be used too.
Sell(t) ==
  /\ ~sold[t] /\ state[t] \in {"UNAVAILABLE", "AVAILABLE"}
  /\ sold' = [sold EXCEPT ![t] = TRUE]
  /\ state' = [state EXCEPT ![t] = IF @ = "AVAILABLE" THEN "IN_USE" ELSE @]
  /\ UNCHANGED closed

\* The duration elapsed.
Expire(t) ==
  /\ state[t] = "IN_USE"
  /\ state' = [state EXCEPT ![t] = "EXPIRED"]
  /\ UNCHANGED <<sold, closed>>

\* A longer plan gives time again to the tickets not closed yet.
Extend(S) ==
  /\ S # {} /\ \A t \in S : state[t] = "EXPIRED" /\ ~closed[t]
  /\ state' = [t \in Tickets |-> IF t \in S THEN "IN_USE" ELSE state[t]]
  /\ UNCHANGED <<sold, closed>>

\* The expiry is enforced, or the ticket is cut: for good.
Close(t) ==
  /\ sold[t] /\ ~closed[t]
  /\ closed' = [closed EXCEPT ![t] = TRUE]
  /\ state' = [state EXCEPT ![t] = IF @ = "IN_USE" THEN "EXPIRED" ELSE @]
  /\ UNCHANGED sold

\* Tickets are revoked, or deleted together; never a sold one.
Withdraw(S, to) ==
  /\ S # {} /\ \A t \in S : ~sold[t] /\ state[t] \in {"UNAVAILABLE", "AVAILABLE", "REVOKED"}
  /\ state' = [t \in Tickets |-> IF t \in S THEN to ELSE state[t]]
  /\ UNCHANGED <<sold, closed>>

Next ==
  \/ Issue
  \/ \E t \in Tickets : Record(t) \/ Sell(t) \/ Expire(t) \/ Close(t)
  \/ \E S \in SUBSET Tickets :
        Extend(S) \/ \E to \in {"REVOKED", "DELETED"} : Withdraw(S, to)

Spec == Init /\ [][Next]_lifecycleVars
=============================================================================
