-------------------------- MODULE MCTicketRedemption --------------------------
(* TicketRedemption on small instances. *)
EXTENDS TicketRedemption, TLC

\* Requests are interchangeable.
RequestSymmetry == Permutations(Requests)

\* So are policies.
PolicySymmetry == Permutations(Policies)
================================================================================
