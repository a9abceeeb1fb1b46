--------------------------- MODULE MCTicketIssuance ---------------------------
(* TicketIssuance on small instances. *)
EXTENDS TicketIssuance, TLC

\* Slots are interchangeable.
IssuanceSymmetry == Permutations(Handlers)
================================================================================
