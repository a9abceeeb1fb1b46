--------------------------- MODULE MCTicketAuthority ---------------------------
(* TicketAuthority on small instances. *)
EXTENDS TicketAuthority
================================================================================
