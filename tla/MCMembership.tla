----------------------------- MODULE MCMembership ------------------------------
(* Membership on small instances. *)
EXTENDS Membership

CONSTANTS b1, b2
TwoBases == <<b1, b2>>
================================================================================
