------------------------------ MODULE MCLifecycle ------------------------------
(* Lifecycle with two gateway clients. *)
EXTENDS Lifecycle

TwoClients == <<1, 2>>
================================================================================
