------------------------------- MODULE MCTunnels -------------------------------
(* Tunnels with two tunnels of one connection. *)
EXTENDS Tunnels

MCStreamOf == [q \in Reqs |-> CHOOSE c \in Conns : TRUE]
================================================================================
