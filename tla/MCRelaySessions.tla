---------------------------- MODULE MCRelaySessions ----------------------------
(* RelaySessions with small sets of connections, requests and hosts. *)
EXTENDS RelaySessions

MCStreamOf == [q \in Reqs |-> CHOOSE c \in Conns : TRUE]
================================================================================
