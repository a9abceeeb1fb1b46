--------------------------- MODULE MCDatagramBuffer ----------------------------
(* DatagramBuffer with a queue that grows and bursts and one that does not. *)
EXTENDS DatagramBuffer

MCSize == [d \in Datagrams |-> IF d = "small" THEN 1 ELSE 2]
MCDefaultLimit == [q \in Queues |-> IF q \in Admitted THEN 2 ELSE 1]
================================================================================
