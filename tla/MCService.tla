----------------------------- MODULE MCService -----------------------------
(* Service with two daemons, a client that makes a call after connecting   *)
(* and one that only connects.                                             *)
EXTENDS Service

OneCaller == [k \in Clients |-> IF k = "c1" THEN 2 ELSE 1]
=============================================================================
