---------------------------- MODULE MCAuditTrail ----------------------------
(* AuditTrail on two nodes: the changes of Second are made on the second.     *)
EXTENDS AuditTrail

CONSTANTS n1, n2, Second
MCAt == [c \in Changes |-> IF c \in Second THEN n2 ELSE n1]
=============================================================================
