---------------------------- MODULE MCApiKeyAuth ----------------------------
(* ApiKeyAuth on two nodes: the slots of Second are served by the second      *)
(* node, the others by the first.                                            *)
EXTENDS ApiKeyAuth

CONSTANTS n1, n2, Second
MCAt == [s \in Requests \cup Revokers |-> IF s \in Second THEN n2 ELSE n1]
=============================================================================
