---------------------------- MODULE MCPagination ----------------------------
(* Pagination on a few rows, two of which were created at the same time.     *)
EXTENDS Pagination

MCCreated == [i \in Ids |-> IF i <= 2 THEN i ELSE i - 1]
=============================================================================
