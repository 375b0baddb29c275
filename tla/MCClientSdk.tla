---------------------------- MODULE MCClientSdk ----------------------------
(* Small instances of ClientSdk.                                           *)
EXTENDS ClientSdk, TLC

CONSTANTS reader, writer

\* Two gets may overlap, and a get or an evaluation with a change.
MCOperations == (reader :> {"get", "evaluate"}) @@ (writer :> {"get", "update", "delete"})

\* A client with the default options, which listens to messages, and one that repeats a
\* PATCH, too.  The second does not listen: messages do not touch what it is there for.
MCListening == {[retryOnlyIdempotent |-> TRUE, listens |-> TRUE]}
MCOptions == MCListening \cup {[retryOnlyIdempotent |-> FALSE, listens |-> FALSE]}
=============================================================================
