----------------------------- MODULE ApiKeyAuth -----------------------------
(***************************************************************************)
(* The life of one API key: it is created, authenticates requests on a set *)
(* of API nodes, expires and is revoked.  What a node answers comes from   *)
(* three caches on top of each other: the authentication ticket of         *)
(* ApiKeyAuthenticationHandler (memory only), the key's entity in the      *)
(* node's memory (l1) and in Redis (l2), filled from the ApiKeys table     *)
(* by CachedApiKeyRepository.                                              *)
(*                                                                         *)
(* An ApiKey object is never edited, so a cache holds one of the values    *)
(* "key" (the entity, as read while it was active) and "unknown" (a cached *)
(* null).  "none" is no entry.                                             *)
(***************************************************************************)
CONSTANTS
  Nodes,     \* the API instances
  Requests,  \* the slots of requests that carry the key
  Revokers,  \* the slots of requests that revoke it
  At         \* the node that serves a slot

ASSUME AuthAssumption == At \in [Requests \cup Revokers -> Nodes]

Values  == {"key", "unknown"}
Entries == Values \cup {"none"}

VARIABLES
  db,        \* the key's row: "absent", "active" or "revoked"
  overdue,   \* ExpiresAt has passed
  l1,        \* per node: its memory's entry for the entity
  expired,   \* per node: the entry is past its Duration, good only for fail-safe
  l2,        \* Redis' entry for the entity
  jobs,      \* the entries that background writes to Redis are still to make
  ticket,    \* per node: whether its memory has a ticket for the key
  task,      \* the nodes where CreateAsync's Task.Run is still to run
  pc,        \* per request: where HandleAuthenticateAsync stands, or its answer
  fetched,   \* per request: what its fill has read, from where; NoFill when none runs
  rpc        \* per revoker: where RevokeAsync stands; "done" after a 204

cacheVars == <<l1, expired, l2, jobs>>
authVars  == <<pc, fetched>>
vars == <<db, overdue, cacheVars, ticket, task, authVars, rpc>>

\* What a fill has read, and whether from the table.
Fills  == [value : Values, db : BOOLEAN]
NoFill == [value |-> "none", db |-> FALSE]

Pcs == {"idle", "lookup", "grant", "accepted", "unknown"}

\* A node's memory gets the entry v, or loses its entry ("none").
SetL1(n, v) ==
  /\ l1' = [l1 EXCEPT ![n] = v]
  /\ expired' = [expired EXCEPT ![n] = FALSE]

\* Redis is to be written, or the entry removed, in the background.
Enqueue(v) == jobs' = jobs \cup {v}

Init ==
  /\ db = "absent" /\ overdue = FALSE
  /\ l1 = [n \in Nodes |-> "none"]
  /\ expired = [n \in Nodes |-> FALSE]
  /\ l2 = "none" /\ jobs = {}
  /\ ticket = [n \in Nodes |-> FALSE]
  /\ task = {}
  /\ pc = [r \in Requests |-> "idle"]
  /\ fetched = [r \in Requests |-> NoFill]
  /\ rpc = [v \in Revokers |-> "idle"]

-----------------------------------------------------------------------------
(* Creation, and the end of the key's time.                                *)

\* The row is inserted, and a task is started that will fill the caches.  It
\* may never run: the insert's answer was lost, or the task was cancelled.
Create(n) ==
  /\ db = "absent"
  /\ db' = "active"
  /\ task' \in {{}, {n}}
  /\ UNCHANGED <<overdue, cacheVars, ticket, authVars, rpc>>

\* The task puts the entity that was inserted into the caches, whatever became
\* of the key since.
Fill(n) ==
  /\ n \in task
  /\ task' = task \ {n}
  /\ SetL1(n, "key")
  /\ Enqueue("key")
  /\ UNCHANGED <<db, overdue, l2, ticket, authVars, rpc>>

\* ExpiresAt passes.
Expire ==
  /\ db # "absent" /\ ~overdue
  /\ overdue' = TRUE
  /\ UNCHANGED <<db, cacheVars, ticket, task, authVars, rpc>>

-----------------------------------------------------------------------------
(* Authentication: ValidateApiKeyAsync.                                    *)

\* The request goes on at p, or is answered: "accepted", "unknown" (NoResult) or
\* "idle" (Fail).
Goto(r, p) ==
  /\ pc' = [pc EXCEPT ![r] = p]
  /\ fetched' = [fetched EXCEPT ![r] = NoFill]

\* Nothing is being done for r, the slot can take the next request.
Free(r) == pc[r] \notin {"lookup", "grant"}

\* A request arrives with the key, which nobody knows before it is created.
\* A ticket in the node's memory decides at once.
Arrive(r) ==
  /\ Free(r) /\ db # "absent"
  /\ Goto(r, IF ticket[At[r]] THEN "accepted" ELSE "lookup")
  /\ UNCHANGED <<db, overdue, cacheVars, ticket, task, rpc>>

\* Mutant of Loaded: the expiration is not checked.
LoadedUnexpired(r, v) ==
  \/ v = "unknown" /\ Goto(r, "unknown")
  \/ v = "key" /\ Goto(r, "grant")

\* The repository has returned v: no such key, or an entity whose expiration
\* is checked, and nothing else of it.
Loaded(r, v) ==
  \/ v = "unknown" /\ Goto(r, "unknown")
  \/ v = "key" /\ Goto(r, IF overdue THEN "idle" ELSE "grant")

Loading(r) == pc[r] = "lookup" /\ fetched[r] = NoFill

\* Mutant of MustFill: two requests of a node fill the entry at once.
MustFillUnlocked(r) ==
  /\ Loading(r)
  /\ l1[At[r]] = "none" \/ expired[At[r]]

\* The node's memory has no good entry, and no other request of the node is
\* filling it (FusionCache's lock on the key).
MustFill(r) ==
  /\ Loading(r)
  /\ l1[At[r]] = "none" \/ expired[At[r]]
  /\ \A q \in Requests : At[q] = At[r] => fetched[q] = NoFill

Hit(r) ==
  /\ Loading(r)
  /\ l1[At[r]] # "none" /\ ~expired[At[r]]
  /\ Loaded(r, l1[At[r]])
  /\ UNCHANGED <<db, overdue, cacheVars, ticket, task, rpc>>

\* Mutant of TableValue: the condition on IsActive and RevokedAt is missing.
TableValueAny == IF db # "absent" THEN "key" ELSE "unknown"

\* GetByKeyHashAsync finds the row only while it is active and not revoked.
TableValue == IF db = "active" THEN "key" ELSE "unknown"

\* The entity is read from Redis, or from the table if Redis has none or is
\* not reached.
Fetch(r) ==
  /\ MustFill(r)
  /\ \E fromDb \in {TRUE, l2 = "none"} :
       fetched' = [fetched EXCEPT ![r] =
         [value |-> IF fromDb THEN TableValue ELSE l2, db |-> fromDb]]
  /\ UNCHANGED <<db, overdue, cacheVars, ticket, task, pc, rpc>>

\* The fill ends: what was read becomes the node's entry, whatever happened in
\* the meantime, and Redis' too if it came from the table.
Store(r) ==
  /\ fetched[r] # NoFill
  /\ SetL1(At[r], fetched[r].value)
  /\ IF fetched[r].db THEN Enqueue(fetched[r].value) ELSE UNCHANGED jobs
  /\ Loaded(r, fetched[r].value)
  /\ UNCHANGED <<db, overdue, l2, ticket, task, rpc>>

\* Fail-safe: the table cannot be read, the expired entry is good again.
FailSafe(r) ==
  /\ MustFill(r)
  /\ l1[At[r]] # "none"
  /\ Loaded(r, l1[At[r]])
  /\ expired' = [expired EXCEPT ![At[r]] = FALSE]
  /\ UNCHANGED <<db, overdue, l1, l2, jobs, ticket, task, rpc>>

\* The ticket is built and kept.
Grant(r) ==
  /\ pc[r] = "grant"
  /\ ticket' = [ticket EXCEPT ![At[r]] = TRUE]
  /\ Goto(r, "accepted")
  /\ UNCHANGED <<db, overdue, cacheVars, task, rpc>>

\* Mutant of Fails: the failure is cached as an unknown key.
FailsCached(r) ==
  /\ ~Free(r)
  /\ Goto(r, "idle")
  /\ SetL1(At[r], "unknown")
  /\ UNCHANGED <<db, overdue, l2, jobs, ticket, task, rpc>>

\* The table cannot be read, or the client has gone and a call is cancelled:
\* the catch refuses the request.
Fails(r) ==
  /\ ~Free(r)
  /\ Goto(r, "idle")
  /\ UNCHANGED <<db, overdue, cacheVars, ticket, task, rpc>>

-----------------------------------------------------------------------------
(* Revocation: CachedApiKeyRepository.RevokeAsync.                         *)

RGoto(v, p) == rpc' = [rpc EXCEPT ![v] = p]

\* The row is read for its hash; it is there, keys are never deleted.
RevokeFind(v) ==
  /\ rpc[v] = "idle" /\ db # "absent"
  /\ RGoto(v, "update")
  /\ UNCHANGED <<db, overdue, cacheVars, ticket, task, authVars>>

RevokeUpdate(v) ==
  /\ rpc[v] = "update"
  /\ db' = "revoked"
  /\ RGoto(v, "remove")
  /\ UNCHANGED <<overdue, cacheVars, ticket, task, authVars>>

\* The entity leaves the node's memory and, in the background, Redis.  The
\* tickets stay.
RevokeRemove(v) ==
  /\ rpc[v] = "remove"
  /\ SetL1(At[v], "none")
  /\ Enqueue("none")
  /\ RGoto(v, "done")
  /\ UNCHANGED <<db, overdue, l2, ticket, task, authVars>>

\* The UPDATE fails, with or without having been committed: a 500, and no
\* cache entry is removed.
RevokeFails(v) ==
  /\ rpc[v] = "update"
  /\ db' \in {db, "revoked"}
  /\ RGoto(v, "idle")
  /\ UNCHANGED <<overdue, cacheVars, ticket, task, authVars>>

-----------------------------------------------------------------------------
(* The caches' own steps, and crashes.                                     *)

\* A background write reaches Redis, in any order with the others.
RunJob(v) ==
  /\ v \in jobs
  /\ l2' = v
  /\ UNCHANGED <<db, overdue, l1, expired, jobs, ticket, task, authVars, rpc>>

\* The last write of v has run or was lost, as Redis did not answer or the
\* writing node stopped.
EndJobs(v) ==
  /\ v \in jobs
  /\ jobs' = jobs \ {v}
  /\ UNCHANGED <<db, overdue, l1, expired, l2, ticket, task, authVars, rpc>>

ExpireL1(n) ==
  /\ l1[n] # "none" /\ ~expired[n]
  /\ expired' = [expired EXCEPT ![n] = TRUE]
  /\ UNCHANGED <<db, overdue, l1, l2, jobs, ticket, task, authVars, rpc>>

\* The entry is dropped: FailSafeMaxDuration is over, memory is short, or the
\* backplane tells of another node's removal.
DropL1(n) ==
  /\ l1[n] # "none"
  /\ SetL1(n, "none")
  /\ UNCHANGED <<db, overdue, l2, jobs, ticket, task, authVars, rpc>>

ExpireL2 ==
  /\ l2 # "none"
  /\ l2' = "none"
  /\ UNCHANGED <<db, overdue, l1, expired, jobs, ticket, task, authVars, rpc>>

\* Mutant of DropTicket: tickets are kept without a Duration.
KeepTicket(n) == FALSE /\ UNCHANGED vars

\* The ticket's Duration is over, or memory is short.
DropTicket(n) ==
  /\ ticket[n]
  /\ ticket' = [ticket EXCEPT ![n] = FALSE]
  /\ UNCHANGED <<db, overdue, cacheVars, task, authVars, rpc>>

\* A node stops and restarts: its requests get no answer, its memory is lost.
Crash(n) ==
  /\ SetL1(n, "none")
  /\ ticket' = [ticket EXCEPT ![n] = FALSE]
  /\ task' = task \ {n}
  /\ pc' = [r \in Requests |-> IF At[r] = n /\ ~Free(r) THEN "idle" ELSE pc[r]]
  /\ fetched' = [r \in Requests |-> IF At[r] = n THEN NoFill ELSE fetched[r]]
  /\ rpc' = [v \in Revokers |-> IF At[v] = n /\ rpc[v] # "done" THEN "idle" ELSE rpc[v]]
  /\ UNCHANGED <<db, overdue, l2, jobs>>

-----------------------------------------------------------------------------
\* The next step of an authentication.
Step(r) == Hit(r) \/ Fetch(r) \/ Store(r) \/ FailSafe(r) \/ Grant(r) \/ Fails(r)

Revoke(v) == RevokeFind(v) \/ RevokeUpdate(v) \/ RevokeRemove(v) \/ RevokeFails(v)

Next == \/ \E n \in Nodes : Create(n) \/ Fill(n)
        \/ Expire
        \/ \E r \in Requests : Arrive(r) \/ Step(r)
        \/ \E v \in Revokers : Revoke(v)
        \/ \E v \in Entries : RunJob(v) \/ EndJobs(v)
        \/ \E n \in Nodes : ExpireL1(n) \/ DropL1(n) \/ DropTicket(n) \/ Crash(n)
        \/ ExpireL2

Spec == Init /\ [][Next]_vars

\* Handlers, tasks and background writes run on, and entries go after their
\* durations.  Nobody has to send a request, and a revocation that has started
\* need not get beyond its UPDATE.
Fairness == /\ \A r \in Requests : WF_vars(Step(r))
            /\ \A n \in Nodes : WF_vars(Fill(n)) /\ WF_vars(DropL1(n))
                                  /\ WF_vars(DropTicket(n))
            /\ \A v \in Entries : WF_vars(EndJobs(v))
            /\ WF_vars(ExpireL2)

FairSpec == Spec /\ Fairness

-----------------------------------------------------------------------------
(* Properties.                                                             *)

\* Every variable has its type; a fill runs for a request that is looking the
\* key up, and a node runs one fill at a time.
TypeOK ==
  /\ db \in {"absent", "active", "revoked"}
  /\ overdue \in BOOLEAN
  /\ l1 \in [Nodes -> Entries]
  /\ expired \in [Nodes -> BOOLEAN]
  /\ l2 \in Entries
  /\ jobs \subseteq Entries
  /\ ticket \in [Nodes -> BOOLEAN]
  /\ task \subseteq Nodes
  /\ pc \in [Requests -> Pcs]
  /\ fetched \in [Requests -> {NoFill} \cup Fills]
  /\ rpc \in [Revokers -> {"idle", "update", "remove", "done"}]
  /\ \A r \in Requests : fetched[r] # NoFill => pc[r] = "lookup"
  /\ \A r, q \in Requests :
       (At[r] = At[q] /\ fetched[r] # NoFill /\ fetched[q] # NoFill) => r = q

\* The value v is on its way into a cache, or in one.
Held(v) == \/ l2 = v
           \/ v \in jobs
           \/ \E n \in Nodes : l1[n] = v
           \/ \E r \in Requests : fetched[r].value = v

\* As long as a key is not revoked no cache denies it, so no request that
\* carries it is told that it is unknown: not by a look-up that raced its
\* creation, and not by one that failed.
ActiveKeyIsKnown ==
  db = "active" => /\ ~Held("unknown")
                   /\ \A r \in Requests : pc[r] # "unknown"

\* The key is revoked, and nothing is left that could accept it.
Purged == /\ db = "revoked"
          /\ ~Held("key") /\ task = {}
          /\ \A n \in Nodes : ~ticket[n]
          /\ \A r \in Requests : pc[r] # "grant"

\* The key has expired, and no ticket is left or being made.
Lapsed == /\ overdue
          /\ \A n \in Nodes : ~ticket[n]
          /\ \A r \in Requests : pc[r] # "grant"

\* A key that is out is out: once nothing holds it any more and nothing that would bring
\* it is under way, no look-up, failure, fail-safe answer or restart lets it in again.
OutIsOut == [][(Purged => Purged') /\ (Lapsed => Lapsed')]_vars

\* A revocation takes effect everywhere, even if its request dies after the
\* UPDATE, its removals are lost, or a fill stores the key after them.
RevocationTakesEffect == (db = "revoked") ~> Purged

\* An expiration takes effect everywhere, although a ticket is not checked for it.
ExpiryTakesEffect == overdue ~> Lapsed

\* README.md: a request's key is validated by its hash, expiration and
\* revocation.  A request that arrives after a revocation was acknowledged is
\* not accepted there and then.
NoAcceptAfterRevoke ==
  [][\A r \in Requests :
       ((\E v \in Revokers : rpc[v] = "done") /\ Free(r) /\ pc'[r] # pc[r]) => pc'[r] # "accepted"]_vars
=============================================================================
