-------------------------- MODULE ApiKeyAuthProofs --------------------------
(* Proofs of the safety properties of ApiKeyAuth, for any nodes, requests    *)
(* and revokers.                                                             *)
EXTENDS ApiKeyAuth, TLAPS

\* Only what was created is looked up, and only what was revoked is unknown:
\* what makes ActiveKeyIsKnown inductive.
OnlyRevokedIsUnknown ==
  /\ \A r \in Requests : pc[r] = "lookup" => db # "absent"
  /\ db # "revoked" => /\ ~Held("unknown")
                       /\ \A r \in Requests : pc[r] # "unknown"

AuthInv == TypeOK /\ OnlyRevokedIsUnknown

\* A fill that runs has read a value.
LEMMA FillHasValue ==
  ASSUME TypeOK, NEW r \in Requests, fetched[r] # NoFill
  PROVE  /\ fetched[r].value \in Values
         /\ pc[r] = "lookup"
BY DEF TypeOK, Fills

\* A request that goes on or is answered runs no fill, and lets the others be.
LEMMA GotoTypes ==
  ASSUME TypeOK, NEW r \in Requests, NEW p \in Pcs, Goto(r, p)
  PROVE  /\ pc' \in [Requests -> Pcs]
         /\ fetched' \in [Requests -> {NoFill} \cup Fills]
         /\ \A q \in Requests : fetched'[q] # NoFill => pc'[q] = "lookup"
         /\ \A s, q \in Requests :
              (At[s] = At[q] /\ fetched'[s] # NoFill /\ fetched'[q] # NoFill) => s = q
BY DEF TypeOK, Goto

\* So does a request whose look-up has its result.
LEMMA LoadedGoes ==
  ASSUME NEW r \in Requests, NEW v, Loaded(r, v)
  PROVE  \E p \in Pcs : Goto(r, p)
BY DEF Loaded, Pcs

\* The initial states satisfy the invariant.
LEMMA InitAuthInv == Init => AuthInv
<1> SUFFICES ASSUME Init
             PROVE  AuthInv
  OBVIOUS
<1>1. TypeOK
  BY DEF Init, TypeOK, Entries, Values, Pcs
<1>2. OnlyRevokedIsUnknown
  BY DEF Init, OnlyRevokedIsUnknown, Held, NoFill
<1> QED
  BY <1>1, <1>2 DEF AuthInv

\* Every step keeps the types, the one fill per node, and a fill to a look-up.
LEMMA NextTypeOK == TypeOK /\ [Next]_vars => TypeOK'
<1> SUFFICES ASSUME TypeOK, [Next]_vars
             PROVE  TypeOK'
  OBVIOUS
<1> USE AuthAssumption DEF Entries, Values
<1>1. ASSUME NEW n \in Nodes, Create(n) \/ Fill(n)
      PROVE  TypeOK'
  BY <1>1 DEF TypeOK, Create, Fill, SetL1, Enqueue, cacheVars, authVars
<1>2. CASE Expire
  BY <1>2 DEF TypeOK, Expire, cacheVars, authVars
<1>3. ASSUME NEW r \in Requests, Arrive(r)
      PROVE  TypeOK'
  BY <1>3, GotoTypes DEF TypeOK, Arrive, Pcs, cacheVars
<1>4. ASSUME NEW r \in Requests, Step(r)
      PROVE  TypeOK'
  <2>0. At[r] \in Nodes
    BY DEF AuthAssumption
  <2>1. CASE Hit(r)
    BY <2>1, LoadedGoes, GotoTypes DEF TypeOK, Hit, cacheVars
  <2>2. CASE Fetch(r)
    <3>1. PICK fill \in Fills : fetched' = [fetched EXCEPT ![r] = fill]
      BY <2>2 DEF Fetch, TypeOK, TableValue, Fills
    <3>2. /\ pc[r] = "lookup"
          /\ \A q \in Requests : At[q] = At[r] => fetched[q] = NoFill
          /\ UNCHANGED <<db, overdue, l1, expired, l2, jobs, ticket, task, pc, rpc>>
      BY <2>2 DEF Fetch, MustFill, Loading, cacheVars
    <3>3. /\ fetched' \in [Requests -> {NoFill} \cup Fills]
          /\ \A q \in Requests : fetched'[q] = IF q = r THEN fill ELSE fetched[q]
      BY <3>1 DEF TypeOK
    <3>4. \A q \in Requests : fetched'[q] # NoFill => pc'[q] = "lookup"
      BY <3>2, <3>3 DEF TypeOK
    <3>5. \A s, q \in Requests :
            (At[s] = At[q] /\ fetched'[s] # NoFill /\ fetched'[q] # NoFill) => s = q
      BY <3>2, <3>3 DEF TypeOK
    <3> QED
      BY <3>2, <3>3, <3>4, <3>5 DEF TypeOK
  <2>3. CASE Store(r)
    <3>1. fetched[r].value \in Entries
      BY <2>3, FillHasValue DEF Store, Entries
    <3>2. PICK p \in Pcs : Goto(r, p)
      BY <2>3, LoadedGoes DEF Store
    <3>3. /\ l1' \in [Nodes -> Entries]
          /\ expired' \in [Nodes -> BOOLEAN]
          /\ jobs' \subseteq Entries
      BY <2>0, <2>3, <3>1 DEF TypeOK, Store, SetL1, Enqueue
    <3>4. UNCHANGED <<db, overdue, l2, ticket, task, rpc>>
      BY <2>3 DEF Store
    <3> QED
      BY <3>2, <3>3, <3>4, GotoTypes DEF TypeOK
  <2>4. CASE FailSafe(r)
    BY <2>4, LoadedGoes, GotoTypes DEF TypeOK, FailSafe
  <2>5. CASE Grant(r) \/ Fails(r)
    BY <2>5, GotoTypes DEF TypeOK, Grant, Fails, Pcs, cacheVars
  <2> QED
    BY <1>4, <2>1, <2>2, <2>3, <2>4, <2>5 DEF Step
<1>5. ASSUME NEW v \in Revokers, Revoke(v)
      PROVE  TypeOK'
  BY <1>5 DEF TypeOK, Revoke, RevokeFind, RevokeUpdate, RevokeRemove, RevokeFails,
              RGoto, SetL1, Enqueue, cacheVars, authVars
<1>6. ASSUME NEW v \in Entries, RunJob(v) \/ EndJobs(v)
      PROVE  TypeOK'
  BY <1>6 DEF TypeOK, RunJob, EndJobs, authVars
<1>7. ASSUME NEW n \in Nodes, ExpireL1(n) \/ DropL1(n) \/ DropTicket(n)
      PROVE  TypeOK'
  BY <1>7 DEF TypeOK, ExpireL1, DropL1, DropTicket, SetL1, cacheVars, authVars
<1>8. ASSUME NEW n \in Nodes, Crash(n)
      PROVE  TypeOK'
  BY <1>8 DEF TypeOK, Crash, SetL1, Free, Pcs
<1>9. CASE ExpireL2
  BY <1>9 DEF TypeOK, ExpireL2, authVars
<1>10. CASE UNCHANGED vars
  BY <1>10 DEF TypeOK, vars, cacheVars, authVars
<1> QED
  BY <1>1, <1>2, <1>3, <1>4, <1>5, <1>6, <1>7, <1>8, <1>9, <1>10 DEF Next

\* Every step keeps what is known about unknown keys: only the table can say
\* so, and it does only of a revoked key.
LEMMA NextOnlyRevoked == AuthInv /\ [Next]_vars => OnlyRevokedIsUnknown'
<1> SUFFICES ASSUME AuthInv, [Next]_vars
             PROVE  OnlyRevokedIsUnknown'
  OBVIOUS
<1> USE DEF AuthInv, TypeOK, OnlyRevokedIsUnknown, Held, Entries, Values
<1>1. ASSUME NEW n \in Nodes, Create(n) \/ Fill(n)
      PROVE  OnlyRevokedIsUnknown'
  BY <1>1 DEF Create, Fill, SetL1, Enqueue, cacheVars, authVars
<1>2. CASE Expire
  BY <1>2 DEF Expire, cacheVars, authVars
<1>3. ASSUME NEW r \in Requests, Arrive(r)
      PROVE  OnlyRevokedIsUnknown'
  BY <1>3 DEF Arrive, Goto, Free, cacheVars, NoFill
<1>4. ASSUME NEW r \in Requests, Step(r)
      PROVE  OnlyRevokedIsUnknown'
  <2>0. AuthAssumption => At[r] \in Nodes
    BY DEF AuthAssumption
  <2>1. CASE Hit(r)
    BY <2>0, <2>1, AuthAssumption DEF Hit, Loaded, Goto, cacheVars, NoFill
  <2>2. CASE Fetch(r)
    BY <2>2 DEF Fetch, MustFill, Loading, TableValue, cacheVars, NoFill
  <2>3. CASE Store(r)
    BY <2>0, <2>3, AuthAssumption, FillHasValue
    DEF Store, SetL1, Enqueue, Loaded, Goto, NoFill
  <2>4. CASE FailSafe(r)
    BY <2>0, <2>4, AuthAssumption DEF FailSafe, MustFill, Loading, Loaded, Goto, NoFill
  <2>5. CASE Grant(r) \/ Fails(r)
    BY <2>5 DEF Grant, Fails, Goto, cacheVars, NoFill
  <2> QED
    BY <1>4, <2>1, <2>2, <2>3, <2>4, <2>5 DEF Step
<1>5. ASSUME NEW v \in Revokers, Revoke(v)
      PROVE  OnlyRevokedIsUnknown'
  BY <1>5 DEF Revoke, RevokeFind, RevokeUpdate, RevokeRemove, RevokeFails,
              RGoto, SetL1, Enqueue, cacheVars, authVars
<1>6. ASSUME NEW v \in Entries, RunJob(v) \/ EndJobs(v)
      PROVE  OnlyRevokedIsUnknown'
  BY <1>6 DEF RunJob, EndJobs, authVars
<1>7. ASSUME NEW n \in Nodes, ExpireL1(n) \/ DropL1(n) \/ DropTicket(n)
      PROVE  OnlyRevokedIsUnknown'
  BY <1>7 DEF ExpireL1, DropL1, DropTicket, SetL1, cacheVars, authVars
<1>8. ASSUME NEW n \in Nodes, Crash(n)
      PROVE  OnlyRevokedIsUnknown'
  BY <1>8 DEF Crash, SetL1, Free, NoFill
<1>9. CASE ExpireL2
  BY <1>9 DEF ExpireL2, authVars
<1>10. CASE UNCHANGED vars
  BY <1>10 DEF vars, cacheVars, authVars
<1> QED
  BY <1>1, <1>2, <1>3, <1>4, <1>5, <1>6, <1>7, <1>8, <1>9, <1>10 DEF Next

\* The invariant holds always.
THEOREM AuthCorrect == Spec => []AuthInv
<1>1. AuthInv /\ [Next]_vars => AuthInv'
  BY NextTypeOK, NextOnlyRevoked DEF AuthInv
<1> QED
  BY InitAuthInv, <1>1, PTL DEF Spec

\* Every variable has its type, and a node runs one fill of the key at a time.
THEOREM TypeCorrect == Spec => []TypeOK
<1>1. AuthInv => TypeOK
  BY DEF AuthInv
<1> QED
  BY AuthCorrect, <1>1, PTL

\* No cache and no answer denies an active key.
THEOREM ActiveKeyIsKnownHolds == Spec => []ActiveKeyIsKnown
<1>1. AuthInv => ActiveKeyIsKnown
  BY DEF AuthInv, OnlyRevokedIsUnknown, ActiveKeyIsKnown
<1> QED
  BY AuthCorrect, <1>1, PTL

\* A purged key stays purged: no step brings the key back to a cache.
LEMMA NextPurged == TypeOK /\ Purged /\ [Next]_vars => Purged'
<1> SUFFICES ASSUME TypeOK, Purged, [Next]_vars
             PROVE  Purged'
  OBVIOUS
<1> USE DEF TypeOK, Purged, Held, Entries, Values
<1>1. ASSUME NEW n \in Nodes, Create(n) \/ Fill(n)
      PROVE  Purged'
  BY <1>1 DEF Create, Fill
<1>2. CASE Expire
  BY <1>2 DEF Expire, cacheVars, authVars
<1>3. ASSUME NEW r \in Requests, Arrive(r)
      PROVE  Purged'
  BY <1>3 DEF Arrive, Goto, Free, cacheVars, NoFill
<1>4. ASSUME NEW r \in Requests, Step(r)
      PROVE  Purged'
  <2>0. At[r] \in Nodes
    BY AuthAssumption DEF AuthAssumption
  <2>1. CASE Hit(r)
    BY <2>0, <2>1 DEF Hit, Loaded, Goto, cacheVars, NoFill
  <2>2. CASE Fetch(r)
    BY <2>2 DEF Fetch, MustFill, Loading, TableValue, cacheVars, NoFill
  <2>3. CASE Store(r)
    BY <2>0, <2>3, FillHasValue DEF Store, SetL1, Enqueue, Loaded, Goto, NoFill
  <2>4. CASE FailSafe(r)
    BY <2>0, <2>4 DEF FailSafe, MustFill, Loading, Loaded, Goto, NoFill
  <2>5. CASE Grant(r) \/ Fails(r)
    BY <2>5 DEF Grant, Fails, Goto, cacheVars, NoFill
  <2> QED
    BY <1>4, <2>1, <2>2, <2>3, <2>4, <2>5 DEF Step
<1>5. ASSUME NEW v \in Revokers, Revoke(v)
      PROVE  Purged'
  BY <1>5 DEF Revoke, RevokeFind, RevokeUpdate, RevokeRemove, RevokeFails,
              RGoto, SetL1, Enqueue, cacheVars, authVars
<1>6. ASSUME NEW v \in Entries, RunJob(v) \/ EndJobs(v)
      PROVE  Purged'
  BY <1>6 DEF RunJob, EndJobs, authVars
<1>7. ASSUME NEW n \in Nodes, ExpireL1(n) \/ DropL1(n) \/ DropTicket(n)
      PROVE  Purged'
  BY <1>7 DEF ExpireL1, DropL1, DropTicket, SetL1, cacheVars, authVars
<1>8. ASSUME NEW n \in Nodes, Crash(n)
      PROVE  Purged'
  BY <1>8 DEF Crash, SetL1, Free, NoFill
<1>9. CASE ExpireL2
  BY <1>9 DEF ExpireL2, authVars
<1>10. CASE UNCHANGED vars
  BY <1>10 DEF vars, cacheVars, authVars
<1> QED
  BY <1>1, <1>2, <1>3, <1>4, <1>5, <1>6, <1>7, <1>8, <1>9, <1>10 DEF Next

\* A lapsed key stays lapsed: no look-up makes a ticket for it.
LEMMA NextLapsed == TypeOK /\ Lapsed /\ [Next]_vars => Lapsed'
<1> SUFFICES ASSUME TypeOK, Lapsed, [Next]_vars
             PROVE  Lapsed'
  OBVIOUS
<1> USE DEF TypeOK, Lapsed
<1>1. ASSUME NEW n \in Nodes, \/ Create(n) \/ Fill(n) \/ ExpireL1(n) \/ DropL1(n)
                              \/ DropTicket(n) \/ Crash(n)
      PROVE  Lapsed'
  BY <1>1 DEF Create, Fill, ExpireL1, DropL1, DropTicket, Crash, Free, cacheVars, authVars
<1>2. ASSUME NEW r \in Requests, Arrive(r) \/ Step(r)
      PROVE  Lapsed'
  <2>0. At[r] \in Nodes
    BY AuthAssumption DEF AuthAssumption
  <2> QED
    BY <1>2, <2>0 DEF Arrive, Step, Hit, Fetch, Store, FailSafe, Grant, Fails, Loaded,
                      Goto
<1>3. ASSUME NEW v \in Revokers, Revoke(v)
      PROVE  Lapsed'
  BY <1>3 DEF Revoke, RevokeFind, RevokeUpdate, RevokeRemove, RevokeFails, authVars
<1>4. ASSUME NEW v \in Entries, RunJob(v) \/ EndJobs(v)
      PROVE  Lapsed'
  BY <1>4 DEF RunJob, EndJobs, authVars
<1>5. CASE Expire \/ ExpireL2 \/ UNCHANGED vars
  BY <1>5 DEF Expire, ExpireL2, vars, authVars
<1> QED
  BY <1>1, <1>2, <1>3, <1>4, <1>5 DEF Next

\* A key that is out is out, on every node and for good.
THEOREM OutIsOutHolds == Spec => OutIsOut
<1>1. TypeOK /\ [Next]_vars => [(Purged => Purged') /\ (Lapsed => Lapsed')]_vars
  BY NextPurged, NextLapsed
<1> QED
  BY TypeCorrect, <1>1, PTL DEF Spec, OutIsOut
=============================================================================
