------------------------------ MODULE FlagStore ------------------------------
(***************************************************************************)
(* One flag key of one project, from the HTTP handlers of                  *)
(* Web.Api/Endpoints/FeatureFlags down to the database row, on a set of    *)
(* API nodes that share a Postgres table (row) and a Redis cache (l2) and  *)
(* keep a memory cache each (l1).                                          *)
(*                                                                         *)
(* FusionCache's memory cache hands out the object it stores, it does not  *)
(* copy it: two requests of a node that hit the cache hold the SAME        *)
(* object, and FeatureFlagsService.UpdateAsync edits that object in place  *)
(* before it is saved.  The model therefore has a heap (obj), and l1 and   *)
(* the requests hold references into it.                                   *)
(*                                                                         *)
(* A flag's content (description, switch, parameters) is represented by    *)
(* the request that wrote it.                                              *)
(***************************************************************************)
EXTENDS Naturals, FiniteSets

CONSTANTS
  Nodes,       \* the API instances
  Requests,    \* the HTTP requests; one that writes is made once
  Script,      \* Script[r]: the operations request r may be
  Placements,  \* which nodes may serve which requests: functions from Requests to Nodes
  Seed,        \* the writer of the row that is there at the start, if any
  Null,        \* C#'s null: no such flag, no header, no object
  Miss,        \* no cache entry
  MaxObjects,  \* bound on the FeatureFlag objects in memory at once
  MaxJobs,     \* bound on the writes to Redis that are still to run
  MaxTags      \* bound on the ETags that clients take from reads

Operations == {"get", "create", "update", "delete"}
Objects    == 1 .. MaxObjects
Ids        == Requests \cup {Seed}
Flag       == [id : Ids, ver : Nat, val : Ids]
\* An ETag made of id and version, or of a GET's whole body: of the flag.
ETag       == [id : Ids, ver : Nat] \cup Flag

ASSUME StoreAssumption ==
  /\ MaxObjects \in Nat /\ MaxJobs \in Nat /\ MaxTags \in Nat
  /\ Script \in [Requests -> SUBSET Operations]
  /\ Placements \subseteq [Requests -> Nodes]
  /\ Seed \notin Requests
  /\ Null \notin Ids \cup Flag \cup ETag \cup Objects
  /\ Miss \notin Ids \cup Flag \cup ETag \cup Objects \cup {Null}

VARIABLES
  row,      \* the FeatureFlags row of the key, or Null
  gone,     \* history: the ids that were deleted from the table
  obj,      \* the heap: FeatureFlag objects, Null when collected
  l1,       \* per node: the object in its memory cache, a cached Null, or Miss
  expired,  \* per node: its entry is past its Duration, good only for fail-safe
  l2,       \* Redis: a serialized flag, a serialized Null, or Miss
  jobs,     \* FusionCache's background writes to Redis that are still to run
  pc,       \* per request: where its handler stands
  op,       \* per request: its operation, chosen at the start
  node,     \* per request: the node that serves it, chosen at the start
  tag,      \* per request: the If-Match header of an update, or Null
  ref,      \* per request: the object its handler holds, or Null
  fetched,  \* per request: what its cache fill has read, and whether that was
            \* read from the database; Miss when it runs none
  seen,     \* per request: the version UpdateAsync read to increment it
  found,    \* per request: whether the delete saw its row in the database
  status,   \* per request: the HTTP status, 0 before the answer
  audit,    \* the records handed to AuditLogQueue
  issued    \* the ETags clients have been given

cacheVars   == <<l1, expired, l2, jobs>>
controlVars == <<pc, ref, fetched, status>>
inputVars   == <<op, node>>
vars == <<row, gone, obj, cacheVars, controlVars, inputVars, tag, seen, found,
          audit, issued>>

-----------------------------------------------------------------------------
\* The ETag the endpoints generate.
TagOf(flag) == [id |-> flag.id, ver |-> flag.ver]

\* The ETag of a 200 to a GET: ETagMiddleware replaces the endpoint's by one of
\* the body, if that is not too long.
ReadTags(flag) == {TagOf(flag), flag}

\* An object is in use while a cache, a request or a background write holds it.
Used == {o \in Objects : \/ o \in {l1[n] : n \in Nodes}
                         \/ o \in {ref[r] : r \in Requests}
                         \/ \E r \in Requests : fetched[r] # Miss /\ fetched[r].item = o
                         \/ \E j \in jobs : j.item = o}

\* The heap after a step, without the objects nothing refers to any more.
Retain(heap) ==
  \E inUse \in {Used'} :
    obj' = [o \in Objects |-> IF o \in inUse THEN heap[o] ELSE Null]

\* The least unused object: which one is allocated makes no difference.
IsFresh(o) == /\ o \in Objects \ Used
              /\ \A p \in Objects \ Used : o <= p

\* Node n's memory cache gets the entry v, or loses its entry (Miss).
SetL1(n, v) ==
  /\ l1' = [l1 EXCEPT ![n] = v]
  /\ expired' = [expired EXCEPT ![n] = FALSE]

\* Redis is to be written, or the entry removed (Miss), in the background.
Enqueue(r, v) ==
  /\ Cardinality(jobs) < MaxJobs
  /\ jobs' = jobs \cup {[by |-> r, at |-> node[r], item |-> v]}

\* The row a statement with WHERE Id = @id finds for object o.
Matches(o) == row # Null /\ row.id = obj[o].id

\* The handler of r ends with HTTP status s and lets go of its object.  A read
\* leaves its slot to the next read.
Answer(r, s) ==
  /\ pc' = [pc EXCEPT ![r] = IF op[r] = "get" THEN "idle" ELSE "done"]
  /\ status' = [status EXCEPT ![r] = IF op[r] = "get" THEN 0 ELSE s]
  /\ ref' = [ref EXCEPT ![r] = Null]
  /\ fetched' = [fetched EXCEPT ![r] = Miss]

\* The handler of r goes on at step p holding v.
Continue(r, p, v) ==
  /\ pc' = [pc EXCEPT ![r] = p]
  /\ ref' = [ref EXCEPT ![r] = v]
  /\ fetched' = [fetched EXCEPT ![r] = Miss]
  /\ UNCHANGED status

Init ==
  /\ row \in {Null, [id |-> Seed, ver |-> 1, val |-> Seed]}
  /\ gone = {}
  /\ obj = [o \in Objects |-> Null]
  /\ l1 = [n \in Nodes |-> Miss]
  /\ expired = [n \in Nodes |-> FALSE]
  /\ l2 = Miss
  /\ jobs = {}
  /\ pc = [r \in Requests |-> "idle"]
  /\ op \in {f \in [Requests -> Operations] : \A r \in Requests : f[r] \in Script[r]}
  /\ node \in Placements
  /\ tag = [r \in Requests |-> Null]
  /\ ref = [r \in Requests |-> Null]
  /\ fetched = [r \in Requests |-> Miss]
  /\ seen = [r \in Requests |-> 0]
  /\ found = [r \in Requests |-> FALSE]
  /\ status = [r \in Requests |-> 0]
  /\ audit = {}
  /\ issued = IF row = Null THEN {} ELSE {TagOf(row)}

-----------------------------------------------------------------------------
(* Reading through the cache: CachedFeatureFlagRepository.GetByKeyAsync.   *)

\* A request arrives.  An update may carry an If-Match header with an ETag
\* some client was given.
Arrive(r, t) ==
  /\ pc[r] = "idle"
  /\ t # Null => op[r] = "update"
  /\ pc' = [pc EXCEPT ![r] = "load"]
  /\ tag' = [tag EXCEPT ![r] = t]
  /\ UNCHANGED <<row, gone, obj, cacheVars, inputVars, ref, fetched, seen, found,
                 status, audit, issued>>

\* What each handler does with the flag v (an object, or Null) that the cache
\* returned.
GetLoaded(r, v) == Answer(r, IF v = Null THEN 404 ELSE 200)

CreateLoaded(r, v) == IF v = Null THEN Continue(r, "insert", Null) ELSE Answer(r, 400)

\* An update loads twice: the endpoint's own load validates the If-Match
\* header, then FeatureFlagsService.UpdateAsync loads again.
UpdateLoaded(r, v) ==
  \/ v = Null /\ Answer(r, 404)
  \/ /\ v # Null /\ pc[r] = "load"
     /\ IF tag[r] \in {Null, TagOf(obj[v])}
        THEN Continue(r, "reload", Null)
        ELSE Answer(r, 412)
  \/ v # Null /\ pc[r] = "reload" /\ Continue(r, "apply", v)

\* Mutant of DeleteLoaded: the null check is missing.
DeleteLoadedUnchecked(r, v) == Continue(r, "find", v)

DeleteLoaded(r, v) == IF v = Null THEN Answer(r, 404) ELSE Continue(r, "find", v)

Loaded(r, v) ==
  /\ \/ op[r] = "get"    /\ GetLoaded(r, v)
     \/ op[r] = "create" /\ CreateLoaded(r, v)
     \/ op[r] = "update" /\ UpdateLoaded(r, v)
     \/ op[r] = "delete" /\ DeleteLoaded(r, v)
  /\ IF op[r] = "get" /\ v # Null /\ Cardinality(issued) < MaxTags
     THEN \E e \in ReadTags(obj[v]) : issued' = issued \cup {e}
     ELSE UNCHANGED issued

Loading(r) == pc[r] \in {"load", "reload"} /\ fetched[r] = Miss

\* The memory cache has no good entry, and no request of the node is filling it
\* (FusionCache's lock on the key).
MustFill(r) ==
  /\ Loading(r)
  /\ l1[node[r]] = Miss \/ expired[node[r]]
  /\ \A q \in Requests : node[q] = node[r] => fetched[q] = Miss

\* The memory cache has a good entry: the handler gets that very object.
Hit(r) ==
  /\ Loading(r)
  /\ ~expired[node[r]]
  /\ \E v \in Objects \cup {Null} : l1[node[r]] = v /\ Loaded(r, v)
  /\ UNCHANGED <<row, gone, cacheVars, inputVars, tag, seen, found, audit>>
  /\ Retain(obj)

\* No good entry: the value is read into a new object, from Redis, or from the
\* table if Redis has none or cannot be reached.
Fetch(r) ==
  /\ MustFill(r)
  /\ \E db \in {TRUE, l2 = Miss} :
       LET value == IF db THEN row ELSE l2 IN
       \/ /\ value = Null
          /\ fetched' = [fetched EXCEPT ![r] = [item |-> Null, db |-> db]]
          /\ UNCHANGED obj
       \/ /\ value # Null
          /\ \E o \in Objects :
               /\ IsFresh(o)
               /\ fetched' = [fetched EXCEPT ![r] = [item |-> o, db |-> db]]
               /\ obj' = [obj EXCEPT ![o] = value]
  /\ UNCHANGED <<row, gone, cacheVars, pc, inputVars, tag, ref, seen, found,
                 status, audit, issued>>

\* The fill ends: the value becomes the node's entry, whatever was put there
\* since, and what came from the table is on its way to Redis too.
Store(r) ==
  /\ fetched[r] # Miss
  /\ \E v \in Objects \cup {Null} :
       /\ fetched[r].item = v
       /\ SetL1(node[r], v)
       /\ IF fetched[r].db THEN Enqueue(r, v) ELSE UNCHANGED jobs
       /\ Loaded(r, v)
  /\ UNCHANGED <<row, gone, l2, inputVars, tag, seen, found, audit>>
  /\ Retain(obj)

\* Mutant of FetchFails: that no flag could be read is cached as no flag.
FetchFailsCached(r) ==
  /\ MustFill(r)
  /\ l1[node[r]] = Miss
  /\ SetL1(node[r], Null)
  /\ Answer(r, 500)
  /\ UNCHANGED <<row, gone, obj, l2, jobs, inputVars, tag, seen, found, audit, issued>>

\* The table cannot be read, and there is no old entry either: the exception
\* reaches the endpoint.
FetchFails(r) ==
  /\ MustFill(r)
  /\ l1[node[r]] = Miss
  /\ Answer(r, 500)
  /\ UNCHANGED <<row, gone, obj, cacheVars, inputVars, tag, seen, found, audit,
                 issued>>

\* Fail-safe: the table cannot be read, the expired entry is good again.
FailSafe(r) ==
  /\ MustFill(r)
  /\ \E v \in Objects \cup {Null} : l1[node[r]] = v /\ Loaded(r, v)
  /\ expired' = [expired EXCEPT ![node[r]] = FALSE]
  /\ UNCHANGED <<row, gone, l1, l2, jobs, inputVars, tag, seen, found, audit>>
  /\ Retain(obj)

-----------------------------------------------------------------------------
(* Writing: the handlers' statements, and what they do to the caches.      *)

\* Any statement of a handler can fail, with or without having been
\* committed: the client gets a 500 and no cache is touched.
Fails(r) ==
  /\ Answer(r, 500)
  /\ UNCHANGED <<cacheVars, inputVars, tag, seen, found, audit, issued>>
  /\ Retain(obj)

\* CreateAsync's entity: a fresh id (EntityBase) and version 1.
NewFlag(r) == [id |-> r, ver |-> 1, val |-> r]

\* Mutant of Insert: the table has no unique index on the key.
InsertUnindexed(r) ==
  /\ pc[r] = "insert"
  /\ row' = NewFlag(r)
  /\ \E o \in Objects :
       /\ IsFresh(o)
       /\ Continue(r, "finish", o)
       /\ UNCHANGED <<gone, cacheVars, inputVars, tag, seen, found, audit, issued>>
       /\ Retain([obj EXCEPT ![o] = NewFlag(r)])

\* CreateAsync: INSERT, which the unique index on (ProjectId, Key) refuses
\* when the key is taken.
Insert(r) ==
  /\ pc[r] = "insert"
  /\ row = Null
  /\ row' = NewFlag(r)
  /\ \E o \in Objects :
       /\ IsFresh(o)
       /\ Continue(r, "finish", o)
       /\ UNCHANGED <<gone, cacheVars, inputVars, tag, seen, found, audit, issued>>
       /\ Retain([obj EXCEPT ![o] = NewFlag(r)])

\* Mutant of InsertFails: the new flag is cached although INSERT failed.
InsertFailsCached(r) ==
  /\ pc[r] = "insert"
  /\ \E o \in Objects :
       /\ IsFresh(o)
       /\ Answer(r, 500)
       /\ SetL1(node[r], o)
       /\ UNCHANGED <<row, gone, l2, jobs, inputVars, tag, seen, found, audit, issued>>
       /\ Retain([obj EXCEPT ![o] = NewFlag(r)])

\* INSERT fails: the key was taken in the meantime, or the table did not answer.
InsertFails(r) ==
  /\ pc[r] = "insert"
  /\ row' \in {row} \cup (IF row = Null THEN {NewFlag(r)} ELSE {})
  /\ Fails(r)
  /\ UNCHANGED gone

\* UpdateAsync: the request's content replaces the object's, in place.
Apply(r) ==
  /\ pc[r] = "apply"
  /\ obj' = [obj EXCEPT ![ref[r]].val = r]
  /\ seen' = [seen EXCEPT ![r] = obj[ref[r]].ver]
  /\ pc' = [pc EXCEPT ![r] = "bump"]
  /\ UNCHANGED <<row, gone, cacheVars, inputVars, tag, ref, fetched, found,
                 status, audit, issued>>

\* Version++ on an object other requests of the node may hold: it adds one to
\* a version read at any moment since Apply.
Bump(r) ==
  /\ pc[r] = "bump"
  /\ \E v \in {seen[r], obj[ref[r]].ver} : obj' = [obj EXCEPT ![ref[r]].ver = v + 1]
  /\ seen' = [seen EXCEPT ![r] = 0]
  /\ pc' = [pc EXCEPT ![r] = "save"]
  /\ UNCHANGED <<row, gone, cacheVars, inputVars, tag, ref, fetched, found,
                 status, audit, issued>>

\* Mutant of Save: an upsert, which brings a deleted flag back.
SaveUpserts(r) ==
  /\ pc[r] = "save"
  /\ row' = obj[ref[r]]
  /\ pc' = [pc EXCEPT ![r] = "finish"]
  /\ UNCHANGED <<gone, obj, cacheVars, inputVars, tag, ref, fetched, seen, found,
                 status, audit, issued>>

\* Mutant of SaveFails: If-Match is validated at the save, after the edit.
SaveFailsPrecondition(r) ==
  /\ pc[r] = "save"
  /\ tag[r] \notin {Null, TagOf(obj[ref[r]])}
  /\ Answer(r, 412)
  /\ UNCHANGED <<row, gone, cacheVars, inputVars, tag, seen, found, audit, issued>>
  /\ Retain(obj)

\* UPDATE ... WHERE Id = @id, every column, no version in the condition.
Save(r) ==
  /\ pc[r] = "save"
  /\ Matches(ref[r])
  /\ row' = obj[ref[r]]
  /\ pc' = [pc EXCEPT ![r] = "finish"]
  /\ UNCHANGED <<gone, obj, cacheVars, inputVars, tag, ref, fetched, seen, found,
                 status, audit, issued>>

\* No row has the id (DbUpdateConcurrencyException), or the statement fails.
\* The edited object stays in the memory cache.
SaveFails(r) ==
  /\ pc[r] = "save"
  /\ row' \in {row} \cup (IF Matches(ref[r]) THEN {obj[ref[r]]} ELSE {})
  /\ Fails(r)
  /\ UNCHANGED gone

\* After INSERT or UPDATE: the object becomes the node's entry, Redis gets it
\* in the background, the audit record is queued with the object as it is now,
\* and the client gets the ETag of that object.
Finish(r) ==
  LET o == ref[r] IN
  /\ pc[r] = "finish"
  /\ SetL1(node[r], o)
  /\ Enqueue(r, o)
  /\ audit' = audit \cup {[by |-> r, action |-> op[r], flag |-> obj[o]]}
  /\ issued' = issued \cup {TagOf(obj[o])}
  /\ Answer(r, IF op[r] = "create" THEN 201 ELSE 200)
  /\ UNCHANGED <<row, gone, l2, inputVars, tag, seen, found>>
  /\ Retain(obj)

\* CachedFeatureFlagRepository.DeleteAsync first asks the table for the id.
Find(r) ==
  /\ pc[r] = "find"
  /\ found' = [found EXCEPT ![r] = Matches(ref[r])]
  /\ pc' = [pc EXCEPT ![r] = "erase"]
  /\ UNCHANGED <<row, gone, obj, cacheVars, inputVars, tag, ref, fetched, seen,
                 status, audit, issued>>

\* Mutant of Erased: the condition names the version the cache had, too.
ErasedIfUnchanged(r) ==
  IF Matches(ref[r]) /\ row.ver = obj[ref[r]].ver
  THEN row' = Null /\ gone' = gone \cup {row.id}
  ELSE UNCHANGED <<row, gone>>

\* DELETE ... WHERE Id = @id, whether or not there is such a row.
Erased(r) ==
  IF Matches(ref[r])
  THEN row' = Null /\ gone' = gone \cup {row.id}
  ELSE UNCHANGED <<row, gone>>

Erase(r) ==
  /\ pc[r] = "erase"
  /\ Erased(r)
  /\ pc' = [pc EXCEPT ![r] = "evict"]
  /\ UNCHANGED <<obj, cacheVars, inputVars, tag, ref, fetched, seen, found,
                 status, audit, issued>>

DeleteFails(r) ==
  /\ pc[r] \in {"find", "erase"}
  /\ \/ UNCHANGED <<row, gone>>
     \/ pc[r] = "erase" /\ Erased(r)
  /\ Fails(r)

\* The entries are removed only if the table had the id when it was asked.
Evict(r) ==
  /\ pc[r] = "evict"
  /\ IF found[r]
     THEN SetL1(node[r], Miss) /\ Enqueue(r, Miss)
     ELSE UNCHANGED <<l1, expired, jobs>>
  /\ audit' = audit \cup {[by |-> r, action |-> "delete", flag |-> obj[ref[r]]]}
  /\ found' = [found EXCEPT ![r] = FALSE]
  /\ Answer(r, 204)
  /\ UNCHANGED <<row, gone, l2, inputVars, tag, seen, issued>>
  /\ Retain(obj)

-----------------------------------------------------------------------------
(* The caches' own steps, and crashes.                                     *)

\* A background write or removal reaches Redis, in any order with the others.
\* The object is serialized now, not when the job was made.
RunJob(j) ==
  /\ j \in jobs
  /\ l2' = IF j.item \in Objects THEN obj[j.item] ELSE j.item
  /\ jobs' = jobs \ {j}
  /\ UNCHANGED <<row, gone, l1, expired, controlVars, inputVars, tag, seen, found, audit,
                 issued>>
  /\ Retain(obj)

\* Redis is unreachable: the write is lost.
LoseJob(j) ==
  /\ j \in jobs
  /\ jobs' = jobs \ {j}
  /\ UNCHANGED <<row, gone, l1, expired, l2, controlVars, inputVars, tag, seen,
                 found, audit, issued>>
  /\ Retain(obj)

\* A node's entry expires, after its Duration or when the backplane tells of
\* another node's write.
ExpireL1(n) ==
  /\ l1[n] # Miss /\ ~expired[n]
  /\ expired' = [expired EXCEPT ![n] = TRUE]
  /\ UNCHANGED <<row, gone, obj, l1, l2, jobs, controlVars, inputVars, tag, seen,
                 found, audit, issued>>

\* A node drops its entry: its FailSafeMaxDuration is over, memory pressure
\* evicts it, or the backplane tells of another node's removal.
DropL1(n) ==
  /\ l1[n] # Miss
  /\ SetL1(n, Miss)
  /\ UNCHANGED <<row, gone, l2, jobs, controlVars, inputVars, tag, seen, found,
                 audit, issued>>
  /\ Retain(obj)

\* Mutant of ExpireL2: entries are written without a duration.
NeverExpires == FALSE /\ UNCHANGED vars

\* Redis' entry expires.
ExpireL2 ==
  /\ l2 # Miss
  /\ l2' = Miss
  /\ UNCHANGED <<row, gone, obj, l1, expired, jobs, controlVars, inputVars, tag,
                 seen, found, audit, issued>>

\* A node stops and restarts: its requests get no answer, its memory is lost.
Crash(n) ==
  LET hit(r) == node[r] = n /\ pc[r] \notin {"idle", "done"} IN
  /\ SetL1(n, Miss)
  /\ jobs' = {j \in jobs : j.at # n}
  /\ pc' = [r \in Requests |-> IF ~hit(r) THEN pc[r]
                               ELSE IF op[r] = "get" THEN "idle" ELSE "done"]
  /\ ref' = [r \in Requests |-> IF hit(r) THEN Null ELSE ref[r]]
  /\ fetched' = [r \in Requests |-> IF hit(r) THEN Miss ELSE fetched[r]]
  /\ UNCHANGED <<row, gone, l2, status, inputVars, tag, seen, found, audit, issued>>
  /\ Retain(obj)

-----------------------------------------------------------------------------
\* A handler's next step.
Step(r) == \/ Hit(r) \/ Fetch(r) \/ Store(r) \/ FetchFails(r) \/ FailSafe(r)
           \/ Insert(r) \/ InsertFails(r)
           \/ Apply(r) \/ Bump(r) \/ Save(r) \/ SaveFails(r)
           \/ Finish(r)
           \/ Find(r) \/ Erase(r) \/ DeleteFails(r) \/ Evict(r)

Next == \/ \E r \in Requests :
             \/ \E t \in issued \cup {Null} : Arrive(r, t)
             \/ Step(r)
        \/ \E j \in jobs : RunJob(j) \/ LoseJob(j)
        \/ \E n \in Nodes : ExpireL1(n) \/ DropL1(n) \/ Crash(n)
        \/ ExpireL2

Spec == Init /\ [][Next]_vars

\* Handlers run on, background writes are executed, and entries go after their
\* FailSafeMaxDuration and DistributedCacheDuration.  Nobody has to send requests,
\* and nothing has to crash.
Fairness == /\ \A r \in Requests : WF_vars(Step(r))
            /\ WF_vars(\E j \in jobs : RunJob(j) \/ LoseJob(j))
            /\ \A n \in Nodes : WF_vars(DropL1(n))
            /\ WF_vars(ExpireL2)

FairSpec == Spec /\ Fairness

-----------------------------------------------------------------------------
(* Properties.                                                             *)

Pcs == {"idle", "load", "reload", "insert", "apply", "bump", "save", "finish",
        "find", "erase", "evict", "done"}

Holding == {"apply", "bump", "save", "finish", "find", "erase", "evict"}

\* Every variable has its type, and a handler that works on a flag holds an
\* object that is there: no null reaches UpdateAsync or DeleteAsync.
TypeOK ==
  /\ row \in Flag \cup {Null}
  /\ gone \subseteq Ids
  /\ obj \in [Objects -> Flag \cup {Null}]
  /\ l1 \in [Nodes -> Objects \cup {Null, Miss}]
  /\ expired \in [Nodes -> BOOLEAN]
  /\ l2 \in Flag \cup {Null, Miss}
  /\ jobs \subseteq [by : Requests, at : Nodes, item : Objects \cup {Null, Miss}]
  /\ pc \in [Requests -> Pcs]
  /\ op \in [Requests -> Operations]
  /\ node \in [Requests -> Nodes]
  /\ tag \in [Requests -> ETag \cup {Null}]
  /\ ref \in [Requests -> Objects \cup {Null}]
  /\ fetched \in [Requests -> {Miss} \cup [item : Objects \cup {Null}, db : BOOLEAN]]
  /\ seen \in [Requests -> Nat]
  /\ found \in [Requests -> BOOLEAN]
  /\ status \in [Requests -> {0, 200, 201, 204, 400, 404, 412, 500}]
  /\ audit \subseteq [by : Requests, action : Operations, flag : Flag]
  /\ issued \subseteq ETag
  /\ \A r \in Requests : pc[r] \in Holding => ref[r] \in Objects /\ obj[ref[r]] # Null

\* The id was given to a row of the table at some time.
Stored(i) == i \in gone \/ (row # Null /\ row.id = i)

\* No phantom flag: whatever a cache, a handler, an audit record or an ETag
\* speaks of was in the table at some time.  (Create saves before it caches;
\* a failed INSERT leaves nothing behind.)
NoPhantomFlag ==
  /\ \A o \in Objects : obj[o] # Null => Stored(obj[o].id)
  /\ l2 \notin {Null, Miss} => Stored(l2.id)
  /\ \A a \in audit : Stored(a.flag.id)
  /\ \A e \in issued : Stored(e.id)

\* A deleted flag stays deleted: an update that loaded it before the deletion,
\* or finds it in a stale cache, does not bring it back.
NoResurrection == row # Null => row.id \notin gone

\* A 201 is durable: the flag is in the table until somebody deletes it, and
\* two creates that both saw no flag do not both succeed.
AcknowledgedCreateIsStored == \A r \in Requests : status[r] = 201 => Stored(r)

\* A delete that was acknowledged, and so audited, is real: the flag it names
\* has left the table, however old the cache entry was that named it.
AcknowledgedDeleteIsReal ==
  \A a \in audit : a.action = "delete" => a.flag.id \in gone

\* The content of request r is in the table, in Redis or in a node's memory.
Visible(r) == \/ row # Null /\ row.val = r
              \/ l2 \notin {Null, Miss} /\ l2.val = r
              \/ \E o \in Objects : obj[o] # Null /\ obj[o].val = r

\* A refused request leaves no trace: content sent with a 400, a 404 or a 412
\* is never seen, although updates edit the cached object itself.
RefusedLeavesNoTrace ==
  \A r \in Requests : status[r] \in {400, 404, 412} => ~Visible(r)

\* The table with its caches and handlers is a FlagTable.
Table == INSTANCE FlagTable WITH
           live <- IF row = Null THEN Null ELSE row.id, dead <- gone
ImplementsTable == Table!Spec

\* What a cache, a fill or a background write holds is not stale: it is a flag, Null or
\* Miss in Redis, in memory an object in the place of the flag.
Agrees(flag) == flag \in {Miss, row}
AgreesAt(v)  == Agrees(IF v \in Objects THEN obj[v] ELSE v)

\* The handler of r has found its flag, or none, and goes on to write.
Writing(r) == pc[r] \in {"insert"} \cup Holding

\* No write is under way and nothing stale is left of the earlier ones: not in a memory
\* cache, not in Redis, not in a fill and not on its way to Redis.
Clean ==
  /\ \A r \in Requests : ~Writing(r)
  /\ \A n \in Nodes : AgreesAt(l1[n])
  /\ Agrees(l2)
  /\ \A r \in Requests : fetched[r] # Miss => AgreesAt(fetched[r].item)
  /\ \A j \in jobs : AgreesAt(j.item)

\* Only a write makes a cache stale: until one begins, no read, fill, expiry, fail-safe
\* answer, failure of the table or of Redis, and no crash puts anything but the table's
\* row anywhere.  (What Converges waits for is so never undone.)
OnlyWritesMakeStale == [][Clean => Clean' \/ \E r \in Requests : Writing(r)']_vars

\* Once no more writes come, every cache comes to agree with the table: the
\* stale and dirty entries that races, lost notifications and lost writes to
\* Redis leave behind go away for good.
Converges ==
  <>[](Agrees(l2) /\ \A n \in Nodes : AgreesAt(l1[n]))

\* docs/ETAG.md: If-Match prevents lost updates.  Of two updates made with the
\* same ETag at most one succeeds.
NoLostUpdate ==
  \A r, q \in Requests :
    (r # q /\ tag[r] # Null /\ tag[r] = tag[q]) => ~(status[r] = 200 /\ status[q] = 200)

\* docs/ETAG.md: a PATCH that carries the ETag of an earlier response gets a 412
\* if the flag changed.  It gets none while the table holds the very flag that
\* the ETag was made of.
NoSpuriousConflict ==
  \A r \in Requests :
    status[r] = 412 => (row = Null \/ tag[r] \notin ReadTags(row))
=============================================================================
