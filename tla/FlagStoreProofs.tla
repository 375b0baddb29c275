--------------------------- MODULE FlagStoreProofs ---------------------------
(* What FlagStore guarantees for any number of nodes, requests, objects and  *)
(* pending writes.                                                           *)
EXTENDS FlagStore, TLAPS

USE DEF Operations

(***************************************************************************)
(* Types.  A handler's object is not collected because what is in use is   *)
(* kept: that has to hold of caches, fills and background writes, too.     *)
(***************************************************************************)
InUseIsKept == \A o \in Used : obj[o] # Null

TypeInv == TypeOK /\ InUseIsKept

\* The heap after a step that collects garbage.
LEMMA RetainHeap ==
  ASSUME NEW heap \in [Objects -> Flag \cup {Null}], Retain(heap)
  PROVE  /\ obj' \in [Objects -> Flag \cup {Null}]
         /\ \A o \in Objects : /\ o \in Used' => obj'[o] = heap[o]
                               /\ o \notin Used' => obj'[o] = Null
  BY DEF Retain

\* Answering a request frees objects and takes none.
LEMMA AnswerType ==
  ASSUME TypeOK, NEW r \in Requests,
         NEW s \in {0, 200, 201, 204, 400, 404, 412, 500}, Answer(r, s)
  PROVE  /\ pc' \in [Requests -> Pcs]
         /\ status' \in [Requests -> {0, 200, 201, 204, 400, 404, 412, 500}]
         /\ ref' \in [Requests -> Objects \cup {Null}]
         /\ fetched' \in [Requests -> {Miss} \cup [item : Objects \cup {Null}, db : BOOLEAN]]
         /\ \A q \in Requests : pc'[q] \in Holding => q # r /\ pc[q] \in Holding
         /\ \A q \in Requests : q # r => ref'[q] = ref[q] /\ fetched'[q] = fetched[q]
         /\ ref'[r] = Null /\ fetched'[r] = Miss
  BY DEF Answer, TypeOK, Pcs, Holding

\* Going on takes no object but the one it is given.
LEMMA ContinueType ==
  ASSUME TypeOK, NEW r \in Requests, NEW p \in Pcs, NEW v \in Objects \cup {Null},
         Continue(r, p, v)
  PROVE  /\ pc' \in [Requests -> Pcs]
         /\ status' = status
         /\ status' \in [Requests -> {0, 200, 201, 204, 400, 404, 412, 500}]
         /\ ref' \in [Requests -> Objects \cup {Null}]
         /\ fetched' \in [Requests -> {Miss} \cup [item : Objects \cup {Null}, db : BOOLEAN]]
         /\ \A q \in Requests : q # r => /\ pc'[q] = pc[q]
                                         /\ ref'[q] = ref[q]
                                         /\ fetched'[q] = fetched[q]
         /\ pc'[r] = p /\ ref'[r] = v /\ fetched'[r] = Miss
  BY DEF Continue, TypeOK

\* What a handler keeps of a lookup is the object it got, if anything.
LEMMA LoadedType ==
  ASSUME TypeOK, NEW r \in Requests, NEW v \in Objects \cup {Null},
         v # Null => obj[v] # Null, Loaded(r, v)
  PROVE  /\ pc' \in [Requests -> Pcs]
         /\ status' \in [Requests -> {0, 200, 201, 204, 400, 404, 412, 500}]
         /\ ref' \in [Requests -> Objects \cup {Null}]
         /\ fetched' \in [Requests -> {Miss} \cup [item : Objects \cup {Null}, db : BOOLEAN]]
         /\ issued' \subseteq ETag
         /\ \A q \in Requests \ {r} : pc'[q] \in Holding => pc[q] \in Holding
         /\ pc'[r] \in Holding => ref'[r] # Null
         /\ \A q \in Requests : q # r => ref'[q] = ref[q] /\ fetched'[q] = fetched[q]
         /\ ref'[r] \in {Null, v} /\ fetched'[r] = Miss
<1>1. issued' \subseteq ETag
  <2>1. \A flag \in Flag : ReadTags(flag) \subseteq ETag
    BY DEF ReadTags, TagOf, Flag, ETag
  <2>2. issued \subseteq ETag /\ (v # Null => obj[v] \in Flag)
    BY DEF TypeOK
  <2>. QED
    BY <2>1, <2>2 DEF Loaded
<1>2. \/ \E s \in {200, 400, 404, 412} : Answer(r, s)
      \/ Continue(r, "insert", Null) \/ Continue(r, "reload", Null)
      \/ v # Null /\ (Continue(r, "apply", v) \/ Continue(r, "find", v))
  BY DEF Loaded, GetLoaded, CreateLoaded, UpdateLoaded, DeleteLoaded
<1>3. CASE \E s \in {200, 400, 404, 412} : Answer(r, s)
  <2>1. PICK s \in {200, 400, 404, 412} : Answer(r, s)
    BY <1>3
  <2>2. \A q \in Requests : pc'[q] \in Holding => q # r /\ pc[q] \in Holding
    BY <2>1, AnswerType
  <2>. QED
    BY <1>1, <2>1, <2>2, AnswerType
<1>4. CASE Continue(r, "insert", Null) \/ Continue(r, "reload", Null)
  <2>1. "insert" \in Pcs \ Holding /\ "reload" \in Pcs \ Holding
    BY DEF Pcs, Holding
  <2>. QED
    BY <1>1, <1>4, <2>1, ContinueType
<1>5. CASE v # Null /\ (Continue(r, "apply", v) \/ Continue(r, "find", v))
  BY <1>1, <1>5, ContinueType DEF Pcs
<1>. QED
  BY <1>2, <1>3, <1>4, <1>5

\* A handler that has its flag runs no fill any more.
LEMMA LoadedFills ==
  ASSUME NEW r \in Requests, NEW v \in Objects \cup {Null}, Loaded(r, v)
  PROVE  fetched' = [fetched EXCEPT ![r] = Miss]
  BY DEF Loaded, GetLoaded, CreateLoaded, UpdateLoaded, DeleteLoaded, Answer, Continue

\* At most one node's entry expires, or is fresh again, in a step.
LEMMA ExpiredType ==
  ASSUME TypeOK,
         \/ UNCHANGED expired
         \/ \E n \in Nodes, b \in BOOLEAN : expired' = [expired EXCEPT ![n] = b]
  PROVE  expired' \in [Nodes -> BOOLEAN]
<1>1. expired \in [Nodes -> BOOLEAN]
  BY DEF TypeOK
<1>. QED
  BY <1>1

\* A step that takes no object into use leaves alone those that stay in use.
LEMMA KeepHeap ==
  ASSUME TypeOK, InUseIsKept, Used' \subseteq Used, Retain(obj)
  PROVE  /\ obj' \in [Objects -> Flag \cup {Null}]
         /\ InUseIsKept'
         /\ \A o \in Objects : obj'[o] # Null => obj'[o] = obj[o]
         /\ \A q \in Requests : ref'[q] \in Objects => obj'[ref'[q]] # Null
<1>1. obj \in [Objects -> Flag \cup {Null}]
  BY DEF TypeOK
<1>2. Used' \subseteq Objects /\ \A q \in Requests : ref'[q] \in Objects => ref'[q] \in Used'
  BY DEF Used
<1>. QED
  BY <1>1, <1>2, RetainHeap DEF InUseIsKept

LEMMA InitType == ASSUME Init PROVE TypeInv
<1>1. TypeOK
  <2>1. op \in [Requests -> Operations]
    BY DEF Init
  <2>2. node \in [Requests -> Nodes]
    BY StoreAssumption DEF Init
  <2>3. row \in Flag \cup {Null} /\ issued \subseteq ETag
    BY DEF Init, Flag, ETag, Ids, TagOf
  <2>. QED
    BY <2>1, <2>2, <2>3, StoreAssumption DEF Init, TypeOK, Pcs, Holding
<1>2. Used = {}
  BY StoreAssumption DEF Init, Used
<1>. QED
  BY <1>1, <1>2 DEF TypeInv, InUseIsKept

\* The steps that touch neither the heap nor who holds what.
LEMMA QuietStepType ==
  ASSUME TypeInv, NEW r \in Requests, NEW t \in issued \cup {Null},
         Arrive(r, t) \/ Save(r) \/ Find(r) \/ Erase(r)
  PROVE  TypeInv'
<1>. USE DEF TypeInv
<1>1. UNCHANGED <<obj, l1, jobs, ref, fetched>> => Used' = Used
  BY DEF Used
<1>2. UNCHANGED <<obj, l1, jobs, ref, fetched>> => InUseIsKept'
  BY <1>1 DEF InUseIsKept
<1>3. CASE Arrive(r, t)
  BY <1>2, <1>3 DEF Arrive, TypeOK, Pcs, Holding, cacheVars, inputVars
<1>4. CASE Save(r)
  BY <1>2, <1>4, StoreAssumption DEF Save, TypeOK, Pcs, Holding, cacheVars, inputVars
<1>5. CASE Find(r)
  BY <1>2, <1>5 DEF Find, Matches, TypeOK, Pcs, Holding, cacheVars, inputVars
<1>6. CASE Erase(r)
  <2>1. row' \in Flag \cup {Null} /\ gone' \subseteq Ids
    BY <1>6 DEF Erase, Erased, Matches, TypeOK, Flag
  <2>. QED
    BY <1>2, <1>6, <2>1 DEF Erase, TypeOK, Pcs, Holding, cacheVars, inputVars
<1>. QED
  BY <1>3, <1>4, <1>5, <1>6

LEMMA FetchType ==
  ASSUME TypeInv, NEW r \in Requests, Fetch(r) \/ FetchFails(r)
  PROVE  TypeInv'
<1>. USE DEF TypeInv
<1>1. CASE FetchFails(r)
  <2>1. Answer(r, 500)
    BY <1>1 DEF FetchFails
  <2>2. Used' \subseteq Used
    BY <1>1, <2>1, AnswerType, StoreAssumption DEF FetchFails, Used, cacheVars
  <2>3. InUseIsKept'
    BY <1>1, <2>2 DEF FetchFails, InUseIsKept
  <2>. QED
    BY <1>1, <2>1, <2>3, AnswerType DEF FetchFails, TypeOK, cacheVars, inputVars
<1>2. CASE Fetch(r)
  <2>. DEFINE reads(value, db) ==
         \/ /\ value = Null
            /\ fetched' = [fetched EXCEPT ![r] = [item |-> Null, db |-> db]]
            /\ UNCHANGED obj
         \/ /\ value # Null
            /\ \E o \in Objects :
                 /\ IsFresh(o)
                 /\ fetched' = [fetched EXCEPT ![r] = [item |-> o, db |-> db]]
                 /\ obj' = [obj EXCEPT ![o] = value]
  <2>1. PICK db \in {TRUE, l2 = Miss} : reads(IF db THEN row ELSE l2, db)
    BY <1>2 DEF Fetch
  <2>2. PICK value \in Flag \cup {Null} : reads(value, db)
    BY <2>1 DEF TypeOK
  <2>3. db \in BOOLEAN
    BY <2>1
  <2>4. CASE value = Null
    <3>1. fetched' = [fetched EXCEPT ![r] = [item |-> Null, db |-> db]] /\ obj' = obj
      BY <2>2, <2>4
    <3>2. Used' \subseteq Used
      BY <1>2, <3>1, StoreAssumption DEF Fetch, Used, TypeOK, cacheVars
    <3>. QED
      BY <1>2, <2>3, <3>1, <3>2 DEF Fetch, TypeOK, InUseIsKept, cacheVars, inputVars
  <2>5. CASE value # Null
    <3>1. PICK o \in Objects : /\ IsFresh(o)
                               /\ fetched' = [fetched EXCEPT ![r] = [item |-> o, db |-> db]]
                               /\ obj' = [obj EXCEPT ![o] = value]
      BY <2>2, <2>5
    <3>2. Used' \subseteq Used \cup {o}
      BY <1>2, <3>1 DEF Fetch, Used, TypeOK, cacheVars
    <3>. QED
      BY <1>2, <2>3, <2>5, <3>1, <3>2 DEF Fetch, TypeOK, InUseIsKept, cacheVars, inputVars
  <2>. QED
    BY <2>4, <2>5
<1>. QED
  BY <1>1, <1>2

LEMMA LookupType ==
  ASSUME TypeInv, NEW r \in Requests, Hit(r) \/ FailSafe(r) \/ Store(r)
  PROVE  TypeInv'
<1>. USE DEF TypeInv
<1>. DEFINE stores(v) == /\ l1' = [l1 EXCEPT ![node[r]] = v]
                         /\ jobs' \in {jobs, jobs \cup {[by |-> r, at |-> node[r], item |-> v]}}
<1>1. PICK v \in Objects \cup {Null} : /\ Loaded(r, v)
                                       /\ v \in Objects => v \in Used
                                       /\ UNCHANGED <<l1, jobs>> \/ stores(v)
  <2>1. CASE Hit(r) \/ FailSafe(r)
    <3>1. PICK v \in Objects \cup {Null} : l1[node[r]] = v /\ Loaded(r, v)
      BY <2>1 DEF Hit, FailSafe
    <3>2. v \in Objects => v \in Used
      BY <3>1 DEF Used, TypeOK
    <3>. QED
      BY <2>1, <3>1, <3>2 DEF Hit, FailSafe, cacheVars
  <2>2. CASE Store(r)
    <3>1. PICK v \in Objects \cup {Null} : fetched[r].item = v /\ Loaded(r, v) /\ stores(v)
      BY <2>2 DEF Store, SetL1, Enqueue
    <3>2. v \in Objects => v \in Used
      BY <2>2, <3>1 DEF Store, Used
    <3>. QED
      BY <3>1, <3>2
  <2>. QED
    BY <2>1, <2>2
<1>2. v # Null => obj[v] # Null
  BY <1>1 DEF InUseIsKept
<1>3. /\ l1' \in [Nodes -> Objects \cup {Null, Miss}]
      /\ jobs' \subseteq [by : Requests, at : Nodes, item : Objects \cup {Null, Miss}]
      /\ \A n \in Nodes : l1'[n] \in {v, l1[n]}
      /\ \A j \in jobs' : j \in jobs \/ j.item = v
  BY <1>1 DEF TypeOK
<1>4. Used' \subseteq Used
  BY <1>1, <1>2, <1>3, LoadedType, StoreAssumption DEF Used
<1>5. Retain(obj)
  BY <1>1 DEF Hit, FailSafe, Store
<1>6. /\ UNCHANGED <<row, gone, l2, op, node, tag, seen, found, audit>>
      /\ expired' \in [Nodes -> BOOLEAN]
  <2>1. node[r] \in Nodes
    BY DEF TypeOK
  <2>. QED
    BY <1>1, <2>1, ExpiredType DEF Hit, FailSafe, Store, SetL1, cacheVars, inputVars
<1>7. \A q \in Requests : pc'[q] \in Holding => ref'[q] \in Objects
  BY <1>1, <1>2, LoadedType DEF TypeOK
<1>8. /\ pc' \in [Requests -> Pcs]
      /\ status' \in [Requests -> {0, 200, 201, 204, 400, 404, 412, 500}]
      /\ ref' \in [Requests -> Objects \cup {Null}]
      /\ fetched' \in [Requests -> {Miss} \cup [item : Objects \cup {Null}, db : BOOLEAN]]
      /\ issued' \subseteq ETag
  BY <1>1, <1>2, LoadedType
<1>. QED
  BY <1>3, <1>4, <1>5, <1>6, <1>7, <1>8, KeepHeap DEF TypeOK

\* The steps that edit the object a handler holds.
LEMMA EditType ==
  ASSUME TypeInv, NEW r \in Requests, Apply(r) \/ Bump(r)
  PROVE  TypeInv'
<1>. USE DEF TypeInv
<1>1. ref[r] \in Objects /\ obj[ref[r]] \in Flag
  BY DEF Apply, Bump, TypeOK, Holding
<1>2. Used' = Used
  BY DEF Apply, Bump, Used, cacheVars
<1>3. /\ obj' \in [Objects -> Flag \cup {Null}]
      /\ \A o \in Objects : obj[o] # Null => obj'[o] # Null
  BY <1>1, StoreAssumption DEF Apply, Bump, TypeOK, Flag, Ids
<1>4. InUseIsKept'
  BY <1>2, <1>3 DEF InUseIsKept, Used
<1>5. seen' \in [Requests -> Nat] /\ pc' \in [Requests -> Pcs]
  <2>1. seen \in [Requests -> Nat] /\ pc \in [Requests -> Pcs]
    BY DEF TypeOK
  <2>. QED
    BY <1>1, <2>1 DEF Apply, Bump, Flag, Pcs
<1>6. \A q \in Requests : pc'[q] \in Holding => pc[q] \in Holding
  BY DEF Apply, Bump, TypeOK, Holding
<1>. QED
  BY <1>3, <1>4, <1>5, <1>6 DEF Apply, Bump, TypeOK, cacheVars, inputVars

LEMMA InsertType ==
  ASSUME TypeInv, NEW r \in Requests, Insert(r)
  PROVE  TypeInv'
<1>. DEFINE new == NewFlag(r)
<1>. USE DEF TypeInv
<1>1. PICK o \in Objects : /\ Continue(r, "finish", o)
                           /\ Retain([obj EXCEPT ![o] = new])
  BY DEF Insert
<1>2. new \in Flag /\ "finish" \in Pcs
  BY DEF NewFlag, Flag, Ids, Pcs
<1>3. [obj EXCEPT ![o] = new] \in [Objects -> Flag \cup {Null}]
  BY <1>2 DEF TypeOK
<1>4. Used' \subseteq Used \cup {o}
  BY <1>1, <1>2, ContinueType, StoreAssumption DEF Insert, Used, cacheVars
<1>5. \A p \in Used' : [obj EXCEPT ![o] = new][p] # Null
  <2>1. Used \subseteq Objects /\ new # Null
    BY <1>2, StoreAssumption DEF Used
  <2>2. SUFFICES ASSUME NEW p \in Objects, p \in Used \cup {o}
                 PROVE  [obj EXCEPT ![o] = new][p] # Null
    BY <1>4, <2>1
  <2>. QED
    BY <2>1, <2>2 DEF InUseIsKept, TypeOK
<1>6. obj' \in [Objects -> Flag \cup {Null}] /\ \A p \in Used' : obj'[p] # Null
  <2>1. Used' \subseteq Objects
    BY DEF Used
  <2>. QED
    BY <1>1, <1>3, <1>5, <2>1 DEF Retain
<1>7. /\ pc' \in [Requests -> Pcs]
      /\ status' \in [Requests -> {0, 200, 201, 204, 400, 404, 412, 500}]
      /\ ref' \in [Requests -> Objects \cup {Null}]
      /\ fetched' \in [Requests -> {Miss} \cup [item : Objects \cup {Null}, db : BOOLEAN]]
  BY <1>1, <1>2, ContinueType
<1>8. \A q \in Requests : pc'[q] \in Holding => ref'[q] \in Objects
  <2>1. \A q \in Requests : pc[q] \in Holding => ref[q] \in Objects
    BY DEF TypeOK
  <2>. QED
    BY <1>1, <1>2, <2>1, ContinueType
<1>9. \A q \in Requests : ref'[q] \in Objects => ref'[q] \in Used'
  BY DEF Used
<1>. QED
  BY <1>2, <1>6, <1>7, <1>8, <1>9
  DEF Insert, TypeOK, InUseIsKept, cacheVars, inputVars

\* The steps that end a write.
LEMMA EndType ==
  ASSUME TypeInv, NEW r \in Requests,
         InsertFails(r) \/ SaveFails(r) \/ DeleteFails(r) \/ Finish(r) \/ Evict(r)
  PROVE  TypeInv'
<1>. USE DEF TypeInv
<1>1. PICK s \in {200, 201, 204, 500} : Answer(r, s)
  BY DEF InsertFails, SaveFails, DeleteFails, Finish, Evict, Fails
<1>2. /\ Retain(obj) /\ UNCHANGED <<l2, op, node, tag, seen>>
      /\ expired' \in [Nodes -> BOOLEAN]
  <2>1. node[r] \in Nodes
    BY DEF TypeOK
  <2>. QED
    BY <2>1, ExpiredType
    DEF InsertFails, SaveFails, DeleteFails, Finish, Evict, Fails, SetL1, cacheVars, inputVars
<1>3. PICK v \in Objects \cup {Miss} :
        /\ v = ref[r] \/ v = Miss
        /\ l1' \in {l1, [l1 EXCEPT ![node[r]] = v]}
        /\ jobs' \in {jobs, jobs \cup {[by |-> r, at |-> node[r], item |-> v]}}
  <2>1. Finish(r) => ref[r] \in Objects
    BY DEF Finish, TypeOK, Holding
  <2>. QED
    BY <2>1 DEF InsertFails, SaveFails, DeleteFails, Finish, Evict, Fails, SetL1, Enqueue,
       cacheVars
<1>4. Used' \subseteq Used
  BY <1>1, <1>3, AnswerType, StoreAssumption DEF Used, TypeOK
<1>5. /\ l1' \in [Nodes -> Objects \cup {Null, Miss}]
      /\ jobs' \subseteq [by : Requests, at : Nodes, item : Objects \cup {Null, Miss}]
  BY <1>3 DEF TypeOK
<1>6. row' \in Flag \cup {Null} /\ gone' \subseteq Ids
  <2>1. CASE InsertFails(r)
    BY <2>1 DEF InsertFails, NewFlag, TypeOK, Flag, Ids
  <2>2. CASE SaveFails(r)
    BY <2>2 DEF SaveFails, TypeOK, Holding, Matches
  <2>3. CASE DeleteFails(r)
    BY <2>3 DEF DeleteFails, Erased, Matches, TypeOK, Flag
  <2>4. CASE Finish(r) \/ Evict(r)
    BY <2>4 DEF Finish, Evict, TypeOK
  <2>. QED
    BY <2>1, <2>2, <2>3, <2>4
<1>7. /\ found' \in [Requests -> BOOLEAN]
      /\ audit' \subseteq [by : Requests, action : Operations, flag : Flag]
      /\ issued' \subseteq ETag
  <2>1. CASE InsertFails(r) \/ SaveFails(r) \/ DeleteFails(r)
    BY <2>1 DEF InsertFails, SaveFails, DeleteFails, Fails, TypeOK
  <2>2. CASE Finish(r) \/ Evict(r)
    <3>1. obj[ref[r]] \in Flag /\ op[r] \in Operations
      BY <2>2 DEF Finish, Evict, TypeOK, Holding
    <3>2. CASE Finish(r)
      <4>1. TagOf(obj[ref[r]]) \in ETag
        BY <3>1 DEF TagOf, Flag, ETag
      <4>. QED
        BY <3>1, <3>2, <4>1 DEF Finish, TypeOK
    <3>3. CASE Evict(r)
      BY <3>1, <3>3 DEF Evict, TypeOK
    <3>. QED
      BY <2>2, <3>2, <3>3
  <2>. QED
    BY <2>1, <2>2
<1>8. /\ pc' \in [Requests -> Pcs]
      /\ status' \in [Requests -> {0, 200, 201, 204, 400, 404, 412, 500}]
      /\ ref' \in [Requests -> Objects \cup {Null}]
      /\ fetched' \in [Requests -> {Miss} \cup [item : Objects \cup {Null}, db : BOOLEAN]]
      /\ \A q \in Requests : pc'[q] \in Holding => ref'[q] \in Objects
  BY <1>1, AnswerType DEF TypeOK
<1>. QED
  BY <1>2, <1>4, <1>5, <1>6, <1>7, <1>8, KeepHeap DEF TypeOK

\* The caches' own steps, and crashes.
LEMMA CacheStepType ==
  ASSUME TypeInv,
         \/ \E j \in jobs : RunJob(j) \/ LoseJob(j)
         \/ \E n \in Nodes : DropL1(n) \/ Crash(n)
  PROVE  TypeInv'
<1>. USE DEF TypeInv
<1>1. /\ Retain(obj)
      /\ UNCHANGED <<row, gone, op, node, tag, seen, found, status, audit, issued>>
  BY DEF RunJob, LoseJob, DropL1, Crash, controlVars, inputVars
<1>2. /\ jobs' \subseteq jobs
      /\ l1' \in [Nodes -> Objects \cup {Null, Miss}]
      /\ \A n \in Nodes : l1'[n] \in {l1[n], Miss}
      /\ expired' \in [Nodes -> BOOLEAN]
  <2>1. expired' \in [Nodes -> BOOLEAN]
    BY ExpiredType DEF RunJob, LoseJob, DropL1, Crash, SetL1
  <2>. QED
    BY <2>1 DEF RunJob, LoseJob, DropL1, Crash, SetL1, TypeOK
<1>3. /\ pc' \in [Requests -> Pcs]
      /\ ref' \in [Requests -> Objects \cup {Null}]
      /\ fetched' \in [Requests -> {Miss} \cup [item : Objects \cup {Null}, db : BOOLEAN]]
      /\ \A q \in Requests : /\ ref'[q] \in {ref[q], Null}
                             /\ fetched'[q] \in {fetched[q], Miss}
                             /\ pc'[q] \in Holding => pc[q] \in Holding /\ ref'[q] = ref[q]
  BY DEF RunJob, LoseJob, DropL1, Crash, TypeOK, Pcs, Holding, controlVars
<1>4. Used' \subseteq Used
  BY <1>2, <1>3, StoreAssumption DEF Used
<1>5. l2' \in Flag \cup {Null, Miss}
  <2>1. CASE \E j \in jobs : RunJob(j)
    BY <2>1 DEF RunJob, TypeOK
  <2>2. CASE UNCHANGED l2
    BY <2>2 DEF TypeOK
  <2>. QED
    BY <2>1, <2>2 DEF LoseJob, DropL1, Crash
<1>. QED
  BY <1>1, <1>2, <1>3, <1>4, <1>5, KeepHeap DEF TypeOK

LEMMA NextType == ASSUME TypeInv, [Next]_vars PROVE TypeInv'
<1>1. CASE UNCHANGED vars
  <2>1. Used' = Used
    BY <1>1 DEF vars, cacheVars, controlVars, Used
  <2>. QED
    BY <1>1, <2>1
    DEF TypeInv, TypeOK, InUseIsKept, vars, cacheVars, controlVars, inputVars
<1>2. CASE Next
  <2>1. CASE \E r \in Requests : (\E t \in issued \cup {Null} : Arrive(r, t)) \/ Step(r)
    <3>1. PICK r \in Requests, t \in issued \cup {Null} : Arrive(r, t) \/ Step(r)
      BY <2>1
    <3>. QED
      BY <3>1, QuietStepType, FetchType, LookupType, EditType, InsertType, EndType DEF Step
  <2>2. CASE ExpireL2 \/ \E n \in Nodes : ExpireL1(n)
    <3>1. /\ UNCHANGED <<row, gone, obj, l1, jobs, controlVars, inputVars, tag, seen, found,
                         audit, issued>>
          /\ l2' \in {l2, Miss} /\ expired' \in [Nodes -> BOOLEAN]
      BY <2>2, ExpiredType DEF ExpireL1, ExpireL2, TypeInv
    <3>2. Used' = Used
      BY <3>1 DEF Used, controlVars
    <3>. QED
      BY <3>1, <3>2 DEF TypeInv, TypeOK, InUseIsKept, controlVars, inputVars
  <2>. QED
    BY <1>2, <2>1, <2>2, CacheStepType DEF Next
<1>. QED
  BY <1>1, <1>2

\* Type correctness of every execution, and no handler works on a null or a
\* collected object.
THEOREM TypeCorrect == Spec => []TypeOK
<1>1. Init => TypeInv
  BY InitType
<1>2. TypeInv /\ [Next]_vars => TypeInv'
  BY NextType
<1>3. TypeInv => TypeOK
  BY DEF TypeInv
<1>. QED
  BY <1>1, <1>2, <1>3, PTL DEF Spec

(***************************************************************************)
(* What a step can do to the table, to the heap and Redis, to what was     *)
(* told to clients and auditors, and to the stand of a handler.            *)
(***************************************************************************)
Inserts(r) == /\ pc[r] = "insert" /\ row = Null /\ row' = NewFlag(r) /\ gone' = gone
              /\ pc'[r] = "finish" \/ pc'[r] = (IF op[r] = "get" THEN "idle" ELSE "done")
              /\ status'[r] \in {0, 500, status[r]}
Updates(r) == /\ pc[r] = "save" /\ row # Null /\ row' = obj[ref[r]]
              /\ row'.id = row.id /\ gone' = gone
Deletes    == row # Null /\ row' = Null /\ gone' = gone \cup {row.id}

LEMMA RowEffect ==
  ASSUME TypeInv, [Next]_vars
  PROVE  \/ UNCHANGED <<row, gone>>
         \/ Deletes
         \/ \E r \in Requests : Inserts(r) \/ Updates(r)
<1>1. CASE UNCHANGED vars
  BY <1>1 DEF vars
<1>2. ASSUME NEW r \in Requests, Step(r)
      PROVE  UNCHANGED <<row, gone>> \/ Deletes \/ Inserts(r) \/ Updates(r)
  <2>1. CASE Insert(r) \/ InsertFails(r)
    <3>1. pc \in [Requests -> Pcs] /\ status \in [Requests -> {0, 200, 201, 204, 400, 404, 412, 500}]
      BY DEF TypeInv, TypeOK
    <3>2. CASE Insert(r)
      <4>1. PICK o \in Objects : Continue(r, "finish", o)
        BY <3>2 DEF Insert
      <4>. QED
        BY <3>1, <3>2, <4>1 DEF Insert, Inserts, Continue
    <3>3. CASE InsertFails(r)
      <4>1. Answer(r, 500)
        BY <3>3 DEF InsertFails, Fails
      <4>2. /\ pc'[r] = (IF op[r] = "get" THEN "idle" ELSE "done")
            /\ status'[r] \in {0, 500}
        BY <3>1, <4>1 DEF Answer
      <4>. QED
        BY <3>3, <4>2 DEF InsertFails, Inserts
    <3>. QED
      BY <2>1, <3>2, <3>3
  <2>2. CASE Save(r) \/ SaveFails(r)
    BY <2>2 DEF Save, SaveFails, Updates, Matches
  <2>3. CASE Erase(r) \/ DeleteFails(r)
    BY <2>3 DEF Erase, DeleteFails, Erased, Matches, Deletes
  <2>. QED
    BY <1>2, <2>1, <2>2, <2>3
    DEF Step, Hit, FailSafe, Fetch, Store, FetchFails, Apply, Bump, Finish, Find, Evict
<1>3. CASE Next
  BY <1>2, <1>3 DEF Next, Arrive, RunJob, LoseJob, ExpireL1, DropL1, Crash, ExpireL2
<1>. QED
  BY <1>1, <1>3

\* Where a flag in memory comes from: it was there, perhaps edited by the
\* request that is applying its content, or, in an object nobody used, it was
\* read from the table or from Redis, or has just been inserted.
LEMMA HeapEffect ==
  ASSUME TypeInv, [Next]_vars, NEW o \in Objects, obj'[o] # Null
  PROVE  \/ /\ obj[o] # Null
            /\ obj'[o].id = obj[o].id
            /\ \/ obj'[o].val = obj[o].val
               \/ \E r \in Requests : /\ pc[r] = "apply" /\ pc'[r] = "bump"
                                      /\ status'[r] = status[r] /\ obj'[o].val = r
         \/ /\ o \notin Used
            /\ \/ obj'[o] = row
               \/ obj'[o] = l2 /\ l2 # Miss
               \/ obj'[o] = row' /\ row # row'
<1>1. CASE UNCHANGED vars
  BY <1>1 DEF vars
<1>2. CASE Retain(obj)
  BY <1>2 DEF Retain
<1>3. ASSUME NEW r \in Requests, Apply(r) \/ Bump(r)
      PROVE  /\ obj[o] # Null
             /\ obj'[o].id = obj[o].id
             /\ \/ obj'[o].val = obj[o].val
                \/ /\ pc[r] = "apply" /\ pc'[r] = "bump"
                   /\ status'[r] = status[r] /\ obj'[o].val = r
  <2>1. ref[r] \in Objects /\ obj[ref[r]] # Null /\ obj[ref[r]] \in Flag
    BY <1>3 DEF Apply, Bump, TypeInv, TypeOK, Holding
  <2>2. obj \in [Objects -> Flag \cup {Null}] /\ pc \in [Requests -> Pcs]
    BY DEF TypeInv, TypeOK
  <2>3. CASE Apply(r)
    BY <2>1, <2>2, <2>3 DEF Apply, Flag
  <2>4. CASE Bump(r)
    BY <2>1, <2>2, <2>4 DEF Bump, Flag
  <2>. QED
    BY <1>3, <2>3, <2>4
<1>4. ASSUME NEW r \in Requests, Fetch(r)
      PROVE  \/ obj'[o] = obj[o]
             \/ o \notin Used /\ (obj'[o] = row \/ (obj'[o] = l2 /\ l2 # Miss))
  <2>1. \/ UNCHANGED obj
        \/ \E p \in Objects \ Used :
             \/ obj' = [obj EXCEPT ![p] = row]
             \/ l2 # Miss /\ obj' = [obj EXCEPT ![p] = l2]
    BY <1>4 DEF Fetch, IsFresh
  <2>. QED
    BY <2>1 DEF TypeInv, TypeOK
<1>5. ASSUME NEW r \in Requests, Insert(r)
      PROVE  obj'[o] = obj[o] \/ (o \notin Used /\ obj'[o] = row' /\ row # row')
  <2>1. NewFlag(r) # Null
    BY StoreAssumption DEF NewFlag, Flag, Ids
  <2>. QED
    BY <1>5, <2>1 DEF Insert, IsFresh, Retain, TypeInv, TypeOK
<1>6. CASE Next
  <2>1. CASE \E r \in Requests : (\E t \in issued \cup {Null} : Arrive(r, t)) \/ Step(r)
    BY <1>2, <1>3, <1>4, <1>5, <2>1
    DEF Arrive, Step, Hit, FailSafe, Store, FetchFails, InsertFails, Save, SaveFails, Finish, Find,
        Erase, DeleteFails, Evict, Fails
  <2>. QED
    BY <1>2, <1>6, <2>1 DEF Next, RunJob, LoseJob, ExpireL1, DropL1, Crash, ExpireL2
<1>. QED
  BY <1>1, <1>6

LEMMA RedisEffect ==
  ASSUME TypeInv, [Next]_vars, l2' \notin {Null, Miss}
  PROVE  l2' = l2 \/ \E o \in Objects : obj[o] # Null /\ l2' = obj[o]
<1>1. ASSUME NEW j \in jobs, RunJob(j) PROVE j.item \in Objects /\ l2' = obj[j.item]
  BY <1>1 DEF RunJob, TypeInv, TypeOK
<1>. QED
  BY <1>1 DEF Next, vars, cacheVars, Arrive, Step, Hit, FailSafe, Fetch, Store, FetchFails,
     Insert, InsertFails, Apply, Bump, Save, SaveFails, Finish, Find, Erase, DeleteFails, Evict,
     Fails, LoseJob, ExpireL1, DropL1, Crash, ExpireL2

\* What is told to auditors and clients is told of an object in memory.
LEMMA ReportEffect ==
  ASSUME TypeInv, [Next]_vars
  PROVE  /\ \A a \in audit' :
              \/ a \in audit
              \/ \E r \in Requests : /\ ref[r] \in Objects /\ obj[ref[r]] # Null
                                     /\ a.flag = obj[ref[r]]
                                     /\ a.action = "delete" =>
                                          pc[r] = "evict" \/ (pc[r] = "finish" /\ op[r] = "delete")
         /\ \A e \in issued' : \/ e \in issued
                               \/ \E o \in Objects : obj[o] # Null /\ e.id = obj[o].id
<1>1. ASSUME NEW r \in Requests, Hit(r) \/ FailSafe(r) \/ Store(r)
      PROVE  /\ audit' = audit
             /\ \/ issued' = issued
                \/ \E o \in Objects : /\ obj[o] # Null
                                       /\ \E e \in ReadTags(obj[o]) : issued' = issued \cup {e}
  <2>1. PICK v \in Objects \cup {Null} : Loaded(r, v) /\ (v \in Objects => v \in Used)
    BY <1>1 DEF Hit, FailSafe, Store, Used, TypeInv, TypeOK
  <2>. QED
    BY <1>1, <2>1 DEF Hit, FailSafe, Store, Loaded, TypeInv, InUseIsKept
<1>2. ASSUME NEW r \in Requests, Finish(r)
      PROVE  /\ ref[r] \in Objects /\ obj[ref[r]] # Null /\ pc[r] = "finish"
             /\ audit' = audit \cup {[by |-> r, action |-> op[r], flag |-> obj[ref[r]]]}
             /\ issued' = issued \cup {TagOf(obj[ref[r]])}
  BY <1>2 DEF Finish, TypeInv, TypeOK, Holding
<1>3. ASSUME NEW r \in Requests, Evict(r)
      PROVE  /\ ref[r] \in Objects /\ obj[ref[r]] # Null /\ pc[r] = "evict"
             /\ audit' = audit \cup {[by |-> r, action |-> "delete", flag |-> obj[ref[r]]]}
             /\ issued' = issued
  BY <1>3 DEF Evict, TypeInv, TypeOK, Holding
<1>4. \/ UNCHANGED <<audit, issued>>
      \/ \E r \in Requests : Hit(r) \/ FailSafe(r) \/ Store(r) \/ Finish(r) \/ Evict(r)
  <2>1. CASE UNCHANGED vars
    BY <2>1 DEF vars
  <2>2. ASSUME NEW r \in Requests, Step(r)
        PROVE  UNCHANGED <<audit, issued>> \/ Hit(r) \/ FailSafe(r) \/ Store(r) \/ Finish(r) \/ Evict(r)
    BY <2>2 DEF Step, Fetch, FetchFails, Insert, InsertFails, Apply, Bump, Save, SaveFails,
       Find, Erase, DeleteFails, Fails
  <2>. QED
    BY <2>1, <2>2 DEF Next, Arrive, RunJob, LoseJob, ExpireL1, DropL1, Crash, ExpireL2
<1>5. \A a \in audit' :
        \/ a \in audit
        \/ \E r \in Requests : /\ ref[r] \in Objects /\ obj[ref[r]] # Null
                               /\ a.flag = obj[ref[r]]
                               /\ a.action = "delete" =>
                                    pc[r] = "evict" \/ (pc[r] = "finish" /\ op[r] = "delete")
  BY <1>1, <1>2, <1>3, <1>4
<1>6. \A e \in issued' : \/ e \in issued
                         \/ \E o \in Objects : obj[o] # Null /\ e.id = obj[o].id
  BY <1>1, <1>2, <1>3, <1>4 DEF TagOf, ReadTags
<1>. QED
  BY <1>5, <1>6

\* How a handler's stand changes, with the answer it gives if it ends.
Goes(r, p, q) == pc[r] = p /\ pc'[r] = q /\ status'[r] = status[r]
Ends(r, S) == /\ pc'[r] = (IF op[r] = "get" THEN "idle" ELSE "done")
              /\ status'[r] \in (IF op[r] = "get" THEN {0} ELSE S)

Rests(r) == UNCHANGED <<pc[r], ref[r], status[r]>>

Stops(r) == /\ pc[r] \notin {"idle", "done"}
            /\ pc'[r] = (IF op[r] = "get" THEN "idle" ELSE "done")
            /\ status'[r] = status[r]

Looks(r) == /\ pc[r] \in {"load", "reload"}
            /\ \/ Ends(r, {400, 404, 412, 500})
               \/ /\ status'[r] = status[r]
                  /\ \/ pc'[r] = "insert" /\ op[r] = "create"
                     \/ pc'[r] \in {"reload", "apply"} /\ op[r] = "update"
                     \/ pc'[r] = "find" /\ op[r] = "delete"

Moves(r) == \/ Goes(r, "idle", "load")
            \/ Goes(r, "insert", "finish") /\ Inserts(r)
            \/ Goes(r, "apply", "bump")
            \/ Goes(r, "bump", "save")
            \/ Goes(r, "save", "finish")
            \/ pc[r] \in {"insert", "save", "find", "erase"} /\ Ends(r, {500})
            \/ pc[r] = "finish" /\ Ends(r, {IF op[r] = "create" THEN 201 ELSE 200})
            \/ Goes(r, "find", "erase")
            \/ Goes(r, "erase", "evict") /\ ref'[r] = ref[r] /\ (Matches(ref[r]) => Deletes)
            \/ pc[r] = "evict" /\ Ends(r, {204})

LEMMA AnswerEnds ==
  ASSUME TypeOK, NEW r \in Requests, NEW s \in {200, 201, 204, 400, 404, 412, 500},
         Answer(r, s)
  PROVE  /\ Ends(r, {s}) /\ fetched' = [fetched EXCEPT ![r] = Miss]
         /\ \A q \in Requests \ {r} : Rests(q)
  BY DEF Answer, Ends, Rests, TypeOK

LEMMA LoadedLooks ==
  ASSUME TypeOK, NEW r \in Requests, NEW v \in Objects \cup {Null}, Loaded(r, v),
         pc[r] \in {"load", "reload"}
  PROVE  /\ Looks(r) /\ fetched' = [fetched EXCEPT ![r] = Miss]
         /\ \A q \in Requests \ {r} : Rests(q)
<1>1. CASE op[r] = "get" /\ GetLoaded(r, v)
  <2>1. PICK s \in {200, 404} : Answer(r, s)
    BY <1>1 DEF GetLoaded
  <2>. QED
    BY <1>1, <2>1, AnswerEnds DEF Looks, Ends
<1>2. ASSUME NEW s \in {400, 404, 412}, Answer(r, s)
      PROVE  /\ Looks(r) /\ fetched' = [fetched EXCEPT ![r] = Miss]
             /\ \A q \in Requests \ {r} : Rests(q)
  BY <1>2, AnswerEnds DEF Looks, Ends
<1>3. ASSUME NEW p \in {"insert", "reload", "apply", "find"}, NEW w \in {Null, v},
             Continue(r, p, w),
             \/ p = "insert" /\ op[r] = "create"
             \/ p \in {"reload", "apply"} /\ op[r] = "update"
             \/ p = "find" /\ op[r] = "delete"
      PROVE  /\ Looks(r) /\ fetched' = [fetched EXCEPT ![r] = Miss]
             /\ \A q \in Requests \ {r} : Rests(q)
  BY <1>3 DEF Continue, Looks, Rests, TypeOK
<1>4. CASE op[r] = "create" /\ CreateLoaded(r, v)
  BY <1>2, <1>3, <1>4 DEF CreateLoaded
<1>5. CASE op[r] = "update" /\ UpdateLoaded(r, v)
  BY <1>2, <1>3, <1>5 DEF UpdateLoaded
<1>6. CASE op[r] = "delete" /\ DeleteLoaded(r, v)
  BY <1>2, <1>3, <1>6 DEF DeleteLoaded
<1>. QED
  BY <1>1, <1>4, <1>5, <1>6 DEF Loaded

\* Only a handler that is looking its flag up runs a cache fill.
FillsWhileLoading == \A r \in Requests : fetched[r] # Miss => pc[r] \in {"load", "reload"}

\* Every handler rests, makes a step of its own, or is stopped by a crash.
LEMMA StepEffect ==
  ASSUME TypeInv, FillsWhileLoading, NEW r \in Requests, Step(r)
  PROVE  /\ op' = op /\ FillsWhileLoading'
         /\ Rests(r) \/ Looks(r) \/ Moves(r)
         /\ \A q \in Requests \ {r} : Rests(q)
<1>. USE DEF TypeInv
<1>0. /\ pc \in [Requests -> Pcs] /\ ref \in [Requests -> Objects \cup {Null}]
      /\ fetched \in [Requests -> {Miss} \cup [item : Objects \cup {Null}, db : BOOLEAN]]
  BY DEF TypeOK
<1>1. CASE Hit(r) \/ FailSafe(r) \/ Store(r)
  <2>1. PICK v \in Objects \cup {Null} : Loaded(r, v)
    BY <1>1 DEF Hit, FailSafe, Store
  <2>2. pc[r] \in {"load", "reload"}
    BY <1>1 DEF Hit, FailSafe, Store, MustFill, Loading, FillsWhileLoading
  <2>3. Looks(r) /\ fetched' = [fetched EXCEPT ![r] = Miss] /\ \A q \in Requests \ {r} : Rests(q)
    BY <2>1, <2>2, LoadedLooks
  <2>. QED
    BY <1>0, <1>1, <2>3 DEF Hit, FailSafe, Store, FillsWhileLoading, Rests, inputVars
<1>2. CASE Fetch(r)
  BY <1>0, <1>2 DEF Fetch, MustFill, Loading, FillsWhileLoading, Rests, inputVars
<1>3. ASSUME NEW s \in {200, 201, 204, 500}, Answer(r, s), op' = op,
             \/ s = 500 /\ pc[r] \in {"load", "reload", "insert", "save", "find", "erase"}
             \/ s = (IF op[r] = "create" THEN 201 ELSE 200) /\ pc[r] = "finish"
             \/ s = 204 /\ pc[r] = "evict"
      PROVE  /\ FillsWhileLoading'
             /\ Looks(r) \/ Moves(r)
             /\ \A q \in Requests \ {r} : Rests(q)
  <2>1. Ends(r, {s}) /\ fetched' = [fetched EXCEPT ![r] = Miss] /\ \A q \in Requests \ {r} : Rests(q)
    BY <1>3, AnswerEnds
  <2>2. FillsWhileLoading'
    BY <1>0, <2>1 DEF FillsWhileLoading, Rests
  <2>3. CASE s = 500 /\ pc[r] \in {"load", "reload"}
    BY <2>1, <2>2, <2>3 DEF Looks, Ends
  <2>4. CASE s # 500 \/ pc[r] \notin {"load", "reload"}
    BY <1>3, <2>1, <2>2, <2>4 DEF Moves
  <2>. QED
    BY <2>3, <2>4
<1>4. CASE FetchFails(r) \/ InsertFails(r) \/ SaveFails(r) \/ DeleteFails(r)
  <2>1. Answer(r, 500) /\ op' = op
    BY <1>4 DEF FetchFails, InsertFails, SaveFails, DeleteFails, Fails, inputVars
  <2>2. pc[r] \in {"load", "reload", "insert", "save", "find", "erase"}
    BY <1>4 DEF FetchFails, InsertFails, SaveFails, DeleteFails, MustFill, Loading
  <2>. QED
    BY <1>3, <2>1, <2>2
<1>5. CASE Finish(r)
  BY <1>3, <1>5 DEF Finish, inputVars
<1>6. CASE Evict(r)
  BY <1>3, <1>6 DEF Evict, inputVars
<1>7. CASE Insert(r)
  <2>1. PICK o \in Objects : Continue(r, "finish", o)
    BY <1>7 DEF Insert
  <2>2. Goes(r, "insert", "finish") /\ Inserts(r)
    BY <1>0, <1>7, <2>1 DEF Insert, Continue, Goes, Inserts
  <2>. QED
    BY <1>0, <1>7, <2>1, <2>2 DEF Insert, Continue, Moves, FillsWhileLoading, Rests, inputVars
<1>8. CASE Apply(r) \/ Bump(r) \/ Save(r) \/ Find(r) \/ Erase(r)
  <2>1. fetched' = fetched /\ ref' = ref /\ status' = status /\ op' = op
    BY <1>8 DEF Apply, Bump, Save, Find, Erase, inputVars
  <2>2. \A q \in Requests \ {r} : pc'[q] = pc[q]
    BY <1>0, <1>8 DEF Apply, Bump, Save, Find, Erase
  <2>3. pc[r] \notin {"load", "reload"}
    BY <1>8 DEF Apply, Bump, Save, Find, Erase
  <2>4. FillsWhileLoading'
    BY <2>1, <2>2, <2>3 DEF FillsWhileLoading
  <2>5. Moves(r)
    <3>1. CASE Erase(r)
      BY <1>0, <2>1, <3>1 DEF Erase, Erased, Matches, Deletes, Moves, Goes
    <3>. QED
      BY <1>0, <1>8, <2>1, <3>1 DEF Apply, Bump, Save, Find, Moves, Goes
  <2>. QED
    BY <2>1, <2>2, <2>4, <2>5 DEF Rests
<1>. QED
  BY <1>1, <1>2, <1>4, <1>5, <1>6, <1>7, <1>8 DEF Step

LEMMA HandlerEffect ==
  ASSUME TypeInv, FillsWhileLoading, [Next]_vars
  PROVE  /\ op' = op /\ FillsWhileLoading'
         /\ \A q \in Requests : Rests(q) \/ Looks(q) \/ Moves(q) \/ Stops(q)
<1>1. CASE UNCHANGED vars
  BY <1>1 DEF vars, controlVars, inputVars, Rests, FillsWhileLoading
<1>2. ASSUME NEW r \in Requests, NEW t \in issued \cup {Null}, Arrive(r, t)
      PROVE  op' = op /\ FillsWhileLoading' /\ Moves(r) /\ \A q \in Requests \ {r} : Rests(q)
  BY <1>2 DEF Arrive, inputVars, Moves, Goes, Rests, FillsWhileLoading, TypeInv, TypeOK
<1>3. ASSUME NEW n \in Nodes, Crash(n)
      PROVE  op' = op /\ FillsWhileLoading' /\ \A q \in Requests : Rests(q) \/ Stops(q)
  BY <1>3 DEF Crash, inputVars, Stops, Rests, FillsWhileLoading, TypeInv, TypeOK
<1>4. CASE UNCHANGED <<controlVars, inputVars>>
  BY <1>4 DEF controlVars, inputVars, Rests, FillsWhileLoading
<1>. QED
  BY <1>1, <1>2, <1>3, <1>4, StepEffect DEF Next, RunJob, LoseJob, ExpireL1, DropL1, ExpireL2

(***************************************************************************)
(* The safety properties, by induction on all of them together.            *)
(***************************************************************************)
\* Each point of a handler belongs to one operation, and it answers at its end.
HandlersAreOfTheirKind ==
  \A r \in Requests :
    /\ pc[r] = "insert" => op[r] = "create"
    /\ pc[r] \in {"reload", "apply", "bump", "save"} => op[r] = "update"
    /\ pc[r] = "finish" => op[r] \in {"create", "update"}
    /\ pc[r] \in {"find", "erase", "evict"} => op[r] = "delete"
    /\ status[r] # 0 => pc[r] = "done"

\* A request's id is in the table only once it has inserted, and then it is.
InsertsOnce ==
  \A r \in Requests :
    /\ Stored(r) => op[r] = "create" /\ pc[r] \in {"finish", "done"}
    /\ op[r] = "create" /\ pc[r] = "finish" => Stored(r)

\* A delete that is past its statement names a flag that is gone.
ErasedIsGone == \A r \in Requests : pc[r] = "evict" => obj[ref[r]].id \in gone

\* Only a write that was let through can be seen.
VisibleWasAccepted ==
  \A r \in Requests : Visible(r) => /\ pc[r] \in {"bump", "save", "finish", "done"}
                                    /\ status[r] \notin {400, 404, 412}

StoreInv == /\ TypeInv /\ FillsWhileLoading /\ HandlersAreOfTheirKind
            /\ NoPhantomFlag /\ NoResurrection /\ InsertsOnce
            /\ AcknowledgedCreateIsStored /\ ErasedIsGone /\ AcknowledgedDeleteIsReal
            /\ VisibleWasAccepted

LEMMA InitStore == ASSUME Init PROVE StoreInv
<1>1. TypeInv
  BY InitType
<1>2. /\ FillsWhileLoading /\ HandlersAreOfTheirKind /\ NoResurrection
      /\ AcknowledgedCreateIsStored /\ ErasedIsGone /\ AcknowledgedDeleteIsReal
  BY DEF Init, FillsWhileLoading, HandlersAreOfTheirKind, NoResurrection,
     AcknowledgedCreateIsStored, ErasedIsGone, AcknowledgedDeleteIsReal
<1>3. NoPhantomFlag
  BY StoreAssumption DEF Init, NoPhantomFlag, Stored, TagOf
<1>4. InsertsOnce /\ VisibleWasAccepted
  BY StoreAssumption DEF Init, InsertsOnce, VisibleWasAccepted, Stored, Visible
<1>. QED
  BY <1>1, <1>2, <1>3, <1>4 DEF StoreInv

\* Ids enter the table by an insertion, and never leave its history.
LEMMA StoredGrows ==
  ASSUME TypeInv, [Next]_vars
  PROVE  /\ \A i \in Ids : Stored(i) => Stored(i)'
         /\ \A i \in Ids : Stored(i)' => Stored(i) \/ \E r \in Requests : i = r /\ Inserts(r)
         /\ gone \subseteq gone'
         /\ row' # Null => Stored(row.id)'
<1>1. CASE UNCHANGED <<row, gone>>
  BY <1>1 DEF Stored
<1>2. CASE Deletes
  BY <1>2 DEF Stored, Deletes
<1>3. ASSUME NEW r \in Requests, Inserts(r) PROVE /\ row' # Null /\ row'.id = r /\ row = Null
                                                  /\ gone' = gone
  BY <1>3, StoreAssumption DEF Inserts, NewFlag, Flag, Ids
<1>4. ASSUME NEW r \in Requests, Updates(r)
      PROVE  row # Null /\ row' # Null /\ row'.id = row.id /\ gone' = gone
  BY <1>4 DEF Updates, TypeInv, TypeOK, Holding
<1>5. CASE \E r \in Requests : Inserts(r)
  BY <1>3, <1>5 DEF Stored
<1>6. CASE \E r \in Requests : Updates(r)
  BY <1>4, <1>6 DEF Stored
<1>. QED
  BY <1>1, <1>2, <1>5, <1>6, RowEffect

LEMMA NextKinds ==
  ASSUME StoreInv, [Next]_vars
  PROVE  FillsWhileLoading' /\ HandlersAreOfTheirKind'
<1>. SUFFICES ASSUME NEW r \in Requests
              PROVE  /\ FillsWhileLoading'
                     /\ pc'[r] = "insert" => op'[r] = "create"
                     /\ pc'[r] \in {"reload", "apply", "bump", "save"} => op'[r] = "update"
                     /\ pc'[r] = "finish" => op'[r] \in {"create", "update"}
                     /\ pc'[r] \in {"find", "erase", "evict"} => op'[r] = "delete"
                     /\ status'[r] # 0 => pc'[r] = "done"
  BY HandlerEffect DEF HandlersAreOfTheirKind, StoreInv
<1>1. /\ op' = op /\ FillsWhileLoading'
      /\ Rests(r) \/ Looks(r) \/ Moves(r) \/ Stops(r)
  BY HandlerEffect DEF StoreInv
<1>2. /\ pc[r] = "insert" => op[r] = "create"
      /\ pc[r] \in {"reload", "apply", "bump", "save"} => op[r] = "update"
      /\ pc[r] = "finish" => op[r] \in {"create", "update"}
      /\ pc[r] \in {"find", "erase", "evict"} => op[r] = "delete"
      /\ status[r] # 0 => pc[r] = "done"
  BY DEF StoreInv, HandlersAreOfTheirKind
<1>3. CASE Rests(r)
  BY <1>1, <1>2, <1>3 DEF Rests
<1>4. CASE Looks(r)
  BY <1>1, <1>2, <1>4 DEF Looks, Ends
<1>5. CASE Moves(r)
  BY <1>1, <1>2, <1>5 DEF Moves, Goes, Ends
<1>6. CASE Stops(r)
  BY <1>1, <1>2, <1>6 DEF Stops
<1>. QED
  BY <1>1, <1>3, <1>4, <1>5, <1>6

LEMMA NextPhantom ==
  ASSUME StoreInv, [Next]_vars
  PROVE  NoPhantomFlag'
<1>0. /\ TypeInv /\ NoPhantomFlag
      /\ obj \in [Objects -> Flag \cup {Null}] /\ l2 \in Flag \cup {Null, Miss}
      /\ row \in Flag \cup {Null} /\ \A a \in audit : a.flag \in Flag
      /\ \A e \in issued : e.id \in Ids
  <2>1. \A e \in ETag : e.id \in Ids
    BY DEF ETag, Flag
  <2>. QED
    BY <2>1 DEF StoreInv, TypeInv, TypeOK
<1>1. \A i \in Ids : Stored(i) => Stored(i)'
  BY <1>0, StoredGrows
<1>2. ASSUME NEW flag \in Flag, Stored(flag.id) PROVE Stored(flag.id)'
  BY <1>1, <1>2 DEF Flag
<1>3. row # Null => Stored(row.id)
  BY DEF Stored
<1>4. ASSUME NEW o \in Objects, obj'[o] # Null PROVE Stored(obj[o].id)'
  <2>1. CASE obj[o] # Null /\ obj'[o].id = obj[o].id
    <3>1. PICK i \in Ids : i = obj[o].id
      BY <1>0, <2>1 DEF Flag
    <3>. QED
      BY <1>0, <1>1, <2>1, <3>1 DEF NoPhantomFlag, Stored
  <2>2. CASE obj'[o] = row \/ (obj'[o] = l2 /\ l2 # Miss)
    <3>1. PICK flag \in Flag : obj'[o] = flag /\ Stored(flag.id)
      BY <1>0, <1>3, <1>4, <2>2 DEF NoPhantomFlag
    <3>. QED
      BY <1>2, <3>1 DEF Stored
  <2>3. CASE obj'[o] = row'
    BY <1>4, <2>3 DEF Stored
  <2>. QED
    BY <1>0, <1>4, <2>1, <2>2, <2>3, HeapEffect
<1>5. ASSUME l2' \notin {Null, Miss} PROVE Stored(l2.id)'
  <2>1. PICK flag \in Flag : l2' = flag /\ Stored(flag.id)
    BY <1>0, <1>5, RedisEffect DEF NoPhantomFlag
  <2>. QED
    BY <1>2, <2>1 DEF Stored
<1>6. ASSUME NEW a \in audit' PROVE Stored(a.flag.id)'
  <2>1. PICK flag \in Flag : a.flag = flag /\ Stored(flag.id)
    BY <1>0, <1>6, ReportEffect DEF NoPhantomFlag
  <2>. QED
    BY <1>2, <2>1 DEF Stored
<1>7. ASSUME NEW e \in issued' PROVE Stored(e.id)'
  <2>1. PICK i \in Ids : e.id = i /\ Stored(i)
    BY <1>0, <1>7, ReportEffect DEF NoPhantomFlag, Flag
  <2>. QED
    BY <1>1, <2>1 DEF Stored
<1>. QED
  BY <1>4, <1>5, <1>6, <1>7 DEF NoPhantomFlag

LEMMA NextOnce ==
  ASSUME StoreInv, [Next]_vars
  PROVE  InsertsOnce' /\ NoResurrection' /\ AcknowledgedCreateIsStored'
<1>0. /\ TypeInv /\ HandlersAreOfTheirKind /\ InsertsOnce /\ NoResurrection
      /\ AcknowledgedCreateIsStored
      /\ op' = op /\ \A r \in Requests : Rests(r) \/ Looks(r) \/ Moves(r) \/ Stops(r)
  BY HandlerEffect DEF StoreInv
<1>1. ASSUME NEW r \in Requests, op[r] = "create", pc[r] \in {"finish", "done"}
      PROVE  pc'[r] \in {"finish", "done"}
  BY <1>0, <1>1 DEF Rests, Looks, Moves, Stops, Goes, Ends
<1>2. ASSUME NEW r \in Requests, Inserts(r)
      PROVE  op[r] = "create" /\ pc'[r] \in {"finish", "done"} /\ Stored(r)'
  <2>1. op[r] = "create" /\ pc'[r] \in {"finish", "done"}
    BY <1>0, <1>2 DEF HandlersAreOfTheirKind, Inserts
  <2>2. Stored(r)'
    BY <1>2, StoreAssumption DEF Inserts, Stored, NewFlag, Flag, Ids
  <2>. QED
    BY <2>1, <2>2
<1>3. ASSUME NEW r \in Requests, Stored(r)'
      PROVE  op'[r] = "create" /\ pc'[r] \in {"finish", "done"}
  <2>1. Stored(r) \/ Inserts(r)
    BY <1>0, <1>3, StoredGrows DEF Ids
  <2>. QED
    BY <1>0, <1>1, <1>2, <2>1 DEF InsertsOnce
<1>4. ASSUME NEW r \in Requests, Stored(r) PROVE Stored(r)'
  BY <1>0, <1>4, StoredGrows DEF Ids
<1>5. ASSUME NEW r \in Requests, op'[r] = "create", pc'[r] = "finish" PROVE Stored(r)'
  <2>1. pc[r] = "finish" \/ Inserts(r)
    BY <1>0, <1>5 DEF Rests, Looks, Moves, Stops, Goes, Ends, HandlersAreOfTheirKind
  <2>. QED
    BY <1>0, <1>2, <1>4, <1>5, <2>1 DEF InsertsOnce
<1>6. ASSUME NEW r \in Requests, status'[r] = 201 PROVE Stored(r)'
  <2>1. status[r] = 201 \/ (pc[r] = "finish" /\ op[r] = "create")
    <3>1. CASE Rests(r) \/ Stops(r)
      BY <1>6, <3>1 DEF Rests, Stops
    <3>2. CASE Looks(r)
      BY <1>6, <3>2 DEF Looks, Ends
    <3>3. CASE Moves(r)
      BY <1>6, <3>3 DEF Moves, Goes, Ends
    <3>. QED
      BY <1>0, <3>1, <3>2, <3>3
  <2>. QED
    BY <1>0, <1>4, <2>1 DEF InsertsOnce, AcknowledgedCreateIsStored
<1>7. NoResurrection'
  <2>1. CASE UNCHANGED <<row, gone>>
    BY <1>0, <2>1 DEF NoResurrection
  <2>2. CASE Deletes
    BY <2>2 DEF Deletes, NoResurrection
  <2>3. ASSUME NEW r \in Requests, Inserts(r) PROVE NoResurrection'
    <3>1. r \notin gone
      BY <1>0, <2>3 DEF InsertsOnce, Stored, Inserts
    <3>. QED
      BY <2>3, <3>1 DEF Inserts, NewFlag, NoResurrection
  <2>4. ASSUME NEW r \in Requests, Updates(r) PROVE NoResurrection'
    BY <1>0, <2>4 DEF Updates, NoResurrection
  <2>. QED
    BY <1>0, <2>1, <2>2, <2>3, <2>4, RowEffect
<1>. QED
  BY <1>3, <1>5, <1>6, <1>7 DEF InsertsOnce, AcknowledgedCreateIsStored

LEMMA NextErased ==
  ASSUME StoreInv, [Next]_vars
  PROVE  ErasedIsGone' /\ AcknowledgedDeleteIsReal'
<1>0. /\ TypeInv /\ HandlersAreOfTheirKind /\ NoPhantomFlag /\ ErasedIsGone
      /\ AcknowledgedDeleteIsReal /\ TypeInv' /\ gone \subseteq gone'
      /\ \A r \in Requests : Rests(r) \/ Looks(r) \/ Moves(r) \/ Stops(r)
  BY HandlerEffect, NextType, StoredGrows DEF StoreInv
<1>1. ASSUME NEW r \in Requests, pc'[r] = "evict" PROVE obj'[ref'[r]].id \in gone'
  <2>1. \/ pc[r] = "evict" /\ ref'[r] = ref[r]
        \/ pc[r] = "erase" /\ ref'[r] = ref[r] /\ (Matches(ref[r]) => Deletes)
    BY <1>0, <1>1 DEF Rests, Looks, Moves, Stops, Goes, Ends
  <2>2. PICK o \in Objects : ref[r] = o /\ obj[o] # Null /\ obj'[o] # Null
    BY <1>0, <1>1, <2>1 DEF TypeInv, TypeOK, Holding
  <2>3. obj'[o].id = obj[o].id
    <3>1. o \in Used
      BY <2>2 DEF Used
    <3>. QED
      BY <1>0, <2>2, <3>1, HeapEffect
  <2>4. CASE pc[r] = "evict"
    BY <1>0, <2>1, <2>2, <2>3, <2>4 DEF ErasedIsGone
  <2>5. CASE pc[r] = "erase"
    <3>1. obj[o].id \in gone \/ Matches(o)
      BY <1>0, <2>2 DEF NoPhantomFlag, Stored, Matches
    <3>2. Matches(o) => obj[o].id \in gone'
      BY <2>1, <2>2, <2>5 DEF Matches, Deletes
    <3>. QED
      BY <1>0, <2>1, <2>2, <2>3, <3>1, <3>2
  <2>. QED
    BY <2>1, <2>4, <2>5
<1>2. ASSUME NEW a \in audit', a.action = "delete" PROVE a.flag.id \in gone'
  <2>1. \/ a \in audit
        \/ \E r \in Requests : a.flag = obj[ref[r]] /\ pc[r] = "evict"
    BY <1>0, <1>2, ReportEffect DEF HandlersAreOfTheirKind
  <2>. QED
    BY <1>0, <1>2, <2>1 DEF ErasedIsGone, AcknowledgedDeleteIsReal
<1>. QED
  BY <1>1, <1>2 DEF ErasedIsGone, AcknowledgedDeleteIsReal

LEMMA NextVisible ==
  ASSUME StoreInv, [Next]_vars
  PROVE  VisibleWasAccepted'
<1>0. /\ TypeInv /\ HandlersAreOfTheirKind /\ VisibleWasAccepted
      /\ op' = op /\ \A r \in Requests : Rests(r) \/ Looks(r) \/ Moves(r) \/ Stops(r)
  BY HandlerEffect DEF StoreInv
<1>. DEFINE accepted(r) == /\ pc[r] \in {"bump", "save", "finish", "done"}
                           /\ status[r] \notin {400, 404, 412}
<1>1. ASSUME NEW r \in Requests, Visible(r) PROVE accepted(r)'
  <2>1. accepted(r)
    BY <1>0, <1>1 DEF VisibleWasAccepted
  <2>2. /\ pc[r] \in {"bump", "save"} => op[r] = "update"
        /\ pc[r] = "finish" => op[r] # "get"
    BY <1>0 DEF HandlersAreOfTheirKind
  <2>3. CASE Rests(r) \/ Stops(r)
    BY <2>1, <2>2, <2>3 DEF Rests, Stops
  <2>4. CASE Looks(r)
    BY <2>1, <2>4 DEF Looks
  <2>5. CASE Moves(r)
    BY <2>1, <2>2, <2>5 DEF Moves, Goes, Ends
  <2>. QED
    BY <1>0, <2>3, <2>4, <2>5
<1>2. ASSUME NEW r \in Requests, Inserts(r) PROVE accepted(r)'
  BY <1>0, <1>2 DEF Inserts, HandlersAreOfTheirKind
<1>3. ASSUME NEW r \in Requests, row' # Null, row'.val = r PROVE accepted(r)'
  <2>1. Visible(r) \/ Inserts(r)
    <3>1. CASE UNCHANGED <<row, gone>>
      BY <1>3, <3>1 DEF Visible
    <3>2. CASE Deletes
      BY <1>3, <3>2 DEF Deletes
    <3>3. ASSUME NEW q \in Requests, Inserts(q) PROVE Inserts(r)
      BY <1>3, <3>3 DEF Inserts, NewFlag
    <3>4. ASSUME NEW q \in Requests, Updates(q) PROVE Visible(r)
      BY <1>0, <1>3, <3>4 DEF Updates, Visible, TypeInv, TypeOK, Holding
    <3>. QED
      BY <1>0, <3>1, <3>2, <3>3, <3>4, RowEffect
  <2>. QED
    BY <1>1, <1>2, <2>1
<1>4. ASSUME NEW r \in Requests, NEW o \in Objects, obj'[o] # Null, obj'[o].val = r
      PROVE  accepted(r)'
  <2>1. CASE obj'[o] = row'
    BY <1>3, <1>4, <2>1
  <2>2. CASE \E q \in Requests : /\ pc[q] = "apply" /\ pc'[q] = "bump"
                                 /\ status'[q] = status[q] /\ obj'[o].val = q
    BY <1>0, <1>4, <2>2 DEF HandlersAreOfTheirKind
  <2>3. CASE \/ obj[o] # Null /\ obj'[o].val = obj[o].val
             \/ obj'[o] = row
             \/ obj'[o] = l2 /\ l2 # Miss
    <3>1. Visible(r)
      BY <1>4, <2>3 DEF Visible
    <3>. QED
      BY <1>1, <3>1
  <2>. QED
    BY <1>0, <1>4, <2>1, <2>2, <2>3, HeapEffect
<1>5. ASSUME NEW r \in Requests, l2' \notin {Null, Miss}, l2'.val = r PROVE accepted(r)'
  <2>1. Visible(r)
    BY <1>0, <1>5, RedisEffect DEF Visible
  <2>. QED
    BY <1>1, <2>1
<1>. QED
  BY <1>3, <1>4, <1>5 DEF VisibleWasAccepted, Visible

LEMMA NextStore == ASSUME StoreInv, [Next]_vars PROVE StoreInv'
  BY NextType, NextKinds, NextPhantom, NextOnce, NextErased, NextVisible DEF StoreInv

\* Every execution keeps all of it.
THEOREM StoreCorrect == Spec => []StoreInv
<1>1. Init => StoreInv
  BY InitStore
<1>2. StoreInv /\ [Next]_vars => StoreInv'
  BY NextStore
<1>. QED
  BY <1>1, <1>2, PTL DEF Spec

\* Whatever a cache, a handler, an audit record or an ETag speaks of was in the
\* table at some time.
THEOREM NoPhantomFlagHolds == Spec => []NoPhantomFlag
<1>1. StoreInv => NoPhantomFlag
  BY DEF StoreInv
<1>. QED
  BY <1>1, StoreCorrect, PTL

\* An update never brings a deleted flag back.
THEOREM NoResurrectionHolds == Spec => []NoResurrection
<1>1. StoreInv => NoResurrection
  BY DEF StoreInv
<1>. QED
  BY <1>1, StoreCorrect, PTL

\* A create that was answered with 201 did insert its flag.
THEOREM AcknowledgedCreateIsStoredHolds == Spec => []AcknowledgedCreateIsStored
<1>1. StoreInv => AcknowledgedCreateIsStored
  BY DEF StoreInv
<1>. QED
  BY <1>1, StoreCorrect, PTL

\* A deletion that was audited took its flag out of the table, or found it gone.
THEOREM AcknowledgedDeleteIsRealHolds == Spec => []AcknowledgedDeleteIsReal
<1>1. StoreInv => AcknowledgedDeleteIsReal
  BY DEF StoreInv
<1>. QED
  BY <1>1, StoreCorrect, PTL

\* The content of a request that was refused is nowhere.
THEOREM RefusedLeavesNoTraceHolds == Spec => []RefusedLeavesNoTrace
<1>1. StoreInv => RefusedLeavesNoTrace
  BY DEF StoreInv, VisibleWasAccepted, RefusedLeavesNoTrace
<1>. QED
  BY <1>1, StoreCorrect, PTL

\* The table behind its caches is a FlagTable: a step inserts a flag of a new
\* id, deletes the flag, or leaves the table's ids alone.
THEOREM Implementation == Spec => ImplementsTable
<1>. DEFINE live == IF row = Null THEN Null ELSE row.id
<1>1. Init => Table!Init
  BY StoreAssumption DEF Init, Table!Init, Ids
<1>2. StoreInv /\ StoreInv' /\ [Next]_vars => [Table!Next]_(Table!tableVars)
  <2>. SUFFICES ASSUME StoreInv, [Next]_vars PROVE [Table!Next]_(Table!tableVars)
    OBVIOUS
  <2>1. TypeInv /\ Null \notin Ids
    BY StoreAssumption DEF StoreInv
  <2>2. CASE UNCHANGED <<row, gone>>
    BY <2>2 DEF Table!tableVars
  <2>3. CASE Deletes
    <3>1. live # Null
      BY <2>1, <2>3 DEF Deletes, TypeInv, TypeOK, Flag
    <3>. QED
      BY <2>3, <3>1 DEF Deletes, Table!Next, Table!Delete
  <2>4. ASSUME NEW r \in Requests, Inserts(r) PROVE Table!Next
    <3>1. r \notin gone /\ r \in Ids
      BY <2>4 DEF StoreInv, InsertsOnce, Stored, Inserts, Ids
    <3>2. row' # Null /\ row'.id = r
      BY <2>1, <2>4, StoreAssumption DEF Inserts, NewFlag, Flag, Ids
    <3>. QED
      BY <2>4, <3>1, <3>2 DEF Inserts, Table!Next, Table!Insert
  <2>5. ASSUME NEW r \in Requests, Updates(r) PROVE UNCHANGED Table!tableVars
    <3>1. row' # Null
      BY <2>1, <2>5 DEF Updates, TypeInv, TypeOK, Holding
    <3>. QED
      BY <2>5, <3>1 DEF Updates, Table!tableVars
  <2>. QED
    BY <2>1, <2>2, <2>3, <2>4, <2>5, RowEffect
<1>. QED
  BY <1>1, <1>2, StoreCorrect, PTL DEF Spec, ImplementsTable, Table!Spec

(***************************************************************************)
(* Who makes a cache stale.  With no write under way, an object that stays *)
(* in use is not edited, and what a step puts into a cache, a fill or a    *)
(* background write was in one of them before, or has just been read.      *)
(***************************************************************************)
\* Where references to the heap, and cached Nulls, are held beside the handlers.
Held(v) == \/ \E n \in Nodes : v = l1[n]
           \/ \E r \in Requests : fetched[r] # Miss /\ v = fetched[r].item
           \/ \E j \in jobs : v = j.item

LEMMA HeldAgrees == ASSUME Clean, NEW v, Held(v) PROVE AgreesAt(v)
  BY DEF Clean, Held

\* Moving references about leaves everything as clean as it was.
LEMMA MovesAreClean ==
  ASSUME TypeInv, Clean, row' = row, l2' \in {l2, Miss},
         \A r \in Requests : ~Writing(r)',
         obj' = obj \/ Retain(obj),
         \A v : Held(v)' => v = Miss \/ Held(v)
  PROVE  Clean'
<1>1. ASSUME NEW v, Held(v)' PROVE AgreesAt(v)'
  <2>1. CASE v \notin Objects
    <3>1. v = Miss \/ AgreesAt(v)
      BY <1>1, HeldAgrees
    <3>. QED
      BY <2>1, <3>1, StoreAssumption DEF AgreesAt, Agrees
  <2>2. CASE v \in Objects
    <3>1. AgreesAt(v)
      BY <1>1, <2>2, StoreAssumption, HeldAgrees
    <3>2. v \in Used'
      BY <1>1, <2>2 DEF Held, Used
    <3>3. obj'[v] = obj[v]
      BY <2>2, <3>2 DEF Retain
    <3>. QED
      BY <2>2, <3>1, <3>3 DEF AgreesAt, Agrees
  <2>. QED
    BY <2>1, <2>2
<1>2. Agrees(l2)'
  BY DEF Agrees, Clean
<1>. QED
  BY <1>1, <1>2 DEF Clean, Held

\* A fill reads the table, or Redis, which agrees with it, into an object nobody has.
LEMMA FetchIsClean ==
  ASSUME TypeInv, Clean, NEW r \in Requests, Fetch(r)
  PROVE  Clean'
<1>1. /\ UNCHANGED <<row, l1, l2, jobs, pc>>
      /\ fetched \in [Requests -> {Miss} \cup [item : Objects \cup {Null}, db : BOOLEAN]]
      /\ obj \in [Objects -> Flag \cup {Null}]
  BY DEF Fetch, cacheVars, TypeInv, TypeOK
<1>2. PICK i \in Objects \cup {Null}, b \in BOOLEAN :
        /\ fetched' = [fetched EXCEPT ![r] = [item |-> i, db |-> b]]
        /\ \/ i = Null /\ row = Null /\ obj' = obj
           \/ i \in Objects \ Used /\ obj' = [obj EXCEPT ![i] = row]
  <2>1. PICK db \in {TRUE, l2 = Miss} :
          LET value == IF db THEN row ELSE l2 IN
          \/ /\ value = Null
             /\ fetched' = [fetched EXCEPT ![r] = [item |-> Null, db |-> db]]
             /\ UNCHANGED obj
          \/ /\ value # Null
             /\ \E o \in Objects :
                  /\ IsFresh(o)
                  /\ fetched' = [fetched EXCEPT ![r] = [item |-> o, db |-> db]]
                  /\ obj' = [obj EXCEPT ![o] = value]
    BY DEF Fetch
  <2>2. (IF db THEN row ELSE l2) = row
    BY <2>1 DEF Clean, Agrees
  <2>. QED
    BY <2>1, <2>2 DEF IsFresh
<1>3. ASSUME NEW v, Held(v), v \in Objects PROVE obj'[v] = obj[v]
  <2>1. v \in Used
    BY <1>3 DEF Held, Used
  <2>. QED
    BY <1>1, <1>2, <1>3, <2>1
<1>4. ASSUME NEW v, Held(v) PROVE AgreesAt(v)'
  BY <1>1, <1>3, <1>4, HeldAgrees DEF AgreesAt, Agrees
<1>5. AgreesAt(i)'
  BY <1>1, <1>2, StoreAssumption DEF AgreesAt, Agrees
<1>6. \A v : Held(v)' => Held(v) \/ v = i
  <2>1. fetched'[r].item = i /\ \A q \in Requests \ {r} : fetched'[q] = fetched[q]
    BY <1>1, <1>2
  <2>. QED
    BY <1>1, <2>1 DEF Held
<1>7. (\A q \in Requests : ~Writing(q))' /\ Agrees(l2)'
  BY <1>1 DEF Clean, Writing, Agrees
<1>. QED
  BY <1>4, <1>5, <1>6, <1>7 DEF Clean, Held

\* A background write brings what agrees with the table to Redis.
LEMMA RunJobIsClean ==
  ASSUME TypeInv, Clean, NEW j \in jobs, RunJob(j)
  PROVE  Clean'
<1>1. /\ UNCHANGED <<row, l1, pc, fetched>> /\ jobs' \subseteq jobs /\ Retain(obj)
      /\ l2' = IF j.item \in Objects THEN obj[j.item] ELSE j.item
  BY DEF RunJob, controlVars
<1>2. Agrees(l2)'
  BY <1>1 DEF Clean, AgreesAt, Agrees
<1>3. \A v : Held(v)' => Held(v)
  BY <1>1 DEF Held
<1>4. ASSUME NEW v, Held(v)' PROVE AgreesAt(v)'
  <2>1. AgreesAt(v)
    BY <1>3, <1>4, HeldAgrees
  <2>2. v \in Objects => obj'[v] = obj[v]
    <3>1. v \in Objects => v \in Used'
      BY <1>4 DEF Held, Used
    <3>. QED
      BY <1>1, <3>1 DEF Retain
  <2>. QED
    BY <1>1, <2>1, <2>2 DEF AgreesAt, Agrees
<1>. QED
  BY <1>1, <1>2, <1>4 DEF Clean, Held, Writing

LEMMA NextClean ==
  ASSUME TypeInv, Clean, [Next]_vars, \A r \in Requests : ~Writing(r)'
  PROVE  Clean'
<1>0. /\ l1 \in [Nodes -> Objects \cup {Null, Miss}] /\ node \in [Requests -> Nodes]
      /\ fetched \in [Requests -> {Miss} \cup [item : Objects \cup {Null}, db : BOOLEAN]]
  BY DEF TypeInv, TypeOK
<1>1. CASE UNCHANGED <<row, obj, l1, l2, jobs, fetched>>
  BY <1>1, MovesAreClean DEF Held
<1>2. ASSUME NEW r \in Requests, Step(r), ~Fetch(r)
      PROVE  /\ row' = row /\ l2' = l2 /\ (obj' = obj \/ Retain(obj))
             /\ \A v : Held(v)' => v = Miss \/ Held(v)
  <2>1. pc[r] \notin {"insert"} \cup Holding
    BY DEF Clean, Writing
  <2>2. CASE FetchFails(r)
    <3>1. \A q \in Requests : fetched'[q] \in {fetched[q], Miss}
      BY <1>0, <2>2 DEF FetchFails, Answer
    <3>. QED
      BY <2>2, <3>1 DEF FetchFails, Held, cacheVars
  <2>3. CASE Hit(r) \/ FailSafe(r)
    <3>1. PICK v \in Objects \cup {Null} : Loaded(r, v)
      BY <2>3 DEF Hit, FailSafe
    <3>2. \A q \in Requests : fetched'[q] \in {fetched[q], Miss}
      BY <1>0, <3>1, LoadedFills
    <3>. QED
      BY <2>3, <3>2 DEF Hit, FailSafe, Held, cacheVars
  <2>4. CASE Store(r)
    <3>1. PICK v \in Objects \cup {Null} :
            /\ fetched[r].item = v /\ SetL1(node[r], v) /\ Loaded(r, v)
            /\ IF fetched[r].db THEN Enqueue(r, v) ELSE UNCHANGED jobs
      BY <2>4 DEF Store
    <3>2. \A q \in Requests : fetched'[q] \in {fetched[q], Miss}
      BY <1>0, <3>1, LoadedFills
    <3>3. Held(v)
      BY <2>4, <3>1 DEF Store, Held
    <3>4. /\ \A n \in Nodes : l1'[n] \in {l1[n], v}
          /\ \A j \in jobs' : j \in jobs \/ j.item = v
      BY <1>0, <3>1 DEF SetL1, Enqueue
    <3>. QED
      BY <2>4, <3>2, <3>3, <3>4 DEF Store, Held
  <2>. QED
    BY <1>2, <2>1, <2>2, <2>3, <2>4
    DEF Step, Insert, InsertFails, Apply, Bump, Save, SaveFails, Finish, Find, Erase, DeleteFails,
        Evict, Holding
<1>3. ASSUME NEW n \in Nodes, DropL1(n) \/ Crash(n)
      PROVE  /\ row' = row /\ l2' = l2 /\ Retain(obj)
             /\ \A v : Held(v)' => v = Miss \/ Held(v)
  <2>1. /\ \A m \in Nodes : l1'[m] \in {l1[m], Miss}
        /\ jobs' \subseteq jobs
        /\ \A q \in Requests : fetched'[q] \in {fetched[q], Miss}
    BY <1>0, <1>3 DEF DropL1, Crash, SetL1, controlVars
  <2>. QED
    BY <1>3, <2>1 DEF DropL1, Crash, Held
<1>4. ASSUME NEW j \in jobs, LoseJob(j) PROVE Clean'
  <2>1. \A v : Held(v)' => Held(v)
    BY <1>4 DEF LoseJob, Held, controlVars
  <2>. QED
    BY <1>4, <2>1, MovesAreClean DEF LoseJob
<1>5. CASE ExpireL2
  BY <1>5, MovesAreClean DEF ExpireL2, Held, controlVars
<1>6. CASE UNCHANGED vars \/ (\E n \in Nodes : ExpireL1(n))
           \/ \E r \in Requests, t \in issued \cup {Null} : Arrive(r, t)
  <2>1. UNCHANGED <<row, obj, l1, l2, jobs, fetched>>
    BY <1>6 DEF vars, cacheVars, controlVars, ExpireL1, Arrive
  <2>. QED
    BY <1>1, <2>1
<1>7. ASSUME NEW r \in Requests, Step(r) PROVE Clean'
  <2>1. CASE Fetch(r)
    BY <2>1, FetchIsClean
  <2>2. CASE ~Fetch(r)
    <3>1. /\ row' = row /\ l2' = l2 /\ (obj' = obj \/ Retain(obj))
          /\ \A v : Held(v)' => v = Miss \/ Held(v)
      BY <1>2, <1>7, <2>2
    <3>. QED
      BY <3>1, MovesAreClean
  <2>. QED
    BY <2>1, <2>2
<1>8. ASSUME NEW n \in Nodes, DropL1(n) \/ Crash(n) PROVE Clean'
  BY <1>3, <1>8, MovesAreClean
<1>. QED
  BY <1>4, <1>5, <1>6, <1>7, <1>8, RunJobIsClean DEF Next

\* From a state with nothing stale in it, only a write leads to one that has: for any number
\* of nodes, readers, fills and background writes.
THEOREM OnlyWritesMakeStaleHolds == Spec => OnlyWritesMakeStale
<1>1. TypeInv /\ [Next]_vars => [Clean => Clean' \/ \E r \in Requests : Writing(r)']_vars
  BY NextClean
<1>2. Init => TypeInv
  BY InitType
<1>3. TypeInv /\ [Next]_vars => TypeInv'
  BY NextType
<1>. QED
  BY <1>1, <1>2, <1>3, PTL DEF Spec, OnlyWritesMakeStale
=============================================================================
