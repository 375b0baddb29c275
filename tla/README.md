# Verification of the feature flags service

TLA+ models of the ASP.NET service under `src/`, checked with TLC on small
instances, and theorems about them proved with TLAPS for every value of the
constants. `PROJECT.json` lists the runs, says for each definition which lines of
the source it models, and for each property which plausible bug of the code it
catches.

## 1. The system

A flag belongs to a project and has a key. Clients present an API key (or a JWT),
read and evaluate flags, and manage them. Any number of API nodes run the same
process. They share a Postgres database and a Redis cache, and each has a memory
cache (FusionCache, two levels). Unless said otherwise the paths are below
`src/src/`.

| Component | State | Operations | Interacts with |
|---|---|---|---|
| Flag store: `Web.Api/Endpoints/FeatureFlags`, `FeatureFlagsService`, `CachedFeatureFlagRepository`, `FeatureFlagsRepository` | rows of `FeatureFlags`; per node a memory entry per key, shared with the requests that hit it; a Redis entry per key | get, create, update, delete by key; list | audit queue, hub, FusionCache's background writes |
| Conditional requests: `ETagMiddleware`, `ETagExtensions` | none; clients hold tags | If-None-Match on GET, If-Match on PATCH | flag store, client SDK |
| API key authentication: `ApiKeyAuthenticationHandler`, `CachedApiKeyRepository`, `ApiKeyService` | rows of `ApiKeys`; the entity in both cache levels; a ticket per key in each node's memory | create, authenticate, revoke, list | usage queue |
| API key usage: `ApiKeyUsageQueue` and its two hosted services | last-queued timestamps, an unbounded channel, `LastUsedAt` | queue, consume, clean up | authentication, key repository |
| Audit trail: `AuditLogQueue`, `AuditLogBackgroundService`, `AuditLogsService` | an unbounded channel, rows of `AuditLogs` | queue, append, list, delete | flag store, pagination |
| Pagination: `GetPagedAsync` of two repositories, `CursorHelper` | none; clients hold cursors | page after, page before | flag store, audit trail |
| Evaluation: `EvaluationService`, `Evaluate` | none | decide a flag for a context | flag store |
| Projects: `ProjectService`, `CachedProjectRepository` | rows of `Projects`; entries by id, by name and for the list | create, update, delete, look up | API keys |
| Change notifications: `FeatureFlagHub` | SignalR groups | subscribe, FlagChanged | flag store, client SDK |
| Client SDK: `FeatureFlagsClient`, `FeatureFlagsRetryHandler` | two caches in the client | evaluate, get, create, update, delete, listen; retry | everything above over HTTP |
| Reconnect modal: `../samples/.../ReconnectModal.razor.js` | a dialog, listeners, runs of `retry` and `resume` under way | retry, resume, react to Blazor's events and to the tab | Blazor, the server's circuits |
| Load tests: `../infrastructure/k6.*.js` | what setup has made; a random number generator per virtual user | set up projects, keys and flags; evaluate | the API, other tests |
| Seeder, start-up, observability, contracts | (configuration, counters, data types) | | |

### What is hard in it

* **Shared objects.** The memory cache hands out the object it stores.
  `FeatureFlagsService.UpdateAsync` edits that object before it saves it, so a
  request reads what another has not saved yet, and a failed save leaves its
  edit behind.
* **Check, then act.** If-Match is compared with one load of the flag and the update
  is made to another; create looks for an existing flag in a cache; delete uses the
  id of a cached flag. Between the two steps other requests on other nodes run.
* **Two cache levels, filled late.** A fill reads the table and stores what it
  read after the table has changed; writes to Redis run in the background, in any
  order, or are lost; fail-safe brings expired entries back.
* **Failure.** A statement may fail after it was committed; a node may stop
  between a statement and the cache writes or the queueing that follow it.
* **Positions by time.** Pages are cut by creation time while rows come and go.
* **Fire and forget.** Audit and usage records pass through queues in memory.
* **Answers out of order.** Calls of one client overlap, and each puts what it was told into
  the caches they share; a 304 confirms an entry that may have been replaced since; an attempt
  whose answer was lost is repeated. The same holds for the reconnect dialog, whose calls end
  when the connection has long changed again.
* **Look, then create.** Two load tests list, find nothing and create the same things.

### What makes each component correct

* *Flag store*: caches never speak of flags that were never stored; deleted flags
  stay deleted; an acknowledgement is true; a refused request changes nothing; all
  caches come to agree with the table. Seen from outside, a key is a `FlagTable`.
* *Authentication*: an active key is not refused because of a cache; a revoked or
  expired key is refused everywhere in the end, and from then on.
* *Usage*: the queue does not feed itself; a use is recorded in the end.
* *Audit*: an entry stands for a statement that was committed; a change has one entry at most,
  and a client's changes have theirs in order; the consumer never gets stuck.
* *Pagination*: a walk delivers in order, never twice, and leaves out no row that was
  there throughout.
* *Evaluation*: the order of the rules and the boundaries of the percentage.
* *Projects*: the three entries of a project come to agree with its row.
* *Client SDK*: a get returns a flag that there was during the call; a 404 is true; a call
  updates a flag once; evaluations catch up with the flag.
* *Reconnect modal*: the dialog is open exactly while there is no connection; somebody goes on
  trying; nothing the user has entered is thrown away while the circuit can be had back.
* *Load tests*: what is evaluated is there, or its absence was reported; virtual users do not
  all do the same.

## 2. The plan

In order of importance:

1. `FlagTable`, `FlagStore` and `FlagStoreProofs`: **done**.
2. `ApiKeyAuth` and `ApiKeyAuthProofs`: **done**.
3. `Pagination` and `PaginationProofs`: **done**.
4. `AuditLedger`, `AuditTrail` and `AuditTrailProofs`: **done**.
5. `ReconnectModal` and `ReconnectModalProofs`: **done**.
6. `XorShift`, `LoadTest` and their proofs: **done**.
7. `ClientSdk` and `ClientSdkProofs`: **done**.
8. `ProjectStore`: an entry by id, one by name and the list, with renames.
9. `ApiKeyUsage`: timestamps, channel, consumer that queues again, cleanup. To
   prove: an entry is in the channel at most once per timestamp when the key's
   requests do not overlap.
10. `Evaluation`: operators for the rules and the bucket, against a reference
    definition, over all small rule lists.

`FlagStore` hands audit records over and `AuditTrail` starts from them; a module that
composes the two would show that the rows of a key's history fit together.

The runs of the caches keep to two nodes and two writers: the races above need two of each.

## 3. FlagStore: one flag, from the handlers to the row

`FlagStore.tla` models everything that can happen to one key of one project.

**State.** `row` is the row, `l2` the Redis entry, `l1[n]` the entry of node `n`'s memory
cache, with `expired[n]` when only fail-safe may use it, and `jobs` the background writes
to Redis. `obj` is the heap: `l1` and a handler's `ref` are references into it, as in
.NET, and an object that nothing refers to is collected (`Retain`). A handler's place
is `pc[r]`; `tag`, `seen`, `found` and `fetched` are its local variables. `audit` collects the
records given to the audit queue, `issued` the ETags given to clients, `gone` is a
history of deleted ids. A flag's content is represented by the request that wrote it.

**Actions.** One step is what a handler does between two awaits:

| Action | Code |
|---|---|
| `Arrive` | a request reaches its endpoint, an update with or without If-Match |
| `Hit`, `Fetch`, `Store`, `FetchFails`, `FailSafe` | `CachedFeatureFlagRepository.GetByKeyAsync`, with FusionCache's `GetOrSetAsync` and its lock per key; what follows the load in each handler (`GetLoaded`, `CreateLoaded`, `UpdateLoaded`, `DeleteLoaded`) is part of the same step |
| `Insert`, `InsertFails` | `INSERT` under the unique index on project and key |
| `Apply`, `Bump` | `UpdateAsync` edits the cached object; `Version++` reads and writes |
| `Save`, `SaveFails` | `UPDATE ... WHERE Id`; no row is an exception |
| `Finish` | both caches are set, the audit record is queued, the response is sent |
| `Find`, `Erase`, `DeleteFails`, `Evict` | `CachedFeatureFlagRepository.DeleteAsync`, then the audit record |
| `RunJob`, `LoseJob`, `ExpireL1`, `DropL1`, `ExpireL2` | FusionCache and Redis on their own |
| `Crash` | a node stops: its requests and its memory are gone |

**Promise.** `FlagTable.tla` says what a client may rely on: a key names one flag at a
time, and a deleted id never comes back. `ImplementsTable` maps `live` to the row's id and
`dead` to `gone`.

**Runs.**

* `flag_store`: two writers, each any of create, update and delete, on any of two nodes,
  with every race, failure and crash. `NoPhantomFlag`, `AcknowledgedCreateIsStored`,
  `AcknowledgedDeleteIsReal`, `RefusedLeavesNoTrace` and `ImplementsTable` hold.
* `flag_store_converges`: a reader and a writer on two nodes. `Converges`: every
  cache agrees with the table for good once writing stops. `OnlyWritesMakeStale` is what keeps it
  so: from a state in which nothing stale is left anywhere (`Clean`), no read, fill, fail-safe
  answer, lost write, failure or crash leads to another, until a write begins.
* `flag_store_lost_update` (a violation): `docs/ETAG.md` says If-Match prevents lost
  updates. The check and the update are two loads and a save without a condition on
  the version, so two updates with the same tag both succeed.
* `flag_store_spurious_conflict` (a violation): the tag a GET returns is replaced by
  `ETagMiddleware` with a hash of the body, which the update endpoint compares with a
  hash of id and version. A client that sends it gets a 412 although nothing changed.

**Bounds.** `Requests` are two, as each race above is between two; a get is in the run of
convergence, where a slot is used again and again. `MaxObjects` is at least what two
requests, two memory entries and the background writes can refer to in these runs.
`MaxJobs` is 2: one write and one removal are enough to be reordered. `MaxTags` is 2: the
tag of the flag before and after a write. Nodes, and requests with the same script, are
interchangeable, so the safety runs use their permutations as symmetry; the run of
convergence does not, it fixes the writer's node instead, which loses nothing as the
nodes do not differ.

**Fairness** (`FairSpec`): handlers take their next step, background writes are tried,
and entries are dropped at the end of `FailSafeMaxDuration` and
`DistributedCacheDuration`. The thread pool, FusionCache's timers and Redis' expiry do
that. Nobody has to send a request, no statement has to succeed and nothing has to crash.

## 4. ApiKeyAuth: one API key

**State.** `db` is the row, `overdue` says that `ExpiresAt` has passed. `l1`, `expired`, `l2` and
`jobs` are the caches of the key's entity: an entry is the active entity, a cached
null ("unknown") or none. `jobs` is a set of values, so no bound is needed on the
background writes: `RunJob` writes a value as often as it likes and `EndJobs` says that none
of that value is left. `ticket[n]` is the handler's own cache, `task` the
`Task.Run` of `CreateAsync`, `pc` and `rpc` the places of authentications and revocations.

**Actions.** `Arrive` to `Fails` are `ApiKeyAuthenticationHandler.ValidateApiKeyAsync` with the
look-up below it, `RevokeFind` to `RevokeFails` are
`CachedApiKeyRepository.RevokeAsync`, `Create` and `Fill` are the creation and its
task. The rest is time, FusionCache, Redis and crashes.

**Runs.**

* `key_auth`: two requests at a time on one node, a revocation on the other.
  `ActiveKeyIsKnown` (an active key is never denied from a cache), `RevocationTakesEffect` and
  `ExpiryTakesEffect` (every trace of a revoked or expired key goes away) and `OutIsOut`
  (and none comes back) hold.
* `key_auth_stale` (a violation): `README.md:64` promises that a request's key is checked for
  expiration and revocation. A ticket is accepted without either, and a revocation
  does not remove it: a request that arrives after the 204 is accepted, on the same node
  too, until the ticket's 10 minutes are over.

**Bounds.** Two slots that are used again and again on one node are needed for a fill and a
second request beside it; the other node is where the revocation runs, whose removals do
not reach the first. Nothing else is bounded: the run is exhaustive for these slots.

**Fairness**: as for the flag store; a request in progress ends, and entries and tickets
end with their durations. A revocation need not get beyond its `UPDATE`, and
Redis may lose every write.

## 5. Pagination: a walk along a list

Flags and audit rows are listed by the same algorithm, by `CreatedAt` and, where two times
are equal, by `Id`.

**State.** `rows` are the rows, `used` the ids that were ever given out. The client holds the last
`page` and walks in the direction `dir`; `delivered` is what it has read on this walk and
`kept` the rows that have been there since it began.

**Actions.** `Start` asks for the first page, `Walk` for the next or the previous one with a
cursor of the page it has; both are `GetPaged`: the rows beyond the cursor (`Beyond`), read
towards the end or, with a `before`, away from it (`Precedes`), one more than asked for
(`Take`), reversed for a `before` (`Listed`), and answered with their cursors and flags
(`Response`). `Insert` and `Delete` go on all the time, before and behind the client, and
also take the row its cursor names. Cursors that do not decode, and both cursors at once, are
in `Matching` and `Ascends` although this client does not send them.

**Runs.**

* `pagination`: `WalkComplete` (what the walk has passed and was there throughout has been
  delivered) and `WalkInOrder` (each item comes after the one before it, so none comes
  twice) hold in both directions; a client that turns round starts a walk from the page
  it has. `TurningRoundLeadsBack`: from any page with more behind it, wherever it was cut, the
  next page and then the page before that give the same items and cursors: the descending query, the
  row too many, the reversal and the cursors have to fit together for it. It is about what requests
  return (`Ask`), from every reachable table.

`docs/PAGINATION.md:69` explains `hasNextPage` as "more items exist after the current page",
and `:217` tells clients to look at it before they go on. The code does not mean that
(`FeatureFlagsRepository.cs:88`): a page before a cursor always says no, so that a client that
went back one page and follows the advice cannot go forward again. `Response` has the flag as
the code sets it, and `Over` relies only on the flag of the direction the client walks in.

**Bounds.** Five ids, two with equal times, are enough for two pages of two beyond the
cursor's; `Sizes` holds 0, which is clamped to 1, and 2.

## 6. AuditTrail: from a change to its row

**State.** `pc`, `status` and `saved` are the requests, `queue[n]` is the channel of node `n`,
`working[n]` what its consumer is inserting, `log` the rows in the order of their insertion,
`erased` those deleted again. `earlier[c]` remembers which changes the node had acknowledged
when `c` arrived.

**Actions.** `Arrive`, `Save`, `SaveFails` and `Queue` are `FeatureFlagsService`: the record is queued after
the save, unless the caller has neither an id nor an e-mail address; the hub message that follows an
update may fail, which makes the answer an error. (The endpoints pass no cancellation token, so
a client that goes away does not keep its record out of the channel.) `Take`, `Insert`
and `InsertFails` are the loop of `AuditLogBackgroundService`: an insertion that throws, committed
or not, is reported, and the next record is taken. `Erase` is the DELETE endpoint. `Crash`
empties a node's channel and settles each statement under way either way.

**Runs.**

* `audit_trail`: `LogIsReal` (no row without a committed statement), `AtMostOnce`, `KeepsOrder` (two
  changes of which a client made the second after the answer to the first, on one
  node) and `Drains` (no record waits for good even if every insertion fails) hold.
  `OnlyFailuresLose`: the record of an acknowledged change is in the channel, with the consumer or
  in the log, until an insertion fails or the node stops; so nothing else drops one.
  `ImplementsLedger`: the whole is an `AuditLedger`.

**Promise.** `AuditLedger.tla` is what a reader of the trail may rely on: rows are added at the
end only, for a change of somebody that was committed by then, has no row yet and was sent
after none of those that have one; they are deleted once. `committed` is `saved`, `rows` is `log`,
`before` is `earlier` and `struck` is `erased`.

`Domain/AuditLog.cs:3` calls the log eventually consistent. That every acknowledged change gets
its row in the end is not among the properties, as it is not so: a record whose
insertion fails is reported and dropped, and a node that stops takes its channel with it.

**Bounds.** Three changes on one node (one anonymous) fill the channel behind a record in
work; one on a second node, as rows of different nodes interleave. Each change is made
once. The run is exhaustive.

**Fairness**: requests end and the hosted service runs on, by the thread pool and the
host. Any of their statements may fail, every time.

## 7. ClientSdk: one flag, from a client's side

**State.** `content` is the flag on the server (0 when there is none) and at the same time its ETag, `written` the
number of the last write. `options` is what the client is set to. `flagCache` and `evaluationCache` are the client's two
dictionaries, `hub` its connection and `message` a FlagChanged on its way. Each call has a place
`pc`, an operation, the tag it sends, the retry handler's `attempt` and the last `answer`. `since`
(the contents there have been during a call), `disturbed` (what has happened to a
get meanwhile) and `updates` are histories that only the properties read.

**Actions.**

| Action | Code |
|---|---|
| `Begin` | a method of `FeatureFlagsClient` up to its await: `EvaluateAsync` returns what is cached, `GetFeatureFlagByKeyAsync` always asks, with the tag of its entry |
| `Serve`, `Fail` | an attempt, answered by the server (ETag and 304 of `ETagMiddleware`, the change and message of `Update.cs`), or failed before or after its effect, whatever the status |
| `Retry` | `FeatureFlagsRetryHandler`: GET, HEAD, OPTIONS, PUT and DELETE are repeated, PATCH only with `RetryOnlyIdempotentRequests` off |
| `Receive` | the method after its await: caches are filled, invalidated, or an exception is thrown; a failed attempt may end the call at once, its status being one that is not retried (400, 401, 412) or the time of the whole call (`HttpClient.Timeout`) being over |
| `ExpireFlag`, `ExpireEvaluation` | `TryGetFromCache` finds an entry at the end of its duration |
| `StartListening`, `Subscribe`, `Disconnect`, `Dispose` | the SignalR connection, with automatic reconnects |
| `FlagChanged` | the handler of the message |
| `OtherClient` | somebody else creates, updates or deletes the flag |

**Runs.**

* `client_sdk`: a call that gets or evaluates beside one that gets, updates or deletes.
  `LoneGetIsCurrent` and `LoneGetIsAnswered` are about gets that no other call of the client
  overlaps, on whatever the caches have become by then. The condition is needed: of two
  overlapping gets one may have the late answer of an older flag, store it, and
  the 304 of the other then returns it; and an update that ends between the request and its
  304 takes the entry away. `NotFoundIsTrue` and `UpdatesOnce` are about retries after lost
  answers: an update counts once at most, or, where the options let a PATCH be repeated, once per
  attempt at most. `EvaluationsCatchUp` holds by the end of the entries' duration alone.
* `client_sdk_changed` (a violation): the handler of FlagChanged says "Invalidate internal
  caches", but it removes the flag's key, and entries are kept under composite keys.

Also met while reading, without a property: `StartListeningAsync` keeps a
connection whose start has failed, so that a second call does nothing (`hub` stays
"closed"); an automatic reconnect has a new connection id, and only the claim of its token
subscribes it again.

**Bounds.** Two calls at a time, used again and again. `MaxContents` is 3: a flag, its update, and the
second update that a repeated PATCH would make. `MaxOthers` ends the changes of others before the last
of these, so that the calls go on alone. One retry: what a second adds is a third attempt of the
same kind; `EnableRetries` off is no retry. The clients are the default one and one with
`RetryOnlyIdempotentRequests` off; the second does not listen to messages, which are about the caches
and not about attempts, to keep the run short. One context: evaluations of different contexts have different keys and do
not meet.

**Fairness**: attempts are answered or time out, a call goes on after its await, and entries end
with their durations. Nobody has to call anything, and no message has to arrive.

## 8. ReconnectModal: the dialog of the sample

**State.** `open`, `class` and `listening` are the dialog, `call[c]` what a run of `retry` or `resume`
waits for, `page` whether the page is being reloaded. `framework`, `circuit` and `reachable` are Blazor, the
server and the network, `visible` is the tab: they are external, and do what the
script's comments and the classes of its markup say of them.

**Actions.** `HandleReconnectStateChanged` is what the script makes of Blazor's events (`Drop`, `Pause`,
`ConnectionUp`, `AutoRejected`, `GiveUp`). `ClickRetry`, `ShowTab` and `ClickResume` begin runs of `retry` and
`resume`; `Answer`, `Refused` and `Throws` continue them after an await. `Load` starts the page anew.

`needed` is a history: the calls during which the circuit has not been connected.

**Run** `reconnect_modal`: `DialogTellsTruth`, `NeverDeaf` (`retry` removes its listener before it waits, and puts
it back when it throws), `NothingThrownAway` (a refused reconnect does not tell a stored circuit from a lost one, so
`retry` must try to resume it before it reloads) and `Recovers`.

**Bounds and assumptions.** Three runs may overlap: one stopped in each of its two awaits and one of
`resume`. Nothing in the repository says what Blazor answers to a call that the circuit does not need, as
another run or Blazor itself was first: `MayAnswer` allows both, and all properties hold with both.
If the answer is "false", two clicks on Resume are enough for the second to reload the page that the first
has resumed: the script does not guard against it. `NothingThrownAway` names this, and says
that besides a lost circuit there is no other way to lose the page.

**Fairness**: Blazor's own attempts end, a reload loads when the server can be reached, and a
call is answered or throws; calls that are made again and again while the server can be reached
are answered some time. `Recovers` has as its premises that the server can be reached from some
time on and that the tab is hidden and shown again and again: nothing else retries.

## 9. LoadTest: two k6 tests on one service

**State.** `projects`, `keys` and `flags` are the tables, shared by all tests. Each test has its environment `env`, a place
(`pc`, `at`, `item` are the request and the indices of the loops), what it has made (`project`,
`apiKeys`, `flagKeys`, `listed`), the flags it has reported (`warned`), and a generator `rng` per virtual
user. `asked` is a history of its evaluations.

**Actions.** One request each, with what follows it: `Health`, `ListProjects`, `CreateProject`, `CreateKey`, `ListFlags`, `CreateFlag` and
`Probe` are `setup`, `Throws` is any of its assertions, `EvaluateSteady` and `EvaluateKeyStress` are an
iteration of the two scripts. They share what the scripts have in common and differ where
these differ (`Steady`, `FlagMaker`). `XorShift` is the generator on 32 bits: a word is the set of its
one bits.

**Run** `load_test`: two tests of either kind, on an empty database or on what an earlier one left, with any
requests failing. `FlagsReady`: what a test will evaluate is stored or was reported, although flags are
listed, created and found already there by two tests at once. `AsksForStoredFlags`: in a test of one project
this holds for the key that is really used. `NeverStuck` and `NoLockstep` are about the
generators.

Also met while reading, and modelled as it is: with `API_KEY` given, the key stress test's `setup` returns `apiKey`
where `evaluate` reads `apiKeys` (lines 335 to 341 and 408 to 410), so each iteration throws. With several
projects the steady test asks for all flags with the first key, and the key stress test with
any, so that most flags are not in the key's project; the service answers 200 all the
same. A flag whose creation fails is noted before it is asked for, so the assertion "No flags
were created during setup" cannot notice it. Every setup adds API keys, as a key's value is
never listed.

**Bounds.** One project with two flags, or two with one, and two keys; `MaxRows` 4 is two tests with two keys each. Two virtual users
and two iterations. `API_KEY_COUNT` is at least 1: with 0, which the script accepts, `setup` asks for the flags
without a key and throws at the end. A list of flags is read whole or not at all; the scripts ask for 100, and
would create, and be refused, the flags beyond. Tests are interchangeable (symmetry). A test may end by an exception, and
the iterations are bounded, so the run does not look for deadlocks.

## 10. What is proved

For any nodes, requests, scripts, rows and bounds (the assumptions `StoreAssumption`,
`AuthAssumption`, `PageAssumption`, `AuditAssumption`, `LoadAssumption` and
`SdkAssumption` give the constants their types; `LoadAssumption` also that virtual users are
numbered from 1, as k6 does, and at most `MaxVU`, the last number whose product with 2654435761
is below 2^53, where JavaScript computes it exactly):

* `FlagStoreProofs`. `StoreInv` is inductive. Besides the types it says which objects are kept
  by a reference (an object a handler will use is not collected), that a fill runs
  only while its request loads, that a handler does the steps of its own operation, that
  a request inserts at most once and that an erased flag is in `gone`: none of
  the wanted properties is inductive without these, as each depends on what a
  handler loaded some steps ago being a flag that was stored. From it follow
  `TypeCorrect`, `NoPhantomFlagHolds`, `NoResurrectionHolds`,
  `AcknowledgedCreateIsStoredHolds`, `AcknowledgedDeleteIsRealHolds`,
  `RefusedLeavesNoTraceHolds` and the refinement `Implementation`, action by action.
  `OnlyWritesMakeStaleHolds` needs of it that an object a cache refers to is kept (`Held`): without
  a writer nobody edits one, so each step moves an entry that agrees with the row, or fills from it.
* `ApiKeyAuthProofs`. `AuthInv` adds to the types that only a revoked key is unknown
  to anybody. From it follow `TypeCorrect`, `ActiveKeyIsKnownHolds` and
  `OutIsOutHolds`.

* `PaginationProofs`. `WalkInv` adds to the types and to `WalkComplete` that the far edge
  of the page splits the rows (`Split`): what was delivered lies up to it, what was there
  throughout and has not been delivered lies behind it. From
  lemmas about finite ordered sets (there is a first element; the first n elements are an
  initial part) it follows that a page is the part of the list next to the cursor, for any
  page size and any ties. Results: `TypeCorrect`, `WalkCompleteHolds`, `WalkInOrderHolds`, and, from
  how many rows are taken (`TakeSize`) and which lie behind the next page (`BehindTheNext`),
  `TurningRoundLeadsBackHolds`.
* `AuditTrailProofs`. `AuditInv` says where a record can be (in the channel, in work or in the
  log, never in two of these) and that nothing stands behind a record it precedes: `KeepsOrder` is
  about the log alone, and is kept by an insertion only because the channel and the
  consumer keep the order too. Results: `TypeCorrect`, `LogIsRealHolds`, `AtMostOnceHolds` and
  `KeepsOrderHolds`, the refinement `Implementation` of `AuditLedger` (a record a consumer holds
  may be the next row, `HeldMayFollow`) and `OnlyFailuresLoseHolds`.

* `ClientSdkProofs`. `SdkInv` adds what an answer on its way says (it was so during the call, a 304
  is about the tag that was sent) and, in `Alone`, who may touch the cache while a get is alone: its
  entry is the one whose tag it sent, until it reaches its end. Without these nothing is
  known of the entry at the moment the 304 arrives. Results: `TypeCorrect`, `LoneGetIsCurrentHolds`,
  `LoneGetIsAnsweredHolds`, `NotFoundIsTrueHolds` and, for either value of `RetryOnlyIdempotentRequests`,
  `UpdatesOnceHolds`: an update that is still to be sent has been made at most once per earlier attempt.
* `ReconnectModalProofs`. The type invariant, `DialogTellsTruth` and `NeverDeaf` are inductive together
  (`ModalInv`): each late answer or exception meets a page about which nothing else is known.
  `NeededInv` adds for `NothingThrownAway` that the circuit of a call in `needed` is not connected, and that
  `resume` is called for one the server has stored or lost. Results: `TypeCorrect`, `DialogTellsTruthHolds`,
  `NeverDeafHolds` and `NothingThrownAwayHolds`, for any number of overlapping runs and either answer to
  superfluous calls.
* `XorShiftProofs`. Each of the three shifts is undone bit by bit, from one end of the word to the other: so
  a draw is injective (`NextIsInjective`) and only zero is followed by zero (`NextIsNotZero`).
  The model adds and divides numbers bit by bit and half by half, as TLC's integers are too
  short for the product; `SeedIsProduct`, `ModIsRemainder` and `HotIsFourFifths` say that the results are the
  numbers of the scripts. From the product, 2654435761 being odd, `SeedsDiffer`; and
  `SeedIsNotZero`.
* `LoadTestProofs`. `LoadInv` says for each place of a test what it has and has not made, that its keys
  are of its own projects and that what is listed is there; rows are only added, so a test's
  invariant survives the others (`OthersKeep`). Results: `TypeCorrect`, `FlagsReadyHolds`,
  `AsksForStoredFlagsHolds` and `NeverStuckHolds`. `NoLockstepHolds` needs no induction over draws:
  of the states each generator has been at, the invariant `Lanes` says that two that have drawn
  equally often differ, which one more draw of the one behind keeps (`LaneGoesOn`).

Only model-checked are the liveness properties (`Converges`, `RevocationTakesEffect`,
`ExpiryTakesEffect`, `Drains`, `Recovers`, `EvaluationsCatchUp`): fairness is beyond the prover's reach. Of each
there is a safety part that is proved: what has become true stays so
(`OnlyWritesMakeStaleHolds` for `Converges`, `OutIsOutHolds` for the two of the keys), or is not
lost on the way (`OnlyFailuresLoseHolds` for `Drains`, `NeverDeafHolds` for `Recovers`). The violations are
counterexamples that TLC finds.

## 11. What is left out

* *Flag store*: the look-up by id and its own cache key; the list; the eager refresh at 90%
  of the duration (it is a fill in the background, with the races of a fill); the
  hub message an update sends; the reading of an object's fields one by one while EF builds
  its statement.
* *Authentication*: the cached list of a project's keys, the entry by id, the project that
  `RevokeAsync` looks up before, JWT.
* *Pagination*: the total count (a query of its own), and `Id`s are compared as numbers.
* *Audit*: what a record says. The state before and after an update is a serialised object
  that other requests may have edited (see `FlagStore`), and a second DELETE of a flag
  leaves a record although it deletes nothing. The order of rows by time.
* *Client SDK*: creating a flag, lists, projects and API keys (they touch no cache), If-Match, the
  length of the retry handler's delay. A DELETE that is repeated may remove a flag that was created in
  between; no property is about that. How far the server's own caches are behind is `FlagStore`'s.
* *Load tests*: names of keys, metrics and thresholds, and requests whose answer makes no difference
  (the probe of `resolveApiBase`, which has one candidate, and the list of the API keys).
* *Everything without a module yet*: see the plan; `PROJECT.json` lists each component with
  its status, and the hazards that no property covers yet. The seeder saves in three steps and is
  skipped as soon as one project exists, so that a stop between two of them is never made good.
* *Not to be modelled*: observability (counters that nothing reads back), start-up and JWT
  configuration, contracts, mappers and migrations (no control flow of their own),
  the other samples, benchmarks and infrastructure files. The cached evaluation service is not
  registered (`Program.cs:125`).
