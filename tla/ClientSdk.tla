----------------------------- MODULE ClientSdk -----------------------------
(***************************************************************************)
(* FeatureFlagsClient with its retry handler and its SignalR connection:   *)
(* calls about one flag that overlap in a process, the two caches they     *)
(* share, attempts whose answers are lost, other clients that change the   *)
(* flag, and the FlagChanged messages that speak of it.                    *)
(*                                                                         *)
(* The server answers with the flag as it is (how far its own caches are   *)
(* behind is in FlagStore).  A content is the number of the write that     *)
(* made it, and so is its ETag: ETagMiddleware hashes the body.            *)
(***************************************************************************)
EXTENDS Naturals

CONSTANTS
  Calls,             \* calls that may be under way together
  Operations,        \* per call: what it may be
  Contexts,          \* the contexts flags are evaluated for
  EvaluationCaching, \* EnableEvaluationCache
  MaxRetries,        \* of the options; 0 stands for EnableRetries = false, too
  Options,           \* what a client may be set to: RetryOnlyIdempotentRequests, and
                     \* whether the application calls StartListeningAsync
  MaxContents,       \* bound on the contents that are written
  MaxOthers          \* bound on those before the last change by other clients

ASSUME SdkAssumption ==
  /\ Operations \in [Calls -> SUBSET {"get", "evaluate", "update", "delete"}]
  /\ Options \subseteq [retryOnlyIdempotent : BOOLEAN, listens : BOOLEAN]
  /\ EvaluationCaching \in BOOLEAN
  /\ {MaxRetries, MaxContents, MaxOthers} \subseteq Nat /\ MaxContents >= 1

VARIABLES
  content,         \* the flag, or 0 when there is none
  written,         \* the last content that was written
  flagCache,       \* _featureFlagCacheByKey: content and tag, by cache key
  evaluationCache, \* _evaluationCache: the content that was evaluated, by cache key
  hub,             \* _hubConnection, and whether it is in the group of the project
  message,         \* FlagChanged is on its way to the client
  options,         \* those of the client, which stay as they are
  pc, op, context, \* per call
  attempt,         \* per call: the handler's counter
  ifNoneMatch,     \* per call: the tag it sends, or 0
  answer,          \* per call: the answer of the server, in the end that of the call
  since,           \* history, per call but evaluations: the contents there have been since it began
  disturbed,       \* history, per get: "expired" when the entry has, since it began,
                   \* "overlapped" when another call has run beside it
  updates          \* history, per call: the times it has changed the flag

server   == <<content, written>>
caches   == <<flagCache, evaluationCache>>
socket   == <<hub, message>>
setting  == <<options, context>>
request  == <<op, setting, ifNoneMatch>>
progress == <<pc, attempt, answer>>
history  == <<since, disturbed, updates>>
vars     == <<server, caches, socket, request, progress, history>>

None     == 0
Pending  == [status |-> "none", body |-> None]
Failed   == [status |-> "failed", body |-> None]
NotFound == [status |-> "notFound", body |-> None]
Ok(body) == [status |-> "ok", body |-> body]

\* Cache keys: what names the flag, after the API version, is only a part of them.
Key == <<"k">>
BuildFeatureFlagCacheKey      == <<"v", "k">>
BuildEvaluationCacheKey(ctx)  == <<"v", "k", ctx>>

SetCache(cache, key, value) ==
  [k \in DOMAIN cache \cup {key} |-> IF k = key THEN value ELSE cache[k]]
TryRemove(cache, key)  == [k \in DOMAIN cache \ {key} |-> cache[k]]

Active(c) == pc[c] \in {"sending", "answered"}

Init ==
  /\ content \in {0, 1} /\ written = 1
  /\ flagCache = << >> /\ evaluationCache = << >>
  /\ hub = "null" /\ message = FALSE
  /\ pc = [c \in Calls |-> "idle"] /\ op = [c \in Calls |-> "get"]
  /\ options \in Options /\ context \in [Calls -> Contexts]
  /\ attempt = [c \in Calls |-> 0] /\ ifNoneMatch = [c \in Calls |-> None]
  /\ answer = [c \in Calls |-> Pending]
  /\ since = [c \in Calls |-> {}] /\ disturbed = [c \in Calls |-> "no"]
  /\ updates = [c \in Calls |-> 0]

-----------------------------------------------------------------------------
(* A call begins.                                                          *)

Overlap(D) == disturbed' = [c \in Calls |-> IF c \in D THEN "overlapped" ELSE disturbed[c]]

Getting(c) == Active(c) /\ op[c] = "get"

\* Evaluations come from a cache of another kind: no contents are noted for them.
Begun(o) == IF o = "evaluate" THEN {} ELSE {content}

\* The gets under way are overlapped by the new call, and a new get by them.
Send(c, o, tag) ==
  /\ Overlap({d \in Calls \ {c} : Getting(d)} \cup
             {d \in {c} : o = "get" /\ \E e \in Calls \ {c} : Active(e)})
  /\ op' = [op EXCEPT ![c] = o]
  /\ ifNoneMatch' = [ifNoneMatch EXCEPT ![c] = tag]
  /\ since' = [since EXCEPT ![c] = Begun(o)]
  /\ pc' = [pc EXCEPT ![c] = "sending"]
  /\ UNCHANGED <<answer, setting, attempt, updates>>

\* The request is disposed of.
Return(c, a) ==
  /\ pc' = [pc EXCEPT ![c] = "done"] /\ answer' = [answer EXCEPT ![c] = a]
  /\ attempt' = [attempt EXCEPT ![c] = 0] /\ ifNoneMatch' = [ifNoneMatch EXCEPT ![c] = None]

\* A cached result is returned at once.
ReturnCached(c, o, body) ==
  /\ Return(c, Ok(body))
  /\ op' = [op EXCEPT ![c] = o] /\ since' = [since EXCEPT ![c] = Begun(o)]
  /\ UNCHANGED <<setting, disturbed, updates>>

\* Mutant of BeginGet: what is cached is returned, as EvaluateAsync does.
BeginGetCached(c) ==
  IF BuildFeatureFlagCacheKey \in DOMAIN flagCache
    THEN ReturnCached(c, "get", flagCache[BuildFeatureFlagCacheKey].value)
    ELSE Send(c, "get", None)

\* A flag is always asked for, with the tag of the one that is cached.
BeginGet(c) ==
  Send(c, "get", IF BuildFeatureFlagCacheKey \in DOMAIN flagCache
                 THEN flagCache[BuildFeatureFlagCacheKey].tag ELSE None)

BeginEvaluate(c) ==
  LET key == BuildEvaluationCacheKey(context[c]) IN
  IF EvaluationCaching /\ key \in DOMAIN evaluationCache
    THEN ReturnCached(c, "evaluate", evaluationCache[key])
    ELSE Send(c, "evaluate", None)

Begin(c) ==
  /\ pc[c] = "idle"
  /\ \/ "get" \in Operations[c] /\ BeginGet(c)
     \/ "evaluate" \in Operations[c] /\ BeginEvaluate(c)
     \/ \E o \in Operations[c] \cap {"update", "delete"} : Send(c, o, None)
  /\ UNCHANGED <<server, caches, socket>>

-----------------------------------------------------------------------------
(* The server.                                                             *)

\* Every call under way sees the contents there are.
SetContent(v) ==
  /\ content' = v
  /\ since' = [c \in Calls |-> IF Active(c) /\ op[c] # "evaluate" THEN since[c] \cup {v} ELSE since[c]]

\* PATCH: the group of the project is told, unless that fails.
Update(told) ==
  /\ content # 0 /\ written < MaxContents
  /\ written' = written + 1 /\ SetContent(written + 1)
  /\ message' = (message \/ (told /\ hub = "subscribed"))

\* DELETE tells nobody.
Delete == content # 0 /\ SetContent(0) /\ UNCHANGED <<written, message>>

Create ==
  /\ content = 0 /\ written < MaxContents
  /\ written' = written + 1 /\ SetContent(written + 1) /\ UNCHANGED message

CountUpdate(c) == updates' = [updates EXCEPT ![c] = @ + 1]

Answered(c, a) == pc' = [pc EXCEPT ![c] = "answered"] /\ answer' = [answer EXCEPT ![c] = a]

\* The attempt is answered.
Serve(c) ==
  /\ pc[c] = "sending"
  /\ \/ /\ op[c] = "get"
        /\ Answered(c, IF content = 0 THEN NotFound
                       ELSE IF ifNoneMatch[c] = content THEN [status |-> "notModified", body |-> None]
                       ELSE Ok(content))
        /\ UNCHANGED <<server, message, since, updates>>
     \/ op[c] = "evaluate" /\ Answered(c, Ok(content)) /\ UNCHANGED <<server, message, since, updates>>
     \/ op[c] = "update" /\ Update(TRUE) /\ CountUpdate(c) /\ Answered(c, Ok(None))
     \/ op[c] = "delete" /\ Delete /\ Answered(c, Ok(None)) /\ UNCHANGED updates
     \/ /\ op[c] \in {"update", "delete"} /\ content = 0
        /\ Answered(c, NotFound) /\ UNCHANGED <<server, message, since, updates>>
  /\ UNCHANGED <<caches, hub, request, attempt, disturbed>>

\* The attempt is answered with any other status, or fails, before or after it has had
\* its effect: the network, a 5xx, a 4xx, or the time of the whole call is over.
Fail(c) ==
  /\ pc[c] = "sending" /\ Answered(c, Failed)
  /\ \/ UNCHANGED <<server, message, since, updates>>
     \/ op[c] = "update" /\ (\E told \in BOOLEAN : Update(told)) /\ CountUpdate(c)
     \/ op[c] = "delete" /\ Delete /\ UNCHANGED updates
  /\ UNCHANGED <<caches, hub, request, attempt, disturbed>>

\* Another client.
OtherClient ==
  /\ written < MaxOthers
  /\ Create \/ Delete \/ \E told \in BOOLEAN : Update(told)
  /\ UNCHANGED <<caches, hub, request, progress, disturbed, updates>>

-----------------------------------------------------------------------------
(* The retry handler, and the end of a call.                               *)

\* Mutant of IsIdempotent: PATCH is.
IsIdempotentPatch(o) == o \in {"get", "evaluate", "update", "delete"}

IsIdempotent(o) == o \in {"get", "evaluate", "delete"}

\* Mutant of MayRetry: <= for <.
MayRetryOnceMore(c) ==
  /\ answer[c] = Failed /\ attempt[c] <= MaxRetries
  /\ options.retryOnlyIdempotent => IsIdempotent(op[c])

MayRetry(c) ==
  /\ answer[c] = Failed /\ attempt[c] < MaxRetries
  /\ options.retryOnlyIdempotent => IsIdempotent(op[c])

\* After a delay, the same request again.
Retry(c) ==
  /\ pc[c] = "answered" /\ MayRetry(c)
  /\ attempt' = [attempt EXCEPT ![c] = @ + 1]
  /\ pc' = [pc EXCEPT ![c] = "sending"]
  /\ UNCHANGED <<server, caches, socket, request, answer, history>>

\* Mutants of CachedAgain and Unmodified.
CachedByKey == Key
UnmodifiedIsMissing == NotFound

\* Where the flag is looked up when a 304 has come.
CachedAgain == BuildFeatureFlagCacheKey

\* A 304 for an entry that is gone is an error like any other status.
Unmodified == [status |-> "notModified", body |-> None]

ReceiveGet(c) ==
  /\ op[c] = "get"
  /\ \/ /\ answer[c].status = "ok"
        /\ flagCache' = SetCache(flagCache, BuildFeatureFlagCacheKey,
                            [value |-> answer[c].body, tag |-> answer[c].body])
        /\ Return(c, answer[c])
     \/ /\ answer[c].status = "notModified"
        /\ Return(c, IF CachedAgain \in DOMAIN flagCache THEN Ok(flagCache[CachedAgain].value)
                     ELSE Unmodified)
        /\ UNCHANGED flagCache
  /\ UNCHANGED evaluationCache

ReceiveEvaluation(c) ==
  /\ op[c] = "evaluate" /\ answer[c].status = "ok"
  /\ evaluationCache' = IF EvaluationCaching
                          THEN SetCache(evaluationCache, BuildEvaluationCacheKey(context[c]), answer[c].body)
                          ELSE evaluationCache
  /\ Return(c, answer[c]) /\ UNCHANGED flagCache

\* The evaluations of the flag stay in their cache.
ReceiveChange(c) ==
  /\ op[c] \in {"update", "delete"} /\ answer[c].status = "ok"
  /\ flagCache' = TryRemove(flagCache, BuildFeatureFlagCacheKey)
  /\ Return(c, answer[c]) /\ UNCHANGED evaluationCache

\* Any other status throws, and leaves the caches.  A failed attempt may end the call
\* although another is left: a status as 400, 401 or 412 is not retried, nor is a call
\* whose time is over (HttpClient.Timeout, during the delay or the attempt).
ReceiveError(c) ==
  /\ answer[c].status \in {"notFound", "failed"}
  /\ Return(c, answer[c]) /\ UNCHANGED caches

Receive(c) ==
  /\ pc[c] = "answered"
  /\ ReceiveGet(c) \/ ReceiveEvaluation(c) \/ ReceiveChange(c) \/ ReceiveError(c)
  /\ UNCHANGED <<server, socket, op, setting, history>>

\* The caller takes the result, and nothing is left of the call.
Again(c) ==
  /\ pc[c] = "done"
  /\ pc' = [pc EXCEPT ![c] = "idle"] /\ op' = [op EXCEPT ![c] = "get"]
  /\ answer' = [answer EXCEPT ![c] = Pending]
  /\ since' = [since EXCEPT ![c] = {}] /\ disturbed' = [disturbed EXCEPT ![c] = "no"]
  /\ updates' = [updates EXCEPT ![c] = 0]
  /\ UNCHANGED <<server, caches, socket, setting, ifNoneMatch, attempt>>

-----------------------------------------------------------------------------
(* Time and messages.                                                      *)

ExpireFlag ==
  /\ DOMAIN flagCache # {}
  /\ \E key \in DOMAIN flagCache : flagCache' = TryRemove(flagCache, key)
  /\ disturbed' = [c \in Calls |-> IF Getting(c) /\ disturbed[c] = "no" THEN "expired" ELSE disturbed[c]]
  /\ UNCHANGED <<server, evaluationCache, socket, request, progress, since, updates>>

\* Mutant of ExpireEvaluation: what is asked for while it is valid stays.
RenewEvaluation(key) ==
  /\ key \in DOMAIN evaluationCache /\ (\A c \in Calls : pc[c] = "idle")
  /\ evaluationCache' = evaluationCache
  /\ UNCHANGED <<server, flagCache, socket, request, progress, history>>

ExpireEvaluation(key) ==
  /\ key \in DOMAIN evaluationCache /\ evaluationCache' = TryRemove(evaluationCache, key)
  /\ UNCHANGED <<server, flagCache, socket, request, progress, history>>

Hub(state) ==
  /\ hub' = state /\ message' = (message /\ state = "subscribed")
  /\ UNCHANGED <<server, caches, request, progress, history>>

\* StartListeningAsync: the connection is kept when it cannot be started, and nothing is
\* done when there is one.
StartListening == options.listens /\ hub = "null" /\ \E state \in {"connected", "closed"} : Hub(state)

\* SubscribeToProject, called by the server on every connection and by the client on the
\* first one, unless both fail.
Subscribe == hub = "connected" /\ Hub("subscribed")

\* The connection is lost, with what is on its way: an automatic reconnect succeeds under
\* another connection id, which is in no group yet, or the attempts end.
Disconnect ==
  /\ hub \in {"connected", "subscribed"}
  /\ \E state \in {"connected", "closed"} : Hub(state)

Dispose == hub # "null" /\ Hub("null")

\* FlagChanged: the key itself is removed from the caches.
FlagChanged ==
  /\ message /\ message' = FALSE
  /\ evaluationCache' = TryRemove(evaluationCache, Key)
  /\ flagCache' = TryRemove(flagCache, Key)
  /\ UNCHANGED <<server, hub, request, progress, history>>

Answer(c) == Serve(c) \/ Fail(c)
EvaluationKeys == {BuildEvaluationCacheKey(ctx) : ctx \in Contexts}

Next ==
  \/ \E c \in Calls : Begin(c) \/ Answer(c) \/ Retry(c) \/ Receive(c) \/ Again(c)
  \/ OtherClient \/ ExpireFlag \/ (\E key \in EvaluationKeys : ExpireEvaluation(key))
  \/ StartListening \/ Subscribe \/ Disconnect \/ Dispose \/ FlagChanged

Spec == Init /\ [][Next]_vars

\* Attempts are answered or time out, calls go on, entries reach the end of their duration.
FairSpec ==
  /\ Spec
  /\ \A c \in Calls : WF_vars(Answer(c) \/ Retry(c) \/ Receive(c))
  /\ \A key \in EvaluationKeys : WF_vars(ExpireEvaluation(key))

-----------------------------------------------------------------------------
(* Properties.                                                             *)

Statuses == {"none", "ok", "notModified", "notFound", "failed"}

\* Types: no call is attempted more often than the options say, only known keys have entries.
TypeOK ==
  /\ options \in Options /\ content \in 0..MaxContents /\ written \in 0..MaxContents
  /\ DOMAIN flagCache \subseteq {BuildFeatureFlagCacheKey} /\ DOMAIN evaluationCache \subseteq EvaluationKeys
  /\ hub \in {"null", "connected", "subscribed", "closed"} /\ message \in BOOLEAN
  /\ pc \in [Calls -> {"idle", "sending", "answered", "done"}] /\ op \in [Calls -> {"get", "evaluate", "update", "delete"}]
  /\ attempt \in [Calls -> 0..MaxRetries] /\ ifNoneMatch \in [Calls -> 0..MaxContents]
  /\ answer \in [Calls -> [status : Statuses, body : 0..MaxContents]]

Got(c, status) == pc[c] = "done" /\ op[c] = "get" /\ answer[c].status = status

\* A get that no other call of the client overlaps returns the flag as it was at some time
\* since the call, whatever late answers, expirations and changes elsewhere have made of
\* the cache before: a 304 confirms what is returned.
LoneGetIsCurrent == \A c \in Calls : Got(c, "ok") /\ disturbed[c] # "overlapped" => answer[c].body \in since[c]

\* Such a get fails on a 304 only when its entry reached its end in the meantime: nothing but
\* other calls and time can take it away.
LoneGetIsAnswered == \A c \in Calls : Got(c, "notModified") => disturbed[c] # "no"

\* A flag that is reported missing was missing during the call, also when it is the first
\* attempt of a DELETE, whose answer was lost, that has removed it.
NotFoundIsTrue == \A c \in Calls : pc[c] = "done" /\ answer[c] = NotFound => 0 \in since[c]

\* However its attempts end, a call updates the flag once at most; with
\* RetryOnlyIdempotentRequests off a PATCH is repeated, and counts once per attempt at most.
UpdatesOnce == \A c \in Calls : updates[c] <= (IF options.retryOnlyIdempotent THEN 1 ELSE 1 + MaxRetries)

\* When nobody changes the flag any more, the cached evaluations are those of the flag as it is
\* from some time on, whichever answers were late and whether or not messages came.
EvaluationsCatchUp == <>[](\A key \in DOMAIN evaluationCache : evaluationCache[key] = content)

\* What the comment on the handler of FlagChanged says: the caches no longer speak of the flag.
FlagChangedInvalidates ==
  [][FlagChanged => DOMAIN evaluationCache' = {} /\ DOMAIN flagCache' = {}]_vars
=============================================================================
