--------------------------- MODULE ClientSdkProofs ---------------------------
(***************************************************************************)
(* For any calls, contexts and numbers of retries: what a get, a 404 and   *)
(* an update mean to the caller.                                           *)
(***************************************************************************)
EXTENDS ClientSdk, TLAPS

\* Entries hold a content under its own tag.
Entries ==
  /\ \A key \in DOMAIN flagCache : flagCache[key] \in [value : 0..MaxContents, tag : 0..MaxContents]
  /\ \A key \in DOMAIN flagCache : flagCache[key].value = flagCache[key].tag
  /\ \A key \in DOMAIN evaluationCache : evaluationCache[key] \in 0..MaxContents

Types ==
  /\ TypeOK /\ Entries
  /\ context \in [Calls -> Contexts] /\ since \in [Calls -> SUBSET (0..MaxContents)]
  /\ disturbed \in [Calls -> {"no", "expired", "overlapped"}] /\ updates \in [Calls -> Nat]

\* A call under way has seen the flag there is.
Witness(c) == Active(c) /\ op[c] # "evaluate" => content \in since[c]

\* What is answered was so during the call; a 304 is about the tag that was sent.
Heard(c) ==
  /\ pc[c] = "answered" /\ op[c] = "get" /\ answer[c].status = "ok" => answer[c].body \in since[c]
  /\ pc[c] = "answered" /\ answer[c].status = "notModified" =>
       op[c] = "get" /\ ifNoneMatch[c] # None /\ ifNoneMatch[c] \in since[c]
  /\ pc[c] = "answered" /\ answer[c].status = "notFound" => 0 \in since[c]

\* Nobody else can touch the cache of a lone get, whose entry is the one whose tag was sent
\* until it reaches its end.
Alone(c) ==
  Getting(c) /\ disturbed[c] # "overlapped" =>
    /\ \A d \in Calls \ {c} : ~Active(d)
    /\ ifNoneMatch[c] # None /\ BuildFeatureFlagCacheKey \in DOMAIN flagCache =>
         flagCache[BuildFeatureFlagCacheKey].value = ifNoneMatch[c]
    /\ ifNoneMatch[c] # None /\ disturbed[c] = "no" => BuildFeatureFlagCacheKey \in DOMAIN flagCache

\* What a call has returned.
Returned(c) ==
  /\ Got(c, "ok") /\ disturbed[c] # "overlapped" => answer[c].body \in since[c]
  /\ Got(c, "notModified") => disturbed[c] # "no"
  /\ pc[c] = "done" /\ answer[c] = NotFound => 0 \in since[c]

\* An attempt updates once at most; and unless the options let it be repeated, an update
\* that is still to be sent has not been made.
Updated(c) ==
  /\ pc[c] = "idle" => updates[c] = 0
  /\ pc[c] = "sending" => updates[c] <= attempt[c]
  /\ pc[c] = "answered" => updates[c] <= attempt[c] + 1
  /\ updates[c] <= 1 + MaxRetries
  /\ options.retryOnlyIdempotent =>
       updates[c] <= 1 /\ (pc[c] = "sending" /\ op[c] = "update" => updates[c] = 0)

CallInv(c) == Witness(c) /\ Heard(c) /\ Alone(c) /\ Returned(c) /\ Updated(c)

\* The inductive invariant.
SdkInv == Types /\ \A c \in Calls : CallInv(c)

-----------------------------------------------------------------------------

\* The keys of the cache and the key of the flag are different.
LEMMA Keys == BuildFeatureFlagCacheKey # Key
BY DEF BuildFeatureFlagCacheKey, Key

\* A cache with one entry less.
LEMMA Removed ==
  ASSUME NEW f, NEW key
  PROVE  /\ DOMAIN TryRemove(f, key) = DOMAIN f \ {key}
         /\ \A k \in DOMAIN f \ {key} : TryRemove(f, key)[k] = f[k]
BY DEF TryRemove

\* The statuses of the answers that are made here.
LEMMA Answers ==
  /\ Pending.status = "none" /\ Failed.status = "failed" /\ NotFound.status = "notFound"
  /\ Unmodified.status = "notModified" /\ \A b : Ok(b).status = "ok" /\ Ok(b).body = b
  /\ {Pending, Failed, NotFound, Unmodified} \subseteq [status : Statuses, body : 0..MaxContents]
  /\ \A b \in 0..MaxContents : Ok(b) \in [status : Statuses, body : 0..MaxContents]
BY SdkAssumption DEF Pending, Failed, NotFound, Unmodified, Ok, None, Statuses

LEMMA InitHolds == Init => SdkInv
<1> SUFFICES ASSUME Init PROVE SdkInv
  OBVIOUS
<1>a. DOMAIN flagCache = {} /\ DOMAIN evaluationCache = {}
  BY DEF Init
<1>b. answer \in [Calls -> [status : Statuses, body : 0..MaxContents]]
  BY Answers DEF Init
<1>c. /\ content \in 0..MaxContents /\ written \in 0..MaxContents /\ None \in 0..MaxContents
      /\ 0 \in 0..MaxRetries
  BY SdkAssumption DEF Init, None
<1>1. TypeOK
  BY <1>a, <1>b, <1>c DEF Init, TypeOK
<1>2. Types
  BY <1>1, <1>a DEF Init, Types, Entries
<1>3. ASSUME NEW c \in Calls PROVE CallInv(c)
  BY <1>3, SdkAssumption DEF Init, CallInv, Witness, Heard, Alone, Returned, Updated, Active, Getting, Got
<1> QED BY <1>2, <1>3 DEF SdkInv

-----------------------------------------------------------------------------
(* What a step leaves alone.                                               *)

Same(d) ==
  /\ pc'[d] = pc[d] /\ op'[d] = op[d] /\ answer'[d] = answer[d]
  /\ ifNoneMatch'[d] = ifNoneMatch[d] /\ updates'[d] = updates[d]
  /\ attempt'[d] = attempt[d] /\ options' = options

\* What has been seen is only added to, while the call is under way.
Sees(d) ==
  /\ since[d] \subseteq since'[d] /\ (~Active(d) => since'[d] = since[d])
  /\ Active(d) /\ op[d] # "evaluate" => content' = content \/ content' \in since'[d]

\* Another call runs beside it, or what it knows of the cache is kept.
Undisturbed(d) ==
  /\ ~Getting(d) => disturbed'[d] = disturbed[d] \/ disturbed'[d] = "overlapped"
  /\ Getting(d) /\ disturbed'[d] # "overlapped" => disturbed[d] # "overlapped" /\ Alone(d)'

LEMMA OthersKeep ==
  ASSUME Types, NEW d \in Calls, CallInv(d), Same(d), Sees(d), Undisturbed(d)
  PROVE  CallInv(d)'
<1>1. Witness(d)'
  BY DEF CallInv, Witness, Same, Sees, Active
<1>2. Heard(d)'
  BY DEF CallInv, Heard, Same, Sees
<1>3. Alone(d)'
  <2>1. Getting(d)' => Getting(d)
    BY DEF Same, Getting, Active
  <2> QED BY <2>1 DEF Undisturbed, Alone
<1>4. Returned(d)'
  <2>1. pc'[d] = "done" => since'[d] = since[d] /\ (disturbed'[d] = disturbed[d] \/ disturbed'[d] = "overlapped")
    BY DEF Same, Sees, Undisturbed, Active, Getting
  <2> QED BY <2>1 DEF CallInv, Returned, Same, Got
<1>5. Updated(d)'
  BY DEF CallInv, Updated, Same
<1> QED BY <1>1, <1>2, <1>3, <1>4, <1>5 DEF CallInv

\* A step that changes nothing of the contents and the histories of a call.
LEMMA StandsStill ==
  ASSUME NEW d \in Calls, UNCHANGED <<content, since>>
  PROVE  Sees(d)
BY DEF Sees

-----------------------------------------------------------------------------
(* The actions of a call.                                                  *)

LEMMA BeginHolds == ASSUME SdkInv, NEW c \in Calls, Begin(c) PROVE SdkInv'
<1> USE DEF SdkInv
<1>1. UNCHANGED <<content, written, flagCache, evaluationCache, hub, message>> /\ pc[c] = "idle"
  BY DEF Begin, server, caches, socket
<1>2. ASSUME NEW o \in {"get", "evaluate", "update", "delete"}, NEW tag \in 0..MaxContents, Send(c, o, tag),
             o = "get" => tag = (IF BuildFeatureFlagCacheKey \in DOMAIN flagCache
                                   THEN flagCache[BuildFeatureFlagCacheKey].tag ELSE None)
      PROVE  SdkInv'
  <2>1. Types'
    BY <1>1, <1>2 DEF Types, TypeOK, Entries, Send, Begun, Overlap, setting
  <2>2. CallInv(c)'
    <3>1. /\ pc'[c] = "sending" /\ op'[c] = o /\ ifNoneMatch'[c] = tag
          /\ since'[c] = Begun(o) /\ updates'[c] = updates[c] /\ updates[c] = 0
          /\ attempt'[c] \in Nat
      BY <1>1, <1>2, SdkAssumption DEF Send, Types, TypeOK, CallInv, Updated, setting
    <3>2. o = "get" /\ disturbed'[c] # "overlapped" => \A d \in Calls \ {c} : ~Active(d) /\ ~Active(d)'
      BY <1>2 DEF Send, Overlap, Active, Types, TypeOK, setting
    <3>3. Alone(c)'
      BY <1>1, <1>2, <3>1, <3>2 DEF Alone, Getting, Types, Entries
    <3>4. Updated(c)'
      BY <3>1, SdkAssumption DEF Updated
    <3> QED BY <1>1, <3>1, <3>3, <3>4 DEF CallInv, Witness, Heard, Returned, Got, Begun
  <2>3. ASSUME NEW d \in Calls \ {c} PROVE CallInv(d)'
    <3>1. Same(d)
      BY <1>2 DEF Send, Same, Types, TypeOK, setting
    <3>2. Sees(d)
      BY <1>1, <1>2 DEF Send, Sees, Types, setting
    <3>3. Undisturbed(d)
      BY <1>2 DEF Send, Overlap, Undisturbed, setting
    <3> QED BY <3>1, <3>2, <3>3, OthersKeep
  <2> QED BY <2>1, <2>2, <2>3
<1>3. ASSUME NEW o \in {"get", "evaluate"}, NEW body \in 0..MaxContents, ReturnCached(c, o, body), o = "evaluate"
      PROVE  SdkInv'
  <2>1. Types'
    BY <1>1, <1>3, Answers, SdkAssumption DEF Types, TypeOK, Entries, ReturnCached, Return, Begun, None, setting
  <2>2. CallInv(c)'
    <3>1. /\ pc'[c] = "done" /\ op'[c] = "evaluate" /\ answer'[c].status = "ok"
          /\ updates'[c] = updates[c] /\ options' = options
      BY <1>3, Answers DEF ReturnCached, Return, Types, TypeOK, setting
    <3> QED BY <3>1, Answers DEF CallInv, Witness, Heard, Alone, Returned, Updated, Got, Active, Getting
  <2>3. ASSUME NEW d \in Calls \ {c} PROVE CallInv(d)'
    <3>1. Same(d) /\ Sees(d)
      BY <1>1, <1>3 DEF ReturnCached, Return, Same, Sees, Types, TypeOK, setting
    <3>2. Undisturbed(d)
      BY <1>1, <1>3, <3>1 DEF ReturnCached, Return, Undisturbed, CallInv, Alone, Getting, Active, Same, Types, TypeOK, setting
    <3> QED BY <3>1, <3>2, OthersKeep
  <2> QED BY <2>1, <2>2, <2>3
<1>4. CASE BeginGet(c)
  <2> DEFINE tag == IF BuildFeatureFlagCacheKey \in DOMAIN flagCache
                      THEN flagCache[BuildFeatureFlagCacheKey].tag ELSE None
  <2>1. tag \in 0..MaxContents /\ Send(c, "get", tag)
    BY <1>4, SdkAssumption DEF BeginGet, Types, Entries, None
  <2> QED BY <1>2, <2>1
<1>5. CASE BeginEvaluate(c)
  <2>1. None \in 0..MaxContents
    BY SdkAssumption DEF None
  <2>2. \A key \in DOMAIN evaluationCache : evaluationCache[key] \in 0..MaxContents
    BY DEF Types, Entries
  <2> QED BY <1>2, <1>3, <1>5, <2>1, <2>2 DEF BeginEvaluate
<1>6. CASE \E o \in Operations[c] \cap {"update", "delete"} : Send(c, o, None)
  <2>1. None \in 0..MaxContents
    BY SdkAssumption DEF None
  <2> QED BY <1>2, <1>6, <2>1
<1> QED BY <1>4, <1>5, <1>6 DEF Begin

\* A change of the flag is seen by every call under way, and leaves the caches alone.
LEMMA Changed ==
  ASSUME SdkInv, NEW v \in 0..MaxContents, SetContent(v)
  PROVE  /\ content' = v /\ since' \in [Calls -> SUBSET (0..MaxContents)]
         /\ \A d \in Calls : Sees(d) /\ (Active(d) /\ op[d] # "evaluate" => v \in since'[d])
BY DEF SdkInv, Types, SetContent, Sees

\* What an attempt and another client can do to the flag.
Touch == \/ \E told \in BOOLEAN : Update(told)
         \/ Delete \/ Create
         \/ UNCHANGED <<content, written, message, since>>

LEMMA TouchKeeps ==
  ASSUME SdkInv, Touch
  PROVE  /\ content' \in 0..MaxContents /\ written' \in 0..MaxContents /\ message' \in BOOLEAN
         /\ since' \in [Calls -> SUBSET (0..MaxContents)]
         /\ \A d \in Calls : Sees(d) /\ (Active(d) /\ op[d] # "evaluate" => content' \in since'[d])
<1>1. CASE (\E told \in BOOLEAN : Update(told)) \/ Create
  <2>1. written + 1 \in 0..MaxContents /\ message' \in BOOLEAN
    BY <1>1, SdkAssumption DEF SdkInv, Types, TypeOK, Update, Create
  <2> QED BY <1>1, <2>1, Changed DEF Update, Create
<1>2. CASE Delete
  <2>1. 0 \in 0..MaxContents
    BY SdkAssumption
  <2> QED BY <1>2, <2>1, Changed DEF Delete, SdkInv, Types, TypeOK
<1>3. CASE UNCHANGED <<content, written, message, since>>
  BY <1>3 DEF SdkInv, Types, TypeOK, Sees, CallInv, Witness
<1> QED BY <1>1, <1>2, <1>3 DEF Touch

\* The others, while calls neither begin nor end and the client's caches stay.
LEMMA Beside ==
  ASSUME SdkInv, NEW c \in Calls, NEW d \in Calls \ {c}, Sees(d), Same(d),
         UNCHANGED <<flagCache, disturbed>>, Active(c)' => Active(c),
         \A e \in Calls \ {c} : Same(e)
  PROVE  CallInv(d)'
<1>1. Undisturbed(d)
  BY DEF SdkInv, CallInv, Undisturbed, Alone, Getting, Active, Same
<1> QED BY <1>1, OthersKeep DEF SdkInv

\* The attempt of c ends: it is answered with a, and changes the flag or not.
LEMMA AnswerKeeps ==
  ASSUME SdkInv, NEW c \in Calls, pc[c] = "sending", NEW a \in [status : Statuses, body : 0..MaxContents],
         Answered(c, a), Touch, UNCHANGED <<caches, hub, request, attempt, disturbed>>,
         updates' = updates \/ (op[c] = "update" /\ CountUpdate(c)),
         a.status = "ok" /\ op[c] = "get" => a.body = content /\ content' = content,
         a.status = "notModified" =>
           op[c] = "get" /\ ifNoneMatch[c] = content /\ content # 0 /\ content' = content,
         a.status = "notFound" => content = 0 /\ content' = content /\ op[c] # "evaluate"
  PROVE  SdkInv'
<1> USE DEF SdkInv
<1>1. /\ pc' = [pc EXCEPT ![c] = "answered"] /\ answer' = [answer EXCEPT ![c] = a]
      /\ UNCHANGED <<flagCache, evaluationCache, hub, op, options, context, ifNoneMatch, attempt, disturbed>>
  BY DEF Answered, caches, request, setting
<1>2. Types'
  BY <1>1, TouchKeeps DEF Types, TypeOK, Entries, CountUpdate
<1>3. /\ pc'[c] = "answered" /\ answer'[c] = a /\ op'[c] = op[c] /\ ifNoneMatch'[c] = ifNoneMatch[c] /\ Active(c)
  BY <1>1 DEF Types, TypeOK, Active
<1>4. ASSUME NEW d \in Calls \ {c} PROVE Same(d) /\ Sees(d)
  BY <1>1, TouchKeeps DEF Types, TypeOK, Same, CountUpdate
<1>5. CallInv(c)'
  <2>1. op[c] # "evaluate" => content' \in since'[c]
    BY <1>3, TouchKeeps
  <2>2. Heard(c)'
    BY <1>3, <2>1 DEF Heard, None
  <2>3. Alone(c)'
    BY <1>1, <1>3, <1>4 DEF CallInv, Alone, Getting, Active, Same
  <2>4. Updated(c)'
    <3>1. /\ updates[c] \in Nat /\ attempt[c] \in 0..MaxRetries /\ MaxRetries \in Nat
          /\ attempt'[c] = attempt[c] /\ options' = options
      BY <1>1, SdkAssumption DEF Types, TypeOK
    <3>2. updates'[c] = updates[c] \/ (op[c] = "update" /\ updates'[c] = updates[c] + 1)
      BY DEF CountUpdate, Types
    <3> QED BY <1>3, <3>1, <3>2 DEF CallInv, Updated
  <2> QED BY <1>3, <2>1, <2>2, <2>3, <2>4 DEF CallInv, Witness, Returned, Got
<1>6. ASSUME NEW d \in Calls \ {c} PROVE CallInv(d)'
  BY <1>1, <1>3, <1>4, Beside
<1> QED BY <1>2, <1>5, <1>6

LEMMA ServeHolds == ASSUME SdkInv, NEW c \in Calls, Serve(c) PROVE SdkInv'
<1>1. pc[c] = "sending" /\ UNCHANGED <<caches, hub, request, attempt, disturbed>>
  BY DEF Serve
<1>2. content \in 0..MaxContents /\ None \in 0..MaxContents
  BY SdkAssumption DEF SdkInv, Types, TypeOK, None
<1>3. CASE op[c] = "get"
  <2> DEFINE a == IF content = 0 THEN NotFound
                  ELSE IF ifNoneMatch[c] = content THEN [status |-> "notModified", body |-> None] ELSE Ok(content)
  <2>1. Answered(c, a) /\ UNCHANGED <<content, written, message, since, updates>>
    BY <1>3 DEF Serve, server
  <2>2. /\ a \in [status : Statuses, body : 0..MaxContents]
        /\ a.status = "ok" => a.body = content
        /\ a.status = "notModified" => ifNoneMatch[c] = content /\ content # 0
        /\ a.status = "notFound" => content = 0
    BY <1>2, Answers DEF Unmodified
  <2> HIDE DEF a
  <2> QED BY <1>1, <1>3, <2>1, <2>2, AnswerKeeps DEF Touch
<1>4. CASE op[c] = "evaluate"
  BY <1>1, <1>2, <1>4, Answers, AnswerKeeps DEF Serve, Touch, server
<1>5. CASE op[c] = "update"
  <2>1. CASE Update(TRUE) /\ CountUpdate(c) /\ Answered(c, Ok(None))
    BY <1>1, <1>2, <1>5, <2>1, Answers, AnswerKeeps DEF Touch
  <2>2. CASE content = 0 /\ Answered(c, NotFound) /\ UNCHANGED <<server, message, since, updates>>
    BY <1>1, <1>2, <1>5, <2>2, Answers, AnswerKeeps DEF Touch, server
  <2> QED BY <1>5, <2>1, <2>2 DEF Serve
<1>6. CASE op[c] = "delete"
  <2>1. CASE Delete /\ Answered(c, Ok(None)) /\ UNCHANGED updates
    BY <1>1, <1>2, <1>6, <2>1, Answers, AnswerKeeps DEF Touch
  <2>2. CASE content = 0 /\ Answered(c, NotFound) /\ UNCHANGED <<server, message, since, updates>>
    BY <1>1, <1>2, <1>6, <2>2, Answers, AnswerKeeps DEF Touch, server
  <2> QED BY <1>6, <2>1, <2>2 DEF Serve
<1> QED BY <1>3, <1>4, <1>5, <1>6 DEF Serve

LEMMA FailHolds == ASSUME SdkInv, NEW c \in Calls, Fail(c) PROVE SdkInv'
<1>1. /\ pc[c] = "sending" /\ Answered(c, Failed) /\ UNCHANGED <<caches, hub, request, attempt, disturbed>>
      /\ Failed \in [status : Statuses, body : 0..MaxContents]
  BY Answers DEF Fail
<1>2. Touch /\ (updates' = updates \/ (op[c] = "update" /\ CountUpdate(c)))
  BY DEF Fail, Touch, server
<1> QED BY <1>1, <1>2, Answers, AnswerKeeps

LEMMA OtherClientHolds == ASSUME SdkInv, OtherClient PROVE SdkInv'
<1>1. Touch /\ UNCHANGED <<flagCache, evaluationCache, hub, op, options, context, ifNoneMatch, pc, attempt, answer, disturbed, updates>>
  BY DEF OtherClient, Touch, caches, request, progress, setting
<1>2. Types'
  BY <1>1, TouchKeeps DEF SdkInv, Types, TypeOK, Entries
<1>3. ASSUME NEW d \in Calls PROVE CallInv(d)'
  <2>1. Same(d) /\ Sees(d)
    BY <1>1, TouchKeeps DEF Same
  <2>2. Undisturbed(d)
    BY <1>1 DEF SdkInv, CallInv, Undisturbed, Alone, Getting, Active
  <2> QED BY <2>1, <2>2, OthersKeep DEF SdkInv
<1> QED BY <1>2, <1>3 DEF SdkInv

LEMMA RetryHolds == ASSUME SdkInv, NEW c \in Calls, Retry(c) PROVE SdkInv'
<1> USE DEF SdkInv
<1>1. /\ pc[c] = "answered" /\ pc' = [pc EXCEPT ![c] = "sending"]
      /\ options.retryOnlyIdempotent => op[c] \in {"get", "evaluate", "delete"}
      /\ attempt' = [attempt EXCEPT ![c] = @ + 1] /\ attempt[c] < MaxRetries
      /\ UNCHANGED <<content, written, flagCache, evaluationCache, hub, message, op, options, context, ifNoneMatch,
                     answer, since, disturbed, updates>>
  BY DEF Retry, MayRetry, IsIdempotent, server, caches, socket, request, history, setting
<1>2. Types'
  BY <1>1, SdkAssumption DEF Types, TypeOK, Entries
<1>3. CallInv(c)'
  <2>1. Updated(c)'
    BY <1>1, SdkAssumption DEF Types, TypeOK, CallInv, Updated
  <2> QED BY <1>1, <2>1 DEF Types, TypeOK, CallInv, Witness, Heard, Alone, Returned, Active, Getting, Got
<1>4. ASSUME NEW d \in Calls \ {c} PROVE CallInv(d)'
  <2>1. (\A e \in Calls \ {c} : Same(e)) /\ Sees(d)
    BY <1>1 DEF Same, Sees, Types, TypeOK
  <2> QED BY <1>1, <2>1, Beside DEF Active
<1> QED BY <1>2, <1>3, <1>4

\* The call c returns a: a get that no other call overlapped has had the cache for itself.
LEMMA ReturnKeeps ==
  ASSUME SdkInv, NEW c \in Calls, pc[c] = "answered", NEW a \in [status : Statuses, body : 0..MaxContents],
         Return(c, a), UNCHANGED <<server, socket, op, setting, history>>, Entries',
         DOMAIN flagCache' \subseteq {BuildFeatureFlagCacheKey}, DOMAIN evaluationCache' \subseteq EvaluationKeys,
         op[c] = "get" /\ a.status = "ok" /\ disturbed[c] # "overlapped" => a.body \in since[c],
         op[c] = "get" /\ a.status = "notModified" => disturbed[c] # "no",
         a = NotFound => 0 \in since[c]
  PROVE  SdkInv'
<1> USE DEF SdkInv
<1>1. /\ pc' = [pc EXCEPT ![c] = "done"] /\ answer' = [answer EXCEPT ![c] = a]
      /\ attempt' = [attempt EXCEPT ![c] = 0] /\ ifNoneMatch' = [ifNoneMatch EXCEPT ![c] = None]
      /\ UNCHANGED <<content, written, hub, message, op, options, context, since, disturbed, updates>>
  BY DEF Return, server, socket, history, setting
<1>2. None \in 0..MaxContents /\ 0 \in 0..MaxRetries
  BY SdkAssumption DEF None
<1>3. Types'
  BY <1>1, <1>2 DEF Types, TypeOK
<1>4. CallInv(c)'
  BY <1>1 DEF Types, TypeOK, CallInv, Witness, Heard, Alone, Returned, Updated, Active, Getting, Got
<1>5. ASSUME NEW d \in Calls \ {c} PROVE CallInv(d)'
  <2>1. Same(d) /\ Sees(d)
    BY <1>1 DEF Same, Sees, Types, TypeOK
  <2>2. Undisturbed(d)
    BY <1>1 DEF Undisturbed, CallInv, Alone, Active
  <2> QED BY <2>1, <2>2, OthersKeep
<1> QED BY <1>3, <1>4, <1>5

LEMMA ReceiveHolds == ASSUME SdkInv, NEW c \in Calls, Receive(c) PROVE SdkInv'
<1>1. /\ pc[c] = "answered" /\ UNCHANGED <<server, socket, op, setting, history>>
      /\ answer[c] \in [status : Statuses, body : 0..MaxContents] /\ answer[c].body \in 0..MaxContents
      /\ Entries /\ DOMAIN flagCache \subseteq {BuildFeatureFlagCacheKey} /\ DOMAIN evaluationCache \subseteq EvaluationKeys
      /\ Heard(c) /\ Alone(c)
  BY DEF Receive, SdkInv, Types, TypeOK, CallInv
<1>2. CASE ReceiveGet(c)
  <2>1. op[c] = "get" /\ UNCHANGED evaluationCache
    BY <1>2 DEF ReceiveGet
  <2>2. CASE answer[c].status = "ok"
    <3> DEFINE entry == [value |-> answer[c].body, tag |-> answer[c].body]
    <3>1. flagCache' = SetCache(flagCache, BuildFeatureFlagCacheKey, entry) /\ Return(c, answer[c])
      BY <1>2, <2>2 DEF ReceiveGet
    <3>2. entry \in [value : 0..MaxContents, tag : 0..MaxContents] /\ entry.value = entry.tag
      BY <1>1
    <3> HIDE DEF entry
    <3>a. /\ DOMAIN flagCache' = DOMAIN flagCache \cup {BuildFeatureFlagCacheKey}
          /\ flagCache'[BuildFeatureFlagCacheKey] = entry
          /\ \A k \in DOMAIN flagCache \ {BuildFeatureFlagCacheKey} : flagCache'[k] = flagCache[k]
      BY <3>1 DEF SetCache
    <3>3. DOMAIN flagCache' \subseteq {BuildFeatureFlagCacheKey} /\ Entries'
      <4>1. ASSUME NEW k \in DOMAIN flagCache'
            PROVE  flagCache'[k] \in [value : 0..MaxContents, tag : 0..MaxContents] /\ flagCache'[k].value = flagCache'[k].tag
        <5>1. CASE k = BuildFeatureFlagCacheKey
          BY <3>2, <3>a, <5>1
        <5>2. CASE k # BuildFeatureFlagCacheKey
          <6>1. k \in DOMAIN flagCache /\ flagCache'[k] = flagCache[k]
            BY <3>a, <5>2
          <6> QED BY <1>1, <6>1 DEF Entries
        <5> QED BY <5>1, <5>2
      <4>2. \A k \in DOMAIN evaluationCache' : evaluationCache'[k] \in 0..MaxContents
        BY <1>1, <2>1 DEF Entries
      <4> QED BY <1>1, <3>a, <4>1, <4>2 DEF Entries
    <3>4. answer[c] # NotFound /\ answer[c].status # "notModified" /\ answer[c].body \in since[c]
      BY <1>1, <2>1, <2>2, Answers DEF Heard
    <3> QED BY <1>1, <2>1, <3>1, <3>3, <3>4, ReturnKeeps
  <2>3. CASE answer[c].status = "notModified"
    <3>1. UNCHANGED flagCache
      BY <1>2, <2>3 DEF ReceiveGet
    <3>2. ifNoneMatch[c] # None /\ ifNoneMatch[c] \in since[c] /\ Getting(c)
      BY <1>1, <2>1, <2>3 DEF Heard, Getting, Active
    <3>3. CASE BuildFeatureFlagCacheKey \in DOMAIN flagCache
      <4> DEFINE value == flagCache[BuildFeatureFlagCacheKey].value
      <4>1. value \in 0..MaxContents /\ (disturbed[c] # "overlapped" => value \in since[c])
        BY <1>1, <3>2, <3>3 DEF Entries, Alone
      <4>2. Return(c, Ok(value))
        BY <1>2, <2>3, <3>3 DEF ReceiveGet, CachedAgain
      <4> HIDE DEF value
      <4> QED BY <1>1, <2>1, <3>1, <4>1, <4>2, Answers, ReturnKeeps DEF Entries
    <3>4. CASE BuildFeatureFlagCacheKey \notin DOMAIN flagCache
      <4>1. Return(c, Unmodified)
        BY <1>2, <2>3, <3>4 DEF ReceiveGet, CachedAgain
      <4>2. disturbed[c] # "no"
        BY <1>1, <3>2, <3>4 DEF Alone
      <4> QED BY <1>1, <2>1, <3>1, <4>1, <4>2, Answers, ReturnKeeps DEF Entries
    <3> QED BY <3>3, <3>4
  <2> QED BY <1>2, <2>2, <2>3 DEF ReceiveGet
<1>3. CASE ReceiveEvaluation(c)
  <2>1. /\ op[c] = "evaluate" /\ answer[c].status = "ok" /\ Return(c, answer[c]) /\ UNCHANGED flagCache
        /\ BuildEvaluationCacheKey(context[c]) \in EvaluationKeys
    BY <1>3 DEF ReceiveEvaluation, EvaluationKeys, SdkInv, Types
  <2>2. DOMAIN evaluationCache' \subseteq EvaluationKeys /\ Entries'
    <3> DEFINE key == BuildEvaluationCacheKey(context[c])
    <3>1. CASE evaluationCache' = evaluationCache
      BY <1>1, <2>1, <3>1 DEF Entries
    <3>2. CASE evaluationCache' = SetCache(evaluationCache, key, answer[c].body)
      <4> HIDE DEF key
      <4>1. /\ DOMAIN evaluationCache' = DOMAIN evaluationCache \cup {key} /\ evaluationCache'[key] = answer[c].body
            /\ \A k \in DOMAIN evaluationCache \ {key} : evaluationCache'[k] = evaluationCache[k]
        BY <3>2 DEF SetCache
      <4>2. key \in EvaluationKeys
        BY <2>1 DEF key
      <4>3. \A k \in DOMAIN evaluationCache' : evaluationCache'[k] \in 0..MaxContents
        BY <1>1, <4>1 DEF Entries
      <4>4. DOMAIN evaluationCache' \subseteq EvaluationKeys
        BY <1>1, <4>1, <4>2
      <4> QED BY <1>1, <2>1, <4>3, <4>4 DEF Entries
    <3> QED BY <1>3, <3>1, <3>2 DEF ReceiveEvaluation
  <2>3. answer[c] # NotFound
    BY <2>1, Answers
  <2> QED BY <1>1, <2>1, <2>2, <2>3, ReturnKeeps
<1>4. CASE ReceiveChange(c)
  <2>1. /\ op[c] \in {"update", "delete"} /\ answer[c].status = "ok" /\ Return(c, answer[c])
        /\ UNCHANGED evaluationCache
        /\ flagCache' = TryRemove(flagCache, BuildFeatureFlagCacheKey)
    BY <1>4 DEF ReceiveChange
  <2>2. DOMAIN flagCache' \subseteq {BuildFeatureFlagCacheKey} /\ Entries'
    <3>1. /\ DOMAIN flagCache' = DOMAIN flagCache \ {BuildFeatureFlagCacheKey}
          /\ \A k \in DOMAIN flagCache \ {BuildFeatureFlagCacheKey} : flagCache'[k] = flagCache[k]
      BY <2>1, Removed
    <3> QED BY <1>1, <2>1, <3>1 DEF Entries
  <2>3. answer[c] # NotFound
    BY <2>1, Answers
  <2> QED BY <1>1, <2>1, <2>2, <2>3, ReturnKeeps
<1>5. CASE ReceiveError(c)
  <2>1. answer[c].status \in {"notFound", "failed"} /\ Return(c, answer[c]) /\ UNCHANGED <<flagCache, evaluationCache>>
    BY <1>5 DEF ReceiveError, caches
  <2> QED BY <1>1, <2>1, Answers, ReturnKeeps DEF Heard, Entries
<1> QED BY <1>2, <1>3, <1>4, <1>5 DEF Receive

LEMMA AgainHolds == ASSUME SdkInv, NEW c \in Calls, Again(c) PROVE SdkInv'
<1> USE DEF SdkInv
<1>1. /\ pc[c] = "done" /\ pc' = [pc EXCEPT ![c] = "idle"] /\ op' = [op EXCEPT ![c] = "get"]
      /\ answer' = [answer EXCEPT ![c] = Pending] /\ since' = [since EXCEPT ![c] = {}]
      /\ disturbed' = [disturbed EXCEPT ![c] = "no"] /\ updates' = [updates EXCEPT ![c] = 0]
      /\ UNCHANGED <<content, written, flagCache, evaluationCache, hub, message, options, context, ifNoneMatch, attempt>>
  BY DEF Again, server, caches, socket, setting
<1>2. Types'
  BY <1>1, Answers DEF Types, TypeOK, Entries
<1>3. CallInv(c)'
  BY <1>1, SdkAssumption DEF Types, TypeOK, CallInv, Witness, Heard, Alone, Returned, Updated, Active, Getting, Got
<1>4. ASSUME NEW d \in Calls \ {c} PROVE CallInv(d)'
  <2>1. \A e \in Calls \ {c} : Same(e) /\ Sees(e) /\ disturbed'[e] = disturbed[e]
    BY <1>1 DEF Same, Sees, Types, TypeOK
  <2>2. ~Active(c)'
    BY <1>1 DEF Active, Types, TypeOK
  <2>3. Undisturbed(d)
    BY <1>1, <2>1, <2>2 DEF Undisturbed, CallInv, Alone, Getting, Active, Same
  <2> QED BY <2>1, <2>3, OthersKeep
<1> QED BY <1>2, <1>3, <1>4

-----------------------------------------------------------------------------
(* Time and messages.                                                      *)

\* A step of no call: the flag's entry stays, or the gets under way are told.
LEMMA NoCall ==
  ASSUME SdkInv, UNCHANGED <<server, request, progress, since, updates>>,
         hub' \in {"null", "connected", "subscribed", "closed"}, message' \in BOOLEAN,
         disturbed' \in [Calls -> {"no", "expired", "overlapped"}],
         DOMAIN flagCache' \subseteq DOMAIN flagCache, DOMAIN evaluationCache' \subseteq DOMAIN evaluationCache,
         \A key \in DOMAIN flagCache' : flagCache'[key] = flagCache[key],
         \A key \in DOMAIN evaluationCache' : evaluationCache'[key] = evaluationCache[key],
         \A c \in Calls :
           \/ disturbed'[c] = disturbed[c]
                /\ (BuildFeatureFlagCacheKey \in DOMAIN flagCache => BuildFeatureFlagCacheKey \in DOMAIN flagCache')
           \/ disturbed'[c] = disturbed[c] /\ (disturbed[c] # "no" \/ ~Getting(c))
           \/ Getting(c) /\ disturbed[c] = "no" /\ disturbed'[c] = "expired"
  PROVE  SdkInv'
<1> USE DEF SdkInv
<1>1. UNCHANGED <<content, written, op, options, context, ifNoneMatch, pc, attempt, answer, since, updates>>
  BY DEF server, request, progress, setting
<1>2. Types'
  BY <1>1 DEF Types, TypeOK, Entries
<1>3. ASSUME NEW d \in Calls PROVE CallInv(d)'
  <2>1. Same(d) /\ Sees(d)
    BY <1>1 DEF Same, Sees
  <2>2. Undisturbed(d)
    BY <1>1 DEF Undisturbed, CallInv, Alone, Getting, Active
  <2> QED BY <2>1, <2>2, OthersKeep
<1> QED BY <1>2, <1>3

LEMMA ExpireFlagHolds == ASSUME SdkInv, ExpireFlag PROVE SdkInv'
<1>1. PICK key \in DOMAIN flagCache : flagCache' = TryRemove(flagCache, key)
  BY DEF ExpireFlag
<1>2. /\ DOMAIN flagCache' \subseteq DOMAIN flagCache
      /\ \A k \in DOMAIN flagCache' : flagCache'[k] = flagCache[k]
  BY <1>1, Removed
<1>3. /\ UNCHANGED <<server, evaluationCache, hub, message, request, progress, since, updates>>
      /\ disturbed' = [c \in Calls |-> IF Getting(c) /\ disturbed[c] = "no" THEN "expired" ELSE disturbed[c]]
  BY DEF ExpireFlag, socket
<1>4. /\ disturbed' \in [Calls -> {"no", "expired", "overlapped"}]
      /\ hub' \in {"null", "connected", "subscribed", "closed"} /\ message' \in BOOLEAN
  BY <1>3 DEF SdkInv, Types, TypeOK
<1> QED BY <1>2, <1>3, <1>4, NoCall

LEMMA ExpireEvaluationHolds == ASSUME SdkInv, NEW key, ExpireEvaluation(key) PROVE SdkInv'
<1>1. /\ DOMAIN evaluationCache' \subseteq DOMAIN evaluationCache
      /\ \A k \in DOMAIN evaluationCache' : evaluationCache'[k] = evaluationCache[k]
  BY Removed DEF ExpireEvaluation
<1>2. UNCHANGED <<server, flagCache, hub, message, request, progress, since, disturbed, updates>>
  BY DEF ExpireEvaluation, socket, history
<1> QED BY <1>1, <1>2, NoCall DEF SdkInv, Types, TypeOK

LEMMA HubHolds ==
  ASSUME SdkInv, NEW state \in {"null", "connected", "subscribed", "closed"}, Hub(state) PROVE SdkInv'
<1>1. UNCHANGED <<server, flagCache, evaluationCache, request, progress, since, disturbed, updates>>
  BY DEF Hub, caches, history
<1>2. hub' = state /\ message' \in BOOLEAN
  BY DEF Hub, SdkInv, Types, TypeOK
<1> QED BY <1>1, <1>2, NoCall DEF SdkInv, Types, TypeOK

LEMMA FlagChangedHolds == ASSUME SdkInv, FlagChanged PROVE SdkInv'
<1>1. /\ DOMAIN flagCache' = DOMAIN flagCache \ {Key} /\ DOMAIN evaluationCache' = DOMAIN evaluationCache \ {Key}
      /\ \A k \in DOMAIN flagCache' : flagCache'[k] = flagCache[k]
      /\ \A k \in DOMAIN evaluationCache' : evaluationCache'[k] = evaluationCache[k]
  BY Removed DEF FlagChanged
<1>2. UNCHANGED <<server, hub, request, progress, since, disturbed, updates>> /\ message' = FALSE
  BY DEF FlagChanged, history
<1> QED BY <1>1, <1>2, Keys, NoCall DEF SdkInv, Types, TypeOK

-----------------------------------------------------------------------------
(* The specification.                                                      *)

LEMMA StepHolds == SdkInv /\ [Next]_vars => SdkInv'
<1> SUFFICES ASSUME SdkInv, [Next]_vars PROVE SdkInv'
  OBVIOUS
<1>1. ASSUME NEW c \in Calls, Begin(c) \/ Answer(c) \/ Retry(c) \/ Receive(c) \/ Again(c) PROVE SdkInv'
  BY <1>1, BeginHolds, ServeHolds, FailHolds, RetryHolds, ReceiveHolds, AgainHolds DEF Answer
<1>2. CASE OtherClient
  BY <1>2, OtherClientHolds
<1>3. CASE ExpireFlag
  BY <1>3, ExpireFlagHolds
<1>4. CASE \E key \in EvaluationKeys : ExpireEvaluation(key)
  BY <1>4, ExpireEvaluationHolds
<1>5. CASE StartListening \/ Subscribe \/ Disconnect \/ Dispose
  BY <1>5, HubHolds DEF StartListening, Subscribe, Disconnect, Dispose
<1>6. CASE FlagChanged
  BY <1>6, FlagChangedHolds
<1>7. CASE UNCHANGED vars
  <2>1. UNCHANGED <<server, flagCache, evaluationCache, hub, message, request, progress, since, disturbed, updates>>
    BY <1>7 DEF vars, caches, socket, history
  <2> QED BY <2>1, NoCall DEF SdkInv, Types, TypeOK
<1> QED BY <1>1, <1>2, <1>3, <1>4, <1>5, <1>6, <1>7 DEF Next

\* SdkInv is inductive.
THEOREM SdkInvariance == Spec => []SdkInv
<1>1. SdkInv /\ [Next]_vars => SdkInv'
  BY StepHolds
<1> QED BY InitHolds, <1>1, PTL DEF Spec

\* Types; no call is attempted more often than the options say.
THEOREM TypeCorrect == Spec => []TypeOK
<1>1. SdkInv => TypeOK
  BY DEF SdkInv, Types
<1> QED BY SdkInvariance, <1>1, PTL

\* A get that no other call overlaps returns the flag as it was at some time since the call.
THEOREM LoneGetIsCurrentHolds == Spec => []LoneGetIsCurrent
<1>1. SdkInv => LoneGetIsCurrent
  BY DEF SdkInv, CallInv, Returned, LoneGetIsCurrent
<1> QED BY SdkInvariance, <1>1, PTL

\* Such a get fails on a 304 only when its entry has reached its end.
THEOREM LoneGetIsAnsweredHolds == Spec => []LoneGetIsAnswered
<1>1. SdkInv => LoneGetIsAnswered
  BY DEF SdkInv, CallInv, Returned, LoneGetIsAnswered
<1> QED BY SdkInvariance, <1>1, PTL

\* A flag that is reported missing was missing during the call.
THEOREM NotFoundIsTrueHolds == Spec => []NotFoundIsTrue
<1>1. SdkInv => NotFoundIsTrue
  BY DEF SdkInv, CallInv, Returned, NotFoundIsTrue
<1> QED BY SdkInvariance, <1>1, PTL

\* A call updates the flag once at most, however often it is attempted, unless the options
\* let a PATCH be repeated: then once per attempt, so 1 + MaxRetries times at most.
THEOREM UpdatesOnceHolds == Spec => []UpdatesOnce
<1>1. SdkInv => UpdatesOnce
  BY DEF SdkInv, CallInv, Updated, UpdatesOnce
<1> QED BY SdkInvariance, <1>1, PTL
=============================================================================
