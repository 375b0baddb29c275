----------------------------- MODULE AuditTrail -----------------------------
(***************************************************************************)
(* From a change of a flag to its audit row.  FeatureFlagsService saves    *)
(* the flag and then puts an audit record into its node's AuditLogQueue,   *)
(* without waiting for more; on each node AuditLogBackgroundService takes  *)
(* one record after the other and inserts it into the table AuditLogs.     *)
(*                                                                         *)
(* A change is a request that creates, updates or deletes a flag; its      *)
(* audit record is represented by the change itself.  What the caches do   *)
(* between the save and the queue is FlagStore's.                          *)
(***************************************************************************)
EXTENDS Naturals, Sequences

CONSTANTS
  Nodes,    \* the API instances
  Changes,  \* the requests that change a flag
  At,       \* the node that serves a change
  Named,    \* the changes made by somebody with a user id or e-mail address
  Null      \* no record

ASSUME AuditAssumption ==
  /\ At \in [Changes -> Nodes]
  /\ Named \subseteq Changes
  /\ Null \notin Changes

VARIABLES
  pc,       \* per change: where its request stands
  status,   \* per change: "ok" or "error" once it is answered
  saved,    \* history: the changes whose statement was committed
  queue,    \* per node: AuditLogQueue's channel
  working,  \* per node: the record its consumer is inserting, or Null
  log,      \* history: the rows of AuditLogs in the order of their insertion
  erased,   \* the rows that were deleted again
  earlier   \* history, per change: the changes its node had acknowledged when
            \* it arrived

requestVars  == <<pc, status, saved>>
consumerVars == <<queue, working>>
vars == <<requestVars, consumerVars, log, erased, earlier>>

Logged == {log[i] : i \in DOMAIN log}

Init ==
  /\ pc = [c \in Changes |-> "idle"]
  /\ status = [c \in Changes |-> "none"]
  /\ saved = {}
  /\ queue = [n \in Nodes |-> << >>]
  /\ working = [n \in Nodes |-> Null]
  /\ log = << >> /\ erased = {}
  /\ earlier = [c \in Changes |-> {}]

-----------------------------------------------------------------------------
(* The request.                                                            *)

Arrive(c) ==
  /\ pc[c] = "idle"
  /\ pc' = [pc EXCEPT ![c] = "save"]
  /\ earlier' = [earlier EXCEPT ![c] = {d \in Changes : At[d] = At[c] /\ status[d] = "ok"}]
  /\ UNCHANGED <<status, saved, consumerVars, log, erased>>

\* The statement is committed.  A DELETE that finds its row gone already is one of
\* these: what statements do to the row is FlagStore's.
Save(c) ==
  /\ pc[c] = "save"
  /\ saved' = saved \cup {c}
  /\ pc' = [pc EXCEPT ![c] = "queue"]
  /\ UNCHANGED <<status, consumerVars, log, erased, earlier>>

\* Mutant of SaveFails: the record is queued whether or not the save went well.
SaveFailsQueued(c) ==
  /\ pc[c] = "save"
  /\ queue' = [queue EXCEPT ![At[c]] = Append(@, c)]
  /\ pc' = [pc EXCEPT ![c] = "done"]
  /\ status' = [status EXCEPT ![c] = "error"]
  /\ UNCHANGED <<saved, working, log, erased, earlier>>

\* The request is refused, or the statement fails, with or without having been
\* committed: the request ends there.
SaveFails(c) ==
  /\ pc[c] = "save"
  /\ saved' \in {saved, saved \cup {c}}
  /\ pc' = [pc EXCEPT ![c] = "done"]
  /\ status' = [status EXCEPT ![c] = "error"]
  /\ UNCHANGED <<consumerVars, log, erased, earlier>>

\* Mutant of Queue: the channel is bounded, and drops what it has no place for.
QueueBounded(c) ==
  /\ pc[c] = "queue"
  /\ queue' = IF c \in Named /\ Len(queue[At[c]]) < 1
              THEN [queue EXCEPT ![At[c]] = Append(@, c)] ELSE queue
  /\ pc' = [pc EXCEPT ![c] = "done"]
  /\ \E s \in {"ok", "error"} : status' = [status EXCEPT ![c] = s]
  /\ UNCHANGED <<saved, working, log, erased, earlier>>

\* The channel takes every record; a change nobody stands for leaves none.  An update
\* that cannot be announced to the clients then is answered with an error all the same.
Queue(c) ==
  /\ pc[c] = "queue"
  /\ queue' = IF c \in Named THEN [queue EXCEPT ![At[c]] = Append(@, c)] ELSE queue
  /\ pc' = [pc EXCEPT ![c] = "done"]
  /\ \E s \in {"ok", "error"} : status' = [status EXCEPT ![c] = s]
  /\ UNCHANGED <<saved, working, log, erased, earlier>>

-----------------------------------------------------------------------------
(* The consumer, the deletion of rows, and crashes.                        *)

\* Mutant of Take: the newest record is taken first.
TakeNewest(n) ==
  /\ working[n] = Null /\ queue[n] # << >>
  /\ working' = [working EXCEPT ![n] = queue[n][Len(queue[n])]]
  /\ queue' = [queue EXCEPT ![n] = SubSeq(@, 1, Len(@) - 1)]
  /\ UNCHANGED <<requestVars, log, erased, earlier>>

\* ReadAllAsync yields the oldest record.
Take(n) ==
  /\ working[n] = Null /\ queue[n] # << >>
  /\ working' = [working EXCEPT ![n] = Head(queue[n])]
  /\ queue' = [queue EXCEPT ![n] = Tail(@)]
  /\ UNCHANGED <<requestVars, log, erased, earlier>>

\* The record becomes a row.
Insert(n) ==
  /\ working[n] # Null
  /\ log' = Append(log, working[n])
  /\ working' = [working EXCEPT ![n] = Null]
  /\ UNCHANGED <<requestVars, queue, erased, earlier>>

\* Mutant of InsertFails: the record is put back, to be tried again.
InsertFailsRetried(n) ==
  /\ working[n] # Null
  /\ log' \in {log, Append(log, working[n])}
  /\ queue' = [queue EXCEPT ![n] = Append(@, working[n])]
  /\ working' = [working EXCEPT ![n] = Null]
  /\ UNCHANGED <<requestVars, erased, earlier>>

\* Mutant of InsertFails: it is put back because no row was inserted.
InsertFailsPutBack(n) ==
  /\ working[n] # Null
  /\ queue' = [queue EXCEPT ![n] = Append(@, working[n])]
  /\ working' = [working EXCEPT ![n] = Null]
  /\ UNCHANGED <<requestVars, log, erased, earlier>>

\* The statement fails, with or without having been committed: it is reported,
\* and the consumer goes on with the next record.
InsertFails(n) ==
  /\ working[n] # Null
  /\ log' \in {log, Append(log, working[n])}
  /\ working' = [working EXCEPT ![n] = Null]
  /\ UNCHANGED <<requestVars, queue, erased, earlier>>

\* Mutant of Erase: the row is not looked for.
EraseUnseen(c) ==
  /\ c \notin erased
  /\ erased' = erased \cup {c}
  /\ UNCHANGED <<requestVars, consumerVars, log, earlier>>

\* DELETE /audit-logs/{id}: a row that is there is removed.
Erase(c) ==
  /\ c \in Logged \ erased
  /\ erased' = erased \cup {c}
  /\ UNCHANGED <<requestVars, consumerVars, log, earlier>>

\* A node stops: what its requests and its consumer were doing in the database
\* is committed or not, and its channel is gone.
Crash(n) ==
  LET hit == {c \in Changes : At[c] = n /\ pc[c] \in {"save", "queue"}} IN
  /\ pc' = [c \in Changes |-> IF c \in hit THEN "done" ELSE pc[c]]
  /\ \E s \in SUBSET {c \in hit : pc[c] = "save"} : saved' = saved \cup s
  /\ queue' = [queue EXCEPT ![n] = << >>]
  /\ working' = [working EXCEPT ![n] = Null]
  /\ \/ log' = log
     \/ working[n] # Null /\ log' = Append(log, working[n])
  /\ UNCHANGED <<status, erased, earlier>>

-----------------------------------------------------------------------------
Request(c)  == Save(c) \/ SaveFails(c) \/ Queue(c)
Consumer(n) == Take(n) \/ Insert(n) \/ InsertFails(n)

Next == \/ \E c \in Changes : Arrive(c) \/ Request(c) \/ Erase(c)
        \/ \E n \in Nodes : Consumer(n) \/ Crash(n)

Spec == Init /\ [][Next]_vars

\* Requests end, and the hosted service runs on; its statements may all fail.
Fairness == /\ \A c \in Changes : WF_vars(Request(c))
            /\ \A n \in Nodes : WF_vars(Consumer(n))

FairSpec == Spec /\ Fairness

-----------------------------------------------------------------------------
(* Properties.                                                             *)

Queued(n) == {queue[n][i] : i \in DOMAIN queue[n]}

\* The places of the requests, what the consumers hold, and rows that were deleted
\* after they had been inserted.
TypeOK ==
  /\ pc \in [Changes -> {"idle", "save", "queue", "done"}]
  /\ status \in [Changes -> {"none", "ok", "error"}]
  /\ saved \subseteq Changes
  /\ queue \in [Nodes -> Seq(Changes)]
  /\ working \in [Nodes -> Changes \cup {Null}]
  /\ log \in Seq(Changes)
  /\ erased \subseteq Logged
  /\ earlier \in [Changes -> SUBSET Changes]

\* The audit trail tells no lies: a row stands for a statement that was committed,
\* by somebody.  A save that fails, or that a crash cuts off, leaves no row behind.
LogIsReal == Logged \subseteq saved \cap Named

\* A change has one row at most, even if the insertion fails after its commit.
AtMostOnce == \A i, j \in DOMAIN log : log[i] = log[j] => i = j

\* The trail keeps the order of what a client does: a change that was sent to a
\* node after another had been acknowledged by it has its row after the other's.
KeepsOrder ==
  \A i, j \in DOMAIN log : log[i] \in earlier[log[j]] => i < j

\* The trail with its channels, consumers and failures is an AuditLedger.
Ledger == INSTANCE AuditLedger WITH
            committed <- saved, before <- earlier, rows <- log, struck <- erased

\* Rows are added at the end only, each when its change may be recorded, and are
\* deleted once.
ImplementsLedger == Ledger!Spec

\* The acknowledged changes of somebody that neither have a row, erased or not, nor are on
\* the way to one.
Unrecorded ==
  {c \in Named : /\ status[c] = "ok" /\ c \notin Logged
                 /\ c \notin Queued(At[c]) /\ working[At[c]] # c}

\* Nothing but an insertion that fails, or a node that stops, loses the record of a
\* change that was acknowledged, wherever the record is.
OnlyFailuresLose ==
  [][Unrecorded' \subseteq Unrecorded \/ \E n \in Nodes : InsertFails(n) \/ Crash(n)]_vars

\* The consumer is done with each record in the end, even if no statement ever
\* succeeds: none keeps it busy for good, and none waits behind it for good.
Drains ==
  \A c \in Changes : <>[](c \notin Queued(At[c]) /\ working[At[c]] # c)
=============================================================================
