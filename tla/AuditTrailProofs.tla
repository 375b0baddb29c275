-------------------------- MODULE AuditTrailProofs --------------------------
(* The safety properties of AuditTrail, for any nodes and changes.            *)
EXTENDS AuditTrail, TLAPS

-----------------------------------------------------------------------------
(* The inductive invariant.                                                 *)

\* The records a node has not dealt with.
Waiting(n) == Queued(n) \cup ({working[n]} \ {Null})

\* Nothing is committed before it arrives, nor acknowledged before it is committed; what
\* a change has come after is another that the same node acknowledged.
Acknowledged ==
  /\ \A c \in Changes : pc[c] = "idle" => c \notin saved
  /\ \A c \in Changes : status[c] = "ok" => pc[c] = "done" /\ c \in saved
  /\ \A c \in Changes : \A d \in earlier[c] : status[d] = "ok" /\ At[d] = At[c]
  /\ \A c \in Changes : c \notin earlier[c]

\* Records are made by requests that have saved, and only by these.
Made ==
  /\ \A c \in Changes : pc[c] = "queue" => c \in saved
  /\ \A c \in Logged : pc[c] = "done"
  /\ \A n \in Nodes : \A c \in Waiting(n) :
       pc[c] = "done" /\ At[c] = n /\ c \in saved \cap Named

\* A waiting record has no row, and comes after no record that has one.
Unlogged ==
  \A n \in Nodes : \A c \in Waiting(n) :
    c \notin Logged /\ \A x \in Logged : c \notin earlier[x]

\* The record that is being inserted comes before those in the channel.
First ==
  \A n \in Nodes : working[n] # Null =>
    \A c \in Queued(n) : c # working[n] /\ c \notin earlier[working[n]]

\* The channel holds no record twice, and keeps their order.
InLine ==
  \A n \in Nodes : \A i, j \in DOMAIN queue[n] : i < j =>
    queue[n][i] # queue[n][j] /\ queue[n][j] \notin earlier[queue[n][i]]

AuditInv ==
  /\ TypeOK /\ LogIsReal /\ AtMostOnce /\ KeepsOrder
  /\ Acknowledged /\ Made /\ Unlogged /\ First /\ InLine

-----------------------------------------------------------------------------
(* Sequences.                                                               *)

\* What Append does.
LEMMA Appended ==
  ASSUME NEW S, NEW s \in Seq(S), NEW e \in S
  PROVE  /\ Append(s, e) \in Seq(S)
         /\ DOMAIN Append(s, e) = DOMAIN s \cup {Len(s) + 1}
         /\ Len(s) + 1 \notin DOMAIN s
         /\ \A i \in DOMAIN s : Append(s, e)[i] = s[i] /\ i < Len(s) + 1
         /\ Append(s, e)[Len(s) + 1] = e
         /\ {Append(s, e)[i] : i \in DOMAIN Append(s, e)}
              = {s[i] : i \in DOMAIN s} \cup {e}
<1> DEFINE t == Append(s, e)
<1>1. /\ t \in Seq(S) /\ Len(t) = Len(s) + 1 /\ Len(s) \in Nat
      /\ DOMAIN s = 1 .. Len(s) /\ DOMAIN t = 1 .. Len(s) + 1
      /\ \A i \in 1 .. Len(s) : t[i] = s[i]
      /\ t[Len(s) + 1] = e
  OBVIOUS
<1>2. DOMAIN t = DOMAIN s \cup {Len(s) + 1} /\ Len(s) + 1 \notin DOMAIN s
  BY <1>1
<1>3. \A i \in DOMAIN s : t[i] = s[i] /\ i < Len(s) + 1
  BY <1>1
<1> HIDE DEF t
<1>4. {t[i] : i \in DOMAIN t} = {s[i] : i \in DOMAIN s} \cup {e}
  BY <1>1, <1>2, <1>3
<1> QED BY <1>1, <1>2, <1>3, <1>4 DEF t

\* What Head and Tail do.
LEMMA Shortened ==
  ASSUME NEW S, NEW s \in Seq(S), s # << >>
  PROVE  /\ Head(s) \in S /\ Head(s) = s[1] /\ 1 \in DOMAIN s
         /\ Tail(s) \in Seq(S)
         /\ \A i \in DOMAIN Tail(s) :
              i \in Nat /\ 1 < i + 1 /\ i + 1 \in DOMAIN s /\ Tail(s)[i] = s[i + 1]
<1>1. Len(s) \in Nat \ {0} /\ DOMAIN s = 1 .. Len(s)
  OBVIOUS
<1>2. /\ Tail(s) \in Seq(S) /\ Len(Tail(s)) = Len(s) - 1
      /\ \A i \in 1 .. Len(s) - 1 : Tail(s)[i] = s[i + 1]
      /\ DOMAIN Tail(s) = 1 .. Len(Tail(s))
  OBVIOUS
<1>3. Head(s) = s[1] /\ s[1] \in S
  BY <1>1
<1> QED BY <1>1, <1>2, <1>3

-----------------------------------------------------------------------------
(* Each step keeps the invariant.                                           *)

LEMMA InitInv == Init => AuditInv
<1> SUFFICES ASSUME Init PROVE AuditInv
  OBVIOUS
<1>1. Logged = {} /\ \A n \in Nodes : Waiting(n) = {} /\ Queued(n) = {}
  BY DEF Init, Logged, Waiting, Queued
<1> QED BY <1>1 DEF Init, AuditInv, TypeOK, LogIsReal, AtMostOnce, KeepsOrder,
              Acknowledged, Made, Unlogged, First, InLine

\* The steps of a request before its record exists.
LEMMA ArriveInv ==
  ASSUME AuditInv, NEW c \in Changes, Arrive(c)
  PROVE  AuditInv'
<1> USE AuditAssumption DEF AuditInv
<1>0. /\ pc[c] = "idle" /\ pc' = [pc EXCEPT ![c] = "save"]
      /\ earlier' = [earlier EXCEPT ![c] = {d \in Changes : At[d] = At[c] /\ status[d] = "ok"}]
      /\ UNCHANGED <<status, saved, queue, working, log, erased>>
  BY DEF Arrive, consumerVars
<1>1. Logged' = Logged /\ \A n \in Nodes : Queued(n)' = Queued(n) /\ Waiting(n)' = Waiting(n)
  BY <1>0 DEF Logged, Queued, Waiting
<1>2. Logged \subseteq Changes /\ \A n \in Nodes : Queued(n) \subseteq Changes
  BY DEF TypeOK, Logged, Queued
<1>3. c \notin Logged /\ \A n \in Nodes : c \notin Waiting(n)
  BY <1>0 DEF Made
<1>4. \A x \in Changes : x # c => earlier'[x] = earlier[x] /\ pc'[x] = pc[x]
  BY <1>0 DEF TypeOK
<1>5. TypeOK'
  BY <1>0, <1>1 DEF TypeOK
<1>6. LogIsReal' /\ AtMostOnce'
  BY <1>0, <1>1 DEF LogIsReal, AtMostOnce
<1>7. KeepsOrder'
  BY <1>0, <1>2, <1>3, <1>4 DEF KeepsOrder, Logged
<1>8. Acknowledged'
  BY <1>0, <1>4 DEF Acknowledged, TypeOK
<1>9. Made'
  BY <1>0, <1>1, <1>2, <1>3, <1>4 DEF Made, TypeOK, Waiting
<1>10. Unlogged'
  BY <1>0, <1>1, <1>2, <1>3, <1>4 DEF Unlogged
<1>11. First'
  BY <1>0, <1>1, <1>3, <1>4 DEF First, TypeOK, Waiting
<1>12. InLine'
  <2> SUFFICES ASSUME NEW n \in Nodes, NEW i \in DOMAIN queue[n], NEW j \in DOMAIN queue[n], i < j
               PROVE  queue[n][i] # queue[n][j] /\ queue[n][j] \notin earlier'[queue[n][i]]
    BY <1>0 DEF InLine
  <2>1. queue[n][i] \in Changes /\ queue[n][i] # c
    BY <1>2, <1>3 DEF Queued, Waiting
  <2> QED BY <2>1, <1>4 DEF InLine
<1> QED BY <1>5, <1>6, <1>7, <1>8, <1>9, <1>10, <1>11, <1>12

\* Nothing but the place and the answer of a request, and what is committed.
LEMMA RequestInv ==
  ASSUME AuditInv, NEW c \in Changes, Save(c) \/ SaveFails(c)
  PROVE  AuditInv'
<1> USE AuditAssumption DEF AuditInv
<1>0. /\ pc[c] = "save" /\ saved' \in {saved, saved \cup {c}}
      /\ UNCHANGED <<queue, working, log, erased, earlier>>
      /\ \/ /\ pc' = [pc EXCEPT ![c] = "queue"] /\ status' = status
            /\ saved' = saved \cup {c}
         \/ /\ pc' = [pc EXCEPT ![c] = "done"]
            /\ status' = [status EXCEPT ![c] = "error"]
  BY DEF Save, SaveFails, consumerVars
<1>1. Logged' = Logged /\ \A n \in Nodes : Queued(n)' = Queued(n) /\ Waiting(n)' = Waiting(n)
  BY <1>0 DEF Logged, Queued, Waiting
<1>2. Logged \subseteq Changes /\ \A n \in Nodes : Waiting(n) \subseteq Changes
  BY DEF TypeOK, Logged, Queued, Waiting
<1>3. saved \subseteq saved' /\ \A x \in Changes : x # c => pc'[x] = pc[x] /\ status'[x] = status[x]
  BY <1>0 DEF TypeOK
<1>4. c \notin Logged /\ \A n \in Nodes : c \notin Waiting(n)
  BY <1>0 DEF Made
<1>5. TypeOK'
  BY <1>0, <1>1 DEF TypeOK
<1>6. LogIsReal' /\ AtMostOnce' /\ KeepsOrder'
  BY <1>0, <1>1, <1>3 DEF LogIsReal, AtMostOnce, KeepsOrder
<1>7. Acknowledged'
  <2>1. status[c] # "ok"
    BY <1>0 DEF Acknowledged
  <2>2. \A x \in Changes : status'[x] = "ok" => x # c /\ status[x] = "ok"
    BY <2>1, <1>0 DEF TypeOK
  <2>3. \A x \in Changes : \A d \in earlier[x] : d \in Changes /\ d # c
    BY <2>1 DEF Acknowledged, TypeOK
  <2>4. \A x \in Changes : pc'[x] = "idle" => x # c /\ pc[x] = "idle" /\ x \notin saved'
    BY <1>0, <1>3 DEF TypeOK, Acknowledged
  <2> QED BY <2>2, <2>3, <2>4, <1>0, <1>3 DEF Acknowledged
<1>8. Made'
  <2>1. \A x \in Changes : pc'[x] = "queue" => x \in saved'
    BY <1>0, <1>3 DEF Made, TypeOK
  <2> QED BY <2>1, <1>0, <1>1, <1>2, <1>3, <1>4 DEF Made
<1>9. Unlogged' /\ First' /\ InLine'
  BY <1>0, <1>1 DEF Unlogged, First, InLine
<1> QED BY <1>5, <1>6, <1>7, <1>8, <1>9

\* A record enters the channel.
LEMMA QueueInv ==
  ASSUME AuditInv, NEW c \in Changes, Queue(c)
  PROVE  AuditInv'
<1> USE AuditAssumption DEF AuditInv
<1>0. /\ pc[c] = "queue" /\ c \in saved
      /\ pc' = [pc EXCEPT ![c] = "done"]
      /\ \E s \in {"ok", "error"} : status' = [status EXCEPT ![c] = s]
      /\ queue' = IF c \in Named THEN [queue EXCEPT ![At[c]] = Append(@, c)] ELSE queue
      /\ UNCHANGED <<saved, working, log, erased, earlier>>
  BY DEF Queue, Made
<1>1. At[c] \in Nodes /\ status[c] # "ok"
  BY <1>0 DEF Acknowledged
<1>2. Logged \subseteq Changes /\ \A n \in Nodes : Waiting(n) \subseteq Changes /\ Queued(n) \subseteq Changes
  BY DEF TypeOK, Logged, Queued, Waiting
<1>3. c \notin Logged /\ \A n \in Nodes : c \notin Waiting(n) /\ c \notin Queued(n)
  BY <1>0 DEF Made, Waiting
<1>4. \A x \in Changes : c \notin earlier[x]
  BY <1>1 DEF Acknowledged
<1>5. \A x \in Changes : x # c => pc'[x] = pc[x] /\ status'[x] = status[x]
  BY <1>0 DEF TypeOK
<1>6. Logged' = Logged
  BY <1>0 DEF Logged
<1>7. \A n \in Nodes : queue'[n] # queue[n] => n = At[c] /\ c \in Named /\ queue'[n] = Append(queue[n], c)
  BY <1>0 DEF TypeOK
<1>8. ASSUME NEW n \in Nodes, queue'[n] # queue[n]
      PROVE  Queued(n)' = Queued(n) \cup {c}
  <2>1. queue[n] \in Seq(Changes)
    BY DEF TypeOK
  <2>2. queue'[n] = Append(queue[n], c)
    BY <1>7, <1>8
  <2>3. Queued(n)' = {Append(queue[n], c)[i] : i \in DOMAIN Append(queue[n], c)}
    BY <2>2 DEF Queued
  <2>4. {Append(queue[n], c)[i] : i \in DOMAIN Append(queue[n], c)}
          = {queue[n][i] : i \in DOMAIN queue[n]} \cup {c}
    BY <2>1, Appended
  <2> QED BY <2>3, <2>4 DEF Queued
<1>9. ASSUME NEW n \in Nodes
      PROVE  /\ Queued(n)' \subseteq Queued(n) \cup {c} /\ Waiting(n)' \subseteq Waiting(n) \cup {c}
             /\ c \in Waiting(n)' => n = At[c] /\ c \in Named
  <2>1. CASE queue'[n] = queue[n]
    <3>1. Queued(n)' = Queued(n) /\ Waiting(n)' = Waiting(n)
      BY <2>1, <1>0 DEF Queued, Waiting
    <3> QED BY <3>1, <1>3
  <2>2. CASE queue'[n] # queue[n]
    BY <2>2, <1>0, <1>7, <1>8 DEF Waiting
  <2> QED BY <2>1, <2>2
<1>10. TypeOK'
  <2>1. \A n \in Nodes : queue[n] \in Seq(Changes) /\ Append(queue[n], c) \in Seq(Changes)
    BY Appended DEF TypeOK
  <2> QED BY <2>1, <1>0, <1>1, <1>6 DEF TypeOK
<1>11. LogIsReal' /\ AtMostOnce' /\ KeepsOrder'
  BY <1>0, <1>6 DEF LogIsReal, AtMostOnce, KeepsOrder
<1>12. Acknowledged'
  BY <1>0, <1>5 DEF Acknowledged, TypeOK
<1>13. Made'
  <2>1. pc'[c] = "done" /\ c \in saved'
    BY <1>0 DEF TypeOK
  <2> QED BY <2>1, <1>0, <1>2, <1>3, <1>5, <1>6, <1>9 DEF Made
<1>14. Unlogged'
  BY <1>0, <1>2, <1>3, <1>4, <1>6, <1>9 DEF Unlogged
<1>15. First'
  <2> SUFFICES ASSUME NEW n \in Nodes, working[n] # Null, NEW d \in Queued(n)'
               PROVE  d # working[n] /\ d \notin earlier[working[n]]
    BY <1>0 DEF First
  <2>1. working[n] \in Changes /\ working[n] # c
    BY <1>3 DEF TypeOK, Waiting
  <2> QED BY <2>1, <1>4, <1>9 DEF First
<1>16. InLine'
  <2> SUFFICES ASSUME NEW n \in Nodes, NEW i \in DOMAIN queue'[n], NEW j \in DOMAIN queue'[n], i < j
               PROVE  queue'[n][i] # queue'[n][j] /\ queue'[n][j] \notin earlier[queue'[n][i]]
    BY <1>0 DEF InLine
  <2>1. CASE queue'[n] = queue[n]
    BY <2>1 DEF InLine
  <2>2. CASE queue'[n] # queue[n]
    <3> DEFINE s == queue[n]
    <3>0. s \in Seq(Changes)
      BY DEF TypeOK
    <3>1. /\ queue'[n] = Append(s, c)
          /\ DOMAIN queue'[n] = DOMAIN s \cup {Len(s) + 1}
          /\ \A k \in DOMAIN s : queue'[n][k] = s[k] /\ k < Len(s) + 1
          /\ queue'[n][Len(s) + 1] = c
      BY <2>2, <3>0, <1>7, Appended
    <3>2. DOMAIN s \subseteq Nat /\ Len(s) + 1 \in Nat
      BY <3>0
    <3>3. \A k \in DOMAIN s : s[k] \in Changes /\ s[k] # c
      BY <1>2, <1>3 DEF Queued
    <3> HIDE DEF s
    <3>4. i \in DOMAIN s
      BY <3>1, <3>2
    <3>5. CASE j \in DOMAIN s
      BY <3>1, <3>4, <3>5 DEF InLine, s
    <3>6. CASE j = Len(s) + 1
      BY <3>1, <3>3, <3>4, <3>6, <1>4
    <3> QED BY <3>1, <3>5, <3>6
  <2> QED BY <2>1, <2>2
<1> QED BY <1>10, <1>11, <1>12, <1>13, <1>14, <1>15, <1>16

\* The first record leaves the channel.
LEMMA TakeInv ==
  ASSUME AuditInv, NEW n \in Nodes, Take(n)
  PROVE  AuditInv'
<1> USE AuditAssumption DEF AuditInv
<1> DEFINE s == queue[n]
<1>0. /\ working[n] = Null /\ s # << >> /\ s \in Seq(Changes)
      /\ working' = [working EXCEPT ![n] = Head(s)] /\ queue' = [queue EXCEPT ![n] = Tail(s)]
      /\ UNCHANGED <<pc, status, saved, log, erased, earlier>>
  BY DEF Take, TypeOK, requestVars
<1>1. /\ Head(s) \in Changes /\ Head(s) = s[1] /\ 1 \in DOMAIN s
      /\ Tail(s) \in Seq(Changes)
      /\ \A i \in DOMAIN Tail(s) :
           i \in Nat /\ 1 < i + 1 /\ i + 1 \in DOMAIN s /\ Tail(s)[i] = s[i + 1]
  BY <1>0, Shortened
<1>2. Logged' = Logged
  BY <1>0 DEF Logged
<1>3. queue'[n] = Tail(s) /\ working'[n] = s[1] /\ Head(s) # Null
      /\ \A m \in Nodes : m # n => queue'[m] = queue[m] /\ working'[m] = working[m]
  BY <1>0, <1>1 DEF TypeOK
<1>4. ASSUME NEW m \in Nodes
      PROVE  Waiting(m)' \subseteq Waiting(m) /\ (m # n => Queued(m)' = Queued(m))
  <2>1. CASE m # n
    BY <2>1, <1>3 DEF Queued, Waiting
  <2>2. CASE m = n
    <3>1. Queued(n)' \subseteq Queued(n)
      BY <1>1, <1>3 DEF Queued
    <3>2. working'[n] \in Queued(n)
      BY <1>1, <1>3 DEF Queued
    <3> QED BY <2>2, <3>1, <3>2 DEF Waiting
  <2> QED BY <2>1, <2>2
<1>5. TypeOK'
  BY <1>0, <1>1, <1>2 DEF TypeOK
<1>6. LogIsReal' /\ AtMostOnce' /\ KeepsOrder' /\ Acknowledged'
  BY <1>0, <1>2 DEF LogIsReal, AtMostOnce, KeepsOrder, Acknowledged
<1>7. Made'
  BY <1>0, <1>2, <1>4 DEF Made
<1>8. Unlogged'
  BY <1>0, <1>2, <1>4 DEF Unlogged
<1>9. First'
  <2> SUFFICES ASSUME NEW m \in Nodes, working'[m] # Null, NEW d \in Queued(m)'
               PROVE  d # working'[m] /\ d \notin earlier[working'[m]]
    BY <1>0 DEF First
  <2>1. CASE m # n
    BY <2>1, <1>3, <1>4 DEF First
  <2>2. CASE m = n
    <3>1. PICK i \in DOMAIN Tail(s) : d = Tail(s)[i]
      BY <2>2, <1>3 DEF Queued
    <3>2. i + 1 \in DOMAIN s /\ 1 < i + 1 /\ d = s[i + 1]
      BY <3>1, <1>1
    <3> QED BY <2>2, <3>2, <1>1, <1>3 DEF InLine
  <2> QED BY <2>1, <2>2
<1>10. InLine'
  <2> SUFFICES ASSUME NEW m \in Nodes, NEW i \in DOMAIN queue'[m], NEW j \in DOMAIN queue'[m], i < j
               PROVE  queue'[m][i] # queue'[m][j] /\ queue'[m][j] \notin earlier[queue'[m][i]]
    BY <1>0 DEF InLine
  <2>1. CASE m # n
    BY <2>1, <1>3 DEF InLine
  <2>2. CASE m = n
    <3>1. /\ i \in Nat /\ j \in Nat /\ i + 1 \in DOMAIN s /\ j + 1 \in DOMAIN s
          /\ queue'[m][i] = s[i + 1] /\ queue'[m][j] = s[j + 1]
      BY <2>2, <1>1, <1>3
    <3>2. i + 1 < j + 1
      BY <3>1
    <3> QED BY <3>1, <3>2 DEF InLine
  <2> QED BY <2>1, <2>2
<1> QED BY <1>5, <1>6, <1>7, <1>8, <1>9, <1>10

\* Records are given up, or were inserted already: what is left of what was waiting
\* is in its old order, and requests stop where they are.
LEMMA DroppedInv ==
  ASSUME AuditInv, TypeOK', Acknowledged',
         saved \subseteq saved', UNCHANGED <<log, earlier>>,
         \A c \in Changes : pc'[c] = pc[c] \/ pc'[c] = "done",
         \A n \in Nodes : /\ queue'[n] = queue[n] \/ queue'[n] = << >>
                          /\ working'[n] = working[n] \/ working'[n] = Null
  PROVE  AuditInv'
<1> USE AuditAssumption DEF AuditInv
<1>1. Logged' = Logged /\ Logged \subseteq Changes
  BY DEF Logged, TypeOK
<1>2. ASSUME NEW n \in Nodes
      PROVE  /\ Queued(n)' \subseteq Queued(n) /\ Waiting(n)' \subseteq Waiting(n)
             /\ Waiting(n) \subseteq Changes
  <2>1. Queued(n)' \subseteq Queued(n)
    BY <1>2 DEF Queued
  <2>2. Waiting(n) \subseteq Changes
    BY DEF TypeOK, Queued, Waiting
  <2> QED BY <2>1, <2>2, <1>2 DEF Waiting
<1>3. LogIsReal' /\ AtMostOnce' /\ KeepsOrder'
  BY <1>1 DEF LogIsReal, AtMostOnce, KeepsOrder
<1>4. Made'
  BY <1>1, <1>2 DEF Made
<1>5. Unlogged'
  BY <1>1, <1>2 DEF Unlogged
<1>6. First'
  BY <1>2 DEF First
<1>7. InLine'
  BY DEF InLine
<1> QED BY <1>3, <1>4, <1>5, <1>6, <1>7

\* The record becomes a row; the channels may be lost at the same time.
LEMMA InsertedInv ==
  ASSUME AuditInv, TypeOK', Acknowledged',
         NEW n \in Nodes, working[n] # Null,
         log' = Append(log, working[n]), working' = [working EXCEPT ![n] = Null],
         \A m \in Nodes : queue'[m] = queue[m] \/ queue'[m] = << >>,
         saved \subseteq saved', UNCHANGED earlier,
         \A c \in Changes : pc'[c] = pc[c] \/ pc'[c] = "done"
  PROVE  AuditInv'
<1> USE AuditAssumption DEF AuditInv
<1> DEFINE w == working[n]
<1>0. /\ w \in Changes /\ w \in Waiting(n) /\ log \in Seq(Changes)
      /\ working'[n] = Null /\ \A m \in Nodes : m # n => working'[m] = working[m]
  BY DEF TypeOK, Waiting
<1>1. /\ DOMAIN log' = DOMAIN log \cup {Len(log) + 1}
      /\ Len(log) + 1 \notin DOMAIN log
      /\ \A i \in DOMAIN log : log'[i] = log[i] /\ i < Len(log) + 1
      /\ log'[Len(log) + 1] = w
      /\ Logged' = Logged \cup {w}
  BY <1>0, Appended DEF Logged
<1>2. w \notin Logged /\ \A x \in Logged : w \notin earlier[x]
  BY <1>0 DEF Unlogged
<1>3. pc[w] = "done" /\ At[w] = n /\ w \in saved \cap Named
  BY <1>0 DEF Made
<1>4. ASSUME NEW m \in Nodes
      PROVE  /\ Queued(m)' \subseteq Queued(m) /\ Waiting(m)' \subseteq Waiting(m)
             /\ Waiting(m) \subseteq Changes /\ Waiting(n)' \subseteq Queued(n)
  <2>1. \A k \in Nodes : Queued(k)' \subseteq Queued(k)
    BY DEF Queued
  <2>2. Waiting(m) \subseteq Changes
    BY DEF TypeOK, Queued, Waiting
  <2> QED BY <1>0, <2>1, <2>2 DEF Waiting
<1>5. ASSUME NEW m \in Nodes, NEW c \in Waiting(m)'
      PROVE  c # w /\ c \notin earlier[w]
  <2>1. CASE m = n
    BY <1>4, <1>5, <2>1 DEF First
  <2>2. CASE m # n
    <3>1. c \in Waiting(m) /\ c \in Changes
      BY <1>4, <1>5
    <3>2. At[c] # At[w]
      BY <3>1, <2>2, <1>3 DEF Made
    <3> QED BY <3>1, <3>2, <1>0 DEF Acknowledged
  <2> QED BY <2>1, <2>2
<1>6. LogIsReal'
  BY <1>1, <1>3 DEF LogIsReal
<1>7. \A i \in DOMAIN log : log[i] \in Logged /\ log[i] # w
  BY <1>2 DEF Logged
<1>8. AtMostOnce'
  BY <1>1, <1>7 DEF AtMostOnce
<1>9. KeepsOrder'
  <2> SUFFICES ASSUME NEW i \in DOMAIN log', NEW j \in DOMAIN log', log'[i] \in earlier[log'[j]]
               PROVE  i < j
    BY DEF KeepsOrder
  <2>1. CASE i \in DOMAIN log /\ j \in DOMAIN log
    BY <2>1, <1>1 DEF KeepsOrder
  <2>2. CASE i = Len(log) + 1 /\ j \in DOMAIN log
    BY <2>2, <1>1, <1>2, <1>7
  <2>3. CASE i \in DOMAIN log /\ j = Len(log) + 1
    BY <2>3, <1>1
  <2>4. CASE i = Len(log) + 1 /\ j = Len(log) + 1
    BY <2>4, <1>0, <1>1 DEF Acknowledged
  <2> QED BY <2>1, <2>2, <2>3, <2>4, <1>1
<1>10. Made'
  <2>1. \A c \in Changes : pc'[c] = "queue" => c \in saved'
    BY DEF Made
  <2>2. \A c \in Changes : pc[c] = "done" => pc'[c] = "done"
    OBVIOUS
  <2>3. \A c \in Logged' : c \in Changes /\ pc[c] = "done"
    <3>1. Logged \subseteq Changes
      BY DEF Logged, TypeOK
    <3> QED BY <3>1, <1>0, <1>1, <1>3 DEF Made
  <2>4. \A m \in Nodes : \A c \in Waiting(m)' :
          c \in Changes /\ pc[c] = "done" /\ At[c] = m /\ c \in saved \cap Named
    BY <1>4 DEF Made
  <2> QED BY <2>1, <2>2, <2>3, <2>4 DEF Made
<1>11. Unlogged'
  BY <1>1, <1>4, <1>5 DEF Unlogged
<1>12. First'
  BY <1>0, <1>4 DEF First
<1>13. InLine'
  BY DEF InLine
<1> QED BY <1>6, <1>8, <1>9, <1>10, <1>11, <1>12, <1>13

LEMMA NextInv == AuditInv /\ [Next]_vars => AuditInv'
<1> SUFFICES ASSUME AuditInv, [Next]_vars PROVE AuditInv'
  OBVIOUS
<1> USE AuditAssumption
<1>1. CASE \E c \in Changes : Arrive(c)
  BY <1>1, ArriveInv
<1>2. CASE \E c \in Changes : Save(c) \/ SaveFails(c)
  BY <1>2, RequestInv
<1>3. CASE \E c \in Changes : Queue(c)
  BY <1>3, QueueInv
<1>4. CASE \E n \in Nodes : Take(n)
  BY <1>4, TakeInv
<1>5. ASSUME NEW n \in Nodes, Insert(n)
      PROVE  AuditInv'
  <2>1. /\ working[n] # Null /\ log' = Append(log, working[n])
        /\ working' = [working EXCEPT ![n] = Null]
        /\ UNCHANGED <<pc, status, saved, queue, erased, earlier>>
    BY <1>5 DEF Insert, requestVars
  <2>2. TypeOK' /\ Acknowledged'
    <3>1. log' \in Seq(Changes) /\ Logged \subseteq Logged'
      BY <2>1, Appended DEF AuditInv, TypeOK, Logged
    <3> QED BY <2>1, <3>1 DEF AuditInv, TypeOK, Acknowledged
  <2> QED BY <2>1, <2>2, InsertedInv
<1>6. ASSUME NEW n \in Nodes, InsertFails(n)
      PROVE  AuditInv'
  <2>1. CASE log' = log
    <3>1. /\ working' = [working EXCEPT ![n] = Null]
          /\ UNCHANGED <<pc, status, saved, queue, log, erased, earlier>>
      BY <1>6, <2>1 DEF InsertFails, requestVars
    <3>2. TypeOK' /\ Acknowledged'
      BY <3>1 DEF AuditInv, TypeOK, Acknowledged, Logged
    <3>3. \A m \in Nodes : working'[m] = working[m] \/ working'[m] = Null
      BY <3>1 DEF AuditInv, TypeOK
    <3> QED BY <3>1, <3>2, <3>3, DroppedInv
  <2>2. CASE log' = Append(log, working[n])
    BY <1>5, <1>6, <2>2 DEF InsertFails, Insert
  <2> QED BY <2>1, <2>2, <1>6 DEF InsertFails
<1>7. ASSUME NEW c \in Changes, Erase(c)
      PROVE  AuditInv'
  <2>1. /\ c \in Logged /\ erased' = erased \cup {c}
        /\ UNCHANGED <<pc, status, saved, queue, working, log, earlier>>
    BY <1>7 DEF Erase, requestVars, consumerVars
  <2>2. TypeOK' /\ Acknowledged'
    BY <2>1 DEF AuditInv, TypeOK, Acknowledged, Logged
  <2> QED BY <2>1, <2>2, DroppedInv
<1>8. ASSUME NEW n \in Nodes, Crash(n)
      PROVE  AuditInv'
  <2>1. /\ \A c \in Changes : pc'[c] = pc[c] \/ pc'[c] = "done"
        /\ pc' \in [Changes -> {"idle", "save", "queue", "done"}]
        /\ saved \subseteq saved' /\ saved' \subseteq Changes
        /\ \A c \in Changes : pc'[c] = "idle" => pc[c] = "idle" /\ (c \in saved' => c \in saved)
        /\ queue' = [queue EXCEPT ![n] = << >>]
        /\ working' = [working EXCEPT ![n] = Null]
        /\ log' = log \/ (working[n] # Null /\ log' = Append(log, working[n]))
        /\ UNCHANGED <<status, erased, earlier>>
    <3> DEFINE hit == {c \in Changes : At[c] = n /\ pc[c] \in {"save", "queue"}}
    <3>1. pc' = [c \in Changes |-> IF c \in hit THEN "done" ELSE pc[c]]
      BY <1>8 DEF Crash
    <3>2. PICK s \in SUBSET {c \in hit : pc[c] = "save"} : saved' = saved \cup s
      BY <1>8 DEF Crash
    <3>3. /\ saved \subseteq saved' /\ saved' \subseteq Changes
          /\ \A c \in Changes : c \in saved' => c \in saved \/ pc[c] = "save"
      BY <3>2 DEF AuditInv, TypeOK
    <3>4. /\ \A c \in Changes : pc'[c] = pc[c] \/ pc'[c] = "done"
          /\ pc' \in [Changes -> {"idle", "save", "queue", "done"}]
          /\ \A c \in Changes : pc'[c] = "idle" => pc[c] = "idle"
      BY <3>1 DEF AuditInv, TypeOK
    <3>5. /\ queue' = [queue EXCEPT ![n] = << >>]
          /\ working' = [working EXCEPT ![n] = Null]
          /\ UNCHANGED <<status, erased, earlier>>
      BY <1>8 DEF Crash
    <3>6. log' = log \/ (working[n] # Null /\ log' = Append(log, working[n]))
      BY <1>8 DEF Crash
    <3> HIDE DEF hit
    <3> QED BY <3>3, <3>4, <3>5, <3>6
  <2>2. /\ queue' \in [Nodes -> Seq(Changes)] /\ working' \in [Nodes -> Changes \cup {Null}]
        /\ \A m \in Nodes : /\ queue'[m] = queue[m] \/ queue'[m] = << >>
                            /\ working'[m] = working[m] \/ working'[m] = Null
    BY <2>1 DEF AuditInv, TypeOK
  <2>3. log' \in Seq(Changes) /\ Logged \subseteq Logged'
    <3>1. CASE log' = log
      BY <3>1 DEF AuditInv, TypeOK, Logged
    <3>2. CASE working[n] # Null /\ log' = Append(log, working[n])
      <4>1. working[n] \in Changes /\ log \in Seq(Changes)
        BY <3>2 DEF AuditInv, TypeOK
      <4> QED BY <3>2, <4>1, Appended DEF Logged
    <3> QED BY <3>1, <3>2, <2>1
  <2>4. TypeOK' /\ Acknowledged'
    <3>1. TypeOK'
      BY <2>1, <2>2, <2>3 DEF AuditInv, TypeOK
    <3>2. Acknowledged'
      BY <2>1 DEF AuditInv, TypeOK, Acknowledged
    <3> QED BY <3>1, <3>2
  <2>5. CASE log' = log
    BY <2>1, <2>2, <2>4, <2>5, DroppedInv
  <2>6. CASE working[n] # Null /\ log' = Append(log, working[n])
    BY <2>1, <2>2, <2>4, <2>6, InsertedInv
  <2> QED BY <2>1, <2>5, <2>6
<1>9. CASE UNCHANGED vars
  <2>1. UNCHANGED <<pc, status, saved, queue, working, log, erased, earlier>>
    BY <1>9 DEF vars, requestVars, consumerVars
  <2>2. TypeOK' /\ Acknowledged'
    BY <2>1 DEF AuditInv, TypeOK, Acknowledged, Logged
  <2> QED BY <2>1, <2>2, DroppedInv
<1> QED
  BY <1>1, <1>2, <1>3, <1>4, <1>5, <1>6, <1>7, <1>8, <1>9 DEF Next, Request, Consumer

-----------------------------------------------------------------------------
(* The theorems.                                                            *)

\* AuditTrail's inductive invariant.
THEOREM Invariance == Spec => []AuditInv
<1> QED BY InitInv, NextInv, PTL DEF Spec

\* The places of the requests, what the consumers hold and the rows.
THEOREM TypeCorrect == Spec => []TypeOK
<1>1. AuditInv => TypeOK
  BY DEF AuditInv
<1> QED BY <1>1, Invariance, PTL

\* A row stands for a statement that was committed (FeatureFlagsService queues after
\* the save).
THEOREM LogIsRealHolds == Spec => []LogIsReal
<1>1. AuditInv => LogIsReal
  BY DEF AuditInv
<1> QED BY <1>1, Invariance, PTL

\* No change has two rows (AuditLogBackgroundService does not try again).
THEOREM AtMostOnceHolds == Spec => []AtMostOnce
<1>1. AuditInv => AtMostOnce
  BY DEF AuditInv
<1> QED BY <1>1, Invariance, PTL

\* Rows keep the order of what one node acknowledged (one channel, one consumer).
THEOREM KeepsOrderHolds == Spec => []KeepsOrder
<1>1. AuditInv => KeepsOrder
  BY DEF AuditInv
<1> QED BY <1>1, Invariance, PTL

-----------------------------------------------------------------------------
(* What is lost.                                                            *)

\* A request does not lose a record: it answers an error, or it has put the record
\* into the channel.
LEMMA RequestsLoseNothing ==
  ASSUME TypeOK, NEW c \in Changes, Arrive(c) \/ Request(c) \/ Erase(c)
  PROVE  Unrecorded' \subseteq Unrecorded
<1> USE AuditAssumption
<1>1. CASE Arrive(c) \/ Save(c) \/ SaveFails(c) \/ Erase(c)
  <2>1. /\ UNCHANGED <<queue, working, log>>
        /\ status' = status \/ status' = [status EXCEPT ![c] = "error"]
    BY <1>1 DEF Arrive, Save, SaveFails, Erase, requestVars, consumerVars
  <2>2. \A d \in Changes : status'[d] = "ok" => status[d] = "ok"
    BY <2>1 DEF TypeOK
  <2>3. Logged' = Logged /\ \A n \in Nodes : Queued(n)' = Queued(n)
    BY <2>1 DEF Logged, Queued
  <2> QED BY <2>1, <2>2, <2>3 DEF Unrecorded
<1>2. CASE Queue(c)
  <2>1. /\ UNCHANGED <<working, log>>
        /\ \E s \in {"ok", "error"} : status' = [status EXCEPT ![c] = s]
        /\ queue' = IF c \in Named THEN [queue EXCEPT ![At[c]] = Append(@, c)] ELSE queue
    BY <1>2 DEF Queue
  <2>2. \A d \in Changes : d # c => status'[d] = status[d]
    BY <2>1 DEF TypeOK
  <2>3. Logged' = Logged
    BY <2>1 DEF Logged
  <2>4. CASE c \notin Named
    <3>1. \A n \in Nodes : Queued(n)' = Queued(n)
      BY <2>1, <2>4 DEF Queued
    <3> QED BY <2>1, <2>2, <2>3, <2>4, <3>1 DEF Unrecorded
  <2>5. CASE c \in Named
    <3> DEFINE m == At[c]
    <3>1. /\ m \in Nodes /\ queue[m] \in Seq(Changes) /\ queue'[m] = Append(queue[m], c)
          /\ \A n \in Nodes \ {m} : queue'[n] = queue[n]
      BY <2>1, <2>5 DEF TypeOK
    <3>2. Queued(m)' = Queued(m) \cup {c}
      <4>1. Queued(m)' = {Append(queue[m], c)[i] : i \in DOMAIN Append(queue[m], c)}
        BY <3>1 DEF Queued
      <4>2. {Append(queue[m], c)[i] : i \in DOMAIN Append(queue[m], c)}
              = {queue[m][i] : i \in DOMAIN queue[m]} \cup {c}
        BY <3>1, Appended
      <4> QED BY <4>1, <4>2 DEF Queued
    <3>3. \A n \in Nodes \ {m} : Queued(n)' = Queued(n)
      BY <3>1 DEF Queued
    <3>4. c \notin Unrecorded'
      BY <3>2 DEF Unrecorded
    <3> HIDE DEF m
    <3> QED BY <2>1, <2>2, <2>3, <3>2, <3>3, <3>4 DEF Unrecorded
  <2> QED BY <2>4, <2>5
<1> QED BY <1>1, <1>2 DEF Request

\* The record that is taken from the channel is in the consumer's hands.
LEMMA TakeLosesNothing ==
  ASSUME TypeOK, NEW n \in Nodes, Take(n)
  PROVE  Unrecorded' \subseteq Unrecorded
<1> USE AuditAssumption
<1> DEFINE s == queue[n]
<1>1. /\ working[n] = Null /\ s # << >> /\ s \in Seq(Changes)
      /\ working' = [working EXCEPT ![n] = Head(s)] /\ queue' = [queue EXCEPT ![n] = Tail(s)]
      /\ UNCHANGED <<status, log>>
  BY DEF Take, TypeOK, requestVars
<1>2. /\ working'[n] = Head(s) /\ queue'[n] = Tail(s)
      /\ \A m \in Nodes \ {n} : working'[m] = working[m] /\ queue'[m] = queue[m]
  BY <1>1 DEF TypeOK
<1>3. \A i \in DOMAIN s : s[i] = Head(s) \/ (i - 1 \in DOMAIN Tail(s) /\ Tail(s)[i - 1] = s[i])
  BY <1>1
<1> HIDE DEF s
<1>4. Queued(n) \subseteq Queued(n)' \cup {working'[n]}
  BY <1>2, <1>3 DEF Queued, s
<1>5. \A m \in Nodes \ {n} : Queued(m)' = Queued(m)
  BY <1>2 DEF Queued
<1>6. Logged' = Logged
  BY <1>1 DEF Logged
<1>7. ASSUME NEW d \in Unrecorded' PROVE d \in Unrecorded
  <2>1. d \in Named /\ status[d] = "ok" /\ d \notin Logged /\ d \in Changes /\ d # Null
        /\ d \notin Queued(At[d])' /\ working'[At[d]] # d /\ At[d] \in Nodes
    BY <1>1, <1>6 DEF Unrecorded
  <2>2. d \notin Queued(At[d]) /\ working[At[d]] # d
    <3>1. CASE At[d] = n
      BY <1>1, <1>4, <2>1, <3>1
    <3>2. CASE At[d] # n
      BY <1>2, <1>5, <2>1, <3>2
    <3> QED BY <3>1, <3>2
  <2> QED BY <2>1, <2>2 DEF Unrecorded
<1> QED BY <1>7

\* The record that leaves the consumer's hands is a row.
LEMMA InsertLosesNothing ==
  ASSUME TypeOK, NEW n \in Nodes, Insert(n)
  PROVE  Unrecorded' \subseteq Unrecorded
<1> USE AuditAssumption
<1>1. /\ working[n] # Null /\ working' = [working EXCEPT ![n] = Null]
      /\ log' = Append(log, working[n]) /\ log \in Seq(Changes) /\ working[n] \in Changes
      /\ UNCHANGED <<status, queue>>
  BY DEF Insert, TypeOK, requestVars
<1>2. Logged' = Logged \cup {working[n]}
  BY <1>1, Appended DEF Logged
<1>3. \A m \in Nodes \ {n} : working'[m] = working[m]
  BY <1>1 DEF TypeOK
<1>4. \A m \in Nodes : Queued(m)' = Queued(m)
  BY <1>1 DEF Queued
<1> QED BY <1>1, <1>2, <1>3, <1>4 DEF Unrecorded

\* Nothing but an insertion that fails, or a node that stops, loses the record of an
\* acknowledged change (an unbounded channel, and a consumer that awaits each row).
THEOREM OnlyFailuresLoseHolds == Spec => OnlyFailuresLose
<1>1. AuditInv /\ [Next]_vars =>
        [Unrecorded' \subseteq Unrecorded \/ \E n \in Nodes : InsertFails(n) \/ Crash(n)]_vars
  <2> SUFFICES ASSUME AuditInv, Next, ~ \E n \in Nodes : InsertFails(n) \/ Crash(n)
               PROVE  Unrecorded' \subseteq Unrecorded
    OBVIOUS
  <2>1. TypeOK
    BY DEF AuditInv
  <2>2. CASE \E c \in Changes : Arrive(c) \/ Request(c) \/ Erase(c)
    BY <2>1, <2>2, RequestsLoseNothing
  <2>3. CASE \E n \in Nodes : Take(n) \/ Insert(n)
    BY <2>1, <2>3, TakeLosesNothing, InsertLosesNothing
  <2> QED BY <2>2, <2>3 DEF Next, Consumer
<1> QED BY <1>1, Invariance, PTL DEF Spec, OnlyFailuresLose

-----------------------------------------------------------------------------
(* The refinement.                                                          *)

\* The record a consumer holds may be the next row.
LEMMA HeldMayFollow ==
  ASSUME AuditInv, NEW n \in Nodes, working[n] # Null
  PROVE  working[n] \in Changes /\ Ledger!MayFollow(working[n])
<1>1. working[n] \in Changes /\ working[n] \in Waiting(n)
  BY DEF AuditInv, TypeOK, Waiting
<1>2. /\ working[n] \in saved \cap Named /\ working[n] \notin Logged
      /\ \A x \in Logged : working[n] \notin earlier[x]
  BY <1>1 DEF AuditInv, Made, Unlogged
<1>3. Ledger!Recorded = Logged
  BY DEF Ledger!Recorded, Logged
<1> QED BY <1>1, <1>2, <1>3 DEF Ledger!MayFollow

\* Statements are committed, and a consumer may insert what it holds.
LEMMA WritesImplement ==
  ASSUME AuditInv, saved \subseteq saved', saved' \subseteq Changes,
         UNCHANGED <<earlier, erased>>,
         log' = log \/ \E n \in Nodes : working[n] # Null /\ log' = Append(log, working[n])
  PROVE  Ledger!Write
<1>1. \E new \in SUBSET Changes : saved' = saved \cup new
  <2> WITNESS saved' \in SUBSET Changes
  <2> QED OBVIOUS
<1>2. UNCHANGED log \/ \E c \in Changes : Ledger!MayFollow(c) /\ log' = Append(log, c)
  BY HeldMayFollow
<1> QED BY <1>1, <1>2 DEF Ledger!Write

\* A change that arrives has not been committed, and those it comes after have been.
LEMMA ArriveImplements ==
  ASSUME AuditInv, NEW c \in Changes, Arrive(c)
  PROVE  Ledger!Send(c)
<1> DEFINE known == {d \in Changes : At[d] = At[c] /\ status[d] = "ok"}
<1>1. /\ pc[c] = "idle" /\ earlier' = [earlier EXCEPT ![c] = known]
      /\ UNCHANGED <<saved, log, erased>>
  BY DEF Arrive
<1>2. c \notin saved /\ known \subseteq saved
  BY <1>1 DEF AuditInv, Acknowledged
<1>3. \E k \in SUBSET saved : earlier' = [earlier EXCEPT ![c] = k]
  <2> HIDE DEF known
  <2> QED BY <1>1, <1>2
<1> QED BY <1>1, <1>2, <1>3 DEF Ledger!Send

\* The audit trail is an AuditLedger: whatever fails, rows are added at the end only, once
\* they may be, and deleted once.
THEOREM Implementation == Spec => ImplementsLedger
<1>1. Init => Ledger!Init
  BY DEF Init, Ledger!Init
<1>2. AuditInv /\ AuditInv' /\ [Next]_vars => [Ledger!Next]_(Ledger!ledgerVars)
  <2> SUFFICES ASSUME AuditInv, AuditInv', [Next]_vars
               PROVE  Ledger!Next \/ UNCHANGED <<saved, earlier, log, erased>>
    BY DEF Ledger!ledgerVars
  <2>0. saved' \subseteq Changes
    BY DEF AuditInv, TypeOK
  <2>1. CASE \E c \in Changes : Arrive(c)
    BY <2>1, ArriveImplements DEF Ledger!Next
  <2>2. CASE \E c \in Changes : Request(c)
    <3>1. saved \subseteq saved' /\ UNCHANGED <<earlier, erased, log>>
      BY <2>2 DEF Request, Save, SaveFails, Queue
    <3> QED BY <2>0, <3>1, WritesImplement DEF Ledger!Next
  <2>3. CASE \E n \in Nodes : Consumer(n)
    <3>1. /\ UNCHANGED <<saved, earlier, erased>>
          /\ log' = log \/ \E n \in Nodes : working[n] # Null /\ log' = Append(log, working[n])
      BY <2>3 DEF Consumer, Take, Insert, InsertFails, requestVars
    <3> QED BY <2>0, <3>1, WritesImplement DEF Ledger!Next
  <2>4. CASE \E c \in Changes : Erase(c)
    <3>1. PICK c \in Changes : Erase(c)
      BY <2>4
    <3>2. Ledger!Recorded = Logged
      BY DEF Ledger!Recorded, Logged
    <3>3. Ledger!Strike(c)
      BY <3>1, <3>2 DEF Erase, Ledger!Strike, requestVars
    <3> QED BY <3>3 DEF Ledger!Next
  <2>5. CASE \E n \in Nodes : Crash(n)
    <3>1. saved \subseteq saved'
      BY <2>5 DEF Crash
    <3>2. /\ UNCHANGED <<earlier, erased>>
          /\ log' = log \/ \E n \in Nodes : working[n] # Null /\ log' = Append(log, working[n])
      BY <2>5 DEF Crash
    <3> QED BY <2>0, <3>1, <3>2, WritesImplement DEF Ledger!Next
  <2>6. CASE UNCHANGED vars
    BY <2>6 DEF vars, requestVars
  <2> QED BY <2>1, <2>2, <2>3, <2>4, <2>5, <2>6 DEF Next
<1> QED BY <1>1, <1>2, Invariance, PTL DEF Spec, ImplementsLedger, Ledger!Spec
=============================================================================
