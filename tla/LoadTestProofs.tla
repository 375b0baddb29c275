--------------------------- MODULE LoadTestProofs ---------------------------
(***************************************************************************)
(* For any testers, environments and virtual users: what a test of one     *)
(* project asks for is stored or was reported, no generator is stuck, and  *)
(* no two virtual users draw the same side by side.                        *)
(***************************************************************************)
EXTENDS LoadTest, XorShiftProofs

Types ==
  /\ projects \in Seq(Nat) /\ keys \in Seq(DOMAIN projects)
  /\ flags \subseteq [project : Nat, key : Nat \X Nat]
  /\ env \in Envs /\ pc \in [Testers -> Places]
  /\ at \in [Testers -> Nat \ {0}] /\ item \in [Testers -> Nat \ {0}]
  /\ project \in [Testers -> Nat]
  /\ apiKeys \in [Testers -> Seq(Nat)]
  /\ flagKeys \in [Testers -> Seq([key : Nat \X Nat, maker : Nat])]
  /\ listed \in [Testers -> SUBSET (Nat \X Nat)] /\ warned \in [Testers -> SUBSET (Nat \X Nat)]
  /\ rng \in [Testers -> [VUs -> Words \ {{}}]] /\ iterations \in [Testers -> [VUs -> Nat]]
  /\ asked \in [Testers -> SUBSET [flag : Nat \X Nat, with : Nat]]

\* What a place says about the variables: nothing is made before the first project, every
\* loop begins at 1, there is a key for the flags, existingFlags is a variable of getOrCreateFlags only.
Placed(t) ==
  /\ pc[t] = "health" => apiKeys[t] = << >> /\ flagKeys[t] = << >>
  /\ pc[t] \in {"listProjects", "createProject", "listFlags"} => item[t] = 1
  /\ pc[t] \in {"listFlags", "createFlag"} => apiKeys[t] # << >>
  /\ pc[t] = "evaluating" => apiKeys[t] # << >> /\ flagKeys[t] # << >>
  /\ pc[t] # "createFlag" => listed[t] = {}
  /\ pc[t] # "evaluating" => asked[t] = {}

\* The rows that a given key and given flags stand for.
GivenRows(t) ==
  env[t].given => keys # << >> /\ keys[1] = 1 /\ [project |-> 1, key |-> <<1, 1>>] \in flags

\* Flags are made with the tester's own keys.
Makers(t) == \A i \in DOMAIN flagKeys[t] : \E j \in DOMAIN apiKeys[t] : flagKeys[t][i].maker = apiKeys[t][j]

\* The keys of a test of one project are keys of that project.
OneProject(t) ==
  env[t].projects = 1 =>
    /\ pc[t] \in {"listProjects", "createProject"} => apiKeys[t] = << >>
    /\ pc[t] \in {"createKey", "listFlags", "createFlag"} =>
         \A i \in DOMAIN apiKeys[t] : keys[apiKeys[t][i]] = project[t]
    /\ \A i, j \in DOMAIN apiKeys[t] : keys[apiKeys[t][i]] = keys[apiKeys[t][j]]

\* What was listed is there; what was noted is ready.
ListedIsThere(t) == \A k \in listed[t] : [project |-> keys[FlagMaker(t)], key |-> k] \in flags
NotedIsReady(t)  == \A i \in DOMAIN flagKeys[t] : Ready(t, flagKeys[t][i].key, flagKeys[t][i].maker)

TesterInv(t) ==
  /\ WithinBounds(t) /\ OwnRows(t) /\ Placed(t) /\ GivenRows(t) /\ Makers(t)
  /\ OneProject(t) /\ ListedIsThere(t) /\ NotedIsReady(t)

\* The inductive invariant.
LoadInv == Types /\ \A t \in Testers : TesterInv(t)

-----------------------------------------------------------------------------
(* Sequences.                                                              *)

\* What a sequence that is not empty has at its ends.
LEMMA Ends ==
  ASSUME NEW S, NEW s \in Seq(S), s # << >>
  PROVE  Len(s) \in Nat \ {0} /\ 1 \in DOMAIN s /\ Len(s) \in DOMAIN s
OBVIOUS

\* What one more element leaves.
LEMMA Longer ==
  ASSUME NEW S, NEW s \in Seq(S), NEW e \in S
  PROVE  /\ Append(s, e) \in Seq(S) /\ Append(s, e) # << >>
         /\ Len(s) \in Nat /\ Len(Append(s, e)) = Len(s) + 1
         /\ DOMAIN Append(s, e) = DOMAIN s \cup {Len(s) + 1} /\ Len(s) + 1 \notin DOMAIN s
         /\ \A i \in DOMAIN s : Append(s, e)[i] = s[i]
         /\ Append(s, e)[Len(s) + 1] = e
         /\ \A i \in DOMAIN Append(s, e) : Append(s, e)[i] = e \/ (i \in DOMAIN s /\ Append(s, e)[i] = s[i])
OBVIOUS

-----------------------------------------------------------------------------
(* What a step leaves alone.                                               *)

\* Rows are only added.
Grows ==
  /\ DOMAIN projects \subseteq DOMAIN projects'
  /\ DOMAIN keys \subseteq DOMAIN keys' /\ \A k \in DOMAIN keys : keys'[k] = keys[k]
  /\ flags \subseteq flags'

Same(u) ==
  /\ pc'[u] = pc[u] /\ at'[u] = at[u] /\ item'[u] = item[u] /\ project'[u] = project[u]
  /\ apiKeys'[u] = apiKeys[u] /\ flagKeys'[u] = flagKeys[u] /\ listed'[u] = listed[u]
  /\ warned'[u] = warned[u] /\ asked'[u] = asked[u]

\* A tester that does nothing while rows are added keeps its invariant.
LEMMA OthersKeep ==
  ASSUME Types, NEW u \in Testers, TesterInv(u), Grows, Same(u), env' = env
  PROVE  TesterInv(u)'
<1> USE DEF Grows, Same
<1>1. \A i \in DOMAIN apiKeys[u] : apiKeys[u][i] \in DOMAIN keys
  BY DEF TesterInv, OwnRows
<1>2. apiKeys[u] # << >> => FlagMaker(u)' = FlagMaker(u) /\ FlagMaker(u) \in DOMAIN keys
  <2>1. apiKeys[u] \in Seq(Nat)
    BY DEF Types
  <2> QED BY <1>1, <2>1, Ends DEF FlagMaker, Steady
<1>3. WithinBounds(u)' /\ Placed(u)' /\ Makers(u)'
  BY DEF TesterInv, WithinBounds, Placed, Makers, Steady
<1>4. OwnRows(u)'
  <2>1. Evaluated(u)' = Evaluated(u)
    BY DEF Evaluated
  <2>2. (pc[u] \in {"createKey", "listFlags", "createFlag"} => project[u] \in DOMAIN projects)'
    BY DEF TesterInv, OwnRows
  <2>3. (\A i \in DOMAIN apiKeys[u] : apiKeys[u][i] \in DOMAIN keys)'
    BY <1>1
  <2>4. (\A r \in asked[u] : /\ \E f \in Evaluated(u) : r.flag = f.key
                            /\ \E i \in DOMAIN apiKeys[u] : r.with = apiKeys[u][i])'
    BY <2>1 DEF TesterInv, OwnRows
  <2> QED BY <2>2, <2>3, <2>4 DEF OwnRows
<1>5. GivenRows(u)'
  BY DEF TesterInv, GivenRows, Types
<1>6. OneProject(u)'
  BY <1>1 DEF TesterInv, OneProject
<1>7. ListedIsThere(u)'
  <2>1. CASE listed[u] = {}
    BY <2>1 DEF ListedIsThere
  <2>2. CASE listed[u] # {}
    <3>1. apiKeys[u] # << >>
      BY <2>2 DEF TesterInv, Placed
    <3> QED BY <1>2, <3>1 DEF TesterInv, ListedIsThere
  <2> QED BY <2>1, <2>2
<1>8. NotedIsReady(u)'
  <2>1. \A i \in DOMAIN flagKeys[u] : flagKeys[u][i].maker \in DOMAIN keys
    BY <1>1 DEF TesterInv, Makers
  <2> QED BY <2>1 DEF TesterInv, NotedIsReady, Ready
<1> QED BY <1>3, <1>4, <1>5, <1>6, <1>7, <1>8 DEF TesterInv

-----------------------------------------------------------------------------
(* Each action, by the tester t.                                           *)

Keeps(t) ==
  /\ Types' /\ Grows /\ TesterInv(t)' /\ env' = env
  /\ \A u \in Testers \ {t} : Same(u)

LEMMA Environment ==
  ASSUME Types, NEW t \in Testers
  PROVE  env[t].projects \in Nat /\ env[t].apiKeys \in Nat \ {0} /\ env[t].flags \in Nat /\ env[t].given \in BOOLEAN
BY LoadAssumption DEF Types

\* The head of the loop over the projects.
LEMMA AtProject ==
  ASSUME Types, NEW t \in Testers, NEW i \in Nat \ {0}, ToProject(t, i), env' = env
  PROVE  /\ pc' \in [Testers -> Places] /\ at' \in [Testers -> Nat \ {0}] /\ item' \in [Testers -> Nat \ {0}]
         /\ project' \in [Testers -> Nat] /\ listed' \in [Testers -> SUBSET (Nat \X Nat)]
         /\ pc'[t] \in {"listProjects", "probe"} /\ (pc'[t] = "listProjects" => i <= env[t].projects)
         /\ listed'[t] = {} /\ item'[t] = 1 /\ WithinBounds(t)'
         /\ \A u \in Testers \ {t} :
              /\ pc'[u] = pc[u] /\ at'[u] = at[u] /\ item'[u] = item[u]
              /\ project'[u] = project[u] /\ listed'[u] = listed[u]
<1> DEFINE place_ == IF i <= env[t].projects THEN "listProjects" ELSE "probe"
<1>1. /\ pc' = [pc EXCEPT ![t] = place_] /\ at' = [at EXCEPT ![t] = i] /\ item' = [item EXCEPT ![t] = 1]
      /\ project' = [project EXCEPT ![t] = 0] /\ listed' = [listed EXCEPT ![t] = {}]
  BY DEF ToProject, EndProject, GoTo
<1>2. /\ place_ \in {"listProjects", "probe"} /\ place_ \in Places
      /\ (place_ = "listProjects" => i <= env[t].projects)
  BY DEF Places
<1> HIDE DEF place_
<1>3. /\ pc' \in [Testers -> Places] /\ pc'[t] = place_
      /\ \A u \in Testers \ {t} : pc'[u] = pc[u]
  BY <1>1, <1>2 DEF Types
<1>4. /\ at' \in [Testers -> Nat \ {0}] /\ item' \in [Testers -> Nat \ {0}]
      /\ at'[t] = i /\ item'[t] = 1
      /\ \A u \in Testers \ {t} : at'[u] = at[u] /\ item'[u] = item[u]
  BY <1>1 DEF Types
<1>5. /\ project' \in [Testers -> Nat] /\ listed' \in [Testers -> SUBSET (Nat \X Nat)] /\ listed'[t] = {}
      /\ \A u \in Testers \ {t} : project'[u] = project[u] /\ listed'[u] = listed[u]
  BY <1>1 DEF Types
<1>6. WithinBounds(t)'
  BY <1>2, <1>3, <1>4 DEF WithinBounds
<1> QED BY <1>2, <1>3, <1>4, <1>5, <1>6

LEMMA HealthKeeps == ASSUME Types, NEW t \in Testers, TesterInv(t), Health(t) PROVE Keeps(t)
<1>1. env' = env /\ Grows
  BY DEF Health, server, Grows
<1>2. CASE env[t].given
  <2> DEFINE given == [key |-> <<1, 1>>, maker |-> 1]
  <2>a. <<1>> \in Seq(Nat) /\ given \in [key : Nat \X Nat, maker : Nat]
    OBVIOUS
  <2>b. <<given>> \in Seq([key : Nat \X Nat, maker : Nat])
    BY <2>a
  <2>c. /\ apiKeys' = [apiKeys EXCEPT ![t] = <<1>>] /\ flagKeys' = [flagKeys EXCEPT ![t] = <<given>>]
        /\ pc' = [pc EXCEPT ![t] = "probe"]
        /\ UNCHANGED <<projects, keys, flags, rng, iterations, asked, env, warned, at, item, project, listed>>
    BY <1>2 DEF Health, server, load, GoTo
  <2>d. apiKeys' \in [Testers -> Seq(Nat)] /\ pc' \in [Testers -> Places]
    BY <2>a, <2>c DEF Types, Places
  <2>e. flagKeys' \in [Testers -> Seq([key : Nat \X Nat, maker : Nat])]
    BY <2>b, <2>c DEF Types
  <2>1. Types' /\ \A u \in Testers \ {t} : Same(u)
    BY <2>c, <2>d, <2>e DEF Types, Same
  <2>2. /\ apiKeys'[t] = <<1>> /\ flagKeys'[t] = <<[key |-> <<1, 1>>, maker |-> 1]>>
        /\ pc'[t] = "probe" /\ listed'[t] = {} /\ asked'[t] = {}
    BY <1>2 DEF Health, Types, TesterInv, Placed, GoTo, load
  <2>3. WithinBounds(t)' /\ Placed(t)' /\ GivenRows(t)' /\ Makers(t)' /\ OneProject(t)' /\ ListedIsThere(t)'
    BY <1>1, <2>2 DEF WithinBounds, Placed, TesterInv, GivenRows, Health, server, Makers, OneProject, ListedIsThere
  <2>4. OwnRows(t)' /\ NotedIsReady(t)'
    <3>1. keys # << >> /\ keys[1] = 1 /\ [project |-> 1, key |-> <<1, 1>>] \in flags /\ 1 \in DOMAIN keys
      BY <1>2, Ends DEF TesterInv, GivenRows, Types
    <3>2. OwnRows(t)'
      BY <2>2, <2>c, <3>1 DEF OwnRows
    <3>3. NotedIsReady(t)'
      BY <2>2, <2>c, <3>1 DEF NotedIsReady, Ready
    <3> QED BY <3>2, <3>3
  <2> QED BY <1>1, <2>1, <2>3, <2>4 DEF Keeps, TesterInv
<1>3. CASE ~env[t].given
  <2>1. ToProject(t, 1) /\ apiKeys[t] = << >> /\ flagKeys[t] = << >> /\ UNCHANGED <<server, load, env, warned, apiKeys, flagKeys>>
    BY <1>3 DEF Health, TesterInv, Placed
  <2>a. 1 \in Nat \ {0}
    OBVIOUS
  <2>b. /\ pc' \in [Testers -> Places] /\ at' \in [Testers -> Nat \ {0}] /\ item' \in [Testers -> Nat \ {0}]
        /\ project' \in [Testers -> Nat] /\ listed' \in [Testers -> SUBSET (Nat \X Nat)]
        /\ WithinBounds(t)'
        /\ \A u \in Testers \ {t} :
              /\ pc'[u] = pc[u] /\ at'[u] = at[u] /\ item'[u] = item[u]
              /\ project'[u] = project[u] /\ listed'[u] = listed[u]
    BY <1>1, <2>1, <2>a, AtProject
  <2>2. Types' /\ (\A u \in Testers \ {t} : Same(u)) /\ WithinBounds(t)'
    BY <2>1, <2>b DEF Types, Same, server, load
  <2>3. asked'[t] = {} /\ listed'[t] = {} /\ item'[t] = 1 /\ pc'[t] \in {"listProjects", "probe"}
    BY <1>1, <2>1, <2>a, AtProject DEF Health, TesterInv, Placed, load
  <2>4. OwnRows(t)' /\ Placed(t)' /\ GivenRows(t)' /\ Makers(t)' /\ OneProject(t)' /\ ListedIsThere(t)' /\ NotedIsReady(t)'
    BY <1>3, <2>1, <2>3 DEF OwnRows, Placed, GivenRows, Makers, OneProject, ListedIsThere, NotedIsReady
  <2> QED BY <1>1, <2>2, <2>4 DEF Keeps, TesterInv
<1> QED BY <1>2, <1>3

LEMMA ThrowsKeeps == ASSUME Types, NEW t \in Testers, TesterInv(t), Throws(t) PROVE Keeps(t)
<1>1. env' = env /\ Grows
  BY DEF Throws, server, Grows
<1>2. Types' /\ \A u \in Testers \ {t} : Same(u)
  BY DEF Throws, Types, Same, server, load, GoTo, EndProject, Places
<1>3. /\ apiKeys'[t] = << >> /\ flagKeys'[t] = << >> /\ pc'[t] = "thrown" /\ listed'[t] = {}
      /\ asked'[t] = {}
  BY DEF Throws, Types, TesterInv, Placed, GoTo, EndProject, load
<1>4. OwnRows(t)' /\ Placed(t)' /\ Makers(t)' /\ OneProject(t)' /\ ListedIsThere(t)' /\ NotedIsReady(t)' /\ WithinBounds(t)'
  BY <1>3 DEF OwnRows, Placed, Makers, OneProject, ListedIsThere, NotedIsReady, WithinBounds
<1>5. GivenRows(t)'
  BY DEF Throws, server, TesterInv, GivenRows
<1> QED BY <1>1, <1>2, <1>4, <1>5 DEF Keeps, TesterInv

\* The project is chosen: nothing else is.
LEMMA ProjectKeeps ==
  ASSUME Types, NEW t \in Testers, TesterInv(t), pc[t] \in {"listProjects", "createProject"},
         NEW p \in DOMAIN projects', UseProject(t, p),
         UNCHANGED <<keys, flags, load, env, at, item, apiKeys, flagKeys, listed, warned>>,
         projects' = projects \/ \E n \in Nat : projects' = Append(projects, n)
  PROVE  Keeps(t)
<1>1. projects' \in Seq(Nat) /\ DOMAIN projects \subseteq DOMAIN projects' /\ DOMAIN projects' \subseteq Nat
  <2>1. projects \in Seq(Nat)
    BY DEF Types
  <2>2. CASE projects' = projects
    BY <2>1, <2>2
  <2>3. ASSUME NEW n \in Nat, projects' = Append(projects, n)
        PROVE  projects' \in Seq(Nat) /\ DOMAIN projects \subseteq DOMAIN projects' /\ DOMAIN projects' \subseteq Nat
    BY <2>1, <2>3
  <2> QED BY <2>2, <2>3
<1>2. keys' \in Seq(DOMAIN projects')
  BY <1>1 DEF Types
<1>3. pc'[t] = "createKey" /\ project'[t] = p /\ p \in Nat
  BY <1>1 DEF UseProject, GoTo, Types
<1>4. Types' /\ Grows /\ \A u \in Testers \ {t} : Same(u)
  BY <1>1, <1>2, <1>3 DEF Types, Grows, Same, load, UseProject, GoTo, Places
<1>5. WithinBounds(t)'
  <2>1. item'[t] = 1
    BY DEF TesterInv, Placed
  <2> QED BY <1>3, <1>4, <2>1, Environment DEF WithinBounds, Steady, Keeps
<1>6. OwnRows(t)'
  BY <1>3 DEF OwnRows, Evaluated, TesterInv, load
<1>7. Placed(t)' /\ GivenRows(t)' /\ Makers(t)' /\ ListedIsThere(t)' /\ NotedIsReady(t)'
  BY <1>3 DEF Placed, GivenRows, Makers, ListedIsThere, NotedIsReady, Ready, TesterInv, load, FlagMaker, Steady
<1>8. OneProject(t)'
  BY <1>3 DEF OneProject, TesterInv
<1> QED BY <1>4, <1>5, <1>6, <1>7, <1>8 DEF Keeps, TesterInv

LEMMA ListProjectsKeeps == ASSUME Types, NEW t \in Testers, TesterInv(t), ListProjects(t) PROVE Keeps(t)
<1>1. ASSUME NEW p \in DOMAIN projects, UseProject(t, p) PROVE Keeps(t)
  BY <1>1, ProjectKeeps DEF ListProjects, server
<1>2. CASE GoTo(t, "createProject") /\ UNCHANGED project
  <2>1. Types' /\ env' = env /\ Grows /\ \A u \in Testers \ {t} : Same(u)
    BY <1>2 DEF ListProjects, Types, Grows, Same, server, load, GoTo, Places
  <2>2. pc[t] = "listProjects" /\ pc'[t] = "createProject"
    BY <1>2 DEF ListProjects, GoTo, Types
  <2>3. OwnRows(t)'
    BY <2>2 DEF OwnRows, Evaluated, TesterInv, ListProjects, server, load
  <2>4. WithinBounds(t)' /\ Placed(t)' /\ GivenRows(t)' /\ Makers(t)'
    BY <2>2 DEF WithinBounds, Placed, GivenRows, Makers, TesterInv, ListProjects, server, load
  <2>5. OneProject(t)' /\ ListedIsThere(t)' /\ NotedIsReady(t)'
    BY <2>2 DEF OneProject, ListedIsThere, NotedIsReady, Ready, TesterInv, ListProjects, server, load, FlagMaker, Steady
  <2> QED BY <2>1, <2>3, <2>4, <2>5 DEF Keeps, TesterInv
<1> QED BY <1>1, <1>2 DEF ListProjects

LEMMA CreateProjectKeeps == ASSUME Types, NEW t \in Testers, TesterInv(t), CreateProject(t) PROVE Keeps(t)
<1>1. ASSUME NEW p \in DOMAIN projects, UseProject(t, p), UNCHANGED projects PROVE Keeps(t)
  BY <1>1, ProjectKeeps DEF CreateProject
<1>2. ASSUME projects' = Append(projects, ProjectName(t)), UseProject(t, Len(projects) + 1) PROVE Keeps(t)
  <2>1. ProjectName(t) \in Nat /\ projects \in Seq(Nat)
    BY DEF Types, ProjectName
  <2>2. Len(projects) + 1 \in DOMAIN projects'
    BY <1>2, <2>1, Longer
  <2> QED BY <1>2, <2>1, <2>2, ProjectKeeps DEF CreateProject
<1> QED BY <1>1, <1>2 DEF CreateProject

LEMMA CreateKeyKeeps == ASSUME Types, NEW t \in Testers, TesterInv(t), CreateKey(t) PROVE Keeps(t)
<1> DEFINE k == Len(keys) + 1
<1>1. /\ pc[t] = "createKey" /\ project[t] \in DOMAIN projects
      /\ keys \in Seq(DOMAIN projects) /\ keys' = Append(keys, project[t])
  BY DEF CreateKey, TesterInv, OwnRows, Types
<1>2. /\ keys' \in Seq(DOMAIN projects) /\ Len(keys) \in Nat /\ k \in Nat /\ k \in DOMAIN keys' /\ k \notin DOMAIN keys
      /\ DOMAIN keys \subseteq DOMAIN keys' /\ keys'[k] = project[t]
      /\ \A i \in DOMAIN keys : keys'[i] = keys[i]
  BY <1>1, Longer
<1>3. UNCHANGED <<projects, flags, rng, iterations, asked, env, at, project, flagKeys, listed, warned>>
  BY DEF CreateKey, load
<1>4. /\ apiKeys[t] \in Seq(Nat) /\ apiKeys' = [apiKeys EXCEPT ![t] = Append(apiKeys[t], k)]
      /\ apiKeys'[t] = Append(apiKeys[t], k)
  BY DEF CreateKey, NoteKey, Types
<1>5. /\ apiKeys'[t] \in Seq(Nat) /\ apiKeys'[t] # << >>
      /\ Len(apiKeys[t]) + 1 \in DOMAIN apiKeys'[t]
      /\ DOMAIN apiKeys'[t] = DOMAIN apiKeys[t] \cup {Len(apiKeys[t]) + 1}
      /\ \A i \in DOMAIN apiKeys[t] : apiKeys'[t][i] = apiKeys[t][i]
      /\ apiKeys'[t][Len(apiKeys[t]) + 1] = k
  BY <1>2, <1>4, Longer
<1>6. apiKeys' \in [Testers -> Seq(Nat)] /\ \A u \in Testers \ {t} : apiKeys'[u] = apiKeys[u]
  BY <1>4, <1>5 DEF Types
<1>7. /\ \/ pc' = pc /\ item' = [item EXCEPT ![t] = item[t] + 1] /\ ~Steady(t) /\ item[t] < env[t].apiKeys
         \/ pc' = [pc EXCEPT ![t] = "listFlags"] /\ item' = [item EXCEPT ![t] = 1]
      /\ item[t] \in Nat \ {0}
  BY DEF CreateKey, NoteKey, GoTo, Types
<1>8. /\ pc' \in [Testers -> Places] /\ item' \in [Testers -> Nat \ {0}]
      /\ pc'[t] \in {"createKey", "listFlags"} /\ (pc'[t] = "listFlags" => item'[t] = 1)
      /\ \A u \in Testers \ {t} : pc'[u] = pc[u] /\ item'[u] = item[u]
  <2>1. pc \in [Testers -> Places] /\ item \in [Testers -> Nat \ {0}] /\ item[t] + 1 \in Nat \ {0} /\ "listFlags" \in Places
    BY <1>7 DEF Types, Places
  <2>2. CASE pc' = pc /\ item' = [item EXCEPT ![t] = item[t] + 1]
    BY <1>1, <2>1, <2>2
  <2>3. CASE pc' = [pc EXCEPT ![t] = "listFlags"] /\ item' = [item EXCEPT ![t] = 1]
    BY <2>1, <2>3
  <2> QED BY <1>7, <2>2, <2>3
<1>9. Types' /\ env' = env /\ Grows /\ \A u \in Testers \ {t} : Same(u)
  BY <1>2, <1>3, <1>6, <1>8 DEF Types, Grows, Same
<1>10. WithinBounds(t)'
  <2>1. CASE pc' = pc /\ item' = [item EXCEPT ![t] = item[t] + 1] /\ ~Steady(t) /\ item[t] < env[t].apiKeys
    <3>1. item'[t] <= env'[t].apiKeys /\ ~Steady(t)' /\ pc'[t] = "createKey"
      <4>1. item'[t] = item[t] + 1 /\ pc'[t] = "createKey"
        BY <1>1, <2>1 DEF Types
      <4>2. env[t].apiKeys \in Nat
        BY Environment
      <4> QED BY <1>3, <1>7, <2>1, <4>1, <4>2 DEF Steady
    <3> QED BY <3>1 DEF WithinBounds
  <2>2. CASE pc' = [pc EXCEPT ![t] = "listFlags"]
    <3>1. pc'[t] = "listFlags"
      BY <2>2 DEF Types
    <3> QED BY <3>1 DEF WithinBounds
  <2> QED BY <1>7, <2>1, <2>2
<1>11. (\A i \in DOMAIN apiKeys[t] : apiKeys[t][i] \in DOMAIN keys) /\ asked[t] = {} /\ listed[t] = {}
  BY <1>1 DEF TesterInv, OwnRows, Placed
<1>12. OwnRows(t)'
  BY <1>1, <1>2, <1>3, <1>5, <1>11 DEF OwnRows
<1>13. Placed(t)' /\ Makers(t)'
  BY <1>3, <1>5, <1>8, <1>11 DEF Placed, Makers, TesterInv
<1>14. GivenRows(t)'
  BY <1>1, <1>2, <1>3, Longer, Ends DEF GivenRows, TesterInv
<1>15. OneProject(t)'
  <2> SUFFICES ASSUME env[t].projects = 1
               PROVE  \A i \in DOMAIN apiKeys'[t] : keys'[apiKeys'[t][i]] = project'[t]
    BY <1>3, <1>8 DEF OneProject
  <2>1. \A i \in DOMAIN apiKeys[t] : keys[apiKeys[t][i]] = project[t]
    BY <1>1 DEF OneProject, TesterInv
  <2> QED BY <1>2, <1>3, <1>5, <1>11, <2>1
<1>16. ListedIsThere(t)'
  BY <1>3, <1>11 DEF ListedIsThere
<1>17. NotedIsReady(t)'
  <2>1. \A i \in DOMAIN flagKeys[t] : flagKeys[t][i].maker \in DOMAIN keys
    BY <1>11 DEF TesterInv, Makers
  <2> QED BY <1>2, <1>3, <2>1 DEF NotedIsReady, Ready, TesterInv
<1> QED BY <1>9, <1>10, <1>12, <1>13, <1>14, <1>15, <1>16, <1>17 DEF Keeps, TesterInv

LEMMA ListFlagsKeeps == ASSUME Types, NEW t \in Testers, TesterInv(t), ListFlags(t) PROVE Keeps(t)
<1>1. /\ pc[t] = "listFlags" /\ item[t] = 1 /\ asked[t] = {} /\ listed[t] = {}
      /\ UNCHANGED <<projects, keys, flags, rng, iterations, asked, env, apiKeys, flagKeys, warned>>
  BY DEF ListFlags, server, load, TesterInv, Placed
<1>2. CASE ToProject(t, at[t] + 1)
  <2>1. at[t] + 1 \in Nat \ {0} /\ at[t] + 1 > 1
    BY DEF Types
  <2>2. /\ pc' \in [Testers -> Places] /\ at' \in [Testers -> Nat \ {0}] /\ item' \in [Testers -> Nat \ {0}]
        /\ project' \in [Testers -> Nat] /\ listed' \in [Testers -> SUBSET (Nat \X Nat)]
        /\ pc'[t] \in {"listProjects", "probe"} /\ (pc'[t] = "listProjects" => at[t] + 1 <= env[t].projects)
        /\ listed'[t] = {} /\ item'[t] = 1 /\ WithinBounds(t)'
        /\ \A u \in Testers \ {t} :
              /\ pc'[u] = pc[u] /\ at'[u] = at[u] /\ item'[u] = item[u]
              /\ project'[u] = project[u] /\ listed'[u] = listed[u]
    BY <1>1, <1>2, <2>1, AtProject
  <2>3. Types' /\ Grows /\ \A u \in Testers \ {t} : Same(u)
    BY <1>1, <2>2 DEF Types, Grows, Same
  <2>4. OwnRows(t)' /\ Placed(t)' /\ GivenRows(t)' /\ Makers(t)' /\ ListedIsThere(t)' /\ NotedIsReady(t)'
    BY <1>1, <2>2 DEF OwnRows, Placed, GivenRows, Makers, ListedIsThere, NotedIsReady, Ready, TesterInv
  <2>5. OneProject(t)'
    BY <1>1, <2>1, <2>2, Environment DEF OneProject, TesterInv
  <2> QED BY <1>1, <2>2, <2>3, <2>4, <2>5 DEF Keeps, TesterInv
<1>3. CASE ~(env[t].flags = 0)
  <2>1. /\ pc' = [pc EXCEPT ![t] = "createFlag"] /\ pc'[t] = "createFlag" /\ UNCHANGED <<at, item, project>>
        /\ \/ listed' = [listed EXCEPT ![t] =
                   {f.key : f \in {g \in flags : g.project = keys[FlagMaker(t)] /\ g.key[2] = project[t]}}]
           \/ listed' = listed
    BY <1>3 DEF ListFlags, GoTo, Types
  <2>2. /\ listed' \in [Testers -> SUBSET (Nat \X Nat)] /\ (\A u \in Testers \ {t} : listed'[u] = listed[u])
        /\ \A k \in listed'[t] : [project |-> keys[FlagMaker(t)], key |-> k] \in flags
    <3>1. {f.key : f \in {g \in flags : g.project = keys[FlagMaker(t)] /\ g.key[2] = project[t]}} \in SUBSET (Nat \X Nat)
      BY DEF Types
    <3>2. \A f \in flags : f = [project |-> f.project, key |-> f.key]
      BY DEF Types
    <3>3. listed \in [Testers -> SUBSET (Nat \X Nat)]
      BY DEF Types
    <3>4. CASE listed' = listed
      BY <1>1, <3>3, <3>4
    <3>5. ASSUME NEW L \in SUBSET (Nat \X Nat), listed' = [listed EXCEPT ![t] = L],
                 \A k \in L : [project |-> keys[FlagMaker(t)], key |-> k] \in flags
          PROVE  /\ listed' \in [Testers -> SUBSET (Nat \X Nat)] /\ (\A u \in Testers \ {t} : listed'[u] = listed[u])
                 /\ \A k \in listed'[t] : [project |-> keys[FlagMaker(t)], key |-> k] \in flags
      BY <3>3, <3>5
    <3>6. \A k \in {f.key : f \in {g \in flags : g.project = keys[FlagMaker(t)] /\ g.key[2] = project[t]}} :
            [project |-> keys[FlagMaker(t)], key |-> k] \in flags
      BY <3>2
    <3> QED BY <2>1, <3>1, <3>4, <3>5, <3>6
  <2>3. Types' /\ Grows /\ \A u \in Testers \ {t} : Same(u)
    BY <1>1, <2>1, <2>2 DEF Types, Grows, Same, Places
  <2>4. WithinBounds(t)'
    BY <1>1, <1>3, <2>1, Environment DEF WithinBounds
  <2>5. OwnRows(t)' /\ GivenRows(t)' /\ Makers(t)' /\ NotedIsReady(t)'
    BY <1>1, <2>1 DEF OwnRows, GivenRows, Makers, NotedIsReady, Ready, TesterInv
  <2>6. Placed(t)' /\ OneProject(t)'
    BY <1>1, <2>1 DEF Placed, OneProject, TesterInv
  <2>7. ListedIsThere(t)'
    BY <1>1, <2>2 DEF ListedIsThere, FlagMaker, Steady
  <2> QED BY <1>1, <2>3, <2>4, <2>5, <2>6, <2>7 DEF Keeps, TesterInv
<1> QED BY <1>2, <1>3 DEF ListFlags

LEMMA ProbeKeeps == ASSUME Types, NEW t \in Testers, TesterInv(t), Probe(t) PROVE Keeps(t)
<1>1. /\ pc[t] = "probe" /\ pc' = [pc EXCEPT ![t] = "evaluating"] /\ pc'[t] = "evaluating"
      /\ apiKeys[t] # << >> /\ flagKeys[t] # << >>
      /\ UNCHANGED <<projects, keys, flags, rng, iterations, asked, env, at, item, project, apiKeys, flagKeys, listed, warned>>
  BY DEF Probe, GoTo, server, load, made, Types
<1>2. Types' /\ env' = env /\ Grows /\ \A u \in Testers \ {t} : Same(u)
  BY <1>1 DEF Types, Grows, Same, Places
<1>3. OwnRows(t)' /\ WithinBounds(t)' /\ Placed(t)' /\ GivenRows(t)' /\ Makers(t)'
  BY <1>1 DEF OwnRows, Evaluated, WithinBounds, Placed, GivenRows, Makers, TesterInv
<1>4. OneProject(t)' /\ ListedIsThere(t)' /\ NotedIsReady(t)'
  BY <1>1 DEF OneProject, ListedIsThere, NotedIsReady, Ready, FlagMaker, Steady, TesterInv
<1> QED BY <1>2, <1>3, <1>4 DEF Keeps, TesterInv

LEMMA CreateFlagKeeps == ASSUME Types, NEW t \in Testers, TesterInv(t), CreateFlag(t) PROVE Keeps(t)
<1> DEFINE k == FlagKey(t)
           maker == FlagMaker(t)
           flag == [project |-> keys[maker], key |-> k]
           noted == [key |-> k, maker |-> maker]
<1>1. /\ pc[t] = "createFlag" /\ asked[t] = {}
      /\ UNCHANGED <<projects, keys, rng, iterations, asked, env, apiKeys>>
  BY DEF CreateFlag, load, TesterInv, Placed
<1>2. /\ k \in Nat \X Nat /\ maker \in Nat /\ keys[maker] \in Nat
      /\ \E j \in DOMAIN apiKeys[t] : maker = apiKeys[t][j]
      /\ maker \in DOMAIN keys
  <2>1. apiKeys[t] \in Seq(Nat) /\ apiKeys[t] # << >>
    BY <1>1 DEF Types, TesterInv, Placed
  <2>2. \E j \in DOMAIN apiKeys[t] : maker = apiKeys[t][j]
    BY <2>1, Ends DEF FlagMaker
  <2>3. maker \in Nat /\ maker \in DOMAIN keys
    BY <2>1, <2>2 DEF TesterInv, OwnRows
  <2>4. keys[maker] \in Nat
    <3>1. keys \in Seq(DOMAIN projects) /\ projects \in Seq(Nat)
      BY DEF Types
    <3>2. DOMAIN projects \subseteq Nat
      BY <3>1
    <3> QED BY <2>3, <3>1, <3>2
  <2>5. k \in Nat \X Nat
    BY DEF FlagKey, Types
  <2> QED BY <2>2, <2>3, <2>4, <2>5
<1>3. /\ flags' \in {flags, flags \cup {flag}}
      /\ warned' = warned \/ warned' = [warned EXCEPT ![t] = warned[t] \cup {k}]
      /\ flag \in flags' \/ warned' = [warned EXCEPT ![t] = warned[t] \cup {k}]
  <2>1. CASE k \in listed[t] /\ UNCHANGED <<flags, warned>>
    BY <2>1 DEF TesterInv, ListedIsThere
  <2>2. CASE flags' = flags \cup {flag} /\ UNCHANGED warned
    BY <2>2
  <2>3. CASE FlagFails(t, flag)
    BY <2>3 DEF FlagFails
  <2> QED BY <2>1, <2>2, <2>3 DEF CreateFlag
<1>4. /\ flags' \subseteq [project : Nat, key : Nat \X Nat] /\ flags \subseteq flags'
      /\ warned' \in [Testers -> SUBSET (Nat \X Nat)] /\ warned[t] \subseteq warned'[t]
      /\ (\A u \in Testers \ {t} : warned'[u] = warned[u])
      /\ flag \in flags' \/ k \in warned'[t]
  <2>1. flag \in [project : Nat, key : Nat \X Nat] /\ warned \in [Testers -> SUBSET (Nat \X Nat)]
    BY <1>2 DEF Types
  <2>2. flags' \subseteq [project : Nat, key : Nat \X Nat] /\ flags \subseteq flags'
    BY <1>3, <2>1 DEF Types
  <2>3. CASE warned' = warned
    BY <1>3, <2>1, <2>2, <2>3
  <2>4. CASE warned' = [warned EXCEPT ![t] = warned[t] \cup {k}]
    BY <1>2, <2>1, <2>2, <2>4
  <2> QED BY <1>3, <2>3, <2>4
<1>5. /\ flagKeys' \in [Testers -> Seq([key : Nat \X Nat, maker : Nat])]
      /\ (\A u \in Testers \ {t} : flagKeys'[u] = flagKeys[u])
      /\ flagKeys'[t] # << >>
      /\ \A i \in DOMAIN flagKeys'[t] :
           flagKeys'[t][i] = noted \/ (i \in DOMAIN flagKeys[t] /\ flagKeys'[t][i] = flagKeys[t][i])
  <2>1. flagKeys' = [flagKeys EXCEPT ![t] = Append(flagKeys[t], noted)]
    BY DEF CreateFlag, NoteFlag
  <2>2. noted \in [key : Nat \X Nat, maker : Nat] /\ flagKeys \in [Testers -> Seq([key : Nat \X Nat, maker : Nat])]
    BY <1>2 DEF Types
  <2> DEFINE S == [key : Nat \X Nat, maker : Nat]
  <2>a. flagKeys[t] \in Seq(S) /\ noted \in S
    BY <2>2
  <2> HIDE DEF noted, S
  <2>3. /\ Append(flagKeys[t], noted) \in Seq(S)
        /\ Append(flagKeys[t], noted) # << >>
        /\ \A i \in DOMAIN Append(flagKeys[t], noted) :
             \/ Append(flagKeys[t], noted)[i] = noted
             \/ i \in DOMAIN flagKeys[t] /\ Append(flagKeys[t], noted)[i] = flagKeys[t][i]
    BY <2>a, Longer
  <2> QED BY <2>1, <2>2, <2>3 DEF S
<1>6. /\ pc' \in [Testers -> Places] /\ at' \in [Testers -> Nat \ {0}] /\ item' \in [Testers -> Nat \ {0}]
      /\ project' \in [Testers -> Nat] /\ listed' \in [Testers -> SUBSET (Nat \X Nat)]
      /\ WithinBounds(t)'
      /\ \/ pc'[t] = "createFlag" /\ project'[t] = project[t] /\ listed'[t] = listed[t]
         \/ /\ pc'[t] \in {"listProjects", "probe"} /\ (pc'[t] = "listProjects" => at[t] + 1 <= env[t].projects)
            /\ listed'[t] = {} /\ item'[t] = 1
      /\ \A u \in Testers \ {t} :
           /\ pc'[u] = pc[u] /\ at'[u] = at[u] /\ item'[u] = item[u]
           /\ project'[u] = project[u] /\ listed'[u] = listed[u]
  <2>1. CASE item[t] < env[t].flags /\ item' = [item EXCEPT ![t] = item[t] + 1] /\ UNCHANGED <<at, pc, project, listed>>
    <3>1. item[t] \in Nat \ {0} /\ item[t] + 1 \in Nat \ {0} /\ item' \in [Testers -> Nat \ {0}] /\ item'[t] = item[t] + 1
      BY <2>1 DEF Types
    <3>2. item[t] + 1 <= env[t].flags
      BY <2>1, <3>1, Environment
    <3> QED BY <1>1, <2>1, <3>1, <3>2 DEF Types, WithinBounds
  <2>2. CASE ToProject(t, at[t] + 1)
    <3>1. at[t] + 1 \in Nat \ {0}
      BY DEF Types
    <3> QED BY <1>1, <2>2, <3>1, AtProject
  <2> QED BY <2>1, <2>2 DEF CreateFlag, NoteFlag
<1>7. Types' /\ env' = env /\ Grows /\ \A u \in Testers \ {t} : Same(u)
  BY <1>1, <1>4, <1>5, <1>6 DEF Types, Grows, Same
<1>8. OwnRows(t)'
  BY <1>1, <1>6 DEF OwnRows, TesterInv
<1>9. Placed(t)' /\ GivenRows(t)'
  BY <1>1, <1>4, <1>5, <1>6 DEF Placed, GivenRows, TesterInv
<1>10. Makers(t)'
  <2> SUFFICES ASSUME NEW i \in DOMAIN flagKeys'[t]
               PROVE  \E j \in DOMAIN apiKeys[t] : flagKeys'[t][i].maker = apiKeys[t][j]
    BY <1>1 DEF Makers
  <2>1. CASE flagKeys'[t][i] = noted
    BY <1>2, <2>1
  <2>2. CASE i \in DOMAIN flagKeys[t] /\ flagKeys'[t][i] = flagKeys[t][i]
    BY <2>2 DEF Makers, TesterInv
  <2> QED BY <1>5, <2>1, <2>2
<1>11. OneProject(t)'
  <2> SUFFICES ASSUME env[t].projects = 1 PROVE OneProject(t)'
    BY <1>1 DEF OneProject
  <2>1. OneProject(t) /\ \A i \in DOMAIN apiKeys[t] : keys[apiKeys[t][i]] = project[t]
    BY <1>1 DEF OneProject, TesterInv
  <2>2. ~(at[t] + 1 <= 1)
    BY DEF Types
  <2>3. pc'[t] \in {"createFlag", "probe"} /\ (pc'[t] = "createFlag" => project'[t] = project[t])
    BY <1>6, <2>2
  <2> QED BY <1>1, <2>1, <2>3 DEF OneProject
<1>12. ListedIsThere(t)'
  <2>1. FlagMaker(t)' = FlagMaker(t)
    BY <1>1 DEF FlagMaker, Steady
  <2> QED BY <1>1, <1>4, <1>6, <2>1 DEF ListedIsThere, TesterInv
<1>13. NotedIsReady(t)'
  <2> SUFFICES ASSUME NEW i \in DOMAIN flagKeys'[t]
               PROVE  Ready(t, flagKeys[t][i].key, flagKeys[t][i].maker)'
    BY DEF NotedIsReady
  <2>1. CASE flagKeys'[t][i] = noted
    BY <1>1, <1>4, <2>1 DEF Ready
  <2>2. CASE i \in DOMAIN flagKeys[t] /\ flagKeys'[t][i] = flagKeys[t][i]
    BY <1>1, <1>4, <2>2 DEF Ready, NotedIsReady, TesterInv
  <2> QED BY <1>5, <2>1, <2>2
<1> QED BY <1>6, <1>7, <1>8, <1>9, <1>10, <1>11, <1>12, <1>13 DEF Keeps, TesterInv

-----------------------------------------------------------------------------
(* Iterations: a pick by chance is an element of the list.                 *)

LEMMA DrawIsGood == ASSUME NEW x \in Words \ {{}} PROVE NextU32(x) \in Words \ {{}}
BY NextIsWord, NextIsNotZero

LEMMA HalfIsNat == ASSUME NEW x, NEW k \in Nat PROVE Half(x, k) \in Nat
BY HalfInRange DEF IsShort

LEMMA ModInRange == ASSUME NEW x, NEW n \in Nat \ {0} PROVE Mod(x, n) \in 0..(n - 1)
<1> DEFINE a == Half(x, 16) % n
           b == 65536 % n
           c == Half(x, 0) % n
<1>1. a \in Nat /\ b \in Nat /\ c \in Nat
  BY HalfIsNat
<1>2. Mod(x, n) = (a * b + c) % n
  BY DEF Mod
<1> HIDE DEF a, b, c
<1>3. a * b \in Nat
  BY <1>1
<1>4. a * b + c \in Nat
  BY <1>1, <1>3
<1> DEFINE d == a * b + c
<1>5. d \in Nat /\ Mod(x, n) = d % n
  BY <1>2, <1>4
<1> HIDE DEF d
<1> QED BY <1>5

LEMMA PickIsIn ==
  ASSUME NEW S, NEW s \in Seq(S), s # << >>, NEW hot \in BOOLEAN, NEW draw
  PROVE  \E i \in DOMAIN s : Pick(s, hot, draw) = s[i]
<1> DEFINE n == IF hot THEN HotCount(Len(s)) ELSE Len(s)
<1>1. Len(s) \in Nat \ {0}
  BY Ends
<1>2. n \in Nat \ {0} /\ n <= Len(s)
  BY <1>1 DEF HotCount
<1>3. Pick(s, hot, draw) = s[Mod(draw, n) + 1]
  BY DEF Pick
<1> HIDE DEF n
<1>4. Mod(draw, n) \in 0..(n - 1)
  BY <1>2, ModInRange
<1>5. Mod(draw, n) + 1 \in DOMAIN s
  BY <1>1, <1>2, <1>4
<1> QED BY <1>3, <1>5

\* An iteration of either script asks for nothing, or for an own flag with an own key.
LEMMA IterationKeeps ==
  ASSUME Types, NEW t \in Testers, TesterInv(t), NEW v \in VUs, NEW d \in Words \ {{}},
         NEW R, R = {} \/ \E f \in Evaluated(t), i \in DOMAIN apiKeys[t] :
                              R = {[flag |-> f.key, with |-> apiKeys[t][i]]},
         pc[t] = "evaluating",
         asked' = [asked EXCEPT ![t] = @ \cup R],
         rng' = [rng EXCEPT ![t][v] = d],
         iterations' = [iterations EXCEPT ![t][v] = @ + 1],
         UNCHANGED <<server, place, made, env>>
  PROVE  Keeps(t)
<1>1. UNCHANGED <<projects, keys, flags, pc, at, item, project, apiKeys, flagKeys, listed, warned, env>>
  BY DEF server, place, made
<1>2. R \subseteq [flag : Nat \X Nat, with : Nat]
  <2>1. \A f \in Evaluated(t) : f.key \in Nat \X Nat
    <3> DEFINE S == [key : Nat \X Nat, maker : Nat]
    <3>1. flagKeys[t] \in Seq(S)
      BY DEF Types
    <3>2. \A f \in S : f.key \in Nat \X Nat
      OBVIOUS
    <3> HIDE DEF S
    <3>3. \A i \in DOMAIN flagKeys[t] : flagKeys[t][i] \in S
      BY <3>1
    <3> QED BY <3>2, <3>3 DEF Evaluated
  <2>2. \A i \in DOMAIN apiKeys[t] : apiKeys[t][i] \in Nat
    BY DEF Types
  <2> QED BY <2>1, <2>2
<1>3. /\ asked' \in [Testers -> SUBSET [flag : Nat \X Nat, with : Nat]]
      /\ \A u \in Testers \ {t} : asked'[u] = asked[u]
      /\ asked'[t] = asked[t] \cup R
  BY <1>2 DEF Types
<1>4. rng' \in [Testers -> [VUs -> Words \ {{}}]] /\ iterations' \in [Testers -> [VUs -> Nat]]
  BY DEF Types
<1>5. Types' /\ Grows /\ \A u \in Testers \ {t} : Same(u)
  BY <1>1, <1>3, <1>4 DEF Types, Grows, Same
<1>6. OwnRows(t)'
  <2>1. Evaluated(t)' = Evaluated(t)
    BY <1>1 DEF Evaluated
  <2>2. \A r \in R : /\ \E f \in Evaluated(t) : r.flag = f.key
                    /\ \E i \in DOMAIN apiKeys[t] : r.with = apiKeys[t][i]
    OBVIOUS
  <2> QED BY <1>1, <1>3, <2>1, <2>2 DEF OwnRows, TesterInv
<1>7. WithinBounds(t)' /\ Placed(t)' /\ GivenRows(t)' /\ Makers(t)'
  BY <1>1 DEF WithinBounds, Steady, Placed, GivenRows, Makers, TesterInv
<1>8. OneProject(t)' /\ ListedIsThere(t)' /\ NotedIsReady(t)'
  BY <1>1 DEF OneProject, ListedIsThere, NotedIsReady, Ready, FlagMaker, Steady, TesterInv
<1> QED BY <1>1, <1>5, <1>6, <1>7, <1>8 DEF Keeps, TesterInv

LEMMA Drawn ==
  ASSUME Types, NEW t \in Testers, TesterInv(t), pc[t] = "evaluating", NEW hot \in BOOLEAN, NEW draw
  PROVE  /\ \E f \in Evaluated(t) : Pick(flagKeys[t], hot, draw) = f
         /\ \E i \in DOMAIN apiKeys[t] : Pick(apiKeys[t], hot, draw) = apiKeys[t][i]
         /\ 1 \in DOMAIN apiKeys[t]
<1> DEFINE S == [key : Nat \X Nat, maker : Nat]
<1>1. flagKeys[t] \in Seq(S) /\ flagKeys[t] # << >>
  BY DEF Types, TesterInv, Placed
<1>2. apiKeys[t] \in Seq(Nat) /\ apiKeys[t] # << >>
  BY DEF Types, TesterInv, Placed
<1> HIDE DEF S
<1>3. \E i \in DOMAIN flagKeys[t] : Pick(flagKeys[t], hot, draw) = flagKeys[t][i]
  BY <1>1, PickIsIn
<1>4. \E i \in DOMAIN apiKeys[t] : Pick(apiKeys[t], hot, draw) = apiKeys[t][i]
  BY <1>2, PickIsIn
<1> QED BY <1>2, <1>3, <1>4, Ends DEF Evaluated

LEMMA EvaluateSteadyKeeps ==
  ASSUME Types, NEW t \in Testers, TesterInv(t), NEW v \in VUs, EvaluateSteady(t, v) PROVE Keeps(t)
<1> DEFINE d1 == NextU32(rng[t][v])
           d4 == NextU32(NextU32(NextU32(d1)))
           R  == {[flag |-> Pick(flagKeys[t], IsHot(d1), d4).key, with |-> apiKeys[t][1]]}
<1>1. d4 \in Words \ {{}}
  <2>1. rng[t][v] \in Words \ {{}}
    BY DEF Types
  <2> QED BY <2>1, DrawIsGood
<1>2. /\ pc[t] = "evaluating" /\ asked' = [asked EXCEPT ![t] = @ \cup R] /\ rng' = [rng EXCEPT ![t][v] = d4]
      /\ iterations' = [iterations EXCEPT ![t][v] = @ + 1] /\ UNCHANGED <<server, place, made, env>>
  BY DEF EvaluateSteady
<1>3. IsHot(d1) \in BOOLEAN
  BY DEF IsHot
<1>4. \E f \in Evaluated(t), i \in DOMAIN apiKeys[t] : R = {[flag |-> f.key, with |-> apiKeys[t][i]]}
  <2> HIDE DEF d1, d4
  <2> QED BY <1>2, <1>3, Drawn
<1> HIDE DEF d4, R
<1> QED BY <1>1, <1>2, <1>4, IterationKeeps

LEMMA EvaluateKeyStressKeeps ==
  ASSUME Types, NEW t \in Testers, TesterInv(t), NEW v \in VUs, EvaluateKeyStress(t, v) PROVE Keeps(t)
<1> DEFINE d1 == NextU32(rng[t][v])
           d4 == NextU32(NextU32(NextU32(d1)))
           d5 == NextU32(d4)
           d6 == NextU32(d5)
           R  == {[flag |-> Pick(flagKeys[t], IsHot(d1), d4).key, with |-> Pick(apiKeys[t], IsHot(d5), d6)]}
<1>1. d6 \in Words \ {{}}
  <2>1. rng[t][v] \in Words \ {{}}
    BY DEF Types
  <2> QED BY <2>1, DrawIsGood
<1>2. /\ pc[t] = "evaluating" /\ rng' = [rng EXCEPT ![t][v] = d6]
      /\ iterations' = [iterations EXCEPT ![t][v] = @ + 1] /\ UNCHANGED <<server, place, made, env>>
      /\ UNCHANGED asked \/ asked' = [asked EXCEPT ![t] = @ \cup R]
  BY DEF EvaluateKeyStress
<1>3. IsHot(d1) \in BOOLEAN /\ IsHot(d5) \in BOOLEAN
  BY DEF IsHot
<1>4. \E f \in Evaluated(t), i \in DOMAIN apiKeys[t] : R = {[flag |-> f.key, with |-> apiKeys[t][i]]}
  <2> HIDE DEF d1, d4, d5, d6
  <2> QED BY <1>2, <1>3, Drawn
<1> HIDE DEF d6, R
<1>5. CASE asked' = [asked EXCEPT ![t] = @ \cup R]
  BY <1>1, <1>2, <1>4, <1>5, IterationKeeps
<1>6. CASE UNCHANGED asked
  <2>1. asked' = [asked EXCEPT ![t] = @ \cup {}]
    BY <1>6 DEF Types
  <2> QED BY <1>1, <1>2, <2>1, IterationKeeps
<1> QED BY <1>2, <1>5, <1>6

-----------------------------------------------------------------------------
(* The invariant.                                                          *)

LEMMA VUsAreNumbers == \A v \in VUs : v \in Nat /\ v # 0 /\ v <= MaxVU
<1>1. VUs \subseteq 1..MaxVU
  BY LoadAssumption, Zenon
<1>2. MaxVU \in Nat
  BY SMT DEF MaxVU
<1> QED BY <1>1, <1>2

LEMMA InitInv == Init => LoadInv
<1> SUFFICES ASSUME Init PROVE LoadInv
  OBVIOUS
<1>1. /\ projects \in Seq(Nat) /\ keys \in Seq(DOMAIN projects)
      /\ flags \subseteq [project : Nat, key : Nat \X Nat]
      /\ keys # << >> => keys[1] = 1 /\ [project |-> 1, key |-> <<1, 1>>] \in flags
  <2>1. CASE projects = << >> /\ keys = << >> /\ flags = {}
    BY <2>1
  <2>2. CASE projects = <<0>> /\ keys = <<1>> /\ flags = {[project |-> 1, key |-> <<1, 1>>]}
    BY <2>2
  <2> QED BY <2>1, <2>2 DEF Init
<1>2. rng \in [Testers -> [VUs -> Words \ {{}}]]
  <2>1. \A v \in VUs : Seed(v) \in Words \ {{}}
    BY VUsAreNumbers, SeedIsProduct, SeedIsNotZero
  <2> QED BY <2>1 DEF Init
<1>3. Types
  BY <1>1, <1>2 DEF Init, Types, Places
<1>4. ASSUME NEW t \in Testers PROVE TesterInv(t)
  <2>1. pc[t] = "health" /\ apiKeys[t] = << >> /\ flagKeys[t] = << >> /\ listed[t] = {} /\ asked[t] = {}
    BY DEF Init
  <2>2. WithinBounds(t) /\ OwnRows(t) /\ Placed(t) /\ Makers(t)
    BY <2>1 DEF WithinBounds, OwnRows, Placed, Makers
  <2>3. OneProject(t) /\ ListedIsThere(t) /\ NotedIsReady(t)
    BY <2>1 DEF OneProject, ListedIsThere, NotedIsReady
  <2>4. GivenRows(t)
    BY <1>1 DEF Init, GivenRows
  <2> QED BY <2>2, <2>3, <2>4 DEF TesterInv
<1> QED BY <1>3, <1>4 DEF LoadInv

LEMMA NextInv == LoadInv /\ [Next]_vars => LoadInv'
<1> SUFFICES ASSUME LoadInv, [Next]_vars PROVE LoadInv'
  OBVIOUS
<1>1. ASSUME NEW t \in Testers, Setup(t) \/ \E v \in VUs : EvaluateSteady(t, v) \/ EvaluateKeyStress(t, v)
      PROVE  LoadInv'
  <2>1. Types /\ TesterInv(t)
    BY DEF LoadInv
  <2>2. Keeps(t)
    BY <1>1, <2>1, HealthKeeps, ThrowsKeeps, ListProjectsKeeps, CreateProjectKeeps, CreateKeyKeeps,
       ListFlagsKeeps, CreateFlagKeeps, ProbeKeeps, EvaluateSteadyKeeps, EvaluateKeyStressKeeps DEF Setup
  <2>3. ASSUME NEW u \in Testers \ {t} PROVE TesterInv(u)'
    BY <2>2, <2>3, OthersKeep DEF Keeps, LoadInv
  <2> QED BY <2>2, <2>3 DEF Keeps, LoadInv
<1>2. CASE UNCHANGED vars
  <2>1. UNCHANGED <<projects, keys, flags, rng, iterations, asked, pc, at, item, project, apiKeys, flagKeys, listed, warned, env>>
    BY <1>2 DEF vars, server, load, place, made
  <2>2. Types'
    BY <2>1 DEF LoadInv, Types
  <2>3. Grows /\ \A u \in Testers : Same(u)
    BY <2>1 DEF Grows, Same
  <2>4. ASSUME NEW u \in Testers PROVE TesterInv(u)'
    BY <2>1, <2>3, OthersKeep DEF LoadInv
  <2> QED BY <2>2, <2>4 DEF LoadInv
<1> QED BY <1>1, <1>2 DEF Next

LEMMA LoadInvHolds == Spec => []LoadInv
BY InitInv, NextInv, PTL DEF Spec

\* Types; the loops of setup stay within their bounds, a tester uses the rows it was
\* given, and every pick by chance is one of its own flags and keys.
THEOREM TypeCorrect == Spec => []TypeOK
<1>1. LoadInv => TypeOK
  BY DEF LoadInv, Types, TypeOK, TesterInv
<1> QED BY <1>1, LoadInvHolds, PTL

\* Whatever other testers do and whichever requests fail, a flag to be asked for is
\* stored or was reported.
THEOREM FlagsReadyHolds == Spec => []FlagsReady
<1>1. LoadInv => FlagsReady
  BY DEF LoadInv, TesterInv, NotedIsReady, FlagsReady, Evaluated
<1> QED BY <1>1, LoadInvHolds, PTL

\* In a test of one project, so is every flag asked for, in the project of the key.
THEOREM AsksForStoredFlagsHolds == Spec => []AsksForStoredFlags
<1>1. ASSUME LoadInv, NEW t \in Testers, env[t].projects = 1, NEW r \in asked[t] PROVE Ready(t, r.flag, r.with)
  <2>1. TesterInv(t)
    BY <1>1 DEF LoadInv
  <2>2. PICK i \in DOMAIN flagKeys[t] : r.flag = flagKeys[t][i].key
    BY <1>1, <2>1 DEF TesterInv, OwnRows, Evaluated
  <2>3. PICK j \in DOMAIN apiKeys[t] : flagKeys[t][i].maker = apiKeys[t][j]
    BY <2>1 DEF TesterInv, Makers
  <2>4. PICK l \in DOMAIN apiKeys[t] : r.with = apiKeys[t][l]
    BY <1>1, <2>1 DEF TesterInv, OwnRows
  <2>5. keys[apiKeys[t][j]] = keys[apiKeys[t][l]]
    BY <1>1, <2>1 DEF TesterInv, OneProject
  <2> QED BY <2>1, <2>2, <2>3, <2>4, <2>5 DEF TesterInv, NotedIsReady, Ready
<1>2. LoadInv => AsksForStoredFlags
  BY <1>1 DEF AsksForStoredFlags
<1> QED BY <1>2, LoadInvHolds, PTL

\* No generator is ever at zero, for any virtual users and however often they draw.
THEOREM NeverStuckHolds == Spec => []NeverStuck
<1>1. LoadInv => NeverStuck
  BY DEF LoadInv, Types, NeverStuck
<1> QED BY <1>1, LoadInvHolds, PTL

-----------------------------------------------------------------------------
(* Side by side: the generators of two virtual users are compared at the   *)
(* same iteration, also when one of them has gone further since.  So a     *)
(* lane keeps what a generator was at each of its iterations.              *)

\* What an iteration does with a generator.
Four(x)     == NextU32(NextU32(NextU32(NextU32(x))))
Draws(t, x) == IF Steady(t) THEN Four(x) ELSE NextU32(NextU32(Four(x)))

Lane(t, h) ==
  /\ \A v \in VUs : h[v][iterations[t][v]] = rng[t][v]
  /\ \A v \in VUs, n \in Nat : n < iterations[t][v] => h[v][n + 1] = Draws(t, h[v][n])
  /\ \A v, w \in VUs, n \in Nat :
       v # w /\ n <= iterations[t][v] /\ n <= iterations[t][w] => h[v][n] # h[w][n]

Lanes == \A t \in Testers : \E h \in [VUs -> [Nat -> Words]] : Lane(t, h)

LEMMA FourInjective ==
  ASSUME NEW x \in Words, NEW y \in Words
  PROVE  Four(x) \in Words /\ (Four(x) = Four(y) => x = y)
<1>1. ASSUME NEW a \in Words, NEW b \in Words
      PROVE  /\ NextU32(a) \in Words /\ NextU32(b) \in Words
             /\ NextU32(a) = NextU32(b) => a = b
  BY NextIsWord, NextIsInjective
<1> QED BY <1>1 DEF Four

LEMMA DrawsInjective ==
  ASSUME NEW t, NEW x \in Words, NEW y \in Words
  PROVE  Draws(t, x) \in Words /\ (Draws(t, x) = Draws(t, y) => x = y)
<1>1. ASSUME NEW a \in Words, NEW b \in Words
      PROVE  NextU32(a) \in Words /\ (NextU32(a) = NextU32(b) => a = b)
  BY NextIsWord, NextIsInjective
<1>2. Four(x) \in Words /\ Four(y) \in Words /\ (Four(x) = Four(y) => x = y)
  BY FourInjective
<1> QED BY <1>1, <1>2 DEF Draws

LEMMA Before ==
  ASSUME NEW n \in Nat, NEW N \in Nat, n < N + 1, n # N
  PROVE  n < N /\ n \in Nat \ {N + 1} /\ n + 1 \in Nat \ {N + 1}
OBVIOUS

\* An iteration of the virtual user v adds to its lane.
LEMMA LaneGoesOn ==
  ASSUME Types, NEW t \in Testers, NEW v \in VUs, \E h \in [VUs -> [Nat -> Words]] : Lane(t, h),
         rng' = [rng EXCEPT ![t][v] = Draws(t, rng[t][v])],
         iterations' = [iterations EXCEPT ![t][v] = @ + 1],
         env' = env
  PROVE  \E h \in [VUs -> [Nat -> Words]] : Lane(t, h)'
<1> PICK h \in [VUs -> [Nat -> Words]] : Lane(t, h)
  OBVIOUS
<1> DEFINE N == iterations[t][v]
           d == Draws(t, rng[t][v])
<1>1. /\ N \in Nat /\ rng[t][v] \in Words /\ d \in Words
      /\ \A w \in VUs : iterations[t][w] \in Nat
  BY DrawsInjective DEF Types
<1>2. /\ iterations'[t][v] = N + 1 /\ rng'[t][v] = d
      /\ \A w \in VUs \ {v} : iterations'[t][w] = iterations[t][w] /\ rng'[t][w] = rng[t][w]
  BY DEF Types
<1>3. \A x : Draws(t, x)' = Draws(t, x)
  BY DEF Draws, Steady
<1>4. PICK g \in [VUs -> [Nat -> Words]] :
        /\ g[v][N + 1] = d
        /\ \A n \in Nat \ {N + 1} : g[v][n] = h[v][n]
        /\ \A w \in VUs \ {v} : g[w] = h[w]
  <2> DEFINE k == [h EXCEPT ![v] = [h[v] EXCEPT ![N + 1] = d]]
  <2>1. /\ k \in [VUs -> [Nat -> Words]] /\ k[v][N + 1] = d
        /\ \A n \in Nat \ {N + 1} : k[v][n] = h[v][n]
        /\ \A w \in VUs \ {v} : k[w] = h[w]
    BY <1>1
  <2> HIDE DEF k
  <2> QED BY <2>1
<1>5. h[v][N] = rng[t][v] /\ \A w \in VUs, n \in Nat : h[w][n] \in Words
  BY DEF Lane
<1> HIDE DEF N, d
<1>6. \A w \in VUs : g[w][iterations'[t][w]] = rng'[t][w]
  BY <1>1, <1>2, <1>4 DEF Lane
<1>7. ASSUME NEW w \in VUs, NEW n \in Nat, n < iterations'[t][w]
      PROVE  g[w][n + 1] = Draws(t, g[w][n])
  <2>1. CASE w = v /\ n = N
    BY <1>1, <1>4, <1>5, <2>1 DEF d
  <2>2. CASE w = v /\ n # N
    <3>1. n < N + 1 /\ n # N
      BY <1>2, <1>7, <2>2
    <3>2. n < N /\ n \in Nat \ {N + 1} /\ n + 1 \in Nat \ {N + 1}
      BY <1>1, <3>1, Before
    <3> QED BY <1>4, <2>2, <3>2 DEF Lane, N
  <2>3. CASE w # v
    BY <1>2, <1>4, <1>7, <2>3 DEF Lane
  <2> QED BY <2>1, <2>2, <2>3
<1>8. ASSUME NEW w \in VUs \ {v}, NEW n \in Nat, n <= N + 1, n <= iterations[t][w]
      PROVE  g[v][n] # h[w][n]
  <2>1. CASE n = N + 1
    <3>1. N < iterations[t][w] /\ N <= iterations[t][v] /\ N <= iterations[t][w]
      BY <1>1, <1>8, <2>1 DEF N
    <3>2. h[w][N + 1] = Draws(t, h[w][N]) /\ h[v][N] # h[w][N]
      BY <1>1, <3>1 DEF Lane
    <3> QED BY <1>1, <1>4, <1>5, <2>1, <3>2, DrawsInjective DEF d
  <2>2. CASE n # N + 1
    <3>1. n <= iterations[t][v] /\ g[v][n] = h[v][n]
      BY <1>1, <1>4, <1>8, <2>2 DEF N
    <3> QED BY <1>8, <3>1 DEF Lane
  <2> QED BY <2>1, <2>2
<1>9. ASSUME NEW u \in VUs, NEW w \in VUs, NEW n \in Nat, u # w,
             n <= iterations'[t][u], n <= iterations'[t][w]
      PROVE  g[u][n] # g[w][n]
  <2>1. CASE u = v
    BY <1>2, <1>4, <1>8, <1>9, <2>1
  <2>2. CASE w = v
    BY <1>2, <1>4, <1>8, <1>9, <2>2
  <2>3. CASE u # v /\ w # v
    BY <1>2, <1>4, <1>9, <2>3 DEF Lane
  <2> QED BY <2>1, <2>2, <2>3
<1>10. Lane(t, g)'
  BY <1>3, <1>6, <1>7, <1>9 DEF Lane
<1> QED BY <1>10

LEMMA InitLanes == Init => Lanes
<1> SUFFICES ASSUME Init, NEW t \in Testers PROVE \E h \in [VUs -> [Nat -> Words]] : Lane(t, h)
  BY DEF Lanes
<1> DEFINE h == [v \in VUs |-> [n \in Nat |-> Seed(v)]]
<1>1. /\ \A v \in VUs : iterations[t][v] = 0 /\ rng[t][v] = Seed(v)
      /\ \A v \in VUs : Seed(v) \in Words
  BY VUsAreNumbers, SeedIsProduct DEF Init
<1>2. \A v, w \in VUs : v # w => Seed(v) # Seed(w)
  BY VUsAreNumbers, SeedsDiffer
<1>3. h \in [VUs -> [Nat -> Words]] /\ \A v \in VUs, n \in Nat : h[v][n] = Seed(v)
  BY <1>1
<1> HIDE DEF h
<1>4. Lane(t, h)
  BY <1>1, <1>2, <1>3 DEF Lane
<1> QED BY <1>3, <1>4

\* A step of setup draws nothing, nor does an iteration draw for another tester.
LEMMA NextLanes == LoadInv /\ Lanes /\ [Next]_vars => Lanes'
<1> SUFFICES ASSUME LoadInv, Lanes, [Next]_vars, NEW u \in Testers
             PROVE  \E h \in [VUs -> [Nat -> Words]] : Lane(u, h)'
  BY DEF Lanes
<1>1. Types /\ \E h \in [VUs -> [Nat -> Words]] : Lane(u, h)
  BY DEF LoadInv, Lanes
<1>2. ASSUME rng'[u] = rng[u], iterations'[u] = iterations[u], env' = env
      PROVE  \E h \in [VUs -> [Nat -> Words]] : Lane(u, h)'
  BY <1>1, <1>2 DEF Lane, Draws, Steady
<1>3. ASSUME NEW t \in Testers, NEW v \in VUs,
             rng' = [rng EXCEPT ![t][v] = Draws(t, rng[t][v])],
             iterations' = [iterations EXCEPT ![t][v] = @ + 1], env' = env
      PROVE  \E h \in [VUs -> [Nat -> Words]] : Lane(u, h)'
  <2>1. CASE u = t
    BY <1>1, <1>3, <2>1, LaneGoesOn
  <2>2. CASE u # t
    BY <1>1, <1>2, <1>3, <2>2 DEF Types
  <2> QED BY <2>1, <2>2
<1>4. ASSUME NEW t \in Testers, Setup(t) PROVE UNCHANGED <<rng, iterations, env>>
  BY <1>4 DEF Setup, Health, Throws, ListProjects, CreateProject, CreateKey, ListFlags, CreateFlag, Probe, load
<1>5. ASSUME NEW t \in Testers, NEW v \in VUs, EvaluateSteady(t, v)
      PROVE  /\ rng' = [rng EXCEPT ![t][v] = Draws(t, rng[t][v])]
             /\ iterations' = [iterations EXCEPT ![t][v] = @ + 1] /\ env' = env
  BY <1>5 DEF EvaluateSteady, Draws, Four
<1>6. ASSUME NEW t \in Testers, NEW v \in VUs, EvaluateKeyStress(t, v)
      PROVE  /\ rng' = [rng EXCEPT ![t][v] = Draws(t, rng[t][v])]
             /\ iterations' = [iterations EXCEPT ![t][v] = @ + 1] /\ env' = env
  BY <1>6 DEF EvaluateKeyStress, Draws, Four
<1>7. CASE UNCHANGED vars
  BY <1>2, <1>7 DEF vars, load
<1> QED BY <1>2, <1>3, <1>4, <1>5, <1>6, <1>7 DEF Next

\* Two virtual users begin with two seeds and never have the same draw at the same iteration,
\* whatever their numbers and however long the test.
THEOREM NoLockstepHolds == Spec => []NoLockstep
<1>1. LoadInv /\ Lanes => NoLockstep
  <2> SUFFICES ASSUME LoadInv, Lanes, NEW t \in Testers, NEW v \in VUs, NEW w \in VUs,
                      v # w, iterations[t][v] = iterations[t][w]
               PROVE  rng[t][v] # rng[t][w]
    BY DEF NoLockstep
  <2>1. iterations[t][v] \in Nat
    BY DEF LoadInv, Types
  <2> QED BY <2>1 DEF Lanes, Lane
<1> QED BY <1>1, InitInv, NextInv, InitLanes, NextLanes, PTL DEF Spec
=============================================================================
