------------------------------ MODULE LoadTest ------------------------------
(***************************************************************************)
(* The two k6 scripts, k6.evaluation.steady.js and k6.key-stress-test.js,  *)
(* against the service: testers that provision projects, API keys and      *)
(* flags through the API, at the same time and on what earlier tests left, *)
(* and then evaluate flags from many virtual users.                        *)
(*                                                                         *)
(* A step is one request with what the script does until the next one.     *)
(* Every request may fail.  Requests whose answer makes no difference are  *)
(* left out: the probe of resolveApiBase, which has one candidate, and the *)
(* list of the API keys, which never has their values.                     *)
(***************************************************************************)
EXTENDS XorShift, Sequences

CONSTANTS
  Testers,          \* runs of k6, each in its own process
  Envs,          \* the environments they may have together: for each the script,
                 \* PROJECT_COUNT, API_KEY_COUNT, FLAGS_PER_PROJECT, and whether
                 \* API_KEY and FLAG_KEYS are given
  VUs,           \* the numbers of the virtual users (__VU)
  MaxRows,       \* bound on the rows of Projects and of ApiKeys
  MaxIterations  \* bound on the iterations of a virtual user

ASSUME LoadAssumption ==
  /\ Envs \subseteq [Testers -> [script : {"steady", "keyStress"}, projects : Nat,
                               apiKeys : Nat \ {0}, flags : Nat, given : BOOLEAN]]
  /\ VUs \subseteq 1..MaxVU

VARIABLES
  projects,   \* Projects: the id is the position, the row its name
  keys,       \* ApiKeys: the id is the position, the row its project
  flags,      \* FeatureFlags, by project and key
  env,        \* per tester: its environment
  pc,         \* per tester: the request it is about to send
  at,         \* per tester: projectIndex, from 1
  item,       \* per tester: i, the API key or flag of the project, from 1
  project,    \* per tester: the id of the project it is at, or 0
  apiKeys,    \* per tester: createdApiKeys
  flagKeys,   \* per tester: createdFlagKeys, with the API key each was created with
  listed,     \* per tester: existingFlags
  warned,     \* per tester: the flags it has reported on the console
  rng,        \* per tester and virtual user: its generator
  iterations, \* per tester and virtual user
  asked       \* history, per tester: the evaluations it has asked for

server == <<projects, keys, flags>>
load   == <<rng, iterations, asked>>
place  == <<pc, at, item>>
made   == <<project, apiKeys, flagKeys, listed, warned>>
vars   == <<server, load, place, made, env>>

Steady(t) == env[t].script = "steady"

\* The prefix alone (0) when there is one project, else with a letter.
ProjectName(t) == IF env[t].projects = 1 THEN 0 ELSE at[t]

\* The key a tester creates the flags of a project with.
FlagMaker(t) == IF Steady(t) THEN apiKeys[t][Len(apiKeys[t])] ELSE apiKeys[t][1]

FlagKey(t) == <<item[t], project[t]>>
Evaluated(t) == {flagKeys[t][i] : i \in DOMAIN flagKeys[t]}

\* An empty database, or what a test with one project has left.
Init ==
  /\ \/ projects = << >> /\ keys = << >> /\ flags = {}
     \/ /\ projects = <<0>> /\ keys = <<1>>
        /\ flags = {[project |-> 1, key |-> <<1, 1>>]}
  /\ env \in Envs
  /\ \A t \in Testers : env[t].given => keys # << >>
  /\ pc = [t \in Testers |-> "health"]
  /\ at = [t \in Testers |-> 1] /\ item = [t \in Testers |-> 1]
  /\ project = [t \in Testers |-> 0]
  /\ apiKeys = [t \in Testers |-> << >>] /\ flagKeys = [t \in Testers |-> << >>]
  /\ listed = [t \in Testers |-> {}] /\ warned = [t \in Testers |-> {}]
  /\ rng = [t \in Testers |-> [v \in VUs |-> Seed(v)]]
  /\ iterations = [t \in Testers |-> [v \in VUs |-> 0]]
  /\ asked = [t \in Testers |-> {}]

-----------------------------------------------------------------------------
(* setup: projects and API keys.                                           *)

GoTo(t, place_) == pc' = [pc EXCEPT ![t] = place_]

\* project and existingFlags are forgotten at the end of the loop's body.
EndProject(t) == project' = [project EXCEPT ![t] = 0] /\ listed' = [listed EXCEPT ![t] = {}]

\* The head of the loop over the projects.
ToProject(t, i) ==
  /\ EndProject(t)
  /\ at' = [at EXCEPT ![t] = i] /\ item' = [item EXCEPT ![t] = 1]
  /\ GoTo(t, IF i <= env[t].projects THEN "listProjects" ELSE "probe")

\* The health check and the admin token; a key and flags that are given are used as
\* they are (those of an earlier test).
Health(t) ==
  /\ pc[t] = "health"
  /\ IF env[t].given
       THEN /\ apiKeys' = [apiKeys EXCEPT ![t] = <<1>>]
            /\ flagKeys' = [flagKeys EXCEPT ![t] = <<[key |-> <<1, 1>>, maker |-> 1]>>]
            /\ GoTo(t, "probe")
            /\ UNCHANGED <<at, item, project, listed>>
       ELSE ToProject(t, 1) /\ UNCHANGED <<apiKeys, flagKeys>>
  /\ UNCHANGED <<server, load, env, warned>>

\* Some answer is not the one asked for, and setup throws: k6 ends.  (That the server has made
\* the row all the same is what a throw one request later leaves.)
Throws(t) ==
  /\ pc[t] \in {"health", "createProject", "createKey", "probe"}
  /\ GoTo(t, "thrown")
  /\ at' = [at EXCEPT ![t] = 1] /\ item' = [item EXCEPT ![t] = 1]
  /\ apiKeys' = [apiKeys EXCEPT ![t] = << >>] /\ flagKeys' = [flagKeys EXCEPT ![t] = << >>]
  /\ warned' = [warned EXCEPT ![t] = {}]
  /\ EndProject(t)
  /\ UNCHANGED <<server, load, env>>

UseProject(t, p) == project' = [project EXCEPT ![t] = p] /\ GoTo(t, "createKey")

\* The list is cached by the server: it shows a project of the name, or does not.
ListProjects(t) ==
  /\ pc[t] = "listProjects"
  /\ \/ \E p \in DOMAIN projects : projects[p] = ProjectName(t) /\ UseProject(t, p)
     \/ GoTo(t, "createProject") /\ UNCHANGED project
  /\ UNCHANGED <<server, load, env, at, item, apiKeys, flagKeys, listed, warned>>

\* ProjectService.CreateAsync answers with a project its cache knows by that name, or
\* inserts one: names are not unique.
CreateProject(t) ==
  /\ pc[t] = "createProject"
  /\ \/ \E p \in DOMAIN projects : projects[p] = ProjectName(t) /\ UseProject(t, p)
        /\ UNCHANGED projects
     \/ /\ Len(projects) < MaxRows
        /\ projects' = Append(projects, ProjectName(t))
        /\ UseProject(t, Len(projects) + 1)
  /\ UNCHANGED <<keys, flags, load, env, at, item, apiKeys, flagKeys, listed, warned>>

\* The loop over the keys of a project: one, or API_KEY_COUNT in the key stress test.
NoteKey(t) ==
  /\ apiKeys' = [apiKeys EXCEPT ![t] = Append(@, Len(keys) + 1)]
  /\ IF ~Steady(t) /\ item[t] < env[t].apiKeys
       THEN item' = [item EXCEPT ![t] = @ + 1] /\ UNCHANGED pc
       ELSE item' = [item EXCEPT ![t] = 1] /\ GoTo(t, "listFlags")

\* Mutant of CreateKey: the key is created for some project of the name.
CreateKeyByName(t) ==
  /\ pc[t] = "createKey" /\ Len(keys) < MaxRows
  /\ \E p \in DOMAIN projects : projects[p] = ProjectName(t) /\ keys' = Append(keys, p)
  /\ NoteKey(t)
  /\ UNCHANGED <<projects, flags, load, env, at, project, flagKeys, listed, warned>>

\* A key is listed or not, but never with its value: either way another one is created,
\* in the first case with the date in its name.
CreateKey(t) ==
  /\ pc[t] = "createKey" /\ Len(keys) < MaxRows
  /\ keys' = Append(keys, project[t])
  /\ NoteKey(t)
  /\ UNCHANGED <<projects, flags, load, env, at, project, flagKeys, listed, warned>>

-----------------------------------------------------------------------------
(* setup: flags, and the end of it.                                        *)

\* The flags of the key's project that have this project's id in their keys; none are
\* assumed when the list cannot be read.
ListFlags(t) ==
  /\ pc[t] = "listFlags"
  /\ IF env[t].flags = 0 THEN ToProject(t, at[t] + 1)
     ELSE /\ \/ listed' = [listed EXCEPT ![t] =
                   {f.key : f \in {g \in flags : g.project = keys[FlagMaker(t)] /\ g.key[2] = project[t]}}]
             \/ UNCHANGED listed
          /\ GoTo(t, "createFlag")
          /\ UNCHANGED <<at, item, project>>
  /\ UNCHANGED <<server, load, env, apiKeys, flagKeys, warned>>

\* Mutant of NoteFlag: one flag more.
NoteFlagTooFar(t) ==
  /\ flagKeys' = [flagKeys EXCEPT ![t] = Append(@, [key |-> FlagKey(t), maker |-> FlagMaker(t)])]
  /\ IF item[t] <= env[t].flags
       THEN item' = [item EXCEPT ![t] = @ + 1] /\ UNCHANGED <<at, pc, project, listed>>
       ELSE ToProject(t, at[t] + 1)

\* The loop over the flags: the key is noted before the flag is asked for.
NoteFlag(t) ==
  /\ flagKeys' = [flagKeys EXCEPT ![t] = Append(@, [key |-> FlagKey(t), maker |-> FlagMaker(t)])]
  /\ IF item[t] < env[t].flags
       THEN item' = [item EXCEPT ![t] = @ + 1] /\ UNCHANGED <<at, pc, project, listed>>
       ELSE ToProject(t, at[t] + 1)

\* Mutant of FlagFails: every 400 is taken for a flag that is there.
FlagFailsQuietly(t, flag) ==
  /\ flags' \in {flags, flags \cup {flag}}
  /\ warned' \in {warned, [warned EXCEPT ![t] = @ \cup {flag.key}]}

\* Another status than success or `already exists`: a line on the console, no more.
\* The insert may have been made, or lost to the unique index.
FlagFails(t, flag) ==
  /\ flags' \in {flags, flags \cup {flag}}
  /\ warned' = [warned EXCEPT ![t] = @ \cup {flag.key}]

\* A flag that is not listed is created; one that is there already answers so.
CreateFlag(t) ==
  LET flag == [project |-> keys[FlagMaker(t)], key |-> FlagKey(t)] IN
  /\ pc[t] = "createFlag"
  /\ \/ FlagKey(t) \in listed[t] /\ UNCHANGED <<flags, warned>>
     \/ FlagKey(t) \notin listed[t] /\ flags' = flags \cup {flag} /\ UNCHANGED warned
     \/ FlagKey(t) \notin listed[t] /\ FlagFails(t, flag)
  /\ NoteFlag(t)
  /\ UNCHANGED <<projects, keys, load, env, apiKeys>>

\* The two assertions and the probe: an evaluation with the first key, which the server
\* answers with 200 whether or not the flag is there (EvaluationService.cs:36).
Probe(t) ==
  /\ pc[t] = "probe"
  /\ apiKeys[t] # << >> /\ flagKeys[t] # << >>
  /\ apiKeys[t][1] \in DOMAIN keys
  /\ GoTo(t, "evaluating")
  /\ UNCHANGED <<server, load, at, item, made, env>>

-----------------------------------------------------------------------------
(* evaluate.                                                               *)

\* A fifth of n, rounded up, and one at least: hotFlagCount and hotApiKeyCount.
HotCount(n) == IF n = 0 THEN 1 ELSE (n + 4) \div 5

\* The item a draw picks, from the hot part of s or from all of it.
Pick(s, hot, draw) == s[Mod(draw, IF hot THEN HotCount(Len(s)) ELSE Len(s)) + 1]

\* One iteration of the steady test: draws for the path, the group, the user, the flag;
\* the first key for every flag.
EvaluateSteady(t, v) ==
  LET d1 == NextU32(rng[t][v])
      d4 == NextU32(NextU32(NextU32(d1)))
  IN
  /\ pc[t] = "evaluating" /\ Steady(t) /\ iterations[t][v] < MaxIterations
  /\ asked' = [asked EXCEPT ![t] = @ \cup
                 {[flag |-> Pick(flagKeys[t], IsHot(d1), d4).key, with |-> apiKeys[t][1]]}]
  /\ rng' = [rng EXCEPT ![t][v] = d4]
  /\ iterations' = [iterations EXCEPT ![t][v] = @ + 1]
  /\ UNCHANGED <<server, place, made, env>>

\* One iteration of the key stress test: two more draws, for the key.  With API_KEY given,
\* setup has returned apiKey where this reads apiKeys: the iteration throws.
EvaluateKeyStress(t, v) ==
  LET d1 == NextU32(rng[t][v])
      d4 == NextU32(NextU32(NextU32(d1)))
      d5 == NextU32(d4)
      d6 == NextU32(d5)
  IN
  /\ pc[t] = "evaluating" /\ ~Steady(t) /\ iterations[t][v] < MaxIterations
  /\ IF env[t].given
       THEN UNCHANGED asked
       ELSE asked' = [asked EXCEPT ![t] = @ \cup
                        {[flag |-> Pick(flagKeys[t], IsHot(d1), d4).key,
                          with |-> Pick(apiKeys[t], IsHot(d5), d6)]}]
  /\ rng' = [rng EXCEPT ![t][v] = d6]
  /\ iterations' = [iterations EXCEPT ![t][v] = @ + 1]
  /\ UNCHANGED <<server, place, made, env>>

Setup(t) ==
  \/ Health(t) \/ Throws(t) \/ ListProjects(t) \/ CreateProject(t)
  \/ CreateKey(t) \/ ListFlags(t) \/ CreateFlag(t) \/ Probe(t)

Next == \E t \in Testers :
  \/ Setup(t)
  \/ \E v \in VUs : EvaluateSteady(t, v) \/ EvaluateKeyStress(t, v)

Spec == Init /\ [][Next]_vars

-----------------------------------------------------------------------------
(* Properties.                                                             *)

Places == {"health", "thrown", "listProjects", "createProject", "createKey", "listFlags",
           "createFlag", "probe", "evaluating"}

WithinBounds(t) ==
  /\ pc[t] \in {"listProjects", "createProject"} => at[t] <= env[t].projects
  /\ pc[t] = "createKey" => item[t] <= (IF Steady(t) THEN 1 ELSE env[t].apiKeys)
  /\ pc[t] = "createFlag" => item[t] <= env[t].flags

OwnRows(t) ==
  /\ pc[t] \in {"createKey", "listFlags", "createFlag"} => project[t] \in DOMAIN projects
  /\ \A i \in DOMAIN apiKeys[t] : apiKeys[t][i] \in DOMAIN keys
  /\ \A r \in asked[t] :
       /\ \E f \in Evaluated(t) : r.flag = f.key
       /\ \E i \in DOMAIN apiKeys[t] : r.with = apiKeys[t][i]

\* Types; the loops stay within their bounds, a tester uses the rows it was given, and
\* what a virtual user picks by chance is one of the tester's own flags and keys.
TypeOK ==
  /\ projects \in Seq(Nat) /\ keys \in Seq(DOMAIN projects)
  /\ flags \subseteq [project : Nat, key : Nat \X Nat]
  /\ env \in Envs /\ pc \in [Testers -> Places]
  /\ {at, item} \subseteq [Testers -> Nat \ {0}] /\ project \in [Testers -> Nat]
  /\ apiKeys \in [Testers -> Seq(Nat)]
  /\ flagKeys \in [Testers -> Seq([key : Nat \X Nat, maker : Nat])]
  /\ {listed, warned} \subseteq [Testers -> SUBSET (Nat \X Nat)]
  /\ rng \in [Testers -> [VUs -> Words]] /\ iterations \in [Testers -> [VUs -> Nat]]
  /\ \A t \in Testers : WithinBounds(t) /\ OwnRows(t)

\* Each flag a tester will ask for is stored in the project of the key it was created
\* with, or the tester has said so on the console: whoever else lists and creates
\* flags, and whichever answers are lost, meanwhile.
Ready(t, flag, key) == [project |-> keys[key], key |-> flag] \in flags \/ flag \in warned[t]
FlagsReady == \A t \in Testers : \A f \in Evaluated(t) : Ready(t, f.key, f.maker)

\* In a test of one project, what the virtual users ask for with their keys is there,
\* also when the race of two testers has left two projects of the name.  (With more
\* projects it is not: every flag is asked for with every key, or with the first.)
AsksForStoredFlags ==
  \A t \in Testers : env[t].projects = 1 => \A r \in asked[t] : Ready(t, r.flag, r.with)

\* No generator is at zero, where it would stay and pick the first of everything.
NeverStuck == \A t \in Testers : \A v \in VUs : rng[t][v] # {}

\* Two virtual users of a test do not go through the same draws side by side.
NoLockstep ==
  \A t \in Testers : \A v, w \in VUs :
    v # w /\ iterations[t][v] = iterations[t][w] => rng[t][v] # rng[t][w]
=============================================================================
