------------------------ MODULE ReconnectModalProofs ------------------------
(***************************************************************************)
(* For any number of overlapping calls, and whatever the framework answers *)
(* to calls a circuit does not need: the dialog tells the truth, a page    *)
(* that Blazor has given up does not go deaf, and a page is thrown away    *)
(* only with its circuit or on the answer to such a call.                  *)
(***************************************************************************)
EXTENDS ReconnectModal, TLAPS

\* The three invariants together are inductive: each late answer or exception meets a
\* page about which nothing else is known.
ModalInv == TypeOK /\ DialogTellsTruth /\ NeverDeaf

\* A step of any of the actions keeps ModalInv; the cases are those of Next.
LEMMA ModalInvStep == ASSUME ModalInv, [Next]_vars PROVE ModalInv'
<1> USE DEF ModalInv, TypeOK, DialogTellsTruth, NeverDeaf, Classes, scriptVars, circuitVars, callVars
<1>1. CASE Drop
  BY <1>1 DEF Drop, HandleReconnectStateChanged
<1>2. CASE Pause
  BY <1>2 DEF Pause, HandleReconnectStateChanged
<1>3. CASE AutoReconnect
  BY <1>3 DEF AutoReconnect, ConnectionUp, HandleReconnectStateChanged
<1>4. CASE AutoRejected
  BY <1>4 DEF AutoRejected, HandleReconnectStateChanged
<1>5. CASE GiveUp
  BY <1>5 DEF GiveUp, HandleReconnectStateChanged
<1>6. CASE HideTab
  BY <1>6 DEF HideTab
<1>7. CASE ShowTab
  <2>1. CASE page = "live" /\ listening
    <3>1. PICK c \in Calls : Retry(c)
      BY <1>7, <2>1 DEF ShowTab
    <3>2. call'[c] = "reconnect" /\ call' \in [Calls -> {"none", "reconnect", "resume", "resumeOnly"}]
      BY <3>1 DEF Retry, Begin
    <3> QED BY <1>7, <3>1, <3>2 DEF ShowTab, Retry, Begin
  <2>2. CASE ~(page = "live" /\ listening)
    BY <1>7, <2>2 DEF ShowTab
  <2> QED BY <2>1, <2>2
<1>8. CASE Load
  BY <1>8 DEF Load
<1>9. CASE Outage
  BY <1>9 DEF Outage
<1>10. CASE Restore
  BY <1>10 DEF Restore
<1>11. CASE Forget
  BY <1>11 DEF Forget
<1>12. ASSUME NEW c \in Calls, ClickRetry(c) PROVE ModalInv'
  <2>1. call'[c] = "reconnect" /\ call' \in [Calls -> {"none", "reconnect", "resume", "resumeOnly"}]
    BY <1>12 DEF ClickRetry, Retry, Begin
  <2> QED BY <1>12, <2>1 DEF ClickRetry, Retry, Begin
<1>13. ASSUME NEW c \in Calls, ClickResume(c) PROVE ModalInv'
  BY <1>13 DEF ClickResume, Begin
<1>14. ASSUME NEW c \in Calls, Answer(c) PROVE ModalInv'
  <2>1. CASE ConnectionUp /\ call' = [call EXCEPT ![c] = "none"]
    BY <1>14, <2>1 DEF Answer, ConnectionUp, HandleReconnectStateChanged
  <2>2. CASE Refused(c) /\ UNCHANGED <<circuitVars, needed>>
    <3>1. CASE call[c] = "reconnect"
      <4>1. call'[c] = "resume" /\ call' \in [Calls -> {"none", "reconnect", "resume", "resumeOnly"}]
        BY <2>2, <3>1 DEF Refused
      <4> QED BY <1>14, <2>2, <3>1, <4>1 DEF Answer, Refused
    <3>2. CASE call[c] # "reconnect"
      BY <1>14, <2>2, <3>2 DEF Answer, Refused
    <3> QED BY <3>1, <3>2
  <2> QED BY <1>14, <2>1, <2>2 DEF Answer
<1>15. ASSUME NEW c \in Calls, Throws(c) PROVE ModalInv'
  <2>1. call' \in [Calls -> {"none", "reconnect", "resume", "resumeOnly"}]
    BY <1>15 DEF Throws
  <2>2. \A d \in Calls \ {c} : call'[d] = call[d]
    BY <1>15 DEF Throws
  <2> QED BY <1>15, <2>1, <2>2 DEF Throws
<1>16. CASE UNCHANGED vars
  BY <1>16 DEF vars
<1> QED BY <1>1, <1>2, <1>3, <1>4, <1>5, <1>6, <1>7, <1>8, <1>9, <1>10, <1>11,
           <1>12, <1>13, <1>14, <1>15, <1>16 DEF Next

\* ModalInv holds throughout.
LEMMA ModalInvariant == Spec => []ModalInv
<1>1. Init => ModalInv
  BY DEF Init, ModalInv, TypeOK, DialogTellsTruth, NeverDeaf, Classes
<1> QED BY <1>1, ModalInvStep, PTL DEF Spec

\* The types, and the buttons that fit what Blazor does (lines 46-57).
THEOREM TypeCorrect == Spec => []TypeOK
BY ModalInvariant, PTL DEF ModalInv

\* The dialog is open exactly while the page has no connection (lines 11-21, 35-40).
THEOREM DialogTellsTruthHolds == Spec => []DialogTellsTruth
BY ModalInvariant, PTL DEF ModalInv

\* A page that Blazor has given up will be tried again (lines 16, 24, 42-45).
THEOREM NeverDeafHolds == Spec => []NeverDeaf
BY ModalInvariant, PTL DEF ModalInv

\* What is known of a call that the circuit has needed all along: the circuit is not
\* connected, and once resume is called the server has stored or lost it.  The user is
\* asked to resume such a circuit only.
NeededInv ==
  /\ \A c \in needed : circuit # "connected" /\ (call[c] \in {"resume", "resumeOnly"} => circuit \in {"stored", "lost"})
  /\ framework = "paused" => circuit \in {"stored", "lost"}

\* A step of any of the actions keeps NeededInv: only Begin adds a call, and whoever
\* connects the circuit removes them all.
LEMMA NeededInvStep == ASSUME ModalInv, NeededInv, [Next]_vars PROVE NeededInv'
<1> USE DEF ModalInv, TypeOK, Classes, NeededInv, scriptVars, circuitVars, callVars
<1>1. CASE Drop \/ Pause
  BY <1>1 DEF Drop, Pause
<1>2. CASE AutoReconnect \/ Load
  BY <1>2 DEF AutoReconnect, ConnectionUp, Load
<1>3. CASE AutoRejected \/ GiveUp
  BY <1>3 DEF AutoRejected, GiveUp
<1>4. CASE HideTab \/ Outage \/ Restore
  BY <1>4 DEF HideTab, Outage, Restore
<1>5. CASE Forget
  BY <1>5 DEF Forget
<1>6. ASSUME NEW c \in Calls, Retry(c), UNCHANGED circuitVars PROVE NeededInv'
  BY <1>6 DEF Retry, Begin
<1>7. CASE ShowTab
  BY <1>6, <1>7 DEF ShowTab
<1>8. ASSUME NEW c \in Calls, ClickRetry(c) PROVE NeededInv'
  BY <1>6, <1>8 DEF ClickRetry
<1>9. ASSUME NEW c \in Calls, ClickResume(c) PROVE NeededInv'
  <2>1. framework = "paused"
    BY <1>9 DEF ClickResume
  <2> QED BY <1>9, <2>1 DEF ClickResume, Begin
<1>10. ASSUME NEW c \in Calls, Answer(c) PROVE NeededInv'
  <2>1. CASE ConnectionUp
    BY <2>1 DEF ConnectionUp
  <2>2. CASE MayAnswer(call[c], "false") /\ Refused(c) /\ UNCHANGED <<circuitVars, needed>>
    <3>1. c \in needed => circuit \in {"stored", "lost"}
      BY <2>2, <1>10 DEF MayAnswer, Waits, Answer
    <3> QED BY <2>2, <3>1 DEF Refused
  <2> QED BY <1>10, <2>1, <2>2 DEF Answer
<1>11. ASSUME NEW c \in Calls, Throws(c) PROVE NeededInv'
  BY <1>11 DEF Throws
<1>12. CASE UNCHANGED vars
  BY <1>12 DEF vars
<1> QED BY <1>1, <1>2, <1>3, <1>4, <1>5, <1>7, <1>8, <1>9, <1>10, <1>11, <1>12 DEF Next

\* NeededInv holds throughout.
LEMMA NeededInvariant == Spec => []NeededInv
<1>1. Init => NeededInv
  BY DEF Init, NeededInv
<1> QED BY <1>1, ModalInvariant, NeededInvStep, PTL DEF Spec

\* However many calls overlap and whatever becomes of them, the page is reloaded only
\* when its circuit is lost or on the answer to a call that the circuit did not need
\* (lines 18, 32-38, 51): retry resumes a circuit that the server has stored.
THEOREM NothingThrownAwayHolds == Spec => NothingThrownAway
<1> DEFINE A == page = "live" /\ page' = "reloading" =>
                  circuit = "lost" \/ \E c \in Calls \ needed : call'[c] # call[c]
<1>1. ASSUME ModalInv, NeededInv, [Next]_vars, page = "live", page' = "reloading"
      PROVE  circuit = "lost" \/ \E c \in Calls \ needed : call'[c] # call[c]
  <2>1. CASE AutoRejected
    BY <2>1 DEF AutoRejected
  <2>2. ASSUME NEW c \in Calls, Answer(c)
        PROVE  circuit = "lost" \/ \E d \in Calls \ needed : call'[d] # call[d]
    <3>1. Refused(c) /\ MayAnswer(call[c], "false")
      BY <1>1, <2>2 DEF Answer, ConnectionUp, HandleReconnectStateChanged
    <3>2. call[c] \in {"resume", "resumeOnly"} /\ call'[c] = "none"
      BY <1>1, <2>2, <3>1 DEF Refused, Answer, Waits, ModalInv, TypeOK
    <3>3. CASE c \in needed
      BY <1>1, <3>1, <3>2, <3>3 DEF NeededInv, MayAnswer
    <3>4. CASE c \notin needed
      BY <3>2, <3>4
    <3> QED BY <3>3, <3>4
  <2>3. ~(UNCHANGED page)
    BY <1>1
  <2> QED BY <1>1, <2>1, <2>2, <2>3
       DEF Next, vars, scriptVars, circuitVars, Drop, Pause, AutoReconnect, GiveUp, HideTab, ShowTab, Load,
           Outage, Restore, Forget, ClickRetry, ClickResume, Throws, ConnectionUp, HandleReconnectStateChanged
<1>2. ModalInv /\ NeededInv /\ [Next]_vars => [A]_vars
  BY <1>1 DEF A
<1> QED BY <1>2, ModalInvariant, NeededInvariant, PTL DEF Spec, NothingThrownAway
=============================================================================
