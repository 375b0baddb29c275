--------------------------- MODULE ReconnectModal ---------------------------
(***************************************************************************)
(* The dialog of the Blazor sample while its connection is lost, from      *)
(* ReconnectModal.razor.js.  The script is single-threaded, but retry and  *)
(* resume wait for the framework: calls overlap each other, the            *)
(* framework's own attempts, and the tab being hidden and shown.           *)
(*                                                                         *)
(* The framework (Blazor), the server and the browser are external and     *)
(* modelled by what the script says of them (lines 27-30, 35-36, 43) and   *)
(* by the classes in its markup.  A step is what the script does between   *)
(* two awaits.                                                             *)
(***************************************************************************)
CONSTANT Calls   \* the runs of retry and resume that may be under way at a time

VARIABLES
  page,       \* "live", or "reloading" after location.reload()
  open,       \* the dialog is shown
  class,      \* the class that says which texts and buttons of it are visible
  listening,  \* retryWhenDocumentBecomesVisible is a listener
  call,       \* per call: what it waits for
  needed,     \* history: the calls during which the circuit has not been connected
  visible,    \* the tab is the visible one
  framework,  \* what Blazor does about the circuit by itself
  circuit,    \* "connected"; or the server holds it, has stored it, has lost it
  reachable   \* the server can be reached

scriptVars  == <<page, open, listening>>
circuitVars == <<framework, circuit, class>>
callVars    == <<call, needed>>
vars == <<scriptVars, circuitVars, callVars, visible, reachable>>

\* The classes of the dialog while Blazor is in a state.
Classes == {<<"hide", "idle">>, <<"show", "trying">>, <<"failed", "gaveUp">>,
            <<"paused", "paused">>, <<"resumeFailed", "paused">>}

Init ==
  /\ page = "live" /\ open = FALSE /\ listening = FALSE
  /\ class = "hide" /\ framework = "idle" /\ circuit = "connected"
  /\ call = [c \in Calls |-> "none"] /\ needed = {}
  /\ visible = TRUE /\ reachable = TRUE

-----------------------------------------------------------------------------
(* Events of the framework, and what the script does with them.            *)

\* Mutant of HandleReconnectStateChanged: "failed" is left to the button.
HandleWithoutFailed(state) ==
  \/ state = "show" /\ open' = TRUE /\ UNCHANGED <<page, listening>>
  \/ state = "hide" /\ open' = FALSE /\ UNCHANGED <<page, listening>>
  \/ state = "failed" /\ UNCHANGED scriptVars
  \/ state = "rejected" /\ page' = "reloading" /\ UNCHANGED <<open, listening>>

HandleReconnectStateChanged(state) ==
  \/ state = "show" /\ open' = TRUE /\ UNCHANGED <<page, listening>>
  \/ state = "hide" /\ open' = FALSE /\ UNCHANGED <<page, listening>>
  \/ state = "failed" /\ listening' = TRUE /\ UNCHANGED <<page, open>>
  \/ state = "rejected" /\ page' = "reloading" /\ UNCHANGED <<open, listening>>

\* The connection is lost: Blazor shows the dialog and tries by itself.
Drop ==
  /\ page = "live" /\ circuit = "connected"
  /\ circuit' = "held" /\ framework' = "trying" /\ class' = "show"
  /\ HandleReconnectStateChanged("show")
  /\ UNCHANGED <<callVars, visible, reachable>>

\* The server stores the circuit and ends it; the user is asked to resume.
Pause ==
  /\ page = "live" /\ circuit = "connected"
  /\ circuit' = "stored" /\ framework' = "paused" /\ class' = "paused"
  /\ HandleReconnectStateChanged("show")
  /\ UNCHANGED <<callVars, visible, reachable>>

\* The circuit is connected again, by whomever: Blazor stops trying and says so.
ConnectionUp ==
  /\ circuit' = "connected" /\ framework' = "idle" /\ class' = "hide"
  /\ needed' = {}
  /\ HandleReconnectStateChanged("hide")

\* The three ends of Blazor's own attempts.
AutoReconnect ==
  /\ page = "live" /\ framework = "trying" /\ reachable
  /\ circuit \in {"held", "stored"}
  /\ ConnectionUp
  /\ UNCHANGED <<call, visible, reachable>>

AutoRejected ==
  /\ page = "live" /\ framework = "trying" /\ reachable
  /\ circuit = "lost"
  /\ HandleReconnectStateChanged("rejected")
  /\ UNCHANGED <<circuitVars, callVars, visible, reachable>>

GiveUp ==
  /\ page = "live" /\ framework = "trying"
  /\ framework' = "gaveUp" /\ class' = "failed"
  /\ HandleReconnectStateChanged("failed")
  /\ UNCHANGED <<circuit, callVars, visible, reachable>>

-----------------------------------------------------------------------------
(* retry, resume and retryWhenDocumentBecomesVisible.                      *)

Begin(c, what) ==
  /\ call[c] = "none"
  /\ call' = [call EXCEPT ![c] = what]
  /\ needed' = IF circuit = "connected" THEN needed ELSE needed \cup {c}

\* The first lines of retry, up to its first await.
Retry(c) == listening' = FALSE /\ Begin(c, "reconnect")

\* The user presses a button, which is on the screen in one class only.
ClickRetry(c) ==
  /\ page = "live" /\ visible /\ open /\ class = "failed"
  /\ Retry(c)
  /\ UNCHANGED <<page, open, circuitVars, visible, reachable>>

ClickResume(c) ==
  /\ page = "live" /\ visible /\ open /\ class \in {"paused", "resumeFailed"}
  /\ Begin(c, "resumeOnly")
  /\ UNCHANGED <<scriptVars, circuitVars, visible, reachable>>

\* visibilitychange is raised either way; the script retries when the tab is shown.
HideTab ==
  /\ visible /\ visible' = FALSE
  /\ UNCHANGED <<scriptVars, circuitVars, callVars, reachable>>

ShowTab ==
  /\ ~visible /\ visible' = TRUE
  /\ \/ page = "live" /\ listening /\ \E c \in Calls : Retry(c)
     \/ (page # "live" \/ ~listening) /\ UNCHANGED <<listening, callVars>>
  /\ UNCHANGED <<page, open, circuitVars, reachable>>

\* What the framework may answer to a call.  The script is not told how it answers one
\* that a circuit does not need, because another call or Blazor was first: either way.
MayAnswer(what, answer) ==
  \/ circuit = "lost" /\ answer = "false"
  \/ circuit = "stored" /\ answer = (IF what = "reconnect" THEN "false" ELSE "true")
  \/ circuit = "held" /\ what = "reconnect" /\ answer = "true"
  \/ circuit = "held" /\ what # "reconnect" /\ answer \in {"true", "false"}
  \/ circuit = "connected" /\ answer \in {"true", "false"}

Waits(c) == page = "live" /\ call[c] # "none"

\* Mutant of Refused: retry reloads as soon as the circuit is refused.
RefusedAtOnce(c) ==
  /\ page' = "reloading"
  /\ call' = [call EXCEPT ![c] = "none"]
  /\ UNCHANGED <<open, listening>>

\* The answer is false: retry goes on to resume the circuit, and whoever cannot
\* resume it reloads the page.
Refused(c) ==
  /\ \/ /\ call[c] = "reconnect"
        /\ call' = [call EXCEPT ![c] = "resume"]
        /\ UNCHANGED page
     \/ /\ call[c] # "reconnect"
        /\ call' = [call EXCEPT ![c] = "none"]
        /\ page' = "reloading"
  /\ UNCHANGED <<open, listening>>

\* Mutant of Answer: the dialog is closed before the circuit is resumed.
AnswerClosed(c) ==
  /\ Waits(c) /\ reachable
  /\ \/ /\ MayAnswer(call[c], "true")
        /\ ConnectionUp
        /\ call' = [call EXCEPT ![c] = "none"]
     \/ /\ MayAnswer(call[c], "false") /\ call[c] # "reconnect"
        /\ Refused(c)
        /\ UNCHANGED <<circuitVars, needed>>
     \/ /\ MayAnswer(call[c], "false") /\ call[c] = "reconnect"
        /\ call' = [call EXCEPT ![c] = "resume"] /\ open' = FALSE
        /\ UNCHANGED <<page, listening, circuitVars, needed>>
  /\ UNCHANGED <<visible, reachable>>

\* true: the circuit is connected, Blazor hides the dialog (and retry closes it once
\* more after a resume).
Answer(c) ==
  /\ Waits(c) /\ reachable
  /\ \/ /\ MayAnswer(call[c], "true")
        /\ ConnectionUp
        /\ call' = [call EXCEPT ![c] = "none"]
     \/ /\ MayAnswer(call[c], "false")
        /\ Refused(c)
        /\ UNCHANGED <<circuitVars, needed>>
  /\ UNCHANGED <<visible, reachable>>

\* Mutants of Throws: nobody listens again; the class is set instead of replaced.
ThrowsDeaf(c) ==
  /\ Waits(c)
  /\ class' = IF call[c] = "resumeOnly" /\ class = "paused" THEN "resumeFailed" ELSE class
  /\ call' = [call EXCEPT ![c] = "none"] /\ needed' = needed \ {c}
  /\ UNCHANGED <<scriptVars, framework, circuit, visible, reachable>>

ThrowsOnAnyClass(c) ==
  /\ Waits(c)
  /\ class' = IF call[c] = "resumeOnly" THEN "resumeFailed" ELSE class
  /\ listening' = (listening \/ call[c] # "resumeOnly")
  /\ call' = [call EXCEPT ![c] = "none"] /\ needed' = needed \ {c}
  /\ UNCHANGED <<page, open, framework, circuit, visible, reachable>>

\* The call throws, at once or later, whatever has become of the server meanwhile:
\* the two catch blocks.
Throws(c) ==
  /\ Waits(c)
  /\ class' = IF call[c] = "resumeOnly" /\ class = "paused" THEN "resumeFailed" ELSE class
  /\ listening' = (listening \/ call[c] # "resumeOnly")
  /\ call' = [call EXCEPT ![c] = "none"] /\ needed' = needed \ {c}
  /\ UNCHANGED <<page, open, framework, circuit, visible, reachable>>

-----------------------------------------------------------------------------
(* The server and the browser.                                             *)

\* The page starts afresh, with a new circuit; calls of the old one are gone.
Load ==
  /\ page = "reloading" /\ reachable
  /\ page' = "live" /\ open' = FALSE /\ listening' = FALSE
  /\ class' = "hide" /\ framework' = "idle" /\ circuit' = "connected"
  /\ call' = [c \in Calls |-> "none"] /\ needed' = {}
  /\ UNCHANGED <<visible, reachable>>

Outage  == reachable /\ reachable' = FALSE /\ UNCHANGED <<scriptVars, circuitVars, callVars, visible>>
Restore == ~reachable /\ reachable' = TRUE /\ UNCHANGED <<scriptVars, circuitVars, callVars, visible>>

\* The server gives up a circuit nobody came back to, in two steps or in one.
Forget ==
  /\ \/ circuit = "held" /\ circuit' \in {"stored", "lost"}
     \/ circuit = "stored" /\ circuit' = "lost"
  /\ UNCHANGED <<scriptVars, framework, class, callVars, visible, reachable>>

Framework == AutoReconnect \/ AutoRejected \/ GiveUp

Next ==
  \/ Drop \/ Pause \/ AutoReconnect \/ AutoRejected \/ GiveUp
  \/ HideTab \/ ShowTab \/ Load \/ Outage \/ Restore \/ Forget
  \/ \E c \in Calls : ClickRetry(c) \/ ClickResume(c) \/ Answer(c) \/ Throws(c)

Spec == Init /\ [][Next]_vars

\* Blazor's attempts come to an end, a reload loads, calls are answered or throw;
\* and a server that can be reached again and again answers some call of each kind.
FairSpec ==
  /\ Spec
  /\ WF_vars(Framework) /\ WF_vars(Load)
  /\ \A c \in Calls :
       /\ WF_vars(Answer(c) \/ Throws(c))
       /\ SF_vars(call[c] = "reconnect" /\ Answer(c))
       /\ SF_vars(call[c] = "resume" /\ Answer(c))

-----------------------------------------------------------------------------
(* Properties.                                                             *)

\* Types; and the class shows the buttons that fit what the framework does, so that
\* a late exception of resume does not offer to resume what is not paused.
TypeOK ==
  /\ page \in {"live", "reloading"} /\ framework \in {"idle", "trying", "gaveUp", "paused"}
  /\ circuit \in {"connected", "held", "stored", "lost"}
  /\ <<class, framework>> \in Classes
  /\ call \in [Calls -> {"none", "reconnect", "resume", "resumeOnly"}]
  /\ needed \subseteq Calls
  /\ {open, listening, visible, reachable} \subseteq BOOLEAN

\* A page that has not been given up shows the dialog exactly while it has no
\* connection: the user neither works on a dead page nor is kept from a live one.
DialogTellsTruth == page = "live" => (open <=> circuit # "connected")

\* Once Blazor has given up, somebody will still try: a run of retry is under way
\* or the tab's next appearance starts one.  retry stops listening before it waits.
NeverDeaf ==
  page = "live" /\ framework = "gaveUp" =>
    listening \/ \E c \in Calls : call[c] \in {"reconnect", "resume"}

\* The page, and what the user entered in it, is thrown away only when the server has
\* lost the circuit, or on the answer to a call that the circuit did not need, having
\* been connected when or since it was begun.  A refused reconnect does not tell a
\* stored circuit from a lost one, and retry must not give the first up.
NothingThrownAway ==
  [][page = "live" /\ page' = "reloading" =>
       circuit = "lost" \/ \E c \in Calls \ needed : call'[c] # call[c]]_vars

\* A page that lost its connection works again, or asks its user to resume, when
\* the server can be reached again and the user keeps coming back to the tab.
Working == page = "live" /\ circuit = "connected"
AsksUser == page = "live" /\ open /\ class \in {"paused", "resumeFailed"}
Recovers ==
  <>[]reachable /\ []<>visible /\ []<>~visible => []<>(Working \/ AsksUser)
=============================================================================
