----------------------------- MODULE ContentStress -----------------------------
(***************************************************************************)
(* The content and locale stress of one page (desktop content_stress, the  *)
(* content stress functions of instrumentation): every profile replaces    *)
(* the page's texts, is measured, and puts them back, while the application*)
(* keeps rendering, and the page may reload or change route.               *)
(***************************************************************************)
EXTENDS Integers, Sequences, FiniteSets

CONSTANTS StressTexts,          \* text nodes, and the root's lang and dir
          StressProfiles,       \* profiles of one command (4 in the code)
          MaxStressRenders,     \* what the application changes
          MaxStressDocuments    \* documents the surface loads

ASSUME StressAssumption ==
  {StressProfiles, MaxStressRenders, MaxStressDocuments} \subseteq Nat \ {0}

VARIABLES stressJob,      \* capture_content_locale_stress: its step and profile
          stressEntry,    \* ContentStressState's entry of the session
          stressScripts,  \* scripts the surface has not run yet
          stressPage      \* the document: texts, the runtime's state, its reports

stressVars == <<stressJob, stressEntry, stressScripts, stressPage>>

\* A text is the application's, by version, or what the runtime put over it.
Own(version) == [version |-> version, stressed |-> FALSE]
Stressed(text) == [text EXCEPT !.stressed = TRUE]

StressWaits == {"apply", "restore", "rescue"}
Over == {"idle", "receipt", "error"}
NoStress == [token |-> 0, entries |-> <<>>]
NoStressEntry == [token |-> 0, phase |-> "none", route |-> "r1", generation |-> 0]
StressDocument(generation, route) ==
  [generation |-> generation, route |-> route, texts |-> [t \in StressTexts |-> Own(0)],
   last |-> [t \in StressTexts |-> 0], present |-> StressTexts, state |-> NoStress, reports |-> <<>>]

StressInit ==
  /\ stressJob = [step |-> "idle", profile |-> 0, baseline |-> <<>>, renders |-> 0]
  /\ stressEntry = NoStressEntry /\ stressScripts = <<>> /\ stressPage = StressDocument(1, "r1")

----------------------------------------------------------------------------
(* The page.                                                               *)

StressReport(page, token, status) ==
  [page EXCEPT !.reports = Append(@, [token |-> token, route |-> page.route, status |-> status])]

\* beginContentStress: the eligible texts, with what they were, then the write.
beginContentStress(page, script) ==
  IF script.route # page.route \/ page.state # NoStress THEN page
  ELSE LET eligible == {t \in page.present : ~page.texts[t].stressed}
           entries  == [t \in eligible |-> page.texts[t]]
       IN StressReport([page EXCEPT !.state = [token |-> script.token, entries |-> entries],
                              !.texts = [t \in StressTexts |-> IF t \in eligible THEN Stressed(@[t]) ELSE @[t]]],
                 script.token, "applied")

\* Compare before restore: only what the runtime wrote is put back.
Restored(page) ==
  [t \in StressTexts |-> IF /\ t \in DOMAIN page.state.entries \cap page.present
                            /\ page.texts[t] = Stressed(page.state.entries[t])
                           THEN page.state.entries[t] ELSE page.texts[t]]

\* A text that left the document, or that is now something else, is a conflict.
Conflicts(page) ==
  {t \in DOMAIN page.state.entries :
     t \notin page.present \/ page.texts[t] \notin {page.state.entries[t], Stressed(page.state.entries[t])}}

restoreContentStress(page, script) ==
  IF page.state.token # script.token \/ page.state = NoStress THEN page
  ELSE StressReport([page EXCEPT !.texts = Restored(page), !.state = NoStress], script.token,
              IF Conflicts(page) = {} THEN "restored" ELSE "restore_conflict")

stress_script_runs ==
  /\ stressScripts # <<>>
  /\ LET script == Head(stressScripts)
     IN stressPage' = IF script.op = "begin" THEN beginContentStress(stressPage, script)
                      ELSE restoreContentStress(stressPage, script)
  /\ stressScripts' = Tail(stressScripts)
  /\ UNCHANGED <<stressJob, stressEntry>>

Rendering(page) ==
  /\ stressJob.renders < MaxStressRenders
  /\ stressPage' = page
  /\ stressJob' = [stressJob EXCEPT !.renders = @ + 1]
  /\ UNCHANGED <<stressEntry, stressScripts>>

\* The application writes a text again: the same one, or a new one.
page_renders_text ==
  \E t \in stressPage.present : \E version \in stressPage.last[t]..stressPage.last[t] + 1 :
    Rendering([stressPage EXCEPT !.texts[t] = Own(version), !.last[t] = version])

page_removes_text ==
  \E t \in stressPage.present : Rendering([stressPage EXCEPT !.present = @ \ {t}])

page_changes_route ==
  \E route \in {"r1", "r2"} \ {stressPage.route} : Rendering([stressPage EXCEPT !.route = route])

stress_page_reloads ==
  /\ stressPage.generation < MaxStressDocuments
  /\ stressPage' = StressDocument(stressPage.generation + 1, stressPage.route)
  /\ UNCHANGED <<stressJob, stressEntry, stressScripts>>

----------------------------------------------------------------------------
(* The desktop: what the bridge reports.                                   *)

Accepted(entry, report) ==
  CASE report.status = "applied" /\ entry.phase = "PendingApply" -> [entry EXCEPT !.phase = "Applied"]
    [] report.status = "restored" /\ entry.phase = "PendingRestore" -> [entry EXCEPT !.phase = "Restored"]
    [] report.status = "restore_conflict" -> [entry EXCEPT !.phase = "Failed"]
    [] OTHER -> entry

\* ContentStressState::complete: one route and one document per profile.
stress_completed(entry, report, generation) ==
  IF entry.token # report.token THEN entry
  ELSE IF entry.route # report.route \/ entry.generation \notin {0, generation} THEN [entry EXCEPT !.phase = "Failed"]
  ELSE Accepted([entry EXCEPT !.generation = generation], report)

\* The tick takes the reports; one that is refused loses the others with it.
stress_reports ==
  /\ stressPage.reports # <<>>
  /\ LET report == Head(stressPage.reports)
     IN IF report.route = stressPage.route
          THEN /\ stressEntry' = stress_completed(stressEntry, report, stressPage.generation)
               /\ stressPage' = [stressPage EXCEPT !.reports = Tail(@)]
          ELSE stressPage' = [stressPage EXCEPT !.reports = <<>>] /\ UNCHANGED stressEntry
  /\ UNCHANGED <<stressJob, stressScripts>>

----------------------------------------------------------------------------
(* The desktop: the command, which holds the session's capture gate.       *)

SendScript(op) ==
  stressScripts' = Append(stressScripts, [op |-> op, token |-> stressEntry'.token, route |-> stressEntry'.route])

Visible(page) == [t \in page.present |-> page.texts[t]]

start_profile(profile, route) ==
  /\ stressEntry' = [NoStressEntry EXCEPT !.token = profile, !.phase = "PendingApply", !.route = route]
  /\ SendScript("begin")

\* The baseline: a snapshot of the settled page on the managed route.
capture_content_locale_stress ==
  /\ stressJob.step = "idle"
  /\ stressJob' = [stressJob EXCEPT !.step = "apply", !.profile = 1, !.baseline = Visible(stressPage)]
  /\ start_profile(1, stressPage.route)
  /\ UNCHANGED stressPage

To(step) == stressJob' = [stressJob EXCEPT !.step = step]

\* Mutant: a profile that was never seen applied is not restored.
rescue_if_applied ==
  /\ To("rescue")
  /\ IF stressEntry.phase = "Applied" THEN stressEntry' = [stressEntry EXCEPT !.phase = "PendingRestore"] /\ SendScript("restore")
     ELSE UNCHANGED <<stressEntry, stressScripts>>

\* best_effort_restore: the script is sent whatever phase the entry is in.
best_effort_restore ==
  /\ To("rescue")
  /\ stressEntry' = [stressEntry EXCEPT !.phase = IF @ = "Applied" THEN "PendingRestore" ELSE @]
  /\ SendScript("restore")

Reached(phase) == stressEntry.phase = phase
DeadlinePasses == stressJob.step \in StressWaits

\* Mutant: only the entry ends a wait.
wait_for_the_page(phase) == Reached(phase) \/ Reached("Failed")

\* wait_for a phase: it comes, the entry fails, or, in any wait, time is up.
wait_for(phase) == Reached(phase) \/ Reached("Failed") \/ DeadlinePasses

applied ==
  /\ stressJob.step = "apply" /\ wait_for("Applied")
  /\ IF Reached("Applied") THEN To("measure") /\ UNCHANGED <<stressEntry, stressScripts>> ELSE best_effort_restore
  /\ UNCHANGED stressPage

\* The stressed snapshot is settled, fetched and analysed; any of it may fail,
\* and a snapshot without enough of the baseline's nodes is refused.
measured ==
  /\ stressJob.step = "measure"
  /\ \/ /\ Cardinality(stressPage.present \cap DOMAIN stressJob.baseline) * 5 >= Cardinality(DOMAIN stressJob.baseline) * 4
        /\ stressPage.route = stressEntry.route
        /\ IF Reached("Applied")
             THEN To("restore") /\ stressEntry' = [stressEntry EXCEPT !.phase = "PendingRestore"] /\ SendScript("restore")
             ELSE best_effort_restore
     \/ best_effort_restore
  /\ UNCHANGED stressPage

Cleared == stressEntry' = NoStressEntry /\ UNCHANGED stressScripts

restored ==
  /\ stressJob.step = "restore" /\ wait_for("Restored")
  /\ IF Reached("Restored") THEN To("check") /\ Cleared ELSE best_effort_restore
  /\ UNCHANGED stressPage

rescued ==
  /\ stressJob.step = "rescue" /\ wait_for("Restored")
  /\ To("error") /\ Cleared
  /\ UNCHANGED stressPage

\* validate_restored_snapshot against the baseline, then the next profile.
validated ==
  /\ stressJob.step = "check"
  /\ \/ /\ Visible(stressPage) = stressJob.baseline /\ stressJob.profile < StressProfiles
        /\ stressJob' = [stressJob EXCEPT !.step = "apply", !.profile = @ + 1]
        /\ start_profile(stressJob.profile + 1, stressPage.route)
     \/ /\ Visible(stressPage) = stressJob.baseline /\ stressJob.profile = StressProfiles
        /\ To("receipt") /\ UNCHANGED <<stressEntry, stressScripts>>
     \/ To("error") /\ UNCHANGED <<stressEntry, stressScripts>>
  /\ UNCHANGED stressPage

StressStep == applied \/ measured \/ restored \/ rescued \/ validated

StressNext ==
  \/ stress_script_runs \/ page_renders_text \/ page_removes_text \/ page_changes_route \/ stress_page_reloads
  \/ stress_reports \/ capture_content_locale_stress
  \/ applied \/ measured \/ restored \/ rescued \/ validated

StressSpec == StressInit /\ [][StressNext]_stressVars

\* The command's task is scheduled; the page and its bridge need not be.
StressFairness == WF_stressVars(StressStep)
StressLiveSpec == StressSpec /\ StressFairness

----------------------------------------------------------------------------
(* What the page's application may rely on.                                *)

\* The steps of the command, and states of the page they go with.
StressTypeOK ==
  /\ stressJob.step \in StressWaits \cup Over \cup {"measure", "check"} /\ stressJob.profile \in 0..StressProfiles
  /\ stressPage.present \subseteq StressTexts /\ stressPage.state.token \in 0..StressProfiles
  /\ Len(stressScripts) <= 3 * StressProfiles

\* The stress never costs the application a text: what it shows is always what
\* the application wrote last, or that text under the stress in force.
AppTextsSurvive ==
  \A t \in StressTexts : LET text == stressPage.texts[t]
    IN text = Own(stressPage.last[t]) \/ (text = Stressed(Own(stressPage.last[t])))

\* However the command ends, with a receipt or an error, when the page has run
\* what was sent to it no text is left stressed and the next command can start.
PageTextsGivenBack ==
  stressJob.step \in Over /\ stressScripts = <<>> =>
    /\ stressPage.state = NoStress
    /\ \A t \in stressPage.present : ~stressPage.texts[t].stressed

\* The stress neither costs the page a text nor outlives its command.
StressIsUndone == AppTextsSurvive /\ PageTextsGivenBack

\* A command ends even when the page never runs a script or reports one.
StressEnds == stressJob.step \notin Over ~> stressJob.step \in Over
=============================================================================
