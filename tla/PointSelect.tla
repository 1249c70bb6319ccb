------------------------------ MODULE PointSelect ------------------------------
(***************************************************************************)
(* A person picks one element of the managed page (instrumentation         *)
(* beginPointSelect and the handlers it installs, desktop point_select,    *)
(* LocalViewShell): the panel, the commands it has in flight, the scripts  *)
(* sent to the page, and the reports the page's bridge sends back.         *)
(***************************************************************************)
EXTENDS Integers, Sequences, FiniteSets, SequencesExt

CONSTANTS PointElements,      \* what the pointer can be over
          PageReferences,     \* document |-> element |-> the reference it has there
          MaxPointRequests,   \* tokens the panel may use
          MaxPointDocuments,  \* documents the surface loads
          MaxPointScripts,    \* scripts waiting for a busy page
          PointReports        \* the page's completion queue (4 in the code)

ASSUME PointAssumption ==
  {MaxPointRequests, MaxPointDocuments, MaxPointScripts, PointReports} \subseteq Nat \ {0}

VARIABLES pointPanel,    \* the shell: its phase and the token it owns
          pointCalls,    \* commands sent and not yet handled
          pointEntry,    \* PointSelectState's entry of the session
          pointScripts,  \* scripts the surface has not run yet
          pointPage,     \* the document: its listeners, its pointer, its reports
          pointSeen      \* what really happened: elements pointed at, begins disturbed

pointVars == <<pointPanel, pointCalls, pointEntry, pointScripts, pointPage, pointSeen>>

Nothing == "nothing"
PointRoutes == {"r1", "r2"}
PointPhases == {"Pending", "Selected", "Cancelled", "Failed"}

NoEntry == [token |-> 0, state |-> Nothing, route |-> "r1", reference |-> Nothing, generation |-> 0]
\* pointSelectState; pressed is what the person really pressed while it was armed.
NoPick == [token |-> 0, hovered |-> Nothing, down |-> Nothing, failure |-> FALSE, pressed |-> Nothing]
Document(generation, route) ==
  [generation |-> generation, route |-> route, pick |-> NoPick, reports |-> <<>>]

PointInit ==
  /\ pointPanel = [phase |-> "idle", token |-> 0] /\ pointCalls = {}
  /\ pointEntry = NoEntry /\ pointScripts = <<>>
  /\ pointPage = Document(1, "r1")
  /\ pointSeen = [pointed |-> {}, disturbed |-> FALSE]

----------------------------------------------------------------------------
(* The page.                                                               *)

\* Mutant: the queue of reports has no limit.
report_unbounded(queue, report) == Append(queue, report)

\* queuePointSelectCompletion drops the oldest reports.
Report(queue, report) ==
  LET all == Append(queue, report) IN SubSeq(all, Len(all) - (IF Len(all) > PointReports THEN PointReports ELSE Len(all)) + 1, Len(all))

\* finishPointSelect: cleanupPointSelect removes listeners, observer and overlay.
finishPointSelect(page, status, reference) ==
  IF page.pick.token = 0 THEN page
  ELSE [page EXCEPT !.pick = NoPick,
                    !.reports = Report(@, [token |-> page.pick.token, route |-> page.route,
                                           status |-> status, reference |-> reference])]

beginPointSelect(page, script) ==
  IF script.route # page.route THEN page
  ELSE LET free == finishPointSelect(page, "cancelled", Nothing)
       IN [free EXCEPT !.pick = [NoPick EXCEPT !.token = script.token],
                       !.reports = Report(@, [token |-> script.token, route |-> page.route,
                                              status |-> "armed", reference |-> Nothing])]

probePointSelect(page, script) ==
  [page EXCEPT !.reports = Report(@, [token |-> script.token, route |-> page.route, reference |-> Nothing,
                                      status |-> IF page.pick.token = script.token THEN "armed" ELSE "failed"])]

cancelPointSelect(page, script) ==
  IF page.pick.token = script.token THEN finishPointSelect(page, "cancelled", Nothing) ELSE page

page_runs_script ==
  /\ pointScripts # <<>>
  /\ LET script == Head(pointScripts)
     IN pointPage' = CASE script.op = "begin" -> beginPointSelect(pointPage, script)
                       [] script.op = "probe" -> probePointSelect(pointPage, script)
                       [] script.op = "cancel" -> cancelPointSelect(pointPage, script)
  /\ pointScripts' = Tail(pointScripts)
  /\ UNCHANGED <<pointPanel, pointCalls, pointEntry, pointSeen>>

Pick == pointPage.pick
Armed == Pick.token # 0

\* refFor: a hash of the element's role, name, tag and ancestry, kept for it from
\* its first use in the document; elements alike in these share it.
refFor(element) == PageReferences[pointPage.generation][element]

\* The page as the application has rendered it when an event comes: elements
\* leave the document and come back, and the pointer is over one of them or none.
PagesRendered ==
  {now \in [connected : SUBSET PointElements, target : PointElements \cup {Nothing}] :
     now.target \in now.connected \cup {Nothing}}

\* updatePointSelectHighlight: an element without a visible rectangle or a
\* stable reference is not highlighted.
updatePointSelectHighlight(pick, target) ==
  {[pick EXCEPT !.hovered = shown] : shown \in {target, Nothing}}

\* onPointerMove: a pointer that did not move, over an element that changed, is a
\* failure kept for the click; one that did move highlights what it is over.
onPointerMove(now) ==
  LET changed == /\ Pick.hovered # Nothing
                 /\ Pick.hovered \notin now.connected \/ now.target \notin {Pick.hovered, Nothing}
  IN updatePointSelectHighlight([Pick EXCEPT !.failure = now.target = Nothing], now.target)
       \cup IF changed THEN {[Pick EXCEPT !.failure = TRUE]} ELSE {}

\* onPointerDown: another button only forgets what was pressed.
onPointerDown(now) ==
  LET moved == Pick.hovered # Nothing /\ now.target # Pick.hovered
      pressed == [Pick EXCEPT !.down = now.target, !.pressed = now.target,
                              !.failure = now.target = Nothing \/ moved]
  IN {[Pick EXCEPT !.down = Nothing, !.pressed = Nothing]}
       \cup IF pressed.failure THEN {pressed} ELSE updatePointSelectHighlight(pressed, now.target)

page_pointed ==
  /\ Armed
  /\ \E pick \in UNION {onPointerMove(now) \cup onPointerDown(now) : now \in PagesRendered} :
       pointPage' = [pointPage EXCEPT !.pick = pick]
  /\ UNCHANGED <<pointPanel, pointCalls, pointEntry, pointScripts, pointSeen>>

\* Mutant: the element under the click is taken, when another one was pressed too.
click_on_another(now) ==
  IF ~Pick.failure /\ Pick.down # Nothing /\ now.target # Nothing /\ Pick.hovered = now.target
    THEN finishPointSelect(pointPage, "selected", refFor(now.target))
    ELSE finishPointSelect(pointPage, "failed", Nothing)

\* onClick: pressed, still there, still under the pointer and highlighted; what is
\* reported is its reference.
onClick(now) ==
  IF /\ ~Pick.failure /\ Pick.down # Nothing /\ Pick.down \in now.connected
     /\ now.target = Pick.down /\ Pick.hovered = now.target
    THEN finishPointSelect(pointPage, "selected", refFor(now.target))
    ELSE finishPointSelect(pointPage, "failed", Nothing)

\* The click of a person who pressed and released over one element.
PickedByHand(now) ==
  IF Pick.pressed # Nothing /\ Pick.pressed = now.target
    THEN {<<Pick.token, refFor(now.target), pointPage.generation>>} ELSE {}

page_clicked ==
  /\ Armed
  /\ \E click \in {<<onClick(now), PickedByHand(now)>> : now \in PagesRendered} :
       /\ pointPage' = click[1]
       /\ pointSeen' = [pointSeen EXCEPT !.pointed = @ \cup click[2]]
  /\ UNCHANGED <<pointPanel, pointCalls, pointEntry, pointScripts>>

onKeyDown ==
  /\ Armed
  /\ pointPage' = finishPointSelect(pointPage, "cancelled", Nothing)
  /\ UNCHANGED <<pointPanel, pointCalls, pointEntry, pointScripts, pointSeen>>

\* announceRoute: the application moves to another route of the same document.
announceRoute ==
  /\ \E route \in PointRoutes \ {pointPage.route} :
       pointPage' = finishPointSelect([pointPage EXCEPT !.route = route], "failed", Nothing)
  /\ pointSeen' = [pointSeen EXCEPT !.disturbed = @ \/ (\E c \in pointCalls : c.op = "arm")
                                                     \/ \E i \in DOMAIN pointScripts : pointScripts[i].op = "begin"]
  /\ UNCHANGED <<pointPanel, pointCalls, pointEntry, pointScripts>>

\* A new document: listeners, reports and references are those of the old one.
page_reloads ==
  /\ pointPage.generation < MaxPointDocuments
  /\ pointPage' = Document(pointPage.generation + 1, pointPage.route)
  /\ UNCHANGED <<pointPanel, pointCalls, pointEntry, pointScripts, pointSeen>>

----------------------------------------------------------------------------
(* The desktop.                                                            *)

Fail(entry) == [entry EXCEPT !.state = "Failed", !.reference = Nothing]

\* PointSelectState::complete.
complete(entry, report, generation) ==
  IF entry.token # report.token \/ entry.state # "Pending" THEN entry
  ELSE IF entry.route # report.route THEN Fail(entry)
  ELSE IF report.status = "armed"
    THEN IF entry.generation \in {0, generation} THEN [entry EXCEPT !.generation = generation] ELSE Fail(entry)
  ELSE IF entry.generation # generation THEN Fail(entry)
  ELSE [entry EXCEPT !.reference = report.reference,
                     !.state = CASE report.status = "selected" -> "Selected"
                                 [] report.status = "cancelled" -> "Cancelled"
                                 [] report.status = "failed" -> "Failed"]

caller_route_matches(report) == report.route = pointPage.route

\* The bridge's tick takes the reports and sends them one after the other; one
\* whose route is no longer the caller's is refused, and the rest is lost.
bridge_reports ==
  /\ pointPage.reports # <<>>
  /\ LET report == Head(pointPage.reports)
     IN IF caller_route_matches(report)
          THEN /\ pointEntry' = complete(pointEntry, report, pointPage.generation)
               /\ pointPage' = [pointPage EXCEPT !.reports = Tail(@)]
          ELSE pointPage' = [pointPage EXCEPT !.reports = <<>>] /\ UNCHANGED pointEntry
  /\ UNCHANGED <<pointPanel, pointCalls, pointScripts, pointSeen>>

Room == Len(pointScripts) < MaxPointScripts
Send(op, token, route) == pointScripts' = Append(pointScripts, [op |-> op, token |-> token, route |-> route])

\* A command is handled while a begin sent before it is still under way.
Overtake(token) ==
  pointSeen' = [pointSeen EXCEPT !.disturbed = @ \/ \E c \in pointCalls : c.op # "cancel" /\ c.token <= token]

\* point_select_begin: the entry first, then the script.
point_select_begin ==
  \E call \in pointCalls :
    /\ call.op = "begin"
    /\ pointEntry' = [NoEntry EXCEPT !.token = call.token, !.state = "Pending", !.route = pointPage.route]
    /\ pointCalls' = (pointCalls \ {call}) \cup {[op |-> "arm", token |-> call.token, route |-> pointPage.route]}
    /\ Overtake(call.token - 1)
    /\ UNCHANGED <<pointPanel, pointScripts, pointPage>>

\* The panel starts polling when the command answers.
begin_script ==
  \E call \in pointCalls :
    /\ call.op = "arm" /\ Room
    /\ Send("begin", call.token, call.route)
    /\ pointCalls' = pointCalls \ {call}
    /\ pointPanel' = IF pointPanel = [phase |-> "opening", token |-> call.token]
                       THEN [pointPanel EXCEPT !.phase = "polling"] ELSE pointPanel
    /\ UNCHANGED <<pointEntry, pointPage, pointSeen>>

\* PointSelectState::cancel of the entry with that token.
cancel == IF pointEntry.state = "Pending" THEN [pointEntry EXCEPT !.state = "Cancelled"] ELSE pointEntry

\* point_select_cancel: a stale token sends no script.
point_select_cancel ==
  \E call \in pointCalls :
    /\ call.op = "cancel" /\ Room
    /\ pointCalls' = pointCalls \ {call}
    /\ IF pointEntry.token = call.token
         THEN /\ pointEntry' = cancel
              /\ Send("cancel", call.token, pointEntry.route)
         ELSE UNCHANGED <<pointEntry, pointScripts>>
    /\ Overtake(call.token)
    /\ UNCHANGED <<pointPanel, pointPage>>

\* PointSelectState::status of a pending entry.
status(expired) ==
  IF pointEntry.state = "Pending" /\ (pointPage.route # pointEntry.route \/ expired) THEN Fail(pointEntry) ELSE pointEntry

\* The scripts point_select_status sends after it.
status_script(entry) ==
  CASE entry.state = "Failed" -> Send("cancel", entry.token, entry.route)
    [] entry.state = "Pending" -> Send("probe", entry.token, entry.route)
    [] OTHER -> UNCHANGED pointScripts

\* The panel's poll: it stops at the first answer that is not pending.
point_select_status ==
  /\ pointPanel.phase = "polling" /\ Room
  /\ \E expired \in BOOLEAN :
       IF pointEntry.token # pointPanel.token
         THEN pointPanel' = [pointPanel EXCEPT !.phase = "idle"] /\ UNCHANGED <<pointEntry, pointScripts>>
         ELSE /\ pointEntry' = status(expired)
              /\ status_script(status(expired))
              /\ pointPanel' = IF status(expired).state = "Pending" THEN pointPanel ELSE [pointPanel EXCEPT !.phase = "idle"]
  /\ UNCHANGED <<pointCalls, pointPage, pointSeen>>

----------------------------------------------------------------------------
(* The panel.                                                              *)

Owned == IF pointPanel.phase = "idle" THEN {} ELSE {[op |-> "cancel", token |-> pointPanel.token, route |-> Nothing]}

\* beginPointSelect: the request the panel still owns is cancelled first.
panel_begins ==
  /\ pointPanel.token < MaxPointRequests
  /\ pointPanel' = [phase |-> "opening", token |-> pointPanel.token + 1]
  /\ pointCalls' = pointCalls \cup Owned \cup {[op |-> "begin", token |-> pointPanel.token + 1, route |-> Nothing]}
  /\ UNCHANGED <<pointEntry, pointScripts, pointPage, pointSeen>>

\* cancelPointSelect, a route change the panel sees, and leaving the session.
panel_cancels ==
  /\ pointPanel.phase # "idle"
  /\ pointPanel' = [pointPanel EXCEPT !.phase = "idle"]
  /\ pointCalls' = pointCalls \cup Owned
  /\ UNCHANGED <<pointEntry, pointScripts, pointPage, pointSeen>>

PointNext ==
  \/ page_runs_script \/ page_pointed \/ page_clicked \/ onKeyDown
  \/ announceRoute \/ page_reloads \/ bridge_reports
  \/ point_select_begin \/ begin_script \/ point_select_cancel \/ point_select_status
  \/ panel_begins \/ panel_cancels

PointSpec == PointInit /\ [][PointNext]_pointVars

----------------------------------------------------------------------------
(* What a person may rely on.                                              *)

\* The desktop's entry and the page's listeners are of requests that exist.
PointTypeOK ==
  /\ pointEntry.state \in PointPhases \cup {Nothing} /\ pointEntry.token \in 0..pointPanel.token
  /\ pointPage.pick.token \in 0..pointPanel.token /\ Len(pointPage.reports) <= PointReports
  /\ pointPage.pick.hovered \in PointElements \cup {Nothing}

\* A selection is one the person made: an element with that reference was pressed
\* and released, in the document the entry names, while that request was armed,
\* however the page rendered, reloaded or lost reports in between.  (A twin of the
\* element has its reference too.)
SelectedWasPointedAt ==
  pointEntry.state = "Selected" =>
    <<pointEntry.token, pointEntry.reference, pointEntry.generation>> \in pointSeen.pointed

\* The page gets its clicks back: when the panel owns nothing and every command
\* and script has run, in the order the panel sent them and with the route a
\* begin was sent for, no listener is left that swallows them.
Settled == pointPanel.phase = "idle" /\ pointCalls = {} /\ pointScripts = <<>>
ClicksAreGivenBack == Settled /\ ~pointSeen.disturbed => ~Armed

\* A selection is the person's, and the page is theirs again after it.
SelectionIsThePersons == SelectedWasPointedAt /\ ClicksAreGivenBack

\* docs/superpowers/specs/2026-09-20-wave5-human-point-select-source-design.md:36
\* "completion, cancellation, route drift and errors remove every listener,
\* observer and overlay": the same, also when a cancellation overtakes the
\* begin it is for, or the route changes before the begin runs.
\* The code does not keep this (README.md, Where code and text disagree).
CancelledClicksAreGivenBack == Settled => ~Armed
=============================================================================
