---- MODULE ReportViewer ----
(***************************************************************************)
(* The report page (src/voiceagents/api/static/                            *)
(* realtime-validation-reports.html) over the repository of module         *)
(* ValidationRuns: it lists the saved runs once, opens the newest, and     *)
(* opens the one the user clicks on.                                       *)
(*                                                                         *)
(* Nothing cancels or orders the requests of the page.  A load of a report *)
(*   asked -> answered -> reading -> done                                  *)
(* is answered by the server at some moment, seen by the page when the     *)
(* head of the response is there (the run is selected) and again when the  *)
(* body is (the report is shown); another load may come between any two.   *)
(* A report is the finish whose summary it was built from.                 *)
(***************************************************************************)
EXTENDS ValidationRuns, FiniteSets

CONSTANTS
  NoReport,  \* the page shows no report: none yet, or the message of an error
  MaxLoads   \* bound: loads of a report

ASSUME MaxLoadsAssumption == MaxLoads \in Nat

VARIABLES
  unread,   \* the directories the answer to the list request has still to look at
  listed,   \* the finish listed for each run, 0 when it is not listed
  loads,    \* the loads of reports, in the order in which they were asked for
  selected, \* state.selectedRunId
  shown,    \* state.report
  crossed   \* history: a load began while another was under way, and none alone since

page == <<unread, listed, loads, selected, shown, crossed>>
viewerVars == <<vars, page>>

Loads == DOMAIN loads
Pending == {l \in Loads : loads[l].step # "done"}

-----------------------------------------------------------------------------
(* The server's side *)

\* list_saved_runs looks at one directory after another, while finishes go on; a
\* summary that is not whole is passed over.
ListOne(r) ==
  /\ r \in unread
  /\ unread' = unread \ {r}
  /\ listed' = [listed EXCEPT ![r] = IF Served(r) THEN summary[r] ELSE 0]
  /\ UNCHANGED <<vars, loads, selected, shown, crossed>>

Answer_FromList(l) ==  \* mutant: the verdict that was listed is served again
  /\ loads[l].step = "asked"
  /\ loads' = [loads EXCEPT ![l].step = "answered", ![l].body = listed[loads[l].run]]
  /\ UNCHANGED <<vars, unread, listed, selected, shown, crossed>>

Answer_Unparsed(l) ==  \* mutant: a summary that is there is served, whole or not
  /\ loads[l].step = "asked"
  /\ loads' = [loads EXCEPT ![l].step = "answered", ![l].body = summary[loads[l].run]]
  /\ UNCHANGED <<vars, unread, listed, selected, shown, crossed>>

\* load_report: the summary as it is now; the answer is an error (404 or 400) when
\* it is not whole.  Everything in the report follows from the summary, and the
\* report's own secret scan refuses none (ValidationPilot!ReportSupportsVerdict).
Answer(l) ==
  /\ loads[l].step = "asked"
  /\ LET r == loads[l].run
     IN loads' = [loads EXCEPT ![l].step = "answered",
                               ![l].body = IF Served(r) THEN summary[r] ELSE 0]
  /\ UNCHANGED <<vars, unread, listed, selected, shown, crossed>>

-----------------------------------------------------------------------------
(* The page *)

\* A load of r's report; the acknowledged finishes are what its user knows of.
Load(r) ==
  /\ Len(loads) < MaxLoads
  /\ loads' = Append(loads, [run |-> r, step |-> "asked", body |-> 0, knew |-> acked])
  /\ crossed' = (Pending # {})
  /\ UNCHANGED <<vars, unread, listed, selected, shown>>

\* loadRuns opens the first run of the list, which is sorted by the time the
\* finish began; buttons exist once the list is there.
LoadNewest ==
  /\ unread = {} /\ loads = <<>>
  /\ \E r \in Runs : /\ listed[r] # 0
                     /\ \A q \in Runs : listed[q] <= listed[r]
                     /\ Load(r)

Click(r) == unread = {} /\ loads # <<>> /\ listed[r] # 0 /\ Load(r)

Select(l) == selected' = loads[l].run
Step(l, step) == loads' = [loads EXCEPT ![l].step = step]

\* The head of a good response: the run is selected, the body is awaited.
Receive(l) ==
  /\ loads[l].step = "answered" /\ loads[l].body # 0
  /\ Select(l)
  /\ Step(l, "reading")
  /\ UNCHANGED <<vars, unread, listed, shown, crossed>>

ShowReport(l) ==
  /\ loads[l].step = "reading"
  /\ shown' = [run |-> loads[l].run, finish |-> loads[l].body, knew |-> loads[l].knew]
  /\ Step(l, "done")
  /\ UNCHANGED <<vars, unread, listed, selected, crossed>>

ShowError_KeepsReport(l) ==  \* mutant: state.report is not reset
  /\ loads[l].step \in {"asked", "answered", "reading"}
  /\ Select(l)
  /\ Step(l, "done")
  /\ UNCHANGED <<vars, unread, listed, shown, crossed>>

\* The catch of loadReport: the request fails on its way there or back, the
\* server stops meanwhile, or it answers with an error.
ShowError(l) ==
  /\ loads[l].step \in {"asked", "answered", "reading"}
  /\ Select(l)
  /\ shown' = NoReport
  /\ Step(l, "done")
  /\ UNCHANGED <<vars, unread, listed, crossed>>

-----------------------------------------------------------------------------

ViewerInit ==
  /\ Init
  /\ unread = Runs /\ listed = [r \in Runs |-> 0]
  /\ loads = <<>> /\ selected = NoReport /\ shown = NoReport /\ crossed = FALSE

ViewerStep ==
  \/ \E r \in Runs : ListOne(r) \/ Click(r)
  \/ LoadNewest
  \/ \E l \in Loads : Answer(l) \/ Receive(l) \/ ShowReport(l) \/ ShowError(l)

ViewerNext == ViewerStep \/ (Next /\ UNCHANGED page)

ViewerSpec == ViewerInit /\ [][ViewerNext]_viewerVars

-----------------------------------------------------------------------------
(* Properties *)

\* The list, the loads and what the page shows have their types, and so has the
\* repository.
ViewerTypeOK ==
  /\ TypeOK
  /\ unread \subseteq Runs /\ listed \in [Runs -> 0..MaxFinishes]
  /\ \A l \in Loads : /\ loads[l].run \in Runs /\ loads[l].body \in 0..MaxFinishes
                      /\ loads[l].step \in {"asked", "answered", "reading", "done"}
                      /\ loads[l].knew \subseteq acked
  /\ selected \in Runs \cup {NoReport} /\ crossed \in BOOLEAN

\* The report on the page is one of the run it names, and not one its user knew
\* to be superseded: no finish of the run that was acknowledged before the load
\* was asked for began after the shown one had been acknowledged.  The list may
\* be older than that, and the files may have been rewritten meanwhile.
ShownIsCurrent ==
  shown # NoReport =>
    /\ runOf[shown.finish] = shown.run
    /\ \A f \in shown.knew : runOf[f] = shown.run => shown.finish \notin before[f]

\* Once the loads are done, the run that is marked as selected is the one whose
\* report is shown and the last one asked for, if no two loads were under way at
\* once.  Of two that were, the page may mark one and show the other, since
\* loadReport sets selectedRunId before it awaits the body.
SelectedIsShown ==
  (Pending = {} /\ loads # <<>> /\ ~crossed) =>
    /\ selected = loads[Len(loads)].run
    /\ shown # NoReport => shown.run = selected
====
