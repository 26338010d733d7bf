---- MODULE ValidationPilot ----
(***************************************************************************)
(* A pilot demonstration on the browser page, from the panels to the       *)
(* verdict: what writes the panels of realtime-test.html, which outlive a  *)
(* session and are cleared by the next Start; Start Validation Run; and    *)
(* Finish Run, which reads the panels back and has them judged             *)
(* (ValidationChecks).                                                     *)
(*                                                                         *)
(* One action is one event the page handles or one click.  `answered`,     *)
(* `named` and `facts` are what really happened since the panels were last *)
(* cleared, as distinct from what the panels show of it: history.  The     *)
(* panels are text, and some of it is not the page's own: the summary of a *)
(* tool's answer, which the model or a backend wrote, and the message of a *)
(* failed tool.  A line of the one is read back as the name of a tool, and *)
(* a word of the other as an error marker; `named` and the fact "quoted"   *)
(* tell where that happened.                                               *)
(***************************************************************************)
EXTENDS ValidationChecks, Naturals

CONSTANTS
  Offered,    \* the scenarios the operator runs
  Lookups,    \* the lookup tools that the model calls
  Reasons,    \* the reasons with which the model calls handoff_to_human
  Headings,   \* what the lines of a summary, after its first, may have before a colon
  Notes,      \* the notes that the operator may write, as texts
  MaxEvents,  \* bound: events between two clicks on Start
  MaxWaiting  \* bound: calls of startSession that wait at once

Tools == {"lookup_order", "lookup_logistics", "query_product_knowledge", "handoff_to_human"}
Texts == {"plain", "blocked"}
HandoffReasons == {"none", "rag_low_confidence", "customer_requests_human"}

ASSUME PilotAssumption ==
  /\ Offered \subseteq Scenarios
  /\ Lookups \subseteq Tools \ {"handoff_to_human"} /\ Reasons \subseteq HandoffReasons
  /\ Headings \subseteq Tools \cup {"blocked"} /\ Notes \subseteq SUBSET Texts
  /\ MaxEvents \in Nat /\ MaxWaiting \in Nat

VARIABLES
  panels,    \* the panels that finishValidationRun reads
  starting,  \* state.isStarting
  waiting,   \* calls of startSession that wait, of stopped attempts too
  run,       \* scenario of state.validation.runId, or "none"
  asked,     \* scenario of the validation run whose creation is under way, or "none"
  answered,  \* history: the tools answered since the panels were cleared
  named,     \* history: the headings in their summaries
  facts,     \* history: what else happened since then
  seen,      \* how many events there were since then
  report     \* the summary saved last, with the facts at that time

clicks == <<starting, waiting>>
history == <<answered, named, facts, seen>>
vars == <<panels, clicks, run, asked, history, report>>

States == ObservedSessionStates \cup {"idle", "starting", "error", "dashscope_proxy_closed"}
EventTexts == {"plain", "blocked", "marker", "blocked marker"}
Facts == {"user", "assistant", "error", "channel error", "quoted", "handoff wanted", "handed off"}
NoReport == [scenario |-> "none"]
Readinesses == {"blocked", "ready_for_pilot", "needs_another_validation"}

-----------------------------------------------------------------------------

EmptyPanels ==
  [session |-> "idle", transcript |-> {}, assistant |-> {}, tools |-> {},
   reason |-> "none", events |-> {}]

Init ==
  /\ panels = EmptyPanels
  /\ starting = FALSE /\ waiting = 0 /\ run = "none" /\ asked = "none"
  /\ answered = {} /\ named = {} /\ facts = {} /\ seen = 0
  /\ report = NoReport

\* Something that the page handles while a session's transports are there.
Happens(new, happened) ==
  /\ seen < MaxEvents
  /\ seen' = seen + 1
  /\ panels' = new
  /\ facts' = facts \cup happened
  /\ UNCHANGED <<clicks, run, asked, report>>

Event(new, happened) == Happens(new, happened) /\ UNCHANGED <<answered, named>>

ClearPanels_Keeps(session) ==  \* mutant: the tool-calls panel is kept
  [EmptyPanels EXCEPT !.session = session, !.tools = panels.tools]

\* clearSessionPanels
ClearPanels(session) == [EmptyPanels EXCEPT !.session = session]

StartSession ==
  /\ ~starting /\ waiting < MaxWaiting
  /\ panels' = ClearPanels("starting")
  /\ starting' = TRUE /\ waiting' = waiting + 1
  /\ answered' = {} /\ named' = {} /\ facts' = {} /\ seen' = 0
  /\ UNCHANGED <<run, asked, report>>

\* However an attempt ends it clears isStarting and writes the panels, also when
\* Stop or another Start came first.
AttemptEnds(state, messages, happened) ==
  /\ waiting > 0
  /\ starting' = FALSE /\ waiting' = waiting - 1
  /\ panels' = [panels EXCEPT !.session = state, !.events = @ \cup messages]
  /\ facts' = facts \cup happened
  /\ UNCHANGED <<run, asked, answered, named, seen, report>>

StartSucceeds == \E state \in {"connected", "ready"} : AttemptEnds(state, {"plain"}, {})

\* A refused client-secret or a failed transport shows its message; the one of a
\* failed SDP exchange is an error marker, and it holds a blocked token.
StartFails ==
  \/ AttemptEnds("error", {"plain"}, {})
  \/ AttemptEnds("error", {"blocked marker"}, {"error"})

Stop_NoPanel ==  \* mutant: the panel gets state.provider, which is null by then
  /\ panels' = [panels EXCEPT !.session = "null"]
  /\ starting' = FALSE
  /\ UNCHANGED <<waiting, run, asked, history, report>>

\* stopSession leaves the panels, so that a stopped session can be judged.
Stop ==
  /\ panels' = [panels EXCEPT !.session = "ended"]
  /\ starting' = FALSE
  /\ UNCHANGED <<waiting, run, asked, history, report>>

\* The transport of the session is lost: the page says so in the session state, and
\* nowhere else.
ChannelLost ==
  /\ panels.session = "connected"
  /\ \/ \E state \in {"data_channel_closed", "dashscope_proxy_closed"} :
          Event([panels EXCEPT !.session = state], {})
     \/ Event([panels EXCEPT !.session = "data_channel_error"], {"channel error"})

UserSpeaks ==
  \E t \in Texts : Event([panels EXCEPT !.transcript = @ \cup {t}], {"user"})

\* Deltas go to the assistant-response panel.  A turn that ends without any is
\* written to both panels.
AssistantSpeaks ==
  \E t \in Texts, deltas \in BOOLEAN :
    Event([panels EXCEPT !.assistant = @ \cup {t},
                         !.transcript = IF deltas THEN @ ELSE @ \cup {t}],
          {"assistant"})

\* handleProviderEvent on an error, whose message is the provider's, or
\* relayNormalizedEvent on a refused event.
ProviderError ==
  \E e \in ErrorMarkers : Event([panels EXCEPT !.events = @ \cup {e}], {"error"})

\* relayToolCall on an answer with ok = false, of a lookup or of a handoff: the
\* error goes to provider-events, with a message that a backend or the model wrote,
\* and nothing to the tool-calls panel.  The name of an unknown tool gets there too.
ToolFails ==
  \E e \in EventTexts :
    Event([panels EXCEPT !.events = @ \cup {e}], IF e \in ErrorMarkers THEN {"quoted"} ELSE {})

\* relayToolCall on an answer with ok = true writes "name: summary" to the
\* tool-calls panel, and finishValidationRun reads the panel back by taking what is
\* before the first colon of every line.  So does every further line of a summary
\* add a name of its own.
ToolAnswers(t, reason, headings, happened) ==
  /\ Happens([panels EXCEPT !.tools = @ \cup {t} \cup headings, !.reason = reason], happened)
  /\ answered' = answered \cup {t}
  /\ named' = named \cup headings

LookupAnswers ==
  \E t \in Lookups, headings \in SUBSET Headings :
    ToolAnswers(t, panels.reason, headings, {})

\* The one lookup that answers ok together with handoff_required: the page shows a
\* handoff, and nobody has been handed over.
LowConfidence ==
  /\ "query_product_knowledge" \in Lookups
  /\ \E headings \in SUBSET Headings :
       ToolAnswers("query_product_knowledge", "rag_low_confidence", headings, {"handoff wanted"})

HandsOff ==
  \E reason \in Reasons, headings \in SUBSET Headings :
    ToolAnswers("handoff_to_human", reason, headings, {"handoff wanted", "handed off"})

StartValidation ==
  /\ asked = "none"
  /\ asked' \in Offered
  /\ UNCHANGED <<panels, clicks, run, history, report>>

ValidationStarts ==
  /\ asked # "none"
  /\ run' = asked /\ asked' = "none"
  /\ UNCHANGED <<panels, clicks, history, report>>

\* What finishValidationRun sends: the panels and the operator's assertions.
Observation(heard, quality, business, demo, notes) ==
  [session |-> panels.session, transcript |-> panels.transcript,
   assistant |-> panels.assistant, tools |-> panels.tools, reason |-> panels.reason,
   events |-> panels.events, heard |-> heard, quality |-> quality,
   business |-> business, demo |-> demo, notes |-> notes]

FinishValidation ==
  /\ run # "none"
  /\ \E heard, quality, business, demo \in BOOLEAN, notes \in Notes :
       LET o == Observation(heard, quality, business, demo, notes)
       IN report' = [scenario |-> run, passed |-> Passed(run, o), shown |-> Report(run, o),
                     confirmed |-> /\ heard /\ quality
                                   /\ (IF ExpectedHandoff[run] THEN demo ELSE business),
                     answered |-> answered, named |-> named, facts |-> facts]
  /\ UNCHANGED <<panels, clicks, run, asked, history>>

\* Bound: a demonstration is followed until its first summary is saved.  A
\* summary changes nothing that a later one is made from; what becomes of several
\* summaries of a run is the subject of ValidationRuns.
Next ==
  /\ report = NoReport
  /\ \/ StartSession \/ StartSucceeds \/ StartFails \/ Stop \/ ChannelLost
     \/ UserSpeaks \/ AssistantSpeaks \/ ProviderError
     \/ LookupAnswers \/ LowConfidence \/ HandsOff \/ ToolFails
     \/ StartValidation \/ ValidationStarts \/ FinishValidation

Spec == Init /\ [][Next]_vars

-----------------------------------------------------------------------------
(* Properties *)

\* The panels, the run and the saved summary have their types.
TypeOK ==
  /\ panels \in [session : States, transcript : SUBSET Texts, assistant : SUBSET Texts,
                 tools : SUBSET (Tools \cup {"blocked"}), reason : HandoffReasons,
                 events : SUBSET EventTexts]
  /\ starting \in BOOLEAN /\ waiting \in 0..MaxWaiting
  /\ run \in Offered \cup {"none"} /\ asked \in Offered \cup {"none"}
  /\ answered \subseteq Tools /\ named \subseteq Headings
  /\ facts \subseteq Facts /\ seen \in 0..MaxEvents
  /\ report # NoReport =>
       /\ report.scenario \in Offered
       /\ report.passed \subseteq AllChecks
       /\ report.shown.readiness \in Readinesses

Reported == report # NoReport
Ready == Reported /\ report.shown.readiness = "ready_for_pilot"

\* A run that is shown as ready for the pilot was demonstrated, as far as the panels
\* can tell: since they were cleared, every tool its scenario expects was answered
\* or named in the summary of one that was; somebody spoke; if the scenario wants a
\* human, an answer asked for one and the assistant said something; and the operator
\* confirmed it.  When no summary named a tool, all of them were answered, and a
\* human did take over.  This is finishValidationRun, the panels and
\* evaluate_validation_checks taken together.
ReadyMeansDemonstrated ==
  Ready =>
    /\ ExpectedTools[report.scenario] \subseteq report.answered \cup report.named
    /\ report.facts \cap {"user", "assistant"} # {}
    /\ ExpectedHandoff[report.scenario] => {"handoff wanted", "assistant"} \subseteq report.facts
    /\ ExpectedHandoff[report.scenario] /\ report.named = {} => "handed off" \in report.facts
    /\ report.confirmed

\* No error that the page shows in its provider-events panel is lost on its way to
\* the verdict, not by the redaction of the message that tells of it: the run is
\* blocked.  And nothing else blocks a run but a tool's message that reads like an
\* error: not a blocked token in anything that was seen or asserted, because all
\* that is saved was scrubbed.  An error of the data channel is not among those
\* errors: see ChannelErrorIsSeen.
BlockedMeansProviderError ==
  Reported =>
    /\ "error" \in report.facts => report.shown.readiness = "blocked"
    /\ report.shown.readiness = "blocked" => report.facts \cap {"error", "quoted"} # {}

\* The sections of a report never argue with its verdict, nor with what happened.
\* A report that calls a run ready warns of nothing, has no failing evidence line
\* and finds the answer acceptable; it calls a run blocked exactly when one of the
\* two lines on the system fails.  A passing line on the tools, or on a handoff that
\* the scenario wants, tells of tools that were answered or named, and of an answer
\* that asked for a human, since the panels were cleared; and a section for the
\* human agent, of such an answer too.  No saved summary is refused by the report's
\* own secret scan, since everything the report repeats was scrubbed before.
ReportSupportsVerdict ==
  Reported =>
    LET r == report.shown
    IN /\ Ready => /\ r.warnings = {} /\ r.evidence = EvidenceLines /\ r.acceptable
                   /\ r.human <=> ExpectedHandoff[report.scenario]
       /\ r.readiness = "blocked" <=> ~({"no error", "scan"} \subseteq r.evidence)
       /\ "tools" \in r.evidence
            => ExpectedTools[report.scenario] \subseteq report.answered \cup report.named
       /\ r.human \/ ("handoff" \in r.evidence /\ ExpectedHandoff[report.scenario])
            => "handoff wanted" \in report.facts
       /\ ~r.refused

\* docs/specs/voiceagents-pilot-validation-harness-v1.md: "assistant response
\* text is non-empty after redaction unless the scenario is expected to hand off
\* immediately".
AssistantIsRequired ==
  Reported /\ "assistant_response_observed" \in report.passed
           /\ ~ExpectedHandoff[report.scenario]
    => "assistant" \in report.facts

\* docs/specs/voiceagents-pilot-validation-harness-v1.md: "provider events do not
\* include known error markers such as `provider_error=`, `event_log_error=`,
\* `data_channel_error`, or `OpenAI SDP exchange failed`".  An error of the data
\* channel fails that check.
ChannelErrorIsSeen ==
  Reported /\ "channel error" \in report.facts
    => "provider_errors_absent" \notin report.passed
====
