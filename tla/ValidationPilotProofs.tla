---- MODULE ValidationPilotProofs ----
(***************************************************************************)
(* Proofs about ValidationPilot and the judgement of ValidationChecks, for *)
(* any scenarios on offer and demonstrations of any length: what a verdict *)
(* says of what happened, and that nothing blocked is left in a summary.   *)
(***************************************************************************)
EXTENDS ValidationPilot, TLAPS

\* What the panels of the page may hold.
Panels ==
  [session : States, transcript : SUBSET Texts, assistant : SUBSET Texts,
   tools : SUBSET (Tools \cup {"blocked"}), reason : HandoffReasons,
   events : SUBSET EventTexts]

\* The panels, the session and the history have their types.
StateTyped ==
  /\ panels \in Panels
  /\ starting \in BOOLEAN /\ waiting \in 0..MaxWaiting
  /\ run \in Offered \cup {"none"} /\ asked \in Offered \cup {"none"}
  /\ answered \subseteq Tools /\ named \subseteq Headings
  /\ facts \subseteq Facts /\ seen \in 0..MaxEvents

\* Whatever a panel shows has happened since the panels were cleared, or was written
\* there by a summary or by a tool's message; and no error is missing.
PanelsTell ==
  /\ panels.tools \subseteq answered \cup named
  /\ panels.transcript # {} => facts \cap {"user", "assistant"} # {}
  /\ panels.assistant # {} => "assistant" \in facts
  /\ panels.reason # "none" => "handoff wanted" \in facts
  /\ "handoff_to_human" \in answered => "handed off" \in facts
  /\ "error" \in facts => panels.events \cap ErrorMarkers # {}
  /\ panels.events \cap ErrorMarkers # {} => facts \cap {"error", "quoted"} # {}

\* What is asked of a saved summary.
SummaryTyped ==
  report # NoReport =>
    /\ report.scenario \in Offered
    /\ report.passed \subseteq AllChecks
    /\ report.shown.readiness \in Readinesses

\* Its type, and the three properties of the verdict.
SummaryIsSound ==
  SummaryTyped /\ ReadyMeansDemonstrated /\ BlockedMeansProviderError /\ ReportSupportsVerdict

\* The invariant of a demonstration, up to its first saved summary.
PilotInv == StateTyped /\ PanelsTell /\ SummaryIsSound

-----------------------------------------------------------------------------
(* The judgement *)

\* What finishValidationRun may send.
Observations ==
  [session : States, transcript : SUBSET Texts, assistant : SUBSET Texts,
   tools : SUBSET (Tools \cup {"blocked"}), reason : HandoffReasons,
   events : SUBSET EventTexts,
   heard : BOOLEAN, quality : BOOLEAN, business : BOOLEAN, demo : BOOLEAN,
   notes : SUBSET Texts]

\* A text or a list that was scrubbed holds no blocked token.
LEMMA Scrubbed ==
  ASSUME NEW t
  PROVE  BlockedText \cap ScrubText(t) = {} /\ BlockedText \cap ScrubList(t) = {}
<1>1. BlockedText \cap ScrubText(t) = {}
  BY DEF ScrubText, BlockedText
<1>2. BlockedText \cap ScrubList(t) = {}
  BY DEF ScrubList, BlockedText
<1> QED BY <1>1, <1>2

\* So the scan of the saved summary always passes.
LEMMA ScanPasses ==
  ASSUME NEW o \in Observations
  PROVE  Scan(o)
<1>1. /\ Saved(o).transcript = ScrubText(o.transcript)
      /\ Saved(o).assistant = ScrubText(o.assistant)
      /\ Saved(o).tools = ScrubList(o.tools) /\ Saved(o).events = ScrubList(o.events)
      /\ Saved(o).notes = ScrubText(o.notes)
  BY DEF Saved, Observations
<1>2. BlockedText \cap Details(o) = {}
  BY Scrubbed DEF Details
<1>3. /\ BlockedText \cap Saved(o).transcript = {} /\ BlockedText \cap Saved(o).assistant = {}
      /\ BlockedText \cap Saved(o).tools = {} /\ BlockedText \cap Saved(o).events = {}
      /\ BlockedText \cap Saved(o).notes = {}
  BY <1>1, Scrubbed
<1> QED BY <1>2, <1>3 DEF Scan

\* Which checks pass.
LEMMA ChecksSay ==
  ASSUME NEW s, NEW o
  PROVE  /\ "expected_tools_observed" \in PassedChecks(s, o) <=> ToolsObserved(s, o)
         /\ "expected_handoff_observed" \in PassedChecks(s, o) <=> HandoffObserved(s, o)
         /\ "transcript_observed" \in PassedChecks(s, o) <=> o.transcript # {}
         /\ "assistant_response_observed" \in PassedChecks(s, o) <=> AssistantObserved(s, o)
         /\ "provider_errors_absent" \in PassedChecks(s, o) <=> o.events \cap ErrorMarkers = {}
         /\ "manual_voice_confirmed" \in PassedChecks(s, o) <=> o.heard /\ o.quality
         /\ "manual_business_confirmed" \in PassedChecks(s, o) <=>
              IF ExpectedHandoff[s] THEN o.demo ELSE o.business
         /\ PassedChecks(s, o) \subseteq AllChecks \ {"blocked_secret_scan_passed"}
<1>1. "expected_tools_observed" \in PassedChecks(s, o) <=> ToolsObserved(s, o)
  BY DEF PassedChecks
<1>2. "expected_handoff_observed" \in PassedChecks(s, o) <=> HandoffObserved(s, o)
  BY DEF PassedChecks
<1>3. "transcript_observed" \in PassedChecks(s, o) <=> o.transcript # {}
  BY DEF PassedChecks
<1>4. "assistant_response_observed" \in PassedChecks(s, o) <=> AssistantObserved(s, o)
  BY DEF PassedChecks
<1>5. "provider_errors_absent" \in PassedChecks(s, o) <=> o.events \cap ErrorMarkers = {}
  BY DEF PassedChecks
<1>6. "manual_voice_confirmed" \in PassedChecks(s, o) <=> o.heard /\ o.quality
  BY DEF PassedChecks
<1>7. "manual_business_confirmed" \in PassedChecks(s, o) <=>
        IF ExpectedHandoff[s] THEN o.demo ELSE o.business
  BY DEF PassedChecks
<1>8. PassedChecks(s, o) \subseteq AllChecks \ {"blocked_secret_scan_passed"}
  BY DEF PassedChecks, AllChecks
<1> QED BY <1>1, <1>2, <1>3, <1>4, <1>5, <1>6, <1>7, <1>8

\* What the readiness says of the checks.
LEMMA VerdictSays ==
  ASSUME NEW s, NEW o \in Observations
  PROVE  /\ Passed(s, o) = PassedChecks(s, o) \cup {"blocked_secret_scan_passed"}
         /\ Passed(s, o) \subseteq AllChecks
         /\ Readiness(Passed(s, o)) \in Readinesses
         /\ Readiness(Passed(s, o)) = "blocked" <=> o.events \cap ErrorMarkers # {}
         /\ Readiness(Passed(s, o)) = "ready_for_pilot" => Passed(s, o) = AllChecks
<1>1. Passed(s, o) = PassedChecks(s, o) \cup {"blocked_secret_scan_passed"}
  BY ScanPasses DEF Passed
<1>2. Passed(s, o) \subseteq AllChecks
  BY <1>1, ChecksSay DEF AllChecks
<1>3. Readiness(Passed(s, o)) \in Readinesses
  BY DEF Readiness, Readinesses
<1>4. "provider_errors_absent" \in Passed(s, o) <=> o.events \cap ErrorMarkers = {}
  BY <1>1, ChecksSay
<1>5. Readiness(Passed(s, o)) = "blocked" <=> "provider_errors_absent" \notin Passed(s, o)
  BY <1>1 DEF Readiness
<1>6. Readiness(Passed(s, o)) = "ready_for_pilot" => Passed(s, o) = AllChecks
  BY DEF Readiness, Status
<1> QED BY <1>1, <1>2, <1>3, <1>4, <1>5, <1>6

\* A scenario that wants a human expects the tool that calls for one.
LEMMA HandoffsExpectTheTool ==
  \A s \in Scenarios : ExpectedHandoff[s] => "handoff_to_human" \in ExpectedTools[s]
BY DEF ExpectedTools, ExpectedHandoff, Scenarios

\* Every tool that a scenario expects is one of the four.
LEMMA ExpectedAreTools == \A s \in Scenarios : ExpectedTools[s] \subseteq Tools
BY DEF ExpectedTools, Scenarios, Tools

-----------------------------------------------------------------------------
(* The demonstration *)

\* Nothing has happened on a page that was just loaded.
LEMMA PilotStarts == Init => PilotInv
<1> SUFFICES ASSUME Init PROVE PilotInv
  OBVIOUS
<1>1. EmptyPanels \in Panels
  BY DEF EmptyPanels, Panels, States, HandoffReasons
<1>2. StateTyped
  <2>1. waiting \in 0..MaxWaiting /\ seen \in 0..MaxEvents
    BY PilotAssumption DEF Init
  <2> QED BY <1>1, <2>1 DEF Init, StateTyped
<1>3. PanelsTell
  BY DEF Init, PanelsTell, EmptyPanels, ErrorMarkers
<1>4. SummaryIsSound
  BY DEF Init, SummaryIsSound, SummaryTyped, ReadyMeansDemonstrated, Ready, Reported,
     BlockedMeansProviderError, ReportSupportsVerdict
<1> QED BY <1>2, <1>3, <1>4 DEF PilotInv

\* The two counters stay within their bounds.
LEMMA CountersStay ==
  ASSUME NEW max \in Nat, NEW n \in 0..max
  PROVE  (n < max => n + 1 \in 0..max) /\ (n > 0 => n - 1 \in 0..max)
OBVIOUS

\* What one event adds to a panel is of its type.
LEMMA PanelTypes ==
  ASSUME panels \in Panels
  PROVE  /\ \A x \in States : [panels EXCEPT !.session = x] \in Panels
         /\ \A x \in SUBSET Texts, y \in SUBSET Texts :
              [panels EXCEPT !.assistant = x, !.transcript = y] \in Panels
         /\ \A x \in SUBSET Texts : [panels EXCEPT !.transcript = x] \in Panels
         /\ \A x \in SUBSET EventTexts : [panels EXCEPT !.events = x] \in Panels
         /\ \A x \in SUBSET (Tools \cup {"blocked"}), y \in HandoffReasons :
              [panels EXCEPT !.tools = x, !.reason = y] \in Panels
BY DEF Panels

\* What the page handles keeps panels and history in step if what it adds to both
\* does.
LEMMA HappeningTells ==
  ASSUME StateTyped, PanelsTell, NEW new \in Panels, NEW happened \in SUBSET Facts,
         Happens(new, happened),
         answered \subseteq answered', answered' \subseteq Tools,
         named \subseteq named', named' \subseteq Headings,
         new.tools \subseteq panels.tools \cup answered' \cup named',
         "handoff_to_human" \in answered' \ answered => "handed off" \in happened,
         new.transcript # panels.transcript => happened \cap {"user", "assistant"} # {},
         new.assistant # panels.assistant => "assistant" \in happened,
         new.reason # panels.reason => "handoff wanted" \in happened,
         panels.events \subseteq new.events,
         new.events \cap ErrorMarkers # panels.events \cap ErrorMarkers =>
           happened \cap {"error", "quoted"} # {},
         "error" \in happened => new.events \cap ErrorMarkers # {}
  PROVE  StateTyped' /\ PanelsTell'
<1>1. /\ panels' = new /\ facts' = facts \cup happened /\ seen' = seen + 1 /\ seen < MaxEvents
      /\ UNCHANGED <<starting, waiting, run, asked, report>>
  BY DEF Happens, clicks
<1>2. StateTyped'
  <2>0. seen \in 0..MaxEvents /\ MaxEvents \in Nat /\ seen' = seen + 1 /\ seen < MaxEvents
    BY <1>1, PilotAssumption DEF StateTyped
  <2>1. seen' \in 0..MaxEvents
    BY <2>0, CountersStay, Zenon
  <2> QED BY <1>1, <2>1 DEF StateTyped
<1>3. PanelsTell'
  <2>1. new.tools \subseteq answered' \cup named'
    BY DEF PanelsTell
  <2>2. "handoff_to_human" \in answered' => "handed off" \in facts'
    BY <1>1 DEF PanelsTell
  <2>3. "error" \in facts' => new.events \cap ErrorMarkers # {}
    BY <1>1 DEF PanelsTell
  <2>4. new.events \cap ErrorMarkers # {} => facts' \cap {"error", "quoted"} # {}
    BY <1>1 DEF PanelsTell
  <2>5. /\ new.transcript # {} => facts' \cap {"user", "assistant"} # {}
        /\ new.assistant # {} => "assistant" \in facts'
        /\ new.reason # "none" => "handoff wanted" \in facts'
    BY <1>1 DEF PanelsTell
  <2> QED BY <1>1, <2>1, <2>2, <2>3, <2>4, <2>5 DEF PanelsTell
<1> QED BY <1>2, <1>3

\* The same for what answers no tool.
LEMMA EventTells ==
  ASSUME StateTyped, PanelsTell, NEW new \in Panels, NEW happened \in SUBSET Facts,
         Event(new, happened), new.tools = panels.tools, new.reason = panels.reason,
         new.transcript # panels.transcript => happened \cap {"user", "assistant"} # {},
         new.assistant # panels.assistant => "assistant" \in happened,
         panels.events \subseteq new.events,
         new.events \cap ErrorMarkers # panels.events \cap ErrorMarkers =>
           happened \cap {"error", "quoted"} # {},
         "error" \in happened => new.events \cap ErrorMarkers # {}
  PROVE  StateTyped' /\ PanelsTell'
<1>1. Happens(new, happened) /\ answered' = answered /\ named' = named
  BY DEF Event
<1>2. answered \subseteq Tools /\ named \subseteq Headings
  BY DEF StateTyped
<1> QED BY <1>1, <1>2, HappeningTells

\* The same for an answered tool.
LEMMA AnswerTells ==
  ASSUME StateTyped, PanelsTell, NEW t \in Tools, NEW reason \in HandoffReasons,
         NEW headings \in SUBSET Headings, NEW happened \in SUBSET {"handoff wanted", "handed off"},
         ToolAnswers(t, reason, headings, happened),
         t = "handoff_to_human" => "handed off" \in happened,
         reason # panels.reason => "handoff wanted" \in happened
  PROVE  StateTyped' /\ PanelsTell'
<1> DEFINE new == [panels EXCEPT !.tools = @ \cup {t} \cup headings, !.reason = reason]
<1>1. Happens(new, happened) /\ answered' = answered \cup {t} /\ named' = named \cup headings
  BY DEF ToolAnswers
<1>2. /\ panels \in Panels /\ answered \subseteq Tools /\ named \subseteq Headings
      /\ Headings \subseteq Tools \cup {"blocked"} /\ happened \in SUBSET Facts
  BY PilotAssumption DEF StateTyped, Facts
<1>3. panels.tools \cup {t} \cup headings \in SUBSET (Tools \cup {"blocked"})
  BY <1>2 DEF Panels
<1>4. new \in Panels
  BY <1>2, <1>3, PanelTypes
<1>5. /\ new.tools = panels.tools \cup {t} \cup headings /\ new.reason = reason
      /\ new.transcript = panels.transcript /\ new.assistant = panels.assistant
      /\ new.events = panels.events
  BY <1>2 DEF Panels
<1> HIDE DEF new
<1>6. "error" \notin happened
  OBVIOUS
<1>7. /\ answered \subseteq answered' /\ answered' \subseteq Tools
      /\ named \subseteq named' /\ named' \subseteq Headings
      /\ new.tools \subseteq panels.tools \cup answered' \cup named'
      /\ "handoff_to_human" \in answered' \ answered => "handed off" \in happened
  BY <1>1, <1>2, <1>5
<1> QED BY <1>1, <1>2, <1>4, <1>5, <1>6, <1>7, HappeningTells

\* The events of a session, one by one.
LEMMA EventsTell ==
  ASSUME StateTyped, PanelsTell,
         \/ ChannelLost \/ UserSpeaks \/ AssistantSpeaks \/ ProviderError
         \/ LookupAnswers \/ LowConfidence \/ HandsOff \/ ToolFails
  PROVE  StateTyped' /\ PanelsTell'
<1>0. panels \in Panels
  BY DEF StateTyped
<1>1. CASE ChannelLost
  <2>1. ASSUME NEW state \in States, NEW happened \in SUBSET {"channel error"},
               Event([panels EXCEPT !.session = state], happened)
        PROVE  StateTyped' /\ PanelsTell'
    <3> DEFINE new == [panels EXCEPT !.session = state]
    <3>1. new \in Panels /\ happened \in SUBSET Facts
      BY <1>0, PanelTypes DEF Facts
    <3>2. /\ new.tools = panels.tools /\ new.transcript = panels.transcript
          /\ new.assistant = panels.assistant /\ new.reason = panels.reason
          /\ new.events = panels.events
      BY <1>0 DEF Panels
    <3>3. Event(new, happened)
      BY <2>1
    <3> HIDE DEF new
    <3>4. "error" \notin happened
      OBVIOUS
    <3> QED BY <3>1, <3>2, <3>3, <3>4, EventTells
  <2>2. {"data_channel_closed", "data_channel_error", "dashscope_proxy_closed"} \subseteq States
    BY DEF States, ObservedSessionStates
  <2>3. CASE Event([panels EXCEPT !.session = "data_channel_error"], {"channel error"})
    <3>1. {"channel error"} \in SUBSET {"channel error"}
      OBVIOUS
    <3> QED BY <2>1, <2>2, <2>3, <3>1, Zenon
  <2>4. CASE \E state \in {"data_channel_closed", "dashscope_proxy_closed"} :
               Event([panels EXCEPT !.session = state], {})
    <3> PICK state \in {"data_channel_closed", "dashscope_proxy_closed"} :
          Event([panels EXCEPT !.session = state], {})
      BY <2>4
    <3>1. state \in States /\ {} \in SUBSET {"channel error"}
      BY <2>2
    <3> QED BY <2>1, <3>1, Zenon
  <2> QED BY <1>1, <2>3, <2>4 DEF ChannelLost
<1>2. CASE UserSpeaks
  <2> PICK t \in Texts : Event([panels EXCEPT !.transcript = @ \cup {t}], {"user"})
    BY <1>2 DEF UserSpeaks
  <2> DEFINE new == [panels EXCEPT !.transcript = @ \cup {t}]
  <2>1. panels.transcript \cup {t} \in SUBSET Texts /\ {"user"} \in SUBSET Facts
    BY <1>0 DEF Panels, Facts
  <2>2. new \in Panels
    BY <2>1, <1>0, PanelTypes
  <2>3. /\ new.tools = panels.tools /\ new.assistant = panels.assistant
        /\ new.reason = panels.reason /\ new.events = panels.events
    BY <1>0 DEF Panels
  <2>4. Event(new, {"user"})
    OBVIOUS
  <2> HIDE DEF new
  <2> QED BY <2>1, <2>2, <2>3, <2>4, EventTells
<1>3. CASE AssistantSpeaks
  <2> PICK t \in Texts, deltas \in BOOLEAN :
        Event([panels EXCEPT !.assistant = @ \cup {t},
                             !.transcript = IF deltas THEN @ ELSE @ \cup {t}],
              {"assistant"})
    BY <1>3 DEF AssistantSpeaks
  <2> DEFINE new == [panels EXCEPT !.assistant = @ \cup {t},
                                   !.transcript = IF deltas THEN @ ELSE @ \cup {t}]
  <2>1. /\ panels.assistant \cup {t} \in SUBSET Texts
        /\ (IF deltas THEN panels.transcript ELSE panels.transcript \cup {t}) \in SUBSET Texts
        /\ {"assistant"} \in SUBSET Facts
    BY <1>0 DEF Panels, Facts
  <2>2. new \in Panels
    BY <2>1, <1>0 DEF Panels
  <2>3. /\ new.tools = panels.tools /\ new.reason = panels.reason /\ new.events = panels.events
    BY <1>0 DEF Panels
  <2>4. Event(new, {"assistant"})
    OBVIOUS
  <2> HIDE DEF new
  <2> QED BY <2>1, <2>2, <2>3, <2>4, EventTells
<1>4. ASSUME NEW e \in EventTexts, NEW happened \in SUBSET {"error", "quoted"},
             Event([panels EXCEPT !.events = @ \cup {e}], happened),
             happened # {} <=> e \in ErrorMarkers
      PROVE  StateTyped' /\ PanelsTell'
  <2> DEFINE new == [panels EXCEPT !.events = @ \cup {e}]
  <2>1. panels.events \cup {e} \in SUBSET EventTexts /\ happened \in SUBSET Facts
    BY <1>0 DEF Panels, Facts
  <2>2. new \in Panels
    BY <2>1, <1>0, PanelTypes
  <2>3. /\ new.tools = panels.tools /\ new.transcript = panels.transcript
        /\ new.assistant = panels.assistant /\ new.reason = panels.reason
        /\ new.events = panels.events \cup {e}
    BY <1>0 DEF Panels
  <2>4. Event(new, happened)
    BY <1>4
  <2> HIDE DEF new
  <2>5. /\ new.events \cap ErrorMarkers # panels.events \cap ErrorMarkers
             => happened \cap {"error", "quoted"} # {}
        /\ "error" \in happened => new.events \cap ErrorMarkers # {}
    BY <2>3, <1>4
  <2> QED BY <2>1, <2>2, <2>3, <2>4, <2>5, EventTells
<1>5. CASE ProviderError
  <2> PICK e \in ErrorMarkers : Event([panels EXCEPT !.events = @ \cup {e}], {"error"})
    BY <1>5 DEF ProviderError
  <2>1. e \in EventTexts
    BY DEF EventTexts, ErrorMarkers
  <2> QED BY <2>1, <1>4
<1>6. CASE ToolFails
  <2> PICK e \in EventTexts :
        Event([panels EXCEPT !.events = @ \cup {e}],
              IF e \in ErrorMarkers THEN {"quoted"} ELSE {})
    BY <1>6 DEF ToolFails
  <2>1. CASE e \in ErrorMarkers
    BY <2>1, <1>4
  <2>2. CASE e \notin ErrorMarkers
    BY <2>2, <1>4
  <2> QED BY <2>1, <2>2
<1>7. CASE LookupAnswers
  <2> PICK t \in Lookups, headings \in SUBSET Headings :
        ToolAnswers(t, panels.reason, headings, {})
    BY <1>7 DEF LookupAnswers
  <2>1. t \in Tools /\ t # "handoff_to_human" /\ panels.reason \in HandoffReasons
    BY <1>0, PilotAssumption DEF Panels
  <2> QED BY <2>1, AnswerTells
<1>8. CASE LowConfidence
  <2> PICK headings \in SUBSET Headings :
        ToolAnswers("query_product_knowledge", "rag_low_confidence", headings, {"handoff wanted"})
    BY <1>8 DEF LowConfidence
  <2>1. "query_product_knowledge" \in Tools /\ "rag_low_confidence" \in HandoffReasons
    BY DEF Tools, HandoffReasons
  <2> QED BY <2>1, AnswerTells
<1>9. CASE HandsOff
  <2> PICK reason \in Reasons, headings \in SUBSET Headings :
        ToolAnswers("handoff_to_human", reason, headings, {"handoff wanted", "handed off"})
    BY <1>9 DEF HandsOff
  <2>1. "handoff_to_human" \in Tools /\ reason \in HandoffReasons
    BY PilotAssumption DEF Tools
  <2> QED BY <2>1, AnswerTells
<1> QED BY <1>1, <1>2, <1>3, <1>5, <1>6, <1>7, <1>8, <1>9

\* An attempt to start a session adds its message and, if it is an error marker,
\* the error.
LEMMA AttemptTells ==
  ASSUME StateTyped, PanelsTell, NEW state \in States,
         NEW messages \in SUBSET EventTexts,
         NEW happened \in SUBSET {"error"}, AttemptEnds(state, messages, happened),
         messages \cap ErrorMarkers # {} <=> "error" \in happened
  PROVE  StateTyped' /\ PanelsTell'
<1>0. panels \in Panels
  BY DEF StateTyped
<1>1. /\ waiting > 0 /\ starting' = FALSE /\ waiting' = waiting - 1
      /\ panels' = [panels EXCEPT !.session = state, !.events = @ \cup messages]
      /\ facts' = facts \cup happened /\ UNCHANGED <<run, asked, answered, named, seen>>
  BY DEF AttemptEnds
<1>2. panels' \in Panels
  BY <1>0, <1>1 DEF Panels
<1>3. /\ panels'.tools = panels.tools /\ panels'.transcript = panels.transcript
      /\ panels'.assistant = panels.assistant /\ panels'.reason = panels.reason
      /\ panels'.events = panels.events \cup messages
  BY <1>0, <1>1 DEF Panels
<1>4. StateTyped'
  <2>0. /\ waiting \in 0..MaxWaiting /\ MaxWaiting \in Nat
        /\ waiting' = waiting - 1 /\ waiting > 0
    BY <1>1, PilotAssumption DEF StateTyped
  <2>1. waiting' \in 0..MaxWaiting
    BY <2>0, CountersStay, Zenon
  <2>2. facts' \subseteq Facts
    BY <1>1 DEF StateTyped, Facts
  <2> QED BY <1>1, <1>2, <2>1, <2>2 DEF StateTyped
<1>5. PanelsTell'
  BY <1>1, <1>3 DEF PanelsTell
<1> QED BY <1>4, <1>5

\* The clicks and what becomes of them.
LEMMA ClicksTell ==
  ASSUME StateTyped, PanelsTell,
         \/ StartSession \/ StartSucceeds \/ StartFails \/ Stop
         \/ StartValidation \/ ValidationStarts \/ FinishValidation
  PROVE  StateTyped' /\ PanelsTell'
<1>0. panels \in Panels
  BY DEF StateTyped
<1>1. CASE StartSession
  <2>1. /\ panels' = ClearPanels("starting") /\ answered' = {} /\ named' = {}
        /\ facts' = {} /\ seen' = 0 /\ starting' = TRUE /\ waiting < MaxWaiting /\ waiting' = waiting + 1
        /\ UNCHANGED <<run, asked>>
    BY <1>1 DEF StartSession
  <2>2. panels' = [session |-> "starting", transcript |-> {}, assistant |-> {}, tools |-> {},
                   reason |-> "none", events |-> {}]
    BY <2>1 DEF ClearPanels, EmptyPanels
  <2>3. panels' \in Panels
    BY <2>2 DEF Panels, States, HandoffReasons
  <2>4. StateTyped'
    <3>0. waiting \in 0..MaxWaiting /\ MaxWaiting \in Nat /\ MaxEvents \in Nat
      BY PilotAssumption DEF StateTyped
    <3>1. waiting' \in 0..MaxWaiting /\ seen' \in 0..MaxEvents
      BY <2>1, <3>0
    <3> QED BY <2>1, <2>3, <3>1 DEF StateTyped
  <2>5. /\ panels'.transcript = {} /\ panels'.assistant = {} /\ panels'.tools = {}
        /\ panels'.reason = "none" /\ panels'.events = {}
    BY <2>2
  <2>6. PanelsTell'
    BY <2>1, <2>5 DEF PanelsTell
  <2> QED BY <2>4, <2>6
<1>2. CASE StartSucceeds
  <2> PICK state \in {"connected", "ready"} : AttemptEnds(state, {"plain"}, {})
    BY <1>2 DEF StartSucceeds
  <2>1. state \in States /\ {"plain"} \cap ErrorMarkers = {} /\ {"plain"} \subseteq EventTexts
    BY DEF States, ObservedSessionStates, ErrorMarkers, EventTexts
  <2> QED BY <2>1, AttemptTells
<1>3. CASE StartFails
  <2>1. "error" \in States /\ {"plain"} \cap ErrorMarkers = {}
        /\ {"blocked marker"} \cap ErrorMarkers # {}
        /\ {"plain"} \subseteq EventTexts /\ {"blocked marker"} \subseteq EventTexts
    BY DEF States, ErrorMarkers, EventTexts
  <2>2. CASE AttemptEnds("error", {"plain"}, {})
    BY <2>1, <2>2, AttemptTells
  <2>3. CASE AttemptEnds("error", {"blocked marker"}, {"error"})
    BY <2>1, <2>3, AttemptTells
  <2> QED BY <1>3, <2>2, <2>3 DEF StartFails
<1>4. CASE Stop
  <2>1. /\ panels' = [panels EXCEPT !.session = "ended"] /\ starting' = FALSE
        /\ UNCHANGED <<waiting, run, asked, answered, named, facts, seen>>
    BY <1>4 DEF Stop, history
  <2>2. panels' \in Panels
    BY <2>1, <1>0 DEF Panels, States, ObservedSessionStates
  <2>3. /\ panels'.tools = panels.tools /\ panels'.transcript = panels.transcript
        /\ panels'.assistant = panels.assistant /\ panels'.reason = panels.reason
        /\ panels'.events = panels.events
    BY <1>0, <2>1 DEF Panels
  <2>4. StateTyped'
    BY <2>1, <2>2 DEF StateTyped
  <2>5. PanelsTell'
    BY <2>1, <2>3 DEF PanelsTell
  <2> QED BY <2>4, <2>5
<1>5. CASE StartValidation \/ ValidationStarts \/ FinishValidation
  <2>1. UNCHANGED <<panels, starting, waiting, answered, named, facts, seen>>
    BY <1>5 DEF StartValidation, ValidationStarts, FinishValidation, clicks, history
  <2>2. run' \in Offered \cup {"none"} /\ asked' \in Offered \cup {"none"}
    BY <1>5 DEF StartValidation, ValidationStarts, FinishValidation, StateTyped
  <2> QED BY <2>1, <2>2 DEF StateTyped, PanelsTell
<1> QED BY <1>1, <1>2, <1>3, <1>4, <1>5

-----------------------------------------------------------------------------
(* The verdict *)

\* A summary is judged from panels that tell what happened.
LEMMA FinishIsSound ==
  ASSUME StateTyped, PanelsTell, FinishValidation
  PROVE  SummaryIsSound'
<1> PICK heard \in BOOLEAN, quality \in BOOLEAN, business \in BOOLEAN, demo \in BOOLEAN,
         notes \in Notes :
      report' = [scenario |-> run,
                 passed |-> Passed(run, Observation(heard, quality, business, demo, notes)),
                 shown |-> Report(run, Observation(heard, quality, business, demo, notes)),
                 confirmed |-> /\ heard /\ quality
                               /\ (IF ExpectedHandoff[run] THEN demo ELSE business),
                 answered |-> answered, named |-> named, facts |-> facts]
  BY DEF FinishValidation
<1> DEFINE o == Observation(heard, quality, business, demo, notes)
<1>1. run \in Offered /\ run \in Scenarios
  BY PilotAssumption DEF FinishValidation, StateTyped
<1>20. notes \in SUBSET Texts
  BY PilotAssumption
<1>2. /\ o \in Observations
      /\ o.transcript = panels.transcript /\ o.assistant = panels.assistant
      /\ o.tools = panels.tools /\ o.reason = panels.reason /\ o.events = panels.events
      /\ o.heard = heard /\ o.quality = quality /\ o.business = business /\ o.demo = demo
  BY <1>20 DEF Observation, Observations, StateTyped, Panels
<1> DEFINE passed == Passed(run, o)
<1>3. /\ report'.scenario = run /\ report'.passed = passed /\ report'.shown = Report(run, o)
      /\ report'.confirmed = (heard /\ quality /\ IF ExpectedHandoff[run] THEN demo ELSE business)
      /\ report'.answered = answered /\ report'.named = named
      /\ report'.facts = facts
  OBVIOUS
<1> HIDE DEF o
<1>4. /\ passed = PassedChecks(run, o) \cup {"blocked_secret_scan_passed"}
      /\ passed \subseteq AllChecks /\ Readiness(passed) \in Readinesses
      /\ Readiness(passed) = "blocked" <=> o.events \cap ErrorMarkers # {}
      /\ Readiness(passed) = "ready_for_pilot" => passed = AllChecks
  BY <1>2, VerdictSays
<1>5. /\ "expected_tools_observed" \in passed <=> ToolsObserved(run, o)
      /\ "expected_handoff_observed" \in passed <=> HandoffObserved(run, o)
      /\ "transcript_observed" \in passed <=> o.transcript # {}
      /\ "assistant_response_observed" \in passed <=> AssistantObserved(run, o)
      /\ "provider_errors_absent" \in passed <=> o.events \cap ErrorMarkers = {}
      /\ "manual_voice_confirmed" \in passed <=> heard /\ quality
      /\ "manual_business_confirmed" \in passed <=>
           IF ExpectedHandoff[run] THEN demo ELSE business
  BY <1>2, <1>4, ChecksSay
<1> HIDE DEF passed
<1>6. ASSUME "expected_tools_observed" \in passed
      PROVE  ExpectedTools[run] \subseteq answered \cup named
  BY <1>1, <1>2, <1>5, <1>6, ExpectedAreTools DEF ToolsObserved, PanelsTell, Tools
<1>7. ASSUME "expected_handoff_observed" \in passed, ExpectedHandoff[run]
      PROVE  "handoff wanted" \in facts
  BY <1>2, <1>5, <1>7 DEF HandoffObserved, PanelsTell
<1>8. Report(run, o).readiness = Readiness(passed)
  BY DEF Report, passed
<1>9. SummaryTyped'
  BY <1>1, <1>3, <1>4, <1>8 DEF SummaryTyped
<1>10. ReadyMeansDemonstrated'
  <2> SUFFICES ASSUME Readiness(passed) = "ready_for_pilot"
               PROVE  /\ ExpectedTools[run] \subseteq answered \cup named
                      /\ facts \cap {"user", "assistant"} # {}
                      /\ ExpectedHandoff[run] => {"handoff wanted", "assistant"} \subseteq facts
                      /\ ExpectedHandoff[run] /\ named = {} => "handed off" \in facts
                      /\ heard /\ quality /\ IF ExpectedHandoff[run] THEN demo ELSE business
    BY <1>3, <1>8 DEF ReadyMeansDemonstrated, Ready, Reported
  <2>1. /\ "expected_tools_observed" \in passed /\ "expected_handoff_observed" \in passed
        /\ "transcript_observed" \in passed /\ "assistant_response_observed" \in passed
        /\ "manual_voice_confirmed" \in passed /\ "manual_business_confirmed" \in passed
    BY <1>4 DEF AllChecks
  <2>2. facts \cap {"user", "assistant"} # {}
    BY <2>1, <1>2, <1>5 DEF PanelsTell
  <2>3. ExpectedHandoff[run] => {"handoff wanted", "assistant"} \subseteq facts
    BY <2>1, <1>2, <1>5, <1>7 DEF AssistantObserved, PanelsTell
  <2>4. ExpectedHandoff[run] /\ named = {} => "handed off" \in facts
    BY <2>1, <1>1, <1>6, HandoffsExpectTheTool DEF PanelsTell
  <2> QED BY <2>1, <2>2, <2>3, <2>4, <1>5, <1>6
<1>11. BlockedMeansProviderError'
  BY <1>2, <1>3, <1>4, <1>8 DEF BlockedMeansProviderError, Reported, PanelsTell
<1>12. ReportSupportsVerdict'
  <2> DEFINE r == Report(run, o)
  <2>1. /\ r.evidence = Evidence(passed, o) /\ r.warnings = AllChecks \ passed
        /\ r.acceptable = (business \/ demo) /\ r.human = (o.reason # "none")
        /\ r.refused = (BlockedText \cap (ScrubList({o.reason}) \cup Details(o)) # {})
    BY <1>2 DEF Report, passed
  <2>2. /\ "no error" \in Evidence(passed, o) <=> "provider_errors_absent" \in passed
        /\ "scan" \in Evidence(passed, o) <=> "blocked_secret_scan_passed" \in passed
        /\ "tools" \in Evidence(passed, o) <=> "expected_tools_observed" \in passed
        /\ "handoff" \in Evidence(passed, o) <=> "expected_handoff_observed" \in passed
        /\ "voice" \in Evidence(passed, o) <=> o.heard
        /\ "business" \in Evidence(passed, o) <=> "manual_business_confirmed" \in passed
        /\ Evidence(passed, o) \subseteq EvidenceLines
    BY DEF Evidence, EvidenceLines
  <2>3. ASSUME Readiness(passed) = "ready_for_pilot"
        PROVE  /\ r.warnings = {} /\ r.evidence = EvidenceLines /\ r.acceptable
               /\ r.human <=> ExpectedHandoff[run]
    <3>1. passed = AllChecks
      BY <2>3, <1>4
    <3>2. r.evidence = EvidenceLines
      <4>1. heard /\ "manual_business_confirmed" \in passed
        BY <3>1, <1>5 DEF AllChecks
      <4>2. /\ "expected_tools_observed" \in passed /\ "expected_handoff_observed" \in passed
            /\ "provider_errors_absent" \in passed /\ "blocked_secret_scan_passed" \in passed
        BY <3>1 DEF AllChecks
      <4>3. EvidenceLines \subseteq Evidence(passed, o)
        BY <4>1, <4>2, <2>2, <1>2 DEF EvidenceLines
      <4> QED BY <4>3, <2>1, <2>2
    <3>3. r.acceptable
      BY <3>1, <2>1, <1>5 DEF AllChecks
    <3>4. r.human <=> ExpectedHandoff[run]
      BY <3>1, <2>1, <1>5 DEF AllChecks, HandoffObserved
    <3> QED BY <3>1, <3>2, <3>3, <3>4, <2>1
  <2>4. Readiness(passed) = "blocked" <=> ~({"no error", "scan"} \subseteq r.evidence)
    BY <2>1, <2>2, <1>4, <1>5
  <2>5. ~r.refused
    BY <2>1, Scrubbed DEF Details
  <2> HIDE DEF r
  <2>6. "tools" \in r.evidence => ExpectedTools[run] \subseteq answered \cup named
    BY <2>1, <2>2, <1>6
  <2>7. r.human \/ ("handoff" \in r.evidence /\ ExpectedHandoff[run])
          => "handoff wanted" \in facts
    BY <2>1, <2>2, <1>2, <1>7 DEF PanelsTell
  <2>8. report'.shown = r /\ r.readiness = Readiness(passed)
    BY <1>3, <1>8 DEF r
  <2> QED BY <2>3, <2>4, <2>5, <2>6, <2>7, <2>8, <1>3
       DEF ReportSupportsVerdict, Ready, Reported
<1> QED BY <1>9, <1>10, <1>11, <1>12 DEF SummaryIsSound

\* A step that saves nothing leaves nothing to show.
LEMMA NothingSaved ==
  ASSUME SummaryIsSound, report' = report
  PROVE  SummaryIsSound'
BY DEF SummaryIsSound, SummaryTyped, ReadyMeansDemonstrated, Ready, Reported,
   BlockedMeansProviderError, ReportSupportsVerdict

\* Every step of a demonstration preserves the invariant.
LEMMA PilotSteps == PilotInv /\ [Next]_vars => PilotInv'
<1> SUFFICES ASSUME PilotInv, [Next]_vars PROVE PilotInv'
  OBVIOUS
<1> USE DEF PilotInv
<1>1. CASE \/ ChannelLost \/ UserSpeaks \/ AssistantSpeaks \/ ProviderError
           \/ LookupAnswers \/ LowConfidence \/ HandsOff \/ ToolFails
  <2>1. report' = report
    BY <1>1 DEF ChannelLost, UserSpeaks, AssistantSpeaks, ProviderError, LookupAnswers,
       LowConfidence, HandsOff, ToolFails, ToolAnswers, Event, Happens
  <2> QED BY <1>1, <2>1, EventsTell, NothingSaved
<1>2. CASE StartSession \/ StartSucceeds \/ StartFails \/ Stop \/ StartValidation \/ ValidationStarts
  <2>1. report' = report
    BY <1>2 DEF StartSession, StartSucceeds, StartFails, AttemptEnds, Stop, StartValidation,
       ValidationStarts
  <2> QED BY <1>2, <2>1, ClicksTell, NothingSaved
<1>3. CASE FinishValidation
  BY <1>3, ClicksTell, FinishIsSound
<1>4. CASE UNCHANGED vars
  <2>1. StateTyped' /\ PanelsTell'
    BY <1>4 DEF vars, clicks, history, StateTyped, PanelsTell
  <2> QED BY <1>4, <2>1, NothingSaved DEF vars
<1> QED BY <1>1, <1>2, <1>3, <1>4 DEF Next

\* So it is an invariant of every demonstration.
LEMMA SpecPilot == Spec => []PilotInv
BY PilotStarts, PilotSteps, PTL DEF Spec

\* The panels, the run and the saved summary keep their types.
THEOREM PilotTypes == Spec => []TypeOK
<1>1. PilotInv => TypeOK
  BY DEF PilotInv, StateTyped, Panels, SummaryIsSound, SummaryTyped, TypeOK
<1> QED BY <1>1, SpecPilot, PTL

\* Whatever session attempts, events and clicks come before it, a summary that is
\* shown as ready for the pilot is one of a scenario that was demonstrated, but for
\* tools that no more than a summary named.
THEOREM PilotReadyMeansDemonstrated == Spec => []ReadyMeansDemonstrated
BY SpecPilot, PTL DEF PilotInv, SummaryIsSound

\* evaluate_validation_checks and the scrubbing before them lose no error that the
\* provider-events panel shows, and block no run for a token that was seen.
THEOREM PilotBlockedMeansProviderError == Spec => []BlockedMeansProviderError
BY SpecPilot, PTL DEF PilotInv, SummaryIsSound

\* The sections of the report agree with the verdict and with what happened, and
\* the report's own scan refuses no saved summary.
THEOREM PilotReportSupportsVerdict == Spec => []ReportSupportsVerdict
BY SpecPilot, PTL DEF PilotInv, SummaryIsSound
====
