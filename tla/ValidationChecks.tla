---- MODULE ValidationChecks ----
(***************************************************************************)
(* How a finished validation run is judged: evaluate_validation_checks,    *)
(* the redaction of what is saved, and the readiness that the report       *)
(* viewer shows (src/voiceagents/realtime/validation.py).                  *)
(*                                                                         *)
(* A text is the set of the kinds of text it contains: "plain" words and   *)
(* "blocked" ones, which hold a token the saved files must not hold        *)
(* (BLOCKED_REPORT_TEXT_TOKENS: an API key name, client_secret, sdp ...).  *)
(* {} is the empty text, or white space.  A provider event is "plain", a   *)
(* "marker" (one of PROVIDER_ERROR_MARKERS), "blocked", or both at once,   *)
(* "blocked marker": "OpenAI SDP exchange failed" contains "sdp".          *)
(*                                                                         *)
(* An observation is the finish request, a record with the fields          *)
(*   session, transcript, assistant, tools, reason, events, heard,         *)
(*   quality, business, demo, notes                                        *)
(* the last five being what the operator asserts.                          *)
(***************************************************************************)

Scenarios == {"order_status", "logistics_tracking", "product_knowledge",
              "knowledge_low_confidence_handoff", "customer_requested_human"}

ExpectedTools ==
  [s \in Scenarios |->
     CASE s = "order_status" -> {"lookup_order"}
       [] s = "logistics_tracking" -> {"lookup_logistics"}
       [] s = "product_knowledge" -> {"query_product_knowledge"}
       [] s = "knowledge_low_confidence_handoff" -> {"query_product_knowledge", "handoff_to_human"}
       [] s = "customer_requested_human" -> {"handoff_to_human"}]

ExpectedHandoff ==
  [s \in Scenarios |-> s \in {"knowledge_low_confidence_handoff", "customer_requested_human"}]

ObservedSessionStates == {"connected", "ready", "ended", "data_channel_closed", "data_channel_error"}

-----------------------------------------------------------------------------
(* The checks *)

ErrorMarkers == {"marker", "blocked marker"}

ToolsObserved(s, o) == ExpectedTools[s] \subseteq o.tools

HandoffObserved(s, o) == ExpectedHandoff[s] = (o.reason # "none")

AssistantObserved(s, o) == ~ExpectedHandoff[s] \/ o.assistant # {}

\* Everything is judged on the request as it came, before redaction.
PassedChecks(s, o) ==
  {c \in {"session_observed", "expected_tools_observed", "expected_handoff_observed",
          "transcript_observed", "assistant_response_observed", "provider_errors_absent",
          "manual_voice_confirmed", "manual_business_confirmed"} :
     CASE c = "session_observed" -> o.session \in ObservedSessionStates
       [] c = "expected_tools_observed" -> ToolsObserved(s, o)
       [] c = "expected_handoff_observed" -> HandoffObserved(s, o)
       [] c = "transcript_observed" -> o.transcript # {}
       [] c = "assistant_response_observed" -> AssistantObserved(s, o)
       [] c = "provider_errors_absent" -> o.events \cap ErrorMarkers = {}
       [] c = "manual_voice_confirmed" -> o.heard /\ o.quality
       [] c = "manual_business_confirmed" -> IF ExpectedHandoff[s] THEN o.demo ELSE o.business}

AllChecks == {"session_observed", "expected_tools_observed", "expected_handoff_observed",
              "transcript_observed", "assistant_response_observed", "provider_errors_absent",
              "manual_voice_confirmed", "manual_business_confirmed", "blocked_secret_scan_passed"}

-----------------------------------------------------------------------------
(* What is saved *)

BlockedText == {"blocked", "blocked marker"}

\* _scrub_blocked_tokens: a string that holds a blocked token is replaced whole.
\* Applied to a list of strings it replaces those members only.
ScrubText(text) == IF text \cap BlockedText = {} THEN text ELSE {"redacted"}
ScrubList(list) == {IF t \in BlockedText THEN "redacted" ELSE t : t \in list}

\* The details of the checks repeat the session state and the tool names as
\* they came, so they are scrubbed on their own.
Details_Raw(o) == {o.session} \cup o.tools  \* mutant: details are saved as they came

Details(o) == ScrubList({o.session} \cup o.tools)

\* The summary that is written, apart from the checks' results.
Saved(o) ==
  [o EXCEPT !.transcript = ScrubText(@), !.assistant = ScrubText(@),
            !.tools = ScrubList(@), !.events = ScrubList(@), !.notes = ScrubText(@)]

Scan(o) ==
  LET saved == Saved(o)
  IN BlockedText \cap (saved.transcript \cup saved.assistant \cup saved.tools
                       \cup saved.events \cup saved.notes \cup Details(o)) = {}

-----------------------------------------------------------------------------
(* The verdict *)

Passed(s, o) ==
  PassedChecks(s, o) \cup (IF Scan(o) THEN {"blocked_secret_scan_passed"} ELSE {})

Status(passed) == IF passed = AllChecks THEN "pass" ELSE "fail"

\* derive_validation_report_readiness, from the saved checks.
Readiness(passed) ==
  IF ~({"provider_errors_absent", "blocked_secret_scan_passed"} \subseteq passed) THEN "blocked"
  ELSE IF Status(passed) = "pass" THEN "ready_for_pilot"
  ELSE "needs_another_validation"

-----------------------------------------------------------------------------
(* The report that is served for a saved summary *)

EvidenceLines == {"voice", "business", "tools", "handoff", "no error", "scan"}

Evidence_HandoffSeen(passed, o) ==  \* mutant: the line tells of a handoff, not of its check
  {e \in EvidenceLines :
     CASE e = "voice" -> o.heard
       [] e = "business" -> "manual_business_confirmed" \in passed
       [] e = "tools" -> "expected_tools_observed" \in passed
       [] e = "handoff" -> o.reason # "none"
       [] e = "no error" -> "provider_errors_absent" \in passed
       [] e = "scan" -> "blocked_secret_scan_passed" \in passed}

\* The lines of _report_evidence that say "passed".  The first is read from the
\* operator's assertion, the others from the saved checks.
Evidence(passed, o) ==
  {e \in EvidenceLines :
     CASE e = "voice" -> o.heard
       [] e = "business" -> "manual_business_confirmed" \in passed
       [] e = "tools" -> "expected_tools_observed" \in passed
       [] e = "handoff" -> "expected_handoff_observed" \in passed
       [] e = "no error" -> "provider_errors_absent" \in passed
       [] e = "scan" -> "blocked_secret_scan_passed" \in passed}

\* build_validation_run_report: what its sections say.  The section for the service
\* manager accepts either of the two assertions on the answer, whichever the
\* scenario asks for.  A report that holds a blocked token is refused.
Report(s, o) ==
  LET passed == Passed(s, o)
  IN [readiness |-> Readiness(passed), evidence |-> Evidence(passed, o),
      warnings |-> AllChecks \ passed,
      acceptable |-> o.business \/ o.demo,
      human |-> o.reason # "none",
      refused |-> BlockedText \cap (ScrubList({o.reason}) \cup Details(o)) # {}]
====
