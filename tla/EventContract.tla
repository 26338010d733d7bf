---- MODULE EventContract ----
(***************************************************************************)
(* The normalised realtime event: what POST /v1/realtime/event accepts     *)
(* (RealtimeEventIngestRequest in src/voiceagents/realtime/contracts.py),  *)
(* and what the two adapters make of a provider's events: on the page for  *)
(* OpenAI (realtime-openai-adapter.js), on the server for DashScope        *)
(* (realtime/dashscope.py).                                                *)
(*                                                                         *)
(* An event is a record [type, state, speaker, has]: `has` is the set of   *)
(* its other optional fields that are not null, and speaker is "none" when *)
(* that field is null.  A provider's event is a record [type, has].  What  *)
(* a text says is left out; a blank one counts as missing for OpenAI.      *)
(***************************************************************************)

VoiceSessionStates ==
  {"idle", "listening", "transcribing", "thinking", "tool_calling", "speaking",
   "handoff_pending", "ended", "error"}

SpeakerOf ==
  [t \in {"transcript.user.delta", "transcript.user.done",
          "transcript.assistant.delta", "transcript.assistant.done"} |->
     IF t \in {"transcript.user.delta", "transcript.user.done"} THEN "user" ELSE "assistant"]

TranscriptTypes == DOMAIN SpeakerOf
ToolTypes == {"tool_call.requested", "tool_call.result"}
EventTypes ==
  TranscriptTypes \cup ToolTypes \cup
  {"session.connecting", "session.connected", "session.ended", "session.error",
   "handoff.requested", "response.done"}

TranscriptFields == {"turn_id", "sequence", "text"}
ToolFields == {"tool_name", "provider_call_id", "tool_status", "safe_summary"}

\* validate_event_specific_fields, and the enumerations of the two fields.
Accepts(e) ==
  /\ e.type \in EventTypes /\ e.state \in VoiceSessionStates
  /\ e.type \in TranscriptTypes => e.speaker = SpeakerOf[e.type] /\ "text" \in e.has
  /\ e.type \notin TranscriptTypes => e.speaker = "none" /\ e.has \cap TranscriptFields = {}
  /\ e.has \cap ToolFields = IF e.type \in ToolTypes THEN ToolFields ELSE {}

\* The adapter returns null, or raises.
NoEvent == [type |-> "none"]

Plain(type, state) == [type |-> type, state |-> state, speaker |-> "none", has |-> {}]

-----------------------------------------------------------------------------
(* DashScope *)

DashScopeLifecycle ==
  [t \in {"dashscope.session.started", "dashscope.session.finished", "dashscope.session.error"} |->
     CASE t = "dashscope.session.started" -> Plain("session.connected", "listening")
       [] t = "dashscope.session.finished" -> Plain("session.ended", "ended")
       [] t = "dashscope.session.error" -> Plain("session.error", "error")]

\* DASHSCOPE_TRANSCRIPT_EVENT_MAP
DashScopeTranscripts ==
  [t \in {"dashscope.transcript.user.delta", "dashscope.transcript.user.done",
          "dashscope.transcript.assistant.delta", "dashscope.transcript.assistant.done"} |->
     CASE t = "dashscope.transcript.user.delta" -> <<"transcript.user.delta", "transcribing", "user">>
       [] t = "dashscope.transcript.user.done" -> <<"transcript.user.done", "thinking", "user">>
       [] t = "dashscope.transcript.assistant.delta" ->
            <<"transcript.assistant.delta", "speaking", "assistant">>
       [] t = "dashscope.transcript.assistant.done" ->
            <<"transcript.assistant.done", "listening", "assistant">>]

\* "dashscope.tool_call.requested" has a normaliser of its own, which nothing calls.
DashScopePayloads ==
  [type : DOMAIN DashScopeLifecycle \cup DOMAIN DashScopeTranscripts
          \cup {"dashscope.tool_call.requested", "other"},
   has : SUBSET {"text"}]

DashScope_SpeakerFromType(p) ==  \* mutant: whoever is not the user is the assistant
  IF p.type \in DOMAIN DashScopeLifecycle
  THEN [DashScopeLifecycle[p.type] EXCEPT !.speaker = "assistant"]
  ELSE IF p.type \in DOMAIN DashScopeTranscripts /\ "text" \in p.has
  THEN [type |-> DashScopeTranscripts[p.type][1], state |-> DashScopeTranscripts[p.type][2],
        speaker |-> DashScopeTranscripts[p.type][3], has |-> {"text"}]
  ELSE NoEvent

\* normalize_dashscope_event
DashScope(p) ==
  IF p.type \in DOMAIN DashScopeLifecycle THEN DashScopeLifecycle[p.type]
  ELSE IF p.type \in DOMAIN DashScopeTranscripts /\ "text" \in p.has
  THEN [type |-> DashScopeTranscripts[p.type][1], state |-> DashScopeTranscripts[p.type][2],
        speaker |-> DashScopeTranscripts[p.type][3], has |-> {"text"}]
  ELSE NoEvent

-----------------------------------------------------------------------------
(* OpenAI *)

OpenAIPlain ==
  [t \in {"session.created", "session.updated", "response.done", "error"} |->
     CASE t \in {"session.created", "session.updated"} -> Plain("session.connected", "idle")
       [] t = "response.done" -> Plain("response.done", "speaking")
       [] t = "error" -> Plain("session.error", "error")]

OpenAITranscripts ==
  [t \in {"response.output_audio_transcript.delta", "response.output_text.delta",
          "response.output_audio_transcript.done", "response.output_text.done",
          "conversation.item.input_audio_transcription.delta",
          "conversation.item.input_audio_transcription.segment",
          "conversation.item.input_audio_transcription.completed",
          "conversation.item.done"} |->
     CASE t \in {"response.output_audio_transcript.delta", "response.output_text.delta"} ->
            "transcript.assistant.delta"
       [] t \in {"response.output_audio_transcript.done", "response.output_text.done"} ->
            "transcript.assistant.done"
       [] t \in {"conversation.item.input_audio_transcription.delta",
                 "conversation.item.input_audio_transcription.segment"} ->
            "transcript.user.delta"
       [] t \in {"conversation.item.input_audio_transcription.completed",
                 "conversation.item.done"} -> "transcript.user.done"]

\* turn_id is the item's id and sequence an index of the content: the provider may
\* leave out either.  A function call has an id (external), and a name: the page
\* relays it only when isAllowedRealtimeTool knows its tool.
OpenAIPayloads ==
  [type : DOMAIN OpenAIPlain \cup DOMAIN OpenAITranscripts
          \cup {"response.function_call_arguments.done", "other"},
   has : SUBSET TranscriptFields]

\* normalizeOpenAIRealtimeEvent
OpenAI(p) ==
  IF p.type \in DOMAIN OpenAIPlain THEN OpenAIPlain[p.type]
  ELSE IF p.type \in DOMAIN OpenAITranscripts /\ "text" \in p.has
  THEN [type |-> OpenAITranscripts[p.type], state |-> "transcribing",
        speaker |-> SpeakerOf[OpenAITranscripts[p.type]], has |-> p.has]
  ELSE IF p.type = "response.function_call_arguments.done"
  THEN [type |-> "tool_call.requested", state |-> "tool_calling", speaker |-> "none",
        has |-> ToolFields]
  ELSE NoEvent

\* What may come out of either.
DashScopeEvents == {DashScope(p) : p \in DashScopePayloads}
OpenAIEvents == {OpenAI(p) : p \in OpenAIPayloads}
====
