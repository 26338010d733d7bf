---- MODULE RealtimeApi ----
(***************************************************************************)
(* The realtime HTTP API of src/voiceagents/api/app.py over its in-memory  *)
(* session store (realtime/session_store.py), tool router                  *)
(* (realtime/tool_router.py) and JSONL logs (realtime/event_log.py).       *)
(*                                                                         *)
(* FastAPI runs the three `def` handlers on worker threads and nothing is  *)
(* locked, so a worker is a small program: one action per access to the    *)
(* store or to a log file, and other workers run between two of them.      *)
(*   client-secret : idle -> log_created -> idle                           *)
(*   event         : idle -> token -> log_event -> append_transcript       *)
(*                   -> log_transcript -> update_state -> idle             *)
(*   tool-call     : idle -> bind -> token -> adapter                      *)
(*                   [-> mark_state -> mark_reason -> mark_id]             *)
(*                   -> log_tool -> append_tool_call -> idle               *)
(* What a handler does before its first such access is local and is part   *)
(* of the action of that access.                                           *)
(*                                                                         *)
(* A request that is refused, or that fails with a 4xx or 5xx, returns to  *)
(* "idle" and keeps what it has done so far.  Status codes and bodies are  *)
(* left out.  `issued`, `delivered`, `acknowledged` and the `tok`, `mode`  *)
(* and `epoch` fields of a log line are history: no guard reads them,      *)
(* except that a client can only present a token it has been given.        *)
(***************************************************************************)
EXTENDS Integers, Sequences

CONSTANTS
  Workers,        \* threads of the server's pool
  SessionIds,     \* session ids clients use
  Owners,         \* pairs (call_id, merchant_id)
  Providers,      \* realtime providers
  EventKinds,     \* the events clients send: among "delta", "done", "other"
  EventStates,    \* the `state` values clients put in an ingested event
  LoggingModes,   \* values of VOICEAGENTS_TRANSCRIPT_LOGGING: among Modes
  Lifetimes,      \* token lifetimes a provider's expires_at may yield
  DefaultTTL,     \* DEFAULT_TOOL_CALL_TOKEN_TTL_SECONDS, in clock ticks
  LogMayFail,     \* whether appending to a log file may raise
  NoSession,      \* the store has no entry
  NoRequest,      \* an idle worker's request
  MaxTime,        \* bound: clock ticks
  MaxTokens,      \* bound: sessions created
  MaxEvents,      \* bound: admitted event and tool-call requests
  MaxCrashes      \* bound: restarts of the process

Modes == {"off", "structured", "transcript"}

ASSUME BoundsAssumption ==
  /\ EventKinds \subseteq {"delta", "done", "other"} /\ LoggingModes \subseteq Modes
  /\ DefaultTTL \in Nat /\ Lifetimes \subseteq Nat
  /\ LogMayFail \in BOOLEAN
  /\ MaxTime \in Nat /\ MaxTokens \in Nat /\ MaxEvents \in Nat /\ MaxCrashes \in Nat

VARIABLES
  store,          \* InMemoryVoiceSessionStore._sessions
  eventLog,       \* lines of the voice-event JSONL file
  transcriptLog,  \* lines of the transcript JSONL file
  pc,             \* where each worker is
  req,            \* the request each worker serves
  loc,            \* each worker's local variables
  now,            \* the clock
  epoch,          \* how often the process has been restarted
  events,         \* event ids handed out so far (uuid4 never repeats)
  issued,         \* history: token number -> what it was minted for
  delivered,      \* tokens that reached a client
  acknowledged    \* event ids of requests answered with success

memory == <<store, pc, req, loc>>
files == <<eventLog, transcriptLog>>
history == <<issued, delivered, acknowledged>>
vars == <<memory, files, now, epoch, events, history>>

-----------------------------------------------------------------------------
(* Data *)

Tokens == 1..Len(issued)
Tools == {"lookup", "handoff"}
SessionStates == EventStates \cup {"idle", "tool_calling", "handoff_pending", "ended"}

CreateRequests ==
  [op : {"create"}, sid : SessionIds, owner : Owners, provider : Providers]
EventRequests(tokens) ==
  [op : {"event"}, sid : SessionIds, owner : Owners, provider : Providers,
   tok : tokens, what : EventKinds, state : EventStates]
ToolRequests(tokens) ==
  [op : {"tool"}, sid : SessionIds, owner : Owners, provider : Providers,
   tok : tokens, what : Tools]

Requests == CreateRequests \cup EventRequests(Nat) \cup ToolRequests(Nat) \cup {NoRequest}

\* VoiceSession.  ended_at is left out: only end_session sets it, and nothing
\* in the program calls end_session.  An entry of transcripts or tool_calls,
\* and a handoff field, is the event id of the request that wrote it.
Sessions ==
  [owner : Owners, provider : Providers, state : SessionStates,
   token : Nat, expires : Int,
   transcripts : Seq(Nat), tool_calls : Seq(Nat),
   handoff_reason : Nat, handoff_id : Nat]

ASSUME NoSessionAssumption == NoSession \notin Sessions

\* VoiceEvent: a line of the event log.
EventLines ==
  [id : Nat, kind : {"created", "event", "tool"}, sid : SessionIds,
   owner : Owners, provider : Providers, state : SessionStates,
   text : BOOLEAN, tok : Nat, mode : Modes, epoch : Nat]

\* RealtimeTranscriptEvent: a line of the transcript log.
TranscriptLines ==
  [id : Nat, sid : SessionIds, owner : Owners, provider : Providers]

\* What a token was minted for, and in which life of the process.
Mintings == [sid : SessionIds, owner : Owners, provider : Providers, epoch : Nat]

\* Locals of a handler: metadata_matches, event_id, transcript_logging_mode,
\* response.handoff_required, and the session object it holds (by its token).
Locals ==
  [metadata_matches : BOOLEAN, id : Nat, mode : Modes,
   handoff_required : BOOLEAN, object : Nat]

Fresh ==
  [metadata_matches |-> FALSE, id |-> 0, mode |-> "off",
   handoff_required |-> FALSE, object |-> 0]

\* The request carries transcript text: the contract requires speaker and text
\* of the four transcript event types and forbids them elsewhere.
HasText(r) == r.op = "event" /\ r.what \in {"delta", "done"}

Steps ==
  {"idle", "log_created",
   "token", "log_event", "append_transcript", "log_transcript", "update_state",
   "bind", "adapter", "mark_state", "mark_reason", "mark_id",
   "log_tool", "append_tool_call"}

Goto(w, step) == pc' = [pc EXCEPT ![w] = step]

\* The handler returns or raises: the worker takes its next request.
Finish(w) ==
  /\ Goto(w, "idle")
  /\ req' = [req EXCEPT ![w] = NoRequest]
  /\ loc' = [loc EXCEPT ![w] = Fresh]

-----------------------------------------------------------------------------
(* The session store's methods, on the store's current value *)

CreatedSession(r, token, expires) ==
  [owner |-> r.owner, provider |-> r.provider, state |-> "idle",
   token |-> token, expires |-> expires,
   transcripts |-> <<>>, tool_calls |-> <<>>,
   handoff_reason |-> 0, handoff_id |-> 0]

\* verify_tool_call_token: the stored hash matches and the token has not expired.
TokenIsValid(session, tok) == now < session.expires /\ session.token = tok

\* The first half of verify_session_token_binding.
MetadataMatches(session, r) ==
  session.owner = r.owner /\ session.provider = r.provider

-----------------------------------------------------------------------------
(* Log lines *)

Line(w, kind, state, text) ==
  [id |-> loc[w].id, kind |-> kind, sid |-> req[w].sid, owner |-> req[w].owner,
   provider |-> req[w].provider, state |-> state, text |-> text,
   tok |-> IF kind = "created" THEN loc[w].object ELSE req[w].tok,
   mode |-> loc[w].mode, epoch |-> epoch]

TranscriptLine(w) ==
  [id |-> loc[w].id, sid |-> req[w].sid, owner |-> req[w].owner,
   provider |-> req[w].provider]

KeepsTranscript_Structured(w) ==  \* mutant: also in structured mode
  HasText(req[w]) /\ loc[w].mode # "off" /\ req[w].what = "done"

\* The event leaves a line in the transcript log: a finished turn, in transcript
\* mode.
KeepsTranscript(w) ==
  HasText(req[w]) /\ loc[w].mode = "transcript" /\ req[w].what = "done"

AppendFails_Swallowed(w) ==  \* mutant: the error is caught and the handler goes on
  /\ LogMayFail
  /\ pc[w] \in {"log_event", "log_tool"}
  /\ Goto(w, IF pc[w] = "log_event" THEN "append_transcript" ELSE "append_tool_call")
  /\ UNCHANGED <<store, req, loc, files, now, epoch, events, history>>

\* The append to a log file raises and the handler answers 500.
AppendFails(w) ==
  /\ LogMayFail
  /\ \/ pc[w] \in {"log_created", "log_event", "log_tool"}
     \/ pc[w] = "log_transcript" /\ KeepsTranscript(w)
  /\ Finish(w)
  /\ UNCHANGED <<store, files, now, epoch, events, history>>

-----------------------------------------------------------------------------
(* POST /v1/realtime/client-secret *)

CreateSession_AnswersFirst(w) ==  \* mutant: the token goes out before the log line
  /\ pc[w] = "idle"
  /\ Len(issued) < MaxTokens
  /\ \E r \in CreateRequests, ttl \in Lifetimes \cup {DefaultTTL} :
       LET token == Len(issued) + 1
       IN  /\ req' = [req EXCEPT ![w] = r]
           /\ store' = [store EXCEPT ![r.sid] = CreatedSession(r, token, now + ttl)]
           /\ issued' = Append(issued, [sid |-> r.sid, owner |-> r.owner,
                                        provider |-> r.provider, epoch |-> epoch])
           /\ loc' = [loc EXCEPT ![w].object = token]
           /\ delivered' = delivered \cup {token}
  /\ Goto(w, "log_created")
  /\ UNCHANGED <<files, now, epoch, events, acknowledged>>

\* The provider is the one VOICEAGENTS_REALTIME_PROVIDER names now.  A refusal
\* by the gate (module RateGate) or a RealtimeProviderError comes before this
\* and leaves nothing in the store or the log.  create_session replaces whatever
\* session had this id; the token expires with the provider's credential, or
\* after the default lifetime.
CreateSession(w) ==
  /\ pc[w] = "idle"
  /\ Len(issued) < MaxTokens
  /\ \E r \in CreateRequests, ttl \in Lifetimes \cup {DefaultTTL} :
       LET token == Len(issued) + 1
       IN  /\ req' = [req EXCEPT ![w] = r]
           /\ store' = [store EXCEPT ![r.sid] = CreatedSession(r, token, now + ttl)]
           /\ issued' = Append(issued, [sid |-> r.sid, owner |-> r.owner,
                                        provider |-> r.provider, epoch |-> epoch])
           /\ loc' = [loc EXCEPT ![w].object = token]
  /\ Goto(w, "log_created")
  /\ UNCHANGED <<files, now, epoch, events, delivered, acknowledged>>

LogCreated(w) ==
  /\ pc[w] = "log_created"
  /\ eventLog' = Append(eventLog, Line(w, "created", "idle", FALSE))
  /\ delivered' = delivered \cup {loc[w].object}
  /\ Finish(w)
  /\ UNCHANGED <<store, transcriptLog, now, epoch, events, issued, acknowledged>>

-----------------------------------------------------------------------------
(* What the event and tool-call handlers share: bearer token and binding *)

\* The provider secret and the tool-call token travel in the response body, so
\* a client holds a token only once client-secret has answered.  0 is no token
\* of ours: a wrong or truncated one.
Presentable == delivered \cup {0}

\* verify_session_token_binding, first lookup: the metadata of the session the
\* store holds now.  An unknown session is refused.
Bind(w, r) ==
  /\ store[r.sid] # NoSession
  /\ req' = [req EXCEPT ![w] = r]
  /\ loc' = [loc EXCEPT ![w].metadata_matches = MetadataMatches(store[r.sid], r)]
  /\ Goto(w, "token")
  /\ UNCHANGED <<store, files, now, epoch, events, history>>

\* An event whose body passes find_blocked_event_keys and the ingest contract.
BindEvent(w) ==
  /\ pc[w] = "idle"
  /\ \E r \in EventRequests(Presentable) : Bind(w, r)

\* get_session_provider: the handler will bind the call to the provider the
\* session was created with, whatever the environment names now.
GetSessionProvider(w) ==
  /\ pc[w] = "idle"
  /\ \E sid \in SessionIds, owner \in Owners, tok \in Presentable, what \in Tools :
       /\ store[sid] # NoSession
       /\ req' = [req EXCEPT ![w] =
                    [op |-> "tool", sid |-> sid, owner |-> owner,
                     provider |-> store[sid].provider, tok |-> tok, what |-> what]]
  /\ Goto(w, "bind")
  /\ UNCHANGED <<store, loc, files, now, epoch, events, history>>

BindToolCall(w) ==
  /\ pc[w] = "bind"
  /\ Bind(w, req[w])

Admissible_TokenOnly(w) ==  \* mutant: metadata_matches is not used
  TokenIsValid(store[req[w].sid], req[w].tok)

\* verify_session_token_binding, second lookup: verify_tool_call_token reads the
\* session again.  An admitted event gets its id and the logging mode of the
\* moment; a tool call goes on to its adapter.
Admissible(w) ==
  /\ loc[w].metadata_matches
  /\ TokenIsValid(store[req[w].sid], req[w].tok)

AdmitEvent(w) ==
  /\ pc[w] = "token" /\ req[w].op = "event"
  /\ Admissible(w)
  /\ events < MaxEvents
  /\ events' = events + 1
  /\ \E mode \in LoggingModes : loc' = [loc EXCEPT ![w].id = events', ![w].mode = mode]
  /\ Goto(w, "log_event")
  /\ UNCHANGED <<store, req, files, now, epoch, history>>

AdmitToolCall(w) ==
  /\ pc[w] = "token" /\ req[w].op = "tool"
  /\ Admissible(w)
  /\ events < MaxEvents
  /\ events' = events + 1
  /\ loc' = [loc EXCEPT ![w].id = events']
  /\ Goto(w, "adapter")
  /\ UNCHANGED <<store, req, files, now, epoch, history>>

Refuse(w) ==
  /\ pc[w] = "token"
  /\ ~Admissible(w)
  /\ Finish(w)
  /\ UNCHANGED <<store, files, now, epoch, events, history>>

-----------------------------------------------------------------------------
(* POST /v1/realtime/event, once admitted *)

LogEvent_SessionState(w) ==  \* mutant: the line tells the state before the event
  /\ pc[w] = "log_event"
  /\ eventLog' = Append(eventLog, Line(w, "event", store[req[w].sid].state,
                                       HasText(req[w]) /\ loc[w].mode # "off"))
  /\ Goto(w, "append_transcript")
  /\ UNCHANGED <<store, req, loc, transcriptLog, now, epoch, events, history>>

\* With logging off the line carries no text.
LogEvent(w) ==
  /\ pc[w] = "log_event"
  /\ eventLog' = Append(eventLog, Line(w, "event", req[w].state,
                                       HasText(req[w]) /\ loc[w].mode # "off"))
  /\ Goto(w, "append_transcript")
  /\ UNCHANGED <<store, req, loc, transcriptLog, now, epoch, events, history>>

AppendTranscript_AnyMode(w) ==  \* mutant: the logging mode is not looked at
  /\ pc[w] = "append_transcript"
  /\ IF HasText(req[w])
     THEN store' = [store EXCEPT ![req[w].sid].transcripts = Append(@, loc[w].id)]
     ELSE UNCHANGED store
  /\ Goto(w, "log_transcript")
  /\ UNCHANGED <<req, loc, files, now, epoch, events, history>>

AppendTranscript(w) ==
  /\ pc[w] = "append_transcript"
  /\ IF HasText(req[w]) /\ loc[w].mode # "off"
     THEN store' = [store EXCEPT ![req[w].sid].transcripts = Append(@, loc[w].id)]
     ELSE UNCHANGED store
  /\ Goto(w, "log_transcript")
  /\ UNCHANGED <<req, loc, files, now, epoch, events, history>>

LogTranscript(w) ==
  /\ pc[w] = "log_transcript"
  /\ IF KeepsTranscript(w)
     THEN transcriptLog' = Append(transcriptLog, TranscriptLine(w))
     ELSE UNCHANGED transcriptLog
  /\ Goto(w, "update_state")
  /\ UNCHANGED <<store, req, loc, eventLog, now, epoch, events, history>>

UpdateState(w) ==
  /\ pc[w] = "update_state"
  /\ store' = [store EXCEPT ![req[w].sid].state = req[w].state]
  /\ acknowledged' = acknowledged \cup {loc[w].id}
  /\ Finish(w)
  /\ UNCHANGED <<files, now, epoch, events, issued, delivered>>

-----------------------------------------------------------------------------
(* POST /v1/realtime/tool-call, once admitted: RealtimeToolRouter.execute *)

\* The arguments do not fit the tool's schema (422).
RejectArguments(w) ==
  /\ pc[w] = "adapter"
  /\ Finish(w)
  /\ UNCHANGED <<store, files, now, epoch, events, history>>

\* Any tool but a successful handoff: the adapter answers, finds nothing, or
\* raises; the last two recommend a handoff without making one.  A handoff the
\* adapter does not accept, or that raises, also ends here.
RunAdapter(w) ==
  /\ pc[w] = "adapter"
  /\ \E required \in IF req[w].what = "handoff" THEN {TRUE} ELSE BOOLEAN :
       loc' = [loc EXCEPT ![w].handoff_required = required]
  /\ Goto(w, "log_tool")
  /\ UNCHANGED <<store, req, files, now, epoch, events, history>>

HandOff_NotRequired(w) ==  \* mutant: a made handoff is not reported as required
  /\ pc[w] = "adapter" /\ req[w].what = "handoff"
  /\ Goto(w, "mark_state")
  /\ UNCHANGED <<store, req, loc, files, now, epoch, events, history>>

\* The handoff adapter has taken the call; mark_handoff follows.
HandOff(w) ==
  /\ pc[w] = "adapter" /\ req[w].what = "handoff"
  /\ loc' = [loc EXCEPT ![w].handoff_required = TRUE]
  /\ Goto(w, "mark_state")
  /\ UNCHANGED <<store, req, files, now, epoch, events, history>>

\* mark_handoff: update_state looks the session up and returns the object, and
\* the two fields are then set on that object, whether or not it is still the
\* one in the store.
MarkState(w) ==
  /\ pc[w] = "mark_state"
  /\ store' = [store EXCEPT ![req[w].sid].state = "handoff_pending"]
  /\ loc' = [loc EXCEPT ![w].object = store[req[w].sid].token]
  /\ Goto(w, "mark_reason")
  /\ UNCHANGED <<req, files, now, epoch, events, history>>

HoldsCurrentObject(w) == store[req[w].sid].token = loc[w].object

MarkReason(w) ==
  /\ pc[w] = "mark_reason"
  /\ IF HoldsCurrentObject(w)
     THEN store' = [store EXCEPT ![req[w].sid].handoff_reason = loc[w].id]
     ELSE UNCHANGED store
  /\ Goto(w, "mark_id")
  /\ UNCHANGED <<req, loc, files, now, epoch, events, history>>

MarkId(w) ==
  /\ pc[w] = "mark_id"
  /\ IF HoldsCurrentObject(w)
     THEN store' = [store EXCEPT ![req[w].sid].handoff_id = loc[w].id]
     ELSE UNCHANGED store
  /\ Goto(w, "log_tool")
  /\ UNCHANGED <<req, loc, files, now, epoch, events, history>>

LogToolCall_SessionState(w) ==  \* mutant: the line tells the state the session has by now
  /\ pc[w] = "log_tool"
  /\ eventLog' = Append(eventLog, Line(w, "tool", store[req[w].sid].state, FALSE))
  /\ Goto(w, "append_tool_call")
  /\ UNCHANGED <<store, req, loc, transcriptLog, now, epoch, events, history>>

LogToolCall(w) ==
  /\ pc[w] = "log_tool"
  /\ eventLog' = Append(eventLog,
       Line(w, "tool", IF loc[w].handoff_required THEN "handoff_pending"
                                                  ELSE "tool_calling", FALSE))
  /\ Goto(w, "append_tool_call")
  /\ UNCHANGED <<store, req, loc, transcriptLog, now, epoch, events, history>>

AppendToolCall(w) ==
  /\ pc[w] = "append_tool_call"
  /\ store' = [store EXCEPT ![req[w].sid].tool_calls = Append(@, loc[w].id)]
  /\ acknowledged' = acknowledged \cup {loc[w].id}
  /\ Finish(w)
  /\ UNCHANGED <<files, now, epoch, events, issued, delivered>>

-----------------------------------------------------------------------------
(* The environment and the specification *)

Tick ==
  /\ now < MaxTime
  /\ now' = now + 1
  /\ UNCHANGED <<memory, files, epoch, events, history>>

\* The process dies and is started again: sessions and requests are gone, the
\* log files are not.
Restart ==
  /\ epoch < MaxCrashes
  /\ epoch' = epoch + 1
  /\ store' = [s \in SessionIds |-> NoSession]
  /\ pc' = [w \in Workers |-> "idle"]
  /\ req' = [w \in Workers |-> NoRequest]
  /\ loc' = [w \in Workers |-> Fresh]
  /\ UNCHANGED <<files, now, events, history>>

Init ==
  /\ store = [s \in SessionIds |-> NoSession]
  /\ eventLog = <<>> /\ transcriptLog = <<>>
  /\ pc = [w \in Workers |-> "idle"]
  /\ req = [w \in Workers |-> NoRequest]
  /\ loc = [w \in Workers |-> Fresh]
  /\ now = 0 /\ epoch = 0 /\ events = 0
  /\ issued = <<>> /\ delivered = {} /\ acknowledged = {}

\* A worker's next step, once it has taken a request.
Proceed(w) ==
  \/ LogCreated(w)
  \/ BindToolCall(w) \/ AdmitEvent(w) \/ AdmitToolCall(w) \/ Refuse(w)
  \/ LogEvent(w) \/ AppendTranscript(w) \/ LogTranscript(w) \/ UpdateState(w)
  \/ RejectArguments(w) \/ RunAdapter(w) \/ HandOff(w)
  \/ MarkState(w) \/ MarkReason(w) \/ MarkId(w)
  \/ LogToolCall(w) \/ AppendToolCall(w)
  \/ AppendFails(w)

Take(w) == CreateSession(w) \/ BindEvent(w) \/ GetSessionProvider(w)

Next ==
  \/ \E w \in Workers : Take(w) \/ Proceed(w)
  \/ Tick
  \/ Restart

Spec == Init /\ [][Next]_vars

-----------------------------------------------------------------------------
(* Properties *)

Lines == DOMAIN eventLog

\* The store, the logs, the handlers and the history have their types.
TypeOK ==
  /\ store \in [SessionIds -> Sessions \cup {NoSession}]
  /\ eventLog \in Seq(EventLines)
  /\ transcriptLog \in Seq(TranscriptLines)
  /\ pc \in [Workers -> Steps]
  /\ req \in [Workers -> Requests]
  /\ loc \in [Workers -> Locals]
  /\ now \in Nat /\ epoch \in Nat /\ events \in Nat
  /\ issued \in Seq(Mintings)
  /\ delivered \subseteq Tokens
  /\ acknowledged \subseteq Nat

\* Every line of the event log was written for a request whose token was minted
\* for that very session id, call, merchant and provider, in this life of the
\* server, although the binding check looks the session up twice and the session
\* may be replaced in between (session_store.py, verify_session_token_binding),
\* and although clients keep their tokens over a restart.
LoggedWorkIsAuthorised ==
  \A i \in Lines :
    LET l == eventLog[i]
    IN  /\ l.tok \in Tokens
        /\ issued[l.tok].sid = l.sid
        /\ issued[l.tok].owner = l.owner
        /\ issued[l.tok].provider = l.provider
        /\ issued[l.tok].epoch = l.epoch

\* Every line of the transcript log belongs to an event line with the same event
\* id and binding, written before it in transcript mode, also when a crash or a
\* failed append ends the handler between the two files.
TranscriptHasEvent ==
  \A i \in DOMAIN transcriptLog :
    \E j \in Lines :
      LET t == transcriptLog[i]
          l == eventLog[j]
      IN  /\ l.kind = "event" /\ l.mode = "transcript" /\ l.text
          /\ <<l.id, l.sid, l.owner, l.provider>> = <<t.id, t.sid, t.owner, t.provider>>

\* The session in memory is never ahead of the log: each of its transcripts and
\* tool calls has its line, for this session id, with its text.
MemoryFollowsLog ==
  \A s \in SessionIds : store[s] # NoSession =>
    /\ \A k \in DOMAIN store[s].transcripts :
         \E i \in Lines : /\ eventLog[i].id = store[s].transcripts[k]
                          /\ eventLog[i].kind = "event" /\ eventLog[i].sid = s
                          /\ eventLog[i].text
    /\ \A k \in DOMAIN store[s].tool_calls :
         \E i \in Lines : /\ eventLog[i].id = store[s].tool_calls[k]
                          /\ eventLog[i].kind = "tool" /\ eventLog[i].sid = s

\* What a client has been told succeeded is on disk, and stays there when the
\* process dies: its event or tool call, and the session of its token, which the
\* log knows before anything else it tells of that token.
AcknowledgedIsLogged ==
  /\ \A id \in acknowledged :
       \E i \in Lines : eventLog[i].id = id /\ eventLog[i].kind # "created"
  /\ \A t \in delivered :
       \E i \in Lines : /\ eventLog[i].tok = t /\ eventLog[i].kind = "created"
                        /\ \A j \in Lines : eventLog[j].tok = t => i <= j

\* An event handled with VOICEAGENTS_TRANSCRIPT_LOGGING=off leaves its text
\* nowhere: not in the event log, the transcript log or the session.
OffModeKeepsNoText ==
  \A i \in Lines : (eventLog[i].kind = "event" /\ eventLog[i].mode = "off") =>
    /\ ~eventLog[i].text
    /\ \A j \in DOMAIN transcriptLog : transcriptLog[j].id # eventLog[i].id
    /\ \A s \in SessionIds : store[s] # NoSession =>
         \A k \in DOMAIN store[s].transcripts :
           store[s].transcripts[k] # eventLog[i].id

\* A handler has changed the state of session s for a handoff, and has yet to log it.
AboutToTell(w, s) ==
  /\ pc[w] \in {"mark_reason", "mark_id", "log_tool"} /\ req[w].sid = s
  /\ loc[w].handoff_required

\* The log says, in this life of the server, that session s went into this state: in
\* the line of an event, or of a handoff.
Told(s, state) ==
  \E i \in Lines :
    LET l == eventLog[i]
    IN  /\ l.kind = "event" \/ (l.kind = "tool" /\ state = "handoff_pending")
        /\ <<l.sid, l.epoch, l.state>> = <<s, epoch, state>>

\* Although state and log are written at different steps, by several threads, and the
\* session may be replaced under them: a session has a state the log tells of it; or it
\* is new; or a handoff is about to be logged, or its append failed.  An event's state is
\* never in memory alone, not even after a failed append.
StateIsLogged ==
  \A s \in SessionIds : store[s] # NoSession =>
    \/ store[s].state = "idle"
    \/ Told(s, store[s].state)
    \/ /\ store[s].state = "handoff_pending"
       /\ LogMayFail \/ \E w \in Workers : AboutToTell(w, s)

\* The log has the line of the tool call that handed session s off.
Audited(s, id) ==
  \E i \in Lines : /\ eventLog[i].kind = "tool" /\ eventLog[i].id = id /\ eventLog[i].sid = s
                   /\ eventLog[i].state = "handoff_pending"

\* Its handler has marked the session and is about to write the line.
AboutToAudit(w, s, id) ==
  /\ pc[w] \in {"mark_id", "log_tool"} /\ req[w].sid = s
  /\ loc[w].id = id /\ loc[w].handoff_required

\* Whatever mark_handoff has left in a session, the reason of one handoff and the id
\* of another perhaps, is in the log as a handoff of that session, or a handler is on
\* the way there, with any number of handoffs, events and new sessions in between.  If
\* its append failed, which it may do only where LogMayFail, nobody has been told that
\* the handoff was made.
HandoffNotLost ==
  \A s \in SessionIds : store[s] # NoSession =>
    \A id \in {store[s].handoff_reason, store[s].handoff_id} :
      id # 0 => \/ Audited(s, id)
                \/ \E w \in Workers : AboutToAudit(w, s, id)
                \/ LogMayFail /\ id \notin acknowledged

\* voiceagents-realtime-voice-session-mvp.md says the token "must be invalid after
\* session end".  One request at a time, nothing is logged on a token after the
\* line of an event that put its session into the state `ended`.
EndedTokenIsInvalid ==
  ~ \E i, j \in Lines :
      /\ i < j /\ eventLog[i].tok = eventLog[j].tok
      /\ eventLog[i].kind = "event" /\ eventLog[i].state = "ended"
====
