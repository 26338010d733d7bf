---- MODULE RealtimeApiProofs ----
(***************************************************************************)
(* Proofs about RealtimeApi for every value of its constants: its types,   *)
(* that what is logged is bound to the credential it was admitted on, that *)
(* memory, transcripts, answers and the states of sessions never get ahead *)
(* of the log, and that no handoff is lost.                                *)
(***************************************************************************)
EXTENDS RealtimeApi, TLAPS

EventSteps == {"log_event", "append_transcript", "log_transcript", "update_state"}
ToolSteps == {"adapter", "mark_state", "mark_reason", "mark_id", "log_tool",
              "append_tool_call"}
Admitted == EventSteps \cup ToolSteps
Bound == {"bind", "token"} \cup Admitted

\* A request of the kind a handler has at a step.
Fits(step, r) ==
  /\ step = "log_created" => r \in CreateRequests
  /\ step = "bind" => r \in ToolRequests(Nat)
  /\ step = "token" => r \in EventRequests(Nat) \cup ToolRequests(Nat)
  /\ step \in EventSteps => r \in EventRequests(Nat)
  /\ step \in ToolSteps => r \in ToolRequests(Nat)

RequestsFit == \A w \in Workers : Fits(pc[w], req[w])

\* A worker past its first lookup has seen a session under its id, and sessions
\* are only ever replaced.
SessionsPresent ==
  \A w \in Workers : pc[w] \in Bound => store[req[w].sid] # NoSession

HandlerTypes == pc \in [Workers -> Steps] /\ req \in [Workers -> Requests]
                  /\ loc \in [Workers -> Locals]
Handlers == HandlerTypes /\ RequestsFit /\ SessionsPresent
StoreType == store \in [SessionIds -> Sessions \cup {NoSession}]
FileTypes == eventLog \in Seq(EventLines) /\ transcriptLog \in Seq(TranscriptLines)
CounterTypes == now \in Nat /\ epoch \in Nat /\ events \in Nat
HistoryTypes == issued \in Seq(Mintings) /\ delivered \subseteq Tokens /\ acknowledged \subseteq Nat

Types == Handlers /\ StoreType /\ FileTypes /\ CounterTypes /\ HistoryTypes

\* The grouped types imply the type invariant that TLC checks.
LEMMA TypesAreTypeOK == Types => TypeOK
BY DEF Types, Handlers, HandlerTypes, StoreType, FileTypes, CounterTypes, HistoryTypes, TypeOK

-----------------------------------------------------------------------------
(* Lemmas about records *)

\* Every request that is bound to a session names one.
LEMMA FitsSid ==
  ASSUME NEW step \in Bound, NEW r, Fits(step, r)
  PROVE  /\ r.sid \in SessionIds /\ r.owner \in Owners /\ r.provider \in Providers
         /\ r.tok \in Nat
BY DEF Bound, Fits, Admitted, EventSteps, ToolSteps, EventRequests, ToolRequests

\* The request of a handler at a bound step is one of the two endpoints' requests.
LEMMA FitsRequest ==
  ASSUME NEW step \in Bound, NEW r, Fits(step, r)
  PROVE  r \in EventRequests(Nat) \cup ToolRequests(Nat)
BY DEF Bound, Fits, Admitted

\* The store's methods keep a session a session.
LEMMA UpdatedSession ==
  ASSUME NEW s \in Sessions, NEW state \in SessionStates, NEW id \in Nat
  PROVE  /\ [s EXCEPT !.state = state] \in Sessions
         /\ [s EXCEPT !.handoff_reason = id] \in Sessions
         /\ [s EXCEPT !.handoff_id = id] \in Sessions
         /\ [s EXCEPT !.transcripts = Append(@, id)] \in Sessions
         /\ [s EXCEPT !.tool_calls = Append(@, id)] \in Sessions
<1>1. /\ [s EXCEPT !.state = state] \in Sessions
      /\ [s EXCEPT !.handoff_reason = id] \in Sessions
      /\ [s EXCEPT !.handoff_id = id] \in Sessions
  BY DEF Sessions
<1>2. ASSUME NEW log \in Seq(Nat)
      PROVE  /\ [s EXCEPT !.transcripts = log] \in Sessions
             /\ [s EXCEPT !.tool_calls = log] \in Sessions
  BY DEF Sessions
<1>3. s.transcripts \in Seq(Nat) /\ s.tool_calls \in Seq(Nat)
  BY DEF Sessions
<1>4. Append(s.transcripts, id) \in Seq(Nat) /\ Append(s.tool_calls, id) \in Seq(Nat)
  BY <1>3
<1> QED BY <1>1, <1>2, <1>4

\* create_session makes a session of the right type.
LEMMA CreatedIsSession ==
  ASSUME NEW r \in CreateRequests, NEW token \in Nat, NEW expires \in Int
  PROVE  CreatedSession(r, token, expires) \in Sessions
BY DEF CreatedSession, CreateRequests, Sessions, SessionStates

\* Sessions are replaced, never removed.
Kept == \A s \in SessionIds : store[s] # NoSession => store'[s] # NoSession

\* What the setters of the store write is a session again.
LEMMA ReplacedSession ==
  ASSUME StoreType, NEW sid \in SessionIds, NEW session \in Sessions,
         store' = [store EXCEPT ![sid] = session]
  PROVE  StoreType' /\ Kept /\ store'[sid] # NoSession
BY NoSessionAssumption DEF StoreType, Kept

\* What a worker's step has to establish about the handlers.
LEMMA WorkerStep ==
  ASSUME Handlers, Kept, NEW w \in Workers,
         NEW step \in Steps, NEW r \in Requests, NEW l \in Locals,
         pc' = [pc EXCEPT ![w] = step], req' = [req EXCEPT ![w] = r],
         loc' = [loc EXCEPT ![w] = l],
         Fits(step, r), step \in Bound => store'[r.sid] # NoSession
  PROVE  Handlers'
<1>1. HandlerTypes'
  BY DEF Handlers, HandlerTypes
<1>2. \A v \in Workers : v # w => pc'[v] = pc[v] /\ req'[v] = req[v]
  BY DEF Handlers, HandlerTypes
<1>3. pc'[w] = step /\ req'[w] = r
  BY DEF Handlers, HandlerTypes
<1>4. RequestsFit'
  BY <1>2, <1>3 DEF Handlers, RequestsFit, Fits
<1>5. SessionsPresent'
  <2> SUFFICES ASSUME NEW v \in Workers, v # w, pc[v] \in Bound
               PROVE  store'[req[v].sid] # NoSession
    BY <1>2, <1>3 DEF SessionsPresent
  <2>1. Fits(pc[v], req[v]) /\ store[req[v].sid] # NoSession
    BY DEF Handlers, RequestsFit, SessionsPresent
  <2>2. req[v].sid \in SessionIds
    BY <2>1, FitsSid
  <2> QED BY <2>1, <2>2 DEF Kept
<1> QED BY <1>1, <1>4, <1>5 DEF Handlers

\* The same for a step that keeps its request, in the same handler.
LEMMA SameRequest ==
  ASSUME Handlers, Kept, NEW w \in Workers, NEW step \in Steps, NEW l \in Locals,
         pc' = [pc EXCEPT ![w] = step], req' = req, loc' = [loc EXCEPT ![w] = l],
         pc[w] \in Bound, step \in Bound, Fits(step, req[w])
  PROVE  Handlers'
<1>1. req' = [req EXCEPT ![w] = req[w]] /\ req[w] \in Requests
  BY DEF Handlers, HandlerTypes
<1>2. store[req[w].sid] # NoSession /\ req[w].sid \in SessionIds
  BY FitsSid DEF Handlers, RequestsFit, SessionsPresent
<1>3. store'[req[w].sid] # NoSession
  BY <1>2 DEF Kept
<1> QED BY <1>1, <1>3, WorkerStep

\* The same for a handler that ends.
LEMMA FinishStep ==
  ASSUME Handlers, Kept, NEW w \in Workers, Finish(w)
  PROVE  Handlers'
<1>1. "idle" \in Steps /\ NoRequest \in Requests /\ Fresh \in Locals
  BY DEF Steps, Requests, Fresh, Locals, Modes
<1>2. Fits("idle", NoRequest) /\ "idle" \notin Bound
  BY DEF Fits, Bound, Admitted, EventSteps, ToolSteps
<1> QED BY <1>1, <1>2, WorkerStep DEF Finish, Goto

\* A line that a handler writes has the type of a line.
LEMMA LineType ==
  ASSUME Types, NEW w \in Workers, NEW kind \in {"created", "event", "tool"},
         NEW state \in SessionStates, NEW text \in BOOLEAN,
         kind = "created" => pc[w] = "log_created",
         kind # "created" => pc[w] \in Admitted
  PROVE  Line(w, kind, state, text) \in EventLines
<1>1. loc[w] \in Locals /\ epoch \in Nat /\ Fits(pc[w], req[w])
  BY DEF Types, Handlers, HandlerTypes, CounterTypes, RequestsFit
<1>2. CASE kind = "created"
  <2>1. req[w] \in CreateRequests
    BY <1>1, <1>2 DEF Fits
  <2> QED BY <1>1, <1>2, <2>1 DEF Line, EventLines, Locals, CreateRequests
<1>3. CASE kind # "created"
  <2>1. req[w] \in EventRequests(Nat) \cup ToolRequests(Nat)
    BY <1>1, <1>3, FitsRequest DEF Bound
  <2> QED BY <1>1, <1>3, <2>1 DEF Line, EventLines, Locals, EventRequests, ToolRequests
<1> QED BY <1>2, <1>3

-----------------------------------------------------------------------------
(* The types are inductive *)

\* The types hold in a fresh server.
LEMMA InitTypes == Init => Types
<1> SUFFICES ASSUME Init PROVE Types
  OBVIOUS
<1>1. Handlers
  BY DEF Init, Handlers, HandlerTypes, RequestsFit, Fits, SessionsPresent, Bound, Admitted,
     EventSteps, ToolSteps, Steps, Requests, Locals, Fresh, Modes
<1>2. StoreType /\ FileTypes /\ CounterTypes /\ HistoryTypes
  BY DEF Init, StoreType, FileTypes, CounterTypes, HistoryTypes, Tokens
<1> QED BY <1>1, <1>2 DEF Types

\* A step that changes neither the store, the files nor the history.
Quiet == UNCHANGED <<store, eventLog, transcriptLog, now, epoch, issued, delivered, acknowledged>>

\* The steps that only move a handler keep its type.
LEMMA QuietStep ==
  ASSUME Types, Quiet, Handlers', events' \in Nat
  PROVE  Types'
BY DEF Types, Quiet, StoreType, FileTypes, CounterTypes, HistoryTypes, Tokens

\* A step that only moves a handler removes no session.
LEMMA QuietKept == Quiet => Kept
BY DEF Quiet, Kept

\* What Types says of one worker.
LEMMA WorkerTypes ==
  ASSUME Types, NEW w \in Workers
  PROVE  /\ pc[w] \in Steps /\ req[w] \in Requests /\ loc[w] \in Locals
         /\ Fits(pc[w], req[w])
         /\ pc[w] \in Bound =>
              /\ req[w].sid \in SessionIds
              /\ store[req[w].sid] \in Sessions
              /\ store[req[w].sid] # NoSession
<1>1. pc[w] \in Steps /\ req[w] \in Requests /\ loc[w] \in Locals /\ Fits(pc[w], req[w])
  BY DEF Types, Handlers, HandlerTypes, RequestsFit
<1>2. ASSUME pc[w] \in Bound
      PROVE  /\ req[w].sid \in SessionIds
             /\ store[req[w].sid] \in Sessions
             /\ store[req[w].sid] # NoSession
  <2>1. req[w].sid \in SessionIds
    BY <1>1, <1>2, FitsSid
  <2> QED BY <1>2, <2>1 DEF Types, Handlers, SessionsPresent, StoreType
<1> QED BY <1>1, <1>2

\* create_session keeps the types.
LEMMA TypesCreateSession ==
  ASSUME Types, NEW w \in Workers, CreateSession(w)
  PROVE  Types'
<1> PICK r \in CreateRequests, ttl \in Lifetimes \cup {DefaultTTL} :
      /\ req' = [req EXCEPT ![w] = r]
      /\ store' = [store EXCEPT ![r.sid] = CreatedSession(r, Len(issued) + 1, now + ttl)]
      /\ issued' = Append(issued, [sid |-> r.sid, owner |-> r.owner,
                                   provider |-> r.provider, epoch |-> epoch])
      /\ loc' = [loc EXCEPT ![w].object = Len(issued) + 1]
  BY Zenon DEF CreateSession
<1>1. /\ pc' = [pc EXCEPT ![w] = "log_created"]
      /\ UNCHANGED <<eventLog, transcriptLog, now, epoch, events, delivered, acknowledged>>
  BY DEF CreateSession, Goto, files
<1>2. Len(issued) + 1 \in Nat /\ now + ttl \in Int
  BY BoundsAssumption DEF Types, HistoryTypes, CounterTypes
<1>3. CreatedSession(r, Len(issued) + 1, now + ttl) \in Sessions /\ r.sid \in SessionIds
  BY <1>2, CreatedIsSession DEF CreateRequests
<1>4. StoreType' /\ Kept
  BY <1>3, ReplacedSession DEF Types
<1>5. Handlers'
  <2>1. [loc[w] EXCEPT !.object = Len(issued) + 1] \in Locals
    BY <1>2, WorkerTypes DEF Locals
  <2>2. "log_created" \in Steps /\ r \in Requests /\ Fits("log_created", r)
          /\ "log_created" \notin Bound
    BY DEF Steps, Requests, Fits, Bound, Admitted, EventSteps, ToolSteps
  <2>3. loc' = [loc EXCEPT ![w] = [loc[w] EXCEPT !.object = Len(issued) + 1]]
    OBVIOUS
  <2> QED BY <1>1, <1>4, <2>1, <2>2, <2>3, WorkerStep DEF Types
<1>6. HistoryTypes'
  <2>1. [sid |-> r.sid, owner |-> r.owner, provider |-> r.provider, epoch |-> epoch]
          \in Mintings
    BY DEF Mintings, CreateRequests, Types, CounterTypes
  <2> QED BY <1>1, <2>1 DEF Types, HistoryTypes, Tokens
<1> QED BY <1>1, <1>4, <1>5, <1>6 DEF Types, FileTypes, CounterTypes

\* The session_created line and the answer to client-secret keep the types.
LEMMA TypesLogCreated ==
  ASSUME Types, NEW w \in Workers, LogCreated(w),
         pc[w] = "log_created" => loc[w].object \in Tokens
  PROVE  Types'
<1>1. Line(w, "created", "idle", FALSE) \in EventLines
  BY LineType DEF LogCreated, SessionStates
<1>2. Handlers'
  BY FinishStep DEF LogCreated, Kept, Types
<1>3. FileTypes'
  <2> PICK line \in EventLines : eventLog' = Append(eventLog, line)
    BY <1>1, Zenon DEF LogCreated
  <2>1. transcriptLog' = transcriptLog
    BY DEF LogCreated
  <2> QED BY <2>1 DEF Types, FileTypes
<1>4. HistoryTypes'
  BY DEF LogCreated, Types, HistoryTypes, Tokens
<1>5. StoreType' /\ CounterTypes'
  BY DEF LogCreated, Types, StoreType, CounterTypes
<1> QED BY <1>2, <1>3, <1>4, <1>5 DEF Types

\* The first half of verify_session_token_binding keeps the types.
LEMMA TypesBind ==
  ASSUME Types, NEW w \in Workers, NEW r \in EventRequests(Nat) \cup ToolRequests(Nat),
         Bind(w, r)
  PROVE  Types'
<1>1. /\ pc' = [pc EXCEPT ![w] = "token"] /\ req' = [req EXCEPT ![w] = r]
      /\ store[r.sid] # NoSession /\ Quiet /\ events' = events
  BY DEF Bind, Goto, Quiet, files, history
<1>2. loc' = [loc EXCEPT ![w] = [loc[w] EXCEPT !.metadata_matches
                                    = MetadataMatches(store[r.sid], r)]]
  BY DEF Bind
<1>3. [loc[w] EXCEPT !.metadata_matches = MetadataMatches(store[r.sid], r)] \in Locals
  <2>1. MetadataMatches(store[r.sid], r) \in BOOLEAN
    BY DEF MetadataMatches
  <2> QED BY <2>1, WorkerTypes DEF Locals
<1>4. "token" \in Steps /\ r \in Requests /\ Fits("token", r)
  BY DEF Steps, Requests, Fits, EventSteps, ToolSteps
<1>5. store'[r.sid] # NoSession
  BY <1>1 DEF Quiet
<1>6. Handlers'
  BY <1>1, <1>2, <1>3, <1>4, <1>5, QuietKept, WorkerStep DEF Types
<1> QED BY <1>1, <1>6, QuietStep DEF Types, CounterTypes

\* get_session_provider keeps the types.
LEMMA TypesGetSessionProvider ==
  ASSUME Types, NEW w \in Workers, GetSessionProvider(w)
  PROVE  Types'
<1> PICK sid \in SessionIds, owner \in Owners, tok \in Presentable, what \in Tools :
      /\ store[sid] # NoSession
      /\ req' = [req EXCEPT ![w] =
                   [op |-> "tool", sid |-> sid, owner |-> owner,
                    provider |-> store[sid].provider, tok |-> tok, what |-> what]]
  BY Zenon DEF GetSessionProvider
<1> DEFINE r == [op |-> "tool", sid |-> sid, owner |-> owner,
                 provider |-> store[sid].provider, tok |-> tok, what |-> what]
<1>1. pc' = [pc EXCEPT ![w] = "bind"] /\ loc' = loc /\ Quiet /\ events' = events
  BY DEF GetSessionProvider, Goto, Quiet, files, history
<1>2. store[sid].provider \in Providers
  BY DEF Types, StoreType, Sessions
<1>3. tok \in Nat
  BY DEF Presentable, Types, HistoryTypes, Tokens
<1>4. r \in ToolRequests(Nat)
  BY <1>2, <1>3 DEF ToolRequests
<1>5. "bind" \in Steps /\ r \in Requests /\ Fits("bind", r) /\ r.sid = sid
  BY <1>4 DEF Steps, Requests, Fits, EventSteps, ToolSteps
<1>6. loc' = [loc EXCEPT ![w] = loc[w]] /\ loc[w] \in Locals
  BY <1>1 DEF Types, Handlers, HandlerTypes
<1>7. store'[r.sid] # NoSession
  BY <1>1, <1>5 DEF Quiet
<1>8. Handlers'
  BY <1>1, <1>5, <1>6, <1>7, QuietKept, WorkerStep DEF Types
<1> QED BY <1>1, <1>8, QuietStep DEF Types, CounterTypes

\* A step of an admitted request that changes at most its own place and locals.
LEMMA TypesQuietly ==
  ASSUME Types, NEW w \in Workers, NEW step \in Steps, NEW l \in Locals, Quiet,
         pc' = [pc EXCEPT ![w] = step], req' = req, loc' = [loc EXCEPT ![w] = l],
         events' \in Nat, pc[w] \in Bound, step \in Bound, Fits(step, req[w])
  PROVE  Types'
BY SameRequest, QuietKept, QuietStep DEF Types

\* The second half of the binding check keeps the types.
LEMMA TypesAdmit ==
  ASSUME Types, NEW w \in Workers, AdmitEvent(w) \/ AdmitToolCall(w)
  PROVE  Types'
<1>1. pc[w] = "token" /\ Quiet /\ events' = events + 1 /\ req' = req
  BY DEF AdmitEvent, AdmitToolCall, Quiet, files, history
<1>2. events' \in Nat /\ loc[w] \in Locals /\ Fits("token", req[w]) /\ "token" \in Bound
  BY <1>1, WorkerTypes DEF Types, CounterTypes, Bound
<1>3. CASE AdmitEvent(w)
  <2> PICK mode \in LoggingModes : loc' = [loc EXCEPT ![w].id = events', ![w].mode = mode]
    BY <1>3 DEF AdmitEvent
  <2>1. loc' = [loc EXCEPT ![w] = [loc[w] EXCEPT !.id = events', !.mode = mode]]
    BY DEF Types, Handlers, HandlerTypes
  <2>2. [loc[w] EXCEPT !.id = events', !.mode = mode] \in Locals
    BY <1>2, BoundsAssumption DEF Locals
  <2>3. pc' = [pc EXCEPT ![w] = "log_event"] /\ req[w].op = "event"
    BY <1>3 DEF AdmitEvent, Goto
  <2>4. "log_event" \in Steps /\ "log_event" \in Bound /\ Fits("log_event", req[w])
    BY <1>2, <2>3 DEF Steps, Bound, Admitted, EventSteps, ToolSteps, Fits, ToolRequests
  <2> QED BY <1>1, <1>2, <2>1, <2>2, <2>3, <2>4, TypesQuietly
<1>4. CASE AdmitToolCall(w)
  <2>1. loc' = [loc EXCEPT ![w] = [loc[w] EXCEPT !.id = events']]
    BY <1>4 DEF AdmitToolCall
  <2>2. [loc[w] EXCEPT !.id = events'] \in Locals
    BY <1>2 DEF Locals
  <2>3. pc' = [pc EXCEPT ![w] = "adapter"] /\ req[w].op = "tool"
    BY <1>4 DEF AdmitToolCall, Goto
  <2>4. "adapter" \in Steps /\ "adapter" \in Bound /\ Fits("adapter", req[w])
    BY <1>2, <2>3 DEF Steps, Bound, Admitted, EventSteps, ToolSteps, Fits, EventRequests
  <2> QED BY <1>1, <1>2, <2>1, <2>2, <2>3, <2>4, TypesQuietly
<1> QED BY <1>3, <1>4

\* Refuse, RejectArguments and AppendFails: the handler ends.
LEMMA TypesEnd ==
  ASSUME Types, NEW w \in Workers, Finish(w), Quiet, events' = events
  PROVE  Types'
BY FinishStep, QuietKept, QuietStep DEF Types, CounterTypes

\* A lookup adapter's answer keeps the types.
LEMMA TypesRunAdapter ==
  ASSUME Types, NEW w \in Workers, RunAdapter(w) \/ HandOff(w)
  PROVE  Types'
<1>1. /\ pc[w] = "adapter" /\ Quiet /\ events' = events /\ req' = req
      /\ \E step \in {"log_tool", "mark_state"} : pc' = [pc EXCEPT ![w] = step]
      /\ \E required \in BOOLEAN : loc' = [loc EXCEPT ![w].handoff_required = required]
  BY DEF RunAdapter, HandOff, Quiet, files, history, Goto
<1> PICK step \in {"log_tool", "mark_state"} : pc' = [pc EXCEPT ![w] = step]
  BY <1>1
<1> PICK required \in BOOLEAN : loc' = [loc EXCEPT ![w].handoff_required = required]
  BY <1>1
<1>2. loc' = [loc EXCEPT ![w] = [loc[w] EXCEPT !.handoff_required = required]]
  OBVIOUS
<1>3. [loc[w] EXCEPT !.handoff_required = required] \in Locals /\ Fits("adapter", req[w])
  BY <1>1, WorkerTypes DEF Locals
<1>4. step \in Steps /\ step \in Bound /\ "adapter" \in Bound /\ Fits(step, req[w])
  BY <1>3 DEF Steps, Bound, Admitted, EventSteps, ToolSteps, Fits
<1> QED BY <1>1, <1>2, <1>3, <1>4, TypesQuietly DEF Types, CounterTypes

\* A step that writes a line to a log file and keeps the rest.
LEMMA TypesWrite ==
  ASSUME Types, NEW w \in Workers, NEW step \in Steps,
         FileTypes', pc' = [pc EXCEPT ![w] = step],
         UNCHANGED <<store, req, loc, now, epoch, events, history>>,
         pc[w] \in Bound, step \in Bound, Fits(step, req[w])
  PROVE  Types'
<1>1. loc' = [loc EXCEPT ![w] = loc[w]] /\ loc[w] \in Locals /\ req' = req /\ Kept
  BY WorkerTypes DEF Types, Handlers, HandlerTypes, Kept
<1>2. Handlers'
  BY <1>1, SameRequest DEF Types
<1> QED BY <1>2 DEF Types, StoreType, CounterTypes, HistoryTypes, Tokens, history

\* The append of an event keeps the types.
LEMMA TypesLogEvent ==
  ASSUME Types, NEW w \in Workers, LogEvent(w)
  PROVE  Types'
<1> DEFINE text == HasText(req[w]) /\ loc[w].mode # "off"
<1>1. pc[w] = "log_event" /\ pc[w] \in Admitted
  BY DEF LogEvent, Admitted, EventSteps
<1>2. req[w] \in EventRequests(Nat)
  BY <1>1, WorkerTypes DEF Fits, EventSteps
<1>3. req[w].state \in SessionStates /\ text \in BOOLEAN
  BY <1>2 DEF EventRequests, SessionStates, HasText
<1>4. Line(w, "event", req[w].state, text) \in EventLines
  BY <1>1, <1>3, LineType
<1>5. FileTypes'
  <2> PICK line \in EventLines : eventLog' = Append(eventLog, line)
    BY <1>4, Zenon DEF LogEvent
  <2>1. transcriptLog' = transcriptLog
    BY DEF LogEvent
  <2> QED BY <2>1 DEF Types, FileTypes
<1>6. pc' = [pc EXCEPT ![w] = "append_transcript"]
        /\ UNCHANGED <<store, req, loc, now, epoch, events, history>>
  BY DEF LogEvent, Goto
<1>7. "append_transcript" \in Steps /\ Fits("append_transcript", req[w])
        /\ "append_transcript" \in Bound /\ pc[w] \in Bound
  BY <1>1, <1>2 DEF Steps, Fits, Bound, Admitted, EventSteps, ToolSteps
<1> QED BY <1>5, <1>6, <1>7, TypesWrite

\* The append of a tool call keeps the types.
LEMMA TypesLogToolCall ==
  ASSUME Types, NEW w \in Workers, LogToolCall(w)
  PROVE  Types'
<1> DEFINE state == IF loc[w].handoff_required THEN "handoff_pending" ELSE "tool_calling"
<1>1. pc[w] = "log_tool" /\ pc[w] \in Admitted
  BY DEF LogToolCall, Admitted, ToolSteps
<1>2. req[w] \in ToolRequests(Nat)
  BY <1>1, WorkerTypes DEF Fits, ToolSteps
<1>3. state \in SessionStates
  BY DEF SessionStates
<1>4. Line(w, "tool", state, FALSE) \in EventLines
  BY <1>1, <1>3, LineType
<1>5. FileTypes'
  <2> PICK line \in EventLines : eventLog' = Append(eventLog, line)
    BY <1>4, Zenon DEF LogToolCall
  <2>1. transcriptLog' = transcriptLog
    BY DEF LogToolCall
  <2> QED BY <2>1 DEF Types, FileTypes
<1>6. pc' = [pc EXCEPT ![w] = "append_tool_call"]
        /\ UNCHANGED <<store, req, loc, now, epoch, events, history>>
  BY DEF LogToolCall, Goto
<1>7. "append_tool_call" \in Steps /\ Fits("append_tool_call", req[w])
        /\ "append_tool_call" \in Bound /\ pc[w] \in Bound
  BY <1>1, <1>2 DEF Steps, Fits, Bound, Admitted, EventSteps, ToolSteps
<1> QED BY <1>5, <1>6, <1>7, TypesWrite

\* The append to the transcript log keeps the types.
LEMMA TypesLogTranscript ==
  ASSUME Types, NEW w \in Workers, LogTranscript(w)
  PROVE  Types'
<1>1. pc[w] = "log_transcript"
  BY DEF LogTranscript
<1>2. req[w] \in EventRequests(Nat) /\ loc[w] \in Locals
  BY <1>1, WorkerTypes DEF Fits, EventSteps
<1>3. TranscriptLine(w) \in TranscriptLines
  BY <1>2 DEF TranscriptLine, TranscriptLines, EventRequests, Locals
<1>4. FileTypes'
  BY <1>3 DEF LogTranscript, Types, FileTypes
<1>5. pc' = [pc EXCEPT ![w] = "update_state"]
        /\ UNCHANGED <<store, req, loc, now, epoch, events, history>>
  BY DEF LogTranscript, Goto
<1>6. "update_state" \in Steps /\ Fits("update_state", req[w])
        /\ "update_state" \in Bound /\ pc[w] \in Bound
  BY <1>1, <1>2 DEF Steps, Fits, Bound, Admitted, EventSteps, ToolSteps
<1> QED BY <1>4, <1>5, <1>6, TypesWrite

\* A step of an admitted request that updates its session and goes on.
LEMMA TypesUpdate ==
  ASSUME Types, NEW w \in Workers, NEW step \in Steps, NEW l \in Locals,
         NEW session \in Sessions,
         store' = [store EXCEPT ![req[w].sid] = session] \/ store' = store,
         pc' = [pc EXCEPT ![w] = step], loc' = [loc EXCEPT ![w] = l],
         UNCHANGED <<req, files, now, epoch, events, history>>,
         pc[w] \in Bound, step \in Bound, Fits(step, req[w])
  PROVE  Types'
<1>1. StoreType' /\ Kept
  BY WorkerTypes, ReplacedSession DEF Types, Kept, StoreType
<1>2. Handlers'
  BY <1>1, SameRequest DEF Types
<1> QED BY <1>1, <1>2 DEF Types, FileTypes, CounterTypes, HistoryTypes, Tokens, files, history

\* The last step of an admitted request: it updates its session and answers.
LEMMA TypesAnswer ==
  ASSUME Types, NEW w \in Workers, NEW session \in Sessions,
         store' = [store EXCEPT ![req[w].sid] = session], Finish(w),
         acknowledged' = acknowledged \cup {loc[w].id},
         UNCHANGED <<files, now, epoch, events, issued, delivered>>,
         pc[w] \in Bound
  PROVE  Types'
<1>1. StoreType' /\ Kept /\ loc[w].id \in Nat
  BY WorkerTypes, ReplacedSession DEF Types, Locals
<1>2. Handlers'
  BY <1>1, FinishStep DEF Types
<1> QED BY <1>1, <1>2 DEF Types, FileTypes, CounterTypes, HistoryTypes, Tokens, files

\* The three assignments of mark_handoff, and append_transcript, keep the types.
LEMMA TypesMark ==
  ASSUME Types, NEW w \in Workers,
         AppendTranscript(w) \/ MarkState(w) \/ MarkReason(w) \/ MarkId(w)
  PROVE  Types'
<1> DEFINE s == store[req[w].sid]
<1>1. /\ pc[w] \in Steps /\ loc[w] \in Locals /\ loc[w].id \in Nat
      /\ loc' = [loc EXCEPT ![w] = loc[w]] \/ MarkState(w)
      /\ Fits(pc[w], req[w])
  BY WorkerTypes DEF Locals, AppendTranscript, MarkReason, MarkId, Types, Handlers, HandlerTypes
<1>2. CASE AppendTranscript(w)
  <2>1. pc[w] = "append_transcript" /\ pc[w] \in Bound
    BY <1>2 DEF AppendTranscript, Bound, Admitted, EventSteps
  <2>2. s \in Sessions
    BY <2>1, WorkerTypes
  <2>3. [s EXCEPT !.transcripts = Append(@, loc[w].id)] \in Sessions
    BY <1>1, <2>2, UpdatedSession, "idle" \in SessionStates DEF SessionStates
  <2>4. "log_transcript" \in Steps /\ "log_transcript" \in Bound /\ Fits("log_transcript", req[w])
    BY <1>1, <2>1 DEF Steps, Bound, Admitted, EventSteps, ToolSteps, Fits
  <2>5. \/ store' = [store EXCEPT ![req[w].sid] = [s EXCEPT !.transcripts = Append(@, loc[w].id)]]
        \/ store' = store
    BY <1>2 DEF AppendTranscript
  <2>6. /\ pc' = [pc EXCEPT ![w] = "log_transcript"] /\ loc' = [loc EXCEPT ![w] = loc[w]]
        /\ UNCHANGED <<req, files, now, epoch, events, history>>
    BY <1>1, <1>2 DEF AppendTranscript, Goto, MarkState
  <2> QED BY <1>1, <2>1, <2>3, <2>4, <2>5, <2>6, TypesUpdate
<1>3. CASE MarkState(w)
  <2>1. pc[w] = "mark_state" /\ pc[w] \in Bound
    BY <1>3 DEF MarkState, Bound, Admitted, ToolSteps
  <2>2. s \in Sessions
    BY <2>1, WorkerTypes
  <2>3. [s EXCEPT !.state = "handoff_pending"] \in Sessions
    BY <1>1, <2>2, UpdatedSession DEF SessionStates
  <2>4. "mark_reason" \in Steps /\ "mark_reason" \in Bound /\ Fits("mark_reason", req[w])
    BY <1>1, <2>1 DEF Steps, Bound, Admitted, EventSteps, ToolSteps, Fits
  <2>5. store' = [store EXCEPT ![req[w].sid] = [s EXCEPT !.state = "handoff_pending"]]
    BY <1>3 DEF MarkState
  <2>6. /\ pc' = [pc EXCEPT ![w] = "mark_reason"]
        /\ loc' = [loc EXCEPT ![w] = [loc[w] EXCEPT !.object = s.token]]
        /\ UNCHANGED <<req, files, now, epoch, events, history>>
    BY <1>3 DEF MarkState, Goto
  <2>7. [loc[w] EXCEPT !.object = s.token] \in Locals
    BY <1>1, <2>2 DEF Locals, Sessions
  <2> QED BY <2>1, <2>3, <2>4, <2>5, <2>6, <2>7, TypesUpdate
<1>4. CASE MarkReason(w)
  <2>1. pc[w] = "mark_reason" /\ pc[w] \in Bound
    BY <1>4 DEF MarkReason, Bound, Admitted, ToolSteps
  <2>2. s \in Sessions
    BY <2>1, WorkerTypes
  <2>3. [s EXCEPT !.handoff_reason = loc[w].id] \in Sessions
    BY <1>1, <2>2, UpdatedSession, "idle" \in SessionStates DEF SessionStates
  <2>4. "mark_id" \in Steps /\ "mark_id" \in Bound /\ Fits("mark_id", req[w])
    BY <1>1, <2>1 DEF Steps, Bound, Admitted, EventSteps, ToolSteps, Fits
  <2>5. \/ store' = [store EXCEPT ![req[w].sid] = [s EXCEPT !.handoff_reason = loc[w].id]]
        \/ store' = store
    BY <1>4 DEF MarkReason
  <2>6. /\ pc' = [pc EXCEPT ![w] = "mark_id"] /\ loc' = [loc EXCEPT ![w] = loc[w]]
        /\ UNCHANGED <<req, files, now, epoch, events, history>>
    BY <1>1, <1>4, <2>1 DEF MarkReason, Goto, MarkState
  <2> QED BY <1>1, <2>1, <2>3, <2>4, <2>5, <2>6, TypesUpdate
<1>5. CASE MarkId(w)
  <2>1. pc[w] = "mark_id" /\ pc[w] \in Bound
    BY <1>5 DEF MarkId, Bound, Admitted, ToolSteps
  <2>2. s \in Sessions
    BY <2>1, WorkerTypes
  <2>3. [s EXCEPT !.handoff_id = loc[w].id] \in Sessions
    BY <1>1, <2>2, UpdatedSession, "idle" \in SessionStates DEF SessionStates
  <2>4. "log_tool" \in Steps /\ "log_tool" \in Bound /\ Fits("log_tool", req[w])
    BY <1>1, <2>1 DEF Steps, Bound, Admitted, EventSteps, ToolSteps, Fits
  <2>5. \/ store' = [store EXCEPT ![req[w].sid] = [s EXCEPT !.handoff_id = loc[w].id]]
        \/ store' = store
    BY <1>5 DEF MarkId
  <2>6. /\ pc' = [pc EXCEPT ![w] = "log_tool"] /\ loc' = [loc EXCEPT ![w] = loc[w]]
        /\ UNCHANGED <<req, files, now, epoch, events, history>>
    BY <1>1, <1>5, <2>1 DEF MarkId, Goto, MarkState
  <2> QED BY <1>1, <2>1, <2>3, <2>4, <2>5, <2>6, TypesUpdate
<1> QED BY <1>2, <1>3, <1>4, <1>5

\* update_state keeps the types.
LEMMA TypesUpdateState ==
  ASSUME Types, NEW w \in Workers, UpdateState(w)
  PROVE  Types'
<1> DEFINE s == store[req[w].sid]
<1>1. pc[w] = "update_state" /\ pc[w] \in Bound
  BY DEF UpdateState, Bound, Admitted, EventSteps
<1>2. s \in Sessions /\ req[w].state \in SessionStates
  BY <1>1, WorkerTypes DEF Fits, EventSteps, EventRequests, SessionStates
<1>3. [s EXCEPT !.state = req[w].state] \in Sessions
  BY <1>2, UpdatedSession
<1>4. store' = [store EXCEPT ![req[w].sid] = [s EXCEPT !.state = req[w].state]]
  BY DEF UpdateState
<1> QED BY <1>1, <1>3, <1>4, TypesAnswer DEF UpdateState

\* append_tool_call keeps the types.
LEMMA TypesAppendToolCall ==
  ASSUME Types, NEW w \in Workers, AppendToolCall(w)
  PROVE  Types'
<1> DEFINE s == store[req[w].sid]
<1>1. pc[w] = "append_tool_call" /\ pc[w] \in Bound
  BY DEF AppendToolCall, Bound, Admitted, ToolSteps
<1>2. s \in Sessions /\ loc[w].id \in Nat /\ "idle" \in SessionStates
  BY <1>1, WorkerTypes DEF Locals, SessionStates
<1>3. [s EXCEPT !.tool_calls = Append(@, loc[w].id)] \in Sessions
  BY <1>2, UpdatedSession
<1>4. store' = [store EXCEPT ![req[w].sid] = [s EXCEPT !.tool_calls = Append(@, loc[w].id)]]
  BY DEF AppendToolCall
<1> QED BY <1>1, <1>3, <1>4, TypesAnswer DEF AppendToolCall

\* A restart keeps the types.
LEMMA TypesRestart ==
  ASSUME Types, Restart
  PROVE  Types'
<1>1. Handlers'
  BY DEF Restart, Handlers, HandlerTypes, RequestsFit, Fits, SessionsPresent, Bound, Admitted,
     EventSteps, ToolSteps, Steps, Requests, Locals, Fresh, Modes
<1>2. StoreType' /\ FileTypes' /\ CounterTypes' /\ HistoryTypes'
  BY DEF Restart, Types, StoreType, FileTypes, CounterTypes, HistoryTypes, Tokens, files, history
<1> QED BY <1>1, <1>2 DEF Types

-----------------------------------------------------------------------------
(* What is logged is authorised *)

\* What the token of a request on session id `sid` was minted for, in life `e`.
Minted(sid, owner, provider, e) ==
  [sid |-> sid, owner |-> owner, provider |-> provider, epoch |-> e]

MintedFor(tok, r, e) ==
  tok \in Tokens /\ issued[tok] = Minted(r.sid, r.owner, r.provider, e)

\* The token in a session was minted for it in this life of the process.
StoreIssued ==
  \A s \in SessionIds : store[s] # NoSession =>
    /\ store[s].token \in Tokens
    /\ issued[store[s].token] = Minted(s, store[s].owner, store[s].provider, epoch)

\* What each step of a handler knows of its token.  The third conjunct is why
\* looking the session up twice is safe: a session that replaces the one the
\* metadata was compared with has a token nobody can have presented yet.
WorkerIssued(w) ==
  /\ pc[w] = "log_created" => MintedFor(loc[w].object, req[w], epoch)
  /\ pc[w] \in Bound => req[w].tok \in delivered \cup {0}
  /\ (pc[w] = "token" /\ loc[w].metadata_matches /\ store[req[w].sid].token = req[w].tok)
       => MetadataMatches(store[req[w].sid], req[w])
  /\ pc[w] \in Admitted => MintedFor(req[w].tok, req[w], epoch)

LinesIssued ==
  \A i \in Lines : MintedFor(eventLog[i].tok, eventLog[i], eventLog[i].epoch)

Authorised == StoreIssued /\ (\A w \in Workers : WorkerIssued(w)) /\ LinesIssued

\* Nothing is held or logged in a fresh server.
LEMMA InitAuthorised == Init => Authorised
BY DEF Init, Authorised, StoreIssued, WorkerIssued, LinesIssued, Lines, Bound, Admitted,
   EventSteps, ToolSteps

\* The sessions of the store keep their bindings and tokens.
SameBindings ==
  \A s \in SessionIds :
    /\ store'[s] # NoSession <=> store[s] # NoSession
    /\ store[s] # NoSession =>
         /\ store'[s].token = store[s].token
         /\ store'[s].owner = store[s].owner
         /\ store'[s].provider = store[s].provider

\* A step of worker w that mints nothing leaves what the others know alone.
LEMMA OthersIssued ==
  ASSUME Types, Authorised, NEW w \in Workers, NEW v \in Workers, v # w,
         SameBindings, UNCHANGED <<epoch, issued>>, delivered \subseteq delivered',
         pc'[v] = pc[v], req'[v] = req[v], loc'[v] = loc[v]
  PROVE  WorkerIssued(v)'
<1>1. WorkerIssued(v)
  BY DEF Authorised
<1>2. UNCHANGED Tokens
  BY DEF Tokens
<1>3. pc[v] = "log_created" => MintedFor(loc[v].object, req[v], epoch)'
  BY <1>1, <1>2 DEF WorkerIssued, MintedFor, Minted
<1>4. pc[v] \in Admitted => MintedFor(req[v].tok, req[v], epoch)'
  BY <1>1, <1>2 DEF WorkerIssued, MintedFor, Minted
<1>5. pc[v] \in Bound => req[v].sid \in SessionIds /\ store[req[v].sid] # NoSession
  BY WorkerTypes
<1>6. ASSUME pc[v] = "token", loc[v].metadata_matches,
             store'[req[v].sid].token = req[v].tok
      PROVE  MetadataMatches(store'[req[v].sid], req[v])
  <2>1. "token" \in Bound
    BY DEF Bound
  <2> QED BY <1>1, <1>5, <1>6, <2>1 DEF WorkerIssued, SameBindings, MetadataMatches
<1>7. pc[v] \in Bound => req[v].tok \in delivered' \cup {0}
  BY <1>1 DEF WorkerIssued
<1> QED BY <1>3, <1>4, <1>6, <1>7 DEF WorkerIssued, MintedFor

\* A step that mints nothing and replaces no session keeps what is known of the
\* store.
LEMMA SameStoreIssued ==
  ASSUME Types, Authorised, SameBindings, UNCHANGED <<epoch, issued>>
  PROVE  StoreIssued'
BY DEF Authorised, StoreIssued, SameBindings, Tokens, Minted

\* Only `w` moves, within the store's bindings, and logs nothing.
LEMMA AuthorisedStep ==
  ASSUME Types, Authorised, NEW w \in Workers, SameBindings,
         UNCHANGED <<eventLog, epoch, issued, delivered>>,
         \A v \in Workers : v # w => pc'[v] = pc[v] /\ req'[v] = req[v] /\ loc'[v] = loc[v],
         WorkerIssued(w)'
  PROVE  Authorised'
<1>1. \A v \in Workers : WorkerIssued(v)'
  BY OthersIssued
<1>2. StoreIssued'
  BY SameStoreIssued
<1>3. LinesIssued'
  BY DEF Authorised, LinesIssued, Lines, MintedFor, Minted, Tokens
<1> QED BY <1>1, <1>2, <1>3 DEF Authorised

\* The same when it logs one line, on a token that fits the line.
LEMMA AuthorisedLog ==
  ASSUME Types, Authorised, NEW w \in Workers, NEW line \in EventLines,
         MintedFor(line.tok, line, line.epoch),
         eventLog' = Append(eventLog, line),
         UNCHANGED <<store, epoch, issued>>, delivered \subseteq delivered',
         \A v \in Workers : v # w => pc'[v] = pc[v] /\ req'[v] = req[v] /\ loc'[v] = loc[v],
         WorkerIssued(w)'
  PROVE  Authorised'
<1>0. SameBindings
  BY DEF SameBindings
<1>1. \A v \in Workers : WorkerIssued(v)'
  BY <1>0, OthersIssued
<1>2. StoreIssued'
  BY <1>0, SameStoreIssued
<1>3. LinesIssued'
  <2> SUFFICES ASSUME NEW i \in Lines'
               PROVE  MintedFor(eventLog'[i].tok, eventLog'[i], eventLog'[i].epoch)
    BY DEF LinesIssued, MintedFor, Tokens
  <2>1. eventLog \in Seq(EventLines)
    BY DEF Types, FileTypes
  <2>2. CASE i \in Lines
    BY <2>1, <2>2 DEF Lines, Authorised, LinesIssued
  <2>3. CASE i \notin Lines
    <3>1. eventLog'[i] = line
      BY <2>1, <2>3 DEF Lines
    <3> QED BY <3>1
  <2> QED BY <2>2, <2>3
<1> QED BY <1>1, <1>2, <1>3 DEF Authorised

\* A new session replaces the old one with a token that nobody has presented yet.
LEMMA AuthorisedCreateSession ==
  ASSUME Types, Authorised, NEW w \in Workers, CreateSession(w)
  PROVE  Authorised'
<1> PICK r \in CreateRequests, ttl \in Lifetimes \cup {DefaultTTL} :
      /\ req' = [req EXCEPT ![w] = r]
      /\ store' = [store EXCEPT ![r.sid] = CreatedSession(r, Len(issued) + 1, now + ttl)]
      /\ issued' = Append(issued, [sid |-> r.sid, owner |-> r.owner,
                                   provider |-> r.provider, epoch |-> epoch])
      /\ loc' = [loc EXCEPT ![w].object = Len(issued) + 1]
  BY Zenon DEF CreateSession
<1> DEFINE new == Len(issued) + 1
           minted == Minted(r.sid, r.owner, r.provider, epoch)
<1>1. /\ pc' = [pc EXCEPT ![w] = "log_created"]
      /\ UNCHANGED <<eventLog, epoch, delivered>>
  BY DEF CreateSession, Goto, files
<1>2. /\ Len(issued) \in Nat /\ new \notin Tokens /\ new # 0 /\ new \in Tokens'
      /\ issued'[new] = minted
      /\ \A t \in Tokens : t \in Tokens' /\ issued'[t] = issued[t]
  <2>1. issued \in Seq(Mintings) /\ minted \in Mintings /\ issued' = Append(issued, minted)
    BY DEF Types, HistoryTypes, CounterTypes, Mintings, Minted, CreateRequests
  <2> HIDE DEF minted
  <2> QED BY <2>1 DEF Tokens
<1>3. delivered \subseteq Tokens
  BY DEF Types, HistoryTypes
<1>4. r.sid \in SessionIds
  BY DEF CreateRequests
<1>5. /\ store'[r.sid].token = new /\ store'[r.sid].owner = r.owner
      /\ store'[r.sid].provider = r.provider
      /\ \A s \in SessionIds : s # r.sid => store'[s] = store[s]
  BY <1>4 DEF CreatedSession, Types, StoreType
<1>6. StoreIssued'
  <2> SUFFICES ASSUME NEW s \in SessionIds, store'[s] # NoSession
               PROVE  /\ store'[s].token \in Tokens'
                      /\ issued'[store'[s].token]
                           = Minted(s, store'[s].owner, store'[s].provider, epoch')
    BY DEF StoreIssued, Minted
  <2>1. CASE s = r.sid
    BY <1>1, <1>2, <1>5, <2>1
  <2>2. CASE s # r.sid
    <3>1. store'[s] = store[s]
      BY <1>5, <2>2
    <3>2. /\ store[s].token \in Tokens
          /\ issued[store[s].token] = Minted(s, store[s].owner, store[s].provider, epoch)
      BY <3>1 DEF Authorised, StoreIssued
    <3> QED BY <1>1, <1>2, <3>1, <3>2
  <2> QED BY <2>1, <2>2
<1>7. LinesIssued'
  <2> SUFFICES ASSUME NEW i \in Lines
               PROVE  MintedFor(eventLog[i].tok, eventLog[i], eventLog[i].epoch)'
    BY <1>1 DEF LinesIssued, Lines
  <2>1. MintedFor(eventLog[i].tok, eventLog[i], eventLog[i].epoch)
    BY DEF Authorised, LinesIssued
  <2> QED BY <1>1, <1>2, <2>1 DEF MintedFor, Minted
<1>8. ASSUME NEW v \in Workers PROVE WorkerIssued(v)'
  <2>1. CASE v = w
    <3>1. pc'[w] = "log_created" /\ req'[w] = r /\ loc'[w].object = new
      BY <1>1, <2>1 DEF Types, Handlers, HandlerTypes, Locals
    <3>2. MintedFor(loc[w].object, req[w], epoch)'
      BY <1>1, <1>2, <3>1 DEF MintedFor, Minted
    <3>3. "log_created" \notin Bound /\ "log_created" # "token"
            /\ "log_created" \notin Admitted
      BY DEF Bound, Admitted, EventSteps, ToolSteps
    <3> QED BY <2>1, <3>1, <3>2, <3>3 DEF WorkerIssued, MintedFor
  <2>2. CASE v # w
    <3>1. pc'[v] = pc[v] /\ req'[v] = req[v] /\ loc'[v] = loc[v] /\ WorkerIssued(v)
      BY <1>1, <2>2 DEF Types, Handlers, HandlerTypes, Authorised
    <3>2. /\ pc[v] = "log_created" =>
               /\ loc[v].object \in Tokens
               /\ issued[loc[v].object] = Minted(req[v].sid, req[v].owner, req[v].provider, epoch)
          /\ pc[v] \in Admitted =>
               /\ req[v].tok \in Tokens
               /\ issued[req[v].tok] = Minted(req[v].sid, req[v].owner, req[v].provider, epoch)
      BY <3>1 DEF WorkerIssued, MintedFor
    <3>3. ASSUME pc[v] = "token", loc[v].metadata_matches,
                 store'[req[v].sid].token = req[v].tok
          PROVE  MetadataMatches(store'[req[v].sid], req[v])
      <4>1. req[v].sid \in SessionIds /\ req[v].tok \in delivered \cup {0}
        BY <3>1, <3>3, WorkerTypes DEF WorkerIssued, Bound
      <4>2. req[v].sid # r.sid
        BY <1>2, <1>3, <1>5, <3>3, <4>1
      <4>3. store'[req[v].sid] = store[req[v].sid]
        BY <1>5, <4>1, <4>2
      <4> QED BY <3>1, <3>3, <4>3 DEF WorkerIssued
    <3>4. pc[v] = "log_created" => MintedFor(loc[v].object, req[v], epoch)'
      BY <1>1, <1>2, <3>1, <3>2 DEF MintedFor
    <3>5. pc[v] \in Admitted => MintedFor(req[v].tok, req[v], epoch)'
      BY <1>1, <1>2, <3>1, <3>2 DEF MintedFor
    <3> QED BY <1>1, <3>1, <3>3, <3>4, <3>5 DEF WorkerIssued, MintedFor
  <2> QED BY <2>1, <2>2
<1> QED BY <1>6, <1>7, <1>8 DEF Authorised

\* How a step of w moves the handlers.
Moves(w, step) ==
  /\ pc'[w] = step
  /\ \A v \in Workers : v # w => pc'[v] = pc[v] /\ req'[v] = req[v] /\ loc'[v] = loc[v]

\* A handler that answers is no longer bound to a token.
LEMMA FinishMoves ==
  ASSUME Types, NEW w \in Workers, Finish(w)
  PROVE  Moves(w, "idle") /\ WorkerIssued(w)'
<1>1. Moves(w, "idle")
  BY DEF Finish, Goto, Types, Handlers, HandlerTypes, Moves
<1> QED BY <1>1 DEF Moves, WorkerIssued, Bound, Admitted, EventSteps, ToolSteps

\* The session_created line carries the binding of the token just minted.
LEMMA AuthorisedLogCreated ==
  ASSUME Types, Authorised, NEW w \in Workers, LogCreated(w)
  PROVE  Authorised'
<1> DEFINE line == Line(w, "created", "idle", FALSE)
<1>1. line \in EventLines
  BY LineType DEF LogCreated, SessionStates
<1>2. MintedFor(line.tok, line, line.epoch)
  <2>1. MintedFor(loc[w].object, req[w], epoch)
    BY DEF LogCreated, Authorised, WorkerIssued
  <2> QED BY <2>1 DEF MintedFor, Line
<1>3. eventLog' = Append(eventLog, line) /\ UNCHANGED <<store, epoch, issued>>
        /\ delivered \subseteq delivered' /\ Finish(w)
  BY DEF LogCreated
<1> HIDE DEF line
<1> QED BY <1>1, <1>2, <1>3, FinishMoves, AuthorisedLog DEF Moves

\* A handler that has passed the metadata check knows what the session was minted
\* for.
LEMMA AuthorisedBind ==
  ASSUME Types, Authorised, NEW w \in Workers, NEW r, Bind(w, r),
         r.tok \in delivered \cup {0}
  PROVE  Authorised'
<1>1. Moves(w, "token") /\ req'[w] = r
        /\ loc'[w].metadata_matches = MetadataMatches(store[r.sid], r)
  BY DEF Bind, Goto, Types, Handlers, HandlerTypes, Moves, Locals
<1>2. SameBindings /\ UNCHANGED <<store, eventLog, epoch, issued, delivered>>
  BY DEF Bind, SameBindings, files, history
<1>3. WorkerIssued(w)'
  BY <1>1, <1>2 DEF WorkerIssued, Moves, Bound, Admitted, EventSteps, ToolSteps,
     MetadataMatches
<1> QED BY <1>1, <1>2, <1>3, AuthorisedStep DEF Moves

\* The tool-call endpoint takes the provider from the session before the check.
LEMMA AuthorisedGetSessionProvider ==
  ASSUME Types, Authorised, NEW w \in Workers, GetSessionProvider(w)
  PROVE  Authorised'
<1> PICK sid \in SessionIds, owner \in Owners, tok \in Presentable, what \in Tools :
      req' = [req EXCEPT ![w] =
                [op |-> "tool", sid |-> sid, owner |-> owner,
                 provider |-> store[sid].provider, tok |-> tok, what |-> what]]
  BY Zenon DEF GetSessionProvider
<1> DEFINE r == [op |-> "tool", sid |-> sid, owner |-> owner,
                 provider |-> store[sid].provider, tok |-> tok, what |-> what]
<1>1. Moves(w, "bind") /\ req'[w] = r /\ r.tok \in Presentable
  BY DEF GetSessionProvider, Goto, Types, Handlers, HandlerTypes, Moves
<1>2. SameBindings /\ UNCHANGED <<store, eventLog, epoch, issued, delivered>>
  BY DEF GetSessionProvider, SameBindings, files, history
<1>3. WorkerIssued(w)'
  BY <1>1, <1>2 DEF WorkerIssued, Moves, Bound, Admitted, EventSteps, ToolSteps, Presentable
<1> QED BY <1>1, <1>2, <1>3, AuthorisedStep DEF Moves

\* The token of a request that is let through was minted for its binding.
LEMMA AdmissibleIsIssued ==
  ASSUME Types, Authorised, NEW w \in Workers, pc[w] = "token", Admissible(w)
  PROVE  MintedFor(req[w].tok, req[w], epoch)
<1> DEFINE s == store[req[w].sid]
<1>1. req[w].sid \in SessionIds /\ s # NoSession
  BY WorkerTypes DEF Bound
<1>2. s.token = req[w].tok /\ MetadataMatches(s, req[w])
  BY DEF Admissible, TokenIsValid, Authorised, WorkerIssued
<1>3. s.token \in Tokens
        /\ issued[s.token] = Minted(req[w].sid, s.owner, s.provider, epoch)
  BY <1>1 DEF Authorised, StoreIssued
<1> QED BY <1>2, <1>3 DEF MintedFor, MetadataMatches

\* A step of an admitted request, or one that admits it, that logs nothing.
LEMMA AuthorisedWork ==
  ASSUME Types, Authorised, NEW w \in Workers, NEW step \in Admitted,
         pc[w] \in Bound, MintedFor(req[w].tok, req[w], epoch),
         Moves(w, step), UNCHANGED <<req, eventLog, epoch, issued, delivered>>, SameBindings
  PROVE  Authorised'
<1>1. WorkerIssued(w)'
  <2>1. req[w].tok \in delivered \cup {0} /\ step \in Bound
          /\ step \notin {"log_created", "token"}
    BY DEF Authorised, WorkerIssued, Bound, Admitted, EventSteps, ToolSteps
  <2> QED BY <2>1 DEF Moves, WorkerIssued, MintedFor, Minted, Tokens
<1> QED BY <1>1, AuthorisedStep DEF Moves

\* The store's methods keep the binding and the token of a session.
LEMMA UpdateKeepsBindings ==
  ASSUME Types, NEW sid \in SessionIds, NEW session \in Sessions, store[sid] # NoSession,
         store' = [store EXCEPT ![sid] = session],
         session.token = store[sid].token, session.owner = store[sid].owner,
         session.provider = store[sid].provider
  PROVE  SameBindings
BY NoSessionAssumption DEF SameBindings, Types, StoreType

\* A handler that passes the token check holds a token minted for its own
\* binding, even if the session was replaced between the two lookups.
LEMMA AuthorisedAdmit ==
  ASSUME Types, Authorised, NEW w \in Workers, AdmitEvent(w) \/ AdmitToolCall(w)
  PROVE  Authorised'
<1>1. /\ pc[w] = "token" /\ pc[w] \in Bound /\ Admissible(w) /\ SameBindings
      /\ UNCHANGED <<req, eventLog, epoch, issued, delivered>>
  BY DEF AdmitEvent, AdmitToolCall, Bound, SameBindings, files, history
<1>2. MintedFor(req[w].tok, req[w], epoch)
  BY <1>1, AdmissibleIsIssued
<1>3. Moves(w, "log_event") \/ Moves(w, "adapter")
  BY DEF AdmitEvent, AdmitToolCall, Goto, Moves, Types, Handlers, HandlerTypes
<1>4. "log_event" \in Admitted /\ "adapter" \in Admitted
  BY DEF Admitted, EventSteps, ToolSteps
<1> QED BY <1>1, <1>2, <1>3, <1>4, AuthorisedWork

\* RunAdapter, HandOff and LogTranscript leave the store alone.
LEMMA AuthorisedElsewhere ==
  ASSUME Types, Authorised, NEW w \in Workers,
         RunAdapter(w) \/ HandOff(w) \/ LogTranscript(w)
  PROVE  Authorised'
<1>1. /\ pc[w] \in Admitted /\ pc[w] \in Bound /\ SameBindings
      /\ UNCHANGED <<req, eventLog, epoch, issued, delivered>>
  BY DEF RunAdapter, HandOff, LogTranscript, Bound, Admitted, EventSteps, ToolSteps,
     SameBindings, files, history
<1>2. MintedFor(req[w].tok, req[w], epoch)
  BY <1>1 DEF Authorised, WorkerIssued
<1>3. Moves(w, "log_tool") \/ Moves(w, "mark_state") \/ Moves(w, "update_state")
  BY DEF RunAdapter, HandOff, LogTranscript, Goto, Moves, Types, Handlers, HandlerTypes
<1>4. {"log_tool", "mark_state", "update_state"} \subseteq Admitted
  BY DEF Admitted, EventSteps, ToolSteps
<1> QED BY <1>1, <1>2, <1>3, <1>4, AuthorisedWork

\* Fields other than the binding and the token.
LEMMA FieldUpdates ==
  ASSUME Types, NEW w \in Workers, pc[w] \in Bound,
         \/ AppendTranscript(w) \/ MarkState(w) \/ MarkReason(w) \/ MarkId(w)
         \/ UpdateState(w) \/ AppendToolCall(w)
  PROVE  SameBindings
<1> DEFINE s == store[req[w].sid]
<1>1. s \in Sessions /\ s # NoSession /\ req[w].sid \in SessionIds
        /\ loc[w].id \in Nat /\ Fits(pc[w], req[w])
  BY WorkerTypes DEF Locals
<1>2. CASE store' = store
  BY <1>2 DEF SameBindings
<1>3. ASSUME NEW session \in Sessions, store' = [store EXCEPT ![req[w].sid] = session],
             session.token = s.token, session.owner = s.owner, session.provider = s.provider
      PROVE  SameBindings
  BY <1>1, <1>3, UpdateKeepsBindings
<1>4. ASSUME NEW state \in SessionStates,
             store' = [store EXCEPT ![req[w].sid].state = state]
      PROVE  SameBindings
  <2>1. [s EXCEPT !.state = state] \in Sessions
    BY <1>1, UpdatedSession
  <2> QED BY <1>1, <1>3, <1>4, <2>1 DEF Sessions
<1>5. CASE MarkReason(w) \/ MarkId(w)
  <2>1. /\ [s EXCEPT !.handoff_reason = loc[w].id] \in Sessions
        /\ [s EXCEPT !.handoff_id = loc[w].id] \in Sessions
    BY <1>1, UpdatedSession, "idle" \in SessionStates DEF SessionStates
  <2>2. \/ store' = [store EXCEPT ![req[w].sid] = [s EXCEPT !.handoff_reason = loc[w].id]]
        \/ store' = [store EXCEPT ![req[w].sid] = [s EXCEPT !.handoff_id = loc[w].id]]
        \/ store' = store
    BY <1>5 DEF MarkReason, MarkId
  <2>3. ASSUME NEW id
        PROVE  /\ [s EXCEPT !.handoff_reason = id].token = s.token
               /\ [s EXCEPT !.handoff_reason = id].owner = s.owner
               /\ [s EXCEPT !.handoff_reason = id].provider = s.provider
               /\ [s EXCEPT !.handoff_id = id].token = s.token
               /\ [s EXCEPT !.handoff_id = id].owner = s.owner
               /\ [s EXCEPT !.handoff_id = id].provider = s.provider
    BY <1>1 DEF Sessions
  <2> QED BY <1>2, <1>3, <2>1, <2>2, <2>3
<1>6. CASE AppendTranscript(w) \/ AppendToolCall(w)
  <2>1. /\ [s EXCEPT !.transcripts = Append(@, loc[w].id)] \in Sessions
        /\ [s EXCEPT !.tool_calls = Append(@, loc[w].id)] \in Sessions
    BY <1>1, UpdatedSession, "idle" \in SessionStates DEF SessionStates
  <2>2. \/ store' = [store EXCEPT ![req[w].sid] = [s EXCEPT !.transcripts = Append(@, loc[w].id)]]
        \/ store' = [store EXCEPT ![req[w].sid] = [s EXCEPT !.tool_calls = Append(@, loc[w].id)]]
        \/ store' = store
    BY <1>6 DEF AppendTranscript, AppendToolCall
  <2>3. ASSUME NEW log
        PROVE  /\ [s EXCEPT !.transcripts = log].token = s.token
               /\ [s EXCEPT !.transcripts = log].owner = s.owner
               /\ [s EXCEPT !.transcripts = log].provider = s.provider
               /\ [s EXCEPT !.tool_calls = log].token = s.token
               /\ [s EXCEPT !.tool_calls = log].owner = s.owner
               /\ [s EXCEPT !.tool_calls = log].provider = s.provider
    BY <1>1 DEF Sessions
  <2> QED BY <1>2, <1>3, <2>1, <2>2, <2>3
<1>7. CASE MarkState(w)
  BY <1>4, <1>7 DEF MarkState, SessionStates
<1>8. CASE UpdateState(w)
  <2>1. req[w].state \in SessionStates
    BY <1>1, <1>8 DEF UpdateState, Fits, EventSteps, EventRequests, SessionStates
  <2> QED BY <1>4, <1>8, <2>1 DEF UpdateState
<1> QED BY <1>5, <1>6, <1>7, <1>8

\* The setters of the store leave tokens and bindings alone.
LEMMA AuthorisedUpdate ==
  ASSUME Types, Authorised, NEW w \in Workers,
         AppendTranscript(w) \/ MarkState(w) \/ MarkReason(w) \/ MarkId(w)
  PROVE  Authorised'
<1>1. /\ pc[w] \in Admitted /\ pc[w] \in Bound
      /\ UNCHANGED <<req, eventLog, epoch, issued, delivered>>
  BY DEF AppendTranscript, MarkState, MarkReason, MarkId, Bound, Admitted, EventSteps,
     ToolSteps, files, history
<1>2. MintedFor(req[w].tok, req[w], epoch)
  BY <1>1 DEF Authorised, WorkerIssued
<1>3. \E step \in {"log_transcript", "mark_reason", "mark_id", "log_tool"} : Moves(w, step)
  BY DEF AppendTranscript, MarkState, MarkReason, MarkId, Goto, Moves, Types, Handlers,
     HandlerTypes
<1>4. {"log_transcript", "mark_reason", "mark_id", "log_tool"} \subseteq Admitted
  BY DEF Admitted, EventSteps, ToolSteps
<1>5. SameBindings
  BY <1>1, FieldUpdates
<1> QED BY <1>1, <1>2, <1>3, <1>4, <1>5, AuthorisedWork

\* The handler ends, in whatever way.
LEMMA AuthorisedEnd ==
  ASSUME Types, Authorised, NEW w \in Workers, Finish(w), SameBindings,
         UNCHANGED <<eventLog, epoch, issued, delivered>>
  PROVE  Authorised'
BY FinishMoves, AuthorisedStep DEF Moves

\* The store access that ends a handler leaves every binding alone.
LEMMA AuthorisedAnswer ==
  ASSUME Types, Authorised, NEW w \in Workers, UpdateState(w) \/ AppendToolCall(w)
  PROVE  Authorised'
<1>1. pc[w] \in Bound /\ Finish(w) /\ UNCHANGED <<eventLog, epoch, issued, delivered>>
  BY DEF UpdateState, AppendToolCall, Bound, Admitted, EventSteps, ToolSteps, files
<1> QED BY <1>1, FieldUpdates, AuthorisedEnd

\* A line copies the binding of the handler that writes it.
LEMMA AuthorisedLogLine ==
  ASSUME Types, Authorised, NEW w \in Workers, LogEvent(w) \/ LogToolCall(w)
  PROVE  Authorised'
<1>1. pc[w] \in Admitted /\ pc[w] \in Bound
  BY DEF LogEvent, LogToolCall, Bound, Admitted, EventSteps, ToolSteps
<1>2. MintedFor(req[w].tok, req[w], epoch) /\ req[w].tok \in delivered \cup {0}
  BY <1>1 DEF Authorised, WorkerIssued
<1>3. PICK kind \in {"event", "tool"}, state \in SessionStates, text \in BOOLEAN :
        eventLog' = Append(eventLog, Line(w, kind, state, text))
  <2>1. CASE LogEvent(w)
    <3>1. req[w] \in EventRequests(Nat)
      BY <2>1, WorkerTypes DEF LogEvent, Fits, EventSteps
    <3>2. req[w].state \in SessionStates /\ (HasText(req[w]) /\ loc[w].mode # "off") \in BOOLEAN
      BY <3>1 DEF EventRequests, SessionStates, HasText
    <3> QED BY <2>1, <3>2, Zenon DEF LogEvent
  <2>2. CASE LogToolCall(w)
    <3>1. (IF loc[w].handoff_required THEN "handoff_pending" ELSE "tool_calling")
            \in SessionStates
      BY DEF SessionStates
    <3> QED BY <2>2, <3>1, Zenon DEF LogToolCall
  <2> QED BY <2>1, <2>2
<1> DEFINE line == Line(w, kind, state, text)
<1>4. line \in EventLines
  BY <1>1, LineType
<1>5. MintedFor(line.tok, line, line.epoch)
  BY <1>2 DEF MintedFor, Line
<1>6. \E step \in {"append_transcript", "append_tool_call"} : Moves(w, step)
  BY DEF LogEvent, LogToolCall, Goto, Moves, Types, Handlers, HandlerTypes
<1>7. UNCHANGED <<store, req, epoch, issued, delivered>>
  BY DEF LogEvent, LogToolCall, history
<1>8. WorkerIssued(w)'
  BY <1>2, <1>6, <1>7 DEF WorkerIssued, MintedFor, Minted, Tokens, Moves
<1> HIDE DEF line
<1> QED BY <1>3, <1>4, <1>5, <1>6, <1>7, <1>8, AuthorisedLog DEF Moves, line

\* A restart ends the handlers and the sessions; what is logged keeps its epoch.
LEMMA AuthorisedRestart ==
  ASSUME Types, Authorised, Restart
  PROVE  Authorised'
<1>1. StoreIssued' /\ \A w \in Workers : WorkerIssued(w)'
  BY DEF Restart, StoreIssued, WorkerIssued, Bound, Admitted, EventSteps, ToolSteps
<1>2. LinesIssued'
  BY DEF Restart, Authorised, LinesIssued, Lines, MintedFor, Minted, Tokens, files, history
<1> QED BY <1>1, <1>2 DEF Authorised

\* A stuttering step changes nothing.
LEMMA AuthorisedStutter ==
  ASSUME Types, Authorised,
         UNCHANGED <<store, eventLog, pc, req, loc, epoch, issued, delivered>>
  PROVE  Authorised'
BY DEF Authorised, StoreIssued, WorkerIssued, LinesIssued, Lines, MintedFor, Minted,
   MetadataMatches, Tokens

-----------------------------------------------------------------------------
(* The theorems *)

IInv == Types /\ Authorised

\* The strengthened invariant holds in a fresh server.
LEMMA InitIInv == Init => IInv
BY InitTypes, InitAuthorised DEF IInv

\* Each step of the server preserves it, one case per action.
LEMMA StepIInv == IInv /\ [Next]_vars => IInv'
<1> SUFFICES ASSUME Types, Authorised, [Next]_vars PROVE Types' /\ Authorised'
  BY DEF IInv
<1> DEFINE Preserved == Types' /\ Authorised'
<1>1. ASSUME NEW w \in Workers, CreateSession(w) PROVE Preserved
  BY <1>1, TypesCreateSession, AuthorisedCreateSession
<1>2. ASSUME NEW w \in Workers, LogCreated(w) PROVE Preserved
  <2>1. pc[w] = "log_created" => loc[w].object \in Tokens
    BY DEF Authorised, WorkerIssued, MintedFor
  <2> QED BY <1>2, <2>1, TypesLogCreated, AuthorisedLogCreated
<1>3. ASSUME NEW w \in Workers, BindEvent(w) PROVE Preserved
  <2> PICK r \in EventRequests(Presentable) : Bind(w, r)
    BY <1>3 DEF BindEvent
  <2>1. Presentable \subseteq Nat
    BY DEF Presentable, Types, HistoryTypes, Tokens
  <2>2. r \in EventRequests(Nat) /\ r.tok \in delivered \cup {0}
    BY <2>1 DEF EventRequests, Presentable
  <2> QED BY <2>2, TypesBind, AuthorisedBind
<1>4. ASSUME NEW w \in Workers, GetSessionProvider(w) PROVE Preserved
  BY <1>4, TypesGetSessionProvider, AuthorisedGetSessionProvider
<1>5. ASSUME NEW w \in Workers, BindToolCall(w) PROVE Preserved
  <2>1. pc[w] = "bind" /\ Bind(w, req[w]) /\ Fits(pc[w], req[w])
    BY <1>5, WorkerTypes DEF BindToolCall
  <2>2. req[w] \in ToolRequests(Nat)
    BY <2>1 DEF Fits
  <2>3. req[w].tok \in delivered \cup {0}
    BY <2>1 DEF Authorised, WorkerIssued, Bound
  <2> QED BY <2>1, <2>2, <2>3, TypesBind, AuthorisedBind
<1>6. ASSUME NEW w \in Workers, AdmitEvent(w) \/ AdmitToolCall(w) PROVE Preserved
  BY <1>6, TypesAdmit, AuthorisedAdmit
<1>7. ASSUME NEW w \in Workers, Refuse(w) \/ RejectArguments(w) \/ AppendFails(w)
      PROVE  Preserved
  <2>1. Finish(w) /\ Quiet /\ events' = events
    BY <1>7 DEF Refuse, RejectArguments, AppendFails, Quiet, files, history
  <2>2. SameBindings /\ UNCHANGED <<eventLog, epoch, issued, delivered>>
    BY <2>1 DEF Quiet, SameBindings
  <2> QED BY <2>1, <2>2, TypesEnd, AuthorisedEnd
<1>8. ASSUME NEW w \in Workers, LogEvent(w) \/ LogToolCall(w) PROVE Preserved
  BY <1>8, TypesLogEvent, TypesLogToolCall, AuthorisedLogLine
<1>9. ASSUME NEW w \in Workers, RunAdapter(w) \/ HandOff(w) \/ LogTranscript(w)
      PROVE  Preserved
  BY <1>9, TypesRunAdapter, TypesLogTranscript, AuthorisedElsewhere
<1>10. ASSUME NEW w \in Workers,
              AppendTranscript(w) \/ MarkState(w) \/ MarkReason(w) \/ MarkId(w)
       PROVE  Preserved
  BY <1>10, TypesMark, AuthorisedUpdate
<1>11. ASSUME NEW w \in Workers, UpdateState(w) \/ AppendToolCall(w) PROVE Preserved
  BY <1>11, TypesUpdateState, TypesAppendToolCall, AuthorisedAnswer
<1>12. CASE Tick
  <2>1. /\ now' \in Nat
        /\ UNCHANGED <<store, eventLog, transcriptLog, pc, req, loc, epoch, events, issued,
                       delivered, acknowledged>>
    BY <1>12 DEF Tick, memory, files, history, Types, CounterTypes
  <2>2. Handlers'
    BY <2>1 DEF Types, Handlers, HandlerTypes, RequestsFit, SessionsPresent
  <2>3. Types'
    BY <2>1, <2>2 DEF Types, StoreType, FileTypes, CounterTypes, HistoryTypes, Tokens
  <2> QED BY <2>1, <2>3, AuthorisedStutter
<1>13. CASE Restart
  BY <1>13, TypesRestart, AuthorisedRestart
<1>14. CASE UNCHANGED vars
  <2>1. UNCHANGED <<store, eventLog, transcriptLog, pc, req, loc, now, epoch, events, issued,
                    delivered, acknowledged>>
    BY <1>14 DEF vars, memory, files, history
  <2>2. Types'
    BY <2>1 DEF Types, Handlers, HandlerTypes, RequestsFit, SessionsPresent, StoreType,
       FileTypes, CounterTypes, HistoryTypes, Tokens
  <2> QED BY <2>1, <2>2, AuthorisedStutter
<1> QED
  BY <1>1, <1>2, <1>3, <1>4, <1>5, <1>6, <1>7, <1>8, <1>9, <1>10, <1>11, <1>12, <1>13, <1>14
  DEF Next, Take, Proceed

\* So it holds in every state of the server.
LEMMA SpecIInv == Spec => []IInv
BY InitIInv, StepIInv, PTL DEF Spec

\* The store, the logs, the handlers' locals and the history keep their types.
THEOREM ApiTypes == Spec => []TypeOK
<1>1. IInv => TypeOK
  BY TypesAreTypeOK DEF IInv
<1> QED BY <1>1, SpecIInv, PTL

\* However worker threads interleave, and although verify_session_token_binding
\* looks the session up twice without a lock, no line reaches the event log but
\* for a request whose token was minted for its session id, call, merchant and
\* provider in the same life of the process.
THEOREM ApiLoggedWorkIsAuthorised == Spec => []LoggedWorkIsAuthorised
<1>1. IInv => LoggedWorkIsAuthorised
  <2> SUFFICES ASSUME IInv, NEW i \in Lines
               PROVE  /\ eventLog[i].tok \in Tokens
                      /\ issued[eventLog[i].tok].sid = eventLog[i].sid
                      /\ issued[eventLog[i].tok].owner = eventLog[i].owner
                      /\ issued[eventLog[i].tok].provider = eventLog[i].provider
                      /\ issued[eventLog[i].tok].epoch = eventLog[i].epoch
    BY DEF LoggedWorkIsAuthorised
  <2>1. MintedFor(eventLog[i].tok, eventLog[i], eventLog[i].epoch)
    BY DEF IInv, Authorised, LinesIssued
  <2> QED BY <2>1 DEF MintedFor, Minted
<1> QED BY <1>1, SpecIInv, PTL

-----------------------------------------------------------------------------
(* What is logged, and when *)

\* Worker w's event has its line, with its text unless logging was off.
EventLogged(w) ==
  \E i \in Lines :
    LET l == eventLog[i]
    IN  /\ l.kind = "event" /\ l.id = loc[w].id /\ l.mode = loc[w].mode
        /\ l.text <=> HasText(req[w]) /\ loc[w].mode # "off"
        /\ <<l.sid, l.owner, l.provider>> = <<req[w].sid, req[w].owner, req[w].provider>>

\* Worker w's tool call has its line.
ToolCallLogged(w) ==
  \E i \in Lines :
    eventLog[i].kind = "tool" /\ eventLog[i].id = loc[w].id /\ eventLog[i].sid = req[w].sid

\* A handler past its log line finds the line there, whatever others have written
\* since.
HandlersLogged ==
  \A w \in Workers :
    /\ pc[w] \in {"append_transcript", "log_transcript", "update_state"} => EventLogged(w)
    /\ pc[w] = "append_tool_call" => ToolCallLogged(w)

\* A line speaks of a token that some client holds,
LinesDelivered == \A i \in Lines : eventLog[i].tok \in delivered

\* and a token on its way to a client of its own is in no line yet.
Undelivered ==
  \A w \in Workers : pc[w] = "log_created" =>
    /\ loc[w].object \notin delivered
    /\ \A v \in Workers : pc[v] = "log_created" /\ loc[v].object = loc[w].object => v = w

Unwritten == {"log_event", "adapter", "mark_state", "mark_reason", "mark_id", "log_tool"}
WorkLines == {i \in Lines : eventLog[i].kind # "created"}

\* No two requests share an event id, and no line has the id of a request that has yet
\* to write its own.
IdsUnique ==
  /\ \A w \in Workers : pc[w] \in Admitted =>
       /\ loc[w].id \in 1..events
       /\ \A v \in Workers : pc[v] \in Admitted /\ loc[v].id = loc[w].id => v = w
       /\ pc[w] \in Unwritten => \A i \in WorkLines : eventLog[i].id # loc[w].id
  /\ \A i \in WorkLines : eventLog[i].id <= events
  /\ \A i, j \in WorkLines : eventLog[i].id = eventLog[j].id => i = j

\* A line has text only if it was written in another mode than off.
TextNotOff == \A i \in Lines : eventLog[i].text => eventLog[i].mode # "off"

\* OffModeKeepsNoText follows: text in the transcript log or in a session leads to the
\* one line with its id, and that line has text.
Logged == HandlersLogged /\ TranscriptHasEvent /\ MemoryFollowsLog /\ AcknowledgedIsLogged
  /\ LinesDelivered /\ Undelivered /\ IdsUnique /\ TextNotOff

\* No other handler moves.
OnlyMoves(w) ==
  \A v \in Workers : v # w => pc'[v] = pc[v] /\ req'[v] = req[v] /\ loc'[v] = loc[v]

\* Who writes what.
OwnWrites ==
  /\ UNCHANGED eventLog \/ \E w \in Workers : LogCreated(w) \/ LogEvent(w) \/ LogToolCall(w)
  /\ UNCHANGED transcriptLog \/ \E w \in Workers : LogTranscript(w)
  /\ UNCHANGED delivered \/ \E w \in Workers : LogCreated(w)
  /\ UNCHANGED acknowledged \/ \E w \in Workers : UpdateState(w) \/ AppendToolCall(w)
  /\ UNCHANGED events \/ \E w \in Workers : AdmitEvent(w) \/ AdmitToolCall(w)

\* Each file, each history and the count of ids has its writers.
LEMMA WhoWrites == [Next]_vars => OwnWrites
<1> SUFFICES ASSUME [Next]_vars PROVE OwnWrites
  OBVIOUS
<1> USE DEF OwnWrites
<1>1. ASSUME NEW w \in Workers, Take(w) PROVE OwnWrites
  BY <1>1 DEF Take, CreateSession, BindEvent, GetSessionProvider, Bind, files, history
<1>2. ASSUME NEW w \in Workers, LogCreated(w) PROVE OwnWrites
  BY <1>2 DEF LogCreated
<1>3. ASSUME NEW w \in Workers, BindToolCall(w) \/ Refuse(w) \/ RejectArguments(w) PROVE OwnWrites
  BY <1>3 DEF BindToolCall, Bind, Refuse, RejectArguments, files, history
<1>4. ASSUME NEW w \in Workers, AdmitEvent(w) \/ AdmitToolCall(w) PROVE OwnWrites
  BY <1>4 DEF AdmitEvent, AdmitToolCall, files, history
<1>5. ASSUME NEW w \in Workers, LogEvent(w) \/ LogToolCall(w) PROVE OwnWrites
  BY <1>5 DEF LogEvent, LogToolCall, history
<1>6. ASSUME NEW w \in Workers, AppendTranscript(w) \/ MarkState(w) \/ MarkReason(w) \/ MarkId(w) PROVE OwnWrites
  BY <1>6 DEF AppendTranscript, MarkState, MarkReason, MarkId, files, history
<1>7. ASSUME NEW w \in Workers, LogTranscript(w) PROVE OwnWrites
  BY <1>7 DEF LogTranscript, history
<1>8. ASSUME NEW w \in Workers, UpdateState(w) \/ AppendToolCall(w) PROVE OwnWrites
  BY <1>8 DEF UpdateState, AppendToolCall, files
<1>9. ASSUME NEW w \in Workers, RunAdapter(w) \/ HandOff(w) \/ AppendFails(w) PROVE OwnWrites
  BY <1>9 DEF RunAdapter, HandOff, AppendFails, files, history
<1>10. CASE Tick \/ Restart \/ UNCHANGED vars
  BY <1>10 DEF Tick, Restart, vars, files, history
<1> QED BY <1>1, <1>2, <1>3, <1>4, <1>5, <1>6, <1>7, <1>8, <1>9, <1>10 DEF Next, Proceed

\* A step is a handler's, or moves no handler, or restarts the server.
LEMMA WhoMoves ==
  ASSUME Types, [Next]_vars
  PROVE  \/ \E w \in Workers : (Take(w) \/ Proceed(w)) /\ OnlyMoves(w)
         \/ UNCHANGED <<pc, req, loc, store>>
         \/ Restart
<1>1. ASSUME NEW w \in Workers, Take(w) \/ Proceed(w) PROVE OnlyMoves(w)
  <2> USE DEF Types, Handlers, HandlerTypes, OnlyMoves, Goto, Finish
  <2>1. CASE Take(w)
    BY <2>1 DEF Take, CreateSession, BindEvent, GetSessionProvider, Bind
  <2>2. CASE LogCreated(w) \/ BindToolCall(w) \/ AdmitEvent(w) \/ AdmitToolCall(w) \/ Refuse(w)
    BY <2>2 DEF LogCreated, BindToolCall, Bind, AdmitEvent, AdmitToolCall, Refuse
  <2>3. CASE LogEvent(w) \/ AppendTranscript(w) \/ LogTranscript(w) \/ UpdateState(w)
    BY <2>3 DEF LogEvent, AppendTranscript, LogTranscript, UpdateState
  <2>4. CASE RejectArguments(w) \/ RunAdapter(w) \/ HandOff(w)
    BY <2>4 DEF RejectArguments, RunAdapter, HandOff
  <2>5. CASE MarkState(w) \/ MarkReason(w) \/ MarkId(w)
    BY <2>5 DEF MarkState, MarkReason, MarkId
  <2>6. CASE LogToolCall(w) \/ AppendToolCall(w) \/ AppendFails(w)
    BY <2>6 DEF LogToolCall, AppendToolCall, AppendFails
  <2> QED BY <1>1, <2>1, <2>2, <2>3, <2>4, <2>5, <2>6 DEF Proceed
<1>2. Tick \/ UNCHANGED vars => UNCHANGED <<pc, req, loc, store>>
  BY DEF Tick, vars, memory
<1> QED BY <1>1, <1>2 DEF Next

\* Where a handler is after its step tells which step it was.
LEMMA HandlerStep ==
  ASSUME Types, NEW w \in Workers, Take(w) \/ Proceed(w)
  PROVE  /\ pc'[w] = "append_transcript" => LogEvent(w)
         /\ pc'[w] = "log_transcript" => AppendTranscript(w)
         /\ pc'[w] = "update_state" => LogTranscript(w)
         /\ pc'[w] = "append_tool_call" => LogToolCall(w)
         /\ pc'[w] = "log_created" => CreateSession(w)
         /\ pc'[w] \in Admitted =>
              \/ AdmitEvent(w) \/ AdmitToolCall(w)
              \/ /\ pc[w] \in Admitted /\ loc'[w].id = loc[w].id
                 /\ pc'[w] \in Unwritten => pc[w] \in Unwritten
<1> USE DEF Types, Handlers, HandlerTypes, Goto, Finish, Admitted, EventSteps, ToolSteps, Unwritten
<1>1. CASE Take(w)
  BY <1>1 DEF Take, CreateSession, BindEvent, GetSessionProvider, Bind
<1>2. CASE LogCreated(w) \/ BindToolCall(w) \/ Refuse(w) \/ RejectArguments(w) \/ UpdateState(w)
             \/ AppendToolCall(w) \/ AppendFails(w)
  BY <1>2 DEF LogCreated, BindToolCall, Bind, Refuse, RejectArguments, UpdateState,
     AppendToolCall, AppendFails
<1>3. CASE AdmitEvent(w) \/ AdmitToolCall(w)
  BY <1>3 DEF AdmitEvent, AdmitToolCall
<1>4. CASE LogEvent(w) \/ AppendTranscript(w) \/ LogTranscript(w)
  BY <1>4 DEF LogEvent, AppendTranscript, LogTranscript
<1>5. CASE RunAdapter(w) \/ HandOff(w) \/ MarkState(w)
  <2>1. \E l : loc' = [loc EXCEPT ![w].handoff_required = l] \/ loc' = [loc EXCEPT ![w].object = l]
    BY <1>5 DEF RunAdapter, HandOff, MarkState
  <2>2. loc'[w].id = loc[w].id
    BY <2>1 DEF Locals
  <2> QED BY <1>5, <2>2 DEF RunAdapter, HandOff, MarkState
<1>6. CASE MarkReason(w) \/ MarkId(w) \/ LogToolCall(w)
  BY <1>6 DEF MarkReason, MarkId, LogToolCall
<1> QED BY <1>1, <1>2, <1>3, <1>4, <1>5, <1>6 DEF Proceed

\* A line is added at the end of the event log.
LEMMA AppendedLine ==
  ASSUME Types, NEW line, eventLog' = Append(eventLog, line)
  PROVE  LET n == Len(eventLog) + 1
         IN  /\ Lines' = Lines \cup {n} /\ eventLog'[n] = line
             /\ Lines \subseteq Nat /\ n \in Nat
             /\ \A i \in Lines : i < n /\ eventLog'[i] = eventLog[i]
<1>1. eventLog \in Seq(EventLines)
  BY DEF Types, FileTypes
<1> QED BY <1>1 DEF Lines

\* Lines are only ever added.
LEMMA LogGrows ==
  ASSUME Types, [Next]_vars
  PROVE  \A i \in Lines : i \in Lines' /\ eventLog'[i] = eventLog[i]
<1>1. CASE UNCHANGED eventLog
  BY <1>1 DEF Lines
<1>2. ASSUME NEW w \in Workers, LogCreated(w) \/ LogEvent(w) \/ LogToolCall(w)
      PROVE  \A i \in Lines : i \in Lines' /\ eventLog'[i] = eventLog[i]
  <2>1. \E line : eventLog' = Append(eventLog, line)
    BY <1>2 DEF LogCreated, LogEvent, LogToolCall
  <2> QED BY <2>1, AppendedLine
<1> QED BY <1>1, <1>2, WhoWrites DEF OwnWrites

\* Each step keeps the lines of the handlers that wait past them.
LEMMA HandlersLoggedStep ==
  ASSUME Types, Logged, [Next]_vars
  PROVE  HandlersLogged'
<1> SUFFICES ASSUME NEW v \in Workers
             PROVE  /\ pc'[v] \in {"append_transcript", "log_transcript", "update_state"} => EventLogged(v)'
                    /\ pc'[v] = "append_tool_call" => ToolCallLogged(v)'
  BY DEF HandlersLogged
<1>1. \A i \in Lines : i \in Lines' /\ eventLog'[i] = eventLog[i]
  BY LogGrows
<1>2. ASSUME pc'[v] = pc[v], req'[v] = req[v], loc'[v] = loc[v]
      PROVE  /\ pc'[v] \in {"append_transcript", "log_transcript", "update_state"} => EventLogged(v)'
             /\ pc'[v] = "append_tool_call" => ToolCallLogged(v)'
  BY <1>1, <1>2 DEF Logged, HandlersLogged, EventLogged, ToolCallLogged, HasText
<1>3. CASE UNCHANGED <<pc, req, loc>>
  BY <1>2, <1>3
<1>4. CASE Restart
  BY <1>4 DEF Restart
<1>5. CASE Take(v) \/ Proceed(v)
  <2>1. CASE LogEvent(v)
    <3> DEFINE line == Line(v, "event", req[v].state, HasText(req[v]) /\ loc[v].mode # "off")
               n == Len(eventLog) + 1
    <3>1. eventLog' = Append(eventLog, line) /\ req' = req /\ loc' = loc /\ pc'[v] = "append_transcript"
      BY <2>1 DEF LogEvent, Goto, Types, Handlers, HandlerTypes
    <3>2. /\ line.kind = "event" /\ line.id = loc[v].id /\ line.mode = loc[v].mode
          /\ line.text = (HasText(req[v]) /\ loc[v].mode # "off")
          /\ line.sid = req[v].sid /\ line.owner = req[v].owner /\ line.provider = req[v].provider
      BY DEF Line
    <3> HIDE DEF line
    <3>3. n \in Lines' /\ eventLog'[n] = line
      BY <3>1, AppendedLine
    <3> QED BY <3>1, <3>2, <3>3 DEF EventLogged
  <2>2. CASE LogToolCall(v)
    <3> DEFINE state == IF loc[v].handoff_required THEN "handoff_pending" ELSE "tool_calling"
               line == Line(v, "tool", state, FALSE)
               n == Len(eventLog) + 1
    <3>1. eventLog' = Append(eventLog, line) /\ req' = req /\ loc' = loc /\ pc'[v] = "append_tool_call"
      BY <2>2 DEF LogToolCall, Goto, Types, Handlers, HandlerTypes
    <3>2. line.kind = "tool" /\ line.id = loc[v].id /\ line.sid = req[v].sid
      BY DEF Line
    <3> HIDE DEF line
    <3>3. n \in Lines' /\ eventLog'[n] = line
      BY <3>1, AppendedLine
    <3> QED BY <3>1, <3>2, <3>3 DEF ToolCallLogged
  <2>3. CASE AppendTranscript(v) \/ LogTranscript(v)
    <3>1. /\ req' = req /\ loc' = loc /\ pc[v] \in {"append_transcript", "log_transcript"}
          /\ pc'[v] \in {"log_transcript", "update_state"}
      BY <2>3 DEF AppendTranscript, LogTranscript, Goto, Types, Handlers, HandlerTypes
    <3> QED BY <1>1, <3>1 DEF Logged, HandlersLogged, EventLogged, HasText
  <2> QED BY <1>5, <2>1, <2>2, <2>3, HandlerStep
<1>6. ASSUME NEW w \in Workers, w # v, OnlyMoves(w) PROVE pc'[v] = pc[v] /\ req'[v] = req[v] /\ loc'[v] = loc[v]
  BY <1>6 DEF OnlyMoves
<1> QED BY <1>2, <1>3, <1>4, <1>5, <1>6, WhoMoves

\* A transcript line is written past the event line of the same handler.
LEMMA TranscriptHasEventStep ==
  ASSUME Types, Logged, [Next]_vars
  PROVE  TranscriptHasEvent'
<1>1. \A i \in Lines : i \in Lines' /\ eventLog'[i] = eventLog[i]
  BY LogGrows
<1>2. CASE UNCHANGED transcriptLog
  BY <1>1, <1>2 DEF Logged, TranscriptHasEvent
<1>3. ASSUME NEW w \in Workers, LogTranscript(w), KeepsTranscript(w) PROVE TranscriptHasEvent'
  <2>1. /\ transcriptLog' = Append(transcriptLog, TranscriptLine(w)) /\ transcriptLog \in Seq(TranscriptLines)
    BY <1>3 DEF LogTranscript, Types, FileTypes
  <2>2. EventLogged(w)
    BY <1>3 DEF LogTranscript, Logged, HandlersLogged
  <2>3. HasText(req[w]) /\ loc[w].mode = "transcript"
    BY <1>3 DEF KeepsTranscript
  <2>4. \E j \in Lines : LET l == eventLog[j] t == TranscriptLine(w)
                         IN  /\ l.kind = "event" /\ l.mode = "transcript" /\ l.text
                             /\ <<l.id, l.sid, l.owner, l.provider>> = <<t.id, t.sid, t.owner, t.provider>>
    BY <2>2, <2>3 DEF EventLogged, TranscriptLine
  <2>5. \A i \in DOMAIN transcriptLog' :
          \/ transcriptLog'[i] = TranscriptLine(w)
          \/ i \in DOMAIN transcriptLog /\ transcriptLog'[i] = transcriptLog[i]
    BY <2>1
  <2> QED BY <1>1, <2>4, <2>5 DEF Logged, TranscriptHasEvent
<1>4. ASSUME NEW w \in Workers, LogTranscript(w), ~KeepsTranscript(w) PROVE UNCHANGED transcriptLog
  BY <1>4 DEF LogTranscript
<1> QED BY <1>2, <1>3, <1>4, WhoWrites DEF OwnWrites

\* An admitted event with text, and a tool call, add their id to the session.
TranscriptAdded(w, s) ==
  /\ AppendTranscript(w) /\ HasText(req[w]) /\ loc[w].mode # "off"
  /\ req[w].sid = s /\ store[s] # NoSession
  /\ store'[s].transcripts = Append(store[s].transcripts, loc[w].id)
  /\ store'[s].tool_calls = store[s].tool_calls

ToolCallAdded(w, s) ==
  /\ AppendToolCall(w)
  /\ req[w].sid = s /\ store[s] # NoSession
  /\ store'[s].transcripts = store[s].transcripts
  /\ store'[s].tool_calls = Append(store[s].tool_calls, loc[w].id)

\* A session keeps its records.
SameRecords(s) ==
  /\ store[s] # NoSession
  /\ store'[s].transcripts = store[s].transcripts /\ store'[s].tool_calls = store[s].tool_calls

\* What a session keeps of its work changes only in these ways.
LEMMA WhoRecords ==
  ASSUME Types, [Next]_vars, NEW s \in SessionIds, store'[s] # NoSession
  PROVE  \/ SameRecords(s)
         \/ store'[s].transcripts = <<>> /\ store'[s].tool_calls = <<>>
         \/ \E w \in Workers : TranscriptAdded(w, s) \/ ToolCallAdded(w, s)
<1> DEFINE Goal ==
         \/ SameRecords(s)
         \/ store'[s].transcripts = <<>> /\ store'[s].tool_calls = <<>>
         \/ \E w \in Workers : TranscriptAdded(w, s) \/ ToolCallAdded(w, s)
<1>1. CASE store'[s] = store[s]
  BY <1>1 DEF SameRecords
<1>2. ASSUME NEW w \in Workers, CreateSession(w) PROVE Goal
  <2> PICK r \in CreateRequests, ttl \in Lifetimes \cup {DefaultTTL} :
        store' = [store EXCEPT ![r.sid] = CreatedSession(r, Len(issued) + 1, now + ttl)]
    BY <1>2, Zenon DEF CreateSession
  <2>1. CASE r.sid = s
    BY <2>1 DEF CreatedSession, Types, StoreType
  <2>2. CASE r.sid # s
    BY <1>1, <2>2 DEF Types, StoreType
  <2> QED BY <2>1, <2>2
<1>3. ASSUME NEW w \in Workers, pc[w] \in Bound,
             MarkState(w) \/ MarkReason(w) \/ MarkId(w) \/ UpdateState(w)
      PROVE  Goal
  <2> DEFINE session == store[req[w].sid]
  <2>1. session \in Sessions /\ session # NoSession
    BY <1>3, WorkerTypes
  <2>2. ASSUME NEW x
        PROVE  /\ [session EXCEPT !.state = x].transcripts = session.transcripts
               /\ [session EXCEPT !.state = x].tool_calls = session.tool_calls
               /\ [session EXCEPT !.handoff_reason = x].transcripts = session.transcripts
               /\ [session EXCEPT !.handoff_reason = x].tool_calls = session.tool_calls
               /\ [session EXCEPT !.handoff_id = x].transcripts = session.transcripts
               /\ [session EXCEPT !.handoff_id = x].tool_calls = session.tool_calls
    BY <2>1 DEF Sessions
  <2>3. \/ store' = store
        \/ \E x : store' = [store EXCEPT ![req[w].sid] = [session EXCEPT !.state = x]]
        \/ \E x : store' = [store EXCEPT ![req[w].sid] = [session EXCEPT !.handoff_reason = x]]
        \/ \E x : store' = [store EXCEPT ![req[w].sid] = [session EXCEPT !.handoff_id = x]]
    BY <1>3 DEF MarkState, MarkReason, MarkId, UpdateState
  <2> HIDE DEF session
  <2>4. req[w].sid = s => session = store[s]
    BY DEF session
  <2>5. req[w].sid # s => store'[s] = store[s]
    BY <2>3 DEF Types, StoreType
  <2>6. CASE req[w].sid = s
    <3>1. \/ store'[s] = session
          \/ \E x : store'[s] = [session EXCEPT !.state = x]
          \/ \E x : store'[s] = [session EXCEPT !.handoff_reason = x]
          \/ \E x : store'[s] = [session EXCEPT !.handoff_id = x]
      BY <2>3, <2>4, <2>6 DEF Types, StoreType
    <3>2. store'[s].transcripts = session.transcripts /\ store'[s].tool_calls = session.tool_calls
      BY <2>2, <3>1
    <3> QED BY <2>1, <2>4, <2>6, <3>2 DEF SameRecords
  <2> QED BY <1>1, <2>5, <2>6
<1>4. ASSUME NEW w \in Workers, AppendTranscript(w) PROVE Goal
  <2> DEFINE session == store[req[w].sid]
  <2>1. session \in Sessions /\ session # NoSession
    BY <1>4, WorkerTypes DEF AppendTranscript, Bound, Admitted, EventSteps
  <2>2. CASE HasText(req[w]) /\ loc[w].mode # "off" /\ req[w].sid = s
    <3>1. store'[s] = [session EXCEPT !.transcripts = Append(session.transcripts, loc[w].id)]
      BY <1>4, <2>2 DEF AppendTranscript, Types, StoreType
    <3>2. /\ store'[s].transcripts = Append(session.transcripts, loc[w].id)
          /\ store'[s].tool_calls = session.tool_calls
      BY <2>1, <3>1 DEF Sessions
    <3> QED BY <1>4, <2>1, <2>2, <3>2 DEF TranscriptAdded
  <2>3. CASE ~(HasText(req[w]) /\ loc[w].mode # "off" /\ req[w].sid = s)
    BY <1>1, <1>4, <2>3 DEF AppendTranscript, Types, StoreType
  <2> QED BY <2>2, <2>3
<1>5. ASSUME NEW w \in Workers, AppendToolCall(w) PROVE Goal
  <2> DEFINE session == store[req[w].sid]
  <2>1. session \in Sessions /\ session # NoSession
    BY <1>5, WorkerTypes DEF AppendToolCall, Bound, Admitted, ToolSteps
  <2>2. CASE req[w].sid = s
    <3>1. store'[s] = [session EXCEPT !.tool_calls = Append(session.tool_calls, loc[w].id)]
      BY <1>5, <2>2 DEF AppendToolCall, Types, StoreType
    <3>2. /\ store'[s].tool_calls = Append(session.tool_calls, loc[w].id)
          /\ store'[s].transcripts = session.transcripts
      BY <2>1, <3>1 DEF Sessions
    <3> QED BY <1>5, <2>1, <2>2, <3>2 DEF ToolCallAdded
  <2>3. CASE req[w].sid # s
    BY <1>1, <1>5, <2>3 DEF AppendToolCall, Types, StoreType
  <2> QED BY <2>2, <2>3
<1>6. CASE Restart
  BY <1>6 DEF Restart
<1>7. ASSUME NEW w \in Workers, Proceed(w),
             ~(MarkState(w) \/ MarkReason(w) \/ MarkId(w) \/ UpdateState(w)),
             ~AppendTranscript(w), ~AppendToolCall(w)
      PROVE  store' = store
  BY <1>7 DEF Proceed, LogCreated, BindToolCall, Bind, AdmitEvent, AdmitToolCall, Refuse,
     LogEvent, LogTranscript, RejectArguments, RunAdapter, HandOff, LogToolCall, AppendFails
<1>8. ASSUME NEW w \in Workers, BindEvent(w) \/ GetSessionProvider(w) PROVE store' = store
  BY <1>8 DEF BindEvent, Bind, GetSessionProvider
<1>9. Tick \/ UNCHANGED vars => store' = store
  BY DEF Tick, vars, memory
<1>10. ASSUME NEW w \in Workers, MarkState(w) \/ MarkReason(w) \/ MarkId(w) \/ UpdateState(w)
       PROVE  pc[w] \in Bound
  BY <1>10 DEF MarkState, MarkReason, MarkId, UpdateState, Bound, Admitted, EventSteps, ToolSteps
<1> QED BY <1>1, <1>2, <1>3, <1>4, <1>5, <1>6, <1>7, <1>8, <1>9, <1>10 DEF Next, Take

\* A session's records grow only by what the handler has logged.
LEMMA MemoryFollowsLogStep ==
  ASSUME Types, Logged, [Next]_vars
  PROVE  MemoryFollowsLog'
<1> DEFINE Text(id, s, log) == \E i \in DOMAIN log :
             log[i].id = id /\ log[i].kind = "event" /\ log[i].sid = s /\ log[i].text
           Tool(id, s, log) == \E i \in DOMAIN log :
             log[i].id = id /\ log[i].kind = "tool" /\ log[i].sid = s
           Followed(s) ==
             /\ \A k \in DOMAIN store'[s].transcripts : Text(store'[s].transcripts[k], s, eventLog')
             /\ \A k \in DOMAIN store'[s].tool_calls : Tool(store'[s].tool_calls[k], s, eventLog')
<1>1. \A id, s : /\ Text(id, s, eventLog) => Text(id, s, eventLog')
                 /\ Tool(id, s, eventLog) => Tool(id, s, eventLog')
  BY LogGrows DEF Lines
<1>2. \A s \in SessionIds : store[s] # NoSession =>
        /\ \A k \in DOMAIN store[s].transcripts : Text(store[s].transcripts[k], s, eventLog)
        /\ \A k \in DOMAIN store[s].tool_calls : Tool(store[s].tool_calls[k], s, eventLog)
  BY DEF Logged, MemoryFollowsLog, Lines
<1>3. SUFFICES ASSUME NEW s \in SessionIds, store'[s] # NoSession
               PROVE  Followed(s)
  BY DEF MemoryFollowsLog, Lines
<1>4. ASSUME NEW w \in Workers, AppendTranscript(w), HasText(req[w]), loc[w].mode # "off", req[w].sid = s
      PROVE  Text(loc[w].id, s, eventLog)
  BY <1>4 DEF AppendTranscript, Logged, HandlersLogged, EventLogged, Lines
<1>5. ASSUME NEW w \in Workers, AppendToolCall(w), req[w].sid = s
      PROVE  Tool(loc[w].id, s, eventLog)
  BY <1>5 DEF AppendToolCall, Logged, HandlersLogged, ToolCallLogged, Lines
<1>6. store[s] # NoSession => store[s].transcripts \in Seq(Nat) /\ store[s].tool_calls \in Seq(Nat)
  BY DEF Types, StoreType, Sessions
<1>7. ASSUME NEW t \in Seq(Nat), NEW id, NEW k \in DOMAIN Append(t, id)
      PROVE  Append(t, id)[k] = id \/ (k \in DOMAIN t /\ Append(t, id)[k] = t[k])
  OBVIOUS
<1> HIDE DEF Text, Tool
<1>8. CASE SameRecords(s)
  BY <1>1, <1>2, <1>8 DEF SameRecords
<1>9. CASE store'[s].transcripts = <<>> /\ store'[s].tool_calls = <<>>
  BY <1>9
<1>10. ASSUME NEW w \in Workers, TranscriptAdded(w, s) PROVE Followed(s)
  BY <1>1, <1>2, <1>4, <1>6, <1>7, <1>10 DEF TranscriptAdded
<1>11. ASSUME NEW w \in Workers, ToolCallAdded(w, s) PROVE Followed(s)
  BY <1>1, <1>2, <1>5, <1>6, <1>7, <1>11 DEF ToolCallAdded
<1> QED BY <1>3, <1>8, <1>9, <1>10, <1>11, WhoRecords

\* What a new line says.
LEMMA WhoLogs ==
  ASSUME Types, Authorised, NEW w \in Workers, LogCreated(w) \/ LogEvent(w) \/ LogToolCall(w)
  PROVE  \E line :
           /\ eventLog' = Append(eventLog, line)
           /\ line.text => line.mode # "off"
           /\ \/ /\ LogCreated(w) /\ line.kind = "created" /\ line.tok = loc[w].object
              \/ /\ LogEvent(w) \/ LogToolCall(w)
                 /\ line.kind # "created" /\ line.id = loc[w].id
                 /\ line.tok \in delivered
<1> DEFINE Goal ==
         \E line :
           /\ eventLog' = Append(eventLog, line)
           /\ line.text => line.mode # "off"
           /\ \/ /\ LogCreated(w) /\ line.kind = "created" /\ line.tok = loc[w].object
              \/ /\ LogEvent(w) \/ LogToolCall(w)
                 /\ line.kind # "created" /\ line.id = loc[w].id
                 /\ line.tok \in delivered
<1>1. CASE LogCreated(w)
  <2> DEFINE line == Line(w, "created", "idle", FALSE)
  <2>1. line.kind = "created" /\ line.tok = loc[w].object /\ line.text = FALSE
    BY DEF Line
  <2>2. eventLog' = Append(eventLog, line)
    BY <1>1 DEF LogCreated
  <2> QED BY <1>1, <2>1, <2>2
<1>2. ASSUME LogEvent(w) \/ LogToolCall(w),
             NEW kind \in {"event", "tool"}, NEW state, NEW text,
             eventLog' = Append(eventLog, Line(w, kind, state, text)),
             text => loc[w].mode # "off"
      PROVE  Goal
  <2>1. pc[w] \in Admitted /\ pc[w] \in Bound
    BY <1>2 DEF LogEvent, LogToolCall, Bound, Admitted, EventSteps, ToolSteps
  <2>2. req[w].tok \in delivered
    BY <2>1 DEF Authorised, WorkerIssued, MintedFor, Tokens
  <2>3. LET line == Line(w, kind, state, text)
        IN  /\ line.kind = kind /\ line.id = loc[w].id /\ line.tok = req[w].tok
            /\ line.text = text /\ line.mode = loc[w].mode
    BY DEF Line
  <2> QED BY <1>2, <2>2, <2>3
<1>3. CASE LogEvent(w)
  BY <1>2, <1>3 DEF LogEvent
<1>4. CASE LogToolCall(w)
  BY <1>2, <1>4 DEF LogToolCall
<1> QED BY <1>1, <1>3, <1>4

\* The first line about a token is that of its session, and is written before the token
\* is handed out; an answer comes after the line of its request.
LEMMA TokenLinesStep ==
  ASSUME Types, Authorised, Logged, [Next]_vars
  PROVE  LinesDelivered' /\ TextNotOff' /\ AcknowledgedIsLogged'
<1> DEFINE First(t, log, lines) ==
             \E i \in lines : /\ log[i].tok = t /\ log[i].kind = "created"
                              /\ \A j \in lines : log[j].tok = t => i <= j
<1>0. \A i \in Lines : i \in Lines' /\ eventLog'[i] = eventLog[i]
  BY LogGrows
<1>1. \A t \in delivered : First(t, eventLog, Lines)
  BY DEF Logged, AcknowledgedIsLogged
<1>2. LinesDelivered' /\ TextNotOff' /\ \A t \in delivered' : First(t, eventLog', Lines')
  <2>1. CASE UNCHANGED <<eventLog, delivered>>
    BY <1>1, <2>1 DEF Logged, LinesDelivered, TextNotOff, Lines
  <2>2. ASSUME NEW w \in Workers, LogCreated(w) \/ LogEvent(w) \/ LogToolCall(w)
        PROVE  LinesDelivered' /\ TextNotOff' /\ \A t \in delivered' : First(t, eventLog', Lines')
    <3> DEFINE n == Len(eventLog) + 1
    <3>1. PICK line :
           /\ eventLog' = Append(eventLog, line)
           /\ line.text => line.mode # "off"
           /\ \/ /\ LogCreated(w) /\ line.kind = "created" /\ line.tok = loc[w].object
              \/ /\ LogEvent(w) \/ LogToolCall(w)
                 /\ line.kind # "created" /\ line.id = loc[w].id
                 /\ line.tok \in delivered
      BY <2>2, WhoLogs
    <3>2. /\ Lines' = Lines \cup {n} /\ eventLog'[n] = line
          /\ Lines \subseteq Nat /\ n \in Nat
          /\ \A i \in Lines : i < n /\ eventLog'[i] = eventLog[i]
      BY <3>1, AppendedLine
    <3> HIDE DEF n
    <3>3. \/ /\ delivered' = delivered \cup {line.tok} /\ line.tok \notin delivered
             /\ line.kind = "created"
          \/ delivered' = delivered /\ line.tok \in delivered
      BY <3>1 DEF LogCreated, LogEvent, LogToolCall, history, Logged, Undelivered
    <3>4. LinesDelivered'
      BY <3>2, <3>3 DEF LinesDelivered, Logged
    <3>5. TextNotOff'
      BY <3>1, <3>2 DEF TextNotOff, Logged
    <3>6. ASSUME NEW t \in delivered PROVE First(t, eventLog', Lines')
      <4> PICK i \in Lines : /\ eventLog[i].tok = t /\ eventLog[i].kind = "created"
                             /\ \A j \in Lines : eventLog[j].tok = t => i <= j
        BY <1>1
      <4>1. \A j \in Lines' : eventLog'[j].tok = t => i <= j
        BY <3>2
      <4> QED BY <3>2, <4>1
    <3>7. line.tok \notin delivered /\ line.kind = "created" => First(line.tok, eventLog', Lines')
      <4> SUFFICES ASSUME line.tok \notin delivered, line.kind = "created"
                   PROVE  \A j \in Lines' : eventLog'[j].tok = line.tok => n <= j
        BY <3>2
      <4>1. \A j \in Lines : eventLog'[j].tok # line.tok
        BY <3>2 DEF Logged, LinesDelivered
      <4> QED BY <3>2, <4>1
    <3> HIDE DEF First
    <3> QED BY <3>3, <3>4, <3>5, <3>6, <3>7
  <2> QED BY <2>1, <2>2, WhoWrites DEF OwnWrites
<1>3. \A id \in acknowledged' : \E i \in Lines : eventLog[i].id = id /\ eventLog[i].kind # "created"
  <2>1. CASE UNCHANGED acknowledged
    BY <2>1 DEF Logged, AcknowledgedIsLogged
  <2>2. ASSUME NEW w \in Workers, UpdateState(w) \/ AppendToolCall(w)
        PROVE  \A id \in acknowledged' : \E i \in Lines : eventLog[i].id = id /\ eventLog[i].kind # "created"
    <3>1. acknowledged' = acknowledged \cup {loc[w].id}
      BY <2>2 DEF UpdateState, AppendToolCall
    <3>2. \E i \in Lines : eventLog[i].id = loc[w].id /\ eventLog[i].kind # "created"
      BY <2>2 DEF UpdateState, AppendToolCall, Logged, HandlersLogged, EventLogged, ToolCallLogged
    <3> QED BY <3>1, <3>2 DEF Logged, AcknowledgedIsLogged
  <2> QED BY <2>1, <2>2, WhoWrites DEF OwnWrites
<1> QED BY <1>0, <1>2, <1>3 DEF AcknowledgedIsLogged

\* The only handler that moves is the one whose action it is.
LEMMA SameWorker ==
  ASSUME Types, NEW w \in Workers, OnlyMoves(w), NEW v \in Workers,
         LogCreated(v) \/ LogEvent(v) \/ LogToolCall(v) \/ AdmitEvent(v) \/ AdmitToolCall(v)
  PROVE  v = w
BY DEF LogCreated, LogEvent, LogToolCall, AdmitEvent, AdmitToolCall, Finish, Goto, OnlyMoves,
   Types, Handlers, HandlerTypes

\* A token is new when it is minted and is handed out by one handler.
LEMMA UndeliveredStep ==
  ASSUME Types, Authorised, Logged, [Next]_vars
  PROVE  Undelivered'
<1>1. CASE UNCHANGED <<pc, loc, delivered>>
  BY <1>1 DEF Logged, Undelivered
<1>2. CASE Restart
  BY <1>2 DEF Restart, Undelivered
<1>3. ASSUME NEW w \in Workers, Take(w) \/ Proceed(w), OnlyMoves(w) PROVE Undelivered'
  <2>1. CASE CreateSession(w)
    <3>1. loc'[w].object = Len(issued) + 1 /\ delivered' = delivered /\ pc'[w] = "log_created"
      <4> PICK token \in {Len(issued) + 1} : loc' = [loc EXCEPT ![w].object = token]
        BY <2>1 DEF CreateSession
      <4>1. loc'[w] = [loc[w] EXCEPT !.object = token] /\ loc[w] \in Locals
        BY DEF Types, Handlers, HandlerTypes
      <4>2. loc'[w].object = token
        BY <4>1 DEF Locals
      <4> QED BY <2>1, <4>2 DEF CreateSession, Goto, Types, Handlers, HandlerTypes
    <3>2. delivered \subseteq Tokens /\ Len(issued) + 1 \notin Tokens
      BY DEF Types, HistoryTypes, Tokens
    <3>3. \A v \in Workers : pc[v] = "log_created" => loc[v].object \in Tokens
      BY DEF Authorised, WorkerIssued, MintedFor
    <3> QED BY <1>3, <3>1, <3>2, <3>3 DEF OnlyMoves, Logged, Undelivered
  <2>2. CASE ~CreateSession(w)
    <3>1. pc'[w] # "log_created"
      BY <1>3, <2>2, HandlerStep
    <3>2. CASE LogCreated(w)
      <4>1. delivered' = delivered \cup {loc[w].object} /\ pc[w] = "log_created"
        BY <3>2 DEF LogCreated
      <4> QED BY <1>3, <3>1, <4>1 DEF OnlyMoves, Logged, Undelivered
    <3>3. CASE UNCHANGED delivered
      BY <1>3, <3>1, <3>3 DEF OnlyMoves, Logged, Undelivered
    <3> QED BY <1>3, <3>2, <3>3, SameWorker, WhoWrites DEF OwnWrites
  <2> QED BY <2>1, <2>2
<1>4. UNCHANGED <<pc, req, loc, store>> => UNCHANGED delivered
  <2>1. ASSUME NEW w \in Workers, LogCreated(w), UNCHANGED pc PROVE FALSE
    BY <2>1 DEF LogCreated, Finish, Goto, Types, Handlers, HandlerTypes
  <2> QED BY <2>1, WhoWrites DEF OwnWrites
<1> QED BY <1>1, <1>2, <1>3, <1>4, WhoMoves

\* An id is new when it is handed out, and its handler writes one line.
LEMMA IdsUniqueStep ==
  ASSUME Types, Authorised, Logged, [Next]_vars
  PROVE  IdsUnique'
<1> USE DEF Logged
<1>0. events \in Nat /\ Admitted = EventSteps \cup ToolSteps
  BY DEF Types, CounterTypes, Admitted
<1>ids. \A i \in WorkLines : eventLog[i].id \in Nat
  <2>1. \A i \in Lines : eventLog[i] \in EventLines
    BY DEF Lines, Types, FileTypes
  <2> QED BY <2>1 DEF WorkLines, EventLines
<1>1. UNCHANGED eventLog => WorkLines' = WorkLines
  BY DEF WorkLines, Lines
<1>2. CASE UNCHANGED <<pc, loc>>
  <2>1. ASSUME NEW w \in Workers,
               LogCreated(w) \/ LogEvent(w) \/ LogToolCall(w) \/ AdmitEvent(w) \/ AdmitToolCall(w)
        PROVE  FALSE
    BY <1>2, <2>1 DEF LogCreated, LogEvent, LogToolCall, AdmitEvent, AdmitToolCall, Finish, Goto,
       Types, Handlers, HandlerTypes
  <2>2. UNCHANGED <<eventLog, events>>
    BY <2>1, WhoWrites DEF OwnWrites
  <2> QED BY <1>1, <1>2, <2>2 DEF IdsUnique
<1>3. CASE Restart
  <2>1. UNCHANGED <<eventLog, events>> /\ \A w \in Workers : pc'[w] = "idle"
    BY <1>3 DEF Restart, files
  <2>2. "idle" \notin Admitted
    BY DEF Admitted, EventSteps, ToolSteps
  <2> QED BY <1>1, <2>1, <2>2 DEF IdsUnique
<1>4. ASSUME NEW w \in Workers, Take(w) \/ Proceed(w), OnlyMoves(w) PROVE IdsUnique'
  <2>1. CASE AdmitEvent(w) \/ AdmitToolCall(w)
    <3>1. UNCHANGED eventLog /\ events' = events + 1 /\ loc'[w].id = events + 1
      BY <2>1 DEF AdmitEvent, AdmitToolCall, files, Types, Handlers, HandlerTypes, Locals
    <3>2. WorkLines' = WorkLines
      BY <1>1, <3>1
    <3>3. \A i \in WorkLines : eventLog[i].id <= events /\ eventLog[i].id # events + 1
      BY <1>0, <1>ids DEF IdsUnique
    <3>4. \A v \in Workers : v # w /\ pc'[v] \in Admitted => pc[v] \in Admitted /\ loc'[v].id = loc[v].id
      BY <1>4 DEF OnlyMoves
    <3>5. ASSUME NEW v \in Workers, pc'[v] \in Admitted
          PROVE  /\ loc'[v].id \in 1..events'
                 /\ \A u \in Workers : pc'[u] \in Admitted /\ loc'[u].id = loc'[v].id => u = v
                 /\ pc'[v] \in Unwritten => \A i \in WorkLines' : eventLog'[i].id # loc'[v].id
      <4>1. \A u \in Workers : u # w /\ pc'[u] \in Admitted => loc'[u].id \in 1..events /\ loc'[u].id # events + 1
        BY <1>0, <3>4 DEF IdsUnique
      <4>2. CASE v = w
        BY <1>0, <3>1, <3>2, <3>3, <4>1, <4>2
      <4>3. CASE v # w
        <5>1. pc'[v] = pc[v]
          BY <1>4, <4>3 DEF OnlyMoves
        <5> QED BY <1>0, <3>1, <3>2, <3>4, <3>5, <4>1, <4>3, <5>1 DEF IdsUnique
      <4> QED BY <4>2, <4>3
    <3>6. /\ \A i \in WorkLines' : eventLog'[i].id <= events'
          /\ \A i, j \in WorkLines' : eventLog'[i].id = eventLog'[j].id => i = j
      BY <1>0, <1>ids, <3>1, <3>2 DEF IdsUnique
    <3> QED BY <3>5, <3>6 DEF IdsUnique
  <2>2. CASE LogEvent(w) \/ LogToolCall(w)
    <3> DEFINE n == Len(eventLog) + 1
    <3>1. PICK line : /\ eventLog' = Append(eventLog, line)
                      /\ line.kind # "created" /\ line.id = loc[w].id
      BY <2>2, WhoLogs DEF LogCreated, LogEvent, LogToolCall
    <3>2. /\ Lines' = Lines \cup {n} /\ eventLog'[n] = line
          /\ Lines \subseteq Nat /\ n \in Nat
          /\ \A i \in Lines : i < n /\ eventLog'[i] = eventLog[i]
      BY <3>1, AppendedLine
    <3> HIDE DEF n
    <3>3. WorkLines' = WorkLines \cup {n} /\ WorkLines \subseteq Lines
      BY <3>1, <3>2 DEF WorkLines
    <3>4. /\ loc' = loc /\ pc[w] \in Admitted /\ pc[w] \in Unwritten
          /\ pc'[w] \in Admitted /\ pc'[w] \notin Unwritten /\ UNCHANGED events
      BY <2>2 DEF LogEvent, LogToolCall, Goto, Unwritten, Admitted, EventSteps, ToolSteps,
         Types, Handlers, HandlerTypes
    <3>5. loc[w].id \in 1..events /\ \A i \in WorkLines : eventLog[i].id # loc[w].id
      BY <3>4 DEF IdsUnique
    <3>6. /\ \A i \in WorkLines' : eventLog'[i].id <= events'
          /\ \A i, j \in WorkLines' : eventLog'[i].id = eventLog'[j].id => i = j
      <4>1. \A i \in WorkLines : eventLog'[i].id = eventLog[i].id /\ eventLog'[i].id # eventLog'[n].id
        BY <3>1, <3>2, <3>3, <3>5
      <4>2. eventLog'[n].id <= events'
        BY <1>0, <3>1, <3>2, <3>4, <3>5
      <4> QED BY <3>3, <3>4, <4>1, <4>2 DEF IdsUnique
    <3>7. ASSUME NEW v \in Workers, pc'[v] \in Admitted
          PROVE  /\ loc'[v].id \in 1..events'
                 /\ \A u \in Workers : pc'[u] \in Admitted /\ loc'[u].id = loc'[v].id => u = v
                 /\ pc'[v] \in Unwritten => \A i \in WorkLines' : eventLog'[i].id # loc'[v].id
      <4>1. \A u \in Workers : loc'[u] = loc[u] /\ (pc'[u] \in Admitted => pc[u] \in Admitted)
        BY <1>4, <3>4 DEF OnlyMoves
      <4>2. /\ loc[v].id \in 1..events
            /\ \A u \in Workers : pc[u] \in Admitted /\ loc[u].id = loc[v].id => u = v
        BY <3>7, <4>1 DEF IdsUnique
      <4>3. ASSUME pc'[v] \in Unwritten
            PROVE  \A i \in WorkLines' : eventLog'[i].id # loc'[v].id
        <5>1. v # w /\ pc[v] \in Unwritten /\ pc[v] \in Admitted
          BY <1>4, <3>4, <3>7, <4>1, <4>3 DEF OnlyMoves
        <5>2. loc[w].id # loc[v].id
          BY <3>4, <4>2, <5>1
        <5>3. \A i \in WorkLines : eventLog[i].id # loc[v].id
          BY <5>1 DEF IdsUnique
        <5> QED BY <3>1, <3>2, <3>3, <4>1, <5>2, <5>3
      <4> QED BY <3>4, <4>1, <4>2, <4>3
    <3> QED BY <3>6, <3>7 DEF IdsUnique
  <2>3. CASE ~(AdmitEvent(w) \/ AdmitToolCall(w)) /\ ~(LogEvent(w) \/ LogToolCall(w))
    <3>1. UNCHANGED events
      BY <1>4, <2>3, SameWorker, WhoWrites DEF OwnWrites
    <3>2. UNCHANGED eventLog \/ LogCreated(w)
      BY <1>4, <2>3, SameWorker, WhoWrites DEF OwnWrites
    <3>3. WorkLines' = WorkLines /\ \A i \in WorkLines : eventLog'[i] = eventLog[i]
      <4>1. CASE LogCreated(w)
        <5>1. PICK line : eventLog' = Append(eventLog, line) /\ line.kind = "created"
          BY <4>1, <2>3, WhoLogs
        <5> QED BY <5>1, AppendedLine DEF WorkLines
      <4> QED BY <1>1, <3>2, <4>1
    <3>4. pc'[w] \in Admitted =>
            pc[w] \in Admitted /\ loc'[w].id = loc[w].id /\ (pc'[w] \in Unwritten => pc[w] \in Unwritten)
      BY <1>4, <2>3, HandlerStep
    <3> QED BY <1>4, <3>1, <3>3, <3>4 DEF OnlyMoves, IdsUnique
  <2> QED BY <2>1, <2>2, <2>3
<1> QED BY <1>2, <1>3, <1>4, WhoMoves

\* The logs of a new server are empty.
LEMMA LoggedInit == Init => Logged
BY DEF Init, Logged, HandlersLogged, TranscriptHasEvent, MemoryFollowsLog, AcknowledgedIsLogged,
   LinesDelivered, Undelivered, IdsUnique, WorkLines, TextNotOff, Lines, Admitted, EventSteps, ToolSteps

\* The invariant holds, on top of IInv.
LEMMA SpecLogged == Spec => []Logged
<1>1. IInv /\ Logged /\ [Next]_vars => Logged'
  BY HandlersLoggedStep, TranscriptHasEventStep, MemoryFollowsLogStep, TokenLinesStep,
     UndeliveredStep, IdsUniqueStep DEF IInv, Logged
<1> QED BY <1>1, LoggedInit, SpecIInv, PTL DEF Spec

\* For any number of threads, crashes and failed appends: every line of the transcript
\* log belongs to an event line with its id and binding.
THEOREM ApiTranscriptHasEvent == Spec => []TranscriptHasEvent
BY SpecLogged, PTL DEF Logged

\* A session in memory is never ahead of the log.
THEOREM ApiMemoryFollowsLog == Spec => []MemoryFollowsLog
BY SpecLogged, PTL DEF Logged

\* What a client was told succeeded is on disk, the session of its token first, although
\* the store, the two files and the answer are separate steps.
THEOREM ApiAcknowledgedIsLogged == Spec => []AcknowledgedIsLogged
BY SpecLogged, PTL DEF Logged

\* With VOICEAGENTS_TRANSCRIPT_LOGGING=off an event's text is kept nowhere, whatever
\* mode other requests are handled in at the same time.
THEOREM ApiOffModeKeepsNoText == Spec => []OffModeKeepsNoText
<1>1. Logged => OffModeKeepsNoText
  <2> SUFFICES ASSUME Logged, NEW i \in Lines, eventLog[i].kind = "event", eventLog[i].mode = "off"
               PROVE  /\ ~eventLog[i].text
                      /\ \A j \in DOMAIN transcriptLog : transcriptLog[j].id # eventLog[i].id
                      /\ \A s \in SessionIds : store[s] # NoSession =>
                           \A k \in DOMAIN store[s].transcripts :
                             store[s].transcripts[k] # eventLog[i].id
    BY DEF OffModeKeepsNoText
  <2>1. ~eventLog[i].text
    BY DEF Logged, TextNotOff
  <2>2. \A j \in Lines : eventLog[j].kind = "event" /\ eventLog[j].id = eventLog[i].id => j = i
    BY DEF Logged, IdsUnique, WorkLines
  <2>3. \A j \in DOMAIN transcriptLog : transcriptLog[j].id # eventLog[i].id
    BY <2>2 DEF Logged, TranscriptHasEvent
  <2>4. \A s \in SessionIds : store[s] # NoSession =>
          \A k \in DOMAIN store[s].transcripts : store[s].transcripts[k] # eventLog[i].id
    BY <2>1, <2>2 DEF Logged, MemoryFollowsLog
  <2> QED BY <2>1, <2>3, <2>4
<1> QED BY <1>1, SpecLogged, PTL

-----------------------------------------------------------------------------
(* The audit of a handoff, for any number of threads *)

\* A handler in mark_handoff has handed off.
Required ==
  \A w \in Workers : pc[w] \in {"mark_state", "mark_reason", "mark_id"} => loc[w].handoff_required

\* No handler has this id any more, and its request was not answered with success.
Orphan(id) ==
  /\ id \in 1..events /\ id \notin acknowledged
  /\ \A w \in Workers : pc[w] \in Admitted => loc[w].id # id

\* Where the id of a handoff may be.
Sure(s, id) ==
  \/ Audited(s, id)
  \/ \E w \in Workers : AboutToAudit(w, s, id)
  \/ LogMayFail /\ Orphan(id)

\* HandoffNotLost, with the reason why an id whose append failed is never answered.
HandoffKept ==
  \A s \in SessionIds : store[s] # NoSession =>
    \A id \in {store[s].handoff_reason, store[s].handoff_id} : id # 0 => Sure(s, id)

\* A session keeps its handoff.
SameHandoff(s) ==
  /\ store[s] # NoSession
  /\ store'[s].handoff_reason = store[s].handoff_reason
  /\ store'[s].handoff_id = store[s].handoff_id

\* Worker w, in mark_handoff, sets one of the two fields of session s.
Marked(w, s) ==
  /\ MarkReason(w) \/ MarkId(w)
  /\ req[w].sid = s /\ store[s] # NoSession
  /\ store'[s].handoff_reason \in {store[s].handoff_reason, loc[w].id}
  /\ store'[s].handoff_id \in {store[s].handoff_id, loc[w].id}

\* The handoff of a session changes only in these ways.
LEMMA WhoMarks ==
  ASSUME Types, [Next]_vars, NEW s \in SessionIds, store'[s] # NoSession
  PROVE  \/ SameHandoff(s)
         \/ store'[s].handoff_reason = 0 /\ store'[s].handoff_id = 0
         \/ \E w \in Workers : Marked(w, s)
<1> DEFINE Goal ==
         \/ SameHandoff(s)
         \/ store'[s].handoff_reason = 0 /\ store'[s].handoff_id = 0
         \/ \E w \in Workers : Marked(w, s)
<1>1. CASE store'[s] = store[s]
  BY <1>1 DEF SameHandoff
<1>2. ASSUME NEW w \in Workers, CreateSession(w) PROVE Goal
  <2> PICK r \in CreateRequests, ttl \in Lifetimes \cup {DefaultTTL} :
        store' = [store EXCEPT ![r.sid] = CreatedSession(r, Len(issued) + 1, now + ttl)]
    BY <1>2, Zenon DEF CreateSession
  <2>1. CASE r.sid = s
    BY <2>1 DEF CreatedSession, Types, StoreType
  <2>2. CASE r.sid # s
    BY <1>1, <2>2 DEF Types, StoreType
  <2> QED BY <2>1, <2>2
<1>3. ASSUME NEW w \in Workers,
             \/ AppendTranscript(w) \/ AppendToolCall(w) \/ MarkState(w) \/ UpdateState(w)
             \/ MarkReason(w) \/ MarkId(w)
      PROVE  Goal
  <2> DEFINE session == store[req[w].sid]
  <2>1. session \in Sessions /\ session # NoSession
    BY <1>3, WorkerTypes DEF AppendTranscript, AppendToolCall, MarkState, UpdateState, MarkReason,
       MarkId, Bound, Admitted, EventSteps, ToolSteps
  <2>2. CASE req[w].sid # s
    BY <1>1, <1>3, <2>2 DEF AppendTranscript, AppendToolCall, MarkState, UpdateState, MarkReason,
       MarkId, Types, StoreType
  <2> HIDE DEF session
  <2>3. req[w].sid = s => session = store[s]
    BY DEF session
  <2>4. CASE (AppendTranscript(w) \/ AppendToolCall(w)) /\ req[w].sid = s
    <3>1. \/ store'[s] = store[s]
          \/ store'[s] = [session EXCEPT !.transcripts = Append(session.transcripts, loc[w].id)]
          \/ store'[s] = [session EXCEPT !.tool_calls = Append(session.tool_calls, loc[w].id)]
      BY <2>3, <2>4 DEF AppendTranscript, AppendToolCall, Types, StoreType
    <3>2. /\ store'[s].handoff_reason = session.handoff_reason
          /\ store'[s].handoff_id = session.handoff_id
      BY <2>1, <2>3, <2>4, <3>1 DEF Sessions
    <3> QED BY <2>1, <2>3, <2>4, <3>2 DEF SameHandoff
  <2>5. CASE (MarkState(w) \/ UpdateState(w)) /\ req[w].sid = s
    <3>1. \/ store'[s] = [session EXCEPT !.state = "handoff_pending"]
          \/ store'[s] = [session EXCEPT !.state = req[w].state]
      BY <2>3, <2>5 DEF MarkState, UpdateState, Types, StoreType
    <3>2. /\ store'[s].handoff_reason = session.handoff_reason
          /\ store'[s].handoff_id = session.handoff_id
      BY <2>1, <3>1 DEF Sessions
    <3> QED BY <2>1, <2>3, <2>5, <3>2 DEF SameHandoff
  <2>6. CASE (MarkReason(w) \/ MarkId(w)) /\ req[w].sid = s
    <3>1. \/ store'[s] = store[s]
          \/ store'[s] = [session EXCEPT !.handoff_reason = loc[w].id]
          \/ store'[s] = [session EXCEPT !.handoff_id = loc[w].id]
      BY <2>3, <2>6 DEF MarkReason, MarkId, Types, StoreType
    <3>2. /\ store'[s].handoff_reason \in {session.handoff_reason, loc[w].id}
          /\ store'[s].handoff_id \in {session.handoff_id, loc[w].id}
      BY <2>1, <2>3, <2>6, <3>1 DEF Sessions
    <3> QED BY <2>1, <2>3, <2>6, <3>2 DEF Marked
  <2> QED BY <1>3, <2>2, <2>4, <2>5, <2>6
<1>4. CASE Restart
  BY <1>4 DEF Restart
<1>5. ASSUME NEW w \in Workers, Proceed(w), ~AppendTranscript(w), ~AppendToolCall(w),
             ~MarkState(w), ~UpdateState(w), ~MarkReason(w), ~MarkId(w)
      PROVE  store' = store
  BY <1>5 DEF Proceed, LogCreated, BindToolCall, Bind, AdmitEvent, AdmitToolCall, Refuse,
     LogEvent, LogTranscript, RejectArguments, RunAdapter, HandOff, LogToolCall, AppendFails
<1>6. ASSUME NEW w \in Workers, BindEvent(w) \/ GetSessionProvider(w) PROVE store' = store
  BY <1>6 DEF BindEvent, Bind, GetSessionProvider
<1>7. Tick \/ UNCHANGED vars => store' = store
  BY DEF Tick, vars, memory
<1> QED BY <1>1, <1>2, <1>3, <1>4, <1>5, <1>6, <1>7 DEF Next, Take

\* A handler enters mark_handoff by handing off.
LEMMA RequiredStep ==
  ASSUME Types, Required, [Next]_vars
  PROVE  Required'
<1> SUFFICES ASSUME NEW v \in Workers, pc'[v] \in {"mark_state", "mark_reason", "mark_id"}
             PROVE  loc'[v].handoff_required
  BY DEF Required
<1>1. CASE Take(v) \/ Proceed(v)
  <2> USE DEF Types, Handlers, HandlerTypes, Goto, Finish
  <2>1. ~Take(v)
    BY DEF Take, CreateSession, BindEvent, GetSessionProvider, Bind
  <2>2. ~(LogCreated(v) \/ BindToolCall(v) \/ AdmitEvent(v) \/ AdmitToolCall(v) \/ Refuse(v))
    BY DEF LogCreated, BindToolCall, Bind, AdmitEvent, AdmitToolCall, Refuse
  <2>3. ~(LogEvent(v) \/ AppendTranscript(v) \/ LogTranscript(v) \/ UpdateState(v))
    BY DEF LogEvent, AppendTranscript, LogTranscript, UpdateState
  <2>4. ~(RejectArguments(v) \/ RunAdapter(v) \/ MarkId(v))
    BY DEF RejectArguments, RunAdapter, MarkId
  <2>5. ~(LogToolCall(v) \/ AppendToolCall(v) \/ AppendFails(v))
    BY DEF LogToolCall, AppendToolCall, AppendFails
  <2>6. CASE HandOff(v)
    BY <2>6 DEF HandOff, Locals
  <2>7. CASE MarkState(v) \/ MarkReason(v)
    <3>1. pc[v] \in {"mark_state", "mark_reason"} /\ loc[v] \in Locals
      BY <2>7 DEF MarkState, MarkReason
    <3>2. loc'[v] = loc[v] \/ \E x : loc'[v] = [loc[v] EXCEPT !.object = x]
      BY <2>7 DEF MarkState, MarkReason
    <3>3. loc'[v].handoff_required = loc[v].handoff_required
      BY <3>1, <3>2 DEF Locals
    <3> QED BY <3>1, <3>3 DEF Required
  <2> QED BY <1>1, <2>1, <2>2, <2>3, <2>4, <2>5, <2>6, <2>7 DEF Proceed
<1>2. CASE UNCHANGED <<pc, req, loc>>
  BY <1>2 DEF Required
<1>3. CASE Restart
  BY <1>3 DEF Restart
<1>4. ASSUME NEW w \in Workers, w # v, OnlyMoves(w) PROVE loc'[v].handoff_required
  BY <1>4 DEF OnlyMoves, Required
<1> QED BY <1>1, <1>2, <1>3, <1>4, WhoMoves

\* An id that no handler has is not handed out again, and not answered.
LEMMA OrphanStays ==
  ASSUME Types, [Next]_vars, ~Restart, NEW id, Orphan(id)
  PROVE  Orphan(id)'
<1>1. events \in Nat
  BY DEF Types, CounterTypes
<1>2. events' = events \/ events' = events + 1
  BY WhoWrites DEF OwnWrites, AdmitEvent, AdmitToolCall
<1>3. id \in 1..events'
  BY <1>1, <1>2 DEF Orphan
<1>4. id \notin acknowledged'
  <2>1. ASSUME NEW w \in Workers, UpdateState(w) \/ AppendToolCall(w)
        PROVE  acknowledged' = acknowledged \cup {loc[w].id} /\ loc[w].id # id
    BY <2>1 DEF UpdateState, AppendToolCall, Orphan, Admitted, EventSteps, ToolSteps
  <2> QED BY <2>1, WhoWrites DEF OwnWrites, Orphan
<1>5. ASSUME NEW v \in Workers, pc'[v] \in Admitted PROVE loc'[v].id # id
  <2>1. CASE UNCHANGED <<pc, req, loc, store>>
    BY <1>5, <2>1 DEF Orphan
  <2>2. ASSUME NEW w \in Workers, Take(w) \/ Proceed(w), OnlyMoves(w) PROVE loc'[v].id # id
    <3>1. CASE v # w
      BY <1>5, <2>2, <3>1 DEF OnlyMoves, Orphan
    <3>2. CASE v = w /\ (AdmitEvent(w) \/ AdmitToolCall(w))
      <4>1. loc'[w].id = events + 1
        BY <3>2 DEF AdmitEvent, AdmitToolCall, Types, Handlers, HandlerTypes, Locals
      <4> QED BY <1>1, <3>2, <4>1 DEF Orphan
    <3>3. CASE v = w /\ ~(AdmitEvent(w) \/ AdmitToolCall(w))
      <4>1. pc[w] \in Admitted /\ loc'[w].id = loc[w].id
        BY <1>5, <2>2, <3>3, HandlerStep
      <4> QED BY <3>3, <4>1 DEF Orphan
    <3> QED BY <3>1, <3>2, <3>3
  <2> QED BY <2>1, <2>2, WhoMoves
<1> QED BY <1>3, <1>4, <1>5 DEF Orphan

\* A handler whose append fails leaves an id that no one has, and no one was told of.
LEMMA FailedIsOrphan ==
  ASSUME Types, Logged, NEW v \in Workers, pc[v] = "log_tool", AppendFails(v),
         NEW id, id = loc[v].id
  PROVE  Orphan(id)'
<1>1. pc[v] \in Admitted /\ pc[v] \in Unwritten
  BY DEF Admitted, ToolSteps, Unwritten
<1>2. /\ loc[v].id \in 1..events
      /\ \A i \in WorkLines : eventLog[i].id # loc[v].id
      /\ \A u \in Workers : pc[u] \in Admitted /\ loc[u].id = loc[v].id => u = v
  BY <1>1 DEF Logged, IdsUnique
<1>3. loc[v].id \notin acknowledged
  BY <1>2 DEF Logged, AcknowledgedIsLogged, WorkLines
<1>4. /\ UNCHANGED <<events, acknowledged>>
      /\ \A u \in Workers : u # v => pc'[u] = pc[u] /\ loc'[u] = loc[u]
      /\ pc'[v] = "idle" /\ "idle" \notin Admitted
  BY DEF AppendFails, Finish, Goto, history, Types, Handlers, HandlerTypes, Admitted, EventSteps,
     ToolSteps
<1> QED BY <1>2, <1>3, <1>4 DEF Orphan

\* A handler about to write the line of its handoff writes it, unless the process dies
\* or the append fails.
LEMMA AuditGoesOn ==
  ASSUME Types, Logged, [Next]_vars, ~Restart, NEW v \in Workers, NEW s, NEW id,
         AboutToAudit(v, s, id)
  PROVE  AboutToAudit(v, s, id)' \/ Audited(s, id)' \/ (LogMayFail /\ Orphan(id)')
<1> USE DEF AboutToAudit
<1>1. CASE Take(v) \/ Proceed(v)
  <2> USE DEF Types, Handlers, HandlerTypes, Goto
  <2>1. ~Take(v)
    BY DEF Take, CreateSession, BindEvent, GetSessionProvider, Bind
  <2>2. MarkId(v) \/ LogToolCall(v) \/ AppendFails(v)
    BY <1>1, <2>1 DEF Proceed, LogCreated, BindToolCall, AdmitEvent, AdmitToolCall, Refuse,
       LogEvent, AppendTranscript, LogTranscript, UpdateState, RejectArguments, RunAdapter,
       HandOff, MarkState, MarkReason, AppendToolCall
  <2>3. CASE MarkId(v)
    BY <2>3 DEF MarkId
  <2>4. CASE LogToolCall(v)
    <3> DEFINE line == Line(v, "tool", "handoff_pending", FALSE)
               n == Len(eventLog) + 1
    <3>1. eventLog' = Append(eventLog, line)
      BY <2>4 DEF LogToolCall
    <3>2. /\ line.kind = "tool" /\ line.id = id /\ line.sid = s
          /\ line.state = "handoff_pending"
      BY DEF Line
    <3> HIDE DEF line
    <3>3. n \in Lines' /\ eventLog'[n] = line
      BY <3>1, AppendedLine
    <3> QED BY <3>2, <3>3 DEF Audited
  <2>5. CASE AppendFails(v)
    <3>1. pc[v] = "log_tool" /\ LogMayFail
      BY <2>5 DEF AppendFails
    <3>2. Orphan(id)'
      BY <2>5, <3>1, FailedIsOrphan
    <3> QED BY <3>1, <3>2
  <2> QED BY <2>2, <2>3, <2>4, <2>5
<1>2. CASE UNCHANGED <<pc, req, loc>>
  BY <1>2
<1>3. ASSUME NEW w \in Workers, w # v, OnlyMoves(w) PROVE AboutToAudit(v, s, id)'
  BY <1>3 DEF OnlyMoves
<1> QED BY <1>1, <1>2, <1>3, WhoMoves

\* A handler that sets a field of the session is about to write its line.
LEMMA MarkedIsAboutToAudit ==
  ASSUME Types, Required, NEW w \in Workers, NEW s, Marked(w, s), NEW id, id = loc[w].id
  PROVE  AboutToAudit(w, s, id)'
BY DEF Marked, MarkReason, MarkId, Goto, Types, Handlers, HandlerTypes, Required, AboutToAudit

\* Each step keeps sight of the handoffs.
LEMMA HandoffKeptStep ==
  ASSUME Types, Logged, Required, HandoffKept, [Next]_vars
  PROVE  HandoffKept'
<1>1. CASE Restart
  BY <1>1 DEF Restart, HandoffKept
<1>2. CASE ~Restart
  <2>1. SUFFICES ASSUME NEW s \in SessionIds, store'[s] # NoSession,
                        NEW id \in {store'[s].handoff_reason, store'[s].handoff_id}, id # 0
                 PROVE  Sure(s, id)'
    BY DEF HandoffKept
  <2>2. Audited(s, id) => Audited(s, id)'
    BY LogGrows DEF Audited
  <2>3. Orphan(id) => Orphan(id)'
    BY <1>2, OrphanStays
  <2>4. Sure(s, id) => Sure(s, id)'
    BY <1>2, <2>2, <2>3, AuditGoesOn DEF Sure
  <2>5. store[s] # NoSession /\ id \in {store[s].handoff_reason, store[s].handoff_id} => Sure(s, id)
    BY <2>1 DEF HandoffKept
  <2>6. ASSUME NEW w \in Workers, Marked(w, s), id = loc[w].id PROVE Sure(s, id)'
    BY <2>6, MarkedIsAboutToAudit DEF Sure
  <2> QED BY <2>1, <2>4, <2>5, <2>6, WhoMarks DEF SameHandoff, Marked
<1> QED BY <1>1, <1>2

\* For any number of threads, with appends that fail, restarts and sessions replaced
\* under a handler: whatever mark_handoff has left in a session has its line, or a
\* handler that still holds it, or was answered with an error.
THEOREM ApiHandoffNotLost == Spec => []HandoffNotLost
<1>1. Init => Required /\ HandoffKept
  BY DEF Init, Required, HandoffKept
<1>2. IInv /\ Logged /\ Required /\ HandoffKept /\ [Next]_vars => Required' /\ HandoffKept'
  BY RequiredStep, HandoffKeptStep DEF IInv
<1>3. HandoffKept => HandoffNotLost
  BY DEF HandoffKept, Sure, Orphan, HandoffNotLost
<1> QED BY <1>1, <1>2, <1>3, SpecIInv, SpecLogged, PTL DEF Spec

-----------------------------------------------------------------------------
(* The state of a session and the log, for any number of threads *)

\* Past its log line, a handler of an event finds there the state it will set.
StatesTold ==
  \A w \in Workers : pc[w] \in {"append_transcript", "log_transcript", "update_state"} =>
    Told(req[w].sid, req[w].state)

\* Only a restart starts a new life.
LEMMA SameLife == [Next]_vars /\ ~Restart => epoch' = epoch
<1> SUFFICES ASSUME [Next]_vars, ~Restart PROVE epoch' = epoch
  OBVIOUS
<1>1. ASSUME NEW w \in Workers, Take(w) PROVE epoch' = epoch
  BY <1>1 DEF Take, CreateSession, BindEvent, GetSessionProvider, Bind
<1>2. ASSUME NEW w \in Workers, Proceed(w) PROVE epoch' = epoch
  BY <1>2 DEF Proceed, LogCreated, BindToolCall, Bind, AdmitEvent, AdmitToolCall, Refuse,
     LogEvent, AppendTranscript, LogTranscript, UpdateState, RejectArguments, RunAdapter, HandOff,
     MarkState, MarkReason, MarkId, LogToolCall, AppendToolCall, AppendFails
<1>3. Tick \/ UNCHANGED vars => epoch' = epoch
  BY DEF Tick, vars
<1> QED BY <1>1, <1>2, <1>3 DEF Next

\* What the log has told it goes on telling, in this life.
LEMMA StillTold ==
  ASSUME Types, [Next]_vars, ~Restart, NEW s, NEW state, Told(s, state)
  PROVE  Told(s, state)'
BY LogGrows, SameLife DEF Told

\* An event's line tells its state before the handler goes on.
LEMMA StatesToldStep ==
  ASSUME Types, StatesTold, [Next]_vars
  PROVE  StatesTold'
<1> SUFFICES ASSUME NEW v \in Workers,
                    pc'[v] \in {"append_transcript", "log_transcript", "update_state"}
             PROVE  Told(req[v].sid, req[v].state)'
  BY DEF StatesTold
<1>1. CASE Restart
  BY <1>1 DEF Restart
<1>2. ASSUME ~Restart, req'[v] = req[v],
             pc[v] \in {"append_transcript", "log_transcript", "update_state"}
      PROVE  Told(req[v].sid, req[v].state)'
  <2>1. Told(req[v].sid, req[v].state)
    BY <1>2 DEF StatesTold
  <2>2. ASSUME NEW s, NEW state, s = req[v].sid, state = req[v].state
        PROVE  Told(s, state)'
    BY <1>2, <2>1, <2>2, StillTold
  <2> QED BY <1>2, <2>2 DEF Told
<1>3. CASE LogEvent(v)
  <2> DEFINE line == Line(v, "event", req[v].state, HasText(req[v]) /\ loc[v].mode # "off")
             n == Len(eventLog) + 1
  <2>1. eventLog' = Append(eventLog, line) /\ req' = req /\ epoch' = epoch
    BY <1>3 DEF LogEvent
  <2>2. /\ line.kind = "event" /\ line.sid = req[v].sid /\ line.state = req[v].state
        /\ line.epoch = epoch
    BY DEF Line
  <2> HIDE DEF line
  <2>3. n \in Lines' /\ eventLog'[n] = line
    BY <2>1, AppendedLine
  <2> QED BY <2>1, <2>2, <2>3 DEF Told
<1>4. CASE ~Restart /\ (Take(v) \/ Proceed(v)) /\ ~LogEvent(v)
  <2>1. AppendTranscript(v) \/ LogTranscript(v)
    BY <1>4, HandlerStep
  <2> QED BY <1>2, <1>4, <2>1 DEF AppendTranscript, LogTranscript
<1>5. ASSUME NEW w \in Workers, w # v, OnlyMoves(w)
      PROVE  req'[v] = req[v] /\ pc'[v] = pc[v]
  BY <1>5 DEF OnlyMoves
<1>6. CASE UNCHANGED <<pc, req, loc, store>> /\ ~Restart
  BY <1>2, <1>6
<1> QED BY <1>1, <1>2, <1>3, <1>4, <1>5, <1>6, WhoMoves

\* The state of a session changes only in these ways.
LEMMA WhoStates ==
  ASSUME Types, [Next]_vars, NEW s \in SessionIds, store'[s] # NoSession
  PROVE  \/ store[s] # NoSession /\ store'[s].state = store[s].state
         \/ store'[s].state = "idle"
         \/ \E w \in Workers : /\ UpdateState(w) /\ req[w].sid = s
                               /\ store'[s].state = req[w].state
         \/ \E w \in Workers : /\ MarkState(w) /\ req[w].sid = s
                               /\ store'[s].state = "handoff_pending"
<1> DEFINE Goal ==
         \/ store[s] # NoSession /\ store'[s].state = store[s].state
         \/ store'[s].state = "idle"
         \/ \E w \in Workers : /\ UpdateState(w) /\ req[w].sid = s
                               /\ store'[s].state = req[w].state
         \/ \E w \in Workers : /\ MarkState(w) /\ req[w].sid = s
                               /\ store'[s].state = "handoff_pending"
<1>1. CASE store'[s] = store[s]
  BY <1>1
<1>2. ASSUME NEW w \in Workers, CreateSession(w) PROVE Goal
  <2> PICK r \in CreateRequests, ttl \in Lifetimes \cup {DefaultTTL} :
        store' = [store EXCEPT ![r.sid] = CreatedSession(r, Len(issued) + 1, now + ttl)]
    BY <1>2, Zenon DEF CreateSession
  <2>1. CASE r.sid = s
    BY <2>1 DEF CreatedSession, Types, StoreType
  <2>2. CASE r.sid # s
    BY <1>1, <2>2 DEF Types, StoreType
  <2> QED BY <2>1, <2>2
<1>3. ASSUME NEW w \in Workers,
             \/ AppendTranscript(w) \/ AppendToolCall(w) \/ MarkState(w) \/ UpdateState(w)
             \/ MarkReason(w) \/ MarkId(w)
      PROVE  Goal
  <2> DEFINE session == store[req[w].sid]
  <2>1. session \in Sessions /\ session # NoSession
    BY <1>3, WorkerTypes DEF AppendTranscript, AppendToolCall, MarkState, UpdateState, MarkReason,
       MarkId, Bound, Admitted, EventSteps, ToolSteps
  <2>2. CASE req[w].sid # s
    BY <1>1, <1>3, <2>2 DEF AppendTranscript, AppendToolCall, MarkState, UpdateState, MarkReason,
       MarkId, Types, StoreType
  <2> HIDE DEF session
  <2>3. req[w].sid = s => session = store[s]
    BY DEF session
  <2>4. CASE /\ AppendTranscript(w) \/ AppendToolCall(w) \/ MarkReason(w) \/ MarkId(w)
             /\ req[w].sid = s
    <3>1. \/ store'[s] = store[s]
          \/ store'[s] = [session EXCEPT !.transcripts = Append(session.transcripts, loc[w].id)]
          \/ store'[s] = [session EXCEPT !.tool_calls = Append(session.tool_calls, loc[w].id)]
          \/ store'[s] = [session EXCEPT !.handoff_reason = loc[w].id]
          \/ store'[s] = [session EXCEPT !.handoff_id = loc[w].id]
      BY <2>3, <2>4 DEF AppendTranscript, AppendToolCall, MarkReason, MarkId, Types, StoreType
    <3>2. store'[s].state = session.state
      BY <2>1, <2>3, <2>4, <3>1 DEF Sessions
    <3> QED BY <2>1, <2>3, <2>4, <3>2
  <2>5. CASE (MarkState(w) \/ UpdateState(w)) /\ req[w].sid = s
    <3>1. \/ MarkState(w) /\ store'[s] = [session EXCEPT !.state = "handoff_pending"]
          \/ UpdateState(w) /\ store'[s] = [session EXCEPT !.state = req[w].state]
      BY <2>3, <2>5 DEF MarkState, UpdateState, Types, StoreType
    <3>2. \/ MarkState(w) /\ store'[s].state = "handoff_pending"
          \/ UpdateState(w) /\ store'[s].state = req[w].state
      BY <2>1, <3>1 DEF Sessions
    <3> QED BY <2>5, <3>2
  <2> QED BY <1>3, <2>2, <2>4, <2>5
<1>4. CASE Restart
  BY <1>4 DEF Restart
<1>5. ASSUME NEW w \in Workers, Proceed(w), ~AppendTranscript(w), ~AppendToolCall(w),
             ~MarkState(w), ~UpdateState(w), ~MarkReason(w), ~MarkId(w)
      PROVE  store' = store
  BY <1>5 DEF Proceed, LogCreated, BindToolCall, Bind, AdmitEvent, AdmitToolCall, Refuse,
     LogEvent, LogTranscript, RejectArguments, RunAdapter, HandOff, LogToolCall, AppendFails
<1>6. ASSUME NEW w \in Workers, BindEvent(w) \/ GetSessionProvider(w) PROVE store' = store
  BY <1>6 DEF BindEvent, Bind, GetSessionProvider
<1>7. Tick \/ UNCHANGED vars => store' = store
  BY DEF Tick, vars, memory
<1> QED BY <1>1, <1>2, <1>3, <1>4, <1>5, <1>6, <1>7 DEF Next, Take

\* A handler that has changed a state for a handoff logs it, unless the process dies or
\* the append fails.
LEMMA TellingGoesOn ==
  ASSUME Types, Required, [Next]_vars, ~Restart, NEW v \in Workers, NEW s, AboutToTell(v, s)
  PROVE  AboutToTell(v, s)' \/ Told(s, "handoff_pending")' \/ LogMayFail
<1> USE DEF AboutToTell
<1>1. CASE Take(v) \/ Proceed(v)
  <2> USE DEF Types, Handlers, HandlerTypes, Goto
  <2>1. ~Take(v)
    BY DEF Take, CreateSession, BindEvent, GetSessionProvider, Bind
  <2>2. MarkReason(v) \/ MarkId(v) \/ LogToolCall(v) \/ AppendFails(v)
    BY <1>1, <2>1 DEF Proceed, LogCreated, BindToolCall, AdmitEvent, AdmitToolCall, Refuse,
       LogEvent, AppendTranscript, LogTranscript, UpdateState, RejectArguments, RunAdapter,
       HandOff, MarkState, AppendToolCall
  <2>3. CASE MarkReason(v) \/ MarkId(v)
    BY <2>3 DEF MarkReason, MarkId
  <2>4. CASE LogToolCall(v)
    <3> DEFINE line == Line(v, "tool", "handoff_pending", FALSE)
               n == Len(eventLog) + 1
    <3>1. eventLog' = Append(eventLog, line) /\ epoch' = epoch
      BY <2>4 DEF LogToolCall
    <3>2. /\ line.kind = "tool" /\ line.sid = s /\ line.epoch = epoch
          /\ line.state = "handoff_pending"
      BY DEF Line
    <3> HIDE DEF line
    <3>3. n \in Lines' /\ eventLog'[n] = line
      BY <3>1, AppendedLine
    <3> QED BY <3>1, <3>2, <3>3 DEF Told
  <2>5. CASE AppendFails(v)
    BY <2>5 DEF AppendFails
  <2> QED BY <2>2, <2>3, <2>4, <2>5
<1>2. CASE UNCHANGED <<pc, req, loc>>
  BY <1>2
<1>3. ASSUME NEW w \in Workers, w # v, OnlyMoves(w) PROVE AboutToTell(v, s)'
  BY <1>3 DEF OnlyMoves
<1> QED BY <1>1, <1>2, <1>3, WhoMoves

\* Each step keeps the states of sessions behind the log.
LEMMA StateIsLoggedStep ==
  ASSUME Types, Required, StatesTold, StateIsLogged, [Next]_vars
  PROVE  StateIsLogged'
<1>1. CASE Restart
  BY <1>1 DEF Restart, StateIsLogged
<1>2. CASE ~Restart
  <2> SUFFICES ASSUME NEW s \in SessionIds, store'[s] # NoSession
               PROVE  \/ store'[s].state = "idle"
                      \/ Told(s, store[s].state)'
                      \/ /\ store'[s].state = "handoff_pending"
                         /\ LogMayFail \/ \E w \in Workers : AboutToTell(w, s)'
    BY DEF StateIsLogged
  <2> DEFINE state == store'[s].state
             Good == \/ state = "idle"
                     \/ Told(s, store[s].state)'
                     \/ /\ state = "handoff_pending"
                        /\ LogMayFail \/ \E w \in Workers : AboutToTell(w, s)'
  <2>1. ASSUME NEW x, x = state, Told(s, x)' PROVE Good
    BY <2>1 DEF Told
  <2>2. ASSUME store[s] # NoSession, state = store[s].state PROVE Good
    <3>1. \/ state = "idle"
          \/ Told(s, store[s].state)
          \/ state = "handoff_pending" /\ (LogMayFail \/ \E w \in Workers : AboutToTell(w, s))
      BY <2>2 DEF StateIsLogged
    <3>2. CASE Told(s, store[s].state)
      <4>1. ASSUME NEW x, x = state PROVE Told(s, x)'
        BY <1>2, <2>2, <3>2, <4>1, StillTold
      <4> QED BY <2>1, <4>1
    <3>3. ASSUME NEW w \in Workers, AboutToTell(w, s), state = "handoff_pending" PROVE Good
      BY <1>2, <2>1, <3>3, TellingGoesOn
    <3> QED BY <3>1, <3>2, <3>3
  <2>3. ASSUME NEW w \in Workers, UpdateState(w), req[w].sid = s, state = req[w].state
        PROVE  Good
    <3>1. Told(s, req[w].state)
      BY <2>3 DEF UpdateState, StatesTold
    <3>2. ASSUME NEW x, x = state PROVE Told(s, x)'
      BY <1>2, <2>3, <3>1, <3>2, StillTold
    <3> QED BY <2>1, <3>2
  <2>4. ASSUME NEW w \in Workers, MarkState(w), req[w].sid = s, state = "handoff_pending"
        PROVE  Good
    <3>1. loc[w].handoff_required /\ loc[w] \in Locals
      BY <2>4, WorkerTypes DEF MarkState, Required
    <3>2. loc'[w].handoff_required /\ pc'[w] = "mark_reason" /\ req' = req
      BY <2>4, <3>1 DEF MarkState, Goto, Locals, Types, Handlers, HandlerTypes
    <3> QED BY <2>4, <3>2 DEF AboutToTell
  <2> QED BY <2>2, <2>3, <2>4, WhoStates
<1> QED BY <1>1, <1>2

\* For any number of threads, crashes and failed appends, and with sessions replaced
\* under a handler: no session is in a state that an event has put it in and the log,
\* in this life of the server, does not tell.
THEOREM ApiStateIsLogged == Spec => []StateIsLogged
<1>1. Init => Required /\ StatesTold /\ StateIsLogged
  BY DEF Init, Required, StatesTold, StateIsLogged
<1>2. IInv /\ Required /\ StatesTold /\ StateIsLogged /\ [Next]_vars
        => Required' /\ StatesTold' /\ StateIsLogged'
  BY RequiredStep, StatesToldStep, StateIsLoggedStep DEF IInv
<1> QED BY <1>1, <1>2, SpecIInv, PTL DEF Spec
====
