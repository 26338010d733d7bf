# VoiceAgents in TLA+

A verification development for the `voiceagents` package: a FastAPI server for
browser voice sessions, the browser page that drives such a session, a harness
that judges demonstrations of it, and a simulated phone call. The modules are
translated from the code under `src/voiceagents`; paths below are relative to
that directory unless they start with `docs/`.

Run everything from this directory: `tlc -config ApiLogs.cfg MCRealtimeApi` for a
run (the table in "Runs" gives module and configuration of each), `tlapm
ProvisioningProofs.tla` for a proof module.

## 1. The system

### Components

| Component | State | Operations | Hard about it |
|---|---|---|---|
| Session store, `realtime/session_store.py` | sessions by id, in memory: metadata, token hash and expiry, state, transcripts, tool calls, handoff | create, binding check, update state, append, mark handoff | no lock; an id can be created again while requests use it; lost on restart |
| Realtime endpoints, `api/app.py` | none of their own | mint a client secret, ingest an event, execute a tool call | each handler is several accesses to shared state; each append may fail |
| Tool router, `realtime/tool_router.py` | none | check the token, check arguments, ask an adapter, mark a handoff | changes the session before the audit line is written |
| Event and transcript logs, `realtime/event_log.py` | two JSONL files | append | outlive the process, the sessions do not |
| Client-secret rate gate, `api/app.py` | a count for each client host | check and count | read, compare, write without a lock |
| Test page: session lifecycle, `api/static/realtime-test.html` | one global `state` object, buttons, panels | Start, Stop, Mute, transport events | seven awaits in Start, and Stop enables Start again while one waits |
| Test page: tool turns, the same file and `realtime-openai-adapter.js` | two flags, the data channel | answer the model's function calls | flags inferred from events that arrive late; handlers outlive sessions |
| Validation flow: the same file | panels, a validation run | Start Run, Finish Run | evidence is read back from panels which outlive sessions |
| Validation checks and run repository, `realtime/validation.py` | runs in memory, two files for each run | start, finish, list, load | two writes, several threads, restarts |
| Simulated call, `agent/service.py` | none | handle a call | order of the triggers |
| DashScope proxy, `api/app.py` and `realtime/dashscope.py` | one connection each: step, session id, provider, token | check, relay a message | token checked once, before `accept`; HTTP threads replace sessions under it |
| Event contract and adapters, `realtime/contracts.py`, `realtime-openai-adapter.js`, `realtime/dashscope.py` | none | accept an event; normalise a provider's event | three tables in three files that must fit |
| Providers, `realtime/providers.py`, and diagnostics, `realtime/diagnostics.py` | none; both read the environment | build a provider, mint a credential; say whether that can work | the environment is parsed twice, separately |
| Report viewer, `api/static/realtime-validation-reports.html` | selected run, report | load the list, load a report | answers out of order |
| Redaction, mock adapters, call evaluation, scripts | none | pure functions, demonstration data, command-line programs | |

### How they interact

The page asks `POST /v1/realtime/client-secret` for a credential; the handler goes
through the rate gate, asks a provider, creates a session in the store and logs
`session_created`. The page then talks to the provider (WebRTC data channel, or
the proxy's websocket), relays what it hears to `POST /v1/realtime/event`, and
executes the model's function calls through `POST /v1/realtime/tool-call`, both
with the session's bearer token. The two endpoints check the binding of the token
against the store, append to the logs, and change the session. Panels of the page
collect what happened; Finish Run sends their content to the run repository,
which judges it and writes `summary.json` and `report.md`; the report viewer
reads them back.

FastAPI runs plain `def` handlers on a pool of threads, and neither store,
counters, logs nor repository takes a lock: two handlers interleave between any
two accesses. The page is single-threaded and interleaves at `await`. Nothing is
transactional: a failing append, or the end of the process, leaves whatever was
done before it.

### What correctness means for each

- Endpoints and store: only authorised work is logged, never across a restart;
  memory, logs and answers agree although a handler can stop anywhere; a mode
  that keeps no text keeps none; what a session says of its state and its handoff, the
  log tells too, or a handler is about to write it.
- Rate gate: a count is a bound; nobody is refused early; ideally, nobody is
  admitted beyond the limit.
- Endpoint and diagnostics: a session has been paid for, whatever fails on the
  way; what the diagnostics call unfit makes no session, and a refusal that lies in
  the environment was foretold.
- Proxy: only authorised, whitelisted messages go to the provider. Adapters: the event endpoint accepts what they make.
- Page: what was opened is closed, a failed start is clean, credentials belong to
  the session, Start is possible again; a tool's result is answered.
- Harness: "ready for pilot" means demonstrated, "blocked" means a provider
  error, both as far as the page's panels can tell; the report says what the verdict rests on; the files of a run are whole,
  current and agree, and read through the endpoints they are one verdict for each run.
- Report viewer: what it shows is a report of the run it names, and no older than
  its user may expect.
- Simulated call: mandatory handoffs happen without asking a tool, and the human
  is told what was asked.

## 2. Modules

| Module | Models | Checked by | Proofs |
|---|---|---|---|
| `RealtimeApi` (`MCRealtimeApi`) | endpoints, store, router, logs | `ApiLogs.cfg`, `ApiEnded.cfg`, and below `DashScopeProxy` | `RealtimeApiProofs` |
| `EventContract` | the event contract and both adapters, as operators | through `DashScopeProxy` | `DashScopeProxyProofs` |
| `DashScopeProxy` (`MCDashScopeProxy`) | the websocket next to the endpoints; extends `RealtimeApi` and `EventContract` | `ApiBinding.cfg` | `DashScopeProxyProofs` |
| `RateGate` | `_enforce_real_provider_dev_gate` | through `Provisioning` | `ProvisioningProofs` |
| `Provisioning` (`MCProvisioning`) | environment, providers, diagnostics and the client-secret endpoint around the gate; extends `RateGate` and implements it | `Provisioning.cfg` | `ProvisioningProofs` |
| `RealtimePage` | Start, Stop, Mute | `PageSessions.cfg`, `PageStop.cfg` | `RealtimePageProofs` |
| `ToolTurns` | function calls and `response.create` | `ToolTurns.cfg` | `ToolTurnsProofs` |
| `ValidationChecks` | checks, verdict, redaction, report, as operators | through `ValidationPilot` | `ValidationPilotProofs` |
| `ValidationPilot` | a demonstration: panels, run, verdict, report | `PilotVerdict.cfg`, `PilotAssistant.cfg`, `PilotChannel.cfg` | `ValidationPilotProofs` |
| `RunBoard` | what the run repository promises, without files or threads | as a property of `ValidationRuns` | `ValidationRunsProofs` |
| `ValidationRuns` | run repository; implements `RunBoard` | through `ReportViewer` | `ValidationRunsProofs` |
| `ReportViewer` (`MCReportViewer`) | the report page; extends `ValidationRuns` | `ReportViewer.cfg` | `ValidationRunsProofs` |
| `CallFlow` | `CallFlowService` | `CallFlow.cfg` | `CallFlowProofs` |

An operator with an underscore and a comment `mutant:` (`Reset_KeepsStream`) is
not part of a specification: it is a plausible bug in the definition that follows
it. `PROJECT.json` pairs each property with the mutant that breaks it.

### RealtimeApi

A worker is a thread that serves a request. `pc[w]` is the next access of its
handler to the store or to a file, `req[w]` the request, `loc[w]` the handler's
local variables; what a handler does between two accesses belongs to the action
of the later one.

- `client-secret`: `CreateSession` (the provider has answered; `create_session`
  puts the session in the store, possibly over another one of that id), then
  `LogCreated`, then the token is delivered.
- `event`: `BindEvent` is the first lookup, which compares the metadata;
  `AdmitEvent` or `Refuse` the second, which checks the token: a session may be
  replaced in between. Then `LogEvent`, `AppendTranscript`, `LogTranscript` and
  `UpdateState`, the middle ones under the code's conditions on mode, speaker
  and kind.
- `tool-call`: `GetSessionProvider`, `BindToolCall`, `AdmitToolCall` or `Refuse`,
  then `RejectArguments`, `RunAdapter` or `HandOff`; a handoff goes through
  `MarkState`, `MarkReason` and `MarkId`, the three writes of `mark_handoff`.
  Then `LogToolCall` and `AppendToolCall`.
- `AppendFails` ends a handler at a log access; `Restart` empties the store and
  ends every handler, and keeps the files; `Tick` lets tokens expire.

A token is the number of its minting. `issued`, `delivered`, `acknowledged`, and
three fields of a log line are history variables that no guard reads, except
that a client presents only tokens it was given.

Abstracted: texts (whether there is one), status codes, the validation of fields,
the table of the lookup adapters (any answer). Left out: `ended_at` and
`end_session`, which nothing calls; torn lines of a log; unknown tool names,
refused before any state is touched; a token's expiry given without time zone.

### EventContract and DashScopeProxy

`EventContract` holds three translations: `Accepts` is the validator of the event
endpoint, `OpenAI` and `DashScope` are the two adapters, event type by event type. An
event is its type, state, speaker and the set of its other fields that are there.

A connection of the proxy is a record in `socket[k]`: `Connect` reads the session's
provider, `CheckToken` reads the session again for the token; then `Receive` takes a
message of the client, which goes to the upstream transport if it is a good
envelope, and `UpstreamAnswers` brings back an event, in the adapter's form, which
the page posts to the event endpoint. Every error of either side, and every refusal,
closes the connection; a transport that never answers leaves it in `upstream`. The
HTTP handlers of `RealtimeApi` are steps between any two of these, and a restart
closes every connection: `SocketsAfter` says so of the process, not of any line of it. `sent` and `relayed` are history. The
upstream transport is external: it may answer with any provider event, or none.

### RateGate and Provisioning

`ReadCount` is the gate up to `counters.get`, `Refuse` and `Admit` the rest: the
comparison of a value read earlier, and the write of that value plus one.
`admitted` and `refused` are history.

`Provisioning` puts the endpoint around the gate. `settings` is the environment the
process was started with; it does not change, so it is chosen in the initial state, as
is whether the endpoints are switched on. `stage[w]` is how far a request is: at the
gate, where `RateGate`'s actions are its steps; waiting for the provider, which
refuses or fails by one of `Faults`; or about to store its session. `Diagnose`
is the preflight endpoint; `told` remembers its answers, `refusals` the reasons why
requests were refused, `sessions` the sessions stored for each host. The gate's
variables change by the gate's actions only, which is what `ImplementsGate` says.

### RealtimePage

An attempt is one call of `startSession`, identified by a number; its `phase` is
the await it waits at. An object or credential is the number of the attempt that
made it, so that "whose token is this" can be asked. `Reset` is
`resetRealtimeResources`; `Fail` is what the click handler's `catch` does for any
attempt. `liveMedia`, `liveSockets` and `hearing` are what is really open,
whether the page still refers to it or not. `patient` is history: Stop was
never pressed while an attempt waited.

### ToolTurns

Both directions of the data channel are FIFO queues. `step[c]` is the await of
the handler of call `c`. The provider is external and modelled from how the page
uses it: one response at a time, which it begins when the user has spoken or when
it is asked; it refuses a `response.create` during a response with an error
event. A tool call that fails in the backend is, as in the code, not answered on
the channel. Transcript events do not touch the flags and are left out.

### ValidationChecks and ValidationPilot

A text is the set of the kinds of words in it, plain or blocked, since the
harness distinguishes nothing else; an event is plain, an error marker, blocked,
or a marker with blocked text. `ValidationChecks` translates
`evaluate_validation_checks`, `classify_verdict` and the two redactions:
the checks judge the raw request, the saved payload is redacted
separately, and the report's lines are built from both. `ValidationPilot` translates what writes the panels, what clears
them, and Start Run and Finish Run, with `facts`, a history of what really
happened since the panels were cleared. A behaviour is followed up to the first
saved summary; a summary is judged when it is saved, so nothing later changes it.

The panels are text, part of which is not the page's own, and the evidence is read
back from them. Three things follow, and all are in the model:

- The summary of an answer (`ToolAnswers`) is the model's or a backend's. What stands
  before a colon in each of its further lines is read back as the name of a tool, any
  of `Headings`; the history `named` remembers them.
- A lookup that answers with low confidence (`LowConfidence`) fills the handoff panel
  although nobody is handed over: the fact is `handoff wanted`, and `handed off` only
  after `handoff_to_human`.
- A failed tool (`ToolFails`) writes its message to the provider-events panel, where it
  may read like an error marker: the fact is `quoted`. An error of the data channel, on
  the other hand, is written to the session state only (`ChannelLost`).

### ValidationRuns

A finish request is a number, a file's content the number of the finish that
wrote it, or missing, emptied, or garbled. `OpenSummary`, `WriteSummary`,
`OpenReport` and `WriteReport` are the two `write_text` calls, `Remember` the entry in
`_runs` after the directory was made. `Restart` forgets `_runs` and keeps the
files. `acked`, `before`, `runOf`, `cut` and `overlapped` are history.

`RunBoard` is the abstract specification: one verdict for each run, which changes only
while a finish of that run is under way, to the verdict of such a finish or to none. The
refinement mapping of `ImplementsBoard` takes for the verdict the finish whose
summary a reader gets, if there is a whole one, and for the finishes under way
those of the workers that write: the report file, the directories and `_runs` are hidden.

### ReportViewer

`ListOne` is the server's look at one directory for the list, so that finishes come
between; a load is a record in `loads`, with the await it waits at and the answer it has
had. `Answer` is the server's `load_report`; `Receive` the page's code up to the await of
the body, which marks the run as selected; `ShowReport` and `ShowError` the rest.
Nothing orders two loads. `crossed` and a load's `knew` are history. The
repository's steps come between any two of the page's.

### CallFlow

`Triage` is the order of the triggers; `AskTool` and `ToolResponds` the lookup;
`HandOff` the call of the handoff adapter with its context. Thresholds and texts
are booleans; an adapter may answer anything. The `ok` flag of the handoff adapter
is ignored, as in the code.

## 3. Runs

| Run | Configuration | Question, and what the run shows |
|---|---|---|
| `api_binding` | `ApiBinding`, `MCDashScopeProxy` | Two threads, two owners, two providers, two mintings for one id, a restart, and a connection of the proxy: everything logged is authorised for what its token was minted for, in the same life of the process (`LoggedWorkIsAuthorised`); so is everything the proxy sends to the provider (`UpstreamIsAuthorised`); a handoff that changed a session is logged or about to be (`HandoffNotLost`), and the contract accepts every event that either adapter can make (`RelaysFitContract`). |
| `api_logs` | `ApiLogs`, `MCRealtimeApi` | Two threads, every mode, failing appends, a session replaced under its handlers, expiry, a restart: the transcript log, the event log, memory and acknowledgements agree (`TranscriptHasEvent`, `MemoryFollowsLog`, `AcknowledgedIsLogged`, `OffModeKeepsNoText`); so do the state of a session and the log (`StateIsLogged`), and each handoff that left a trace in a session is audited, about to be, or was not acknowledged (`HandoffNotLost`). |
| `api_ended` | `ApiEnded`, `MCRealtimeApi` | Violated: `EndedTokenIsInvalid`; a token goes on working after its session ended. |
| `gate_shared` | `Provisioning`, `MCProvisioning` | Three threads, every environment: the count is a bound (`CountIsABound`), a session is paid for whatever fails (`SessionsArePaidFor`); the diagnostics are never too strict, and too lax in three named cases only (`DiagnosticsAgree`); the endpoint implements the gate (`ImplementsGate`, refinement). |
| `page_sessions` | `PageSessions`, `RealtimePage` | Three attempts that overlap and fail anywhere, Stop and Mute at any time. As long as Stop is not pressed during an attempt: `NothingLeaks`, `FailedStartIsClean`, `CredentialsMatchSession`, `MuteSilencesEveryTrack`. Always: `NeverStuckStarting`. |
| `page_stop` | `PageStop`, `RealtimePage` | Violated: `StopReleasesEverything`; a stopped attempt goes on. |
| `turns` | `ToolTurns`, `ToolTurns` | Three calls, interruptions, a lost channel, a second session: the flag agrees with the provider when nothing is in flight (`InProgressAgrees`), a queued create will be flushed (`PendingIsFlushed`). As long as the user waits: no create is refused (`NoRefusedCreate`) and every output is answered (`OutputIsAnswered`, liveness). |
| `pilot_verdict` | `PilotVerdict`, `ValidationPilot` | Two scenarios, sessions that restart and fail, both kinds of handoff reason, summaries that name a tool, tool messages that read like an error: a ready run was demonstrated as far as panels can tell, and truly when no summary named a tool (`ReadyMeansDemonstrated`); every error in the provider-events panel blocks, and nothing but an error or a text that reads like one (`BlockedMeansProviderError`); the report does not argue with the verdict (`ReportSupportsVerdict`). |
| `pilot_assistant` | `PilotAssistant`, `ValidationPilot` | Violated: `AssistantIsRequired`; a run in which the assistant said nothing passes the check. |
| `pilot_channel` | `PilotChannel`, `ValidationPilot` | Violated: `ChannelErrorIsSeen`; an error of the data channel is not among the provider errors. |
| `runs` | `ReportViewer`, `MCReportViewer` | Two threads, two restarts, and the report page: what is served is a whole and current summary (`ServedIsCurrent`), a restart closes runs (`ClosedForGood`), the files of a run finished by one request at a time agree (`FilesAgree`), and the repository implements `RunBoard` (`ImplementsBoard`, refinement). The report shown is one of its run and not one its user knew to be superseded (`ShownIsCurrent`), and the selected run is the one shown unless two loads crossed (`SelectedIsShown`). |
| `call_flow` | `CallFlow`, `CallFlow` | Every input: `MandatoryHandoff`, `HandoffContext`. |

Each module has one type invariant, `TypeOK` or, where it extends another one, a name
that ends so and includes the other's; where it is proved it may be in no run of its
own (`CallFlow`), and so is what the gate says of a refusal (`RefusedOnlyAtTheLimit`). A
property about a quiet or a patient environment is stated over a history
variable (`patient`, `interrupted`, `overlapped`, `crossed`) and not by leaving the other
steps out: the run contains them, and what they may break is seen in the model.

### Disagreements

Shown by a run, with the document quoted in `PROJECT.json`:

- A token outlives its session (`api_ended`); the design document wants it
  invalid after the end. Nothing in the program ends a session.
- Stop during Start leaves the microphone to be opened and credentials to be
  stored later (`page_stop`): `startSession` does not compare the connection id
  between the answer and `setupAudioAndPeerConnection`.
- The check on the assistant's answer is inverted (`pilot_assistant`).
- `data_channel_error` is a marker of a provider error in the harness's document and in
  `validation.py`, which look for it in the provider events; the page writes it to the
  session state only, so that a run whose channel failed passes (`pilot_channel`).

Reachable in the models, and listed as hazards without a run of their own:

- A stopped attempt may also overwrite the credentials of the next session
  (`CredentialsMatchSession` without `patient`).
- The rate limit is not a limit when requests overlap: a thread that writes back an
  old count undoes the increments made meanwhile. `CountIsABound` is what the
  code keeps, and is proved for any number of threads.
- After the data channel is lost, Start stays disabled until Stop.
- The DashScope branch of the diagnostics looks at neither the endpoints' gate nor
  the parsing of the model, and takes a blank key for one
  (`docs/specs/voiceagents-other-provider-integration.md:182-184` lists all three).
  `DiagnosticsAgree` says that these are the only gaps.
- The proxy has no way to report a provider that hangs up, and passes no tool calls to
  the router (the same document, lines 141 and 143): the code is not there.
- A connection of the proxy outlives the expiry of its token, and the session it was
  opened for. `UpstreamIsAuthorised` says what remains true.
- Two loads of the report page that cross may leave one run selected and the report of the other
  shown (`SelectedIsShown` without `crossed`).
- A tool's result may go out on the next session's channel (`mixed` in `ToolTurns`).
- A summary of several lines can name the tool that the scenario expects, and a
  low-confidence lookup shows a handoff that nobody made: a run can be ready although its
  tool was never answered, or no human took over. A failed tool's message can block a run.
- A handoff with the reason `none` is not seen by the checks; the
  knowledge-miss scenario cannot pass when the knowledge base has no answer.

### Bounds, and why they suffice

- Threads: two for the API and the repository, three for the gate. Every hazard
  of the API is a conflict of two handlers on one session, and a third would
  repeat one of the two; for the gate a third thread makes two lost updates at
  once possible.
- Sessions: one id that is created twice, in both runs of the API, which is what the
  double lookup needs, and what a handler needs to find another session than the one it
  was admitted to. With one id a write to the wrong session is not seen; that there is none
  is part of the theorems, which hold for any number of ids. `EventKinds` in `api_logs` is
  the one kind that is written to the transcript log, and
  `EventStates` one state that is neither a new session's nor a handoff's; which of two
  events' states a session has is not claimed.
- One connection of the proxy: connections share nothing but the store, which they only
  read. `MCDashScopeProxy` lets the HTTP handlers run alone to their own bounds, and next
  to a connection that has done something only as far as the connection can notice:
  creations and restarts. Events and tool calls change nothing the proxy reads.
- Environments: every provider, every kind of key and of model, and the malformed
  optional variables with an otherwise good environment, since they only warn.
- Report page: two loads, which can cross; together with the page the repository has
  two finishes and one restart (`ReadFinishes`, `ReadRestarts`), so that a report is
  superseded before, during and after a load; alone it has four and two.
- `MaxEvents` counts admitted requests: two let a handler run through another
  one, two handoffs of one session cross, and a handoff cross an event; `api_binding` has
  one, and two mintings.
- `MaxCrashes` 1: a line after a restart can be compared with a token before it.
  `MaxRestarts` 2 in `runs`: a run cut off, and one cut off after that; four
  finishes let one run be finished by two requests at once and again after them.
- `MaxTime` 1 with a lifetime of 1: a token that is valid at first and not later.
- Page: three attempts, so that a failing one overlaps one that succeeds, and a
  third starts on what both left; `MaxStops` 5 lets Stop follow each of them.
- Tool turns: three calls and three times speaking let one response be
  interrupted twice with results queued; two connections give a handler the
  chance to outlive its session.
- Pilot: three events between two Starts produce an expected set of tools, somebody who
  speaks and an error, a forged name or a quoted marker instead of one of them; `Headings`
  has the name that one scenario expects and a blocked one, and `Notes` a blocked text;
  two waiting attempts, one stopped and one current.
- Limit 2 with up to 5 admissions: enough for the count to stay behind and for
  a refusal after that.

Symmetry is used over threads (`gate_shared`, `api_binding`, `api_logs`, `runs`) and
owners, which nothing in a module distinguishes, and never with a liveness
property.

Deadlock is checked for `call_flow`. In the others it is not: a server nobody
asks, or a page nobody clicks, may stop, and within the bounds every behaviour
ends so. No handler waits for another in this program (there are no locks).

### Fairness

One run checks liveness. `ToolTurns!FairSpec` is weak fairness of delivery by the channel, of the page's
tasks, of the end of a response, and of the settling of each handler's request.
SCTP delivers in order while the channel lasts, the event loop runs its tasks, and a
`fetch` settles. The user's speech and clicks are not fair. A lost channel
discharges `OutputIsAnswered`, since the conversation is gone.

`OutputIsAnswered` is claimed for a user who waits. With interruptions a create
may cross a response that the user's voice began; it is refused, `pending` was
already cleared, and the output may wait for the next turn.

## 4. Proofs

| Theorem | Module | States, for every value of the constants |
|---|---|---|
| `GateTypes`, `GateCountIsABound`, `GateRefusesOnlyAtTheLimit` | `ProvisioningProofs` | The rate gate's types and both bounds |
| `EndpointImplementsGate` | `ProvisioningProofs` | The endpoint with its providers and diagnostics implements the gate (step refinement), so the three theorems of the gate hold of it |
| `ProvisioningTypes`, `DiagnosticsAgreeWithEndpoint`, `EverySessionIsPaidFor` | `ProvisioningProofs` | Types; both directions of the agreement of diagnostics and endpoint; sessions and requests in flight never exceed admissions |
| `ApiTypes`, `ApiLoggedWorkIsAuthorised` | `RealtimeApiProofs` | Types; authorisation of all that is logged, in one life of the process |
| `ApiTranscriptHasEvent`, `ApiMemoryFollowsLog`, `ApiAcknowledgedIsLogged`, `ApiOffModeKeepsNoText` | `RealtimeApiProofs` | The order of store, files and answer: nothing is in memory, in a transcript or in an answer before it is in the log, and no text with logging off |
| `ApiStateIsLogged` | `RealtimeApiProofs` | The state of a session is told by the log of this life, or is that of a new session, or of a handoff about to be logged or whose append failed |
| `ApiHandoffNotLost` | `RealtimeApiProofs` | What handoffs left in a session has its line, or a handler about to write it, or its append failed and it was not acknowledged |
| `ProxyTypes`, `ProxyUpstreamIsAuthorised`, `ProxyLoggedWorkIsAuthorised` | `DashScopeProxyProofs` | Types; what the proxy sends upstream; the authorisation of log lines with proxy connections next to the handlers |
| `ProxyImplementsApi` | `DashScopeProxyProofs` | `ProxySpec => Spec`: the proxy only reads what it shares with the handlers, so each theorem of the API holds next to it |
| `ProxyRelaysFitContract` | `DashScopeProxyProofs` | Whatever the provider sends, the contract accepts what either adapter makes of it |
| `PageTypes`, `PageNeverStuckStarting`, `PageNothingLeaks`, `PageFailedStartIsClean`, `PageCredentialsMatchSession`, `PageMuteSilencesEveryTrack` | `RealtimePageProofs` | Types and all invariants of the page, for any number of overlapping attempts |
| `TurnTypes`, `TurnsAgree`, `TurnsFlushPending`, `TurnsNeverCollide` | `ToolTurnsProofs` | Types and the three invariants of the flags, for any queues, calls and sessions |
| `TurnsForgetNoOutput` | `ToolTurnsProofs` | Without interruptions, an unanswered output has a create on its way or waiting (the safety part of `OutputIsAnswered`) |
| `PilotTypes`, `PilotReadyMeansDemonstrated`, `PilotBlockedMeansProviderError`, `PilotReportSupportsVerdict` | `ValidationPilotProofs` | Types; what each verdict and each section of a report means for what happened |
| `CallTypes`, `CallMandatoryHandoff`, `CallHandoffContext` | `CallFlowProofs` | Types and both invariants of the simulated call |
| `RunsTypes`, `RunsClosedForGood` | `ValidationRunsProofs` | Types; a restart closes the runs of before, as an action property |
| `RunsImplementBoard` | `ValidationRunsProofs` | The run repository implements `RunBoard` (step refinement) |
| `RunsServedIsCurrent`, `RunsFilesAgree` | `ValidationRunsProofs` | What is served is current; the files of a run agree if one request at a time finishes it |
| `ViewerKeepsRepository` | `ValidationRunsProofs` | `ViewerSpec => Spec`: the page only asks, so each theorem of the repository holds under it |
| `ViewerTypes`, `ViewerShownIsCurrent`, `ViewerSelectedIsShown` | `ValidationRunsProofs` | Types and both invariants of the report page |

Each proof module has an inductive invariant (`IInv`, or a name of its own such as
`PInv`, `ViewerInv`, `PilotInv` where a module extends another one), a lemma that the initial
states satisfy it, lemmas for the actions, and theorems by PTL.

- **Gate.** `CountIsABound` is not inductive: a thread writes a value it read
  earlier. `ReadIsABound` adds that what a thread has read is still at most what has
  been admitted, which is so because `admitted` only grows.
- **Endpoint.** Every step of `Provisioning` is one of `RateGate`'s or leaves the gate's
  variables alone, which is the refinement. `PInv` relates the environment to what has
  been said and done in it: the settings never change, so a stage past the provider, a
  refusal or an answer of the diagnostics each tell something of them. `PaidInv` adds
  that a real provider's request past the gate was counted: an admission moves one
  request from the gate to those in flight, a session moves one on. It needs the
  cardinality of a finite set with one element more or less, hence the assumption
  that there are finitely many threads.
- **API.** The claim is about log lines; the reason for it lies in the store.
  `Types` adds to `TypeOK` that a request fits the handler it is in, and that the
  session of a handler past its checks is in the store (it is never removed but by a
  restart, which ends the handler). `Authorised` says three things: a session
  in the store is what its token was issued for, in this life; a handler
  past its binding check holds a request that its token was issued for; every
  line is. The step that matters is between the two lookups of the check. The
  metadata was compared with one session, the token is compared with another
  if the id has been created again meanwhile. But the new session's token is
  newer than every token delivered so far, so the request, which is older,
  cannot present it: if the token matches, the session was not replaced. The
  proof uses the assumptions on the bounds' types and `NoSession \notin Sessions`.
  It does not use the bounds' values.
- **Proxy.** `PInv` is the API's `IInv` and two facts more: what an open connection
  holds (`SocketsHold`) and what was sent (`SentIsGood`). The API's many steps
  are three cases: seen from a connection, each of them is calm (no binding in the
  store changes), a creation or a restart (`ApiEffect`). A creation puts in a
  session whose token has not been delivered; so between the proxy's two lookups the
  argument of the API applies once more, and the provider that was read is that of
  the session the token was minted for. A restart closes the connections. Nothing
  is assumed of what the HTTP handlers do meanwhile; the bound that the run sets
  on them (`MCDashScopeProxy`) is not in the theorem.
- **Call.** `UnderWay` describes calls before they are finished: which tools were
  asked at each step and why. `TriageIsMandatory` connects the order of the
  triggers with the condition of `MandatoryHandoff`.
- **Runs.** `WritersKnown`: a request that writes was admitted in this life, so
  its run is in `_runs`; a step that changes a file is thus of a known run.
  `FinishesKnown` adds that a finish under way has one thread and the run this thread
  works on. With it every step is one of `RunBoard`: emptying the summary withdraws the
  verdict, writing it publishes one (or withdraws it, if two writers garbled the file),
  emptying the report is a stutter, writing it acknowledges, a restart crashes.
  `CurrentInv` adds that what was acknowledged when a finish began stays so, that no
  finish under way is acknowledged, and that once a finish has emptied the summary
  (`Replaced`) no older acknowledged one can come back. `AgreeInv` says for each run
  not finished twice at the same time where its one writer is and what it has left on
  disk (`Placed`), and what is there when it has ended (`Settled`).

- **API, the log.** `Logged` says of each handler what is on disk when it is at a step:
  past its log line there is a line with its id, binding, mode and text
  (`HandlersLogged`); a token under way to its client is in no line and is nobody
  else's (`Undelivered`); ids are unique, and a request that has yet to write its line
  finds none with its id (`IdsUnique`). The effects on memory and transcript log come
  after, so each of them finds its line. `OffModeKeepsNoText` follows: a text in the transcript log or in a
  session leads by its id to one line, which has text and was not written with logging off.
- **API, the state.** A handler of an event past its log line finds there the state it is
  going to set (`StatesTold`), and the log only grows, in this life of the process
  (`StillTold`); so what `update_state` writes is told already, by whatever thread and to
  whatever session is in the store by then. The other writer is `mark_handoff`, which runs
  ahead of its line: until then its handler is the witness (`TellingGoesOn`), or its append
  has failed.
- **API, handoffs.** A handler in `mark_handoff` is known to report the handoff
  (`Required`): the handler that sets a field of the session is the one that still has to
  write the line (`AboutToAudit`). If its append fails, its id becomes an `Orphan`: no
  handler has it, and its request was not answered with success and never will be. So
  `HandoffKept`, which is `HandoffNotLost` with that reason in it, is inductive. A restart
  empties the store too. The session may be replaced and two handoffs may leave a field
  each: the claim is for either field.
- **Proxy, the rest.** `ProxyImplementsApi` needs no invariant: each step of a
  connection leaves the API's variables alone. `DashScopeFits` and `OpenAIFits` go through
  the adapters event type by event type; `RelaysFitContract` follows as `relayed` is
  always an adapter's output.
- **Page.** The properties speak of a patient user, the invariant of why the user's
  patience helps: at most one attempt waits, Start is disabled for as long, and what
  `state` refers to is what that attempt has opened (`OneAttempt`, in `Orderly`).
  `NeverStuckStarting` is inductive by itself, without patience: whatever attempt stops
  waiting clears `isStarting`, for itself and for all others.
- **Turns.** The contents of both queues are in the invariant. `Agreed` says what the
  page will have learnt when it has read what is under way: the last sign on the
  channel tells whether the provider has a response in progress, and without a sign the
  flag tells it already, unless a create is on its way up. With both queues empty that is
  `InProgressAgrees`. `Asked` tells results of an earlier session from those of
  this one, which `PendingIsFlushed` needs. `Alternate` says that while nobody
  interrupts there is at most one create under way, and then no response in progress
  and no sign of one on the channel, so that no create meets a response. `Remembered`
  follows each output: on the channel it has a create behind it, or the page's
  `pending` stands for one; with `Agreed` the response that `pending` waits for
  is in progress or the sign of it is on the channel (`OutputNotForgotten`).
- **Viewer.** On top of `CurrentInv`: the body of an answer under way is current to the
  user of its load (`BodiesCurrent`), hence so is what is shown; and while no two
  loads have crossed, only the last one may be under way, and what it has done is what the
  page shows (`LastDecides`).
- **Pilot.** `PanelsTell` says that what stands in a panel happened since the panels were
  cleared, or was named or quoted by an answer since then, and that no provider error is
  missing; `SummaryIsSound`, that the saved summary keeps
  the three properties. `ScanPasses` is the lemma about
  the redaction: nothing blocked is left in a text that was scrubbed, so the scan of a
  summary blocks no run.

The assumptions of the theorems are those that the modules declare with their
constants (types of the bounds, model values that are no data, finitely many
threads in `Provisioning`); none uses the value of a bound, and no theorem has
hypotheses beyond the specification.

Every invariant and every safety property of the passing runs is proved. Only
model-checked is the liveness property `OutputIsAnswered`, since the
prover has no ENABLED and no fairness; what of it is safety is proved
(`TurnsForgetNoOutput`). No module declares a recursive operator, and no
theorem needs an induction over data.

## 5. Not modelled

- `redaction.py`: regular expressions; the modules use only whether text is blocked. The
  log repository redacts identifiers too, which is left out.
- `providers.py`: the HTTP request and the fields of the credential; how it may fail is
  in `Provisioning`. `dashscope.py`: `normalize_dashscope_tool_call` and
  `build_dashscope_tool_result_event`, which nothing calls.
- An expiry given as text without time zone.
- Static pages and read-only routes other than the diagnostics and the reports.
- Mock adapters: tables of demonstration data; an adapter may answer anything.
- `call_evaluation.py`, `scripts/`: validation of a file and command-line programs.
- A write of the run repository that fails while the process goes on, and a torn line of a log.
- Not claimed, although modelled: with two threads, which of two `update_state` calls is
  last, that a session's handoff fields are of one handoff, that a host mints no more than
  the limit, and that the files of a run finished by two requests at once agree; with a
  Stop during Start, or two loads of the report page that cross, what the page shows or
  holds. All of these fail in the models, and but for the findings no document promises
  them; the properties say what is left.

## 6. Plan

Done, in this order: `RealtimeApi`, `RateGate`, `RealtimePage`, `ToolTurns`,
`ValidationChecks` and `ValidationPilot`, `ValidationRuns`, `CallFlow`, and their first
proofs; then `Provisioning` around the gate with its proofs and refinement,
`RunBoard` and the refinement of the run repository with its proof, the report in `ValidationChecks` and
`ValidationPilot`, `ReportViewer`, `EventContract`, and `DashScopeProxy` over the API with
its proofs.

Left of the system: a composition of `RealtimePage` and `ToolTurns`, since Stop is an
event of both.

Next, more proofs: that an admitted handler always has a step whose guard holds, stated
over the guards since ENABLED is out of reach, which would leave of the liveness
property only the fairness; and the page's theorems for that composition.
