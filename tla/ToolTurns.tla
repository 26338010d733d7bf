---- MODULE ToolTurns ----
(***************************************************************************)
(* How the browser page answers the function calls of an OpenAI realtime   *)
(* conversation: handleProviderEvent, relayToolCall, relayNormalizedEvent  *)
(* and the queue of response.create in                                     *)
(* src/voiceagents/api/static/realtime-test.html, with the messages of     *)
(* realtime-openai-adapter.js.                                             *)
(*                                                                         *)
(* The page and the provider talk over a data channel, two FIFO queues.    *)
(* The page's handlers await three requests for each call:                 *)
(*   requested -> calling -> result -> over                                *)
(* and several handlers, of several calls and even of an earlier           *)
(* connection, wait at the same time.  The provider is external: it has at *)
(* most one response in progress and refuses a response.create that comes  *)
(* during one with an error event, which is why the page keeps the two     *)
(* flags in_progress and pending.                                          *)
(*                                                                         *)
(* Transcript and session events are relayed to the backend without        *)
(* touching this state and are left out.                                   *)
(***************************************************************************)
EXTENDS Integers, Sequences

CONSTANTS
  Calls,           \* function calls the provider may make
  MaxTurns,        \* bound: times the user speaks
  MaxConnections   \* bound: sessions started

ASSUME TurnsAssumption ==
  MaxTurns \in Nat /\ MaxConnections \in Nat

VARIABLES
  connection,   \* number of the session started last
  channel,      \* the session's credentials, state.dataChannel and its readyState
  in_progress,  \* state.openAIResponseInProgress
  pending,      \* state.pendingOpenAIResponseCreate
  step,         \* where the handler of each call is
  asked,        \* the connection each call was made on, 0 before
  down, up,     \* data channel: provider to page, page to provider
  active,       \* the provider has a response in progress
  unanswered,   \* calls whose output no response has taken up yet
  turns,        \* times the user has spoken
  interrupted,  \* history: the user has spoken into something under way
  refused,      \* history: the provider has refused a response.create
  mixed         \* history: an output was sent on a later connection, or queued for it

page == <<channel, in_progress, pending, step>>
provider == <<active, unanswered, asked>>
speech == <<turns, interrupted>>
vars == <<page, provider, connection, down, up, speech, refused, mixed>>

Events == [type : {"created", "done", "error"}] \cup [type : {"call"}, call : Calls]
Messages == [type : {"create"}] \cup [type : {"output"}, call : Calls]
Waiting == {"requested", "calling", "result"}

Init ==
  /\ connection = 0
  /\ channel = "none" /\ in_progress = FALSE /\ pending = FALSE
  /\ step = [c \in Calls |-> "none"] /\ asked = [c \in Calls |-> 0]
  /\ down = <<>> /\ up = <<>>
  /\ active = FALSE /\ unanswered = {} /\ turns = 0
  /\ interrupted = FALSE /\ refused = FALSE /\ mixed = FALSE

-----------------------------------------------------------------------------
(* Session and channel *)

Reset_KeepsFlags ==  \* mutant: the two response flags survive
  /\ down' = <<>> /\ up' = <<>> /\ active' = FALSE /\ unanswered' = {}
  /\ UNCHANGED <<in_progress, pending>>

\* resetRealtimeResources: the channel and the conversation are gone.  Handlers
\* that wait for an answer of the backend are not cancelled.
Reset ==
  /\ in_progress' = FALSE /\ pending' = FALSE
  /\ down' = <<>> /\ up' = <<>> /\ active' = FALSE /\ unanswered' = {}

\* startSession, up to the request for credentials.
Start ==
  /\ channel = "none" /\ connection < MaxConnections
  /\ Reset
  /\ channel' = "starting"
  /\ connection' = connection + 1
  /\ mixed' = FALSE
  /\ UNCHANGED <<step, asked, speech, refused>>

SecretArrives ==
  /\ channel = "starting"
  /\ channel' = "connecting"
  /\ UNCHANGED <<in_progress, pending, step, provider, connection, down, up, speech, refused, mixed>>

ChannelOpens ==
  /\ channel = "connecting"
  /\ channel' = "open"
  /\ UNCHANGED <<in_progress, pending, step, provider, connection, down, up, speech,
                 refused, mixed>>

ChannelCloses_ErrorState ==  \* mutant: a readyState of its own for a lost channel
  /\ channel = "open"
  /\ channel' = "data_channel_error"
  /\ down' = <<>> /\ up' = <<>> /\ active' = FALSE /\ unanswered' = {}
  /\ UNCHANGED <<in_progress, pending, step, asked, connection, speech, refused, mixed>>

\* The network loses the channel; the page only shows it.
ChannelCloses ==
  /\ channel = "open"
  /\ channel' = "closed"
  /\ down' = <<>> /\ up' = <<>> /\ active' = FALSE /\ unanswered' = {}
  /\ UNCHANGED <<in_progress, pending, step, asked, connection, speech, refused, mixed>>

Stop ==
  /\ channel # "none"
  /\ Reset
  /\ channel' = "none"
  /\ UNCHANGED <<step, asked, connection, speech, refused, mixed>>

-----------------------------------------------------------------------------
(* The provider *)

Quiet ==
  /\ ~active /\ down = <<>> /\ up = <<>>
  /\ \A c \in Calls : step[c] \notin Waiting

\* Turn detection starts a response when the user has spoken, and cancels the
\* one in progress.
UserSpeaks ==
  /\ channel = "open" /\ turns < MaxTurns
  /\ turns' = turns + 1
  /\ interrupted' = (interrupted \/ ~Quiet)
  /\ down' = down \o (IF active THEN <<[type |-> "done"]>> ELSE <<>>)
                  \o <<[type |-> "created"]>>
  /\ active' = TRUE /\ unanswered' = {}
  /\ UNCHANGED <<page, asked, connection, up, refused, mixed>>

ProviderCalls(c) ==
  /\ channel = "open" /\ active /\ asked[c] = 0
  /\ asked' = [asked EXCEPT ![c] = connection]
  /\ down' = Append(down, [type |-> "call", call |-> c])
  /\ UNCHANGED <<page, active, unanswered, connection, up, speech, refused, mixed>>

ResponseEnds ==
  /\ active
  /\ active' = FALSE
  /\ down' = Append(down, [type |-> "done"])
  /\ UNCHANGED <<page, unanswered, asked, connection, up, speech, refused, mixed>>

\* An output joins the conversation, unless it answers no call of this one.
OutputArrives ==
  /\ up # <<>> /\ Head(up).type = "output"
  /\ up' = Tail(up)
  /\ IF asked[Head(up).call] = connection
     THEN /\ unanswered' = unanswered \cup {Head(up).call}
          /\ UNCHANGED down
     ELSE /\ down' = Append(down, [type |-> "error"])
          /\ UNCHANGED unanswered
  /\ UNCHANGED <<page, active, asked, connection, speech, refused, mixed>>

\* response.create starts a response over what the conversation holds.
CreateArrives ==
  /\ up # <<>> /\ Head(up).type = "create"
  /\ up' = Tail(up)
  /\ IF active
     THEN /\ down' = Append(down, [type |-> "error"])
          /\ refused' = TRUE
          /\ UNCHANGED <<active, unanswered>>
     ELSE /\ down' = Append(down, [type |-> "created"])
          /\ active' = TRUE /\ unanswered' = {}
          /\ UNCHANGED refused
  /\ UNCHANGED <<page, asked, connection, speech, mixed>>

-----------------------------------------------------------------------------
(* The page *)

Flush_IgnoresProgress(busy, queued, messages) ==  \* mutant: openAIResponseInProgress is not looked at
  IF queued /\ channel = "open"
  THEN /\ up' = up \o messages \o <<[type |-> "create"]>>
       /\ pending' = FALSE /\ in_progress' = TRUE
  ELSE /\ up' = up \o messages
       /\ pending' = queued /\ in_progress' = busy

\* flushOpenAIResponseCreate, after the messages the same task has sent, when the
\* flags are `busy` and `queued`.
Flush(busy, queued, messages) ==
  IF queued /\ ~busy /\ channel = "open"
  THEN /\ up' = up \o messages \o <<[type |-> "create"]>>
       /\ pending' = FALSE /\ in_progress' = TRUE
  ELSE /\ up' = up \o messages
       /\ pending' = queued /\ in_progress' = busy

\* state.sessionId and state.toolCallToken are set.
HasSession == channel \in {"connecting", "open", "closed"}

Event(type) ==
  /\ channel = "open" /\ down # <<>> /\ Head(down).type = type
  /\ down' = Tail(down)

ResponseCreated ==
  /\ Event("created")
  /\ in_progress' = TRUE
  /\ UNCHANGED <<channel, pending, step, provider, connection, up, speech, refused, mixed>>

ResponseDone_NoFlush ==  \* mutant: the queue is not flushed
  /\ Event("done")
  /\ in_progress' = FALSE
  /\ UNCHANGED <<channel, pending, step, provider, connection, up, speech, refused, mixed>>

ResponseDone ==
  /\ Event("done")
  /\ Flush(FALSE, pending, <<>>)
  /\ UNCHANGED <<channel, step, provider, connection, speech, refused, mixed>>

\* An error event is shown and relayed; the flags stay.
ProviderError ==
  /\ Event("error")
  /\ UNCHANGED <<page, provider, connection, up, speech, refused, mixed>>

\* response.function_call_arguments.done: the handler relays it and waits.  A
\* tool that is not allowed is dropped.
CallArrives ==
  /\ Event("call")
  /\ in_progress' = TRUE
  /\ \E next \in {"requested", "over"} : step' = [step EXCEPT ![Head(down).call] = next]
  /\ UNCHANGED <<channel, pending, provider, connection, up, speech, refused, mixed>>

Handler(c, from, to) ==
  /\ step[c] = from
  /\ step' = [step EXCEPT ![c] = to]
  /\ UNCHANGED <<channel, provider, connection, down, speech, refused>>

\* POST /event was answered, in whatever way: the tool call goes out, on the
\* session the page has now.
RequestedRelayed(c) ==
  /\ HasSession
  /\ Handler(c, "requested", "calling")
  /\ UNCHANGED <<in_progress, pending, up, mixed>>

\* The handler gives up: the request fails, the arguments are no JSON, there is
\* no session, or the tool fails, whose result is not sent to the provider.
HandlerGivesUp(c) ==
  /\ \E from \in Waiting : Handler(c, from, "over")
  /\ UNCHANGED <<in_progress, pending, up, mixed>>

\* The tool has succeeded; its result is relayed.
ToolAnswered(c) ==
  /\ Handler(c, "calling", "result")
  /\ UNCHANGED <<in_progress, pending, up, mixed>>

SendResult_NoQueue(c) ==  \* mutant: queueOpenAIResponseCreate is not called
  /\ Handler(c, "result", "over")
  /\ up' = up \o (IF channel = "open" THEN <<[type |-> "output", call |-> c]>> ELSE <<>>)
  /\ mixed' = (mixed \/ asked[c] # connection)
  /\ UNCHANGED <<in_progress, pending>>

\* sendOpenAIToolResult and queueOpenAIResponseCreate, on the channel the page
\* has now.
SendResult(c) ==
  /\ Handler(c, "result", "over")
  /\ Flush(in_progress, TRUE,
           IF channel = "open" THEN <<[type |-> "output", call |-> c]>> ELSE <<>>)
  /\ mixed' = (mixed \/ asked[c] # connection)

Provide == UserSpeaks \/ ResponseEnds \/ (\E c \in Calls : ProviderCalls(c))
Deliver == OutputArrives \/ CreateArrives
Handle == ResponseCreated \/ ResponseDone \/ ProviderError \/ CallArrives
Continue(c) == RequestedRelayed(c) \/ HandlerGivesUp(c) \/ ToolAnswered(c) \/ SendResult(c)

Next ==
  \/ Start \/ SecretArrives \/ ChannelOpens \/ ChannelCloses \/ Stop
  \/ Provide \/ Deliver \/ Handle
  \/ \E c \in Calls : Continue(c)

Spec == Init /\ [][Next]_vars

\* The channel delivers, the page's tasks run, a response ends and a request of
\* the page is answered or fails.
FairSpec ==
  /\ Spec
  /\ WF_vars(Deliver) /\ WF_vars(Handle) /\ WF_vars(ResponseEnds)
  /\ \A c \in Calls : WF_vars(Continue(c))

-----------------------------------------------------------------------------
(* Properties *)

\* The page's flags, the handlers, the channel and the provider have their types.
TypeOK ==
  /\ connection \in 0..MaxConnections
  /\ channel \in {"none", "starting", "connecting", "open", "closed"}
  /\ in_progress \in BOOLEAN /\ pending \in BOOLEAN
  /\ step \in [Calls -> Waiting \cup {"none", "over"}]
  /\ asked \in [Calls -> 0..MaxConnections]
  /\ down \in Seq(Events) /\ up \in Seq(Messages)
  /\ active \in BOOLEAN /\ unanswered \subseteq Calls /\ turns \in 0..MaxTurns
  /\ interrupted \in BOOLEAN /\ refused \in BOOLEAN /\ mixed \in BOOLEAN

\* When nothing is in flight the page's flag and the provider agree on whether a
\* response is in progress, also after interruptions and refused creates.  A flag
\* stuck at true would silence the assistant's tool answers for good.
InProgressAgrees ==
  (channel = "open" /\ down = <<>> /\ up = <<>>) => in_progress = active

\* A queued response.create waits only for a response in progress: what queued it
\* will flush it.
PendingIsFlushed ==
  (channel = "open" /\ pending /\ ~mixed) => in_progress

\* While the user does not speak into what is under way, the page never asks for
\* a response during another: the flags keep two tool results from asking twice.
NoRefusedCreate == refused => interrupted

\* As long as the user waits and the channel lasts, every tool output the
\* conversation has received is taken up by a response.
OutputIsAnswered == unanswered # {} ~> (unanswered = {} \/ interrupted)
====
