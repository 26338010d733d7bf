---- MODULE DashScopeProxyProofs ----
(***************************************************************************)
(* Proofs about DashScopeProxy, next to any number of HTTP threads and     *)
(* connections: what goes upstream is authorised, and the relay finds its  *)
(* session.  They rest on the invariant IInv of RealtimeApiProofs.         *)
(***************************************************************************)
EXTENDS DashScopeProxy, RealtimeApiProofs

OpenSockets ==
  [step : {"token", "open", "upstream"}, sid : SessionIds, tok : Nat, provider : Providers]
SentMessages == [sid : SessionIds, tok : Nat, epoch : Nat, message : Envelopes]

\* A token minted for a session with DashScope, in life `e` of the server.
ProxyToken(tok, sid, e) ==
  /\ tok \in Tokens
  /\ issued[tok].sid = sid /\ issued[tok].provider = ProxyProvider /\ issued[tok].epoch = e

\* What a connection holds.  Its session may be replaced but is never removed; as
\* long as its token is still that of the session, so is the provider it has read,
\* which is why the second lookup may be a later one.
SocketHolds(k) ==
  socket[k] # Closed =>
    /\ socket[k] \in OpenSockets
    /\ socket[k].tok \in delivered \cup {0}
    /\ store[socket[k].sid] # NoSession
    /\ store[socket[k].sid].token = socket[k].tok =>
         store[socket[k].sid].provider = socket[k].provider
    /\ socket[k].step \in {"open", "upstream"} =>
         ProxyToken(socket[k].tok, socket[k].sid, epoch)

SocketsHold == socket \in [Sockets -> {Closed} \cup OpenSockets] /\ \A k \in Sockets : SocketHolds(k)

SentIsGood ==
  sent # NoMessage =>
    /\ sent \in SentMessages
    /\ ~sent.message.blocked /\ sent.message.keys /\ sent.message.type
    /\ ProxyToken(sent.tok, sent.sid, sent.epoch)

PInv == IInv /\ SocketsHold /\ SentIsGood

-----------------------------------------------------------------------------
(* What a step of the HTTP API does to a connection *)

\* It mints nothing and replaces no session.
Calm == SameBindings /\ UNCHANGED <<epoch, issued>> /\ delivered \subseteq delivered'

\* All but create_session and a restart are calm.
LEMMA ApiEffect ==
  ASSUME IInv, [Next]_vars
  PROVE  Calm \/ Restart \/ \E w \in Workers : CreateSession(w)
<1> USE DEF IInv
<1>1. ASSUME NEW w \in Workers, LogCreated(w) PROVE Calm
  BY <1>1 DEF LogCreated, Calm, SameBindings
<1>2. ASSUME NEW w \in Workers, BindEvent(w) \/ GetSessionProvider(w) \/ BindToolCall(w)
      PROVE  Calm
  BY <1>2 DEF BindEvent, GetSessionProvider, BindToolCall, Bind, Calm, SameBindings, history
<1>3. ASSUME NEW w \in Workers,
             AdmitEvent(w) \/ AdmitToolCall(w) \/ Refuse(w) \/ RejectArguments(w) \/ AppendFails(w)
      PROVE  Calm
  BY <1>3 DEF AdmitEvent, AdmitToolCall, Refuse, RejectArguments, AppendFails, Calm,
     SameBindings, history
<1>4. ASSUME NEW w \in Workers,
             \/ LogEvent(w) \/ LogToolCall(w) \/ RunAdapter(w) \/ HandOff(w)
             \/ LogTranscript(w)
      PROVE  Calm
  BY <1>4 DEF LogEvent, LogToolCall, RunAdapter, HandOff, LogTranscript, Calm,
     SameBindings, history
<1>5. ASSUME NEW w \in Workers,
             \/ AppendTranscript(w) \/ MarkState(w) \/ MarkReason(w) \/ MarkId(w)
             \/ UpdateState(w) \/ AppendToolCall(w)
      PROVE  Calm
  <2>1. pc[w] \in Bound /\ UNCHANGED <<epoch, issued, delivered>>
    BY <1>5 DEF AppendTranscript, MarkState, MarkReason, MarkId, UpdateState, AppendToolCall,
       Bound, Admitted, EventSteps, ToolSteps, history
  <2> QED BY <1>5, <2>1, FieldUpdates DEF Calm
<1>6. CASE Tick \/ UNCHANGED vars
  BY <1>6 DEF Tick, vars, memory, history, Calm, SameBindings
<1> QED BY <1>1, <1>2, <1>3, <1>4, <1>5, <1>6 DEF Next, Take, Proceed

\* A minted token is minted for good.
Extends == \A t \in Tokens : t \in Tokens' /\ issued'[t] = issued[t]

\* Sessions stay, and one that is replaced has a token that nobody holds yet.
Replaces ==
  \A s \in SessionIds : store[s] # NoSession =>
    /\ store'[s] # NoSession
    /\ store'[s].token \in delivered \cup {0} =>
         store'[s].token = store[s].token /\ store'[s].provider = store[s].provider

\* create_session gives the session a token that has reached no client.
LEMMA CreateEffect ==
  ASSUME IInv, NEW w \in Workers, CreateSession(w)
  PROVE  Extends /\ Replaces /\ UNCHANGED <<epoch, delivered>>
<1> PICK r \in CreateRequests, ttl \in Lifetimes \cup {DefaultTTL} :
      /\ store' = [store EXCEPT ![r.sid] = CreatedSession(r, Len(issued) + 1, now + ttl)]
      /\ issued' = Append(issued, [sid |-> r.sid, owner |-> r.owner,
                                   provider |-> r.provider, epoch |-> epoch])
  BY Zenon DEF CreateSession
<1> DEFINE new == Len(issued) + 1
           minted == [sid |-> r.sid, owner |-> r.owner, provider |-> r.provider, epoch |-> epoch]
<1>1. UNCHANGED <<epoch, delivered>>
  BY DEF CreateSession
<1>2. Len(issued) \in Nat /\ new \notin Tokens /\ new # 0 /\ Extends
  <2>1. issued \in Seq(Mintings) /\ minted \in Mintings /\ issued' = Append(issued, minted)
    BY DEF IInv, Types, HistoryTypes, CounterTypes, Mintings, CreateRequests
  <2> HIDE DEF minted
  <2> QED BY <2>1 DEF Tokens, Extends
<1>3. delivered \subseteq Tokens /\ now \in Nat
  BY DEF IInv, Types, HistoryTypes, CounterTypes
<1>4. r.sid \in SessionIds /\ CreatedSession(r, new, now + ttl) \in Sessions
  BY <1>2, <1>3, CreatedIsSession, BoundsAssumption DEF CreateRequests
<1>5. /\ store'[r.sid] # NoSession /\ store'[r.sid].token = new
      /\ \A s \in SessionIds : s # r.sid => store'[s] = store[s]
  BY <1>4, NoSessionAssumption DEF CreatedSession, IInv, Types, StoreType
<1>6. Replaces
  BY <1>2, <1>3, <1>5 DEF Replaces
<1> QED BY <1>1, <1>2, <1>6

\* So a step of the API within one life of the server keeps what connections hold.
LEMMA StepEffect ==
  ASSUME IInv, [Next]_vars, ~Restart
  PROVE  Extends /\ Replaces /\ delivered \subseteq delivered' /\ epoch' = epoch
<1>1. CASE Calm
  BY <1>1 DEF Calm, SameBindings, Extends, Replaces, Tokens
<1>2. CASE \E w \in Workers : CreateSession(w)
  BY <1>2, CreateEffect
<1> QED BY <1>1, <1>2, ApiEffect

\* What has been sent stays authorised.
LEMMA SentStays ==
  ASSUME Extends, SentIsGood, UNCHANGED sent
  PROVE  SentIsGood'
BY DEF Extends, SentIsGood, ProxyToken, SentMessages

\* And a connection that does not move keeps what it holds.
LEMMA SocketStays ==
  ASSUME Extends, Replaces, delivered \subseteq delivered', epoch' = epoch,
         NEW k \in Sockets, SocketHolds(k), socket'[k] = socket[k]
  PROVE  SocketHolds(k)'
<1> SUFFICES ASSUME socket[k] # Closed
             PROVE  /\ socket[k] \in OpenSockets
                    /\ socket[k].tok \in delivered' \cup {0}
                    /\ store'[socket[k].sid] # NoSession
                    /\ store'[socket[k].sid].token = socket[k].tok =>
                         store'[socket[k].sid].provider = socket[k].provider
                    /\ socket[k].step \in {"open", "upstream"} =>
                         ProxyToken(socket[k].tok, socket[k].sid, epoch)'
  BY DEF SocketHolds, OpenSockets, Closed, ProxyToken
<1>1. socket[k] \in OpenSockets /\ socket[k].sid \in SessionIds /\ SocketHolds(k)
  BY DEF SocketHolds, OpenSockets
<1>2. socket[k].step \in {"open", "upstream"} =>
        ProxyToken(socket[k].tok, socket[k].sid, epoch)'
  BY <1>1 DEF SocketHolds, ProxyToken, Extends
<1> QED BY <1>1, <1>2 DEF SocketHolds, Replaces

-----------------------------------------------------------------------------
(* The steps of the proxy *)

\* The store, the tokens and the counters rest while the proxy moves.
Rests == UNCHANGED <<store, issued, delivered, epoch>>

\* Only connection k moves, to `s`.
LEMMA OneMoves ==
  ASSUME SocketsHold, NEW k \in Sockets, NEW s \in {Closed} \cup OpenSockets, Rests,
         socket' = [socket EXCEPT ![k] = s], SocketHolds(k)'
  PROVE  SocketsHold'
<1>1. socket' \in [Sockets -> {Closed} \cup OpenSockets]
  BY DEF SocketsHold
<1>2. ASSUME NEW j \in Sockets, j # k PROVE SocketHolds(j)'
  <2>1. socket'[j] = socket[j] /\ SocketHolds(j)
    BY <1>2 DEF SocketsHold
  <2>2. Extends /\ Replaces
    BY DEF Rests, Extends, Replaces, Tokens
  <2> QED BY <2>1, <2>2, SocketStays DEF Rests
<1> QED BY <1>1, <1>2 DEF SocketsHold, OpenSockets

\* A connection that is closed holds nothing.
LEMMA OneCloses ==
  ASSUME SocketsHold, NEW k \in Sockets, Rests, socket' = [socket EXCEPT ![k] = Closed]
  PROVE  SocketsHold'
<1>1. SocketHolds(k)'
  BY DEF SocketsHold, SocketHolds
<1> QED BY <1>1, OneMoves

\* An accepted connection goes on with the same session, token and provider.
LEMMA OneGoesOn ==
  ASSUME SocketsHold, NEW k \in Sockets, Rests,
         socket[k] # Closed, NEW step \in {"open", "upstream"},
         ProxyToken(socket[k].tok, socket[k].sid, epoch),
         socket' = [socket EXCEPT ![k] = Opened(socket[k], step)]
  PROVE  SocketsHold'
<1>1. SocketHolds(k) /\ socket[k] \in OpenSockets
  BY DEF SocketsHold, SocketHolds
<1>2. Opened(socket[k], step) \in OpenSockets
  BY <1>1 DEF Opened, OpenSockets
<1>3. socket'[k] = Opened(socket[k], step)
  BY DEF SocketsHold
<1>4. ProxyToken(socket[k].tok, socket[k].sid, epoch)'
  BY <1>1, <1>3 DEF Rests, ProxyToken, Tokens, Opened
<1>5. SocketHolds(k)'
  BY <1>1, <1>2, <1>3 DEF Rests, SocketHolds, Opened, ProxyToken, Tokens
<1> QED BY <1>2, <1>5, OneMoves

\* The first lookup reads the provider of the session of the moment.
LEMMA HoldsConnect ==
  ASSUME IInv, SocketsHold, NEW k \in Sockets, Connect(k)
  PROVE  SocketsHold'
<1> PICK sid \in SessionIds, tok \in Presentable :
      /\ store[sid] # NoSession
      /\ socket' = [socket EXCEPT ![k] =
           [step |-> "token", sid |-> sid, tok |-> tok, provider |-> store[sid].provider]]
  BY DEF Connect
<1> DEFINE s == [step |-> "token", sid |-> sid, tok |-> tok, provider |-> store[sid].provider]
<1>1. Rests
  BY DEF Connect, Rests, vars, memory, history
<1>2. tok \in Nat /\ tok \in delivered \cup {0} /\ store[sid].provider \in Providers
  BY DEF Presentable, IInv, Types, HistoryTypes, Tokens, StoreType, Sessions
<1>3. s \in OpenSockets
  BY <1>2 DEF OpenSockets
<1>4. socket'[k] = s
  BY DEF SocketsHold
<1>5. SocketHolds(k)'
  BY <1>1, <1>2, <1>3, <1>4 DEF SocketHolds, Rests
<1> QED BY <1>1, <1>3, <1>5, OneMoves

\* The second lookup compares the token: it was minted for DashScope.
LEMMA HoldsCheckToken ==
  ASSUME IInv, SocketsHold, NEW k \in Sockets, CheckToken(k)
  PROVE  SocketsHold'
<1>1. Rests /\ socket[k].step = "token"
  BY DEF CheckToken, Rests, vars, memory, history
<1>2. socket[k] # Closed /\ SocketHolds(k)
  BY <1>1 DEF Closed, SocketsHold
<1>3. CASE socket' = [socket EXCEPT ![k] = Closed]
  BY <1>1, <1>3, OneCloses
<1>4. CASE /\ TokenIsValid(store[socket[k].sid], socket[k].tok)
           /\ socket[k].provider = ProxyProvider
           /\ socket' = [socket EXCEPT ![k] = Opened(socket[k], "open")]
  <2>1. /\ socket[k].sid \in SessionIds /\ store[socket[k].sid] # NoSession
        /\ store[socket[k].sid].token = socket[k].tok
        /\ store[socket[k].sid].provider = ProxyProvider
    BY <1>2, <1>4 DEF SocketHolds, OpenSockets, TokenIsValid
  <2>2. ProxyToken(socket[k].tok, socket[k].sid, epoch)
    <3>1. /\ store[socket[k].sid].token \in Tokens
          /\ issued[store[socket[k].sid].token] =
               Minted(socket[k].sid, store[socket[k].sid].owner,
                      store[socket[k].sid].provider, epoch)
      BY <2>1 DEF IInv, Authorised, StoreIssued
    <3> QED BY <2>1, <3>1 DEF Minted, ProxyToken
  <2> QED BY <1>1, <1>2, <1>4, <2>2, OneGoesOn
<1> QED BY <1>3, <1>4 DEF CheckToken

\* An accepted connection has its token.
LEMMA AcceptedHolds ==
  ASSUME SocketsHold, NEW k \in Sockets, socket[k].step \in {"open", "upstream"}
  PROVE  /\ socket[k] # Closed /\ SocketHolds(k) /\ socket[k] \in OpenSockets
         /\ ProxyToken(socket[k].tok, socket[k].sid, epoch)
<1>1. socket[k] # Closed /\ SocketHolds(k)
  BY DEF Closed, SocketsHold
<1> QED BY <1>1 DEF SocketHolds

\* What goes upstream is an envelope, on the connection's token.
LEMMA HoldsReceive ==
  ASSUME IInv, SocketsHold, SentIsGood, NEW k \in Sockets, Receive(k)
  PROVE  SocketsHold' /\ SentIsGood'
<1>1. /\ Rests /\ Extends
      /\ socket[k] # Closed /\ SocketHolds(k) /\ socket[k] \in OpenSockets
      /\ ProxyToken(socket[k].tok, socket[k].sid, epoch)
  BY AcceptedHolds DEF Receive, Rests, Extends, Tokens, vars, memory, history
<1>2. CASE socket' = [socket EXCEPT ![k] = Closed] /\ UNCHANGED sent
  BY <1>1, <1>2, OneCloses, SentStays
<1>3. ASSUME NEW m \in Envelopes, Envelope(m),
             socket' = [socket EXCEPT ![k] = Opened(socket[k], "upstream")],
             sent' = [sid |-> socket[k].sid, tok |-> socket[k].tok, epoch |-> epoch,
                      message |-> m]
      PROVE  SocketsHold' /\ SentIsGood'
  <2>1. SocketsHold'
    BY <1>1, <1>3, OneGoesOn
  <2>2. sent' \in SentMessages
    BY <1>1, <1>3 DEF SentMessages, OpenSockets, IInv, Types, CounterTypes
  <2>3. ~sent'.message.blocked /\ sent'.message.keys /\ sent'.message.type
    BY <1>3 DEF Envelope
  <2>4. ProxyToken(sent.tok, sent.sid, sent.epoch)'
    BY <1>1, <1>3 DEF ProxyToken, Rests, Tokens
  <2>5. SentIsGood'
    BY <2>2, <2>3, <2>4 DEF SentIsGood, SentMessages
  <2> QED BY <2>1, <2>5
<1> QED BY <1>2, <1>3 DEF Receive

\* The provider's answer, and a connection that ends.
LEMMA HoldsElsewhere ==
  ASSUME SocketsHold, NEW k \in Sockets, UpstreamAnswers(k) \/ Disconnect(k)
  PROVE  SocketsHold'
<1>1. Rests
  BY DEF UpstreamAnswers, Disconnect, Rests, vars, memory, history
<1>2. CASE socket' = [socket EXCEPT ![k] = Closed]
  BY <1>1, <1>2, OneCloses
<1>3. CASE UpstreamAnswers(k) /\ socket' = [socket EXCEPT ![k] = Opened(socket[k], "open")]
  <2>1. socket[k].step \in {"open", "upstream"}
    BY <1>3 DEF UpstreamAnswers
  <2> QED BY <1>1, <1>3, <2>1, AcceptedHolds, OneGoesOn
<1> QED BY <1>2, <1>3 DEF UpstreamAnswers, Disconnect

-----------------------------------------------------------------------------
(* What the pages relay *)

\* The contract accepts what normalize_dashscope_event makes of any event.
LEMMA DashScopeFits ==
  ASSUME NEW p \in DashScopePayloads, DashScope(p) # NoEvent
  PROVE  Accepts(DashScope(p))
<1>1. CASE p.type \in DOMAIN DashScopeLifecycle
  <2> DEFINE e == DashScopeLifecycle[p.type]
  <2>1. e \in {Plain("session.connected", "listening"), Plain("session.ended", "ended"),
               Plain("session.error", "error")}
    BY <1>1 DEF DashScopeLifecycle
  <2>2. Accepts(e)
    BY <2>1 DEF Plain, Accepts, EventTypes, ToolTypes, ToolFields, TranscriptFields,
       TranscriptTypes, SpeakerOf, VoiceSessionStates
  <2> QED BY <1>1, <2>2 DEF DashScope
<1>2. CASE p.type \notin DOMAIN DashScopeLifecycle
  <2>1. /\ p.type \in DOMAIN DashScopeTranscripts
        /\ DashScope(p) = [type |-> DashScopeTranscripts[p.type][1],
                           state |-> DashScopeTranscripts[p.type][2],
                           speaker |-> DashScopeTranscripts[p.type][3], has |-> {"text"}]
    BY <1>2 DEF DashScope
  <2>2. DashScopeTranscripts[p.type] \in
          {<<"transcript.user.delta", "transcribing", "user">>,
           <<"transcript.user.done", "thinking", "user">>,
           <<"transcript.assistant.delta", "speaking", "assistant">>,
           <<"transcript.assistant.done", "listening", "assistant">>}
    BY <2>1 DEF DashScopeTranscripts
  <2>3. /\ DashScope(p).type \in TranscriptTypes
        /\ DashScope(p).speaker = SpeakerOf[DashScope(p).type]
        /\ DashScope(p).state \in VoiceSessionStates /\ DashScope(p).has = {"text"}
    BY <2>1, <2>2 DEF TranscriptTypes, SpeakerOf, VoiceSessionStates
  <2> QED BY <2>3 DEF Accepts, EventTypes, TranscriptTypes, SpeakerOf, ToolTypes, ToolFields
<1> QED BY <1>1, <1>2

\* And what normalizeOpenAIRealtimeEvent makes of any event.
LEMMA OpenAIFits ==
  ASSUME NEW p \in OpenAIPayloads, OpenAI(p) # NoEvent
  PROVE  Accepts(OpenAI(p))
<1>1. CASE p.type \in DOMAIN OpenAIPlain
  <2> DEFINE e == OpenAIPlain[p.type]
  <2>1. e \in {Plain("session.connected", "idle"), Plain("response.done", "speaking"),
               Plain("session.error", "error")}
    BY <1>1 DEF OpenAIPlain
  <2>2. Accepts(e)
    BY <2>1 DEF Plain, Accepts, EventTypes, ToolTypes, ToolFields, TranscriptFields,
       TranscriptTypes, SpeakerOf, VoiceSessionStates
  <2> QED BY <1>1, <2>2 DEF OpenAI
<1>2. CASE /\ p.type \notin DOMAIN OpenAIPlain
           /\ p.type \in DOMAIN OpenAITranscripts /\ "text" \in p.has
  <2>1. OpenAI(p) = [type |-> OpenAITranscripts[p.type], state |-> "transcribing",
                     speaker |-> SpeakerOf[OpenAITranscripts[p.type]], has |-> p.has]
    BY <1>2 DEF OpenAI
  <2>2. OpenAITranscripts[p.type] \in TranscriptTypes
    BY <1>2 DEF OpenAITranscripts, TranscriptTypes, SpeakerOf
  <2>3. p.has \subseteq TranscriptFields
    BY DEF OpenAIPayloads
  <2>4. p.has \cap ToolFields = {}
    BY <2>3 DEF TranscriptFields, ToolFields
  <2>5. /\ OpenAI(p).type \in TranscriptTypes
        /\ OpenAI(p).speaker = SpeakerOf[OpenAI(p).type]
        /\ OpenAI(p).state \in VoiceSessionStates /\ OpenAI(p).has = p.has
    BY <2>1, <2>2 DEF VoiceSessionStates
  <2>6. OpenAI(p).type \notin ToolTypes /\ OpenAI(p).type \in EventTypes
    BY <2>5 DEF TranscriptTypes, SpeakerOf, ToolTypes, EventTypes
  <2> QED BY <1>2, <2>4, <2>5, <2>6 DEF Accepts
<1>3. CASE OpenAI(p) = [type |-> "tool_call.requested", state |-> "tool_calling",
                        speaker |-> "none", has |-> ToolFields]
  BY <1>3 DEF Accepts, EventTypes, ToolTypes, ToolFields, TranscriptFields,
     TranscriptTypes, SpeakerOf, VoiceSessionStates
<1> QED BY <1>1, <1>2, <1>3 DEF OpenAI

\* The last event relayed fits, whichever page sent it.
LEMMA RelayFits ==
  ASSUME RelaysFitContract, [ProxyNext]_proxyVars
  PROVE  RelaysFitContract'
<1>1. CASE UNCHANGED relayed
  BY <1>1 DEF RelaysFitContract
<1>2. ASSUME relayed' \in DashScopeEvents \cup OpenAIEvents PROVE RelaysFitContract'
  <2>1. relayed' # NoEvent => Accepts(relayed')
    BY <1>2, DashScopeFits, OpenAIFits DEF DashScopeEvents, OpenAIEvents
  <2> QED BY <2>1 DEF RelaysFitContract, Accepts
<1>3. UNCHANGED relayed \/ relayed' \in DashScopeEvents \cup OpenAIEvents
  BY DEF ProxyNext, ProxyStep, ApiStep, Connect, CheckToken, Receive, UpstreamAnswers,
     Disconnect, OpenAIEvent, proxyVars, proxy
<1> QED BY <1>1, <1>2, <1>3

-----------------------------------------------------------------------------
(* The theorems *)

\* The invariant holds in a fresh server.
LEMMA InitPInv == ProxyInit => PInv
BY InitIInv DEF ProxyInit, PInv, SocketsHold, SocketHolds, SentIsGood

\* Each step of the proxy or of the API preserves it.
LEMMA StepPInv == PInv /\ [ProxyNext]_proxyVars => PInv'
<1> SUFFICES ASSUME IInv, SocketsHold, SentIsGood, [ProxyNext]_proxyVars PROVE PInv'
  BY DEF PInv
<1>1. IInv'
  <2>1. [Next]_vars
    BY DEF ProxyNext, ProxyStep, ApiStep, Connect, CheckToken, Receive, UpstreamAnswers,
       Disconnect, OpenAIEvent, proxyVars
  <2> QED BY <2>1, StepIInv
<1>2. ASSUME UNCHANGED vars, UNCHANGED sent PROVE SentIsGood'
  BY <1>2, SentStays DEF Extends, Tokens, vars, history
<1>3. ASSUME NEW k \in Sockets, Connect(k) \/ CheckToken(k) PROVE SocketsHold' /\ SentIsGood'
  BY <1>2, <1>3, HoldsConnect, HoldsCheckToken DEF Connect, CheckToken
<1>4. ASSUME NEW k \in Sockets, Receive(k) PROVE SocketsHold' /\ SentIsGood'
  BY <1>4, HoldsReceive
<1>5. ASSUME NEW k \in Sockets, UpstreamAnswers(k) \/ Disconnect(k)
      PROVE  SocketsHold' /\ SentIsGood'
  BY <1>2, <1>5, HoldsElsewhere DEF UpstreamAnswers, Disconnect
<1>6. CASE OpenAIEvent \/ UNCHANGED proxyVars
  <2>1. UNCHANGED <<vars, socket, sent>>
    BY <1>6 DEF OpenAIEvent, proxyVars, proxy
  <2>2. Extends /\ Replaces /\ UNCHANGED <<delivered, epoch>>
    BY <2>1 DEF Extends, Replaces, Tokens, vars, memory, history
  <2>3. SocketsHold'
    BY <2>1, <2>2, SocketStays DEF SocketsHold, OpenSockets
  <2>4. SentIsGood'
    BY <1>2, <2>1
  <2> QED BY <1>1, <2>3, <2>4 DEF PInv
<1>7. CASE ApiStep
  <2>1. Next /\ socket' = SocketsAfter /\ UNCHANGED sent
    BY <1>7 DEF ApiStep
  <2>2. CASE Restart
    <3>1. epoch' # epoch
      BY <2>2 DEF Restart, IInv, Types, CounterTypes
    <3>2. socket' = [k \in Sockets |-> Closed]
      BY <2>1, <3>1 DEF SocketsAfter
    <3>3. Extends
      BY <2>2 DEF Restart, Extends, Tokens, history
    <3>4. SocketsHold'
      BY <3>2 DEF SocketsHold, SocketHolds
    <3>5. SentIsGood'
      BY <2>1, <3>3, SentStays
    <3> QED BY <1>1, <3>4, <3>5 DEF PInv
  <2>3. CASE ~Restart
    <3>1. Extends /\ Replaces /\ delivered \subseteq delivered' /\ epoch' = epoch
      BY <2>1, <2>3, StepEffect
    <3>2. socket' = socket
      BY <2>1, <3>1 DEF SocketsAfter
    <3>3. SocketsHold'
      BY <3>1, <3>2, SocketStays DEF SocketsHold, OpenSockets
    <3>4. SentIsGood'
      BY <2>1, <3>1, SentStays
    <3> QED BY <1>1, <3>3, <3>4 DEF PInv
  <2> QED BY <2>2, <2>3
<1> QED BY <1>1, <1>3, <1>4, <1>5, <1>6, <1>7 DEF ProxyNext, ProxyStep, PInv

\* So it holds in every state of the server.
LEMMA SpecPInv == ProxySpec => []PInv
BY InitPInv, StepPInv, PTL DEF ProxySpec

\* Connections, and the last message sent upstream, keep their types.
THEOREM ProxyTypes == ProxySpec => []ProxyTypeOK
<1>1. PInv => ProxyTypeOK
  BY TypesAreTypeOK DEF PInv, IInv, SocketsHold, SentIsGood, ProxyTypeOK, OpenSockets, SentMessages
<1> QED BY <1>1, SpecPInv, PTL

\* Whatever the threads of the HTTP API do between the two lookups of the proxy,
\* only whitelisted envelopes go upstream, on tokens minted for that session, with
\* DashScope, in this life of the server.
THEOREM ProxyUpstreamIsAuthorised == ProxySpec => []UpstreamIsAuthorised
<1>1. PInv => UpstreamIsAuthorised
  BY DEF PInv, SentIsGood, ProxyToken, UpstreamIsAuthorised
<1> QED BY <1>1, SpecPInv, PTL

\* Whatever a provider sends, what either adapter makes of it is accepted by the
\* contract of POST /v1/realtime/event.
THEOREM ProxyRelaysFitContract == ProxySpec => []RelaysFitContract
<1>1. ProxyInit => RelaysFitContract
  BY DEF ProxyInit, RelaysFitContract
<1> QED BY <1>1, RelayFits, PTL DEF ProxySpec

\* The proxy only reads what it shares with the HTTP API: next to it, the API does
\* what it does alone, so that all that is proved of it holds here too.
THEOREM ProxyImplementsApi == ProxySpec => Spec
<1>1. ProxyInit => Init
  BY DEF ProxyInit
<1>2. [ProxyNext]_proxyVars => [Next]_vars
  BY DEF ProxyNext, ProxyStep, ApiStep, Connect, CheckToken, Receive, UpstreamAnswers,
     Disconnect, OpenAIEvent, proxyVars
<1> QED BY <1>1, <1>2, PTL DEF ProxySpec, Spec

\* What the HTTP API promises of its log holds next to the proxy.
THEOREM ProxyLoggedWorkIsAuthorised == ProxySpec => []LoggedWorkIsAuthorised
BY ProxyImplementsApi, ApiLoggedWorkIsAuthorised
====
