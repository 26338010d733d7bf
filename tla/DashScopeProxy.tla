---- MODULE DashScopeProxy ----
(***************************************************************************)
(* The WebSocket proxy of DashScope sessions (dashscope_realtime_proxy in  *)
(* src/voiceagents/api/app.py), next to the HTTP handlers of module        *)
(* RealtimeApi and over their session store, and the page at its other     *)
(* end, which relays what it is sent to POST /v1/realtime/event.           *)
(*                                                                         *)
(* The proxy is a coroutine: it looks the session up twice before it       *)
(* accepts, never awaits between the two, and still is not alone, for the  *)
(* HTTP handlers run on other threads.  Then it relays one message at a    *)
(* time until the client leaves or something raises:                       *)
(*   closed -> token -> open -> upstream -> open ...                       *)
(* The token is checked before accept and never again.                     *)
(*                                                                         *)
(* `sent` and `relayed` are history: the message that went to the provider *)
(* last, and the event that a page posted last.                            *)
(***************************************************************************)
EXTENDS RealtimeApi, EventContract

CONSTANTS
  Sockets,        \* connections to the proxy
  ProxyProvider,  \* RealtimeProviderName.DASHSCOPE_REALTIME
  NoMessage       \* nothing has gone to the provider yet

VARIABLES
  socket,   \* the handler of each connection and its locals
  sent,
  relayed

proxy == <<socket, sent, relayed>>
proxyVars == <<vars, proxy>>

\* A message of the client: whether it is JSON, and what
\* validate_dashscope_proxy_message asks of it.
Envelopes == [json : BOOLEAN, keys : BOOLEAN, type : BOOLEAN, blocked : BOOLEAN, object : BOOLEAN]

Envelope(m) == m.keys /\ m.type /\ ~m.blocked /\ m.object

Closed == [step |-> "closed"]

Opened_NoSid(s, step) == [step |-> step, tok |-> s.tok, provider |-> s.provider]  \* mutant: session_id is not kept

Opened(s, step) == [step |-> step, sid |-> s.sid, tok |-> s.tok, provider |-> s.provider]

-----------------------------------------------------------------------------
(* Before accept *)

\* get_session_provider.  A connection without a token, or for a session that is
\* not there, is closed at once.
Connect(k) ==
  /\ socket[k].step = "closed"
  /\ \E sid \in SessionIds, tok \in Presentable :
       /\ store[sid] # NoSession
       /\ socket' = [socket EXCEPT ![k] =
            [step |-> "token", sid |-> sid, tok |-> tok, provider |-> store[sid].provider]]
  /\ UNCHANGED <<vars, sent, relayed>>

CheckToken_ProviderOnly(k) ==  \* mutant: any token opens a DashScope session
  /\ socket[k].step = "token"
  /\ LET good == socket[k].provider = ProxyProvider
     IN socket' = [socket EXCEPT ![k] = IF good THEN Opened(@, "open") ELSE Closed]
  /\ UNCHANGED <<vars, sent, relayed>>

\* verify_tool_call_token reads the session again; one that is gone closes the
\* connection here too.
CheckToken(k) ==
  /\ socket[k].step = "token"
  /\ LET good == /\ store[socket[k].sid] # NoSession
                 /\ TokenIsValid(store[socket[k].sid], socket[k].tok)
                 /\ socket[k].provider = ProxyProvider
     IN socket' = [socket EXCEPT ![k] = IF good THEN Opened(@, "open") ELSE Closed]
  /\ UNCHANGED <<vars, sent, relayed>>

-----------------------------------------------------------------------------
(* The relay *)

\* A good envelope goes to the upstream transport (a server that has none says
\* that it accepts the envelope and drops it); any other message ends the connection, one that
\* is no envelope with an error message, one that is no JSON with an exception.
Receive(k) ==
  /\ socket[k].step = "open"
  /\ \E m \in Envelopes :
       IF m.json /\ Envelope(m)
       THEN /\ socket' = [socket EXCEPT ![k] = Opened(@, "upstream")]
            /\ sent' = [sid |-> socket[k].sid, tok |-> socket[k].tok, epoch |-> epoch,
                        message |-> m]
       ELSE /\ socket' = [socket EXCEPT ![k] = Closed]
            /\ UNCHANGED sent
  /\ UNCHANGED <<vars, relayed>>

\* The provider's event is normalised and shown to the page, which posts it: the
\* proxy passes on type, state, speaker and text.  The session is looked up twice
\* more, for identifiers that do not leave the server.  An event that is not known
\* raises and ends the connection.
UpstreamAnswers(k) ==
  /\ socket[k].step = "upstream" /\ store[socket[k].sid] # NoSession
  /\ \E event \in DashScopeEvents :
       IF event = NoEvent
       THEN /\ socket' = [socket EXCEPT ![k] = Closed]
            /\ UNCHANGED relayed
       ELSE /\ socket' = [socket EXCEPT ![k] = Opened(@, "open")]
            /\ relayed' = event
  /\ UNCHANGED <<vars, sent>>

\* The client leaves, or the transport raises; nobody catches that.
Disconnect(k) ==
  /\ socket[k].step # "closed"
  /\ socket' = [socket EXCEPT ![k] = Closed]
  /\ UNCHANGED <<vars, sent, relayed>>

\* The page of a session over the OpenAI data channel relays in the same way.
OpenAIEvent ==
  /\ \E tok \in delivered : issued[tok].provider # ProxyProvider
  /\ relayed' \in OpenAIEvents \ {NoEvent}
  /\ UNCHANGED <<vars, socket, sent>>

-----------------------------------------------------------------------------

ProxyInit ==
  /\ Init
  /\ socket = [k \in Sockets |-> Closed]
  /\ sent = NoMessage /\ relayed = NoEvent

ProxyStep ==
  \/ \E k \in Sockets :
       Connect(k) \/ CheckToken(k) \/ Receive(k) \/ UpstreamAnswers(k) \/ Disconnect(k)
  \/ OpenAIEvent

\* The connections after a step of the API: they end with the process.
SocketsAfter == IF epoch' = epoch THEN socket ELSE [k \in Sockets |-> Closed]

ApiStep == Next /\ socket' = SocketsAfter /\ UNCHANGED <<sent, relayed>>

ProxyNext == ProxyStep \/ ApiStep

ProxySpec == ProxyInit /\ [][ProxyNext]_proxyVars

-----------------------------------------------------------------------------
(* Properties *)

Accepted(k) == socket[k].step \in {"open", "upstream"}

\* Connections and history have their types, and so has what the HTTP handlers use.
ProxyTypeOK ==
  /\ TypeOK
  /\ socket \in [Sockets ->
       {Closed} \cup [step : {"token", "open", "upstream"}, sid : SessionIds,
                      tok : Nat, provider : Providers]]
  /\ sent = NoMessage \/ sent \in [sid : SessionIds, tok : Nat, epoch : Nat, message : Envelopes]

\* Whatever reaches the provider is a whitelisted envelope, sent on a token that
\* was minted for that session with DashScope as its provider, in this life of the
\* server.  The two lookups before accept are in the order that makes this so: a
\* session that replaces the one whose provider was read has a token that the
\* client cannot have sent yet.
UpstreamIsAuthorised ==
  sent # NoMessage =>
    /\ ~sent.message.blocked /\ sent.message.keys /\ sent.message.type
    /\ sent.tok \in Tokens
    /\ issued[sent.tok].sid = sent.sid
    /\ issued[sent.tok].provider = ProxyProvider
    /\ issued[sent.tok].epoch = sent.epoch

\* What either adapter makes of any event of its provider is accepted by the
\* contract of the event endpoint: a page never loses an event to a 422.
RelaysFitContract == relayed # NoEvent => Accepts(relayed)
====
