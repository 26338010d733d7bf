---- MODULE RealtimePage ----
(***************************************************************************)
(* Start, Stop and Mute of the browser page                                *)
(* src/voiceagents/api/static/realtime-test.html: startSession,            *)
(* connectOpenAIRealtime, connectDashScopeRealtime, stopSession and        *)
(* resetRealtimeResources over the page's one global `state` object.       *)
(*                                                                         *)
(* JavaScript runs one task at a time, so an action is the code between    *)
(* two awaits of one call of startSession (an "attempt").  Between two     *)
(* awaits anything else may run: the user's clicks, events of the          *)
(* transports, and other attempts, because Stop re-enables Start while an  *)
(* attempt still waits.  The phases of an attempt:                         *)
(*   secret -> microphone -> offer -> local -> sdp -> remote -> connected  *)
(*   secret -> socket -> connected                       (DashScope, mock) *)
(* and "failed" from each of them, by way of "refused" when client-secret  *)
(* answers with an error status.                                           *)
(*                                                                         *)
(* An object or a credential is the number of the attempt it came from, 0  *)
(* for null.  state.localStream, peerConnection, remoteAudio and           *)
(* dataChannel are assigned in one task and cleared in another, always     *)
(* together, and are one variable, `media`; so are clientSecret,           *)
(* toolCallToken, connectionUrl and sessionConfig, `secrets`.              *)
(***************************************************************************)
EXTENDS Integers

CONSTANTS
  MaxStarts,  \* bound: clicks on Start that begin an attempt
  MaxStops    \* bound: Stop is not clicked when activeConnectionId is past it

ASSUME StartsAssumption == MaxStarts \in Nat /\ MaxStops \in Nat

VARIABLES
  phase,       \* where each attempt is
  conn,        \* the connectionId each attempt has captured
  activeId,    \* state.activeConnectionId
  isStarting,  \* state.isStarting
  startable,   \* the Start button is enabled
  panel,       \* the session-state panel
  sessionId,   \* state.sessionId
  secrets,     \* state.clientSecret, toolCallToken, connectionUrl, sessionConfig
  media,       \* state.localStream, peerConnection, remoteAudio, dataChannel
  socket,      \* state.dashScopeSocket
  muted,       \* state.isMuted
  liveMedia,   \* attempts whose microphone, peer connection and audio are open
  liveSockets, \* attempts whose WebSocket is connecting or open
  hearing,     \* attempts whose microphone track is enabled
  patient      \* history: Stop has never been pressed while an attempt waited

controls == <<isStarting, startable, panel>>
resources == <<activeId, secrets, media, socket, muted, liveMedia, liveSockets, hearing>>
vars == <<phase, conn, sessionId, controls, resources, patient>>

Attempts == 1..MaxStarts
Waiting == {"secret", "refused", "microphone", "offer", "local", "sdp", "remote", "socket"}
Phases == Waiting \cup {"none", "connected", "failed"}
Panels == {"idle", "starting", "connected", "error", "ended", "channel_lost", "socket_closed"}

InFlight == {k \in Attempts : phase[k] \in Waiting}

-----------------------------------------------------------------------------
(* resetRealtimeResources: closes what `state` refers to and clears it *)

Reset_KeepsStream ==  \* mutant: the local tracks are not stopped
  /\ activeId' = activeId + 1
  /\ liveMedia' = liveMedia
  /\ hearing' = hearing
  /\ liveSockets' = liveSockets \ {socket}
  /\ media' = 0 /\ socket' = 0 /\ secrets' = 0
  /\ muted' = FALSE

Reset_KeepsSecrets ==  \* mutant: the credentials are not cleared
  /\ activeId' = activeId + 1
  /\ liveMedia' = liveMedia \ {media}
  /\ hearing' = hearing \ {media}
  /\ liveSockets' = liveSockets \ {socket}
  /\ media' = 0 /\ socket' = 0 /\ secrets' = secrets
  /\ muted' = FALSE

Reset ==
  /\ activeId' = activeId + 1
  /\ liveMedia' = liveMedia \ {media}
  /\ hearing' = hearing \ {media}
  /\ liveSockets' = liveSockets \ {socket}
  /\ media' = 0 /\ socket' = 0 /\ secrets' = 0
  /\ muted' = FALSE

Controls(starting, enabled, text) ==
  isStarting' = starting /\ startable' = enabled /\ panel' = text

Move(k, to) == phase' = [phase EXCEPT ![k] = to]

-----------------------------------------------------------------------------
(* The user *)

Start(k) ==
  /\ startable /\ ~isStarting
  /\ phase[k] = "none" /\ \A j \in Attempts : j < k => phase[j] # "none"
  /\ Reset
  /\ Controls(TRUE, FALSE, "starting")
  /\ conn' = [conn EXCEPT ![k] = activeId']
  /\ sessionId' = k
  /\ Move(k, "secret")

Stop ==
  /\ activeId < MaxStops
  /\ patient' = (patient /\ InFlight = {})
  /\ Reset
  /\ Controls(FALSE, TRUE, "ended")
  /\ sessionId' = 0
  /\ UNCHANGED <<phase, conn>>

ToggleMute_ButtonOnly ==  \* mutant: only the button changes
  /\ muted' = ~muted
  /\ UNCHANGED <<phase, conn, sessionId, controls, activeId, secrets, media, socket,
                 liveMedia, liveSockets, hearing>>

ToggleMute_NoStreamCheck ==  \* mutant: `if (state.localStream)` is missing
  /\ muted' = ~muted
  /\ hearing' = IF muted' THEN hearing \ {media} ELSE hearing \cup {media}
  /\ UNCHANGED <<phase, conn, sessionId, controls, activeId, secrets, media, socket,
                 liveMedia, liveSockets>>

\* setMuteState: the tracks of the stream that `state` refers to.
ToggleMute ==
  /\ muted' = ~muted
  /\ hearing' = IF muted' THEN hearing \ {media} ELSE hearing \cup ({media} \cap liveMedia)
  /\ UNCHANGED <<phase, conn, sessionId, controls, activeId, secrets, media, socket,
                 liveMedia, liveSockets>>

-----------------------------------------------------------------------------
(* How an attempt ends badly *)

\* startSession rejects and the click handler's catch runs, for whatever attempt
\* it was.  connectOpenAIRealtime's own catch has released the resources before,
\* if the attempt was still the active one; the proxy path has no such catch.
Fail(k, releases) ==
  /\ IF releases /\ activeId = conn[k] THEN Reset ELSE UNCHANGED resources
  /\ Controls(FALSE, TRUE, "error")
  /\ Move(k, "failed")
  /\ UNCHANGED <<conn, sessionId>>

\* The client-secret request does not get through, or the body of its answer.
SecretFails(k) ==
  /\ phase[k] \in {"secret", "refused"}
  /\ Fail(k, FALSE)

\* !response.ok: the panel shows the status, and startSession gives up once it
\* has read and shown the body.
SecretRefused(k) ==
  /\ phase[k] = "secret"
  /\ panel' = "error"
  /\ Move(k, "refused")
  /\ UNCHANGED <<conn, sessionId, isStarting, startable, resources>>

RefusalShown(k) ==
  /\ phase[k] = "refused"
  /\ Controls(FALSE, TRUE, panel)
  /\ Move(k, "failed")
  /\ UNCHANGED <<conn, sessionId, resources>>

\* getUserMedia is denied; createOffer, setLocalDescription, the SDP exchange or
\* setRemoteDescription rejects.
OpenAIFails_NoCleanup(k) ==  \* mutant: connectOpenAIRealtime has no catch
  /\ phase[k] \in {"microphone", "offer", "local", "sdp", "remote"}
  /\ Fail(k, FALSE)

OpenAIFails(k) ==
  /\ phase[k] \in {"microphone", "offer", "local", "sdp", "remote"}
  /\ Fail(k, TRUE)

\* The socket's error event: it is closed, and `state` still refers to it.
SocketFails(k) ==
  /\ phase[k] = "socket"
  /\ liveSockets' = liveSockets \ {k}
  /\ Controls(FALSE, TRUE, "error")
  /\ Move(k, "failed")
  /\ UNCHANGED <<conn, sessionId, activeId, secrets, media, socket, muted, liveMedia, hearing>>

-----------------------------------------------------------------------------
(* How an attempt goes on.  Only two of these steps look at the connection id. *)

\* The credential arrives and is stored, whichever attempt is the active one.
SecretArrivesForOpenAI(k) ==
  /\ phase[k] = "secret"
  /\ secrets' = k
  /\ Move(k, "microphone")
  /\ UNCHANGED <<conn, sessionId, controls, activeId, media, socket, muted,
                 liveMedia, liveSockets, hearing>>

SecretArrivesForProxy(k) ==
  /\ phase[k] = "secret"
  /\ secrets' = k
  /\ socket' = k
  /\ liveSockets' = liveSockets \cup {k}
  /\ Move(k, "socket")
  /\ UNCHANGED <<conn, sessionId, controls, activeId, media, muted, liveMedia, hearing>>

\* setupAudioAndPeerConnection resumes with the stream, makes the peer connection,
\* the audio element and the data channel, and createOffer is called.  If `state`
\* has lost its credential meanwhile the attempt fails; only a reset takes the
\* credential, so the attempt is not the active one and releases nothing.
OpenMedia(k) ==
  /\ media' = k
  /\ liveMedia' = liveMedia \cup {k}
  /\ hearing' = IF muted THEN hearing ELSE hearing \cup {k}

MicrophoneGranted(k) ==
  /\ phase[k] = "microphone"
  /\ secrets # 0
  /\ OpenMedia(k)
  /\ Move(k, "offer")
  /\ UNCHANGED <<conn, sessionId, controls, activeId, secrets, socket, muted, liveSockets>>

MicrophoneGrantedTooLate(k) ==
  /\ phase[k] = "microphone"
  /\ secrets = 0
  /\ OpenMedia(k)
  /\ Controls(FALSE, TRUE, "error")
  /\ Move(k, "failed")
  /\ UNCHANGED <<conn, sessionId, activeId, secrets, socket, muted, liveSockets>>

\* setLocalDescription is called on the peer connection that `state` has now.
OfferCreated(k) ==
  /\ phase[k] = "offer" /\ media # 0
  /\ Move(k, "local")
  /\ UNCHANGED <<conn, sessionId, controls, resources>>

LocalDescriptionSet(k) ==
  /\ phase[k] = "local"
  /\ Move(k, "sdp")
  /\ UNCHANGED <<conn, sessionId, controls, resources>>

\* The answer is used only if the attempt is still the active one and its peer
\* connection the current one; otherwise the attempt fails (OpenAIFails).
SdpAnswered(k) ==
  /\ phase[k] = "sdp"
  /\ activeId = conn[k] /\ media = k
  /\ Move(k, "remote")
  /\ UNCHANGED <<conn, sessionId, controls, resources>>

\* startSession's last lines.
Connected_StillStarting(k) ==  \* mutant: state.isStarting is not cleared
  /\ Controls(isStarting, FALSE, "connected")
  /\ Move(k, "connected")
  /\ UNCHANGED <<conn, sessionId, resources>>

Connected(k) ==
  /\ Controls(FALSE, FALSE, "connected")
  /\ Move(k, "connected")
  /\ UNCHANGED <<conn, sessionId, resources>>

\* No check follows setRemoteDescription.
RemoteDescriptionSet(k) == phase[k] = "remote" /\ Connected(k)

SocketOpens(k) ==
  /\ phase[k] = "socket" /\ k \in liveSockets
  /\ activeId = conn[k]
  /\ Connected(k)

\* The socket of a replaced attempt opens: it is closed and the attempt fails.
SocketOpensTooLate(k) ==
  /\ phase[k] = "socket" /\ k \in liveSockets
  /\ activeId # conn[k]
  /\ liveSockets' = liveSockets \ {k}
  /\ Controls(FALSE, TRUE, "error")
  /\ Move(k, "failed")
  /\ UNCHANGED <<conn, sessionId, activeId, secrets, media, socket, muted, liveMedia, hearing>>

-----------------------------------------------------------------------------
(* Events of the transports *)

\* The data channel closes or errs: only its own page state is told.
ChannelLost(k) ==
  /\ k \in liveMedia /\ media = k
  /\ panel' = "channel_lost"
  /\ UNCHANGED <<phase, conn, sessionId, isStarting, startable, resources>>

SocketCloses(k) ==
  /\ phase[k] = "connected" /\ k \in liveSockets
  /\ liveSockets' = liveSockets \ {k}
  /\ panel' = IF socket = k THEN "socket_closed" ELSE panel
  /\ UNCHANGED <<phase, conn, sessionId, isStarting, startable, activeId, secrets, media,
                 socket, muted, liveMedia, hearing>>

-----------------------------------------------------------------------------

Init ==
  /\ phase = [k \in Attempts |-> "none"]
  /\ conn = [k \in Attempts |-> 0]
  /\ activeId = 0 /\ isStarting = FALSE /\ startable = TRUE /\ panel = "idle"
  /\ sessionId = 0 /\ secrets = 0 /\ media = 0 /\ socket = 0 /\ muted = FALSE
  /\ liveMedia = {} /\ liveSockets = {} /\ hearing = {}
  /\ patient = TRUE

Settle(k) ==
  \/ SecretFails(k) \/ SecretRefused(k) \/ RefusalShown(k)
  \/ OpenAIFails(k) \/ SocketFails(k)
  \/ SecretArrivesForOpenAI(k) \/ SecretArrivesForProxy(k)
  \/ MicrophoneGranted(k) \/ MicrophoneGrantedTooLate(k)
  \/ OfferCreated(k) \/ LocalDescriptionSet(k) \/ SdpAnswered(k) \/ RemoteDescriptionSet(k)
  \/ SocketOpens(k) \/ SocketOpensTooLate(k)

Next ==
  \/ Stop
  \/ /\ \/ \E k \in Attempts : Start(k) \/ Settle(k) \/ ChannelLost(k) \/ SocketCloses(k)
        \/ ToggleMute
     /\ UNCHANGED patient

Spec == Init /\ [][Next]_vars

-----------------------------------------------------------------------------
(* Properties *)

\* The page's state and its attempts have their types.
TypeOK ==
  /\ phase \in [Attempts -> Phases]
  /\ conn \in [Attempts -> Nat] /\ activeId \in Nat
  /\ isStarting \in BOOLEAN /\ startable \in BOOLEAN /\ muted \in BOOLEAN
  /\ panel \in Panels
  /\ {sessionId, secrets, media, socket} \subseteq Attempts \cup {0}
  /\ liveMedia \subseteq Attempts /\ liveSockets \subseteq Attempts
  /\ hearing \subseteq liveMedia
  /\ patient \in BOOLEAN

\* As long as the user does not press Stop during an attempt, nothing is open that
\* the page has lost sight of, so the next Stop or Start will close it.
NothingLeaks ==
  patient => liveMedia \subseteq {media} /\ liveSockets \subseteq {socket}

\* A start that failed, at whatever await, has released the microphone, the peer
\* connection and the socket, and Start works again.
FailedStartIsClean ==
  (patient /\ panel = "error" /\ InFlight = {}) =>
    liveMedia = {} /\ liveSockets = {} /\ startable /\ ~isStarting

\* The credentials the page holds were minted for the session id it sends.
CredentialsMatchSession ==
  (patient /\ secrets # 0) => secrets = sessionId

\* While the page shows the session muted, no open microphone track is enabled.
MuteSilencesEveryTrack == (patient /\ muted) => hearing = {}

\* Whatever the user clicks and in whatever order the attempts settle, the page
\* does not stay "starting" once none of them is waiting.
NeverStuckStarting == InFlight = {} => ~isStarting

\* openai-realtime-phase4-browser-checklist.md: "Stop should close the data
\* channel, close the peer connection, stop every local track, remove remote audio,
\* and clear secret-bearing state".
StopReleasesEverything ==
  panel = "ended" => liveMedia = {} /\ liveSockets = {} /\ secrets = 0
====
