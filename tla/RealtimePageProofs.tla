---- MODULE RealtimePageProofs ----
(***************************************************************************)
(* Proofs about RealtimePage for any number of starts and stops: the page  *)
(* never hangs in "starting", whatever the user clicks, and as long as     *)
(* nobody stops an attempt that waits, it owns whatever is open.           *)
(***************************************************************************)
EXTENDS RealtimePage, TLAPS

\* The steps of an attempt before it has opened anything, and after it has opened
\* its microphone, peer connection and audio.
Unopened == {"secret", "refused", "microphone", "socket"}
Opened == {"offer", "local", "sdp", "remote"}
HasCredential == Waiting \ {"secret", "refused"}

\* One attempt waits at a time, and it is the one that `state` is about: Start is
\* disabled for as long, its connection id is the active one, and what it has
\* opened is what `state` refers to.
OneAttempt ==
  \A k \in InFlight :
    /\ \A j \in InFlight : j = k
    /\ isStarting /\ ~startable
    /\ conn[k] = activeId /\ sessionId = k
    /\ phase[k] \in Unopened => media = 0
    /\ phase[k] \in Opened => media = k
    /\ socket = IF phase[k] = "socket" THEN k ELSE 0
    /\ phase[k] \in HasCredential => secrets = k

\* As long as nobody stopped an attempt that waited, what is open belongs to the
\* page, and its credentials to the session it names.
Orderly ==
  patient => OneAttempt /\ (liveMedia \subseteq {media} /\ liveSockets \subseteq {socket})
               /\ (secrets # 0 => secrets = sessionId)

\* NeverStuckStarting is inductive by itself, for whatever attempt stops waiting
\* clears isStarting, for itself and for all others.  The rest needs OneAttempt.
IInv ==
  /\ TypeOK
  /\ NeverStuckStarting
  /\ Orderly
  /\ FailedStartIsClean
  /\ MuteSilencesEveryTrack

\* The page is idle when it is loaded.
LEMMA PageInit == Init => IInv
<1> SUFFICES ASSUME Init PROVE IInv
  OBVIOUS
<1>1. TypeOK
  BY StartsAssumption DEF Init, TypeOK, Attempts, Phases, Panels
<1>2. InFlight = {}
  BY DEF Init, InFlight, Waiting
<1>3. Orderly
  BY <1>2 DEF Init, Orderly, OneAttempt
<1> QED BY <1>1, <1>2, <1>3 DEF Init, IInv, NeverStuckStarting, FailedStartIsClean,
        MuteSilencesEveryTrack

\* A step of one attempt, as the others see it.
LEMMA Moved ==
  ASSUME TypeOK, NEW k \in Attempts, NEW to \in Phases, Move(k, to)
  PROVE  /\ phase' \in [Attempts -> Phases]
         /\ phase'[k] = to /\ \A j \in Attempts \ {k} : phase'[j] = phase[j]
         /\ InFlight' = IF to \in Waiting THEN InFlight \cup {k} ELSE InFlight \ {k}
<1>1. phase' \in [Attempts -> Phases]
  BY DEF Move, TypeOK
<1>2. phase'[k] = to /\ \A j \in Attempts \ {k} : phase'[j] = phase[j]
  BY DEF Move, TypeOK
<1> QED BY <1>1, <1>2 DEF InFlight

\* No attempt is number 0.
LEMMA AttemptsPositive == 0 \notin Attempts
BY StartsAssumption DEF Attempts

\* A step in which attempt k goes on to another wait and changes nothing but what
\* the invariant says of k itself.
LEMMA GoesOn ==
  ASSUME IInv, NEW k \in InFlight, NEW to \in Waiting, Move(k, to),
         TypeOK', isStarting' = isStarting, startable' = startable,
         UNCHANGED <<conn, activeId, sessionId, patient, muted>>,
         patient => /\ to \in Unopened => media' = 0
                    /\ to \in Opened => media' = k
                    /\ socket' = IF to = "socket" THEN k ELSE 0
                    /\ to \in HasCredential => secrets' = k
                    /\ secrets' # 0 => secrets' = sessionId
                    /\ liveMedia' \subseteq {media'} /\ liveSockets' \subseteq {socket'}
                    /\ muted => hearing' = hearing
  PROVE  IInv'
<1>1. k \in Attempts /\ to \in Phases
  BY DEF InFlight, Phases
<1>2. /\ InFlight' = InFlight \cup {k}
      /\ phase'[k] = to
  BY <1>1, Moved DEF IInv
<1>3. InFlight' = InFlight
  BY <1>2
<1>4. NeverStuckStarting'
  BY <1>3 DEF IInv, NeverStuckStarting
<1>5. Orderly'
  BY <1>2, <1>3 DEF IInv, Orderly, OneAttempt
<1>6. FailedStartIsClean' /\ MuteSilencesEveryTrack'
  BY <1>3 DEF IInv, FailedStartIsClean, MuteSilencesEveryTrack
<1> QED BY <1>4, <1>5, <1>6 DEF IInv

\* A step in which attempt k ends: Start works again, what `state` refers to stays
\* or is released, and a failed attempt leaves nothing open.
LEMMA Ends ==
  ASSUME IInv, NEW k \in InFlight, NEW to \in {"connected", "failed"}, Move(k, to),
         TypeOK', ~isStarting', patient' = patient,
         patient => /\ liveMedia' \subseteq {media'} /\ liveSockets' \subseteq {socket'}
                    /\ secrets' # 0 => secrets' = sessionId'
                    /\ muted' => hearing' = {}
                    /\ panel' = "error" => liveMedia' = {} /\ liveSockets' = {} /\ startable'
  PROVE  IInv'
<1>1. k \in Attempts /\ to \in Phases /\ to \notin Waiting
  BY DEF InFlight, Phases, Waiting
<1>2. InFlight' = InFlight \ {k}
  BY <1>1, Moved DEF IInv
<1>3. patient => InFlight' = {}
  BY <1>2 DEF IInv, Orderly, OneAttempt
<1>4. NeverStuckStarting'
  BY DEF NeverStuckStarting
<1>5. Orderly'
  BY <1>3 DEF Orderly, OneAttempt
<1>6. FailedStartIsClean' /\ MuteSilencesEveryTrack'
  BY DEF FailedStartIsClean, MuteSilencesEveryTrack
<1> QED BY <1>4, <1>5, <1>6 DEF IInv

-----------------------------------------------------------------------------
(* The types *)

\* resetRealtimeResources keeps the types.
LEMMA ResetTypes ==
  ASSUME TypeOK, Reset
  PROVE  /\ activeId' \in Nat /\ muted' = FALSE
         /\ {secrets', media', socket'} \subseteq Attempts \cup {0}
         /\ liveMedia' \subseteq Attempts /\ liveSockets' \subseteq Attempts
         /\ hearing' \subseteq liveMedia'
BY DEF Reset, TypeOK

\* Each action keeps the types.
LEMMA TypesStep == TypeOK /\ [Next]_vars => TypeOK'
<1> SUFFICES ASSUME TypeOK, [Next]_vars PROVE TypeOK'
  OBVIOUS
<1> USE DEF Controls
<1>0. ASSUME NEW k \in Attempts, NEW to \in Phases, Move(k, to) PROVE phase' \in [Attempts -> Phases]
  BY <1>0, Moved
<1>1. {"secret", "refused", "microphone", "offer", "local", "sdp", "remote", "socket",
       "connected", "failed"} \subseteq Phases
  BY DEF Phases, Waiting
<1>2. {"idle", "starting", "connected", "error", "ended", "channel_lost", "socket_closed"} = Panels
  BY DEF Panels
<1>3. CASE Stop
  BY <1>2, <1>3, ResetTypes DEF Stop, TypeOK
<1>4. ASSUME NEW k \in Attempts, Start(k), UNCHANGED patient PROVE TypeOK'
  <2>1. phase' \in [Attempts -> Phases]
    BY <1>0, <1>1, <1>4 DEF Start
  <2>2. conn' \in [Attempts -> Nat]
    BY <1>4, ResetTypes DEF Start, TypeOK
  <2> QED BY <1>2, <1>4, <2>1, <2>2, ResetTypes DEF Start, TypeOK
<1>5. ASSUME NEW k \in Attempts, NEW releases \in BOOLEAN, Fail(k, releases), UNCHANGED patient
      PROVE  TypeOK'
  <2>1. phase' \in [Attempts -> Phases]
    BY <1>0, <1>1, <1>5 DEF Fail
  <2>2. CASE Reset
    BY <1>2, <1>5, <2>1, <2>2, ResetTypes DEF Fail, TypeOK
  <2>3. CASE UNCHANGED resources
    BY <1>2, <1>5, <2>1, <2>3 DEF Fail, TypeOK, resources
  <2> QED BY <1>5, <2>2, <2>3 DEF Fail
<1>6. ASSUME NEW k \in Attempts, SecretRefused(k) \/ RefusalShown(k) \/ SocketFails(k), UNCHANGED patient
      PROVE  TypeOK'
  <2>1. phase' \in [Attempts -> Phases]
    BY <1>0, <1>1, <1>6 DEF SecretRefused, RefusalShown, SocketFails
  <2> QED BY <1>2, <1>6, <2>1 DEF SecretRefused, RefusalShown, SocketFails, TypeOK, resources
<1>7. ASSUME NEW k \in Attempts, SecretArrivesForOpenAI(k) \/ SecretArrivesForProxy(k), UNCHANGED patient
      PROVE  TypeOK'
  <2>1. phase' \in [Attempts -> Phases]
    BY <1>0, <1>1, <1>7 DEF SecretArrivesForOpenAI, SecretArrivesForProxy
  <2> QED BY <1>7, <2>1 DEF SecretArrivesForOpenAI, SecretArrivesForProxy, TypeOK, controls
<1>8. ASSUME NEW k \in Attempts, MicrophoneGranted(k) \/ MicrophoneGrantedTooLate(k), UNCHANGED patient
      PROVE  TypeOK'
  <2>1. phase' \in [Attempts -> Phases]
    BY <1>0, <1>1, <1>8 DEF MicrophoneGranted, MicrophoneGrantedTooLate
  <2> QED BY <1>2, <1>8, <2>1
      DEF MicrophoneGranted, MicrophoneGrantedTooLate, OpenMedia, TypeOK, controls
<1>9. ASSUME NEW k \in Attempts, OfferCreated(k) \/ LocalDescriptionSet(k) \/ SdpAnswered(k),
             UNCHANGED patient
      PROVE  TypeOK'
  <2>1. phase' \in [Attempts -> Phases]
    BY <1>0, <1>1, <1>9 DEF OfferCreated, LocalDescriptionSet, SdpAnswered
  <2> QED BY <1>9, <2>1
      DEF OfferCreated, LocalDescriptionSet, SdpAnswered, TypeOK, controls, resources
<1>10. ASSUME NEW k \in Attempts, Connected(k) \/ SocketOpensTooLate(k), UNCHANGED patient
       PROVE  TypeOK'
  <2>1. phase' \in [Attempts -> Phases]
    BY <1>0, <1>1, <1>10 DEF Connected, SocketOpensTooLate
  <2> QED BY <1>2, <1>10, <2>1 DEF Connected, SocketOpensTooLate, TypeOK, resources
<1>11. ASSUME NEW k \in Attempts, ChannelLost(k) \/ SocketCloses(k), UNCHANGED patient
       PROVE  TypeOK'
  BY <1>2, <1>11 DEF ChannelLost, SocketCloses, TypeOK, resources
<1>12. CASE ToggleMute /\ UNCHANGED patient
  BY <1>12 DEF ToggleMute, TypeOK, controls
<1>13. CASE UNCHANGED vars
  BY <1>13 DEF vars, controls, resources, TypeOK
<1> QED BY <1>3, <1>4, <1>5, <1>6, <1>7, <1>8, <1>9, <1>10, <1>11, <1>12, <1>13
        DEF Next, Settle, SecretFails, OpenAIFails, RemoteDescriptionSet, SocketOpens

-----------------------------------------------------------------------------
(* The steps *)

\* What resetRealtimeResources leaves of an orderly page: nothing.
LEMMA ResetReleases ==
  ASSUME liveMedia \subseteq {media}, liveSockets \subseteq {socket}, Reset
  PROVE  liveMedia' = {} /\ liveSockets' = {} /\ media' = 0 /\ socket' = 0 /\ secrets' = 0
BY DEF Reset

\* Start is possible only while no attempt waits, and releases what was open.
LEMMA AfterStart ==
  ASSUME IInv, TypeOK', NEW k \in Attempts, Start(k), patient' = patient
  PROVE  IInv'
<1>1. /\ InFlight' = InFlight \cup {k} /\ phase'[k] = "secret"
  BY Moved DEF Start, IInv, Phases, Waiting
<1>2. conn'[k] = activeId'
  BY DEF Start, IInv, TypeOK
<1>3. NeverStuckStarting'
  BY <1>1 DEF NeverStuckStarting
<1>4. ASSUME patient PROVE InFlight = {} /\ liveMedia \subseteq {media} /\ liveSockets \subseteq {socket}
  BY <1>4 DEF Start, IInv, Orderly, OneAttempt
<1>5. Orderly'
  <2> SUFFICES ASSUME patient PROVE OneAttempt' /\ liveMedia' = {} /\ liveSockets' = {} /\ secrets' = 0
    BY DEF Orderly, Start
  <2>1. liveMedia' = {} /\ liveSockets' = {} /\ media' = 0 /\ socket' = 0 /\ secrets' = 0
    BY <1>4, ResetReleases DEF Start
  <2>2. InFlight' = {k}
    BY <1>1, <1>4
  <2>3. isStarting' /\ ~startable' /\ sessionId' = k
    BY DEF Start, Controls
  <2> QED BY <1>1, <1>2, <2>1, <2>2, <2>3 DEF OneAttempt, Opened, HasCredential
<1>6. FailedStartIsClean' /\ MuteSilencesEveryTrack'
  BY <1>1 DEF Start, Reset, FailedStartIsClean, MuteSilencesEveryTrack
<1> QED BY <1>3, <1>5, <1>6 DEF IInv

\* Stop releases what `state` refers to; an attempt that waits goes on, and the
\* user is no longer patient.
LEMMA AfterStop ==
  ASSUME IInv, TypeOK', Stop
  PROVE  IInv'
<1>1. InFlight' = InFlight
  BY DEF Stop, InFlight
<1>2. NeverStuckStarting'
  BY DEF Stop, Controls, NeverStuckStarting
<1>3. Orderly'
  BY <1>1, ResetReleases DEF Stop, IInv, Orderly, OneAttempt
<1>4. FailedStartIsClean' /\ MuteSilencesEveryTrack'
  BY DEF Stop, Controls, Reset, FailedStartIsClean, MuteSilencesEveryTrack
<1> QED BY <1>2, <1>3, <1>4 DEF IInv

\* Mute reaches the stream of `state`, which is the only one open.
LEMMA AfterToggleMute ==
  ASSUME IInv, TypeOK', ToggleMute, patient' = patient
  PROVE  IInv'
<1>1. InFlight' = InFlight
  BY DEF ToggleMute, InFlight
<1>2. NeverStuckStarting' /\ FailedStartIsClean'
  BY <1>1 DEF ToggleMute, controls, IInv, NeverStuckStarting, FailedStartIsClean
<1>3. Orderly'
  BY <1>1 DEF ToggleMute, controls, IInv, Orderly, OneAttempt
<1>4. MuteSilencesEveryTrack'
  BY DEF ToggleMute, IInv, TypeOK, Orderly, MuteSilencesEveryTrack
<1> QED BY <1>2, <1>3, <1>4 DEF IInv

\* The transports' events close what is open and write the panel.
LEMMA AfterTransport ==
  ASSUME IInv, TypeOK', NEW k \in Attempts, ChannelLost(k) \/ SocketCloses(k), patient' = patient
  PROVE  IInv'
<1>1. InFlight' = InFlight
  BY DEF ChannelLost, SocketCloses, InFlight
<1>2. /\ UNCHANGED <<conn, sessionId, isStarting, startable, activeId, secrets, media, socket,
                     muted, liveMedia, hearing, phase>>
      /\ liveSockets' \subseteq liveSockets /\ panel' \in {panel, "channel_lost", "socket_closed"}
  BY DEF ChannelLost, SocketCloses, resources
<1>3. NeverStuckStarting' /\ FailedStartIsClean'
  BY <1>1, <1>2 DEF IInv, NeverStuckStarting, FailedStartIsClean
<1>4. Orderly'
  BY <1>1, <1>2 DEF IInv, Orderly, OneAttempt
<1>5. MuteSilencesEveryTrack'
  BY <1>2 DEF IInv, MuteSilencesEveryTrack
<1> QED BY <1>3, <1>4, <1>5 DEF IInv

\* The answer of client-secret.
LEMMA AfterSecret ==
  ASSUME IInv, TypeOK', NEW k \in Attempts, patient' = patient,
         \/ SecretRefused(k) \/ SecretArrivesForOpenAI(k) \/ SecretArrivesForProxy(k)
  PROVE  IInv'
<1>1. phase[k] = "secret" /\ k \in InFlight /\ k # 0
  BY AttemptsPositive
     DEF SecretRefused, SecretArrivesForOpenAI, SecretArrivesForProxy, InFlight, Waiting
<1>2. ASSUME patient
      PROVE  /\ media = 0 /\ socket = 0 /\ liveMedia = {} /\ liveSockets = {} /\ sessionId = k
             /\ secrets # 0 => secrets = sessionId
  BY <1>1, <1>2, AttemptsPositive DEF IInv, TypeOK, Orderly, OneAttempt, Unopened
<1> USE DEF Unopened, Opened, HasCredential, Waiting
<1>3. CASE SecretRefused(k)
  BY <1>1, <1>2, <1>3, GoesOn DEF SecretRefused, resources
<1>4. CASE SecretArrivesForOpenAI(k)
  BY <1>1, <1>2, <1>4, GoesOn DEF SecretArrivesForOpenAI, controls
<1>5. CASE SecretArrivesForProxy(k)
  BY <1>1, <1>2, <1>5, GoesOn DEF SecretArrivesForProxy, controls
<1> QED BY <1>3, <1>4, <1>5

\* The microphone, once granted.
LEMMA AfterMicrophone ==
  ASSUME IInv, TypeOK', NEW k \in Attempts, patient' = patient,
         \/ MicrophoneGranted(k) \/ MicrophoneGrantedTooLate(k)
  PROVE  IInv'
<1>1. phase[k] = "microphone" /\ k \in InFlight /\ k # 0
  BY AttemptsPositive DEF MicrophoneGranted, MicrophoneGrantedTooLate, InFlight, Waiting
<1>2. ASSUME patient
      PROVE  media = 0 /\ socket = 0 /\ liveMedia = {} /\ liveSockets = {} /\ secrets = k /\ sessionId = k
  BY <1>1, <1>2, AttemptsPositive
     DEF IInv, TypeOK, Orderly, OneAttempt, Unopened, HasCredential, Waiting
<1>3. CASE MicrophoneGranted(k)
  <2>1. /\ Move(k, "offer") /\ media' = k /\ liveMedia' = liveMedia \cup {k}
        /\ muted => hearing' = hearing
        /\ UNCHANGED <<conn, sessionId, isStarting, startable, activeId, secrets, socket, muted,
                       liveSockets>>
    BY <1>3 DEF MicrophoneGranted, OpenMedia, controls
  <2> QED BY <1>1, <1>2, <2>1, GoesOn DEF Unopened, Opened, HasCredential, Waiting
<1>4. CASE MicrophoneGrantedTooLate(k)
  <2>1. ~patient
    BY <1>1, <1>2, <1>4 DEF MicrophoneGrantedTooLate
  <2>2. Move(k, "failed") /\ ~isStarting'
    BY <1>4 DEF MicrophoneGrantedTooLate, Controls
  <2> QED BY <1>1, <2>1, <2>2, Ends
<1> QED BY <1>3, <1>4

\* The exchange of descriptions.
LEMMA AfterDescription ==
  ASSUME IInv, TypeOK', NEW k \in Attempts, patient' = patient,
         \/ OfferCreated(k) \/ LocalDescriptionSet(k) \/ SdpAnswered(k)
  PROVE  IInv'
<1>1. PICK to \in Opened : /\ phase[k] \in Opened /\ Move(k, to)
                           /\ UNCHANGED <<conn, sessionId, controls, resources>>
  BY DEF OfferCreated, LocalDescriptionSet, SdpAnswered, Opened
<1>2. k \in InFlight
  BY <1>1 DEF InFlight, Waiting, Opened
<1>3. ASSUME patient
      PROVE  /\ media = k /\ socket = 0 /\ secrets = k /\ sessionId = k
             /\ liveMedia \subseteq {media} /\ liveSockets \subseteq {socket}
  BY <1>1, <1>2, <1>3 DEF IInv, Orderly, OneAttempt, Opened, HasCredential, Waiting
<1> QED BY <1>1, <1>2, <1>3, GoesOn DEF controls, resources, Unopened, Opened, HasCredential, Waiting

\* The ways an attempt ends.
LEMMA AfterEnd ==
  ASSUME IInv, TypeOK', NEW k \in Attempts, patient' = patient,
         \/ SecretFails(k) \/ RefusalShown(k) \/ OpenAIFails(k) \/ SocketFails(k)
         \/ RemoteDescriptionSet(k) \/ SocketOpens(k) \/ SocketOpensTooLate(k)
  PROVE  IInv'
<1>1. k \in InFlight
  BY DEF SecretFails, RefusalShown, OpenAIFails, SocketFails, RemoteDescriptionSet, SocketOpens,
     SocketOpensTooLate, InFlight, Waiting
<1>2. ASSUME patient
      PROVE  /\ conn[k] = activeId
             /\ liveMedia \subseteq {media} /\ liveSockets \subseteq {socket}
             /\ secrets # 0 => secrets = sessionId
             /\ muted => hearing = {}
             /\ phase[k] \in Unopened => media = 0
             /\ socket = IF phase[k] = "socket" THEN k ELSE 0
  BY <1>1, <1>2 DEF IInv, Orderly, OneAttempt, MuteSilencesEveryTrack
<1>3. ~isStarting' /\ \E to \in {"connected", "failed"} : Move(k, to)
  BY DEF SecretFails, RefusalShown, OpenAIFails, SocketFails, RemoteDescriptionSet, SocketOpens,
     SocketOpensTooLate, Fail, Connected, Controls
<1>4. ASSUME patient
      PROVE  /\ liveMedia' \subseteq {media'} /\ liveSockets' \subseteq {socket'}
             /\ secrets' # 0 => secrets' = sessionId'
             /\ muted' => hearing' = {}
             /\ panel' = "error" => liveMedia' = {} /\ liveSockets' = {} /\ startable'
  <2>1. CASE SecretFails(k) \/ RefusalShown(k)
    <3>1. liveMedia = {} /\ liveSockets = {}
      BY <1>2, <1>4, <2>1, AttemptsPositive
         DEF SecretFails, RefusalShown, IInv, TypeOK, Unopened
    <3>2. UNCHANGED <<sessionId, resources>> /\ startable'
      BY <2>1 DEF SecretFails, RefusalShown, Fail, Controls
    <3> QED BY <1>2, <1>4, <3>1, <3>2 DEF resources
  <2>2. CASE OpenAIFails(k)
    <3>1. Reset /\ startable'
      BY <1>2, <1>4, <2>2 DEF OpenAIFails, Fail, Controls
    <3> QED BY <1>2, <1>4, <3>1, ResetReleases DEF Reset
  <2>3. CASE SocketFails(k) \/ SocketOpensTooLate(k)
    <3>1. phase[k] = "socket" /\ liveSockets' = liveSockets \ {k} /\ startable'
          /\ UNCHANGED <<sessionId, secrets, media, socket, muted, liveMedia, hearing>>
      BY <2>3 DEF SocketFails, SocketOpensTooLate, Controls
    <3>2. liveMedia = {} /\ liveSockets' = {}
      BY <1>2, <1>4, <3>1, AttemptsPositive DEF IInv, TypeOK, Unopened
    <3> QED BY <1>2, <1>4, <3>1, <3>2
  <2>4. CASE RemoteDescriptionSet(k) \/ SocketOpens(k)
    BY <1>2, <1>4, <2>4 DEF RemoteDescriptionSet, SocketOpens, Connected, Controls, resources
  <2> QED BY <2>1, <2>2, <2>3, <2>4
<1> QED BY <1>1, <1>3, <1>4, Ends

\* Each step of the page preserves the invariant.
LEMMA PageStep == IInv /\ [Next]_vars => IInv'
<1> SUFFICES ASSUME IInv, [Next]_vars PROVE IInv'
  OBVIOUS
<1>1. TypeOK'
  BY TypesStep DEF IInv
<1>2. CASE UNCHANGED vars
  BY <1>1, <1>2 DEF vars, controls, resources, IInv, NeverStuckStarting, Orderly, OneAttempt,
     FailedStartIsClean, MuteSilencesEveryTrack, InFlight
<1>3. CASE Next
  BY <1>1, <1>3, AfterStart, AfterStop, AfterToggleMute, AfterTransport, AfterSecret,
     AfterMicrophone, AfterDescription, AfterEnd DEF Next, Settle
<1> QED BY <1>2, <1>3

\* So it holds in every state of the page.
LEMMA PageInvariant == Spec => []IInv
BY PageInit, PageStep, PTL DEF Spec

\* The page's state and its attempts keep their types.
THEOREM PageTypes == Spec => []TypeOK
BY PageInvariant, PTL DEF IInv

\* Whatever the user clicks, and in whatever order the attempts that wait for the
\* network, the microphone or the provider settle, nobody finds Start disabled and
\* the page in "starting" with nothing under way.
THEOREM PageNeverStuckStarting == Spec => []NeverStuckStarting
BY PageInvariant, PTL DEF IInv

\* Unless Stop is pressed during an attempt, every open microphone, peer connection
\* and socket is one that `state` refers to, so that resetRealtimeResources closes it.
THEOREM PageNothingLeaks == Spec => []NothingLeaks
<1>1. IInv => NothingLeaks
  BY DEF IInv, Orderly, NothingLeaks
<1> QED BY <1>1, PageInvariant, PTL

\* A start that failed at whatever await of startSession or connectOpenAIRealtime
\* has released everything and can be repeated.
THEOREM PageFailedStartIsClean == Spec => []FailedStartIsClean
BY PageInvariant, PTL DEF IInv

\* The tool-call token and the client secret are those of the session id that the
\* page sends with its events.
THEOREM PageCredentialsMatchSession == Spec => []CredentialsMatchSession
<1>1. IInv => CredentialsMatchSession
  BY DEF IInv, Orderly, CredentialsMatchSession
<1> QED BY <1>1, PageInvariant, PTL

\* A session shown as muted has no enabled microphone track.
THEOREM PageMuteSilencesEveryTrack == Spec => []MuteSilencesEveryTrack
BY PageInvariant, PTL DEF IInv
====
