---- MODULE Provisioning ----
(***************************************************************************)
(* From a process environment to a session: POST /v1/realtime/client-secret*)
(* behind the gate of module RateGate, with the providers that mint the    *)
(* credential (realtime/providers.py, realtime/dashscope.py), and the      *)
(* preflight that is meant to say beforehand whether it can work, GET      *)
(* /v1/realtime/dev-diagnostics (realtime/diagnostics.py, polled by        *)
(* scripts/diagnose_realtime_dev.py).                                      *)
(*                                                                         *)
(* Both read the same environment variables, each with parsing of its own; *)
(* nothing ties the two together.  The environment is fixed for the life   *)
(* of a process, so it is chosen in the initial state; what a process      *)
(* keeps here is lost with it, so one life is all there is to see.  A      *)
(* request goes through                                                    *)
(*   none [-> gate] -> provide -> store -> none                            *)
(* and RateGate's actions are its steps at the gate.                       *)
(***************************************************************************)
EXTENDS RateGate, FiniteSets

CONSTANT Environments  \* the settings a process may be started with

Providers == {"mock", "openai_realtime", "dashscope_realtime"}
Values == {"unset", "empty", "blank", "set"}  \* "blank" is white space only

\* The provider the process names; the API key and the model variable of that
\* provider; the optional variables whose value does not parse.
Settings ==
  [provider : Providers \cup {"unknown"}, key : Values, model : Values,
   malformed : SUBSET {"transcript_logging", "client_secret_rate_limit"}]

ASSUME EnvironmentsAssumption ==
  Environments \subseteq Settings /\ IsFiniteSet(Workers)

VARIABLES
  settings,  \* os.environ
  stage,     \* how far each worker's client-secret request is
  sessions,  \* history: sessions stored for requests of each host
  refusals,  \* history: why requests were refused, in one word
  told       \* history: the overall statuses the diagnostics have reported

provisioning == <<settings, stage, sessions, refusals, told>>
allVars == <<vars, provisioning>>

Real == settings.provider \in {"openai_realtime", "dashscope_realtime"}

-----------------------------------------------------------------------------
(* Diagnostics: build_realtime_dev_diagnostics *)

FailedChecks_NoDevGate ==  \* mutant: the OpenAI branch forgets the gate
  CASE settings.provider = "unknown" -> {"provider_supported"}
    [] settings.provider = "openai_realtime" ->
         {c \in {"openai_api_key"} : settings.key \in {"unset", "empty"}}
    [] settings.provider = "dashscope_realtime" ->
         {c \in {"dashscope_api_key"} : settings.key \in {"unset", "empty"}}
    [] OTHER -> {}

\* The checks that fail.  A key counts as configured when it is not the empty
\* string; models, voices and base URLs pass with any value, an empty one being
\* read as the default; no check of the DashScope branch looks at the gate.
FailedChecks ==
  CASE settings.provider = "unknown" -> {"provider_supported"}
    [] settings.provider = "openai_realtime" ->
         {c \in {"openai_dev_gate"} : ~endpoints}
           \cup {c \in {"openai_api_key"} : settings.key \in {"unset", "empty"}}
    [] settings.provider = "dashscope_realtime" ->
         {c \in {"dashscope_api_key"} : settings.key \in {"unset", "empty"}}
    [] OTHER -> {}

OverallStatus_Ok ==  \* mutant: the status of the health endpoint
  IF FailedChecks # {} THEN "fail" ELSE IF settings.malformed # {} THEN "warn" ELSE "ok"

\* _overall_status; the optional variables only warn.
OverallStatus ==
  IF FailedChecks # {} THEN "fail" ELSE IF settings.malformed # {} THEN "warn" ELSE "pass"

\* A caller that passes the origin check is told the status, whatever the gate
\* variable says.  The script exits with 1 if it is "fail".
Diagnose ==
  /\ told' = told \cup {OverallStatus}
  /\ UNCHANGED <<vars, settings, stage, sessions, refusals>>

-----------------------------------------------------------------------------
(* POST /v1/realtime/client-secret *)

AtStage(w, s) == stage[w] = s
GoTo(w, s) == stage' = [stage EXCEPT ![w] = s]
RefuseBecause(w, why) == GoTo(w, "none") /\ refusals' = refusals \cup {why}

\* _current_realtime_provider_name does not know the name (500).
UnknownProvider(w) ==
  /\ AtStage(w, "none") /\ settings.provider = "unknown"
  /\ RefuseBecause(w, "provider")
  /\ UNCHANGED <<vars, settings, sessions, told>>

\* The mock provider is not gated; MaxAdmitted bounds its sessions too.
AskMock(w) ==
  /\ AtStage(w, "none") /\ settings.provider = "mock"
  /\ sessions[host[w]] < MaxAdmitted
  /\ GoTo(w, "provide")
  /\ UNCHANGED <<vars, settings, sessions, refusals, told>>

\* The gate's refusals that are not counted (403): first the variable, then the
\* caller's origin or host.
Forbid(w) ==
  /\ AtStage(w, "none") /\ Real
  /\ \/ ~endpoints /\ RefuseBecause(w, "endpoints")
     \/ endpoints /\ AllowedHosts # Hosts /\ RefuseBecause(w, "origin")
  /\ UNCHANGED <<vars, settings, sessions, told>>

EnterGate(w) ==
  /\ AtStage(w, "none") /\ Real
  /\ ReadCount(w)
  /\ GoTo(w, "gate")
  /\ UNCHANGED <<settings, sessions, refusals, told>>

RefusedByGate(w) ==
  /\ AtStage(w, "gate")
  /\ Refuse(w)
  /\ RefuseBecause(w, "limit")
  /\ UNCHANGED <<settings, sessions, told>>

PassGate_Uncounted(w) ==  \* mutant: the count is written after the provider has answered
  /\ AtStage(w, "gate")
  /\ pc[w] = "check" /\ current_count[w] < Limit
  /\ pc' = [pc EXCEPT ![w] = "idle"]
  /\ GoTo(w, "provide")
  /\ UNCHANGED <<counters, endpoints, host, current_count, admitted, refused>>
  /\ UNCHANGED <<settings, sessions, refusals, told>>

PassGate(w) ==
  /\ AtStage(w, "gate")
  /\ Admit(w)
  /\ GoTo(w, "provide")
  /\ UNCHANGED <<settings, sessions, refusals, told>>

\* DashScopeRealtimeConfig.from_env strips both: a model that is set to nothing
\* raises a ValueError, which no handler catches, and a key of blanks is none.
DashScopeModelMissing == settings.model \in {"empty", "blank"}
DashScopeKeyMissing == settings.key # "set"

\* What OpenAIRealtimeProvider refuses before it sends anything.
OpenAIKeyMissing == settings.key \in {"unset", "empty"}

\* Why create_client_secret, or the building of the provider before it, may fail.
\* "upstream" is OpenAI's answer to the POST: an HTTP error, no answer in time, a
\* body that is no JSON object, has no value, or an expiry that is neither text
\* nor number.  The mock has nothing to fail with, and DashScope sends nothing.
Faults ==
  CASE settings.provider = "openai_realtime" ->
         IF OpenAIKeyMissing THEN {"key"} ELSE {"upstream"}
    [] settings.provider = "dashscope_realtime" ->
         IF DashScopeModelMissing THEN {"model"} ELSE {why \in {"key"} : DashScopeKeyMissing}
    [] OTHER -> {}

NotProvided_Refunds(w) ==  \* mutant: the allowance is given back
  /\ AtStage(w, "provide")
  /\ \E why \in Faults : RefuseBecause(w, why)
  /\ counters' = [counters EXCEPT ![host[w]] = @ - 1]
  /\ UNCHANGED <<endpoints, pc, host, current_count, admitted, refused>>
  /\ UNCHANGED <<settings, sessions, told>>

\* The handler answers 500 or 503, or raises; the allowance is spent.
NotProvided(w) ==
  /\ AtStage(w, "provide")
  /\ \E why \in Faults : RefuseBecause(w, why)
  /\ UNCHANGED <<vars, settings, sessions, told>>

\* The provider answers: the mock at once, OpenAI with a credential for the
\* browser, DashScope with the address of the local proxy.
Provided(w) ==
  /\ AtStage(w, "provide")
  /\ Faults \subseteq {"upstream"}
  /\ GoTo(w, "store")
  /\ UNCHANGED <<vars, settings, sessions, refusals, told>>

\* create_session and the session_created line (steps of their own in module
\* RealtimeApi); the client has its credential.
StoreSession(w) ==
  /\ AtStage(w, "store")
  /\ sessions' = [sessions EXCEPT ![host[w]] = @ + 1]
  /\ GoTo(w, "none")
  /\ UNCHANGED <<vars, settings, refusals, told>>

-----------------------------------------------------------------------------

ProvisioningInit ==
  /\ Init
  /\ settings \in Environments
  /\ stage = [w \in Workers |-> "none"]
  /\ sessions = [h \in Hosts |-> 0]
  /\ refusals = {} /\ told = {}

ClientSecret(w) ==
  \/ UnknownProvider(w) \/ AskMock(w) \/ Forbid(w)
  \/ EnterGate(w) \/ RefusedByGate(w) \/ PassGate(w)
  \/ NotProvided(w) \/ Provided(w) \/ StoreSession(w)

ProvisioningNext == Diagnose \/ \E w \in Workers : ClientSecret(w)

ProvisioningSpec == ProvisioningInit /\ [][ProvisioningNext]_allVars

-----------------------------------------------------------------------------
(* Properties *)

\* Seen from the gate, the whole endpoint, with its refusals before and its
\* failures after, is the gate of module RateGate and nothing else touches the
\* counts: what RateGate promises holds of the endpoint.
ImplementsGate == Spec

\* Settings, stages and history have their types, and so has the gate.
RequestTypes ==
  /\ settings \in Settings
  /\ stage \in [Workers -> {"none", "gate", "provide", "store"}]
  /\ sessions \in [Hosts -> Nat]
  /\ refusals \subseteq {"provider", "endpoints", "origin", "limit", "model", "key", "upstream"}
  /\ told \subseteq {"pass", "warn", "fail"}

ProvisioningTypeOK == TypeOK /\ RequestTypes

\* The diagnostics are never too strict: in a process they have called failing
\* no session is ever made (diagnostics.py: "The app will reject real provider
\* client-secret requests").
FailMeansNoSession ==
  "fail" \in told => \A h \in Hosts : sessions[h] = 0

\* Reasons to refuse that lie in the environment and in nothing else.
ByConfiguration == {"provider", "endpoints", "model", "key"}

\* What the DashScope checks let through and the endpoint does not.
DashScopeGap ==
  /\ settings.provider = "dashscope_realtime"
  /\ ~endpoints \/ settings.key = "blank" \/ settings.model \in {"empty", "blank"}

\* They are too lax for DashScope only, and there in three ways: whenever the
\* endpoint refuses a request because of the environment, the diagnostics have
\* said nothing but "fail" - or the provider is DashScope with the gate off, a
\* blank key or a model set to nothing.
RefusalIsDiagnosed ==
  refusals \cap ByConfiguration # {} => told \subseteq {"fail"} \/ DashScopeGap

\* The preflight and the endpoint, which parse the same variables each in its own
\* way, agree as far as that.
DiagnosticsAgree == FailMeansNoSession /\ RefusalIsDiagnosed

InFlight(h) == {w \in Workers : host[w] = h /\ stage[w] \in {"provide", "store"}}

\* A real provider's sessions and the requests on their way to one are paid for:
\* together they are never more than the requests of the host that were admitted,
\* whatever fails in between.
SessionsArePaidFor ==
  Real => \A h \in Hosts : sessions[h] + Cardinality(InFlight(h)) <= admitted[h]
====
