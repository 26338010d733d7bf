---- MODULE ProvisioningProofs ----
(***************************************************************************)
(* Proofs about the gate of RateGate, for any number of workers and hosts  *)
(* and any limit, and about Provisioning, which goes through it, for every *)
(* environment: the endpoint implements the gate, and what the diagnostics *)
(* say of it.                                                              *)
(***************************************************************************)
EXTENDS Provisioning, FiniteSetTheorems, TLAPS

-----------------------------------------------------------------------------
(* The gate *)

\* What a worker has read is never more than the requests admitted by now: the
\* count was no more than that when it was read, and admissions only go up.
ReadIsABound ==
  \A w \in Workers : pc[w] = "check" => current_count[w] <= admitted[host[w]]

IInv == TypeOK /\ CountIsABound /\ ReadIsABound /\ RefusedOnlyAtTheLimit

\* The strengthened invariant holds in a fresh server.
LEMMA InitIInv == Init => IInv
BY LimitAssumption
   DEF Init, IInv, TypeOK, CountIsABound, ReadIsABound, RefusedOnlyAtTheLimit

\* Each step of _enforce_realtime_client_secret_gate preserves it.
LEMMA StepIInv == IInv /\ [Next]_vars => IInv'
<1> SUFFICES ASSUME IInv, [Next]_vars PROVE IInv'
  OBVIOUS
<1> USE LimitAssumption DEF IInv
<1>1. ASSUME NEW w \in Workers, ReadCount(w) PROVE IInv'
  <2>1. TypeOK'
    BY <1>1 DEF ReadCount, TypeOK
  <2>2. ReadIsABound'
    BY <1>1 DEF ReadCount, TypeOK, ReadIsABound, CountIsABound
  <2> QED BY <1>1, <2>1, <2>2 DEF ReadCount, CountIsABound, RefusedOnlyAtTheLimit
<1>2. ASSUME NEW w \in Workers, Refuse(w) PROVE IInv'
  <2>1. TypeOK'
    BY <1>2 DEF Refuse, TypeOK
  <2>2. ReadIsABound'
    BY <1>2 DEF Refuse, TypeOK, ReadIsABound
  <2>3. Limit <= admitted[host[w]]
    BY <1>2 DEF Refuse, TypeOK, ReadIsABound
  <2> QED BY <1>2, <2>1, <2>2, <2>3 DEF Refuse, CountIsABound, RefusedOnlyAtTheLimit
<1>3. ASSUME NEW w \in Workers, Admit(w) PROVE IInv'
  <2>1. TypeOK'
    BY <1>3 DEF Admit, TypeOK
  <2>2. \A h \in Hosts : admitted[h] <= admitted'[h]
    BY <1>3 DEF Admit, TypeOK
  <2>3. CountIsABound'
    BY <1>3, <2>2 DEF Admit, TypeOK, CountIsABound, ReadIsABound
  <2>4. ReadIsABound'
    BY <1>3, <2>1, <2>2 DEF Admit, TypeOK, ReadIsABound
  <2>5. RefusedOnlyAtTheLimit'
    BY <1>3, <2>1, <2>2 DEF Admit, TypeOK, RefusedOnlyAtTheLimit
  <2> QED BY <2>1, <2>3, <2>4, <2>5
<1>4. CASE UNCHANGED vars
  BY <1>4 DEF vars, TypeOK, CountIsABound, ReadIsABound, RefusedOnlyAtTheLimit
<1> QED BY <1>1, <1>2, <1>3, <1>4 DEF Next

\* So it holds in every state of the gate.
LEMMA SpecIInv == Spec => []IInv
BY InitIInv, StepIInv, PTL DEF Spec

\* The gate keeps its types.
THEOREM GateTypes == Spec => []TypeOK
BY SpecIInv, PTL DEF IInv

\* _enforce_real_provider_dev_gate reads, compares and writes the count without
\* a lock; however its steps interleave, a host's count stays within the limit
\* and never exceeds the requests that were really admitted.
THEOREM GateCountIsABound == Spec => []CountIsABound
BY SpecIInv, PTL DEF IInv

\* However the steps interleave, nobody is refused before the full allowance.
THEOREM GateRefusesOnlyAtTheLimit == Spec => []RefusedOnlyAtTheLimit
BY SpecIInv, PTL DEF IInv

-----------------------------------------------------------------------------
(* The endpoint goes through the gate *)

\* The endpoint starts as the gate starts, and each of its steps is one of the
\* gate or leaves the gate alone.
LEMMA InitImplements == ProvisioningInit => Init
BY DEF ProvisioningInit

LEMMA StepImplements == [ProvisioningNext]_allVars => [Next]_vars
<1> SUFFICES ASSUME [ProvisioningNext]_allVars PROVE [Next]_vars
  OBVIOUS
<1>1. CASE Diagnose
  BY <1>1 DEF Diagnose
<1>2. ASSUME NEW w \in Workers, ClientSecret(w) PROVE [Next]_vars
  <2>1. ReadCount(w) \/ Refuse(w) \/ Admit(w) \/ UNCHANGED vars
    BY <1>2 DEF ClientSecret, UnknownProvider, AskMock, Forbid, EnterGate, RefusedByGate,
                PassGate, NotProvided, Provided, StoreSession
  <2> QED BY <2>1 DEF Next
<1>3. CASE UNCHANGED allVars
  BY <1>3 DEF allVars
<1> QED BY <1>1, <1>2, <1>3 DEF ProvisioningNext

\* POST /v1/realtime/client-secret as a whole, with every refusal before the gate
\* and every failure after it, implements the gate's specification.
THEOREM EndpointImplementsGate == ProvisioningSpec => ImplementsGate
BY InitImplements, StepImplements, PTL DEF ProvisioningSpec, ImplementsGate, Spec

-----------------------------------------------------------------------------

\* Only the counts, pc, host, current_count, admitted and refused of a worker
\* move: the variable that opens the endpoints does not.
LEMMA StepEndpoints == [ProvisioningNext]_allVars => endpoints' = endpoints /\ settings' = settings
<1> SUFFICES ASSUME [ProvisioningNext]_allVars
             PROVE  endpoints' = endpoints /\ settings' = settings
  OBVIOUS
<1>1. settings' = settings
  BY DEF ProvisioningNext, ClientSecret, Diagnose, UnknownProvider, AskMock, Forbid,
         EnterGate, RefusedByGate, PassGate, NotProvided, Provided, StoreSession,
         allVars, provisioning
<1>2. [Next]_vars
  BY StepImplements
<1>3. endpoints' = endpoints
  BY <1>2 DEF Next, ReadCount, Refuse, Admit, vars
<1> QED BY <1>1, <1>3

\* The gate's own variables keep the types GateTypes gives them, here as one half
\* of the endpoint's invariant.
HostsOK == host \in [Workers -> Hosts] /\ admitted \in [Hosts -> Nat]

\* A request gets past the provider only in an environment that works, and a
\* refusal for the environment names a fault the environment has.
StagesAgree ==
  /\ \A w \in Workers :
       /\ stage[w] = "store" => FailedChecks = {}
       /\ stage[w] # "none" => settings.provider # "unknown"
       /\ (Real /\ stage[w] # "none") => endpoints
  /\ "provider" \in refusals => settings.provider = "unknown"
  /\ "endpoints" \in refusals => Real /\ ~endpoints
  /\ "model" \in refusals => settings.provider = "dashscope_realtime" /\ DashScopeModelMissing
  /\ "key" \in refusals =>
       \/ settings.provider = "openai_realtime" /\ OpenAIKeyMissing
       \/ settings.provider = "dashscope_realtime" /\ DashScopeKeyMissing
  /\ told \subseteq {OverallStatus}
  /\ FailedChecks # {} => \A h \in Hosts : sessions[h] = 0

PInv == RequestTypes /\ HostsOK /\ StagesAgree

LEMMA InitPInv == ProvisioningInit => PInv
<1> SUFFICES ASSUME ProvisioningInit PROVE PInv
  OBVIOUS
<1>1. RequestTypes
  BY EnvironmentsAssumption DEF ProvisioningInit, RequestTypes
<1>2. HostsOK
  BY DEF ProvisioningInit, Init, HostsOK
<1>3. StagesAgree
  BY DEF ProvisioningInit, StagesAgree
<1> QED BY <1>1, <1>2, <1>3 DEF PInv

LEMMA StepPInv == PInv /\ [ProvisioningNext]_allVars => PInv'
<1> SUFFICES ASSUME PInv, [ProvisioningNext]_allVars PROVE PInv'
  OBVIOUS
<1> USE DEF PInv
<1>1. endpoints' = endpoints /\ settings' = settings
  BY StepEndpoints
<1>2. OverallStatus' = OverallStatus /\ FailedChecks' = FailedChecks /\ Real' = Real
      /\ DashScopeModelMissing' = DashScopeModelMissing
      /\ DashScopeKeyMissing' = DashScopeKeyMissing /\ OpenAIKeyMissing' = OpenAIKeyMissing
  BY <1>1 DEF OverallStatus, FailedChecks, Real, DashScopeModelMissing, DashScopeKeyMissing,
              OpenAIKeyMissing
<1>3. OverallStatus \in {"pass", "warn", "fail"}
  BY DEF OverallStatus
<1>4. HostsOK'
  <2>1. [Next]_vars
    BY StepImplements
  <2> QED BY <2>1, LimitAssumption DEF Next, ReadCount, Refuse, Admit, vars, HostsOK
<1>5. CASE Diagnose
  <2>1. RequestTypes'
    BY <1>3, <1>5 DEF Diagnose, RequestTypes
  <2>2. StagesAgree'
    BY <1>1, <1>2, <1>5 DEF Diagnose, StagesAgree
  <2> QED BY <1>4, <2>1, <2>2
<1>6. ASSUME NEW w \in Workers, ClientSecret(w) PROVE RequestTypes' /\ StagesAgree'
  <2> USE DEF RequestTypes, AtStage, GoTo, RefuseBecause
  <2>1. CASE UnknownProvider(w)
    <3>1. RequestTypes'
      BY <2>1 DEF UnknownProvider
    <3>2. StagesAgree'
      BY <1>1, <1>2, <2>1 DEF UnknownProvider, StagesAgree, Real
    <3> QED BY <3>1, <3>2
  <2>2. CASE AskMock(w)
    <3>1. RequestTypes'
      BY <2>2 DEF AskMock
    <3>2. StagesAgree'
      BY <1>1, <1>2, <2>2 DEF AskMock, StagesAgree, Real
    <3> QED BY <3>1, <3>2
  <2>3. CASE Forbid(w)
    <3>1. RequestTypes'
      BY <2>3 DEF Forbid
    <3>2. StagesAgree'
      BY <1>1, <1>2, <2>3 DEF Forbid, StagesAgree
    <3> QED BY <3>1, <3>2
  <2>4. CASE EnterGate(w)
    <3>1. RequestTypes'
      BY <2>4 DEF EnterGate
    <3>2. StagesAgree'
      BY <1>1, <1>2, <2>4 DEF EnterGate, ReadCount, StagesAgree, Real
    <3> QED BY <3>1, <3>2
  <2>5. CASE RefusedByGate(w)
    <3>1. RequestTypes'
      BY <2>5 DEF RefusedByGate
    <3>2. StagesAgree'
      BY <1>1, <1>2, <2>5 DEF RefusedByGate, StagesAgree
    <3> QED BY <3>1, <3>2
  <2>6. CASE PassGate(w)
    <3>1. RequestTypes'
      BY <2>6 DEF PassGate
    <3>2. StagesAgree'
      BY <1>1, <1>2, <2>6 DEF PassGate, StagesAgree
    <3> QED BY <3>1, <3>2
  <2>7. CASE NotProvided(w)
    <3>1. RequestTypes'
      BY <2>7 DEF NotProvided, Faults
    <3>2. StagesAgree'
      BY <1>1, <1>2, <2>7 DEF NotProvided, StagesAgree, Faults
    <3> QED BY <3>1, <3>2
  <2>8. CASE Provided(w)
    <3>1. RequestTypes'
      BY <2>8 DEF Provided
    <3>2. settings.provider # "unknown"
      BY <2>8 DEF Provided, StagesAgree, Real
    <3>3. FailedChecks = {}
      BY <2>8, <3>2 DEF Provided, StagesAgree, FailedChecks, Faults, Real, Settings, Providers,
         Values, OpenAIKeyMissing, DashScopeKeyMissing
    <3>4. StagesAgree'
      BY <1>1, <1>2, <2>8, <3>3 DEF Provided, StagesAgree
    <3> QED BY <3>1, <3>4
  <2>9. CASE StoreSession(w)
    <3>1. RequestTypes'
      BY <2>9 DEF StoreSession, HostsOK
    <3>2. StagesAgree'
      BY <1>1, <1>2, <2>9 DEF StoreSession, StagesAgree
    <3> QED BY <3>1, <3>2
  <2> QED BY <1>6, <2>1, <2>2, <2>3, <2>4, <2>5, <2>6, <2>7, <2>8, <2>9 DEF ClientSecret
<1>7. CASE UNCHANGED allVars
  <2>1. RequestTypes'
    BY <1>7 DEF allVars, provisioning, RequestTypes
  <2>2. StagesAgree'
    BY <1>1, <1>2, <1>7 DEF allVars, provisioning, StagesAgree
  <2> QED BY <1>4, <2>1, <2>2
<1> QED BY <1>4, <1>5, <1>6, <1>7 DEF ProvisioningNext

LEMMA SpecPInv == ProvisioningSpec => []PInv
BY InitPInv, StepPInv, PTL DEF ProvisioningSpec

\* The endpoint and the diagnostics keep their types; what RateGate says of the
\* gate's own variables holds of the endpoint, which implements it.
THEOREM ProvisioningTypes == ProvisioningSpec => []ProvisioningTypeOK
<1>1. ProvisioningSpec => []TypeOK
  BY EndpointImplementsGate, GateTypes, PTL DEF ImplementsGate
<1>2. ProvisioningSpec => []RequestTypes
  BY SpecPInv, PTL DEF PInv
<1> QED BY <1>1, <1>2, PTL DEF ProvisioningTypeOK

\* In whatever environment the process runs: once the diagnostics have answered
\* "fail", no client-secret request makes a session.
THEOREM DiagnosedFailureIsReal == ProvisioningSpec => []FailMeansNoSession
<1>1. PInv => FailMeansNoSession
  BY DEF PInv, StagesAgree, FailMeansNoSession, OverallStatus
<1> QED BY <1>1, SpecPInv, PTL

\* In whatever environment: a request that is refused because of the environment
\* is one the diagnostics call failing, but for the three gaps of DashScope.
THEOREM ConfigurationRefusalIsDiagnosed == ProvisioningSpec => []RefusalIsDiagnosed
<1>1. PInv => RefusalIsDiagnosed
  <2> SUFFICES ASSUME PInv, refusals \cap ByConfiguration # {}
               PROVE  told \subseteq {"fail"} \/ DashScopeGap
    BY DEF RefusalIsDiagnosed
  <2>1. PICK why \in ByConfiguration : why \in refusals
    OBVIOUS
  <2>2. FailedChecks # {} \/ DashScopeGap
    BY <2>1 DEF PInv, StagesAgree, ByConfiguration, FailedChecks, DashScopeGap, Real,
       DashScopeModelMissing, DashScopeKeyMissing, OpenAIKeyMissing, RequestTypes,
       Settings, Values
  <2>3. CASE FailedChecks # {}
    BY <2>3 DEF PInv, StagesAgree, OverallStatus
  <2> QED BY <2>2, <2>3
<1> QED BY <1>1, SpecPInv, PTL

\* So the preflight and the endpoint agree, in whatever environment.
THEOREM DiagnosticsAgreeWithEndpoint == ProvisioningSpec => []DiagnosticsAgree
BY DiagnosedFailureIsReal, ConfigurationRefusalIsDiagnosed, PTL DEF DiagnosticsAgree

-----------------------------------------------------------------------------
(* Sessions are paid for *)

LEMMA FlightIsFinite == \A h \in Hosts : IsFiniteSet(InFlight(h))
<1> TAKE h \in Hosts
<1>1. InFlight(h) \subseteq Workers
  BY DEF InFlight
<1> QED BY <1>1, EnvironmentsAssumption, FS_Subset

\* The requests in flight for a host only move by the worker that takes a step.
PaidInv == PInv /\ SessionsArePaidFor

LEMMA InitPaid == ProvisioningInit => PaidInv
<1> SUFFICES ASSUME ProvisioningInit, NEW h \in Hosts
             PROVE  sessions[h] + Cardinality(InFlight(h)) <= admitted[h]
  BY InitPInv DEF PaidInv, SessionsArePaidFor
<1>1. InFlight(h) = {}
  BY DEF ProvisioningInit, InFlight
<1>2. Cardinality(InFlight(h)) = 0
  BY <1>1, FS_EmptySet
<1> QED BY <1>2 DEF ProvisioningInit, Init

\* What a step does to one host's account: it leaves the requests in flight as
\* they are, adds one that was admitted, or takes one off for at most a session.
Account(h) ==
  \/ InFlight(h)' = InFlight(h) /\ sessions'[h] = sessions[h] /\ admitted'[h] = admitted[h]
  \/ \E w \in Workers \ InFlight(h) :
       /\ InFlight(h)' = InFlight(h) \cup {w}
       /\ sessions'[h] = sessions[h] /\ admitted'[h] = admitted[h] + 1
  \/ \E w \in InFlight(h) :
       /\ InFlight(h)' = InFlight(h) \ {w}
       /\ sessions'[h] \in {sessions[h], sessions[h] + 1} /\ admitted'[h] = admitted[h]

LEMMA StepAccount ==
  ASSUME PInv, Real, [ProvisioningNext]_allVars, NEW h \in Hosts
  PROVE  Account(h)
<1> USE DEF PInv, RequestTypes, HostsOK, AtStage, GoTo, RefuseBecause
<1>1. CASE Diagnose
  BY <1>1 DEF Diagnose, vars, InFlight, Account
<1>2. ASSUME NEW w \in Workers, ClientSecret(w) PROVE Account(h)
  <2>1. CASE UnknownProvider(w) \/ AskMock(w)
    BY <2>1 DEF UnknownProvider, AskMock, Real
  <2>2. CASE Forbid(w) \/ EnterGate(w) \/ RefusedByGate(w)
    <3>1. InFlight(h)' = InFlight(h)
      BY <2>2 DEF Forbid, EnterGate, RefusedByGate, ReadCount, Refuse, vars, InFlight
    <3>2. sessions'[h] = sessions[h] /\ admitted'[h] = admitted[h]
      BY <2>2 DEF Forbid, EnterGate, RefusedByGate, ReadCount, Refuse, vars
    <3> QED BY <3>1, <3>2 DEF Account
  <2>3. CASE PassGate(w)
    <3>1. sessions' = sessions /\ host' = host /\ stage[w] = "gate"
          /\ stage' = [stage EXCEPT ![w] = "provide"]
          /\ admitted' = [admitted EXCEPT ![host[w]] = @ + 1]
      BY <2>3 DEF PassGate, Admit
    <3>2. CASE host[w] = h
      <4>1. InFlight(h)' = InFlight(h) \cup {w} /\ w \notin InFlight(h)
        BY <3>1, <3>2 DEF InFlight
      <4> QED BY <3>1, <3>2, <4>1 DEF Account
    <3>3. CASE host[w] # h
      <4>1. InFlight(h)' = InFlight(h)
        BY <3>1, <3>3 DEF InFlight
      <4> QED BY <3>1, <3>3, <4>1 DEF Account
    <3> QED BY <3>2, <3>3
  <2>4. CASE NotProvided(w) \/ StoreSession(w)
    <3>1. /\ host' = host /\ admitted' = admitted /\ stage[w] \in {"provide", "store"}
          /\ stage' = [stage EXCEPT ![w] = "none"]
          /\ \/ sessions' = sessions
             \/ sessions' = [sessions EXCEPT ![host[w]] = @ + 1]
      BY <2>4 DEF NotProvided, StoreSession, vars
    <3>2. CASE host[w] = h
      <4>1. InFlight(h)' = InFlight(h) \ {w} /\ w \in InFlight(h)
        BY <3>1, <3>2 DEF InFlight
      <4> QED BY <3>1, <3>2, <4>1 DEF Account
    <3>3. CASE host[w] # h
      <4>1. InFlight(h)' = InFlight(h)
        BY <3>1, <3>3 DEF InFlight
      <4> QED BY <3>1, <3>3, <4>1 DEF Account
    <3> QED BY <3>2, <3>3
  <2>5. CASE Provided(w)
    <3>1. InFlight(h)' = InFlight(h)
      BY <2>5 DEF Provided, vars, InFlight
    <3> QED BY <2>5, <3>1 DEF Provided, vars, Account
  <2> QED BY <1>2, <2>1, <2>2, <2>3, <2>4, <2>5 DEF ClientSecret
<1>3. CASE UNCHANGED allVars
  BY <1>3 DEF allVars, vars, provisioning, InFlight, Account
<1> QED BY <1>1, <1>2, <1>3 DEF ProvisioningNext

LEMMA StepPaid == PaidInv /\ [ProvisioningNext]_allVars => PaidInv'
<1> SUFFICES ASSUME PaidInv, [ProvisioningNext]_allVars PROVE PaidInv'
  OBVIOUS
<1>1. PInv /\ PInv'
  BY StepPInv DEF PaidInv
<1>2. Real' = Real
  BY StepEndpoints DEF Real
<1>3. ASSUME Real, NEW h \in Hosts
      PROVE  (sessions[h] + Cardinality(InFlight(h)) <= admitted[h])'
  <2> DEFINE F == InFlight(h)
             n == Cardinality(F)
  <2>1. IsFiniteSet(F) /\ n \in Nat
    BY FlightIsFinite, FS_CardinalityType
  <2>2. sessions[h] \in Nat /\ admitted[h] \in Nat /\ sessions[h] + n <= admitted[h]
    BY <1>3 DEF PaidInv, PInv, RequestTypes, HostsOK, SessionsArePaidFor
  <2>3. Account(h)
    BY <1>1, <1>3, StepAccount
  <2>4. \A w \in Workers \ F : Cardinality(F \cup {w}) = n + 1
    BY <2>1, FS_AddElement
  <2>5. \A w \in F : Cardinality(F \ {w}) = n - 1
    BY <2>1, FS_RemoveElement
  <2>6. CASE F' = F /\ sessions'[h] = sessions[h] /\ admitted'[h] = admitted[h]
    BY <2>2, <2>6
  <2>7. CASE \E w \in Workers \ F : /\ F' = F \cup {w}
                                    /\ sessions'[h] = sessions[h]
                                    /\ admitted'[h] = admitted[h] + 1
    <3>1. Cardinality(F') = n + 1
      BY <2>4, <2>7
    <3> HIDE DEF F
    <3>2. sessions'[h] + Cardinality(F') <= admitted'[h]
      BY <2>1, <2>2, <2>7, <3>1
    <3> QED BY <3>2 DEF F
  <2>8. CASE \E w \in F : /\ F' = F \ {w}
                          /\ sessions'[h] \in {sessions[h], sessions[h] + 1}
                          /\ admitted'[h] = admitted[h]
    <3>1. Cardinality(F') = n - 1
      BY <2>5, <2>8
    <3> HIDE DEF F
    <3>2. sessions'[h] + Cardinality(F') <= admitted'[h]
      BY <2>1, <2>2, <2>8, <3>1
    <3> QED BY <3>2 DEF F
  <2> QED BY <2>3, <2>6, <2>7, <2>8 DEF Account
<1> QED BY <1>1, <1>2, <1>3 DEF PaidInv, SessionsArePaidFor

\* For any number of threads and hosts: the sessions a real provider has given a
\* host, and the requests that may still become one, never exceed the requests
\* the gate admitted, although the gate's own count may be behind.
THEOREM EverySessionIsPaidFor == ProvisioningSpec => []SessionsArePaidFor
<1>1. ProvisioningSpec => []PaidInv
  BY InitPaid, StepPaid, PTL DEF ProvisioningSpec
<1> QED BY <1>1, PTL DEF PaidInv
====
