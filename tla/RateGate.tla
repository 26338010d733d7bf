---- MODULE RateGate ----
(***************************************************************************)
(* The gate in front of POST /v1/realtime/client-secret                    *)
(* (_enforce_real_provider_dev_gate, src/voiceagents/api/app.py): it lets  *)
(* the mock provider through, refuses real providers when the development  *)
(* endpoints are off or the caller is not allowed, and counts the requests *)
(* of a client host against a limit.                                       *)
(*                                                                         *)
(* The handler runs on worker threads and the count is read, compared and  *)
(* written in separate steps without a lock.  The count is a plain dict    *)
(* for the life of the process and never goes back: a request that passes  *)
(* the gate uses up one, whether or not the provider then answers.  The    *)
(* variables are read on every request and are those the process was       *)
(* started with.                                                           *)
(***************************************************************************)
EXTENDS Integers

CONSTANTS
  Workers,       \* threads of the server's pool
  Hosts,         \* client hosts
  AllowedHosts,  \* hosts that pass the origin / client-host check
  Limit,         \* _current_realtime_client_secret_rate_limit(): at least 1
  MaxAdmitted    \* bound: requests admitted per host

ASSUME LimitAssumption ==
  /\ AllowedHosts \subseteq Hosts
  /\ Limit \in Nat \ {0} /\ MaxAdmitted \in Nat

VARIABLES
  counters,   \* app.state.realtime_client_secret_rate_limits, 0 when absent
  endpoints,  \* VOICEAGENTS_ENABLE_REALTIME_DEV_ENDPOINTS is "true"
  pc, host, current_count,  \* each worker's place, client host and local variable
  admitted,   \* history: requests of each host that passed the gate
  refused     \* history: hosts answered 429 at least once

vars == <<counters, endpoints, pc, host, current_count, admitted, refused>>

-----------------------------------------------------------------------------

Init ==
  /\ counters = [h \in Hosts |-> 0]
  /\ endpoints \in BOOLEAN
  /\ pc = [w \in Workers |-> "idle"]
  /\ host \in [Workers -> Hosts]
  /\ current_count = [w \in Workers |-> 0]
  /\ admitted = [h \in Hosts |-> 0]
  /\ refused = {}

\* A request for a real provider passes the checks that do not count, and reads
\* its host's count.  Requests for the mock provider, and those refused with 403,
\* end here without touching the counters.
ReadCount(w) ==
  /\ pc[w] = "idle"
  /\ endpoints
  /\ \E h \in AllowedHosts :
       /\ host' = [host EXCEPT ![w] = h]
       /\ current_count' = [current_count EXCEPT ![w] = counters[h]]
  /\ pc' = [pc EXCEPT ![w] = "check"]
  /\ UNCHANGED <<counters, endpoints, admitted, refused>>

Refuse(w) ==
  /\ pc[w] = "check"
  /\ current_count[w] >= Limit
  /\ refused' = refused \cup {host[w]}
  /\ pc' = [pc EXCEPT ![w] = "idle"]
  /\ UNCHANGED <<counters, endpoints, host, current_count, admitted>>

Admit_OffByOne(w) ==  \* mutant: compares with > instead of >=
  /\ pc[w] = "check"
  /\ current_count[w] <= Limit
  /\ admitted[host[w]] < MaxAdmitted
  /\ counters' = [counters EXCEPT ![host[w]] = current_count[w] + 1]
  /\ admitted' = [admitted EXCEPT ![host[w]] = @ + 1]
  /\ pc' = [pc EXCEPT ![w] = "idle"]
  /\ UNCHANGED <<endpoints, host, current_count, refused>>

\* counters[client_host] = current_count + 1, with the count read before.
Admit(w) ==
  /\ pc[w] = "check"
  /\ current_count[w] < Limit
  /\ admitted[host[w]] < MaxAdmitted
  /\ counters' = [counters EXCEPT ![host[w]] = current_count[w] + 1]
  /\ admitted' = [admitted EXCEPT ![host[w]] = @ + 1]
  /\ pc' = [pc EXCEPT ![w] = "idle"]
  /\ UNCHANGED <<endpoints, host, current_count, refused>>

Next == \E w \in Workers : ReadCount(w) \/ Refuse(w) \/ Admit(w)

Spec == Init /\ [][Next]_vars

-----------------------------------------------------------------------------
(* Properties *)

\* The counters, the workers and the history have their types.
TypeOK ==
  /\ counters \in [Hosts -> Nat]
  /\ endpoints \in BOOLEAN
  /\ pc \in [Workers -> {"idle", "check"}]
  /\ host \in [Workers -> Hosts]
  /\ current_count \in [Workers -> Nat]
  /\ admitted \in [Hosts -> Nat]
  /\ refused \subseteq Hosts

\* However the workers interleave, the count of a host never passes the limit,
\* and never counts more requests than were admitted: lost updates only make it
\* too small.
CountIsABound ==
  \A h \in Hosts : counters[h] <= Limit /\ counters[h] <= admitted[h]

\* A host is told 429 only after it has had its full allowance.
RefusedOnlyAtTheLimit ==
  \A h \in refused : admitted[h] >= Limit
====
