---- MODULE MCDashScopeProxy ----
(* DashScopeProxy on small sets of model values. *)
EXTENDS DashScopeProxy, TLC

\* Threads of the pool, and the callers' identities, are interchangeable.
WorkerSymmetry == Permutations(Workers) \cup Permutations(Owners)

\* The HTTP handlers are explored alone, and next to a connection as far as they
\* touch what it reads: sessions are created and restarts happen, events and tool
\* calls wait.
ProxyUsed == sent # NoMessage \/ relayed # NoEvent \/ \E k \in Sockets : socket[k] # Closed
CreatingOnly == \A w \in Workers : pc[w] \in {"idle", "log_created"}

MCProxySpec == ProxyInit /\ [][ProxyNext /\ (ProxyUsed => CreatingOnly)']_proxyVars
====
