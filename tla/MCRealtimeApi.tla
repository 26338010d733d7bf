---- MODULE MCRealtimeApi ----
(* RealtimeApi on small sets of model values. *)
EXTENDS RealtimeApi, TLC

\* Threads of the pool, and the callers' identities, are interchangeable.
WorkerSymmetry == Permutations(Workers) \cup Permutations(Owners)
====
