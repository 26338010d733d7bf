---- MODULE MCProvisioning ----
(* Provisioning on small sets of model values. *)
EXTENDS Provisioning, TLC

WorkerSymmetry == Permutations(Workers)

\* Every provider with every kind of key and model, and the malformed optional
\* variables with an otherwise good environment.
EveryEnvironment ==
  {e \in Settings : \/ e.malformed = {} /\ (e.provider \in {"mock", "unknown"} => e.key = "unset" /\ e.model = "unset")
                    \/ e.key = "set" /\ e.model = "unset"}
====
