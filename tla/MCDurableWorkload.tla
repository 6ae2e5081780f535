-------------------------- MODULE MCDurableWorkload --------------------------
(* Small instances of DurableWorkload for TLC.                             *)
EXTENDS DurableWorkload, TLC

CONSTANTS u1, u2, w1, w2

MCRetryable == {"executor_transient"}

OnePure == [u \in {u1} |-> "pure"]
OneReconcilable == [u \in {u1} |-> "reconcilable"]
PureAndManual == u1 :> "pure" @@ u2 :> "manual_only"

WorkerSymmetry == Permutations({w1, w2})
=============================================================================
