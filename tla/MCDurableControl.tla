--------------------------- MODULE MCDurableControl ---------------------------
(* Small sets of keys and requests for TLC.                                *)
EXTENDS DurableControl, TLC

CONSTANTS k1, k2

TwoKeys == {k1, k2}

Symmetry == Permutations(TwoKeys)
=============================================================================
