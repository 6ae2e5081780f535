--------------------------- MODULE MCDurableOutbox ---------------------------
(* Small instances of DurableOutbox for TLC.                               *)
EXTENDS DurableOutbox

CONSTANTS n1, n2, s1, s2

=============================================================================
