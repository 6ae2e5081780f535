--------------------------- MODULE MCHttpTurnPool ---------------------------
(* Three requests of one principal and one of another.                     *)
EXTENDS HttpTurnPool

CONSTANTS t1, t2, t3, t4, alice, bob

FourTurns == {t1, t2, t3, t4}
TwoPrincipals == {alice, bob}
ThreeAndOne == [t \in FourTurns |-> IF t = t4 THEN bob ELSE alice]
=============================================================================
