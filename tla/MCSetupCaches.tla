--------------------------- MODULE MCSetupCaches ---------------------------
(* An instance of SetupCaches for TLC: a setup of a tool and a service that  *)
(* is still to be created.                                                   *)
EXTENDS SetupCaches

CONSTANTS s1, s2, m1, m2, p1, p2, a1

ModuleBehind == [s \in Setups |-> IF s = s2 THEN m2 ELSE m1]
TypeOfModule == [m \in Modules |-> IF m = m2 THEN "service" ELSE "tool"]
OnlyTool == {s1}
AgentProcess == [a \in Calls |-> p1]
=============================================================================
