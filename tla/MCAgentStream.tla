---------------------------- MODULE MCAgentStream ----------------------------
(* Two members, siblings or one delegated to by the other. *)
EXTENDS AgentStream

CONSTANTS m1, m2

TwoMembers == {m1, m2}
=============================================================================
