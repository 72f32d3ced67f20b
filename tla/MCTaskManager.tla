--------------------------- MODULE MCTaskManager ---------------------------
(* Instances of TaskManager for TLC. *)
EXTENDS TaskManager, TLC

CONSTANTS c1, c2, c3, i1, i2, i3

(* One task id per call: the gateway's idempotency claim hands every id to *)
(* one create_task.                                                        *)
IdPerCall == (c1 :> i1) @@ (c2 :> i2) @@ (c3 :> i3)
TwoIdPerCall == (c1 :> i1) @@ (c2 :> i2)
(* c1 and c2 ask for the same id. *)
IdShared  == (c1 :> i1) @@ (c2 :> i1) @@ (c3 :> i2)
=============================================================================
