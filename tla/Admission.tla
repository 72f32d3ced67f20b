----------------------------- MODULE Admission -----------------------------
(***************************************************************************)
(* What the admission queue of core/task_manager/base_task_manager.py      *)
(* promises its callers: at most Slots of them hold an execution slot, at  *)
(* most Slots + Queue are in the system, a slot is taken only by a caller  *)
(* that was let in, and each caller returns what it took exactly once.     *)
(* Queue = 0 is the legacy mode: no system gate, nobody queues inside.     *)
(***************************************************************************)
EXTENDS Integers, FiniteSets

CONSTANTS
  Calls,   \* calls of create_task
  Slots,   \* max_concurrent_tasks
  Queue    \* max_queued_tasks

VARIABLE state   \* where each call stands

Held   == {c \in Calls : state[c] = "held"}
Inside == {c \in Calls : state[c] \in {"queued", "held"}}

Init == state = [c \in Calls |-> "outside"]

Move(c, from, to) ==
  /\ state[c] \in from
  /\ state' = [state EXCEPT ![c] = to]

(* The system gate lets c in. *)
Enter(c) ==
  /\ Queue > 0
  /\ Cardinality(Inside) < Slots + Queue
  /\ Move(c, {"outside"}, "queued")

(* c takes an execution slot. *)
Take(c) ==
  /\ Cardinality(Held) < Slots
  /\ Move(c, IF Queue > 0 THEN {"queued"} ELSE {"outside"}, "held")

(* c is turned away, before or after the gate. *)
TurnAway(c) == Move(c, {"outside", "queued"}, "gone")

(* The slot of c comes back. *)
Return(c) == Move(c, {"held"}, "gone")

Next == \E c \in Calls : Enter(c) \/ Take(c) \/ TurnAway(c) \/ Return(c)

Spec == Init /\ [][Next]_state
=============================================================================
