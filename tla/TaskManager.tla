---------------------------- MODULE TaskManager ----------------------------
(***************************************************************************)
(* Admission, execution and cancellation of module tasks:                  *)
(*   core/task_manager/base_task_manager.py, local_task_manager.py,        *)
(*   task_executor.py, task_session.py, and the dispatch of                *)
(*   redis/redis_signal.py.                                                *)
(*                                                                         *)
(* Everything runs on one asyncio event loop, so a step is the code        *)
(* between two suspension points.  The write lock of a session and         *)
(* _tasks_lock are never held across a suspension, hence never contended.  *)
(***************************************************************************)
EXTENDS Integers, FiniteSets

CONSTANTS
  Calls,          \* calls of create_task; call c also names its TaskSession
  Ids,            \* task ids
  Id,             \* the task id each call asks for
  ConfigJobs,     \* config-setup jobs: a session under a fresh uuid, no slot
  Cancellers,     \* calls of cancel_task / clean_session
  NoOne,          \* absent entry of a dict
  MaxConc,        \* max_concurrent_tasks
  MaxQueued,      \* max_queued_tasks; 0 selects the legacy single semaphore
  MaxSignals,     \* bound on the signals sent from outside (SendSignal)
  DrainYields,    \* asyncio.wait_for suspends even on a set event (Python < 3.12)
  SignalFaults,   \* Redis may be down when cancel_task publishes its signal
  ShutdownCalled  \* whether shutdown() is called

Owners == Calls \cup ConfigJobs            \* TaskSession objects
Keys   == Ids \cup ConfigJobs              \* keys of tasks_sessions
Ops    == Cancellers \cup Keys             \* coroutines of cancel_task and shutdown
Agents == Calls \cup Ops                   \* who may be awaiting session.cleanup()

ASSUME ConstantsOK ==
  /\ IsFiniteSet(Calls) /\ IsFiniteSet(ConfigJobs)
  /\ Id \in [Calls -> Ids]
  /\ Calls \cap (Ids \cup ConfigJobs \cup Cancellers) = {}
  /\ Ids \cap ConfigJobs = {}
  /\ Cancellers \cap (Ids \cup ConfigJobs) = {}
  /\ NoOne \notin Calls \cup Ids \cup ConfigJobs \cup Cancellers
  /\ MaxConc \in Nat \ {0}
  /\ MaxQueued \in Nat
  /\ MaxSignals \in Nat
  /\ DrainYields \in BOOLEAN
  /\ SignalFaults \in BOOLEAN
  /\ ShutdownCalled \in BOOLEAN

VARIABLES
  slot,       \* value of the semaphore _task_slot
  active,     \* _active_slots
  gate,       \* value of the semaphore _system_gate
  waiting,    \* _waiting_count
  pc,         \* where each create_task call stands
  sessions,   \* tasks_sessions
  tasks,      \* tasks
  refs,       \* SharedRedisListener._task_refs / _task_sessions
  run,        \* the asyncio task _run() of each call
  cancelReq,  \* task.cancel() requested, CancelledError not yet delivered
  aborted,    \* the asyncio task ends (or will end) with CancelledError
  sess,       \* fields of each TaskSession
  cleaner,    \* who popped a session and awaits session.cleanup()
  op,         \* cancel_task / clean_session / shutdown coroutines
  sd,         \* progress of shutdown()
  conf,       \* config-setup jobs
  wire,       \* signals published and not yet dispatched
  budget      \* signals the outside may still send

admission == <<slot, active, gate, waiting, pc>>
table     == <<sessions, tasks, cleaner>>
executor  == <<run, cancelReq, aborted, sess, refs>>
control   == <<op, sd, conf>>
signals   == <<wire, budget>>
vars      == <<admission, table, executor, control, signals>>

Actions  == {"cancel", "stop"}
Statuses == {"pending", "running", "completed", "failed", "cancelled"}
Reasons  == {"unknown", "completed", "cancel", "stop", "timeout", "shutdown"}

Init ==
  /\ slot = MaxConc
  /\ active = 0
  /\ gate = MaxConc + MaxQueued
  /\ waiting = 0
  /\ pc = [c \in Calls |-> "idle"]
  /\ sessions = [k \in Keys |-> NoOne]
  /\ tasks = [k \in Keys |-> NoOne]
  /\ refs = [i \in Ids |-> NoOne]
  /\ run = [c \in Calls |-> "none"]
  /\ cancelReq = [c \in Calls |-> FALSE]
  /\ aborted = [c \in Calls |-> FALSE]
  /\ sess = [c \in Calls |-> [status |-> "pending", reason |-> "unknown",
                              pending |-> "", acked |-> "", heard |-> FALSE]]
  /\ cleaner = [x \in Owners |-> NoOne]
  /\ op = [o \in Ops |-> [pc |-> "idle", key |-> NoOne, call |-> NoOne, ok |-> TRUE]]
  /\ sd = "idle"
  /\ conf = [k \in ConfigJobs |-> "new"]
  /\ wire = {}
  /\ budget = MaxSignals

----------------------------------------------------------------------------
(* _cleanup_task(k), up to its await: the session under key k is popped,   *)
(* whoever it belongs to, and agent a awaits its cleanup().                *)
Evict(k, a) ==
  /\ sessions' = [sessions EXCEPT ![k] = NoOne]
  /\ tasks' = [tasks EXCEPT ![k] = NoOne]
  /\ cleaner' = IF sessions[k] = NoOne
                THEN cleaner
                ELSE [cleaner EXCEPT ![sessions[k]] = a]

(* The release of one admission: slot, counter and, in queue mode, gate.   *)
ReturnAdmission ==
  /\ active' = active - 1
  /\ slot' = slot + 1
  /\ gate' = IF MaxQueued > 0 THEN gate + 1 ELSE gate

(* _cleanup_task, its finally: reached when cleanup() returns, raises or   *)
(* is cancelled.                                                           *)
FinishCleanup(a) ==
  \E x \in Owners :
    /\ cleaner[x] = a
    /\ cleaner' = [cleaner EXCEPT ![x] = NoOne]
    /\ conf' = IF x \in ConfigJobs THEN [conf EXCEPT ![x] = "evicted"] ELSE conf
    /\ ReturnAdmission
    /\ UNCHANGED <<waiting, pc, sessions, tasks>>

----------------------------------------------------------------------------
(* create_task                                                             *)

(* Entry: in queue mode wait for the gate, in legacy mode for a slot.      *)
CreateTask(c) ==
  /\ pc[c] = "idle"
  /\ pc' = [pc EXCEPT ![c] = IF MaxQueued > 0 THEN "gate" ELSE "slot"]
  /\ UNCHANGED <<slot, active, gate, waiting, table, executor, control, signals>>

EnterGate(c) ==
  /\ pc[c] = "gate"
  /\ gate > 0
  /\ gate' = gate - 1
  /\ waiting' = waiting + 1
  /\ pc' = [pc EXCEPT ![c] = "slot"]
  /\ UNCHANGED <<slot, active, table, executor, control, signals>>

(* admission_timeout: RuntimeError, nothing was acquired.                  *)
RefuseAtGate(c) ==
  /\ pc[c] = "gate"
  /\ pc' = [pc EXCEPT ![c] = "refused"]
  /\ UNCHANGED <<slot, active, gate, waiting, table, executor, control, signals>>

(* Mutant: the call that gives up keeps its place at the gate. *)
GiveUpSlotKeepsGate(c) ==
  /\ pc[c] = "slot"
  /\ pc' = [pc EXCEPT ![c] = "refused"]
  /\ waiting' = IF MaxQueued > 0 THEN waiting - 1 ELSE waiting
  /\ UNCHANGED <<gate, slot, active, table, executor, control, signals>>

(* queue_slot_timeout, or the caller cancelled while it waits: the gate is *)
(* given back.  In legacy mode task_wait_timeout, nothing to give back.    *)
GiveUpSlot(c) ==
  /\ pc[c] = "slot"
  /\ pc' = [pc EXCEPT ![c] = "refused"]
  /\ IF MaxQueued > 0
     THEN gate' = gate + 1 /\ waiting' = waiting - 1
     ELSE UNCHANGED <<gate, waiting>>
  /\ UNCHANGED <<slot, active, table, executor, control, signals>>

(* Mutant: the task id is not validated. *)
RegisterUnvalidated(c) ==
  /\ pc[c] = "slot"
  /\ slot > 0
  /\ slot' = slot - 1
  /\ active' = active + 1
  /\ waiting' = IF MaxQueued > 0 THEN waiting - 1 ELSE waiting
  /\ pc' = [pc EXCEPT ![c] = "in"]
  /\ sessions' = [sessions EXCEPT ![Id[c]] = c]
  /\ tasks' = [tasks EXCEPT ![Id[c]] = c]
  /\ run' = [run EXCEPT ![c] = "created"]
  /\ UNCHANGED <<gate, cleaner, cancelReq, aborted, refs, sess, control, signals>>

(* A slot is acquired.  No suspension from here to the return of           *)
(* create_task: the session is registered, the asyncio task is created and *)
(* registered with the signal listener, which may be absent or full: the   *)
(* task then runs with signals disabled.                                   *)
Register(c) ==
  /\ pc[c] = "slot"
  /\ slot > 0
  /\ sessions[Id[c]] = NoOne
  /\ slot' = slot - 1
  /\ active' = active + 1
  /\ waiting' = IF MaxQueued > 0 THEN waiting - 1 ELSE waiting
  /\ pc' = [pc EXCEPT ![c] = "in"]
  /\ sessions' = [sessions EXCEPT ![Id[c]] = c]
  /\ tasks' = [tasks EXCEPT ![Id[c]] = c]
  /\ run' = [run EXCEPT ![c] = "created"]
  /\ \/ /\ refs' = [refs EXCEPT ![Id[c]] = c]
        /\ sess' = [sess EXCEPT ![c].heard = TRUE]
     \/ UNCHANGED <<refs, sess>>
  /\ UNCHANGED <<gate, cleaner, cancelReq, aborted, control, signals>>

(* Mutant: the failed call cleans up by id, which evicts the live session. *)
RefuseDuplicateEvicts(c) ==
  /\ pc[c] = "slot"
  /\ slot > 0
  /\ sessions[Id[c]] # NoOne
  /\ waiting' = IF MaxQueued > 0 THEN waiting - 1 ELSE waiting
  /\ gate' = IF MaxQueued > 0 THEN gate + 1 ELSE gate
  /\ pc' = [pc EXCEPT ![c] = "refused"]
  /\ sessions' = [sessions EXCEPT ![Id[c]] = NoOne]
  /\ tasks' = [tasks EXCEPT ![Id[c]] = NoOne]
  /\ UNCHANGED <<slot, active, cleaner, executor, control, signals>>

(* A slot is acquired but the id is taken: _validate_task_creation raises  *)
(* and _release_admission undoes this call's admission only.               *)
RefuseDuplicate(c) ==
  /\ pc[c] = "slot"
  /\ slot > 0
  /\ sessions[Id[c]] # NoOne
  /\ waiting' = IF MaxQueued > 0 THEN waiting - 1 ELSE waiting
  /\ gate' = IF MaxQueued > 0 THEN gate + 1 ELSE gate
  /\ pc' = [pc EXCEPT ![c] = "refused"]
  /\ UNCHANGED <<slot, active, table, executor, control, signals>>

----------------------------------------------------------------------------
(* _run(): the asyncio task of a call                                      *)

(* The task is over; the done callback the listener attached unregisters   *)
(* the id, whoever holds it by then.                                       *)
Over(c) ==
  /\ run' = [run EXCEPT ![c] = "done"]
  /\ refs' = IF sess[c].heard THEN [refs EXCEPT ![Id[c]] = NoOne] ELSE refs

(* on_finalize: _cleanup_task by the task itself.                          *)
Finalize(c) ==
  /\ Evict(Id[c], c)
  /\ IF sessions[Id[c]] = NoOne
     THEN Over(c)
     ELSE run' = [run EXCEPT ![c] = "cleaning"] /\ UNCHANGED refs

(* The finally block of _run up to its first suspension.                   *)
Finally(c) ==
  IF DrainYields
  THEN run' = [run EXCEPT ![c] = "draining"] /\ UNCHANGED <<refs, table>>
  ELSE Finalize(c)

Begin(c) ==
  /\ run[c] = "created"
  /\ ~cancelReq[c]
  /\ run' = [run EXCEPT ![c] = "running"]
  /\ sess' = [sess EXCEPT ![c].status = "running"]
  /\ UNCHANGED <<admission, table, cancelReq, aborted, refs, control, signals>>

(* Cancelled before its first step: the body of _run never executes, so    *)
(* neither does its finally.                                               *)
DropUnstarted(c) ==
  /\ run[c] = "created"
  /\ cancelReq[c]
  /\ Over(c)
  /\ cancelReq' = [cancelReq EXCEPT ![c] = FALSE]
  /\ aborted' = [aborted EXCEPT ![c] = TRUE]
  /\ UNCHANGED <<admission, table, sess, control, signals>>

(* The module's coroutine returns, or raises.                              *)
CoroEnds(c) ==
  /\ run[c] = "running"
  /\ ~cancelReq[c]
  /\ \/ sess' = [sess EXCEPT ![c].status = "completed", ![c].reason = "completed"]
     \/ sess' = [sess EXCEPT ![c].status = "failed"]
  /\ Finally(c)
  /\ UNCHANGED <<admission, cancelReq, aborted, control, signals>>

(* CancelledError comes out of the coroutine: _handle_stop or              *)
(* _handle_cancel up to the await of the acknowledgement.                  *)
CoroCancelled(c) ==
  LET why == IF sess[c].pending = "stop" THEN "stop"
             ELSE IF sess[c].reason = "unknown" THEN "cancel"
             ELSE sess[c].reason
  IN /\ run[c] = "running"
     /\ cancelReq[c]
     /\ cancelReq' = [cancelReq EXCEPT ![c] = FALSE]
     /\ sess' = [sess EXCEPT ![c].pending = "", ![c].status = "cancelled",
                             ![c].reason = why]
     /\ run' = [run EXCEPT ![c] = "acking"]
     /\ UNCHANGED <<admission, table, aborted, refs, control, signals>>

(* The acknowledgement is published, or fails (best effort).               *)
AckReturns(c) ==
  /\ run[c] = "acking"
  /\ ~cancelReq[c]
  /\ \/ sess' = [sess EXCEPT ![c].acked =
                   IF sess[c].reason = "stop" THEN "ack_stop" ELSE "ack_cancel"]
     \/ UNCHANGED sess
  /\ Finally(c)
  /\ UNCHANGED <<admission, cancelReq, aborted, control, signals>>

(* A second cancellation while the acknowledgement is awaited leaves the   *)
(* handler; the finally still runs and the task ends cancelled.            *)
AckInterrupted(c) ==
  /\ run[c] = "acking"
  /\ cancelReq[c]
  /\ cancelReq' = [cancelReq EXCEPT ![c] = FALSE]
  /\ aborted' = [aborted EXCEPT ![c] = TRUE]
  /\ Finally(c)
  /\ UNCHANGED <<admission, sess, control, signals>>

(* wait_for(stream_closed_event) returns: the event was set just before.   *)
(* A cancellation that finds the inner future done is swallowed.           *)
DrainReturns(c) ==
  /\ run[c] = "draining"
  /\ cancelReq' = [cancelReq EXCEPT ![c] = FALSE]
  /\ Finalize(c)
  /\ UNCHANGED <<admission, aborted, sess, control, signals>>

(* CancelledError out of that wait: only TimeoutError is caught, so        *)
(* on_finalize is skipped.                                                 *)
DrainInterrupted(c) ==
  /\ run[c] = "draining"
  /\ cancelReq[c]
  /\ Over(c)
  /\ cancelReq' = [cancelReq EXCEPT ![c] = FALSE]
  /\ aborted' = [aborted EXCEPT ![c] = TRUE]
  /\ UNCHANGED <<admission, table, sess, control, signals>>

CleanupReturns(c) ==
  /\ run[c] = "cleaning"
  /\ FinishCleanup(c)
  /\ Over(c)
  /\ cancelReq' = [cancelReq EXCEPT ![c] = FALSE]
  /\ aborted' = [aborted EXCEPT ![c] = aborted[c] \/ cancelReq[c]]
  /\ UNCHANGED <<sess, op, sd, signals>>

----------------------------------------------------------------------------
(* Signals                                                                 *)

Signal(i, a) == [key |-> i, action |-> a]

(* A SendSignal RPC publishes cancel or stop on signal_ch:{id}.            *)
SendSignal(i, a) ==
  /\ budget > 0
  /\ budget' = budget - 1
  /\ wire' = wire \cup {Signal(i, a)}
  /\ UNCHANGED <<admission, table, executor, control>>

(* Mutant: the first signal unregisters the task. *)
DispatchSignalOnce(m) ==
  /\ m \in wire
  /\ wire' = wire \ {m}
  /\ refs' = [refs EXCEPT ![m.key] = NoOne]
  /\ LET c == refs[m.key]
     IN IF c = NoOne
        THEN UNCHANGED <<sess, cancelReq>>
        ELSE /\ sess' = [sess EXCEPT ![c].pending = m.action]
             /\ cancelReq' = [cancelReq EXCEPT ![c] = TRUE]
  /\ UNCHANGED <<admission, table, run, aborted, control, budget>>

(* dispatch_signal: the side channel is written and the task cancelled,    *)
(* whatever it is doing; skipped for an unknown or finished task.          *)
DispatchSignal(m) ==
  /\ m \in wire
  /\ wire' = wire \ {m}
  /\ LET c == refs[m.key]
     IN IF c = NoOne
        THEN UNCHANGED <<sess, cancelReq>>
        ELSE /\ sess' = [sess EXCEPT ![c].pending = m.action]
             /\ cancelReq' = [cancelReq EXCEPT ![c] = TRUE]
  /\ UNCHANGED <<admission, table, run, aborted, refs, control, budget>>

----------------------------------------------------------------------------
(* cancel_task and clean_session                                           *)

SetOp(o, p) == op' = [op EXCEPT ![o].pc = p]

(* The _cleanup_task(k) of an operation; when there is nothing left under  *)
(* k the operation is over.                                                *)
Leave(o, k, ok) ==
  /\ Evict(k, o)
  /\ op' = [op EXCEPT ![o] = [@ EXCEPT !.pc = IF sessions[k] = NoOne THEN "done"
                                              ELSE "cleaning",
                                       !.key = k, !.ok = ok]]

(* First steps of cancel_task(k): without a task clean up at once, else    *)
(* remember the task and publish a cancel signal.                          *)
BeginCancel(o, k) ==
  /\ IF tasks[k] = NoOne
     THEN Leave(o, k, TRUE)
     ELSE /\ op' = [op EXCEPT ![o] = [pc |-> "signal", key |-> k,
                                      call |-> tasks[k], ok |-> TRUE]]
          /\ UNCHANGED table
  /\ UNCHANGED <<admission, executor, sd, conf, signals>>

CancelTask(o, k) ==
  /\ op[o].pc = "idle"
  /\ BeginCancel(o, k)

(* clean_session: nothing for an unknown id, cancel_task for a live task,  *)
(* _cleanup_task otherwise.                                                *)
CleanSession(o, k) ==
  /\ op[o].pc = "idle"
  /\ sessions[k] # NoOne
  /\ IF tasks[k] # NoOne /\ run[tasks[k]] # "done"
     THEN BeginCancel(o, k)
     ELSE Leave(o, k, TRUE) /\ UNCHANGED <<admission, executor, sd, conf, signals>>

(* The coroutine of shutdown's gather for one running id starts.           *)
StartGathered(i) ==
  /\ op[i].pc = "start"
  /\ BeginCancel(i, i)

PublishCancel(o) ==
  /\ op[o].pc = "signal"
  /\ SetOp(o, "wait")
  /\ wire' = wire \cup {Signal(op[o].key, "cancel")}
  /\ UNCHANGED <<admission, table, executor, sd, conf, budget>>

(* The publish raises: cancel_task returns False, but its finally cleans   *)
(* the session up and releases the slot of a task nobody cancelled.        *)
PublishFails(o) ==
  /\ SignalFaults
  /\ op[o].pc = "signal"
  /\ Leave(o, op[o].key, FALSE)
  /\ UNCHANGED <<admission, executor, sd, conf, signals>>

(* Mutant: at the deadline cancel_task reports success. *)
WaitReturnsAnyway(o) ==
  /\ op[o].pc = "wait"
  /\ Leave(o, op[o].key, TRUE)
  /\ UNCHANGED <<admission, executor, sd, conf, signals>>

(* The awaited task ended in time; if it ended with CancelledError, so     *)
(* does cancel_task, after its finally.                                    *)
WaitReturns(o) ==
  /\ op[o].pc = "wait"
  /\ run[op[o].call] = "done"
  /\ Leave(o, op[o].key, ~aborted[op[o].call])
  /\ UNCHANGED <<admission, executor, sd, conf, signals>>

(* Mutant: at the deadline the task is awaited but not cancelled. *)
WaitTimesOutShielded(o) ==
  /\ op[o].pc = "wait"
  /\ run[op[o].call] # "done"
  /\ SetOp(o, "forced")
  /\ UNCHANGED <<admission, table, executor, sd, conf, signals>>

(* wait_for's deadline: it cancels the task and awaits its end.            *)
WaitTimesOut(o) ==
  /\ op[o].pc = "wait"
  /\ run[op[o].call] # "done"
  /\ SetOp(o, "forced")
  /\ cancelReq' = [cancelReq EXCEPT ![op[o].call] = TRUE]
  /\ UNCHANGED <<admission, table, run, aborted, sess, refs, sd, conf, signals>>

ForcedReturnsOverwrites(o) ==
  LET k == op[o].key
      x == sessions[k]
  IN /\ op[o].pc = "forced"
     /\ run[op[o].call] = "done"
     /\ Leave(o, k, TRUE)
     /\ sess' = IF x \in Calls THEN [sess EXCEPT ![x].reason = "timeout"] ELSE sess
     /\ UNCHANGED <<admission, run, cancelReq, aborted, refs, sd, conf, signals>>

ForcedReturnsNoCleanup(o) ==
  /\ op[o].pc = "forced"
  /\ run[op[o].call] = "done"
  /\ SetOp(o, "done")
  /\ UNCHANGED <<admission, table, executor, sd, conf, signals>>

(* The task cancelled by wait_for is over.  TimeoutError reaches           *)
(* cancel_task only if the task ended with CancelledError; _run normally   *)
(* swallows it and returns.                                                *)
ForcedReturns(o) ==
  LET k == op[o].key
      x == sessions[k]
  IN /\ op[o].pc = "forced"
     /\ run[op[o].call] = "done"
     /\ Leave(o, k, TRUE)
     /\ sess' = IF aborted[op[o].call] /\ x \in Calls /\ sess[x].reason = "unknown"
                THEN [sess EXCEPT ![x].reason = "timeout"]
                ELSE sess
     /\ UNCHANGED <<admission, run, cancelReq, aborted, refs, sd, conf, signals>>

OpCleanupReturns(o) ==
  /\ op[o].pc = "cleaning"
  /\ FinishCleanup(o)
  /\ SetOp(o, "done")
  /\ UNCHANGED <<executor, sd, signals>>

----------------------------------------------------------------------------
(* shutdown()                                                              *)

(* Mutant: sessions already decided are marked too. *)
ShutdownMarksAll ==
  /\ ShutdownCalled
  /\ sd = "idle"
  /\ sd' = "cancelling"
  /\ sess' = [c \in Calls |-> IF sessions[Id[c]] = c
                              THEN [sess[c] EXCEPT !.reason = "shutdown"] ELSE sess[c]]
  /\ op' = [o \in Ops |->
              IF o \in Ids /\ tasks[o] # NoOne /\ run[tasks[o]] # "done"
              THEN [op[o] EXCEPT !.pc = "start"] ELSE op[o]]
  /\ UNCHANGED <<admission, table, run, cancelReq, aborted, refs, conf, signals>>

(* Mark the sessions, snapshot the running tasks, gather cancel_task.      *)
Shutdown ==
  /\ ShutdownCalled
  /\ sd = "idle"
  /\ sd' = "cancelling"
  /\ sess' = [c \in Calls |->
                IF sessions[Id[c]] = c /\ sess[c].reason = "unknown"
                THEN [sess[c] EXCEPT !.reason = "shutdown"] ELSE sess[c]]
  /\ op' = [o \in Ops |->
              IF o \in Ids /\ tasks[o] # NoOne /\ run[tasks[o]] # "done"
              THEN [op[o] EXCEPT !.pc = "start"] ELSE op[o]]
  /\ UNCHANGED <<admission, table, run, cancelReq, aborted, refs, conf, signals>>

Settled == \A k \in Keys : op[k].pc \in {"idle", "done"}

(* The gather returned: _cleanup_task is gathered over what remains, in    *)
(* coroutines of their own that wait for no task.                          *)
StartSweep ==
  /\ sd = "cancelling"
  /\ Settled
  /\ sd' = "sweeping"
  /\ op' = [o \in Ops |-> IF o \in Keys /\ sessions[o] # NoOne
                          THEN [op[o] EXCEPT !.pc = "sweep", !.call = NoOne] ELSE op[o]]
  /\ UNCHANGED <<admission, table, executor, conf, signals>>

Sweep(k) ==
  /\ op[k].pc = "sweep"
  /\ Leave(k, k, TRUE)
  /\ UNCHANGED <<admission, executor, sd, conf, signals>>

ShutdownReturns ==
  /\ sd = "sweeping"
  /\ Settled
  /\ sd' = "done"
  /\ UNCHANGED <<admission, table, executor, op, conf, signals>>

----------------------------------------------------------------------------
(* Config-setup jobs share tasks_sessions but take no admission.           *)

StartConfig(k) ==
  /\ conf[k] = "new"
  /\ conf' = [conf EXCEPT ![k] = "live"]
  /\ sessions' = [sessions EXCEPT ![k] = k]
  /\ UNCHANGED <<admission, tasks, cleaner, executor, op, sd, signals>>

(* The response was produced, timed out or the setup failed: pop only.     *)
EndConfig(k) ==
  /\ sessions[k] = k
  /\ conf' = [conf EXCEPT ![k] = "answered"]
  /\ sessions' = [sessions EXCEPT ![k] = NoOne]
  /\ UNCHANGED <<admission, tasks, cleaner, executor, op, sd, signals>>

----------------------------------------------------------------------------
RunStep(c) ==
  \/ Begin(c) \/ DropUnstarted(c) \/ CoroCancelled(c)
  \/ AckReturns(c) \/ AckInterrupted(c)
  \/ DrainReturns(c) \/ DrainInterrupted(c) \/ CleanupReturns(c)

AdmissionStep(c) ==
  EnterGate(c) \/ RefuseAtGate(c) \/ GiveUpSlot(c) \/ Register(c) \/ RefuseDuplicate(c)

OpStep(o) ==
  \/ PublishCancel(o) \/ PublishFails(o) \/ WaitReturns(o) \/ WaitTimesOut(o)
  \/ ForcedReturns(o) \/ OpCleanupReturns(o)

ShutdownStep ==
  \/ StartSweep \/ ShutdownReturns
  \/ \E i \in Ids : StartGathered(i)
  \/ \E k \in Keys : Sweep(k)

Next ==
  \/ \E c \in Calls : CreateTask(c) \/ AdmissionStep(c) \/ CoroEnds(c) \/ RunStep(c)
  \/ \E i \in Ids, a \in Actions : SendSignal(i, a)
  \/ \E m \in wire : DispatchSignal(m)
  \/ \E o \in Cancellers, k \in Keys : CancelTask(o, k) \/ CleanSession(o, k)
  \/ \E o \in Ops : OpStep(o)
  \/ Shutdown \/ ShutdownStep
  \/ \E k \in ConfigJobs : StartConfig(k) \/ EndConfig(k)

(* The loop keeps scheduling what is runnable, and every wait of           *)
(* create_task and cancel_task has a deadline.  Nothing is assumed of the  *)
(* module (CoroEnds), of the outside, or of the delivery of signals.       *)
Fairness ==
  /\ \A c \in Calls : WF_vars(RunStep(c)) /\ WF_vars(AdmissionStep(c))
  /\ \A o \in Ops : WF_vars(OpStep(o))
  /\ WF_vars(ShutdownStep)

Spec == Init /\ [][Next]_vars /\ Fairness

----------------------------------------------------------------------------
(* Properties                                                              *)

TypeOK ==
  /\ slot \in Int /\ active \in Int /\ gate \in Int /\ waiting \in Int
  /\ pc \in [Calls -> {"idle", "gate", "slot", "in", "refused"}]
  /\ sessions \in [Keys -> Owners \cup {NoOne}]
  /\ tasks \in [Keys -> Calls \cup {NoOne}]
  /\ refs \in [Ids -> Calls \cup {NoOne}]
  /\ run \in [Calls -> {"none", "created", "running", "acking", "draining",
                        "cleaning", "done"}]
  /\ cancelReq \in [Calls -> BOOLEAN]
  /\ aborted \in [Calls -> BOOLEAN]
  /\ sess \in [Calls -> [status : Statuses, reason : Reasons,
                         pending : Actions \cup {""},
                         acked : {"", "ack_cancel", "ack_stop"},
                         heard : BOOLEAN]]
  /\ cleaner \in [Owners -> Agents \cup {NoOne}]
  /\ op \in [Ops -> [pc : {"idle", "start", "signal", "wait", "forced", "sweep",
                           "cleaning", "done"},
                     key : Keys \cup {NoOne}, call : Calls \cup {NoOne}, ok : BOOLEAN]]
  /\ sd \in {"idle", "cancelling", "sweeping", "done"}
  /\ conf \in [ConfigJobs -> {"new", "live", "answered", "evicted"}]
  /\ wire \subseteq [key : Ids, action : Actions]
  /\ budget \in 0 .. MaxSignals

(* The calls whose admission is out: registered, or popped and being       *)
(* cleaned up.                                                             *)
Holders == {c \in Calls : sessions[Id[c]] = c \/ cleaner[c] # NoOne}
Evicted == {k \in ConfigJobs : conf[k] = "evicted"}
Live    == {c \in Calls : run[c] \notin {"none", "done"}}

(* No permit is lost or invented on any path, error paths included: the    *)
(* two semaphores and the two counters of BaseTaskManager always add up.   *)
PermitsConserved ==
  /\ slot + active = MaxConc
  /\ MaxQueued > 0 => gate + waiting + active = MaxConc + MaxQueued

(* _active_slots counts the admissions that are out, and _waiting_count    *)
(* the calls between gate and slot.  _cleanup_task on a config-setup       *)
(* session returns an admission nobody took, hence the correction.         *)
CountersExact ==
  /\ active = Cardinality(Holders) - Cardinality(Evicted)
  /\ MaxQueued > 0 => waiting = Cardinality({c \in Calls : pc[c] = "slot"})

(* Where the slots are: none is lost on any path, and the counters tell it.*)
SlotsAccounted == PermitsConserved /\ CountersExact

(* No more tasks execute than there are execution slots.                   *)
BoundedConcurrency == Cardinality(Live) <= MaxConc

(* Two modules never execute under one task id: a duplicate create_task    *)
(* is refused until the module of the first is over.                       *)
Executing == {c \in Calls : run[c] \in {"created", "running", "acking", "draining"}}
OneRunPerId == \A c, d \in Executing : Id[c] = Id[d] => c = d

(* A signal for a task that executes and is registered with the listener   *)
(* finds that task.                                                        *)
SignalsReachTask == \A c \in Executing : sess[c].heard => refs[Id[c]] = c

(* The outcome of a session is decided once: after a terminal status       *)
(* neither status nor reason changes, except that UNKNOWN may be refined.  *)
TerminalIsFinal ==
  [][\A c \in Calls :
       sess[c].status \in {"completed", "failed", "cancelled"} =>
         /\ sess'[c].status = sess[c].status
         /\ sess'[c].reason = sess[c].reason \/ sess[c].reason = "unknown"]_vars

(* What was acknowledged to the sender is what the session records.        *)
AckAgreesWithOutcome ==
  \A c \in Calls :
    /\ sess[c].acked = "ack_stop" =>
         sess[c].status = "cancelled" /\ sess[c].reason = "stop"
    /\ sess[c].acked = "ack_cancel" =>
         sess[c].status = "cancelled" /\ sess[c].reason \in {"cancel", "timeout", "shutdown"}

(* cancel_task that returned True for a task it found: the task is over,   *)
(* and its admission is back or another coroutine that popped the session  *)
(* is at its cleanup and gives it back.                                    *)
CancelTaskHonest ==
  \A o \in Ops :
    op[o].pc = "done" /\ op[o].ok /\ op[o].call # NoOne =>
      /\ run[op[o].call] = "done"
      /\ op[o].call \in Holders => cleaner[op[o].call] \notin {NoOne, o}

(* No admission comes back before its task is over, whatever cancels it:   *)
(* neither to the next call nor in what cancel_task answers.               *)
OverBeforeFreed == BoundedConcurrency /\ CancelTaskHonest

(* Nothing is under way. *)
Quiescent ==
  /\ \A c \in Calls : pc[c] \in {"idle", "in", "refused"} /\ c \notin Live
  /\ \A o \in Ops : op[o].pc \in {"idle", "done"}

(* "Both semaphores are always released when a task completes": once       *)
(* nothing is under way, the semaphores and counters are as at the start.  *)
QuiescentRestored ==
  Quiescent => slot = MaxConc /\ active = 0 /\ waiting = 0 /\ gate = MaxConc + MaxQueued

(* How the admission of each call looks from outside. *)
Standing ==
  [c \in Calls |->
     IF c \in Holders THEN "held"
     ELSE IF pc[c] \in {"in", "refused"} THEN "gone"
     ELSE IF pc[c] = "slot" /\ MaxQueued > 0 THEN "queued"
     ELSE "outside"]

Queue == INSTANCE Admission WITH Slots <- MaxConc, Queue <- MaxQueued, state <- Standing

(* Admission is what the queue promises: without config-setup jobs, no     *)
(* interleaving of timeouts, cancellations, failures and shutdown takes or *)
(* returns a slot outside its rules.                                       *)
ImplementsAdmission == Queue!Spec

(* A task that cancel_task waits for gives its admission back, though the  *)
(* module may never return by itself.                                      *)
CancelFreesSlot ==
  \A o \in Ops : op[o].pc = "wait" ~> op[o].call \notin Holders

(* shutdown() returns.                                                     *)
ShutdownTerminates == sd = "cancelling" ~> sd = "done"

(* Whoever waits for tasks to end gets on, cancel_task and shutdown(),     *)
(* however long the modules ignore it.                                     *)
WaitersGetOn == CancelFreesSlot /\ ShutdownTerminates
=============================================================================
