----------------------------- MODULE ModuleLife -----------------------------
(* The life of one module instance: BaseModule between the ModuleRunner that *)
(* prepares it, the task that runs it and the TaskSession whose cleanup      *)
(* closes its services and stops it.  An instance runs a query ("task") or   *)
(* configures a setup ("config").  A step is the code between two awaits;    *)
(* cancellation strikes at an await.                                         *)
EXTENDS Naturals, Sequences

CONSTANTS
  MaxOut,       \* bound: outputs of the handler
  MaxCancels,   \* bound: cancellations
  MaxUpsets     \* bound: calls of hooks, Redis or the storage that fail

ASSUME LifeAssumption == MaxOut \in Nat /\ MaxCancels \in Nat /\ MaxUpsets \in Nat

VARIABLES
  kind,      \* "task" or "config"
  runner,    \* the ModuleRunner, or ConfigSetupModule
  task,      \* where the task running start() stands
  stop,      \* where stop() stands, for each of its two callers
  status,    \* ModuleStatus
  session,   \* the TaskSession
  open,      \* the services of the context are open
  unsaved,   \* a history entry is not stored yet
  stream,    \* what was written to the Redis stream
  ttl,       \* the TTL of the stream
  answer,    \* what the caller was told out of band
  hooks,     \* times cleanup() ran
  crossed,   \* a stop or a cleanup was interrupted, or ran beside the task
  cancels, upsets

lvars == <<kind, runner, task, stop, status, session, open, unsaved, stream, ttl, answer,
           hooks, crossed, cancels, upsets>>

Over == {"over", "lost"}   \* the task has ended; "lost": without its finalizer
Callers == {"task", "session"}
Active(w) == stop[w] \in {"cleanup", "flush", "eos"}
Count(x) == Len(SelectSeq(stream, LAMBDA y : y = x))

LifeInit ==
  /\ kind \in {"task", "config"}
  /\ runner = IF kind = "task" THEN "preparing" ELSE "configuring"
  /\ task = "none"
  /\ stop = [w \in Callers |-> "idle"]
  /\ status = IF kind = "task" THEN "created" ELSE "running"
  /\ session = IF kind = "task" THEN "none" ELSE "open"
  /\ open = TRUE /\ unsaved = FALSE
  /\ stream = <<>> /\ ttl = "none" /\ answer = ""
  /\ hooks = 0 /\ crossed = FALSE /\ cancels = 0 /\ upsets = 0

Upset == upsets < MaxUpsets /\ upsets' = upsets + 1
Cancel == cancels < MaxCancels /\ cancels' = cancels + 1

-----------------------------------------------------------------------------
(* Preparation: preload_instance, then create_task                           *)

Prepared ==
  /\ runner = "preparing"
  /\ runner' = "creating"
  /\ UNCHANGED <<kind, task, stop, status, session, open, unsaved, stream, ttl, answer, hooks, crossed, cancels, upsets>>

(* Tool cache, initialize() or init_handlers failed, or create_task refused: *)
(* the runner tells the consumer and drops the instance as it is.            *)
TurnedDown ==
  /\ runner \in {"preparing", "creating"}
  /\ runner' = "told" /\ answer' = "fatal"
  /\ UNCHANGED <<kind, task, stop, status, session, open, unsaved, stream, ttl, hooks, crossed, cancels, upsets>>

RunnerCancelled ==
  /\ runner \in {"preparing", "creating"}
  /\ Cancel
  /\ runner' = "cancelled"
  /\ UNCHANGED <<kind, task, stop, status, session, open, unsaved, stream, ttl, answer, hooks, crossed, upsets>>

Created ==
  /\ runner = "creating"
  /\ runner' = "done" /\ session' = "open" /\ task' = "scheduled"
  /\ UNCHANGED <<kind, stop, status, open, unsaved, stream, ttl, answer, hooks, crossed, cancels, upsets>>

Starts ==
  /\ task = "scheduled"
  /\ task' = "running"
  /\ UNCHANGED <<kind, runner, stop, status, session, open, unsaved, stream, ttl, answer, hooks, crossed, cancels, upsets>>

-----------------------------------------------------------------------------
(* The task: run(), the report of its failure, then stop()                   *)

(* _on_output: write, and at the first output give the stream its TTL.       *)
Expire == ttl' = IF stream = <<>> THEN "initial" ELSE ttl

Emits ==
  /\ task = "running" /\ Count("out") < MaxOut
  /\ stream' = Append(stream, "out")
  /\ Expire
  /\ UNCHANGED <<kind, runner, task, stop, status, session, open, unsaved, answer, hooks, crossed, cancels, upsets>>

NotesFile ==
  /\ task = "running" /\ ~unsaved
  /\ unsaved' = TRUE
  /\ UNCHANGED <<kind, runner, task, stop, status, session, open, stream, ttl, answer, hooks, crossed, cancels, upsets>>

HandlerReturns ==
  /\ task = "running"
  /\ task' = "flushing"
  /\ UNCHANGED <<kind, runner, stop, status, session, open, unsaved, stream, ttl, answer, hooks, crossed, cancels, upsets>>

\* flush_file_history keeps the entry when the storage fails. A closed storage
\* fails, unless its channel is shared with a storage that is still open.
StoresHistory ==
  \/ unsaved' = FALSE /\ UNCHANGED upsets
  \/ unsaved /\ UNCHANGED unsaved /\ IF open THEN Upset ELSE UNCHANGED upsets

RunFlushed ==
  /\ task = "flushing"
  /\ StoresHistory
  /\ status' = "stopping" /\ task' = "stopping"
  /\ UNCHANGED <<kind, runner, stop, session, open, stream, ttl, answer, hooks, crossed, cancels>>

\* Any exception of the handler, or of the write of an output.
RunFails ==
  /\ task = "running"
  /\ status' = "failed" /\ task' = "telling"
  /\ UNCHANGED <<kind, runner, stop, session, open, unsaved, stream, ttl, answer, hooks, crossed, cancels, upsets>>

Tells ==
  /\ task = "telling"
  /\ \/ stream' = Append(stream, "error") /\ Expire /\ UNCHANGED upsets
     \/ Upset /\ UNCHANGED <<stream, ttl>>
  /\ task' = "stopping"
  /\ UNCHANGED <<kind, runner, stop, status, session, open, unsaved, answer, hooks, crossed, cancels>>

(* The cancellation of the task. Before its first step nothing of it runs,   *)
(* its finalizer neither; nor does that when the drain before it is struck,  *)
(* whose except clause knows a timeout only. Before the handler is done it   *)
(* is turned into a stop(); inside stop() it ends it where it stands.        *)
TaskCancelled ==
  /\ Cancel
  /\ \/ /\ task = "scheduled" \/ (task = "over" /\ session = "open")
        /\ task' = "lost"
        /\ UNCHANGED <<status, stop, crossed>>
     \/ /\ task \in {"running", "flushing"}
        /\ status' = "cancelled" /\ task' = "stopping"
        /\ UNCHANGED <<stop, crossed>>
     \/ /\ task = "telling"
        /\ task' = "stopping" /\ crossed' = TRUE
        /\ UNCHANGED <<status, stop>>
     \/ /\ task = "stopping" /\ Active("task")
        /\ stop' = [stop EXCEPT !["task"] = "done"]
        /\ task' = "over" /\ crossed' = TRUE
        /\ UNCHANGED status
  /\ UNCHANGED <<kind, runner, session, open, unsaved, stream, ttl, answer, hooks, upsets>>

TaskEnds ==
  /\ task = "stopping" /\ stop["task"] = "done"
  /\ task' = "over"
  /\ UNCHANGED <<kind, runner, stop, status, session, open, unsaved, stream, ttl, answer, hooks, crossed, cancels, upsets>>

-----------------------------------------------------------------------------
(* stop()                                                                    *)

StopsAgain == status = "failed"
AlreadyStopped == status \in {"stopped", "failed"}

StopBegins(w) ==
  /\ stop[w] = "idle"
  /\ (w = "task" /\ task = "stopping") \/ (w = "session" /\ session = "stopping")
  /\ IF AlreadyStopped
     THEN stop' = [stop EXCEPT ![w] = "done"] /\ UNCHANGED <<status, hooks>>
     ELSE /\ stop' = [stop EXCEPT ![w] = "cleanup"]
          /\ status' = "stopping"
          /\ hooks' = hooks + 1
  /\ UNCHANGED <<kind, runner, task, session, open, unsaved, stream, ttl, answer, crossed, cancels, upsets>>

\* The author's cleanup() raises: the rest of stop() is skipped.
HookEnds(w) ==
  /\ stop[w] = "cleanup"
  /\ \/ stop' = [stop EXCEPT ![w] = "flush"] /\ UNCHANGED <<status, upsets>>
     \/ stop' = [stop EXCEPT ![w] = "done"] /\ status' = "failed" /\ Upset
  /\ UNCHANGED <<kind, runner, task, session, open, unsaved, stream, ttl, answer, hooks, crossed, cancels>>

FlushAll == StoresHistory

Flushes(w) ==
  /\ stop[w] = "flush"
  /\ FlushAll
  /\ stop' = [stop EXCEPT ![w] = "eos"]
  /\ UNCHANGED <<kind, runner, task, status, session, open, stream, ttl, answer, hooks, crossed, cancels>>

\* Without send_message, on the path of a config setup, nothing is sent.
SendsEos(w) ==
  /\ stop[w] = "eos"
  /\ \/ kind = "config" /\ status' = "stopped" /\ UNCHANGED <<stream, ttl, upsets>>
     \/ kind = "task" /\ stream' = Append(stream, "eos") /\ ttl' = "final"
        /\ status' = "stopped" /\ UNCHANGED upsets
     \/ kind = "task" /\ Upset /\ status' = "failed" /\ UNCHANGED <<stream, ttl>>
  /\ stop' = [stop EXCEPT ![w] = "done"]
  /\ UNCHANGED <<kind, runner, task, session, open, unsaved, answer, hooks, crossed, cancels>>

-----------------------------------------------------------------------------
(* The session's cleanup: once, by the task's finalizer or the caller of a   *)
(* config setup, or by a canceller (cancel_task, shutdown) that has waited.  *)

NeverFinalized == FALSE
Finalized == task = "over" \/ (kind = "config" /\ runner = "waiting" /\ answer # "")

CleanupBegins ==
  /\ session = "open" /\ session' = "closing"
  /\ UNCHANGED <<kind, runner, task, stop, status, open, unsaved, stream, ttl, answer, hooks, cancels, upsets>>

FinalizerCleans == Finalized /\ CleanupBegins /\ UNCHANGED crossed

\* A signal from outside cancels a task too, and comes with no canceller.
CancellerCleans ==
  /\ kind = "task" /\ cancels > 0
  /\ crossed' = (crossed \/ task \notin Over)
  /\ CleanupBegins

CloseServices == open' = FALSE

ContextCleaned ==
  /\ session = "closing"
  /\ CloseServices
  /\ session' = "stopping"
  /\ UNCHANGED <<kind, runner, task, stop, status, unsaved, stream, ttl, answer, hooks, crossed, cancels, upsets>>

\* The finalizer belongs to the task, and a config setup's to its call: either
\* is cancelled with it, and nobody takes the cleanup up again.
CleanupCancelled ==
  /\ session \in {"closing", "stopping"} /\ stop["session"] # "done"
  /\ Cancel
  /\ session' = "gone" /\ crossed' = TRUE
  /\ stop' = [stop EXCEPT !["session"] = "done"]
  /\ runner' = IF kind = "config" THEN "cancelled" ELSE runner
  /\ UNCHANGED <<kind, task, status, open, unsaved, stream, ttl, answer, hooks, upsets>>

CleanupEnds ==
  /\ session = "stopping" /\ stop["session"] = "done"
  /\ session' = "gone"
  /\ runner' = IF kind = "config" THEN "done" ELSE runner
  /\ UNCHANGED <<kind, task, stop, status, open, unsaved, stream, ttl, answer, hooks, crossed, cancels, upsets>>

-----------------------------------------------------------------------------
(* A config setup: start_config_setup, then the wait for its answer          *)

Configured ==
  /\ runner = "configuring"
  /\ runner' = "waiting" /\ answer' = "setup" /\ status' = "stopping"
  /\ UNCHANGED <<kind, task, stop, session, open, unsaved, stream, ttl, hooks, crossed, cancels, upsets>>

\* The exception is logged and goes no further: the caller waits on.
ConfigFails ==
  /\ runner = "configuring"
  /\ runner' = "waiting" /\ status' = "failed"
  /\ UNCHANGED <<kind, task, stop, session, open, unsaved, stream, ttl, answer, hooks, crossed, cancels, upsets>>

ConfigTimesOut ==
  /\ runner = "waiting" /\ answer = "" /\ session = "open"
  /\ answer' = "deadline"
  /\ UNCHANGED <<kind, runner, task, stop, status, session, open, unsaved, stream, ttl, hooks, crossed, cancels, upsets>>

\* The call is cancelled: while it waits the session is cleaned up, before
\* that it stays in the table for good.
ConfigCancelled ==
  /\ Cancel
  /\ \/ /\ runner = "configuring"
        /\ runner' = "cancelled"
        /\ UNCHANGED session
     \/ /\ runner = "waiting" /\ session = "open"
        /\ session' = "closing"
        /\ UNCHANGED runner
  /\ UNCHANGED <<kind, task, stop, status, open, unsaved, stream, ttl, answer, hooks, crossed, upsets>>

LifeNext ==
  \/ Prepared \/ TurnedDown \/ RunnerCancelled \/ Created \/ Starts
  \/ Emits \/ NotesFile \/ HandlerReturns \/ RunFlushed \/ RunFails \/ Tells
  \/ TaskCancelled \/ TaskEnds
  \/ \E w \in Callers : StopBegins(w) \/ HookEnds(w) \/ Flushes(w) \/ SendsEos(w)
  \/ FinalizerCleans \/ CancellerCleans \/ ContextCleaned \/ CleanupCancelled \/ CleanupEnds
  \/ Configured \/ ConfigFails \/ ConfigTimesOut \/ ConfigCancelled

(* Every await returns but those of the author's code before the stop: once  *)
(* a stop, a report or a cleanup has begun it goes on, and a task that ended *)
(* without being struck in its drain finalizes. No canceller need come.      *)
Progresses ==
  \/ Starts \/ Tells \/ RunFlushed \/ TaskEnds \/ FinalizerCleans \/ ContextCleaned \/ CleanupEnds \/ ConfigTimesOut
  \/ \E w \in Callers : StopBegins(w) \/ HookEnds(w) \/ Flushes(w) \/ SendsEos(w)

-----------------------------------------------------------------------------
Settled == session = "gone" /\ (task = "none" \/ task \in Over)
\* Cancelled so early or so late that no finalizer ran: the slot is lost.
Unfinalized == task = "lost" /\ session = "open"
\* Given up before the task, or the wait of a config setup, began.
Dropped == runner \in {"told", "cancelled"} /\ task = "none" /\ session \in {"none", "open"}
AuthorsCode == runner \in {"preparing", "creating", "configuring"} \/ task = "running"

(* "Idempotent - second call is a no-op": stop() has two callers, and unless *)
(* one of them was cancelled inside it, or both were in it at once, the      *)
(* cleanup hook runs once and the stream gets one eos, behind all else.      *)
StopsOnce ==
  crossed \/ /\ hooks <= 1
             /\ \A i \in 1..Len(stream) : stream[i] = "eos" => i = Len(stream)

(* The consumer is told how it ends: when the instance is gone its stream    *)
(* ends with eos or with the error and expires, its caller has the setup or  *)
(* a timeout, unless a call failed or a cancellation struck the report, the  *)
(* stop or the cleanup.                                                      *)
IsTold ==
  Settled /\ ~crossed /\ upsets = 0 =>
    /\ kind = "task" => /\ Len(stream) > 0
                        /\ <<stream[Len(stream)], ttl>> \in {<<"eos", "final">>, <<"error", "initial">>}
    /\ kind = "config" => answer \in {"setup", "deadline"} \/ cancels > 0

(* What the session was given it closes: services stay open only in an       *)
(* instance that no session cleaned up to the end.                           *)
ServicesClosed == Settled /\ ~crossed => ~open

(* A history entry that is not stored when all is over was the entry of a    *)
(* run that failed, which is stopped without a flush, unless the storage or  *)
(* a hook failed or the stop was struck.                                     *)
HistoryStored == Settled /\ unsaved => status = "failed" \/ upsets > 0 \/ crossed

(* A run winds up: unless the author's code holds it, or it was given up     *)
(* before it began, it is told, stopped and cleaned up in the end. But a     *)
(* task cancelled before its first step, or while it drains, is cleaned up   *)
(* only if somebody cancels it through the manager, or shuts it down.        *)
WindsUp == []<>(Settled \/ Dropped \/ AuthorsCode \/ Unfinalized)

(* However a run ends, it ends once, its caller is told, its services are    *)
(* closed and its history is stored, but for the exceptions named above.     *)
EndsInOrder == StopsOnce /\ IsTold /\ ServicesClosed /\ HistoryStored
=============================================================================
