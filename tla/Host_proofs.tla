----------------------------- MODULE Host_proofs -----------------------------
(* What is proved of a process that hosts modules: how a module instance     *)
(* ends, what a server leaves behind, and what pulling a task's stream gives.*)
(* Each component first on its own, over its whole next-state relation and   *)
(* for any constants its assumptions admit, and at the end the specification *)
(* of the run that puts them beside each other.                              *)
EXTENDS MCHost, FiniteSetTheorems, SequenceTheorems, TLAPS

-----------------------------------------------------------------------------
(* ModuleLife on its own.                                                    *)

LifeSpec == LifeInit /\ [][LifeNext]_lvars

LifeTyped ==
  /\ kind \in {"task", "config"} /\ stop \in [Callers -> {"idle", "cleanup", "flush", "eos", "done"}]
  /\ task \in {"none", "scheduled", "running", "flushing", "telling", "stopping", "over", "lost"}
  /\ session \in {"none", "open", "closing", "stopping", "gone"}
  /\ stream \in Seq({"out", "error", "eos"})
  /\ hooks \in Nat /\ cancels \in Nat /\ upsets \in Nat

Before == {"none", "scheduled", "running", "flushing"}
TaskStop == stop["task"]
CleanupStop == stop["session"]
Untold == TaskStop # "done" /\ CleanupStop # "done"
Told ==
  /\ Len(stream) > 0
  /\ <<stream[Len(stream)], ttl>> \in {<<"eos", "final">>, <<"error", "initial">>}

(* How far the task, its stop and the cleanup have come, one behind another. *)
OneBehindAnother ==
  /\ kind = "task" =>
       /\ task = "none" <=> session = "none"
       /\ runner \notin {"configuring", "waiting"}
       /\ runner \in {"preparing", "creating"} => task = "none"
       /\ session \in {"closing", "stopping", "gone"} => task \in Over
       /\ task \in Before => status = "created"
  /\ kind = "config" =>
       /\ task = "none" /\ session # "none" /\ runner \notin {"preparing", "creating"}
       /\ runner = "configuring" => session = "open"
       /\ answer \in {"", "setup", "deadline"}
       /\ session # "open" => answer # "" \/ cancels > 0
  /\ TaskStop # "idle" => (task = "stopping" \/ task \in Over) /\ CleanupStop \in {"idle", "done"}
  /\ CleanupStop # "idle" => session \in {"stopping", "gone"}
  /\ task \in Over => TaskStop \in {"idle", "done"}
  /\ session = "gone" => CleanupStop = "done"
  /\ open <=> session \in {"none", "open", "closing"}

(* One of the two stops does the work, and the other finds it done.          *)
OneStops ==
  /\ hooks <= 1
  /\ ~Untold => status \in {"stopped", "failed"}
  /\ TaskStop = "idle" /\ CleanupStop = "idle" => hooks = 0 /\ status # "stopped"
  /\ \A w \in Callers : Active(w) => status = "stopping"
  /\ \A i \in 1..Len(stream) : stream[i] = "eos" => i = Len(stream) /\ ~Untold

HistoryKept ==
  /\ kind = "config" \/ task \in {"none", "scheduled"} \/ (task \in Over /\ TaskStop = "idle") => ~unsaved
  /\ TaskStop \in {"eos", "done"} \/ CleanupStop \in {"eos", "done"} => ~unsaved \/ status = "failed" \/ upsets > 0

TellsOnce ==
  kind = "task" =>
    /\ task \in Before \cup {"telling"} => stream = <<>> \/ ttl = "initial"
    /\ status = "stopped" \/ (status = "failed" /\ task # "telling") => upsets > 0 \/ Told

LifeInv == LifeTyped /\ (crossed \/ (OneBehindAnother /\ OneStops /\ HistoryKept /\ TellsOnce))

\* A task that ended is over or lost, in all that follows about its end.
USE DEF Over
-----------------------------------------------------------------------------

(* preload_instance is done: nothing runs yet.                               *)
LEMMA PreparedLives == ASSUME LifeInv, Prepared PROVE LifeInv'
<1>i. LifeTyped /\ (crossed \/ (OneBehindAnother /\ OneStops /\ HistoryKept /\ TellsOnce))
  BY DEF LifeInv
<1>1. LifeTyped'
  BY <1>i DEF LifeTyped, Prepared
<1>2. ASSUME ~crossed' PROVE OneBehindAnother'
  BY <1>i, <1>2 DEF OneBehindAnother, TaskStop, CleanupStop, Prepared
<1>3. ASSUME ~crossed' PROVE OneStops'
  BY <1>i, <1>3 DEF TaskStop, CleanupStop, OneStops, Untold, Active, Prepared
<1>4. ASSUME ~crossed' PROVE HistoryKept'
  BY <1>i, <1>4 DEF TaskStop, CleanupStop, HistoryKept, Prepared
<1>5. ASSUME ~crossed' PROVE TellsOnce'
  BY <1>i, <1>5 DEF TellsOnce, Told, Prepared
<1> QED BY <1>1, <1>2, <1>3, <1>4, <1>5 DEF LifeInv

(* A refused instance is told to the consumer and dropped before it has a    *)
(* task or a session.                                                        *)
LEMMA TurnedDownLives == ASSUME LifeInv, TurnedDown PROVE LifeInv'
<1>i. LifeTyped /\ (crossed \/ (OneBehindAnother /\ OneStops /\ HistoryKept /\ TellsOnce))
  BY DEF LifeInv
<1>1. LifeTyped'
  BY <1>i DEF LifeTyped, TurnedDown
<1>2. ASSUME ~crossed' PROVE OneBehindAnother'
  BY <1>i, <1>2 DEF OneBehindAnother, TaskStop, CleanupStop, TurnedDown
<1>3. ASSUME ~crossed' PROVE OneStops'
  BY <1>i, <1>3 DEF TaskStop, CleanupStop, OneStops, Untold, Active, TurnedDown
<1>4. ASSUME ~crossed' PROVE HistoryKept'
  BY <1>i, <1>4 DEF TaskStop, CleanupStop, HistoryKept, TurnedDown
<1>5. ASSUME ~crossed' PROVE TellsOnce'
  BY <1>i, <1>5 DEF TellsOnce, Told, TurnedDown
<1> QED BY <1>1, <1>2, <1>3, <1>4, <1>5 DEF LifeInv

(* A cancelled runner has started nothing that somebody would have to stop.  *)
LEMMA RunnerCancelledLives == ASSUME LifeInv, RunnerCancelled PROVE LifeInv'
<1>i. LifeTyped /\ (crossed \/ (OneBehindAnother /\ OneStops /\ HistoryKept /\ TellsOnce))
  BY DEF LifeInv
<1>1. LifeTyped'
  BY <1>i DEF LifeTyped, RunnerCancelled, Cancel
<1>2. ASSUME ~crossed' PROVE OneBehindAnother'
  BY <1>i, <1>2 DEF OneBehindAnother, TaskStop, CleanupStop, RunnerCancelled
<1>3. ASSUME ~crossed' PROVE OneStops'
  BY <1>i, <1>3 DEF TaskStop, CleanupStop, OneStops, Untold, Active, RunnerCancelled
<1>4. ASSUME ~crossed' PROVE HistoryKept'
  BY <1>i, <1>4 DEF TaskStop, CleanupStop, HistoryKept, RunnerCancelled
<1>5. ASSUME ~crossed' PROVE TellsOnce'
  BY <1>i, <1>5 DEF TellsOnce, Told, RunnerCancelled
<1> QED BY <1>1, <1>2, <1>3, <1>4, <1>5 DEF LifeInv

(* create_task brings the session and the task, which is not begun.          *)
LEMMA CreatedLives == ASSUME LifeInv, Created PROVE LifeInv'
<1>i. LifeTyped /\ (crossed \/ (OneBehindAnother /\ OneStops /\ HistoryKept /\ TellsOnce))
  BY DEF LifeInv
<1>1. LifeTyped'
  BY <1>i DEF LifeTyped, Created
<1>2. ASSUME ~crossed' PROVE OneBehindAnother'
  BY <1>i, <1>2 DEF OneBehindAnother, LifeTyped, Before, TaskStop, CleanupStop, Created
<1>3. ASSUME ~crossed' PROVE OneStops'
  BY <1>i, <1>3 DEF TaskStop, CleanupStop, OneStops, Untold, Active, Created
<1>4. ASSUME ~crossed' PROVE HistoryKept'
  BY <1>i, <1>4 DEF OneBehindAnother, LifeTyped, HistoryKept, Created
<1>5. ASSUME ~crossed' PROVE TellsOnce'
  BY <1>i, <1>5 DEF OneBehindAnother, Before, TellsOnce, Created
<1> QED BY <1>1, <1>2, <1>3, <1>4, <1>5 DEF LifeInv

(* start() hands the task to run(), unless a stop came before.               *)
LEMMA StartsLives == ASSUME LifeInv, Starts PROVE LifeInv'
<1>i. LifeTyped /\ (crossed \/ (OneBehindAnother /\ OneStops /\ HistoryKept /\ TellsOnce))
  BY DEF LifeInv
<1>1. LifeTyped'
  BY <1>i DEF LifeTyped, Starts
<1>2. ASSUME ~crossed' PROVE OneBehindAnother'
  BY <1>i, <1>2 DEF OneBehindAnother, Before, TaskStop, CleanupStop, Starts
<1>3. ASSUME ~crossed' PROVE OneStops'
  BY <1>i, <1>3 DEF TaskStop, CleanupStop, OneStops, Untold, Active, Starts
<1>4. ASSUME ~crossed' PROVE HistoryKept'
  BY <1>i, <1>4 DEF HistoryKept, Starts
<1>5. ASSUME ~crossed' PROVE TellsOnce'
  BY <1>i, <1>5 DEF Before, TellsOnce, Told, Starts
<1> QED BY <1>1, <1>2, <1>3, <1>4, <1>5 DEF LifeInv

(* An output comes before any end of the stream, as the task still runs.     *)
LEMMA EmitsLives == ASSUME LifeInv, Emits PROVE LifeInv'
<1>i. LifeTyped /\ (crossed \/ (OneBehindAnother /\ OneStops /\ HistoryKept /\ TellsOnce))
  BY DEF LifeInv
<1>1. LifeTyped'
  BY <1>i DEF LifeTyped, Emits
<1>2. ASSUME ~crossed' PROVE OneBehindAnother'
  BY <1>i, <1>2 DEF OneBehindAnother, TaskStop, CleanupStop, Emits
<1>3. ASSUME ~crossed' PROVE OneStops'
  BY <1>i, <1>3 DEF OneBehindAnother, LifeTyped, TaskStop, CleanupStop, OneStops, Untold, Active,
     Emits
<1>4. ASSUME ~crossed' PROVE HistoryKept'
  BY <1>i, <1>4 DEF TaskStop, CleanupStop, HistoryKept, Emits
<1>5. ASSUME ~crossed' PROVE TellsOnce'
  BY <1>i, <1>5 DEF OneBehindAnother, Before, TellsOnce, Emits, Expire
<1> QED BY <1>1, <1>2, <1>3, <1>4, <1>5 DEF LifeInv

(* The history has something unsaved only while the handler runs.            *)
LEMMA NotesFileLives == ASSUME LifeInv, NotesFile PROVE LifeInv'
<1>i. LifeTyped /\ (crossed \/ (OneBehindAnother /\ OneStops /\ HistoryKept /\ TellsOnce))
  BY DEF LifeInv
<1>1. LifeTyped'
  BY <1>i DEF LifeTyped, NotesFile
<1>2. ASSUME ~crossed' PROVE OneBehindAnother'
  BY <1>i, <1>2 DEF OneBehindAnother, TaskStop, CleanupStop, NotesFile
<1>3. ASSUME ~crossed' PROVE OneStops'
  BY <1>i, <1>3 DEF TaskStop, CleanupStop, OneStops, Untold, Active, NotesFile
<1>4. ASSUME ~crossed' PROVE HistoryKept'
  BY <1>i, <1>4 DEF OneBehindAnother, LifeTyped, TaskStop, CleanupStop, HistoryKept, NotesFile
<1>5. ASSUME ~crossed' PROVE TellsOnce'
  BY <1>i, <1>5 DEF TellsOnce, Told, NotesFile
<1> QED BY <1>1, <1>2, <1>3, <1>4, <1>5 DEF LifeInv

(* The handler is done, and what it noted is still to be stored.             *)
LEMMA HandlerReturnsLives == ASSUME LifeInv, HandlerReturns PROVE LifeInv'
<1>i. LifeTyped /\ (crossed \/ (OneBehindAnother /\ OneStops /\ HistoryKept /\ TellsOnce))
  BY DEF LifeInv
<1>1. LifeTyped'
  BY <1>i DEF LifeTyped, HandlerReturns
<1>2. ASSUME ~crossed' PROVE OneBehindAnother'
  BY <1>i, <1>2 DEF OneBehindAnother, Before, TaskStop, CleanupStop, HandlerReturns
<1>3. ASSUME ~crossed' PROVE OneStops'
  BY <1>i, <1>3 DEF TaskStop, CleanupStop, OneStops, Untold, Active, HandlerReturns
<1>4. ASSUME ~crossed' PROVE HistoryKept'
  BY <1>i, <1>4 DEF TaskStop, CleanupStop, HistoryKept, HandlerReturns
<1>5. ASSUME ~crossed' PROVE TellsOnce'
  BY <1>i, <1>5 DEF Before, TellsOnce, Told, HandlerReturns
<1> QED BY <1>1, <1>2, <1>3, <1>4, <1>5 DEF LifeInv

(* The flush after the handler leaves nothing unsaved, or was upset.         *)
LEMMA RunFlushedLives == ASSUME LifeInv, RunFlushed PROVE LifeInv'
<1>i. LifeTyped /\ (crossed \/ (OneBehindAnother /\ OneStops /\ HistoryKept /\ TellsOnce))
  BY DEF LifeInv
<1>1. LifeTyped'
  BY <1>i DEF LifeTyped, RunFlushed, StoresHistory, Upset
<1>2. ASSUME ~crossed' PROVE OneBehindAnother'
  BY <1>i, <1>2 DEF OneBehindAnother, Before, TaskStop, CleanupStop, RunFlushed
<1>3. ASSUME ~crossed' PROVE OneStops'
  BY <1>i, <1>3 DEF OneBehindAnother, LifeTyped, TaskStop, CleanupStop, OneStops, Untold,
     RunFlushed
<1>4. ASSUME ~crossed' PROVE HistoryKept'
  BY <1>i, <1>4 DEF OneBehindAnother, LifeTyped, HistoryKept, RunFlushed, StoresHistory, Upset
<1>5. ASSUME ~crossed' PROVE TellsOnce'
  BY <1>i, <1>5 DEF Before, TellsOnce, RunFlushed
<1> QED BY <1>1, <1>2, <1>3, <1>4, <1>5 DEF LifeInv

(* A failed run is still to be told to the reader.                           *)
LEMMA RunFailsLives == ASSUME LifeInv, RunFails PROVE LifeInv'
<1>i. LifeTyped /\ (crossed \/ (OneBehindAnother /\ OneStops /\ HistoryKept /\ TellsOnce))
  BY DEF LifeInv
<1>1. LifeTyped'
  BY <1>i DEF LifeTyped, RunFails
<1>2. ASSUME ~crossed' PROVE OneBehindAnother'
  BY <1>i, <1>2 DEF OneBehindAnother, Before, TaskStop, CleanupStop, RunFails
<1>3. ASSUME ~crossed' PROVE OneStops'
  BY <1>i, <1>3 DEF OneBehindAnother, LifeTyped, Before, OneStops, Active, RunFails
<1>4. ASSUME ~crossed' PROVE HistoryKept'
  BY <1>i, <1>4 DEF HistoryKept, RunFails
<1>5. ASSUME ~crossed' PROVE TellsOnce'
  BY <1>i, <1>5 DEF Before, TellsOnce, RunFails
<1> QED BY <1>1, <1>2, <1>3, <1>4, <1>5 DEF LifeInv

(* The error frame is the last of the stream, which keeps its short TTL.     *)
LEMMA TellsLives == ASSUME LifeInv, Tells PROVE LifeInv'
<1>i. LifeTyped /\ (crossed \/ (OneBehindAnother /\ OneStops /\ HistoryKept /\ TellsOnce))
  BY DEF LifeInv
<1>1. LifeTyped'
  BY <1>i DEF LifeTyped, Tells, Upset
<1>2. ASSUME ~crossed' PROVE OneBehindAnother'
  BY <1>i, <1>2 DEF OneBehindAnother, Before, TaskStop, CleanupStop, Tells
<1>3. ASSUME ~crossed' PROVE OneStops'
  BY <1>i, <1>3 DEF OneBehindAnother, LifeTyped, TaskStop, CleanupStop, OneStops, Untold, Active,
     Tells
<1>4. ASSUME ~crossed' PROVE HistoryKept'
  BY <1>i, <1>4 DEF LifeTyped, TaskStop, CleanupStop, HistoryKept, Tells, Upset
<1>5. ASSUME ~crossed' PROVE TellsOnce'
  BY <1>i, <1>5 DEF LifeTyped, TellsOnce, Told, Tells, Expire, Upset
<1> QED BY <1>1, <1>2, <1>3, <1>4, <1>5 DEF LifeInv

(* A cancelled task goes to its stop, is lost before its first step or in    *)
(* its drain, or is struck in its stop, which counts as crossed.             *)
LEMMA TaskCancelledLives == ASSUME LifeInv, TaskCancelled PROVE LifeInv'
<1>i. LifeTyped /\ (crossed \/ (OneBehindAnother /\ OneStops /\ HistoryKept /\ TellsOnce))
  BY DEF LifeInv
<1>1. LifeTyped'
  BY <1>i DEF LifeTyped, TaskCancelled, Cancel
<1>2. ASSUME ~crossed' PROVE OneBehindAnother'
  BY <1>i, <1>2 DEF OneBehindAnother, Before, TaskStop, CleanupStop, TaskCancelled
<1>3. ASSUME ~crossed' PROVE OneStops'
  BY <1>i, <1>3 DEF OneBehindAnother, LifeTyped, Before, TaskStop, CleanupStop, OneStops, Untold,
     TaskCancelled, Active
<1>4. ASSUME ~crossed' PROVE HistoryKept'
  BY <1>i, <1>4 DEF OneBehindAnother, LifeTyped, TaskStop, CleanupStop, HistoryKept, TaskCancelled
<1>5. ASSUME ~crossed' PROVE TellsOnce'
  BY <1>i, <1>5 DEF Before, TellsOnce, Told, TaskCancelled
<1> QED BY <1>1, <1>2, <1>3, <1>4, <1>5 DEF LifeInv

(* The task is over when its own stop is, or when it had none to do.         *)
LEMMA TaskEndsLives == ASSUME LifeInv, TaskEnds PROVE LifeInv'
<1>i. LifeTyped /\ (crossed \/ (OneBehindAnother /\ OneStops /\ HistoryKept /\ TellsOnce))
  BY DEF LifeInv
<1>1. LifeTyped'
  BY <1>i DEF LifeTyped, TaskEnds
<1>2. ASSUME ~crossed' PROVE OneBehindAnother'
  BY <1>i, <1>2 DEF OneBehindAnother, Before, TaskStop, CleanupStop, TaskEnds
<1>3. ASSUME ~crossed' PROVE OneStops'
  BY <1>i, <1>3 DEF TaskStop, OneStops, Untold, Active, TaskEnds
<1>4. ASSUME ~crossed' PROVE HistoryKept'
  BY <1>i, <1>4 DEF TaskStop, HistoryKept, TaskEnds
<1>5. ASSUME ~crossed' PROVE TellsOnce'
  BY <1>i, <1>5 DEF Before, TellsOnce, Told, TaskEnds
<1> QED BY <1>1, <1>2, <1>3, <1>4, <1>5 DEF LifeInv

(* The finalizer begins the cleanup when the task is over.                   *)
LEMMA FinalizerCleansLives == ASSUME LifeInv, FinalizerCleans PROVE LifeInv'
<1>i. LifeTyped /\ (crossed \/ (OneBehindAnother /\ OneStops /\ HistoryKept /\ TellsOnce))
  BY DEF LifeInv
<1> USE DEF FinalizerCleans, CleanupBegins
<1>1. LifeTyped'
  BY <1>i DEF LifeTyped
<1>2. ASSUME ~crossed' PROVE OneBehindAnother'
  BY <1>i, <1>2 DEF OneBehindAnother, TaskStop, CleanupStop, Finalized, Over
<1>3. ASSUME ~crossed' PROVE OneStops'
  BY <1>i, <1>3 DEF TaskStop, CleanupStop, OneStops, Untold, Active
<1>4. ASSUME ~crossed' PROVE HistoryKept'
  BY <1>i, <1>4 DEF TaskStop, CleanupStop, HistoryKept
<1>5. ASSUME ~crossed' PROVE TellsOnce'
  BY <1>i, <1>5 DEF TellsOnce, Told
<1> QED BY <1>1, <1>2, <1>3, <1>4, <1>5 DEF LifeInv

(* A canceller does when the task has ended, or beside it, which counts as   *)
(* crossed.                                                                  *)
LEMMA CancellerCleansLives == ASSUME LifeInv, CancellerCleans PROVE LifeInv'
<1>i. LifeTyped /\ (crossed \/ (OneBehindAnother /\ OneStops /\ HistoryKept /\ TellsOnce))
  BY DEF LifeInv
<1> USE DEF CancellerCleans, CleanupBegins
<1>1. LifeTyped'
  BY <1>i DEF LifeTyped
<1>2. ASSUME ~crossed' PROVE OneBehindAnother'
  BY <1>i, <1>2 DEF OneBehindAnother, TaskStop, CleanupStop
<1>3. ASSUME ~crossed' PROVE OneStops'
  BY <1>i, <1>3 DEF TaskStop, CleanupStop, OneStops, Untold, Active
<1>4. ASSUME ~crossed' PROVE HistoryKept'
  BY <1>i, <1>4 DEF TaskStop, CleanupStop, HistoryKept
<1>5. ASSUME ~crossed' PROVE TellsOnce'
  BY <1>i, <1>5 DEF TellsOnce, Told
<1> QED BY <1>1, <1>2, <1>3, <1>4, <1>5 DEF LifeInv

(* The services close before the session's stop begins.                      *)
LEMMA ContextCleanedLives == ASSUME LifeInv, ContextCleaned PROVE LifeInv'
<1>i. LifeTyped /\ (crossed \/ (OneBehindAnother /\ OneStops /\ HistoryKept /\ TellsOnce))
  BY DEF LifeInv
<1>1. LifeTyped'
  BY <1>i DEF LifeTyped, ContextCleaned
<1>2. ASSUME ~crossed' PROVE OneBehindAnother'
  BY <1>i, <1>2 DEF OneBehindAnother, TaskStop, CleanupStop, ContextCleaned, CloseServices
<1>3. ASSUME ~crossed' PROVE OneStops'
  BY <1>i, <1>3 DEF TaskStop, CleanupStop, OneStops, Untold, Active, ContextCleaned
<1>4. ASSUME ~crossed' PROVE HistoryKept'
  BY <1>i, <1>4 DEF TaskStop, CleanupStop, HistoryKept, ContextCleaned
<1>5. ASSUME ~crossed' PROVE TellsOnce'
  BY <1>i, <1>5 DEF TellsOnce, Told, ContextCleaned
<1> QED BY <1>1, <1>2, <1>3, <1>4, <1>5 DEF LifeInv

(* A cleanup that is struck counts as crossed.                               *)
LEMMA CleanupCancelledLives == ASSUME LifeInv, CleanupCancelled PROVE LifeInv'
<1>i. LifeTyped /\ (crossed \/ (OneBehindAnother /\ OneStops /\ HistoryKept /\ TellsOnce))
  BY DEF LifeInv
<1>1. LifeTyped'
  BY <1>i DEF LifeTyped, Callers, CleanupCancelled, Cancel
<1>2. ASSUME ~crossed' PROVE OneBehindAnother'
  BY <1>i, <1>2 DEF CleanupCancelled
<1>3. ASSUME ~crossed' PROVE OneStops'
  BY <1>i, <1>3 DEF CleanupCancelled
<1>4. ASSUME ~crossed' PROVE HistoryKept'
  BY <1>i, <1>4 DEF CleanupCancelled
<1>5. ASSUME ~crossed' PROVE TellsOnce'
  BY <1>i, <1>5 DEF CleanupCancelled
<1> QED BY <1>1, <1>2, <1>3, <1>4, <1>5 DEF LifeInv

(* The session is gone once its stop is done.                                *)
LEMMA CleanupEndsLives == ASSUME LifeInv, CleanupEnds PROVE LifeInv'
<1>i. LifeTyped /\ (crossed \/ (OneBehindAnother /\ OneStops /\ HistoryKept /\ TellsOnce))
  BY DEF LifeInv
<1>1. LifeTyped'
  BY <1>i DEF LifeTyped, CleanupEnds
<1>2. ASSUME ~crossed' PROVE OneBehindAnother'
  BY <1>i, <1>2 DEF OneBehindAnother, TaskStop, CleanupStop, CleanupEnds
<1>3. ASSUME ~crossed' PROVE OneStops'
  BY <1>i, <1>3 DEF CleanupStop, OneStops, Untold, Active, CleanupEnds
<1>4. ASSUME ~crossed' PROVE HistoryKept'
  BY <1>i, <1>4 DEF TaskStop, CleanupStop, HistoryKept, CleanupEnds
<1>5. ASSUME ~crossed' PROVE TellsOnce'
  BY <1>i, <1>5 DEF TellsOnce, Told, CleanupEnds
<1> QED BY <1>1, <1>2, <1>3, <1>4, <1>5 DEF LifeInv

(* A configured setup is on its way to the caller that waits.                *)
LEMMA ConfiguredLives == ASSUME LifeInv, Configured PROVE LifeInv'
<1>i. LifeTyped /\ (crossed \/ (OneBehindAnother /\ OneStops /\ HistoryKept /\ TellsOnce))
  BY DEF LifeInv
<1>1. LifeTyped'
  BY <1>i DEF LifeTyped, Configured
<1>2. ASSUME ~crossed' PROVE OneBehindAnother'
  BY <1>i, <1>2 DEF OneBehindAnother, TaskStop, CleanupStop, Configured
<1>3. ASSUME ~crossed' PROVE OneStops'
  BY <1>i, <1>3 DEF OneBehindAnother, LifeTyped, TaskStop, CleanupStop, OneStops, Untold,
     Configured
<1>4. ASSUME ~crossed' PROVE HistoryKept'
  BY <1>i, <1>4 DEF OneBehindAnother, LifeTyped, HistoryKept, Configured
<1>5. ASSUME ~crossed' PROVE TellsOnce'
  BY <1>i, <1>5 DEF TellsOnce, Configured
<1> QED BY <1>1, <1>2, <1>3, <1>4, <1>5 DEF LifeInv

(* A config setup that failed leaves its caller waiting.                     *)
LEMMA ConfigFailsLives == ASSUME LifeInv, ConfigFails PROVE LifeInv'
<1>i. LifeTyped /\ (crossed \/ (OneBehindAnother /\ OneStops /\ HistoryKept /\ TellsOnce))
  BY DEF LifeInv
<1>1. LifeTyped'
  BY <1>i DEF LifeTyped, ConfigFails
<1>2. ASSUME ~crossed' PROVE OneBehindAnother'
  BY <1>i, <1>2 DEF OneBehindAnother, TaskStop, CleanupStop, ConfigFails
<1>3. ASSUME ~crossed' PROVE OneStops'
  BY <1>i, <1>3 DEF OneBehindAnother, LifeTyped, Callers, TaskStop, CleanupStop, OneStops,
     Untold, Active, ConfigFails
<1>4. ASSUME ~crossed' PROVE HistoryKept'
  BY <1>i, <1>4 DEF TaskStop, HistoryKept, ConfigFails
<1>5. ASSUME ~crossed' PROVE TellsOnce'
  BY <1>i, <1>5 DEF OneBehindAnother, TellsOnce, ConfigFails
<1> QED BY <1>1, <1>2, <1>3, <1>4, <1>5 DEF LifeInv

(* The caller gives the wait up, and cleans the session.                     *)
LEMMA ConfigTimesOutLives == ASSUME LifeInv, ConfigTimesOut PROVE LifeInv'
<1>i. LifeTyped /\ (crossed \/ (OneBehindAnother /\ OneStops /\ HistoryKept /\ TellsOnce))
  BY DEF LifeInv
<1>1. LifeTyped'
  BY <1>i DEF LifeTyped, ConfigTimesOut
<1>2. ASSUME ~crossed' PROVE OneBehindAnother'
  BY <1>i, <1>2 DEF OneBehindAnother, TaskStop, CleanupStop, ConfigTimesOut
<1>3. ASSUME ~crossed' PROVE OneStops'
  BY <1>i, <1>3 DEF TaskStop, CleanupStop, OneStops, Untold, Active, ConfigTimesOut
<1>4. ASSUME ~crossed' PROVE HistoryKept'
  BY <1>i, <1>4 DEF TaskStop, CleanupStop, HistoryKept, ConfigTimesOut
<1>5. ASSUME ~crossed' PROVE TellsOnce'
  BY <1>i, <1>5 DEF TellsOnce, Told, ConfigTimesOut
<1> QED BY <1>1, <1>2, <1>3, <1>4, <1>5 DEF LifeInv

(* A config call that is cancelled before it waits leaves its session.       *)
LEMMA ConfigCancelledLives == ASSUME LifeInv, ConfigCancelled PROVE LifeInv'
<1>i. LifeTyped /\ (crossed \/ (OneBehindAnother /\ OneStops /\ HistoryKept /\ TellsOnce))
  BY DEF LifeInv
<1>1. LifeTyped'
  BY <1>i DEF LifeTyped, ConfigCancelled, Cancel
<1>2. ASSUME ~crossed' PROVE OneBehindAnother'
  <2>0. runner \in {"configuring", "waiting"} /\ UNCHANGED <<kind, task, stop, status, answer, open, crossed>>
    BY DEF ConfigCancelled
  <2>c. cancels' > 0
    BY <1>i DEF ConfigCancelled, Cancel, LifeTyped
  <2>o. OneBehindAnother
    BY <1>i, <1>2, <2>0
  <2>k. kind = "config"
    BY <1>i, <2>0, <2>o DEF LifeTyped, OneBehindAnother
  <2>2. \/ runner' = "cancelled" /\ session' = session
        \/ runner' = runner /\ runner = "waiting" /\ session' = "closing" /\ session = "open"
    BY DEF ConfigCancelled
  <2> QED BY <2>0, <2>c, <2>o, <2>k, <2>2 DEF OneBehindAnother, TaskStop, CleanupStop, Before
<1>3. ASSUME ~crossed' PROVE OneStops'
  BY <1>i, <1>3 DEF TaskStop, CleanupStop, OneStops, Untold, Active, ConfigCancelled
<1>4. ASSUME ~crossed' PROVE HistoryKept'
  BY <1>i, <1>4 DEF TaskStop, CleanupStop, HistoryKept, ConfigCancelled
<1>5. ASSUME ~crossed' PROVE TellsOnce'
  BY <1>i, <1>5 DEF TellsOnce, Told, ConfigCancelled
<1> QED BY <1>1, <1>2, <1>3, <1>4, <1>5 DEF LifeInv

(* Of two callers of stop() that do not cross, the second finds it stopped.  *)
LEMMA StopBeginsLives == ASSUME LifeInv, NEW w \in Callers, StopBegins(w) PROVE LifeInv'
<1>i. LifeTyped /\ (crossed \/ (OneBehindAnother /\ OneStops /\ HistoryKept /\ TellsOnce))
  BY DEF LifeInv
<1>1. LifeTyped'
  BY <1>i DEF LifeTyped, StopBegins
<1>2. ASSUME ~crossed' PROVE OneBehindAnother'
  BY <1>i, <1>2 DEF OneBehindAnother, LifeTyped, Callers, Before, TaskStop, CleanupStop,
     OneStops, Untold, StopBegins, AlreadyStopped
<1>3. ASSUME ~crossed' PROVE OneStops'
  <2>0. OneBehindAnother /\ OneStops
    BY <1>i, <1>3 DEF StopBegins
  <2>1. UNCHANGED stream
    BY DEF StopBegins
  <2>2. CASE w = "task"
    <3>1. /\ stop["task"] = "idle" /\ stop["session"] = "idle" /\ stop'["session"] = "idle" /\ hooks = 0
          /\ \/ AlreadyStopped /\ stop'["task"] = "done" /\ UNCHANGED <<status, hooks>>
             \/ stop'["task"] = "cleanup" /\ hooks' = 1 /\ status' = "stopping"
      BY <1>i, <2>0, <2>2 DEF StopBegins, LifeTyped, Callers, OneBehindAnother, OneStops,
         TaskStop, CleanupStop
    <3> QED BY <2>0, <2>1, <3>1 DEF OneStops, TaskStop, CleanupStop, Untold, AlreadyStopped,
               Active, Callers
  <2>3. CASE w = "session"
    <3>1. /\ stop["session"] = "idle" /\ stop'["task"] = stop["task"] /\ stop["task"] \in {"idle", "done"}
          /\ \/ AlreadyStopped /\ stop'["session"] = "done" /\ UNCHANGED <<status, hooks>>
             \/ ~AlreadyStopped /\ stop'["session"] = "cleanup" /\ hooks' = hooks + 1 /\ status' = "stopping"
      BY <1>i, <2>0, <2>3 DEF StopBegins, LifeTyped, Callers, OneBehindAnother, TaskStop
    <3>2. ~AlreadyStopped => stop["task"] = "idle" /\ hooks = 0
      BY <2>0, <3>1 DEF OneStops, Untold, TaskStop, CleanupStop, AlreadyStopped
    <3> QED BY <2>0, <2>1, <3>1, <3>2 DEF OneStops, TaskStop, CleanupStop, Untold,
               AlreadyStopped, Active, Callers
  <2> QED BY <2>2, <2>3 DEF Callers
<1>4. ASSUME ~crossed' PROVE HistoryKept'
  <2>1. CASE w = "task"
    BY <2>1, <1>i, <1>4 DEF OneBehindAnother, LifeTyped, Callers, TaskStop, CleanupStop,
       OneStops, HistoryKept, StopBegins, AlreadyStopped
  <2>2. CASE w = "session"
    BY <2>2, <1>i, <1>4 DEF OneBehindAnother, LifeTyped, Callers, TaskStop, HistoryKept,
       StopBegins, AlreadyStopped
  <2> QED BY <2>1, <2>2 DEF Callers
<1>5. ASSUME ~crossed' PROVE TellsOnce'
  BY <1>i, <1>5 DEF TellsOnce, Told, StopBegins
<1> QED BY <1>1, <1>2, <1>3, <1>4, <1>5 DEF LifeInv

(* The author's cleanup() returns, or raises and counts as an upset.         *)
LEMMA HookEndsLives == ASSUME LifeInv, NEW w \in Callers, HookEnds(w) PROVE LifeInv'
<1>i. LifeTyped /\ (crossed \/ (OneBehindAnother /\ OneStops /\ HistoryKept /\ TellsOnce))
  BY DEF LifeInv
<1>1. LifeTyped'
  BY <1>i DEF LifeTyped, HookEnds, Upset
<1>2. ASSUME ~crossed' PROVE OneBehindAnother'
  BY <1>i, <1>2 DEF OneBehindAnother, LifeTyped, Callers, TaskStop, CleanupStop, OneStops,
     Active, HookEnds
<1>3. ASSUME ~crossed' PROVE OneStops'
  <2>1. CASE w = "task"
    BY <2>1, <1>i, <1>3 DEF OneBehindAnother, LifeTyped, Callers, TaskStop, CleanupStop,
       OneStops, Untold, Active, HookEnds
  <2>2. CASE w = "session"
    BY <2>2, <1>i, <1>3 DEF OneBehindAnother, LifeTyped, Callers, TaskStop, CleanupStop,
       OneStops, Untold, Active, HookEnds
  <2> QED BY <2>1, <2>2 DEF Callers
<1>4. ASSUME ~crossed' PROVE HistoryKept'
  <2>1. CASE w = "task"
    BY <2>1, <1>i, <1>4 DEF LifeTyped, Callers, TaskStop, CleanupStop, HistoryKept, HookEnds
  <2>2. CASE w = "session"
    BY <2>2, <1>i, <1>4 DEF LifeTyped, Callers, TaskStop, CleanupStop, HistoryKept, HookEnds
  <2> QED BY <2>1, <2>2 DEF Callers
<1>5. ASSUME ~crossed' PROVE TellsOnce'
  BY <1>i, <1>5 DEF LifeTyped, TellsOnce, Told, HookEnds, Upset
<1> QED BY <1>1, <1>2, <1>3, <1>4, <1>5 DEF LifeInv

(* The last flush leaves nothing unsaved, or was upset.                      *)
LEMMA FlushesLives == ASSUME LifeInv, NEW w \in Callers, Flushes(w) PROVE LifeInv'
<1>i. LifeTyped /\ (crossed \/ (OneBehindAnother /\ OneStops /\ HistoryKept /\ TellsOnce))
  BY DEF LifeInv
<1>1. LifeTyped'
  BY <1>i DEF LifeTyped, Flushes, FlushAll, StoresHistory, Upset
<1>2. ASSUME ~crossed' PROVE OneBehindAnother'
  BY <1>i, <1>2 DEF OneBehindAnother, LifeTyped, Callers, TaskStop, CleanupStop, Flushes
<1>3. ASSUME ~crossed' PROVE OneStops'
  <2>1. CASE w = "task"
    BY <2>1, <1>i, <1>3 DEF TaskStop, CleanupStop, OneStops, Untold, Active, Flushes
  <2>2. CASE w = "session"
    BY <2>2, <1>i, <1>3 DEF TaskStop, CleanupStop, OneStops, Untold, Active, Flushes
  <2> QED BY <2>1, <2>2 DEF Callers
<1>4. ASSUME ~crossed' PROVE HistoryKept'
  <2>0. OneBehindAnother /\ HistoryKept
    BY <1>i, <1>4 DEF Flushes
  <2>1. stop[w] = "flush" /\ UNCHANGED <<kind, task, session, open, status>>
    BY DEF Flushes
  <2>2. ~unsaved' \/ (unsaved /\ (open => upsets' > 0))
    BY <1>i DEF Flushes, FlushAll, StoresHistory, Upset, LifeTyped
  <2>3. ~unsaved => ~unsaved'
    BY DEF Flushes, FlushAll, StoresHistory
  <2>4. ~unsaved' \/ upsets' > 0
    <3>1. CASE w = "task"
      <4>1. open
        BY <1>i, <2>0, <2>1, <3>1 DEF OneBehindAnother, LifeTyped, TaskStop
      <4> QED BY <2>2, <4>1
    <3>2. CASE w = "session"
      <4>1. ~unsaved
        BY <1>i, <2>0, <2>1, <3>2 DEF OneBehindAnother, HistoryKept, LifeTyped, CleanupStop
      <4> QED BY <2>3, <4>1
    <3> QED BY <3>1, <3>2 DEF Callers
  <2>5. TaskStop' = "idle" => TaskStop = "idle"
    BY <1>i DEF Flushes, TaskStop
  <2> QED BY <2>0, <2>1, <2>3, <2>4, <2>5 DEF HistoryKept
<1>5. ASSUME ~crossed' PROVE TellsOnce'
  BY <1>i, <1>5 DEF LifeTyped, TellsOnce, Told, Flushes, FlushAll, StoresHistory, Upset
<1> QED BY <1>1, <1>2, <1>3, <1>4, <1>5 DEF LifeInv

(* The stream's end and its long TTL come together, from one stop.           *)
LEMMA SendsEosLives == ASSUME LifeInv, NEW w \in Callers, SendsEos(w) PROVE LifeInv'
<1>i. LifeTyped /\ (crossed \/ (OneBehindAnother /\ OneStops /\ HistoryKept /\ TellsOnce))
  BY DEF LifeInv
<1>0. stop[w] = "eos" /\ UNCHANGED <<kind, task, session, open, unsaved, hooks, crossed>>
  BY DEF SendsEos
<1>d. stop' = [stop EXCEPT ![w] = "done"] /\ stop'[w] = "done"
  BY <1>i DEF SendsEos, LifeTyped
<1>1. LifeTyped'
  BY <1>i DEF LifeTyped, SendsEos, Upset
<1>2. ASSUME ~crossed' PROVE OneBehindAnother'
  BY <1>i, <1>2 DEF OneBehindAnother, LifeTyped, Callers, TaskStop, CleanupStop, OneStops,
     Active, SendsEos
<1>3. ASSUME ~crossed' PROVE OneStops'
  <2>0. OneBehindAnother /\ OneStops
    BY <1>i, <1>3, <1>0
  <2>1. /\ Untold /\ ~Untold' /\ status' \in {"stopped", "failed"}
        /\ ~Active("task")' /\ ~Active("session")'
    <3>1. CASE w = "task"
      BY <1>0, <1>d, <1>i, <2>0, <3>1 DEF OneBehindAnother, LifeTyped, Untold, Active, Callers,
         TaskStop, CleanupStop, SendsEos
    <3>2. CASE w = "session"
      BY <1>0, <1>d, <1>i, <2>0, <3>2 DEF OneBehindAnother, LifeTyped, Untold, Active, Callers,
         TaskStop, CleanupStop, SendsEos
    <3> QED BY <3>1, <3>2 DEF Callers
  <2>2. \A i \in 1..Len(stream) : stream[i] # "eos"
    BY <2>0, <2>1 DEF OneStops
  <2>3. \A i \in 1..Len(stream') : stream'[i] = "eos" => i = Len(stream')
    <3>1. CASE stream' = stream
      BY <3>1, <2>2
    <3>2. CASE stream' = Append(stream, "eos")
      <4>1. /\ Len(stream) \in Nat /\ Len(stream') = Len(stream) + 1
            /\ \A i \in 1..Len(stream) : stream'[i] = stream[i]
        BY <3>2, <1>i
      <4> QED BY <4>1, <2>2
    <3> QED BY <3>1, <3>2 DEF SendsEos
  <2>4. ~(TaskStop' = "idle" /\ CleanupStop' = "idle")
    BY <2>1 DEF Untold
  <2>5. hooks' <= 1
    BY <1>0, <2>0 DEF OneStops
  <2> QED BY <2>1, <2>3, <2>4, <2>5 DEF OneStops, Callers
<1>4. ASSUME ~crossed' PROVE HistoryKept'
  <2>0. OneBehindAnother /\ HistoryKept
    BY <1>i, <1>4, <1>0
  <2>1. upsets' = upsets \/ upsets' > 0
    BY <1>i DEF SendsEos, Upset, LifeTyped
  <2>s. status = "stopping"
    BY <1>0, <1>4, <1>i DEF OneStops, Active
  <2>2. ~unsaved \/ upsets > 0
    BY <2>s, <1>0, <2>0 DEF HistoryKept, Callers, TaskStop, CleanupStop
  <2>3. TaskStop' = "idle" => TaskStop = "idle"
    BY <1>d, <1>i DEF TaskStop
  <2>4. ~unsaved' \/ upsets' > 0
    BY <1>0, <2>1, <2>2
  <2> QED BY <1>0, <2>0, <2>3, <2>4 DEF HistoryKept
<1>5. ASSUME ~crossed' PROVE TellsOnce'
  BY <1>i, <1>5 DEF OneBehindAnother, LifeTyped, Callers, Before, TaskStop, CleanupStop,
     TellsOnce, Told, SendsEos, Upset
<1> QED BY <1>1, <1>2, <1>3, <1>4, <1>5 DEF LifeInv

(* An instance as it is created.                                             *)
LEMMA LifeBegins == LifeInit => LifeInv
<1> SUFFICES ASSUME LifeInit PROVE LifeInv
  OBVIOUS
<1>1. LifeTyped
  BY EmptySeq DEF LifeInit, LifeTyped
<1>2. stream = <<>> /\ Len(stream) = 0 /\ (\A w \in Callers : stop[w] = "idle")
      /\ stop["task"] = "idle" /\ stop["session"] = "idle"
  BY DEF LifeInit, Callers
<1>3. OneBehindAnother
  BY <1>2 DEF LifeInit, OneBehindAnother, TaskStop, CleanupStop
<1>a. \A w \in Callers : ~Active(w)
  BY <1>2 DEF Active
<1>4. OneStops
  <2>1. hooks = 0 /\ status # "stopped" /\ Untold
    BY <1>2 DEF LifeInit, Untold, TaskStop, CleanupStop
  <2>2. \A i \in 1..Len(stream) : FALSE
    BY <1>2
  <2> QED BY <1>a, <2>1, <2>2 DEF OneStops
<1>5. HistoryKept /\ TellsOnce
  BY <1>2 DEF LifeInit, HistoryKept, TellsOnce
<1> QED BY <1>1, <1>3, <1>4, <1>5 DEF LifeInv

(* Every step of an instance and of those who stop it.                       *)
LEMMA LifeGoesOn == ASSUME LifeInv, [LifeNext]_lvars PROVE LifeInv'
<1>1. CASE LifeNext
  BY <1>1, PreparedLives, TurnedDownLives, RunnerCancelledLives, CreatedLives, StartsLives,
     EmitsLives, NotesFileLives, HandlerReturnsLives, RunFlushedLives, RunFailsLives, TellsLives,
     TaskCancelledLives, TaskEndsLives, FinalizerCleansLives, CancellerCleansLives, ContextCleanedLives,
     CleanupCancelledLives, CleanupEndsLives, ConfiguredLives, ConfigFailsLives,
     ConfigTimesOutLives, ConfigCancelledLives, StopBeginsLives, HookEndsLives, FlushesLives,
     SendsEosLives
     DEF LifeNext
<1>2. CASE UNCHANGED lvars
  <2>1. LifeTyped' <=> LifeTyped
    BY <1>2 DEF lvars, LifeTyped
  <2>2. OneBehindAnother' <=> OneBehindAnother
    BY <1>2 DEF lvars, OneBehindAnother, Before, TaskStop, CleanupStop
  <2>3. OneStops' <=> OneStops
    <3>1. /\ (\A w \in Callers : Active(w)' <=> Active(w)) /\ (Untold' <=> Untold)
          /\ UNCHANGED <<hooks, status, stream, stop, TaskStop, CleanupStop>>
      BY <1>2 DEF lvars, Active, Untold, TaskStop, CleanupStop
    <3> QED BY <3>1 DEF OneStops
  <2>4. HistoryKept' <=> HistoryKept
    BY <1>2 DEF lvars, HistoryKept, TaskStop, CleanupStop
  <2>5. TellsOnce' <=> TellsOnce
    BY <1>2 DEF lvars, TellsOnce, Told, Before
  <2> QED BY <1>2, <2>1, <2>2, <2>3, <2>4, <2>5 DEF lvars, LifeInv
<1> QED BY <1>1, <1>2

(* What holds of an instance gives the four parts of EndsInOrder.            *)
LEMMA LivesInOrder == LifeInv => EndsInOrder
<1> SUFFICES ASSUME LifeInv, ~crossed PROVE EndsInOrder
  BY DEF EndsInOrder, StopsOnce, IsTold, ServicesClosed, HistoryStored
<1>i. LifeTyped /\ OneBehindAnother /\ OneStops /\ HistoryKept /\ TellsOnce
  BY DEF LifeInv
<1>1. StopsOnce
  BY <1>i DEF StopsOnce, OneStops
<1>2. Settled => CleanupStop = "done" /\ status \in {"stopped", "failed"} /\ ~open /\ task \notin {"telling"}
  BY <1>i DEF Settled, OneBehindAnother, OneStops, Untold
<1>3. IsTold
  <2> SUFFICES ASSUME Settled, upsets = 0
               PROVE  /\ kind = "task" => Told
                      /\ kind = "config" => answer \in {"setup", "deadline"} \/ cancels > 0
    BY DEF IsTold, Told
  <2>1. kind = "task" => Told
    BY <1>i, <1>2 DEF TellsOnce
  <2>2. kind = "config" => answer \in {"setup", "deadline"} \/ cancels > 0
    BY <1>i DEF OneBehindAnother, Settled
  <2> QED BY <2>1, <2>2
<1>4. ServicesClosed
  BY <1>2 DEF ServicesClosed
<1>5. HistoryStored
  BY <1>i, <1>2 DEF HistoryStored, HistoryKept
<1> QED BY <1>1, <1>3, <1>4, <1>5 DEF EndsInOrder

(* However a run ends, it ends once, its caller is told, its services are    *)
(* closed and its history is stored, but for the exceptions that EndsInOrder *)
(* names: BaseModule.stop, called from the task and from                     *)
(* TaskSession.cleanup.                                                      *)
THEOREM EndedInOrder == LifeSpec => []EndsInOrder
<1>1. LifeInit => LifeInv
  BY LifeBegins
<1>2. LifeInv /\ [LifeNext]_lvars => LifeInv'
  BY LifeGoesOn
<1>3. LifeInv => EndsInOrder
  BY LivesInOrder
<1> QED BY <1>1, <1>2, <1>3, PTL DEF LifeSpec

HIDE DEF Over
-----------------------------------------------------------------------------
(* ServerLife, over its signal listener.                                     *)

ServerNext == OwnerStep \/ (\E p \in Posts : RequestStep(p)) \/ Listener
ServerSpec == SignalInit /\ ServerInit /\ [][ServerNext]_avars

Rising == {"binding", "verifying", "listening", "started", "probing", "registering"}
Owners == Rising \cup Stopping \cup {"up", "raised", "closing"}
Dials == {"none", "live", "reaping", "over"}
Calls == {"none", "seeding", "refused", "abandoned", "answered"}

ServerTyped ==
  /\ owner \in Owners /\ starts \in Nat /\ advertised \in Nat /\ sessions \subseteq Posts
  /\ call \in [Posts -> Calls] /\ dial \in [Posts -> Dials]

(* What the server may hold open that somebody is still to close.            *)
Channels == {"registry", "pooled"}
Redis == {"servicerRedis", "registryCache"}
MayHold ==
  CASE owner \in Rising \cup {"up", "raised"} -> {"setup", "profile", "sweeper", "gatewayRedis"} \cup Redis \cup Channels
    [] owner = "closing"                  -> {"sweeper", "gatewayRedis"} \cup Redis \cup Channels
    [] owner = "closed"                   -> {"sweeper", "gatewayRedis"} \cup Channels
    [] owner = "draining"                 -> {"sweeper", "gatewayRedis", "pooled"}
    [] owner \in {"gathering", "drained"} -> {"gatewayRedis", "pooled"}
    [] owner \in {"unbinding", "sweeping"} -> {"pooled"}
    [] owner = "off"                      -> {}
Held ==
  /\ \A r \in opened \ left : r \in Mine(MayHold)
  /\ starts <= MaxStarts /\ (owner # "off" => starts > 0)

(* Who takes a session out of the registry, and who ends a dial.             *)
HasKeeper(p) == call[p] \in {"seeding", "abandoned"} \/ dial[p] \in {"live", "reaping"}
Ended(p) ==
  dial[p] = "live" /\ p \notin stray =>
    /\ p \in watched
    /\ owner = "gathering" => p \in doomed
    /\ owner \notin {"drained", "unbinding", "sweeping", "off"}
TakenOut == (\A p \in sessions : HasKeeper(p)) /\ \A p \in Posts : Ended(p)

(* The address is given away by a server that is up.                         *)
Up ==
  /\ advertised <= starts /\ (owner \in Rising => advertised < starts)
  /\ owner \in Rising \ {"binding"} => serving
  /\ owner \in Rising \ {"binding", "verifying"} \/ owner = "up" \/ (owner = "raised" /\ advertised = starts) =>
       serving /\ verified /\ <<starts, "sweeper">> \in opened

ServerInv == ServerTyped /\ Held /\ TakenOut /\ Up
-----------------------------------------------------------------------------
(* A start opens what belongs to it, in a phase that still closes it all.    *)
LEMMA CreatesLeaves == ASSUME ServerInv, Creates PROVE ServerInv'
<1>i. ServerTyped /\ Held /\ TakenOut /\ Up
  BY DEF ServerInv
<1>1. ServerTyped'
  BY <1>i DEF ServerTyped, Owners, Rising, Creates, OwnerOnly
<1>2. Held'
  BY <1>i, ServerAssumption DEF Held, MayHold, Mine, Redis, ServerTyped, Rising, Creates,
     ServicerOpens, GatewayOpens
<1>3. TakenOut'
  BY <1>i DEF TakenOut, Ended, Creates, OwnerOnly
<1>4. Up'
  BY <1>i DEF Up, ServerTyped, Creates
<1> QED BY <1>1, <1>2, <1>3, <1>4 DEF ServerInv

(* A start that fails before there is a server opens nothing.                *)
LEMMA CreateFailsLeaves == ASSUME ServerInv, CreateFails PROVE ServerInv'
<1>i. ServerTyped /\ Held /\ TakenOut /\ Up
  BY DEF ServerInv
<1>1. ServerTyped'
  BY <1>i DEF ServerTyped, CreateFails, OwnerOnly
<1>2. Held'
  BY <1>i, ServerAssumption DEF Held, MayHold, Mine, ServerTyped, CreateFails
<1>3. TakenOut'
  BY <1>i DEF TakenOut, HasKeeper, Ended, CreateFails, OwnerOnly
<1>4. Up'
  BY <1>i DEF Up, ServerTyped, Rising, CreateFails
<1> QED BY <1>1, <1>2, <1>3, <1>4 DEF ServerInv

(* grpc serves: nothing is advertised yet.                                   *)
LEMMA ServesLeaves == ASSUME ServerInv, Serves PROVE ServerInv'
<1>i. ServerTyped /\ Held /\ TakenOut /\ Up
  BY DEF ServerInv
<1>1. ServerTyped'
  BY <1>i DEF ServerTyped, Owners, Rising, Serves, Requests
<1>2. Held'
  BY <1>i DEF Held, MayHold, Mine, Rising, Serves
<1>3. TakenOut'
  BY <1>i DEF TakenOut, HasKeeper, Ended, Serves, Requests
<1>4. Up'
  BY <1>i DEF Up, Rising, Serves
<1> QED BY <1>1, <1>2, <1>3, <1>4 DEF ServerInv

(* The gateway has reached Redis and its sweeper runs, in this order.        *)
LEMMA VerifiesLeaves == ASSUME ServerInv, Verifies PROVE ServerInv'
<1>i. ServerTyped /\ Held /\ TakenOut /\ Up
  BY DEF ServerInv
<1>1. ServerTyped'
  BY <1>i DEF ServerTyped, Owners, Rising, Verifies, Requests
<1>2. Held'
  BY <1>i DEF Held, MayHold, Mine, Rising, Verifies, Opens
<1>3. TakenOut'
  BY <1>i DEF TakenOut, HasKeeper, Ended, Verifies, Requests
<1>4. Up'
  BY <1>i DEF Up, Mine, Rising, Verifies, VerifyFirst, Opens
<1> QED BY <1>1, <1>2, <1>3, <1>4 DEF ServerInv

(* The start goes on, whether or not the listener came up.                   *)
LEMMA ListenerUpLeaves == ASSUME ServerInv, ListenerUp PROVE ServerInv'
<1>i. ServerTyped /\ Held /\ TakenOut /\ Up
  BY DEF ServerInv
<1>1. ServerTyped'
  BY <1>i DEF ServerTyped, Owners, Rising, ListenerUp, Requests
<1>2. Held'
  BY <1>i DEF Held, MayHold, Mine, Rising, ListenerUp
<1>3. TakenOut'
  BY <1>i DEF TakenOut, HasKeeper, Ended, ListenerUp, Requests
<1>4. Up'
  BY <1>i DEF Up, Rising, ListenerUp
<1> QED BY <1>1, <1>2, <1>3, <1>4 DEF ServerInv

(* The registry client of a start is opened before it is asked.              *)
LEMMA RegistersLeaves == ASSUME ServerInv, Registers PROVE ServerInv'
<1>i. ServerTyped /\ Held /\ TakenOut /\ Up
  BY DEF ServerInv
<1>1. ServerTyped'
  BY <1>i DEF ServerTyped, Owners, Rising, Registers, Requests
<1>2. Held'
  BY <1>i DEF Held, MayHold, Mine, Channels, Rising, Registers, Opens
<1>3. TakenOut'
  BY <1>i DEF TakenOut, HasKeeper, Ended, Registers, Requests
<1>4. Up'
  BY <1>i DEF Up, Rising, Registers, Opens
<1> QED BY <1>1, <1>2, <1>3, <1>4 DEF ServerInv

(* The probe of the registry opens nothing.                                  *)
LEMMA ProbedLeaves == ASSUME ServerInv, Probed PROVE ServerInv'
<1>i. ServerTyped /\ Held /\ TakenOut /\ Up
  BY DEF ServerInv
<1>1. ServerTyped'
  BY <1>i DEF ServerTyped, Owners, Rising, Probed, Requests
<1>2. Held'
  BY <1>i DEF Held, MayHold, Mine, Rising, Probed
<1>3. TakenOut'
  BY <1>i DEF TakenOut, HasKeeper, Ended, Probed, Requests
<1>4. Up'
  BY <1>i DEF Up, Rising, Probed
<1> QED BY <1>1, <1>2, <1>3, <1>4 DEF ServerInv

(* The address is given away by a server that serves, has reached Redis and  *)
(* sweeps.                                                                   *)
LEMMA RegisteredLeaves == ASSUME ServerInv, Registered PROVE ServerInv'
<1>i. ServerTyped /\ Held /\ TakenOut /\ Up
  BY DEF ServerInv
<1>1. ServerTyped'
  BY <1>i DEF ServerTyped, Owners, Registered, Requests
<1>2. Held'
  BY <1>i DEF Held, MayHold, Mine, Rising, Registered
<1>3. TakenOut'
  BY <1>i DEF TakenOut, HasKeeper, Ended, Registered, Requests
<1>4. Up'
  BY <1>i DEF Up, ServerTyped, Rising, Registered
<1> QED BY <1>1, <1>2, <1>3, <1>4 DEF ServerInv

(* A start that raised left everything to stop_async, the address perhaps    *)
(* given away.                                                               *)
LEMMA StartRaisesLeaves == ASSUME ServerInv, StartRaises PROVE ServerInv'
<1>i. ServerTyped /\ Held /\ TakenOut /\ Up
  BY DEF ServerInv
<1>1. ServerTyped'
  BY <1>i DEF ServerTyped, Owners, StartRaises, Requests
<1>2. Held'
  BY <1>i DEF Held, MayHold, Mine, Rising, StartRaises, Starting
<1>3. TakenOut'
  BY <1>i DEF TakenOut, HasKeeper, Ended, StartRaises, Requests
<1>4. Up'
  BY <1>i DEF Up, ServerTyped, Rising, StartRaises, Starting
<1> QED BY <1>1, <1>2, <1>3, <1>4 DEF ServerInv

(* The clients the servicer owns are closed, or failed to close.             *)
LEMMA ShutsLeaves == ASSUME ServerInv, Shuts PROVE ServerInv'
<1>i. ServerTyped /\ Held /\ TakenOut /\ Up
  BY DEF ServerInv
<1>1. ServerTyped'
  BY <1>i DEF ServerTyped, Owners, Shuts, Requests
<1>2. Held'
  BY <1>i DEF Held, MayHold, Mine, Shuts, Closes, FailsToClose
<1>3. TakenOut'
  BY <1>i DEF TakenOut, HasKeeper, Ended, Shuts, Requests
<1>4. Up'
  BY <1>i DEF Up, Rising, Shuts
<1> QED BY <1>1, <1>2, <1>3, <1>4 DEF ServerInv

(* The servicer's pools are closed together with the registry cache, or not  *)
(* at all.                                                                   *)
LEMMA ClosesItsRedisLeaves == ASSUME ServerInv, ClosesItsRedis PROVE ServerInv'
<1>i. ServerTyped /\ Held /\ TakenOut /\ Up
  BY DEF ServerInv
<1>1. ServerTyped'
  BY <1>i DEF ServerTyped, Owners, Stopping, ClosesItsRedis, Requests
<1>2. Held'
  BY <1>i DEF Held, MayHold, Mine, Redis, ClosesItsRedis, Closes, ClosesServicer
<1>3. TakenOut'
  BY <1>i DEF TakenOut, HasKeeper, Ended, ClosesItsRedis, Requests
<1>4. Up'
  BY <1>i DEF Up, Rising, ClosesItsRedis
<1> QED BY <1>1, <1>2, <1>3, <1>4 DEF ServerInv

(* The registry client is closed, or failed to close.                        *)
LEMMA ClosesRegistryLeaves == ASSUME ServerInv, ClosesRegistry PROVE ServerInv'
<1>i. ServerTyped /\ Held /\ TakenOut /\ Up
  BY DEF ServerInv
<1>1. ServerTyped'
  BY <1>i DEF ServerTyped, Owners, Stopping, ClosesRegistry, Requests
<1>2. Held'
  BY <1>i DEF Held, MayHold, Mine, Channels, ClosesRegistry, Closes, FailsToClose
<1>3. TakenOut'
  BY <1>i DEF TakenOut, HasKeeper, Ended, ClosesRegistry, Requests
<1>4. Up'
  BY <1>i DEF Up, Rising, ClosesRegistry
<1> QED BY <1>1, <1>2, <1>3, <1>4 DEF ServerInv

(* The sweeper is gone, and every dial that is watched is cancelled.         *)
LEMMA StopsGatewayLeaves == ASSUME ServerInv, StopsGateway PROVE ServerInv'
<1>i. ServerTyped /\ Held /\ TakenOut /\ Up
  BY DEF ServerInv
<1>1. ServerTyped'
  BY <1>i DEF ServerTyped, Owners, Stopping, StopsGateway, OwnerOnly
<1>2. Held'
  BY <1>i DEF Held, MayHold, Mine, StopsGateway, Closes
<1>3. TakenOut'
  BY <1>i DEF TakenOut, HasKeeper, Ended, StopsGateway, CancelDials, OwnerOnly
<1>4. Up'
  BY <1>i DEF Up, Rising, StopsGateway
<1> QED BY <1>1, <1>2, <1>3, <1>4 DEF ServerInv

(* The cancelled dials are over, and the sessions left are torn down.        *)
LEMMA GatheredLeaves == ASSUME ServerInv, Gathered PROVE ServerInv'
<1>i. ServerTyped /\ Held /\ TakenOut /\ Up
  BY DEF ServerInv
<1>1. ServerTyped'
  BY <1>i DEF ServerTyped, Owners, Stopping, Gathered, OwnerOnly
<1>2. Held'
  BY <1>i DEF Held, MayHold, Mine, Gathered
<1>3. TakenOut'
  BY <1>i DEF TakenOut, Ended, Gathered, OwnerOnly
<1>4. Up'
  BY <1>i DEF Up, Rising, Gathered
<1> QED BY <1>1, <1>2, <1>3, <1>4 DEF ServerInv

(* The gateway's Redis pools are closed, or failed to close.                 *)
LEMMA ClosesGatewayRedisLeaves == ASSUME ServerInv, ClosesGatewayRedis PROVE ServerInv'
<1>i. ServerTyped /\ Held /\ TakenOut /\ Up
  BY DEF ServerInv
<1>1. ServerTyped'
  BY <1>i DEF ServerTyped, Owners, Stopping, ClosesGatewayRedis, Requests
<1>2. Held'
  BY <1>i DEF Held, MayHold, Mine, ClosesGatewayRedis, Closes, FailsToClose
<1>3. TakenOut'
  BY <1>i DEF TakenOut, HasKeeper, Ended, ClosesGatewayRedis, Requests
<1>4. Up'
  BY <1>i DEF Up, Rising, ClosesGatewayRedis
<1> QED BY <1>1, <1>2, <1>3, <1>4 DEF ServerInv

(* grpc is down: a call that still seeds is abandoned with its session.      *)
LEMMA UnbindsLeaves == ASSUME ServerInv, Unbinds PROVE ServerInv'
<1>i. ServerTyped /\ Held /\ TakenOut /\ Up
  BY DEF ServerInv
<1>1. ServerTyped'
  BY <1>i DEF ServerTyped, Owners, Stopping, Calls, Unbinds
<1>2. Held'
  BY <1>i DEF Held, MayHold, Mine, Unbinds
<1>3. TakenOut'
  BY <1>i DEF TakenOut, HasKeeper, Ended, ServerTyped, Unbinds
<1>4. Up'
  BY <1>i DEF Up, Rising, Unbinds
<1> QED BY <1>1, <1>2, <1>3, <1>4 DEF ServerInv

(* The sweep of the cached channels is the last to close.                    *)
LEMMA StopsLeaves == ASSUME ServerInv, Stops PROVE ServerInv'
<1>i. ServerTyped /\ Held /\ TakenOut /\ Up
  BY DEF ServerInv
<1>1. ServerTyped'
  BY <1>i DEF ServerTyped, Owners, Stopping, Stops, Requests
<1>2. Held'
  BY <1>i DEF Held, MayHold, Mine, ServerTyped, Stops, SweepsChannels
<1>3. TakenOut'
  BY <1>i DEF TakenOut, HasKeeper, Ended, Stops, Requests
<1>4. Up'
  BY <1>i DEF Up, Rising, Stops
<1> QED BY <1>1, <1>2, <1>3, <1>4 DEF ServerInv

(* A session has StartStream for its keeper until the call is answered.      *)
LEMMA StartStreamLeaves == ASSUME ServerInv, NEW p \in Posts, StartStream(p) PROVE ServerInv'
<1>i. ServerTyped /\ Held /\ TakenOut /\ Up
  BY DEF ServerInv
<1>1. ServerTyped'
  BY <1>i DEF ServerTyped, Calls, StartStream, Untouched
<1>2. Held'
  BY <1>i DEF Held, MayHold, Mine, StartStream, Untouched
<1>3. TakenOut'
  BY <1>i DEF TakenOut, HasKeeper, Ended, ServerTyped, StartStream, Untouched
<1>4. Up'
  BY <1>i DEF Up, StartStream, Untouched
<1> QED BY <1>1, <1>2, <1>3, <1>4 DEF ServerInv

(* A call whose seeding failed takes its session out.                        *)
LEMMA SeedFailsLeaves == ASSUME ServerInv, NEW p \in Posts, SeedFails(p) PROVE ServerInv'
<1>i. ServerTyped /\ Held /\ TakenOut /\ Up
  BY DEF ServerInv
<1>1. ServerTyped'
  BY <1>i DEF ServerTyped, Calls, SeedFails, Untouched
<1>2. Held'
  BY <1>i DEF Held, MayHold, Mine, SeedFails, Untouched
<1>3. TakenOut'
  BY <1>i DEF TakenOut, HasKeeper, Ended, SeedFails, Untouched
<1>4. Up'
  BY <1>i DEF Up, SeedFails, Untouched
<1> QED BY <1>1, <1>2, <1>3, <1>4 DEF ServerInv

(* A call that is cancelled while it seeds keeps the session for ever.       *)
LEMMA AbandonedLeaves == ASSUME ServerInv, NEW p \in Posts, Abandoned(p) PROVE ServerInv'
<1>i. ServerTyped /\ Held /\ TakenOut /\ Up
  BY DEF ServerInv
<1>1. ServerTyped'
  BY <1>i DEF ServerTyped, Calls, Abandoned, Untouched
<1>2. Held'
  BY <1>i DEF Held, MayHold, Mine, Abandoned, Untouched
<1>3. TakenOut'
  BY <1>i DEF TakenOut, HasKeeper, Ended, Abandoned, Untouched
<1>4. Up'
  BY <1>i DEF Up, Abandoned, Untouched
<1> QED BY <1>1, <1>2, <1>3, <1>4 DEF ServerInv

(* A spawned dial takes the session over, and is watched unless it strayed.  *)
LEMMA SpawnDialLeaves == ASSUME ServerInv, NEW p \in Posts, SpawnDial(p) PROVE ServerInv'
<1>i. ServerTyped /\ Held /\ TakenOut /\ Up
  BY DEF ServerInv
<1>1. ServerTyped'
  BY <1>i DEF ServerTyped, Calls, Dials, SpawnDial, Untouched
<1>2. Held'
  BY <1>i DEF Held, MayHold, Mine, SpawnDial, Untouched
<1>3. TakenOut'
  BY <1>i DEF TakenOut, HasKeeper, Ended, ServerTyped, SpawnDial, Spawn, Swept, Untouched
<1>4. Up'
  BY <1>i DEF Up, SpawnDial, Untouched
<1> QED BY <1>1, <1>2, <1>3, <1>4 DEF ServerInv

(* What a run opens anew after its server is stopped counts as left.         *)
LEMMA RunStartsLeaves == ASSUME ServerInv, NEW p \in Posts, RunStarts(p) PROVE ServerInv'
<1>i. ServerTyped /\ Held /\ TakenOut /\ Up
  BY DEF ServerInv
<1>1. ServerTyped'
  BY <1>i DEF ServerTyped, RunStarts, Untouched
<1>2. Held'
  BY <1>i DEF Held, MayHold, Mine, Channels, Redis, ServerTyped, Owners, Stopping, RunStarts,
     Uses, Untouched
<1>3. TakenOut'
  BY <1>i DEF TakenOut, HasKeeper, Ended, RunStarts, Untouched
<1>4. Up'
  BY <1>i DEF Up, RunStarts, Uses, Untouched
<1> QED BY <1>1, <1>2, <1>3, <1>4 DEF ServerInv

(* What a run opens anew when it writes after a stop counts as left.         *)
LEMMA RunWritesLeaves == ASSUME ServerInv, NEW p \in Posts, RunWrites(p) PROVE ServerInv'
<1>i. ServerTyped /\ Held /\ TakenOut /\ Up
  BY DEF ServerInv
<1>1. ServerTyped'
  BY <1>i DEF ServerTyped, RunWrites, Untouched
<1>2. Held'
  BY <1>i DEF Held, MayHold, Mine, Redis, ServerTyped, Owners, Stopping, RunWrites, Uses,
     Untouched
<1>3. TakenOut'
  BY <1>i DEF TakenOut, HasKeeper, Ended, RunWrites, Untouched
<1>4. Up'
  BY <1>i DEF Up, RunWrites, Uses, Untouched
<1> QED BY <1>1, <1>2, <1>3, <1>4 DEF ServerInv

(* The end of a run closes nothing and keeps nothing.                        *)
LEMMA RunEndsLeaves == ASSUME ServerInv, NEW p \in Posts, RunEnds(p) PROVE ServerInv'
<1>i. ServerTyped /\ Held /\ TakenOut /\ Up
  BY DEF ServerInv
<1>1. ServerTyped'
  BY <1>i DEF ServerTyped, RunEnds, Untouched
<1>2. Held'
  BY <1>i DEF Held, MayHold, Mine, RunEnds, Untouched
<1>3. TakenOut'
  BY <1>i DEF TakenOut, HasKeeper, Ended, RunEnds, Untouched
<1>4. Up'
  BY <1>i DEF Up, RunEnds, Untouched
<1> QED BY <1>1, <1>2, <1>3, <1>4 DEF ServerInv

(* A signal opens nothing.                                                   *)
LEMMA SignalLeaves == ASSUME ServerInv, NEW p \in Posts, Signal(p) PROVE ServerInv'
<1>i. ServerTyped /\ Held /\ TakenOut /\ Up
  BY DEF ServerInv
<1>1. ServerTyped'
  BY <1>i DEF ServerTyped, Signal, Untouched
<1>2. Held'
  BY <1>i DEF Held, MayHold, Mine, Signal, Untouched
<1>3. TakenOut'
  BY <1>i DEF TakenOut, HasKeeper, Ended, Signal, Untouched
<1>4. Up'
  BY <1>i DEF Up, Signal, Untouched
<1> QED BY <1>1, <1>2, <1>3, <1>4 DEF ServerInv

(* A dial that ends takes its session out.                                   *)
LEMMA DialEndsLeaves == ASSUME ServerInv, NEW p \in Posts, DialEnds(p) PROVE ServerInv'
<1>i. ServerTyped /\ Held /\ TakenOut /\ Up
  BY DEF ServerInv
<1>1. ServerTyped'
  BY <1>i DEF ServerTyped, Dials, DialEnds, Untouched
<1>2. Held'
  BY <1>i DEF Held, MayHold, Mine, DialEnds, Untouched
<1>3. TakenOut'
  BY <1>i DEF TakenOut, HasKeeper, Ended, ServerTyped, DialEnds, Untouched
<1>4. Up'
  BY <1>i DEF Up, DialEnds, Untouched
<1> QED BY <1>1, <1>2, <1>3, <1>4 DEF ServerInv

(* A dial that is cut short leaves its session to the reaper.                *)
LEMMA DialDiesLeaves == ASSUME ServerInv, NEW p \in Posts, DialDies(p) PROVE ServerInv'
<1>i. ServerTyped /\ Held /\ TakenOut /\ Up
  BY DEF ServerInv
<1>1. ServerTyped'
  BY <1>i DEF ServerTyped, Dials, DialDies, Reaper, Untouched
<1>2. Held'
  BY <1>i DEF Held, MayHold, Mine, DialDies, Untouched
<1>3. TakenOut'
  BY <1>i DEF TakenOut, HasKeeper, Ended, ServerTyped, DialDies, Reaper, Untouched
<1>4. Up'
  BY <1>i DEF Up, DialDies, Untouched
<1> QED BY <1>1, <1>2, <1>3, <1>4 DEF ServerInv

(* The reaper takes out the session of the dial it follows.                  *)
LEMMA ReapsLeaves == ASSUME ServerInv, NEW p \in Posts, Reaps(p) PROVE ServerInv'
<1>i. ServerTyped /\ Held /\ TakenOut /\ Up
  BY DEF ServerInv
<1>1. ServerTyped'
  BY <1>i DEF ServerTyped, Dials, Reaps, Untouched
<1>2. Held'
  BY <1>i DEF Held, MayHold, Mine, Reaps, Untouched
<1>3. TakenOut'
  BY <1>i DEF TakenOut, HasKeeper, Ended, Reaps, Untouched
<1>4. Up'
  BY <1>i DEF Up, Reaps, Untouched
<1> QED BY <1>1, <1>2, <1>3, <1>4 DEF ServerInv

(* The listen loops touch nothing that the server opened.                    *)
LEMMA ListenerLeaves == ASSUME ServerInv, Listener PROVE ServerInv'
<1>1. UNCHANGED <<owner, starts, serving, verified, advertised, opened, left, call, sessions, dial, watched, doomed, stray>>
  BY DEF Listener, Untouched
<1> QED BY <1>1 DEF ServerInv, ServerTyped, Held, MayHold, Mine, TakenOut, HasKeeper, Ended, Up

(* A process before its first start.                                         *)
LEMMA ServerBegins == SignalInit /\ ServerInit => ServerInv
<1> SUFFICES ASSUME ServerInit PROVE ServerInv
  OBVIOUS
<1>1. ServerTyped
  BY DEF ServerInit, ServerTyped, Owners, Rising, Stopping, Calls, Dials
<1>2. Held
  <2>1. opened = {} /\ starts = 0 /\ owner = "off"
    BY DEF ServerInit
  <2>2. starts <= MaxStarts
    BY <2>1, ServerAssumption
  <2> QED BY <2>1, <2>2 DEF Held
<1>u. Up
  <2>1. owner = "off" /\ advertised = 0 /\ starts = 0
    BY DEF ServerInit
  <2> QED BY <2>1 DEF Up, Rising
<1>3. TakenOut
  BY DEF ServerInit, TakenOut, Ended
<1> QED BY <1>1, <1>2, <1>u, <1>3 DEF ServerInv

(* Every step of the server, of a request and of the listener.               *)
LEMMA ServerGoesOn == ASSUME ServerInv, [ServerNext]_avars PROVE ServerInv'
<1>1. CASE OwnerStep
  BY <1>1, CreatesLeaves, CreateFailsLeaves, ServesLeaves, VerifiesLeaves, ListenerUpLeaves,
     RegistersLeaves, ProbedLeaves, RegisteredLeaves, StartRaisesLeaves, ShutsLeaves,
     ClosesItsRedisLeaves, ClosesRegistryLeaves, StopsGatewayLeaves, GatheredLeaves,
     ClosesGatewayRedisLeaves, UnbindsLeaves, StopsLeaves
     DEF OwnerStep, StopStep
<1>2. ASSUME NEW p \in Posts, RequestStep(p) PROVE ServerInv'
  BY <1>2, StartStreamLeaves, SeedFailsLeaves, AbandonedLeaves, SpawnDialLeaves, RunStartsLeaves,
     RunWritesLeaves, RunEndsLeaves, SignalLeaves, DialEndsLeaves, DialDiesLeaves, ReapsLeaves
     DEF RequestStep
<1>3. CASE Listener
  BY <1>3, ListenerLeaves
<1>4. CASE UNCHANGED avars
  BY <1>4 DEF avars, wvars, ServerInv, ServerTyped, Held, MayHold, Mine, TakenOut, HasKeeper,
     Ended, Up
<1> QED BY <1>1, <1>2, <1>3, <1>4 DEF ServerNext

(* What holds of a server gives the three parts of LeavesNothing.            *)
LEMMA LeftInOrder == ServerInv => LeavesNothing
<1> SUFFICES ASSUME ServerInv PROVE LeavesNothing
  OBVIOUS
<1>i. ServerTyped /\ Held /\ TakenOut /\ Up
  BY DEF ServerInv
<1>1. ReleasedAtStop
  BY <1>i DEF ReleasedAtStop, Held, MayHold, Mine
<1>2. NoneOutlives
  BY <1>i DEF NoneOutlives, TakenOut, HasKeeper, Ended
<1>3. AdvertisedIsUp
  BY <1>i DEF AdvertisedIsUp, Up
<1> QED BY <1>1, <1>2, <1>3 DEF LeavesNothing

(* A server that is stopped leaves nothing open but what failed to close and *)
(* what a run opened after it, no session or dial outlives the gateway, and  *)
(* one that is advertised is up: start_async and stop_async of ModuleServer, *)
(* whichever of their awaits fails and whatever requests arrive meanwhile.   *)
THEOREM LeftNothing == ServerSpec => []LeavesNothing
<1>1. SignalInit /\ ServerInit => ServerInv
  BY ServerBegins
<1>2. ServerInv /\ [ServerNext]_avars => ServerInv'
  BY ServerGoesOn
<1>3. ServerInv => LeavesNothing
  BY LeftInOrder
<1> QED BY <1>1, <1>2, <1>3, PTL DEF ServerSpec

-----------------------------------------------------------------------------
(* StreamPull on its own.                                                    *)

PullSpec == PullInit /\ [][PullNext]_pvars

PullStates == {"idle", "asking", "seeking", "reading", "yielding", "saving", "closing", "ended", "over"}
PullRecords == [at : PullStates, from : Nat, joined : BOOLEAN, begun : Nat, read : Nat,
                batch : Seq(Nat), since : Nat, got : Seq(Nat), told : {"nothing", "error", "end"}]
Upstreams == [at : {"off", "waiting", "writing"}, sent : Nat]

OutTyped ==
  /\ written \in Nat /\ eos \in Nat /\ dropped \in Nat /\ cursor \in Nat
  /\ dropped <= written /\ cursor <= written /\ (eos # 0 => eos = written)
  /\ taskSession \in BOOLEAN
  /\ pull \in [Pulls -> PullRecords]

Had(q) == {q.got[i] : i \in DOMAIN q.got}

(* Where a pull stands in the stream: what it was yielded lies behind where  *)
(* it began and up to where it has read, and of that nothing is missing but  *)
(* what Redis no longer holds; its batch goes on from there.                 *)
Fetched(q) ==
  /\ q.from = 0 => q.begun = 0
  /\ q.at \in {"idle", "asking", "seeking"} => q.got = <<>> /\ q.begun = 0 /\ q.read = 0
  /\ q.begun <= q.read /\ q.read <= written
  /\ \A i \in DOMAIN q.got : q.begun < q.got[i] /\ q.got[i] <= q.read /\ q.got[i] # eos
  /\ \A i, j \in DOMAIN q.got : i < j => q.got[i] < q.got[j]
  /\ \A n \in Kept(q.begun, q.read) : n = eos \/ n \in Had(q)
  /\ q.at = "yielding" =>
       /\ \A i \in DOMAIN q.batch : q.batch[i] = q.batch[1] + i - 1 /\ q.batch[i] <= written
       /\ q.batch # <<>> => q.read < q.batch[1] /\ Kept(q.read, q.batch[1] - 1) = {}
  /\ q.at = "closing" \/ q.told = "end" => eos # 0 /\ q.read = eos
  /\ q.told = "end" => q.at \in {"ended", "over"}

(* Up to there, whatever Redis holds was yielded to some pull.               *)
Covered(b) == \A n \in Kept(0, b) : n = eos \/ \E p \in Pulls : n \in Had(pull[p])

OutInv ==
  /\ OutTyped /\ Covered(cursor)
  /\ \A p \in Pulls : Fetched(pull[p]) /\ Covered(pull[p].read)

(* A client's messages come to the input up to the one it has at hand.       *)
InTyped == upstream \in [Pulls -> Upstreams] /\ input \in Seq(Pulls \X Nat)
Landed(p, n) ==
  /\ \A m \in 1..n : \E i \in DOMAIN input : input[i] = <<p, m>>
  /\ \A i \in DOMAIN input : input[i][1] = p => input[i][2] <= n
Upstream(p) ==
  /\ pull[p].at \in {"idle", "asking"} => upstream[p].at = "off" /\ Landed(p, 0)
  /\ upstream[p].at = "waiting" => Landed(p, upstream[p].sent)
  /\ upstream[p].at = "writing" => upstream[p].sent # 0 /\ Landed(p, upstream[p].sent - 1)
Ordered(s) ==
  \A i \in DOMAIN s :
    /\ \A n \in 1..s[i][2] - 1 : \E j \in 1..i - 1 : s[j] = <<s[i][1], n>>
    /\ \A j \in 1..i - 1 : s[j] # s[i]
InputInOrder == Ordered(input)
InInv == InTyped /\ InputInOrder /\ \A p \in Pulls : Upstream(p)

-----------------------------------------------------------------------------
(* A step of one pull over a stream that stands still.                       *)
LEMMA PullSteps ==
  ASSUME OutInv, NEW p \in Pulls, NEW N \in PullRecords, pull' = [pull EXCEPT ![p] = N],
         UNCHANGED <<written, eos, dropped>>, taskSession' \in BOOLEAN,
         Had(pull[p]) \subseteq Had(N), Fetched(N),
         \A n \in Kept(0, N.read) : n = eos \/ n \in Had(N) \/ \E x \in Pulls : n \in Had(pull[x]),
         cursor' = cursor \/ cursor' = N.read \/ cursor' = NoCursor
  PROVE  OutInv'
<1>i. /\ OutTyped /\ Covered(cursor) /\ \A x \in Pulls : Fetched(pull[x]) /\ Covered(pull[x].read)
  BY DEF OutInv
<1>1. pull'[p] = N /\ \A x \in Pulls \ {p} : pull'[x] = pull[x]
  BY <1>i DEF OutTyped
<1>2. \A x \in Pulls : Had(pull[x]) \subseteq Had(pull'[x])
  BY <1>1
<1>3. ASSUME NEW b, Covered(b) PROVE Covered(b)'
  <2> SUFFICES ASSUME NEW n \in Kept(0, b), n # eos PROVE \E x \in Pulls : n \in Had(pull'[x])
    BY DEF Covered, Kept, Had
  <2>1. PICK x \in Pulls : n \in Had(pull[x])
    BY <1>3 DEF Covered
  <2> QED BY <2>1, <1>2
<1>4. Covered(N.read)'
  <2> SUFFICES ASSUME NEW n \in Kept(0, N.read), n # eos PROVE \E x \in Pulls : n \in Had(pull'[x])
    BY DEF Covered, Kept, Had
  <2> QED BY <1>1, <1>2
<1>5. Covered(0)'
  <2>1. Kept(0, 0) = {} /\ Kept(0, 0)' = {}
    BY DEF Kept
  <2> QED BY <2>1 DEF Covered
<1>6. Covered(cursor)'
  <2>1. \A c : c = cursor' => Covered(c)'
    BY <1>3, <1>4, <1>5, <1>i DEF NoCursor
  <2> QED BY <2>1 DEF Covered
<1>7. ASSUME NEW x \in Pulls PROVE Fetched(pull[x])' /\ Covered(pull[x].read)'
  <2>1. PICK M : M = pull'[x]
    OBVIOUS
  <2>2. CASE x = p
    <3>1. Fetched(N)' /\ Covered(N.read)'
      BY <1>4 DEF Fetched, Kept, Had
    <3> QED BY <3>1, <2>2, <1>1 DEF Fetched, Covered, Kept, Had
  <2>3. CASE x # p
    <3>1. M = pull[x]
      BY <2>1, <2>3, <1>1
    <3>2. Fetched(M) /\ Covered(M.read)
      BY <3>1, <1>i
    <3>3. Fetched(M)'
      BY <3>2 DEF Fetched, Kept, Had
    <3>4. Covered(M.read)'
      BY <3>2, <1>3
    <3> QED BY <2>1, <3>3, <3>4 DEF Fetched, Covered, Kept, Had
  <2> QED BY <2>2, <2>3
<1>8. OutTyped'
  <2>1. pull' \in [Pulls -> PullRecords]
    BY <1>i DEF OutTyped
  <2>2. cursor' \in Nat /\ cursor' <= written
    BY <1>i DEF OutTyped, Fetched, PullRecords, NoCursor
  <2> QED BY <2>1, <2>2, <1>i DEF OutTyped
<1> QED BY <1>6, <1>7, <1>8 DEF OutInv

(* The stream grows, is trimmed or expires under the pulls.                  *)
LEMMA StreamMoves ==
  ASSUME OutInv, pull' = pull, taskSession' \in BOOLEAN, written' \in Nat, dropped' \in Nat,
         written <= written', dropped <= dropped', dropped' <= written',
         \/ eos' = eos /\ written' = written
         \/ eos = 0 /\ (eos' = 0 \/ eos' = written') /\ written' = written + 1,
         cursor' = cursor \/ cursor' = NoCursor
  PROVE  OutInv'
<1>i. /\ OutTyped /\ Covered(cursor) /\ \A x \in Pulls : Fetched(pull[x]) /\ Covered(pull[x].read)
  BY DEF OutInv
<1>0. \A a, b \in Nat : Kept(a, b)' \subseteq Kept(a, b)
  BY <1>i DEF Kept, OutTyped
<1>3. ASSUME NEW b \in Nat, Covered(b), b <= written PROVE Covered(b)'
  <2> SUFFICES ASSUME NEW n \in Kept(0, b)', n # eos' PROVE \E x \in Pulls : n \in Had(pull[x])
    BY DEF Covered, Had
  <2>1. n \in Kept(0, b)
    BY <1>0
  <2>2. n # eos
    BY <2>1, <1>i DEF OutTyped, Kept
  <2> QED BY <2>1, <2>2, <1>3 DEF Covered
<1>4. Covered(0)'
  <2>1. Kept(0, 0)' = {}
    BY DEF Kept
  <2> QED BY <2>1 DEF Covered
<1>5. Covered(cursor)'
  <2>1. \A c : c = cursor' => Covered(c)'
    BY <1>3, <1>4, <1>i DEF NoCursor, OutTyped
  <2> QED BY <2>1 DEF Covered
<1>6. ASSUME NEW x \in Pulls PROVE Fetched(pull[x])' /\ Covered(pull[x].read)'
  <2>1. PICK M : M = pull[x]
    OBVIOUS
  <2>2. M \in PullRecords /\ Fetched(M) /\ Covered(M.read)
    BY <2>1, <1>i DEF OutTyped
  <2>t. /\ M.begun \in Nat /\ M.read \in Nat /\ M.got \in Seq(Nat) /\ M.batch \in Seq(Nat)
    BY <2>2 DEF PullRecords
  <2>3. M.read <= written
    BY <2>2 DEF Fetched
  <2>4. Covered(M.read)'
    BY <2>2, <2>3, <2>t, <1>3
  <2>5. \A i \in DOMAIN M.got : M.got[i] # eos'
    <3> SUFFICES ASSUME NEW i \in DOMAIN M.got PROVE M.got[i] # eos'
      OBVIOUS
    <3>1. M.got[i] <= M.read /\ M.got[i] # eos /\ M.got[i] \in Nat /\ M.got[i] > M.begun
      BY <2>2, <2>t, ElementOfSeq DEF Fetched
    <3> QED BY <3>1, <2>3, <2>t, <1>i DEF OutTyped
  <2>6. \A n \in Kept(M.begun, M.read)' : n = eos' \/ n \in Had(M)
    <3> SUFFICES ASSUME NEW n \in Kept(M.begun, M.read)' PROVE n = eos' \/ n \in Had(M)
      OBVIOUS
    <3>1. n \in Kept(M.begun, M.read)
      BY <2>t, <1>0
    <3>2. n = eos \/ n \in Had(M)
      BY <3>1, <2>2 DEF Fetched
    <3>3. n # 0
      BY <3>1, <2>t DEF Kept
    <3> QED BY <3>2, <3>3
  <2>7. M.at = "yielding" =>
           /\ \A i \in DOMAIN M.batch : M.batch[i] = M.batch[1] + i - 1 /\ M.batch[i] <= written'
           /\ M.batch # <<>> => M.read < M.batch[1] /\ Kept(M.read, M.batch[1] - 1)' = {}
    <3> SUFFICES ASSUME M.at = "yielding"
                 PROVE  /\ \A i \in DOMAIN M.batch : M.batch[i] = M.batch[1] + i - 1 /\ M.batch[i] <= written'
                        /\ M.batch # <<>> => M.read < M.batch[1] /\ Kept(M.read, M.batch[1] - 1)' = {}
      OBVIOUS
    <3>1. \A i \in DOMAIN M.batch : M.batch[i] = M.batch[1] + i - 1 /\ M.batch[i] <= written'
      <4>1. \A i \in DOMAIN M.batch : M.batch[i] = M.batch[1] + i - 1 /\ M.batch[i] <= written /\ M.batch[i] \in Nat
        <5>1. \A i \in DOMAIN M.batch : M.batch[i] = M.batch[1] + i - 1 /\ M.batch[i] <= written
          BY <2>2 DEF Fetched
        <5>2. \A i \in DOMAIN M.batch : M.batch[i] \in Nat
          BY <2>t, ElementOfSeq
        <5> QED BY <5>1, <5>2
      <4>2. ASSUME NEW i \in DOMAIN M.batch PROVE M.batch[i] <= written'
        BY <4>1, <1>i DEF OutTyped
      <4> QED BY <4>1, <4>2
    <3>2. ASSUME M.batch # <<>> PROVE M.read < M.batch[1] /\ Kept(M.read, M.batch[1] - 1)' = {}
      <4>1. M.read < M.batch[1] /\ Kept(M.read, M.batch[1] - 1) = {}
        BY <3>2, <2>2 DEF Fetched
      <4>2. M.batch[1] \in Nat
        BY <3>2, <2>t, EmptySeq, ElementOfSeq
      <4>3. M.batch[1] - 1 \in Nat
        BY <4>1, <4>2, <2>t
      <4> QED BY <4>1, <4>3, <1>0, <2>t
    <3> QED BY <3>1, <3>2
  <2>8. M.at = "closing" \/ M.told = "end" => eos' # 0 /\ M.read = eos'
    BY <2>2 DEF Fetched
  <2>9. M.read <= written'
    BY <2>3, <2>t, <1>i DEF OutTyped
  <2>10. Fetched(M)'
    BY <2>2, <2>5, <2>6, <2>7, <2>8, <2>9 DEF Fetched, Had
  <2> QED BY <2>1, <2>4, <2>10 DEF Fetched, Covered, Kept, Had
<1>7. OutTyped'
  BY <1>i DEF OutTyped, NoCursor
<1> QED BY <1>5, <1>6, <1>7 DEF OutInv

(* A new pull has been yielded nothing and stands at the beginning.          *)
LEMMA StreamKeeps ==
  ASSUME OutInv, NEW p \in Pulls, NEW from \in Nat, Stream(p, from) PROVE OutInv'
<1>i. OutTyped /\ pull[p] \in PullRecords /\ Fetched(pull[p])
  BY DEF OutInv, OutTyped
<1>1. PICK N : N = [pull[p] EXCEPT !.from = from, !.joined = taskSession,
                      !.at = IF from > SeqLimit THEN "ended" ELSE "asking",
                      !.told = IF from > SeqLimit THEN "error" ELSE "nothing"]
  OBVIOUS
<1>2. pull' = [pull EXCEPT ![p] = N]
  BY <1>1, <1>i DEF Stream, OutTyped
<1>3. N \in PullRecords
  BY <1>1, <1>i DEF PullRecords, PullStates, OutTyped
<1>4. /\ N.got = pull[p].got /\ N.begun = pull[p].begun /\ N.read = pull[p].read
      /\ N.at \in {"ended", "asking"} /\ N.told # "end"
  BY <1>1, <1>i DEF PullRecords
<1>5. N.got = <<>> /\ N.begun = 0 /\ N.read = 0
  BY <1>4, <1>i DEF Stream, Fetched
<1>6. Kept(0, 0) = {}
  BY DEF Kept
<1>7. Fetched(N)
  BY <1>4, <1>5, <1>6, <1>i DEF Fetched, OutTyped
<1>8. Had(pull[p]) \subseteq Had(N)
  BY <1>4 DEF Had
<1>9. UNCHANGED <<written, eos, dropped, cursor, taskSession>>
  BY DEF Stream
<1> QED
  BY <1>2, <1>3, <1>5, <1>6, <1>7, <1>8, <1>9, <1>i, PullSteps DEF OutTyped

(* A step that reads nothing: the pull goes on, ends, or saves the cursor.   *)
LEMMA PullTurns ==
  ASSUME OutInv, NEW p \in Pulls, NEW N \in PullRecords, pull' = [pull EXCEPT ![p] = N],
         UNCHANGED <<written, eos, dropped>>, taskSession' \in BOOLEAN,
         N.from = pull[p].from, N.begun = pull[p].begun, N.read = pull[p].read, N.got = pull[p].got,
         N.at \notin {"idle", "asking", "yielding", "closing"},
         N.at = "seeking" => pull[p].at = "asking",
         N.told = "end" => N.at \in {"ended", "over"} /\ (pull[p].told = "end" \/ pull[p].at = "closing"),
         cursor' = cursor \/ cursor' = pull[p].read
  PROVE  OutInv'
<1>i. OutTyped /\ Fetched(pull[p]) /\ Covered(pull[p].read)
  BY DEF OutInv
<1>1. Had(pull[p]) \subseteq Had(N)
  BY DEF Had
<1>2. Fetched(N)
  BY <1>i DEF Fetched, Had
<1>3. \A n \in Kept(0, N.read) : n = eos \/ n \in Had(N) \/ \E x \in Pulls : n \in Had(pull[x])
  BY <1>i DEF Covered
<1> QED BY <1>1, <1>2, <1>3, PullSteps

(* A client of an unregistered task is told so and yielded nothing.          *)
LEMMA LateClientKeeps == ASSUME OutInv, NEW p \in Pulls, LateClient(p) PROVE OutInv'
<1>i. OutTyped /\ pull \in [Pulls -> PullRecords] /\ pull[p] \in PullRecords /\ Fetched(pull[p])
  BY DEF OutInv, OutTyped
<1>1. CASE written > dropped
  <2>1. PICK N : N = [pull[p] EXCEPT !.at = "seeking"]
    OBVIOUS
  <2>2. pull' = [pull EXCEPT ![p] = N]
    BY <1>1, <2>1, <1>i DEF LateClient, PullGoes
  <2>3. N \in PullRecords
    BY <2>1, <1>i DEF PullRecords, PullStates
  <2>4. /\ N.from = pull[p].from /\ N.begun = pull[p].begun /\ N.read = pull[p].read /\ N.got = pull[p].got
        /\ N.at = "seeking" /\ N.told = pull[p].told
    BY <2>1, <1>i DEF PullRecords
  <2>5. N.told # "end" /\ pull[p].at = "asking"
    BY <2>4, <1>i DEF LateClient, Fetched
  <2> QED BY <2>2, <2>3, <2>4, <2>5, <1>i, PullTurns DEF LateClient, OutTyped
<1>2. CASE ~(written > dropped)
  <2>1. PICK N : N = [pull[p] EXCEPT !.at = "ended", !.told = "error"]
    OBVIOUS
  <2>2. pull' = [pull EXCEPT ![p] = N]
    BY <1>2, <2>1, <1>i DEF LateClient, Fatal
  <2>3. N \in PullRecords
    BY <2>1, <1>i DEF PullRecords, PullStates
  <2>4. /\ N.from = pull[p].from /\ N.begun = pull[p].begun /\ N.read = pull[p].read /\ N.got = pull[p].got
        /\ N.at = "ended" /\ N.told = "error"
    BY <2>1, <1>i DEF PullRecords
  <2> QED BY <2>2, <2>3, <2>4, <1>i, PullTurns DEF LateClient, OutTyped
<1> QED BY <1>1, <1>2

(* A query that is taken moves nothing of the outputs.                       *)
LEMMA TakesQueryKeeps == ASSUME OutInv, NEW p \in Pulls, TakesQuery(p) PROVE OutInv'
<1>i. OutTyped /\ pull \in [Pulls -> PullRecords] /\ pull[p] \in PullRecords /\ Fetched(pull[p])
  BY DEF OutInv, OutTyped
<1>1. PICK N : N = [pull[p] EXCEPT !.at = "seeking"]
  OBVIOUS
<1>2. pull' = [pull EXCEPT ![p] = N]
  BY <1>1, <1>i DEF TakesQuery, PullGoes
<1>3. N \in PullRecords
  BY <1>1, <1>i DEF PullRecords, PullStates
<1>4. /\ N.from = pull[p].from /\ N.begun = pull[p].begun /\ N.read = pull[p].read /\ N.got = pull[p].got
      /\ N.at = "seeking" /\ N.told = pull[p].told
  BY <1>1, <1>i DEF PullRecords
<1>5. N.told # "end" /\ pull[p].at = "asking"
  BY <1>4, <1>i DEF TakesQuery, Fetched
<1> QED BY <1>2, <1>3, <1>4, <1>5, <1>i, PullTurns DEF TakesQuery, OutTyped

(* A pull that Redis failed is told an error and read no further.            *)
LEMMA RedisFailsKeeps == ASSUME OutInv, NEW p \in Pulls, RedisFails(p) PROVE OutInv'
<1>i. OutTyped /\ pull \in [Pulls -> PullRecords] /\ pull[p] \in PullRecords /\ Fetched(pull[p])
  BY DEF OutInv, OutTyped
<1>1. PICK N : N = [pull[p] EXCEPT !.at = "ended", !.told = "error",
                                   !.joined = IF pull[p].at = "asking" THEN FALSE ELSE @]
  OBVIOUS
<1>2. pull' = [pull EXCEPT ![p] = N]
  BY <1>1, <1>i DEF RedisFails
<1>3. N \in PullRecords
  BY <1>1, <1>i DEF PullRecords, PullStates
<1>4. /\ N.from = pull[p].from /\ N.begun = pull[p].begun /\ N.read = pull[p].read /\ N.got = pull[p].got
      /\ N.at = "ended" /\ N.told = "error"
  BY <1>1, <1>i DEF PullRecords
<1> QED BY <1>2, <1>3, <1>4, <1>i, PullTurns DEF RedisFails, OutTyped

(* What is wholly yielded is wholly read.                                    *)
LEMMA BatchEndsKeeps == ASSUME OutInv, NEW p \in Pulls, BatchEnds(p) PROVE OutInv'
<1>i. OutTyped /\ pull \in [Pulls -> PullRecords] /\ pull[p] \in PullRecords /\ Fetched(pull[p])
  BY DEF OutInv, OutTyped
<1>1. PICK N : N = [pull[p] EXCEPT !.at = IF pull[p].since >= SaveEvery THEN "saving" ELSE "reading"]
  OBVIOUS
<1>2. pull' = [pull EXCEPT ![p] = N]
  BY <1>1, <1>i DEF BatchEnds, PullGoes
<1>3. N \in PullRecords
  BY <1>1, <1>i DEF PullRecords, PullStates
<1>4. /\ N.from = pull[p].from /\ N.begun = pull[p].begun /\ N.read = pull[p].read /\ N.got = pull[p].got
      /\ N.at \in {"saving", "reading"} /\ N.told = pull[p].told
  BY <1>1, <1>i DEF PullRecords
<1>5. N.told # "end"
  BY <1>4, <1>i DEF BatchEnds, Fetched
<1> QED BY <1>2, <1>3, <1>4, <1>5, <1>i, PullTurns DEF BatchEnds, OutTyped

(* The cursor that is saved is what this pull has read.                      *)
LEMMA SaveCursorKeeps == ASSUME OutInv, NEW p \in Pulls, SaveCursor(p) PROVE OutInv'
<1>i. OutTyped /\ pull \in [Pulls -> PullRecords] /\ pull[p] \in PullRecords /\ Fetched(pull[p])
  BY DEF OutInv, OutTyped
<1>1. PICK N : N = [pull[p] EXCEPT !.since = 0,
                      !.at = IF @ = "closing" THEN "ended" ELSE "reading",
                      !.told = IF pull[p].at = "closing" THEN "end" ELSE @]
  OBVIOUS
<1>2. pull' = [pull EXCEPT ![p] = N]
  BY <1>1, <1>i DEF SaveCursor
<1>3. N \in PullRecords
  BY <1>1, <1>i DEF PullRecords, PullStates
<1>4. /\ N.from = pull[p].from /\ N.begun = pull[p].begun /\ N.read = pull[p].read /\ N.got = pull[p].got
      /\ N.at = IF pull[p].at = "closing" THEN "ended" ELSE "reading"
      /\ N.told = IF pull[p].at = "closing" THEN "end" ELSE pull[p].told
  BY <1>1, <1>i DEF PullRecords
<1>5. N.told = "end" => pull[p].at = "closing"
  BY <1>4, <1>i DEF SaveCursor, Fetched
<1> QED BY <1>2, <1>3, <1>4, <1>5, <1>i, PullTurns DEF SaveCursor, ToRead, OutTyped

(* A pull that gives up says an error and not the end.                       *)
LEMMA IdleDeadlineKeeps == ASSUME OutInv, NEW p \in Pulls, IdleDeadline(p) PROVE OutInv'
<1>i. OutTyped /\ pull \in [Pulls -> PullRecords] /\ pull[p] \in PullRecords
  BY DEF OutInv, OutTyped
<1>1. PICK N : N = [pull[p] EXCEPT !.at = "ended", !.told = "error"]
  OBVIOUS
<1>2. pull' = [pull EXCEPT ![p] = N]
  BY <1>1, <1>i DEF IdleDeadline, Fatal
<1>3. N \in PullRecords
  BY <1>1, <1>i DEF PullRecords, PullStates
<1>4. /\ N.from = pull[p].from /\ N.begun = pull[p].begun /\ N.read = pull[p].read /\ N.got = pull[p].got
      /\ N.at = "ended" /\ N.told = "error"
  BY <1>1, <1>i DEF PullRecords
<1> QED BY <1>2, <1>3, <1>4, <1>i, PullTurns DEF IdleDeadline, OutTyped

(* A client that hangs up keeps what it was yielded.                         *)
LEMMA HangsUpKeeps == ASSUME OutInv, NEW p \in Pulls, HangsUp(p) PROVE OutInv'
<1>i. OutTyped /\ pull \in [Pulls -> PullRecords] /\ pull[p] \in PullRecords
  BY DEF OutInv, OutTyped
<1>1. PICK N : N = [pull[p] EXCEPT !.at = "ended"]
  OBVIOUS
<1>2. pull' = [pull EXCEPT ![p] = N]
  BY <1>1, <1>i DEF HangsUp, PullGoes
<1>3. N \in PullRecords
  BY <1>1, <1>i DEF PullRecords, PullStates
<1>4. /\ N.from = pull[p].from /\ N.begun = pull[p].begun /\ N.read = pull[p].read /\ N.got = pull[p].got
      /\ N.at = "ended" /\ N.told = pull[p].told
  BY <1>1, <1>i DEF PullRecords
<1> QED BY <1>2, <1>3, <1>4, <1>i, PullTurns DEF HangsUp, OutTyped

(* The end of a pull saves what it has read, or nothing.                     *)
LEMMA FinallyKeeps == ASSUME OutInv, NEW p \in Pulls, Finally(p) PROVE OutInv'
<1>i. OutTyped /\ pull \in [Pulls -> PullRecords] /\ pull[p] \in PullRecords
  BY DEF OutInv, OutTyped
<1>1. PICK N : N = [pull[p] EXCEPT !.at = "over"]
  OBVIOUS
<1>2. pull' = [pull EXCEPT ![p] = N]
  BY <1>1, <1>i DEF Finally, PullGoes
<1>3. N \in PullRecords
  BY <1>1, <1>i DEF PullRecords, PullStates
<1>4. /\ N.from = pull[p].from /\ N.begun = pull[p].begun /\ N.read = pull[p].read /\ N.got = pull[p].got
      /\ N.at = "over" /\ N.told = pull[p].told
  BY <1>1, <1>i DEF PullRecords
<1>5. taskSession' \in BOOLEAN
  BY <1>i DEF Finally
<1> QED BY <1>2, <1>3, <1>4, <1>5, <1>i, PullTurns DEF Finally, OutTyped

(* A pull begins where the cursor stands.                                    *)
LEMMA SeekKeeps == ASSUME OutInv, NEW p \in Pulls, Seek(p) PROVE OutInv'
<1>i. /\ OutTyped /\ pull \in [Pulls -> PullRecords] /\ pull[p] \in PullRecords
      /\ Fetched(pull[p]) /\ Covered(cursor)
  BY DEF OutInv, OutTyped
<1>c. PICK c : c = RestoreCursor(p)
  OBVIOUS
<1>d. c \in Nat /\ c <= written /\ (c = cursor \/ c = 0) /\ (pull[p].from = 0 => c = 0)
  BY <1>c, <1>i DEF RestoreCursor, NoCursor, OutTyped, PullRecords
<1>1. PICK N : N = [pull[p] EXCEPT !.at = "reading", !.begun = c, !.read = c]
  OBVIOUS
<1>2. pull' = [pull EXCEPT ![p] = N]
  BY <1>1, <1>i, <1>c DEF Seek
<1>3. N \in PullRecords
  BY <1>1, <1>i, <1>d DEF PullRecords, PullStates
<1>4. /\ N.from = pull[p].from /\ N.begun = c /\ N.read = c /\ N.got = pull[p].got
      /\ N.at = "reading" /\ N.told = pull[p].told
  BY <1>1, <1>i DEF PullRecords
<1>5. N.got = <<>> /\ N.told # "end"
  BY <1>4, <1>i DEF Seek, Fetched
<1>6. Kept(c, c) = {} /\ Kept(0, 0) = {}
  BY <1>d DEF Kept
<1>7. Fetched(N)
  BY <1>4, <1>5, <1>6, <1>d DEF Fetched
<1>8. Had(pull[p]) \subseteq Had(N)
  BY <1>4 DEF Had
<1>9. \A n \in Kept(0, N.read) : n = eos \/ n \in Had(N) \/ \E x \in Pulls : n \in Had(pull[x])
  BY <1>4, <1>d, <1>6, <1>i DEF Covered
<1> QED BY <1>2, <1>3, <1>7, <1>8, <1>9, <1>i, PullSteps DEF Seek, OutTyped

(* The entries of an XREAD follow on what the pull has read.                 *)
LEMMA XReadKeeps == ASSUME PullAssumption, OutInv, NEW p \in Pulls, XRead(p) PROVE OutInv'
<1>i. /\ OutTyped /\ pull \in [Pulls -> PullRecords] /\ pull[p] \in PullRecords
      /\ Fetched(pull[p]) /\ Covered(pull[p].read)
  BY DEF OutInv, OutTyped
<1>f. PICK f : f = First(p)
  OBVIOUS
<1>l. PICK l : l = IF f + ReadCount < written THEN f + ReadCount ELSE written
  OBVIOUS
<1>d. /\ f \in Nat /\ pull[p].read <= f /\ f < written /\ Kept(pull[p].read, f) = {}
      /\ l \in Nat /\ f < l /\ l <= written
  <2>a. pull[p].read \in Nat /\ dropped \in Nat
    BY <1>i DEF OutTyped, PullRecords
  <2>b. f = IF pull[p].read < dropped THEN dropped ELSE pull[p].read
    BY <1>f DEF First
  <2>c. f < written
    BY <1>f DEF XRead
  <2>1. f \in Nat /\ pull[p].read <= f /\ (f = pull[p].read \/ f = dropped) /\ f < written
    BY <2>a, <2>b, <2>c
  <2>2. l \in Nat /\ f < l /\ l <= written
    BY <2>1, <1>l, <1>i, PullAssumption DEF OutTyped
  <2>3. Kept(pull[p].read, f) = {}
    BY <2>1, <1>i DEF Kept, OutTyped, PullRecords
  <2> QED BY <2>1, <2>2, <2>3
<1>b. PICK b : b = [i \in 1..(l - f) |-> f + i]
  OBVIOUS
<1>e. b \in Seq(Nat) /\ DOMAIN b = 1..(l - f) /\ \A i \in DOMAIN b : b[i] = f + i
  <2>1. l - f \in Nat
    BY <1>d
  <2> QED BY <1>b, <1>d, <2>1, SeqDef
<1>1. PICK N : N = [pull[p] EXCEPT !.at = "yielding", !.batch = b]
  OBVIOUS
<1>2. pull' = [pull EXCEPT ![p] = N]
  BY <1>1, <1>i, <1>f, <1>l, <1>b DEF XRead
<1>3. N \in PullRecords
  BY <1>1, <1>i, <1>e DEF PullRecords, PullStates
<1>4. /\ N.from = pull[p].from /\ N.begun = pull[p].begun /\ N.read = pull[p].read /\ N.got = pull[p].got
      /\ N.at = "yielding" /\ N.told = pull[p].told /\ N.batch = b
  BY <1>1, <1>i DEF PullRecords
<1>5. N.told # "end"
  BY <1>4, <1>i DEF XRead, Fetched
<1>6. /\ \A i \in DOMAIN b : b[i] = b[1] + i - 1 /\ b[i] <= written
      /\ pull[p].read < b[1] /\ Kept(pull[p].read, b[1] - 1) = {}
  <2>1. 1 \in DOMAIN b /\ b[1] = f + 1 /\ b[1] - 1 = f
    BY <1>d, <1>e
  <2>2. ASSUME NEW i \in DOMAIN b PROVE b[i] = b[1] + i - 1 /\ b[i] <= written
    <3>1. i \in Nat /\ i <= l - f /\ b[i] = f + i
      BY <1>d, <1>e
    <3> QED BY <3>1, <2>1, <1>d, <1>i DEF OutTyped
  <2>3. pull[p].read < b[1]
    BY <2>1, <1>d, <1>i DEF PullRecords
  <2> QED BY <2>1, <2>2, <2>3, <1>d
<1>7. Fetched(N)
  BY <1>4, <1>5, <1>6, <1>i DEF Fetched, Had
<1>8. Had(pull[p]) \subseteq Had(N)
  BY <1>4 DEF Had
<1>9. \A n \in Kept(0, N.read) : n = eos \/ n \in Had(N) \/ \E x \in Pulls : n \in Had(pull[x])
  BY <1>4, <1>i DEF Covered
<1> QED BY <1>2, <1>3, <1>7, <1>8, <1>9, <1>i, PullSteps DEF XRead, OutTyped

(* An entry is yielded, or it is the marker.                                 *)
LEMMA YieldsKeeps == ASSUME OutInv, NEW p \in Pulls, Yields(p) PROVE OutInv'
<1>i. /\ OutTyped /\ pull \in [Pulls -> PullRecords] /\ pull[p] \in PullRecords
      /\ Fetched(pull[p]) /\ Covered(pull[p].read)
  BY DEF OutInv, OutTyped
<1>q. PICK q : q = pull[p]
  OBVIOUS
<1>t. /\ q \in PullRecords /\ Fetched(q) /\ q.at = "yielding" /\ q.batch # <<>> /\ Covered(q.read)
      /\ q.batch \in Seq(Nat) /\ q.got \in Seq(Nat) /\ q.read \in Nat /\ q.begun \in Nat /\ q.since \in Nat
  BY <1>q, <1>i DEF Yields, PullRecords
<1>e. PICK e : e = Head(q.batch)
  OBVIOUS
<1>d. /\ e \in Nat /\ e = q.batch[1] /\ q.read < e /\ e <= written /\ Kept(q.read, e - 1) = {}
      /\ Tail(q.batch) \in Seq(Nat) /\ DOMAIN Tail(q.batch) = 1..(Len(q.batch) - 1)
      /\ \A i \in DOMAIN Tail(q.batch) : Tail(q.batch)[i] = q.batch[i + 1]
      /\ Len(q.batch) \in Nat \ {0} /\ DOMAIN q.batch = 1..Len(q.batch)
  <2>1. /\ Len(q.batch) \in Nat \ {0} /\ DOMAIN q.batch = 1..Len(q.batch)
    BY <1>t, LenProperties, EmptySeq
  <2>2. e \in Nat /\ e = q.batch[1]
    BY <1>e, <1>t, <2>1, ElementOfSeq
  <2>3. q.read < e /\ e <= written /\ Kept(q.read, e - 1) = {}
    <3>1. /\ \A i \in DOMAIN q.batch : q.batch[i] <= written
          /\ q.read < q.batch[1] /\ Kept(q.read, q.batch[1] - 1) = {}
      BY <1>t DEF Fetched
    <3>2. 1 \in DOMAIN q.batch
      BY <2>1
    <3> QED BY <3>1, <3>2, <2>2
  <2>4. /\ Tail(q.batch) \in Seq(Nat) /\ DOMAIN Tail(q.batch) = 1..(Len(q.batch) - 1)
        /\ \A i \in DOMAIN Tail(q.batch) : Tail(q.batch)[i] = q.batch[i + 1]
    BY <1>t, <2>1, HeadTailProperties, LenProperties
  <2> QED BY <2>1, <2>2, <2>3, <2>4
<1>T. PICK T : T = Tail(q.batch)
  OBVIOUS
<1>b. /\ \A i \in DOMAIN T : T[i] = T[1] + i - 1 /\ T[i] <= written
      /\ T # <<>> => e < T[1] /\ Kept(e, T[1] - 1) = {}
  <2>0. T \in Seq(Nat) /\ DOMAIN T = 1..(Len(q.batch) - 1) /\ \A i \in DOMAIN T : T[i] = q.batch[i + 1]
    BY <1>T, <1>d
  <2>1. \A i \in 1..Len(q.batch) : q.batch[i] = e + i - 1 /\ q.batch[i] <= written
    BY <1>t, <1>d DEF Fetched
  <2>2. ASSUME NEW i \in DOMAIN T PROVE i \in Nat /\ T[i] = e + i /\ T[i] <= written
    <3>0. i \in 1..(Len(q.batch) - 1) /\ T[i] = q.batch[i + 1] /\ Len(q.batch) \in Nat
      BY <2>0, <1>d
    <3>1. i \in Nat /\ i + 1 \in 1..Len(q.batch) /\ T[i] = q.batch[i + 1]
      BY <3>0
    <3>2. q.batch[i + 1] = e + (i + 1) - 1 /\ q.batch[i + 1] <= written
      BY <3>1, <2>1
    <3>3. e \in Nat
      BY <1>d
    <3>4. e + (i + 1) - 1 = e + i
      BY <3>1, <3>3
    <3> QED BY <3>1, <3>2, <3>4
  <2>3. ASSUME NEW i \in DOMAIN T PROVE T[i] = T[1] + i - 1
    <3>0. PICK l \in Nat : l = Len(q.batch)
      BY <1>d
    <3>1. i \in Nat /\ 1 \in DOMAIN T
      <4>1. DOMAIN T = 1..(l - 1) /\ i \in 1..(l - 1)
        BY <2>0, <3>0
      <4> QED BY <4>1, <3>0
    <3>2. T[i] = e + i /\ T[1] = e + 1
      BY <3>1, <2>2
    <3>3. e \in Nat
      BY <1>d
    <3> QED BY <3>1, <3>2, <3>3
  <2>4. ASSUME T # <<>> PROVE e < T[1] /\ Kept(e, T[1] - 1) = {}
    <3>1. 1 \in DOMAIN T
      <4>1. Len(T) \in Nat /\ DOMAIN T = 1..Len(T) /\ Len(T) # 0
        BY <2>0, <2>4, EmptySeq, LenProperties
      <4> QED BY <4>1
    <3>2. T[1] = e + 1
      BY <3>1, <2>2
    <3>3. e < e + 1 /\ (e + 1) - 1 = e
      BY <1>d
    <3>4. Kept(e, e) = {}
      BY <1>d DEF Kept
    <3> QED BY <3>2, <3>3, <3>4
  <2> QED BY <2>2, <2>3, <2>4
<1>1. PICK N : N = [q EXCEPT !.read = e,
                !.batch = Tail(@),
                !.at = IF e = eos THEN "closing" ELSE @,
                !.since = IF e = eos THEN @ ELSE @ + 1,
                !.got = IF e = eos THEN @ ELSE Append(@, e)]
  OBVIOUS
<1>2. pull' = [pull EXCEPT ![p] = N]
  BY <1>1, <1>i, <1>q, <1>e DEF Yields
<1>g. Append(q.got, e) \in Seq(Nat) /\ T \in Seq(Nat)
  BY <1>T, <1>t, <1>d, AppendProperties
<1>h. PICK a, s, g : /\ a = (IF e = eos THEN "closing" ELSE q.at)
                     /\ s = (IF e = eos THEN q.since ELSE q.since + 1)
                     /\ g = (IF e = eos THEN q.got ELSE Append(q.got, e))
  OBVIOUS
<1>k. a \in PullStates /\ s \in Nat /\ g \in Seq(Nat)
  BY <1>h, <1>g, <1>t DEF PullStates, PullRecords
<1>m. N = [q EXCEPT !.read = e, !.batch = T, !.at = a, !.since = s, !.got = g]
  BY <1>1, <1>h, <1>T
<1>3. N \in PullRecords
  BY <1>m, <1>k, <1>t, <1>d, <1>g DEF PullRecords
<1>4. /\ N.from = q.from /\ N.begun = q.begun /\ N.read = e /\ N.batch = T
      /\ N.got = IF e = eos THEN q.got ELSE Append(q.got, e)
      /\ N.at = IF e = eos THEN "closing" ELSE "yielding"
      /\ N.told = q.told
  BY <1>1, <1>T, <1>t DEF PullRecords
<1>5. Had(N) = IF e = eos THEN Had(q) ELSE Had(q) \cup {e}
  <2>1. CASE e = eos
    BY <2>1, <1>4 DEF Had
  <2>2. CASE e # eos
    <3>1. N.got = Append(q.got, e)
      BY <2>2, <1>4
    <3>2. /\ Len(q.got) \in Nat /\ DOMAIN q.got = 1..Len(q.got) /\ DOMAIN N.got = 1..(Len(q.got) + 1)
          /\ N.got[Len(q.got) + 1] = e /\ \A i \in 1..Len(q.got) : N.got[i] = q.got[i]
      BY <3>1, <1>t, <1>d, AppendProperties, LenProperties
    <3>3. Had(N) = Had(q) \cup {e}
      <4>1. \A i \in DOMAIN N.got : i = Len(q.got) + 1 \/ i \in DOMAIN q.got
        BY <3>2
      <4>2. ASSUME NEW n \in Had(N) PROVE n \in Had(q) \cup {e}
        BY <4>1, <3>2 DEF Had
      <4>3. ASSUME NEW n \in Had(q) PROVE n \in Had(N)
        BY <3>2 DEF Had
      <4>4. e \in Had(N)
        BY <3>2 DEF Had
      <4> QED BY <4>2, <4>3, <4>4
    <3> QED BY <2>2, <3>3
  <2> QED BY <2>1, <2>2
<1>6. \A b \in Nat : b <= q.read => Kept(b, e) \subseteq Kept(b, q.read) \cup {e}
  <2> SUFFICES ASSUME NEW b \in Nat, b <= q.read, NEW n \in Kept(b, e), n # e PROVE n \in Kept(b, q.read)
    OBVIOUS
  <2>1. n \in Nat /\ b < n /\ n < e /\ n > dropped
    BY <1>d DEF Kept
  <2>2. ~(n > q.read)
    <3> SUFFICES ASSUME n > q.read PROVE FALSE
      OBVIOUS
    <3>0. e \in Nat /\ q.read \in Nat
      BY <1>t, <1>d DEF PullRecords
    <3>1. n \in Kept(q.read, e - 1)
      BY <2>1, <3>0 DEF Kept
    <3> QED BY <3>1, <1>d
  <2>3. q.read \in Nat
    BY <1>t DEF PullRecords
  <2>4. n \in b + 1..q.read
    BY <2>1, <2>2, <2>3
  <2> QED BY <2>1, <2>4 DEF Kept
<1>7. q.told # "end" /\ q.begun <= q.read /\ (q.from = 0 => q.begun = 0)
      /\ \A n \in Kept(q.begun, q.read) : n = eos \/ n \in Had(q)
  BY <1>t DEF Fetched
<1>8. \A n \in Kept(N.begun, N.read) : n = eos \/ n \in Had(N)
  BY <1>4, <1>5, <1>6, <1>7, <1>t
<1>9. /\ \A i \in DOMAIN N.got : N.begun < N.got[i] /\ N.got[i] <= N.read /\ N.got[i] # eos
      /\ \A i, j \in DOMAIN N.got : i < j => N.got[i] < N.got[j]
  <2>1. /\ \A i \in DOMAIN q.got : q.begun < q.got[i] /\ q.got[i] <= q.read /\ q.got[i] # eos
        /\ \A i, j \in DOMAIN q.got : i < j => q.got[i] < q.got[j]
    BY <1>t DEF Fetched
  <2>2. \A i \in DOMAIN q.got : q.got[i] \in Nat
    BY <1>t, ElementOfSeq
  <2>3. CASE e = eos
    BY <2>1, <2>2, <2>3, <1>4, <1>t, <1>d
  <2>4. CASE e # eos
    <3>1. N.got = Append(q.got, e)
      BY <2>4, <1>4
    <3>2. /\ Len(q.got) \in Nat /\ DOMAIN q.got = 1..Len(q.got) /\ DOMAIN N.got = 1..(Len(q.got) + 1)
          /\ N.got[Len(q.got) + 1] = e /\ \A i \in 1..Len(q.got) : N.got[i] = q.got[i]
      BY <3>1, <1>t, <1>d, AppendProperties, LenProperties
    <3>3. ASSUME NEW i \in DOMAIN N.got PROVE N.begun < N.got[i] /\ N.got[i] <= N.read /\ N.got[i] # eos
      <4>1. CASE i = Len(q.got) + 1
        BY <4>1, <3>2, <2>4, <1>4, <1>7, <1>t, <1>d
      <4>2. CASE i # Len(q.got) + 1
        <5>1. i \in DOMAIN q.got /\ N.got[i] = q.got[i]
          BY <4>2, <3>2
        <5>2. q.begun < q.got[i] /\ q.got[i] <= q.read /\ q.got[i] # eos /\ q.got[i] \in Nat
          BY <5>1, <2>1, <2>2
        <5>3. q.read < e /\ e \in Nat /\ q.read \in Nat /\ N.begun = q.begun /\ N.read = e
          BY <1>4, <1>t, <1>d DEF PullRecords
        <5> QED BY <5>1, <5>2, <5>3
      <4> QED BY <4>1, <4>2
    <3>4. ASSUME NEW i \in DOMAIN N.got, NEW j \in DOMAIN N.got, i < j PROVE N.got[i] < N.got[j]
      <4>0. i \in DOMAIN q.got /\ N.got[i] = q.got[i]
        <5>1. i \in 1..(Len(q.got) + 1) /\ j \in 1..(Len(q.got) + 1) /\ i < j
          BY <3>2, <3>4
        <5>2. i \in 1..Len(q.got)
          BY <5>1, <3>2
        <5> QED BY <5>2, <3>2
      <4>1. CASE j = Len(q.got) + 1
        <5>1. N.got[j] = e /\ q.got[i] <= q.read /\ q.got[i] \in Nat
          BY <4>0, <4>1, <3>2, <2>1, <2>2
        <5> QED BY <5>1, <4>0, <1>t, <1>d
      <4>2. CASE j # Len(q.got) + 1
        <5>1. j \in DOMAIN q.got /\ N.got[j] = q.got[j]
          BY <4>2, <3>2
        <5> QED BY <5>1, <4>0, <2>1, <3>4
      <4> QED BY <4>1, <4>2
    <3> QED BY <3>3, <3>4
  <2> QED BY <2>3, <2>4
<1>10. Fetched(N)
  <2>1. N.at = "closing" => eos # 0 /\ N.read = eos
    BY <1>4, <1>d, <1>t
  <2>2. N.at = "yielding" => 
          /\ \A i \in DOMAIN N.batch : N.batch[i] = N.batch[1] + i - 1 /\ N.batch[i] <= written
          /\ N.batch # <<>> => N.read < N.batch[1] /\ Kept(N.read, N.batch[1] - 1) = {}
    BY <1>b, <1>4
  <2>3. N.begun <= N.read /\ N.read <= written /\ (N.from = 0 => N.begun = 0) /\ N.told # "end"
    BY <1>4, <1>7, <1>d, <1>t
  <2>4. N.at \notin {"idle", "asking", "seeking"}
    BY <1>4
  <2> QED BY <1>8, <1>9, <2>1, <2>2, <2>3, <2>4 DEF Fetched
<1>11. Had(pull[p]) \subseteq Had(N)
  BY <1>5, <1>q
<1>12. \A n \in Kept(0, N.read) : n = eos \/ n \in Had(N) \/ \E x \in Pulls : n \in Had(pull[x])
  <2>1. Kept(0, e) \subseteq Kept(0, q.read) \cup {e}
    BY <1>6, <1>t
  <2>2. \A n \in Kept(0, q.read) : n = eos \/ \E x \in Pulls : n \in Had(pull[x])
    BY <1>t DEF Covered
  <2> QED BY <2>1, <2>2, <1>4, <1>5
<1> QED BY <1>2, <1>3, <1>10, <1>11, <1>12, <1>i, PullSteps DEF Yields, OutTyped

(* The next message of p comes to the input, behind its earlier ones.        *)
LEMMA MessageComes ==
  ASSUME InTyped, InputInOrder, NEW p \in Pulls, NEW n \in Nat, n # 0, Landed(p, n - 1),
         input' = Append(input, <<p, n>>)
  PROVE  /\ input' \in Seq(Pulls \X Nat) /\ InputInOrder' /\ Landed(p, n)'
         /\ \A x \in Pulls \ {p} : \A m : Landed(x, m) => Landed(x, m)'
<1>1. /\ Len(input) \in Nat /\ DOMAIN input = 1..Len(input) /\ DOMAIN input' = 1..(Len(input) + 1)
      /\ input'[Len(input) + 1] = <<p, n>> /\ \A i \in 1..Len(input) : input'[i] = input[i]
      /\ input' \in Seq(Pulls \X Nat)
  BY AppendProperties, LenProperties DEF InTyped
<1>2. \A i \in DOMAIN input' : i = Len(input) + 1 \/ i \in DOMAIN input
  BY <1>1
<1>3. \A i \in DOMAIN input : input[i] \in Pulls \X Nat
  BY ElementOfSeq DEF InTyped
<1>4. InputInOrder'
  <2> SUFFICES ASSUME NEW i \in DOMAIN input'
               PROVE  /\ \A m \in 1..input'[i][2] - 1 : \E j \in 1..i - 1 : input'[j] = <<input'[i][1], m>>
                      /\ \A j \in 1..i - 1 : input'[j] # input'[i]
    BY Zenon DEF InputInOrder, Ordered
  <2>1. CASE i \in DOMAIN input
    <3>1. \A j \in 1..i - 1 : j \in DOMAIN input /\ input'[j] = input[j]
      BY <2>1, <1>1
    <3>2. input'[i] = input[i]
      BY <2>1, <1>1
    <3>3. /\ \A m \in 1..input[i][2] - 1 : \E j \in 1..i - 1 : input[j] = <<input[i][1], m>>
          /\ \A j \in 1..i - 1 : input[j] # input[i]
      BY <2>1 DEF InputInOrder, Ordered
    <3> QED BY <3>1, <3>2, <3>3
  <2>2. CASE i = Len(input) + 1
    <3>1. i - 1 = Len(input) /\ input'[i] = <<p, n>> /\ input'[i][1] = p /\ input'[i][2] = n
      BY <2>2, <1>1
    <3>2. ASSUME NEW m \in 1..n - 1 PROVE \E j \in 1..i - 1 : input'[j] = <<p, m>>
      <4>1. PICK j \in DOMAIN input : input[j] = <<p, m>>
        BY <3>2 DEF Landed
      <4> QED BY <4>1, <3>1, <1>1
    <3>3. ASSUME NEW j \in 1..i - 1 PROVE input'[j] # <<p, n>>
      <4>1. j \in DOMAIN input /\ input'[j] = input[j]
        BY <3>1, <1>1
      <4>2. input[j][1] = p => input[j][2] <= n - 1
        BY <4>1 DEF Landed
      <4>3. ASSUME input[j] = <<p, n>> PROVE FALSE
        <5>1. input[j][1] = p /\ input[j][2] = n
          BY <4>3
        <5> QED BY <5>1, <4>2
      <4> QED BY <4>1, <4>3
    <3> QED BY <3>1, <3>2, <3>3
  <2> QED BY <1>2, <2>1, <2>2
<1>5. Landed(p, n)'
  <2>1. ASSUME NEW m \in 1..n PROVE \E i \in DOMAIN input' : input'[i] = <<p, m>>
    <3>1. CASE m = n
      <4>1. Len(input) + 1 \in DOMAIN input'
        BY <1>1
      <4> QED BY <4>1, <3>1, <1>1
    <3>2. CASE m # n
      <4>1. m \in 1..n - 1
        BY <3>2
      <4>2. PICK i \in DOMAIN input : input[i] = <<p, m>>
        BY <4>1 DEF Landed
      <4>3. i \in DOMAIN input' /\ input'[i] = input[i]
        BY <1>1
      <4> QED BY <4>2, <4>3
    <3> QED BY <3>1, <3>2
  <2>2. ASSUME NEW i \in DOMAIN input', input'[i][1] = p PROVE input'[i][2] <= n
    <3>1. CASE i \in DOMAIN input
      <4>1. input[i][2] \in Nat /\ input'[i] = input[i]
        BY <3>1, <1>1, <1>3
      <4>2. input[i][2] <= n - 1
        BY <4>1, <3>1, <2>2 DEF Landed
      <4> QED BY <4>1, <4>2
    <3>2. CASE i = Len(input) + 1
      BY <3>2, <1>1
    <3> QED BY <3>1, <3>2, <1>2
  <2> QED BY <2>1, <2>2 DEF Landed
<1>6. ASSUME NEW x \in Pulls \ {p}, NEW m, Landed(x, m) PROVE Landed(x, m)'
  <2>1. ASSUME NEW k \in 1..m PROVE \E i \in DOMAIN input' : input'[i] = <<x, k>>
    <3>1. PICK i \in DOMAIN input : input[i] = <<x, k>>
      BY <2>1, <1>6 DEF Landed
    <3>2. i \in DOMAIN input' /\ input'[i] = input[i]
      BY <1>1
    <3> QED BY <3>1, <3>2
  <2>2. ASSUME NEW i \in DOMAIN input', input'[i][1] = x PROVE input'[i][2] <= m
    <3>1. CASE i \in DOMAIN input
      <4>1. input'[i] = input[i]
        BY <3>1, <1>1
      <4> QED BY <4>1, <3>1, <2>2, <1>6 DEF Landed
    <3>2. CASE i = Len(input) + 1
      BY <3>2, <2>2, <1>1
    <3> QED BY <3>1, <3>2, <1>2
  <2> QED BY <2>1, <2>2 DEF Landed
<1> QED BY <1>1, <1>4, <1>5, <1>6

(* The input and its readers stand still, and no pull asks anew.             *)
LEMMA InputStays ==
  ASSUME InInv, UNCHANGED <<upstream, input>>,
         \A x \in Pulls : pull'[x].at \in {"idle", "asking"} => pull[x].at \in {"idle", "asking"}
  PROVE  InInv'
<1>0. InTyped /\ InputInOrder /\ upstream' = upstream /\ input' = input
  BY DEF InInv
<1>1. InTyped' /\ InputInOrder'
  <2>1. InTyped'
    BY <1>0 DEF InTyped
  <2>2. InputInOrder'
    BY <1>0 DEF InputInOrder
  <2> QED BY <2>1, <2>2
<1>2. \A x, n : Landed(x, n) <=> Landed(x, n)'
  BY DEF Landed
<1>3. ASSUME NEW x \in Pulls PROVE Upstream(x)'
  BY <1>2 DEF InInv, Upstream
<1> QED BY <1>1, <1>3 DEF InInv

(* A step over which input and upstream stand still, and that brings no pull *)
(* back to where it is asked, moves nothing of the messages.                 *)
LEMMA PullsStay ==
  ASSUME InInv, pull \in [Pulls -> PullRecords], NEW p \in Pulls,
         \/ \E from \in Nat : Stream(p, from)
         \/ LateClient(p) \/ RedisFails(p) \/ Seek(p) \/ XRead(p) \/ Yields(p)
         \/ BatchEnds(p) \/ SaveCursor(p) \/ IdleDeadline(p) \/ HangsUp(p)
  PROVE  InInv'
<1> DEFINE Stays == /\ UNCHANGED <<upstream, input>>
                    /\ \A x \in Pulls : pull'[x].at \in {"idle", "asking"} => pull[x].at \in {"idle", "asking"}
<1>0. pull[p] \in PullRecords
  OBVIOUS
<1>1. ASSUME NEW from \in Nat, Stream(p, from) PROVE Stays
  BY <1>0, <1>1 DEF Stream
<1>2. ASSUME LateClient(p) PROVE Stays
  BY <1>0, <1>2 DEF LateClient, PullGoes, Fatal
<1>3. ASSUME RedisFails(p) PROVE Stays
  BY <1>0, <1>3 DEF RedisFails, PullRecords
<1>4. ASSUME Seek(p) PROVE Stays
  BY <1>0, <1>4 DEF Seek, PullRecords
<1>5. ASSUME XRead(p) PROVE Stays
  BY <1>0, <1>5 DEF XRead, PullRecords
<1>6. ASSUME Yields(p) PROVE Stays
  BY <1>0, <1>6 DEF Yields, PullRecords
<1>7. ASSUME BatchEnds(p) PROVE Stays
  BY <1>0, <1>7 DEF BatchEnds, PullGoes, PullRecords
<1>8. ASSUME SaveCursor(p) PROVE Stays
  BY <1>0, <1>8 DEF SaveCursor, PullRecords
<1>9. ASSUME IdleDeadline(p) PROVE Stays
  BY <1>0, <1>9 DEF IdleDeadline, Fatal, PullRecords
<1>10. ASSUME HangsUp(p) PROVE Stays
  BY <1>0, <1>10 DEF HangsUp, PullGoes, PullRecords
<1> QED BY <1>1, <1>2, <1>3, <1>4, <1>5, <1>6, <1>7, <1>8, <1>9, <1>10, InputStays

(* An input that is unchanged stays in order.                                *)
LEMMA SameInput ==
  ASSUME InputInOrder, input' = input
  PROVE  InputInOrder' /\ \A x, m : Landed(x, m) => Landed(x, m)'
<1>1. InputInOrder'
  BY Zenon DEF InputInOrder
<1>2. \A x, m : Landed(x, m) => Landed(x, m)'
  BY DEF Landed
<1> QED BY <1>1, <1>2

(* One client's messages move, and nobody else's.                            *)
LEMMA ReaderSteps ==
  ASSUME InInv, NEW p \in Pulls, upstream' \in [Pulls -> Upstreams],
         \A x \in Pulls \ {p} : upstream'[x] = upstream[x] /\ pull'[x] = pull[x],
         \/ input' = input
         \/ \E n \in Nat : n # 0 /\ Landed(p, n - 1) /\ input' = Append(input, <<p, n>>),
         Upstream(p)'
  PROVE  InInv'
<1>i. InTyped /\ InputInOrder /\ \A x \in Pulls : Upstream(x)
  BY DEF InInv
<1>1. /\ InTyped' /\ InputInOrder'
      /\ \A x \in Pulls \ {p} : \A m : Landed(x, m) => Landed(x, m)'
  <2>1. CASE input' = input
    <3>1. InTyped'
      BY <2>1, <1>i DEF InTyped
    <3>2. InputInOrder' /\ \A x, m : Landed(x, m) => Landed(x, m)'
      BY <2>1, <1>i, SameInput
    <3> QED BY <3>1, <3>2
  <2>2. ASSUME NEW n \in Nat, n # 0, Landed(p, n - 1), input' = Append(input, <<p, n>>)
        PROVE  /\ InTyped' /\ InputInOrder'
               /\ \A x \in Pulls \ {p} : \A m : Landed(x, m) => Landed(x, m)'
    <3>1. /\ input' \in Seq(Pulls \X Nat) /\ InputInOrder'
          /\ \A x \in Pulls \ {p} : \A m : Landed(x, m) => Landed(x, m)'
      BY <1>i, <2>2, MessageComes
    <3> QED BY <3>1 DEF InTyped
  <2> QED BY <2>1, <2>2
<1>2. ASSUME NEW x \in Pulls PROVE Upstream(x)'
  <2>1. CASE x = p
    BY <2>1
  <2>2. CASE x # p
    <3>1. Upstream(x) /\ upstream'[x] = upstream[x] /\ pull'[x] = pull[x]
      BY <2>2, <1>i
    <3>2. \A m : Landed(x, m) => Landed(x, m)'
      BY <2>2, <1>1
    <3> QED BY <3>1, <3>2 DEF Upstream
  <2> QED BY <2>1, <2>2
<1> QED BY <1>1, <1>2 DEF InInv

(* The query is the first message of its client.                             *)
LEMMA TakesQueryInOrder ==
  ASSUME InInv, pull \in [Pulls -> PullRecords], NEW p \in Pulls, TakesQuery(p) PROVE InInv'
<1>i. InTyped /\ InputInOrder /\ Upstream(p) /\ pull[p] \in PullRecords
  BY DEF InInv
<1>1. PICK n \in {0, 1} :
        /\ input' = IF n = 1 THEN Append(input, <<p, 1>>) ELSE input
        /\ upstream' = [upstream EXCEPT ![p] = [at |-> "waiting", sent |-> n]]
  BY DEF TakesQuery
<1>2. Landed(p, 0)
  BY <1>i DEF TakesQuery, Upstream
<1>3. pull'[p].at = "seeking" /\ \A x \in Pulls \ {p} : pull'[x] = pull[x]
  BY <1>i DEF TakesQuery, PullGoes, PullRecords
<1>4. /\ upstream' \in [Pulls -> Upstreams] /\ \A x \in Pulls \ {p} : upstream'[x] = upstream[x]
      /\ upstream'[p].at = "waiting" /\ upstream'[p].sent = n
  BY <1>1, <1>i DEF InTyped, Upstreams
<1>5. Landed(p, n)'
  <2>1. CASE n = 0
    <3>1. input' = input
      BY <2>1, <1>1
    <3> QED BY <3>1, <2>1, <1>2 DEF Landed
  <2>2. CASE n = 1
    <3>1. input' = Append(input, <<p, n>>) /\ n \in Nat /\ n # 0 /\ n - 1 = 0
      BY <2>2, <1>1
    <3>2. Landed(p, n - 1)
      BY <3>1, <1>2
    <3>3. Landed(p, n)'
      BY <3>1, <3>2, <1>i, MessageComes
    <3> QED BY <3>3
  <2> QED BY <2>1, <2>2
<1>6. Upstream(p)'
  BY <1>3, <1>4, <1>5 DEF Upstream
<1>7. \/ input' = input
      \/ \E k \in Nat : k # 0 /\ Landed(p, k - 1) /\ input' = Append(input, <<p, k>>)
  <2>1. CASE n = 0
    BY <2>1, <1>1
  <2>2. CASE n = 1
    <3>1. input' = Append(input, <<p, 1>>) /\ 1 \in Nat /\ 1 # 0 /\ 1 - 1 = 0
      BY <2>2, <1>1
    <3>2. Landed(p, 1 - 1)
      BY <3>1, <1>2
    <3> QED BY <3>1, <3>2
  <2> QED BY <2>1, <2>2
<1> QED BY <1>3, <1>4, <1>6, <1>7, ReaderSteps

(* The reader of a client's messages ends with its pull.                     *)
LEMMA FinallyInOrder ==
  ASSUME InInv, pull \in [Pulls -> PullRecords], NEW p \in Pulls, Finally(p) PROVE InInv'
<1>i. InTyped /\ InputInOrder /\ Upstream(p) /\ pull[p] \in PullRecords /\ upstream[p] \in Upstreams
  BY DEF InInv, InTyped
<1>1. pull'[p].at = "over" /\ \A x \in Pulls \ {p} : pull'[x] = pull[x]
  BY <1>i DEF Finally, PullGoes, PullRecords
<1>2. /\ upstream' \in [Pulls -> Upstreams] /\ \A x \in Pulls \ {p} : upstream'[x] = upstream[x]
      /\ upstream'[p].at = "off"
  BY <1>i DEF Finally, InTyped, Upstreams
<1>3. Upstream(p)'
  BY <1>1, <1>2 DEF Upstream
<1>4. \/ input' = input
      \/ \E n \in Nat : n # 0 /\ Landed(p, n - 1) /\ input' = Append(input, <<p, n>>)
  BY <1>i DEF Finally, Upstream, Upstreams
<1> QED BY <1>1, <1>2, <1>3, <1>4, ReaderSteps

(* A client's next message is at hand when those before it have come in.     *)
LEMMA NextMessageInOrder == ASSUME InInv, NEW p \in Pulls, NextMessage(p) PROVE InInv'
<1>i. InTyped /\ InputInOrder /\ Upstream(p) /\ upstream[p] \in Upstreams
  BY DEF InInv, InTyped
<1>1. upstream[p].at = "waiting" /\ input' = input /\ pull' = pull
  BY DEF NextMessage
<1>2. Landed(p, upstream[p].sent) /\ upstream[p].sent \in Nat /\ pull[p].at \notin {"idle", "asking"}
  BY <1>i, <1>1 DEF Upstream, Upstreams
<1>4. PICK u : u = IF taskSession THEN [at |-> "writing", sent |-> upstream[p].sent + 1]
                   ELSE [upstream[p] EXCEPT !.at = "off"]
  OBVIOUS
<1>5. upstream' = [upstream EXCEPT ![p] = u]
  BY <1>4 DEF NextMessage
<1>6. /\ u \in Upstreams
      /\ u.at = "off" \/ (u.at = "writing" /\ u.sent = upstream[p].sent + 1)
  BY <1>4, <1>i, <1>2 DEF Upstreams
<1>7. /\ upstream' \in [Pulls -> Upstreams] /\ upstream'[p] = u
      /\ \A x \in Pulls \ {p} : upstream'[x] = upstream[x]
  BY <1>5, <1>6, <1>i DEF InTyped
<1>8. Upstream(p)'
  <2>1. CASE u.at = "off"
    BY <2>1, <1>1, <1>2, <1>7 DEF Upstream
  <2>2. CASE u.at = "writing" /\ u.sent = upstream[p].sent + 1
    <3>1. u.sent # 0 /\ u.sent - 1 = upstream[p].sent
      BY <2>2, <1>2
    <3>2. PICK k : k = u.sent - 1
      OBVIOUS
    <3>3. Landed(p, k)
      BY <3>1, <3>2, <1>2
    <3>4. Landed(p, k)'
      BY <3>3, <1>1 DEF Landed
    <3> QED BY <2>2, <3>1, <3>2, <3>4, <1>1, <1>2, <1>7 DEF Upstream
  <2> QED BY <2>1, <2>2, <1>6
<1> QED BY <1>1, <1>7, <1>8, ReaderSteps

(* A message comes in behind all the earlier ones of its client.             *)
LEMMA MessageLandsInOrder == ASSUME InInv, NEW p \in Pulls, MessageLands(p) PROVE InInv'
<1>i. InTyped /\ InputInOrder /\ Upstream(p) /\ upstream[p] \in Upstreams
  BY DEF InInv, InTyped
<1>1. upstream[p].at = "writing" /\ pull' = pull
  BY DEF MessageLands
<1>2. PICK n : n = upstream[p].sent
  OBVIOUS
<1>3. n \in Nat /\ n # 0 /\ Landed(p, n - 1) /\ pull[p].at \notin {"idle", "asking"}
  BY <1>i, <1>1, <1>2 DEF Upstream, Upstreams
<1>4. CASE input' = Append(input, <<p, n>>) /\ upstream' = [upstream EXCEPT ![p].at = "waiting"]
  <2>1. /\ upstream' \in [Pulls -> Upstreams] /\ \A x \in Pulls \ {p} : upstream'[x] = upstream[x]
        /\ upstream'[p].at = "waiting" /\ upstream'[p].sent = n
    BY <1>4, <1>2, <1>i DEF InTyped, Upstreams
  <2>2. Landed(p, n)'
    BY <1>3, <1>4, <1>i, MessageComes
  <2>3. Upstream(p)'
    BY <2>1, <2>2, <1>1, <1>3 DEF Upstream
  <2>4. \E k \in Nat : k # 0 /\ Landed(p, k - 1) /\ input' = Append(input, <<p, k>>)
    BY <1>3, <1>4
  <2> QED BY <2>1, <2>3, <2>4, <1>1, ReaderSteps
<1>5. CASE input' = input /\ upstream' = [upstream EXCEPT ![p].at = ReaderEnds(p)]
  <2>1. /\ upstream' \in [Pulls -> Upstreams] /\ \A x \in Pulls \ {p} : upstream'[x] = upstream[x]
        /\ upstream'[p].at = "off"
    BY <1>5, <1>i DEF InTyped, Upstreams, ReaderEnds
  <2>2. Upstream(p)'
    BY <2>1, <1>1, <1>3 DEF Upstream
  <2> QED BY <2>1, <2>2, <1>5, <1>1, ReaderSteps
<1> QED BY <1>2, <1>4, <1>5 DEF MessageLands

WhatHolds == OutInv /\ InInv

(* Before any pull.                                                          *)
LEMMA PullsBegin == PullInit => WhatHolds
<1> SUFFICES ASSUME PullInit PROVE OutInv /\ InInv
  BY DEF WhatHolds
<1>1. /\ written = 0 /\ eos = 0 /\ dropped = 0 /\ cursor = 0 /\ taskSession = TRUE /\ input = <<>>
      /\ upstream = [p \in Pulls |-> [at |-> "off", sent |-> 0]]
      /\ pull = [p \in Pulls |-> [at |-> "idle", from |-> 0, joined |-> FALSE, begun |-> 0, read |-> 0,
                              batch |-> <<>>, since |-> 0, got |-> <<>>, told |-> "nothing"]]
  BY DEF PullInit, NoCursor
<1>2. <<>> \in Seq(Nat) /\ <<>> \in Seq(Pulls \X Nat) /\ DOMAIN <<>> = {}
  BY EmptySeq, LenProperties
<1>3. pull \in [Pulls -> PullRecords] /\ upstream \in [Pulls -> Upstreams]
  BY <1>1, <1>2 DEF PullRecords, PullStates, Upstreams
<1>4. Kept(0, 0) = {}
  BY DEF Kept
<1>5. ASSUME NEW p \in Pulls PROVE Fetched(pull[p]) /\ Covered(pull[p].read) /\ Upstream(p)
  <2>1. PICK q : q = pull[p]
    OBVIOUS
  <2>2. /\ q.at = "idle" /\ q.from = 0 /\ q.begun = 0 /\ q.read = 0 /\ q.got = <<>> /\ q.told = "nothing"
    BY <2>1, <1>1
  <2>3. Fetched(q)
    BY <2>2, <1>1, <1>2, <1>4 DEF Fetched
  <2>4. Covered(q.read)
    BY <2>2, <1>4 DEF Covered
  <2>5. Landed(p, 0)
    BY <1>1, <1>2 DEF Landed
  <2>6. upstream[p].at = "off"
    BY <1>1
  <2> QED BY <2>1, <2>3, <2>4, <2>5, <2>6 DEF Upstream
<1>6. Covered(cursor)
  BY <1>1, <1>4 DEF Covered
<1>7. OutTyped
  BY <1>1, <1>3 DEF OutTyped
<1>8. InTyped /\ InputInOrder
  BY <1>1, <1>2, <1>3 DEF InTyped, InputInOrder, Ordered
<1> QED BY <1>5, <1>6, <1>7, <1>8 DEF OutInv, InInv

(* The module writes, the stream's TTLs run out, the session ends.           *)
LEMMA StreamSteps ==
  ASSUME WhatHolds, (\E last \in BOOLEAN : Writes(last)) \/ Expires \/ SessionEnds PROVE WhatHolds'
<1>i. OutInv /\ InInv /\ OutTyped
  BY DEF WhatHolds, OutInv
<1>1. UNCHANGED <<pull, upstream, input>>
  BY DEF Writes, Expires, SessionEnds
<1>2. InInv'
  BY <1>i, <1>1, InputStays
<1>3. ASSUME NEW last \in BOOLEAN, Writes(last) PROVE OutInv'
  <2>1. PICK n \in dropped..written' : dropped' = n
    BY <1>3 DEF Writes
  <2>2. /\ eos = 0 /\ written' = written + 1 /\ (eos' = 0 \/ eos' = written')
        /\ UNCHANGED <<cursor, taskSession, pull>>
    BY <1>3 DEF Writes
  <2>3. dropped' \in Nat /\ dropped <= dropped' /\ dropped' <= written' /\ written' \in Nat /\ written <= written'
    BY <2>1, <2>2, <1>i DEF OutTyped
  <2> QED BY <2>2, <2>3, <1>i, StreamMoves DEF OutTyped
<1>4. ASSUME Expires PROVE OutInv'
  <2>1. /\ dropped' = written \/ dropped' = dropped
        /\ cursor' = cursor \/ cursor' = NoCursor
        /\ UNCHANGED <<written, eos, taskSession, pull>>
    BY <1>4 DEF Expires, StreamExpires, CursorExpires
  <2> QED BY <2>1, <1>i, StreamMoves DEF OutTyped
<1>5. ASSUME SessionEnds PROVE OutInv'
  <2>1. taskSession' = FALSE /\ UNCHANGED <<written, eos, dropped, cursor, pull>>
    BY <1>5 DEF SessionEnds
  <2>b. taskSession' \in BOOLEAN
    BY <2>1, Zenon
  <2>2. /\ written' \in Nat /\ dropped' \in Nat
        /\ written <= written' /\ dropped <= dropped' /\ dropped' <= written'
    BY <2>1, <1>i DEF OutTyped
  <2> QED BY <2>1, <2>2, <2>b, <1>i, StreamMoves
<1> QED BY <1>2, <1>3, <1>4, <1>5 DEF WhatHolds

(* A step of one pull or of the reader of its messages.                      *)
LEMMA PullStep ==
  ASSUME PullAssumption, WhatHolds, NEW p \in Pulls,
         \/ \E from \in {0} \cup {Label(q) : q \in Pulls} : Stream(p, from)
         \/ LateClient(p) \/ TakesQuery(p) \/ RedisFails(p) \/ Seek(p) \/ XRead(p) \/ Yields(p)
         \/ BatchEnds(p) \/ SaveCursor(p) \/ IdleDeadline(p) \/ HangsUp(p) \/ Finally(p)
         \/ NextMessage(p) \/ MessageLands(p)
  PROVE  WhatHolds'
<1>i. OutInv /\ InInv /\ OutTyped /\ pull \in [Pulls -> PullRecords]
  BY DEF WhatHolds, OutInv, OutTyped
<1>0. {0} \cup {Label(q) : q \in Pulls} \subseteq Nat
  <2> SUFFICES ASSUME NEW q \in Pulls PROVE Label(q) \in Nat
    OBVIOUS
  <2>1. pull[q].from \in Nat /\ pull[q].got \in Seq(Nat)
    BY <1>i DEF PullRecords
  <2>2. Len(pull[q].got) \in Nat
    BY <2>1, LenProperties
  <2> QED BY <2>1, <2>2 DEF Label
<1>1. ASSUME NEW from \in Nat, Stream(p, from) PROVE OutInv' /\ InInv'
  BY <1>i, <1>1, StreamKeeps, PullsStay
<1>2. CASE LateClient(p)
  BY <1>i, <1>2, LateClientKeeps, PullsStay DEF WhatHolds
<1>3. CASE TakesQuery(p)
  BY <1>i, <1>3, TakesQueryKeeps, TakesQueryInOrder DEF WhatHolds
<1>4. CASE RedisFails(p)
  BY <1>i, <1>4, RedisFailsKeeps, PullsStay DEF WhatHolds
<1>5. CASE Seek(p)
  BY <1>i, <1>5, SeekKeeps, PullsStay DEF WhatHolds
<1>6. CASE XRead(p)
  BY <1>i, <1>6, PullAssumption, XReadKeeps, PullsStay DEF WhatHolds
<1>7. CASE Yields(p)
  BY <1>i, <1>7, YieldsKeeps, PullsStay DEF WhatHolds
<1>8. CASE BatchEnds(p)
  BY <1>i, <1>8, BatchEndsKeeps, PullsStay DEF WhatHolds
<1>9. CASE SaveCursor(p)
  BY <1>i, <1>9, SaveCursorKeeps, PullsStay DEF WhatHolds
<1>10. CASE IdleDeadline(p)
  BY <1>i, <1>10, IdleDeadlineKeeps, PullsStay DEF WhatHolds
<1>11. CASE HangsUp(p)
  BY <1>i, <1>11, HangsUpKeeps, PullsStay DEF WhatHolds
<1>12. CASE Finally(p)
  BY <1>i, <1>12, FinallyKeeps, FinallyInOrder DEF WhatHolds
<1>13. CASE NextMessage(p) \/ MessageLands(p)
  <2>1. InInv'
    BY <1>i, <1>13, NextMessageInOrder, MessageLandsInOrder
  <2>2. UNCHANGED <<written, eos, dropped, cursor, taskSession, pull>>
    BY <1>13 DEF NextMessage, MessageLands
  <2>3. OutInv'
    BY <2>2, <1>i, StreamMoves DEF OutTyped
  <2> QED BY <2>1, <2>3 DEF WhatHolds
<1> QED BY <1>0, <1>1, <1>2, <1>3, <1>4, <1>5, <1>6, <1>7, <1>8, <1>9, <1>10, <1>11, <1>12,
           <1>13 DEF WhatHolds

(* Every step of a pull, of the reader of its messages, of the module that   *)
(* writes and of Redis.                                                      *)
LEMMA PullsGoOn == ASSUME PullAssumption, WhatHolds, [PullNext]_pvars PROVE WhatHolds'
<1>1. CASE UNCHANGED pvars
  <2>1. UNCHANGED <<written, eos, dropped, cursor, taskSession, pull, upstream, input>>
    BY <1>1 DEF pvars
  <2>2. OutInv'
    BY <2>1, StreamMoves DEF OutTyped, OutInv, WhatHolds
  <2>3. InInv'
    BY <2>1, InputStays DEF WhatHolds
  <2> QED BY <2>2, <2>3 DEF WhatHolds
<1>2. CASE PullNext
  BY <1>2, PullAssumption, StreamSteps, PullStep DEF PullNext
<1> QED BY <1>1, <1>2

(* What holds of the pulls is PullsInOrder.                                  *)
LEMMA HoldsIsInOrder == WhatHolds => PullsInOrder
<1> SUFFICES ASSUME WhatHolds PROVE PullsInOrder
  OBVIOUS
<1>i. /\ OutTyped /\ Covered(cursor) /\ InputInOrder
      /\ \A p \in Pulls : Fetched(pull[p]) /\ pull[p] \in PullRecords
  BY DEF WhatHolds, OutInv, InInv, OutTyped
<1>1. ASSUME NEW p \in Pulls
      PROVE  /\ \A i, j \in DOMAIN pull[p].got : i < j => pull[p].got[i] < pull[p].got[j]
             /\ Yielded(p) # {} => Kept(Begun(p), pull[p].got[Len(pull[p].got)]) \subseteq Yielded(p)
             /\ pull[p].told = "end" => eos # 0 /\ Kept(Begun(p), eos - 1) \subseteq Yielded(p)
  <2>1. PICK q : q = pull[p]
    OBVIOUS
  <2>0. /\ q \in PullRecords /\ q.got \in Seq(Nat) /\ q.read \in Nat /\ q.begun \in Nat /\ Fetched(q)
    BY <2>1, <1>i DEF PullRecords
  <2>y. Yielded(p) = Had(q) /\ Begun(p) = q.begun
    BY <2>0, <2>1 DEF Yielded, Had, Begun, Fetched
  <2>2. /\ q \in PullRecords /\ q.got \in Seq(Nat) /\ q.read \in Nat /\ q.begun \in Nat
        /\ Yielded(p) = Had(q) /\ Begun(p) = q.begun
        /\ \A i \in DOMAIN q.got : q.got[i] <= q.read /\ q.got[i] # eos
        /\ \A i, j \in DOMAIN q.got : i < j => q.got[i] < q.got[j]
        /\ \A n \in Kept(q.begun, q.read) : n = eos \/ n \in Had(q)
        /\ q.told = "end" => eos # 0 /\ q.read = eos
        /\ q.read <= written
    BY <2>0, <2>y DEF Fetched
  <2>3. ASSUME Had(q) # {} PROVE Kept(q.begun, q.got[Len(q.got)]) \subseteq Had(q)
    <3>1. Len(q.got) \in DOMAIN q.got
      BY <2>2, <2>3, LenProperties DEF Had
    <3>2. PICK g : g = q.got[Len(q.got)]
      OBVIOUS
    <3>3. g \in Nat /\ g <= q.read /\ g # eos
      BY <3>1, <3>2, <2>2, ElementOfSeq
    <3>4. \A n \in Kept(q.begun, g) : n \in Kept(q.begun, q.read) /\ n <= g /\ n \in Nat
      BY <3>3, <2>2 DEF Kept
    <3>5. eos # 0 => g < eos
      BY <3>3, <2>2, <1>i DEF OutTyped
    <3>6. ASSUME NEW n \in Kept(q.begun, g) PROVE n # eos
      <4>1. n \in Nat /\ n <= g /\ n > q.begun /\ n # 0
        BY <3>3, <3>4, <2>2 DEF Kept
      <4> QED BY <4>1, <3>3, <3>5, <1>i DEF OutTyped
    <3> QED BY <3>2, <3>4, <3>6, <2>2
  <2>4. ASSUME q.told = "end" PROVE eos # 0 /\ Kept(q.begun, eos - 1) \subseteq Had(q)
    <3>1. eos # 0 /\ q.read = eos /\ eos \in Nat
      BY <2>2, <2>4, <1>i DEF OutTyped
    <3>2. \A n \in Kept(q.begun, eos - 1) : n \in Kept(q.begun, q.read) /\ n # eos
      BY <3>1, <2>2 DEF Kept
    <3> QED BY <3>1, <3>2, <2>2
  <2> QED BY <2>1, <2>2, <2>3, <2>4
<1>2. Kept(0, cursor) \ {eos} \subseteq UNION {Yielded(p) : p \in Pulls}
  BY <1>i DEF Covered, Yielded, Had
<1> QED BY <1>1, <1>2, <1>i DEF PullsInOrder, InputInOrder, Ordered

(* A client that pulls is yielded outputs in order and none that Redis still *)
(* holds is skipped between them; the end is told after the last one; what   *)
(* lies behind the saved cursor was yielded to somebody; a client's messages *)
(* come in once and in order: Stream of the gateway with its second task,    *)
(* over the trims and the TTLs of Redis.                                     *)
THEOREM PulledInOrder == PullSpec => []PullsInOrder
<1>1. PullInit => WhatHolds
  BY PullsBegin
<1>2. WhatHolds /\ [PullNext]_pvars => WhatHolds'
  BY PullAssumption, PullsGoOn
<1>3. WhatHolds => PullsInOrder
  BY HoldsIsInOrder
<1> QED BY <1>1, <1>2, <1>3, PTL DEF PullSpec

-----------------------------------------------------------------------------
(* The run that composes them takes no step that its sides do not take.      *)
LEMMA SidesAreComponents == Spec => LifeSpec /\ ServerSpec /\ PullSpec
<1>1. Init => LifeInit /\ SignalInit /\ ServerInit /\ PullInit
  BY DEF Init
<1>2. Progresses => LifeNext
  BY DEF Progresses, LifeNext
<1>3. [Next]_all => [LifeNext]_lvars
  BY <1>2 DEF Next, OnListener, OnModule, OnStream, all
<1>4. [Next]_all => [ServerNext]_avars
  BY HostAssumption DEF HostAssumption, Next, OnListener, OnModule, OnStream, RequestsStep,
     ListenerStep, ServerNext, all
<1>5. [Next]_all => [PullNext]_pvars
  BY DEF Next, OnListener, OnModule, OnStream, all
<1> QED BY <1>1, <1>3, <1>4, <1>5, PTL DEF Spec, LifeSpec, ServerSpec, PullSpec

(* In the run that composes them, and for any constants, a module ends in    *)
(* order, a server leaves nothing behind and pulling skips nothing.          *)
THEOREM HostInOrder == Spec => [](EndsInOrder /\ LeavesNothing /\ PullsInOrder)
BY SidesAreComponents, EndedInOrder, LeftNothing, PulledInOrder, PTL
=============================================================================
