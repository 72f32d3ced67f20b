----------------------------- MODULE PausedRuns -----------------------------
(* AgnoHitlRunner over the paused_runs records of one thread: a turn resumes *)
(* a run that paused on tools of the client, abandons it, or runs the agent  *)
(* afresh.  A pause is a number; its pending calls are one or two.  The      *)
(* client posts a user message, or the results of a pause it was told of,    *)
(* all or some, again too; turns may overlap.  A step is the code between    *)
(* two awaits of the storage.                                                *)
EXTENDS Naturals, FiniteSets

CONSTANTS
  Posts,      \* the turns: one for each input the client posts
  MaxPauses,  \* bound: pauses of the agent
  MaxRounds,  \* bound standing for the 20 rounds of _drive
  MaxErrors   \* bound: failures of the storage or the agent

ASSUME PausesAssumption == MaxPauses \in Nat /\ MaxRounds \in Nat \ {0} /\ MaxErrors \in Nat

VARIABLES
  record,     \* the paused run under the thread, 0 if none
  pauses,     \* pauses so far
  pairs,      \* pauses with two pending calls
  post,       \* where each turn stands, what was posted, the pause it resumes
  awaiting,   \* pauses the client was told to answer
  used,       \* times the results of each pause went into the agent
  abandoned,  \* pauses that a user message, or a failure, ended
  crossed,    \* two turns were under way at once
  errors

hvars == <<record, pauses, pairs, post, awaiting, used, abandoned, crossed, errors>>

Pauses == 1..MaxPauses
Fresh == [at |-> "idle", results |-> 0, whole |-> FALSE, from |-> 0, rounds |-> 0]

HitlInit ==
  /\ record = 0 /\ pauses = 0 /\ pairs = {}
  /\ post = [t \in Posts |-> Fresh]
  /\ awaiting = {} /\ used = [p \in Pauses |-> 0] /\ abandoned = {}
  /\ crossed = FALSE /\ errors = 0

Error == errors < MaxErrors /\ errors' = errors + 1
Step(t, r) == post' = [post EXCEPT ![t] = r]
UnderWay == {t \in Posts : post[t].at \notin {"idle", "over"}}

(* handle_agui_input: results = 0 is a user message.                         *)
Arrives(t) ==
  /\ post[t].at = "idle"
  /\ \E p \in awaiting \cup {0}, whole \in BOOLEAN :
       /\ ~whole => p \in pairs
       /\ Step(t, [Fresh EXCEPT !.at = "loading", !.results = p, !.whole = whole])
  /\ crossed' = (crossed \/ UnderWay # {})
  /\ UNCHANGED <<record, pauses, pairs, awaiting, used, abandoned, errors>>

(* try_resume: what the record and the messages make of the input.  Results  *)
(* of another pause run the thread's last user message afresh.  A read that  *)
(* fails finds no record.                                                    *)
Loads(t) ==
  LET r == post[t]  mine == record # 0 /\ r.results = record IN
  /\ r.at = "loading"
  /\ \/ /\ Step(t, [r EXCEPT !.at = IF mine THEN (IF r.whole THEN "reloading" ELSE "partial")
                                    ELSE IF record # 0 /\ r.results = 0 THEN "dropping" ELSE "driving"])
        /\ UNCHANGED errors
     \/ Error /\ Step(t, [r EXCEPT !.at = "driving"])
  /\ UNCHANGED <<record, pauses, pairs, awaiting, used, abandoned, crossed>>

(* A new user message drops the record before the agent runs.                *)
Drops(t) ==
  /\ post[t].at = "dropping"
  /\ record' = 0
  /\ abandoned' = abandoned \cup awaiting
  /\ Step(t, [post[t] EXCEPT !.at = "driving"])
  /\ UNCHANGED <<pauses, pairs, awaiting, used, crossed, errors>>

\* RUN_STARTED and RUN_ERROR; the record stays for a complete answer.
DropPartial == record' = 0
KeepPartial == UNCHANGED record

Partial(t) ==
  /\ post[t].at = "partial"
  /\ KeepPartial
  /\ Step(t, [post[t] EXCEPT !.at = "over"])
  /\ UNCHANGED <<pauses, pairs, awaiting, used, abandoned, crossed, errors>>

(* continue_paused_run reads the record again: it may be gone, and then the  *)
(* turn ends without a word, or be that of a later pause.                    *)
Reloads(t) ==
  LET r == post[t] IN
  /\ r.at = "reloading"
  /\ IF record = 0
     THEN Step(t, [r EXCEPT !.at = "over"]) /\ UNCHANGED used
     ELSE /\ Step(t, [r EXCEPT !.at = "driving", !.from = record])
          /\ used' = IF record = r.results THEN [used EXCEPT ![record] = @ + 1] ELSE used
  /\ UNCHANGED <<record, pauses, pairs, awaiting, abandoned, crossed, errors>>

-----------------------------------------------------------------------------
(* _drive                                                                    *)

(* The agent paused on load_manager only: the tools are loaded in process    *)
(* and the run goes on, up to a limit, where it ends with RUN_ERROR.         *)
Continues(t) ==
  LET r == post[t] IN
  /\ r.at = "driving"
  /\ Step(t, [r EXCEPT !.rounds = @ + 1, !.at = IF r.rounds + 1 = MaxRounds THEN "completing" ELSE "driving"])
  /\ UNCHANGED <<record, pauses, pairs, awaiting, used, abandoned, crossed, errors>>

Finishes(t) ==
  /\ post[t].at = "driving"
  /\ Step(t, [post[t] EXCEPT !.at = "completing"])
  /\ UNCHANGED <<record, pauses, pairs, awaiting, used, abandoned, crossed, errors>>

(* A resumed run that is complete clears the record, a fresh one does not.   *)
ClearDone(t) == record' = IF post[t].from # 0 THEN 0 ELSE record

Completes(t) ==
  /\ post[t].at = "completing"
  /\ ClearDone(t)
  /\ Step(t, [post[t] EXCEPT !.at = "over"])
  /\ UNCHANGED <<pauses, pairs, awaiting, used, abandoned, crossed, errors>>

(* The agent pauses on tools of the client: the record is replaced, then the *)
(* client is told what is awaited.                                           *)
PausesAgain(t) ==
  /\ post[t].at = "driving" /\ pauses < MaxPauses
  /\ pauses' = pauses + 1
  /\ pairs' \in {pairs, pairs \cup {pauses + 1}}
  /\ record' = pauses + 1
  /\ Step(t, [post[t] EXCEPT !.at = "emitting", !.from = pauses + 1])
  /\ UNCHANGED <<awaiting, used, abandoned, crossed, errors>>

Emits(t) ==
  /\ post[t].at = "emitting"
  /\ awaiting' = awaiting \cup {post[t].from}
  /\ Step(t, [post[t] EXCEPT !.at = "over"])
  /\ UNCHANGED <<record, pauses, pairs, used, abandoned, crossed, errors>>

\* The agent, a callback or the storage raises: the record stays as it is.
Raises(t) ==
  /\ post[t].at \in {"dropping", "driving", "completing", "emitting"}
  /\ Error
  /\ abandoned' = abandoned \cup {post[t].from}
  /\ Step(t, [post[t] EXCEPT !.at = "over"])
  /\ UNCHANGED <<record, pauses, pairs, awaiting, used, crossed>>

HitlNext == \E t \in Posts :
  \/ Arrives(t) \/ Loads(t) \/ Drops(t) \/ Partial(t) \/ Reloads(t)
  \/ Continues(t) \/ Finishes(t) \/ Completes(t) \/ PausesAgain(t) \/ Emits(t) \/ Raises(t)

-----------------------------------------------------------------------------
AwaitedIsKept ==
  \A p \in awaiting \ abandoned :
    \/ p = record
    \/ used[p] > 0
    \/ \E q \in Pauses : p < q /\ q <= pauses
UsedOnce == \A p \in Pauses \ abandoned : used[p] <= 1

(* What the client was told to answer it can answer: the run that awaits it  *)
(* is on record until its results are used, a later pause replaces it or a   *)
(* user message abandons it; and results posted again go into the agent      *)
(* once. Two turns of the thread under way at once, or a resume that raised, *)
(* break both: the one that completes clears what the other awaits.          *)
PausesInOrder == crossed \/ (AwaitedIsKept /\ UsedOnce)
=============================================================================
