----------------------------- MODULE AgentStream -----------------------------
(***************************************************************************)
(* One turn of an Agno agent or team shown to an AG-UI client:             *)
(* AgnoHitlRunner.handle_agui_input and _drive (community/agno/hitl.py),   *)
(* AgnoStreamAdapter (community/agno/agno_adapter.py) and the emission of  *)
(* AgUiMixin (mixins/agui_mixin.py).                                       *)
(*                                                                         *)
(* Agno is external: it interleaves the events of the top run and of its   *)
(* members.  For each raw event the adapter appends a burst to `out`, and  *)
(* the runner awaits one send per event of the burst before it takes the   *)
(* next raw event.  The id of a call that is over stands for another call  *)
(* in the stream of an in-process continue.                                *)
(***************************************************************************)
EXTENDS Naturals, Sequences, FiniteSets, SequencesExt

CONSTANTS Top,            \* run id of the top-level run
          Members,        \* run ids of the members it delegates to
          Nobody,         \* no run id / no sub-agent
          ServerTools, FrontTools, LoadTools, \* calls run by Agno, by the client, by load_manager
          MaxIds,         \* bound: sequences opened in a turn
          ContinueLimit,  \* range(20) in _drive
          MembersContinue \* BOOLEAN: members go on after an in-process continue

Runs == {Top} \cup Members
Keys == Runs \cup {Nobody}
Kinds == {"text", "reasoning"}
External == FrontTools \cup LoadTools
Tools == ServerTools \cup External
Ids == 1..MaxIds
RunIds == {"none", "agno", "input"}

ASSUME StreamAssumption ==
    /\ Nobody \notin Runs /\ Top \notin Members
    /\ MaxIds \in Nat /\ ContinueLimit \in Nat \ {0}
    /\ MembersContinue \in BOOLEAN
    /\ IsFiniteSet(Members) /\ IsFiniteSet(External)

VARIABLES
    agno,     \* [Runs -> {"idle", "live", "over"}]: what Agno has done with each run
    parent,   \* [Members -> Keys]: the run that delegated to each member
    calls,    \* [Tools -> {"idle", "open", "closed"}]: the calls of the current stream
    adapter,  \* the AgnoStreamAdapter, with `next`, the number of ids given, and `out`
    drive,    \* where _drive stands
    rounds,   \* iterations of its loop so far
    pending,  \* external calls of the paused run still without a result
    mixin,    \* AgUiMixin._run_id
    client    \* what the client has seen

vars == <<agno, parent, calls, adapter, drive, rounds, pending, mixin, client>>

-----------------------------------------------------------------------------
NoSeq == [id |-> 0, meta |-> Nobody]

\* AgnoStreamAdapter.__init__; ids are uuids, so their count outlives the adapter.
NewAdapter(next) ==
    [open |-> [kind \in Kinds |-> [k \in Keys |-> NoSeq]],
     subagents |-> <<>>, active |-> Nobody, completed |-> {}, closed |-> {}, paused |-> FALSE,
     next |-> next, out |-> <<>>]

Emit(a, events) == [a EXCEPT !.out = @ \o events]

\* _subagent_of: the delegation in flight that owns a run.
Owner(a, k) == IF k \in Range(a.subagents) THEN k ELSE Nobody

Other(kind) == IF kind = "text" THEN "reasoning" ELSE "text"

ClosingEvent(a, kind, k) ==
    [type |-> "close", kind |-> kind, id |-> a.open[kind][k].id, by |-> Owner(a, k)]

\* dict.pop of a run that is in it.
Popped(runs, m) == RemoveAt(runs, CHOOSE i \in DOMAIN runs : runs[i] = m)

OpenKeys(a, kind) == {k \in Keys : a.open[kind][k] # NoSeq}

Close(a, kind, k) ==
    IF k \notin OpenKeys(a, kind) THEN a
    ELSE [Emit(a, <<ClosingEvent(a, kind, k)>>) EXCEPT !.open[kind][k] = NoSeq]

CloseAll(a, kind) ==
    LET ks == SetToSeq(OpenKeys(a, kind))
    IN [Emit(a, [i \in DOMAIN ks |-> ClosingEvent(a, kind, ks[i])])
            EXCEPT !.open[kind] = [k \in Keys |-> NoSeq]]

CloseSubagents(a) ==
    LET ms == Reverse(a.subagents)
    IN [Emit(a, [i \in DOMAIN ms |-> [type |-> "agent_finished", run |-> ms[i]]])
            EXCEPT !.subagents = <<>>]

CloseEverything(a) == CloseSubagents(CloseAll(CloseAll(a, "text"), "reasoning"))

Open(a, kind, k, r) ==
    LET id == a.next + 1
    IN [Emit(a, <<[type |-> "open", kind |-> kind, id |-> id, by |-> Owner(a, k)]>>)
            EXCEPT !.open[kind][k] = [id |-> id, meta |-> r], !.next = id]

Say(a, kind, k) ==
    Emit(a, <<[type |-> "delta", kind |-> kind, id |-> a.open[kind][k].id, by |-> Owner(a, k)]>>)

\* Mutant: the run's other sequence is left open.
ProcessAlongside(a, kind, k, r, content) ==
    IF content = "absent" THEN a
    ELSE IF content = "empty" THEN Close(a, kind, k)
    ELSE Say(IF k \in OpenKeys(a, kind) THEN a ELSE Open(a, kind, k, r), kind, k)

\* Mutant: every piece of content opens a sequence.
ProcessAnew(a, kind, k, r, content) ==
    IF content = "absent" THEN a
    ELSE IF content = "empty" THEN Close(a, kind, k)
    ELSE Say(Open(Close(a, Other(kind), k), kind, k, r), kind, k)

\* _process_text_content, _process_reasoning_content: an empty string closes the sequence, any
\* other closes the run's other sequence, opens its own if need be and extends it.
Process(a, kind, k, r, content) ==
    IF content = "absent" THEN a
    ELSE IF content = "empty" THEN Close(a, kind, k)
    ELSE LET b == Close(a, Other(kind), k)
             c == IF k \in OpenKeys(b, kind) THEN b ELSE Open(b, kind, k, r)
         IN Say(c, kind, k)

ToolEvents(a, t, k) ==
    [start |-> [type |-> "tool_start", tool |-> t, by |-> Owner(a, k)],
     end   |-> [type |-> "tool_end", tool |-> t, by |-> Owner(a, k)]]

-----------------------------------------------------------------------------
(* The client and the mixin. *)

Pop(a) == [a EXCEPT !.out = Tail(@)]

\* AgUiMixin: the run id of RUN_STARTED is the primed one, else the event's, and RUN_FINISHED
\* repeats it; every other event goes out as it is.
RunIdOf(e) == IF mixin = "none" THEN e.run ELSE mixin
Shown(e) == IF e.type \in {"run_started", "run_finished"} THEN [e EXCEPT !.run = RunIdOf(e)] ELSE e

Receive(c, e) ==
    [c EXCEPT
        !.phase = IF e.type = "run_started" THEN "running"
                  ELSE IF e.type \in {"run_finished", "run_error"} THEN "over" ELSE @,
        !.open = IF e.type = "open" THEN @ \cup {[kind |-> e.kind, id |-> e.id, by |-> e.by]}
                 ELSE IF e.type = "close" THEN {s \in @ : s.kind # e.kind \/ s.id # e.id} ELSE @,
        !.agents = IF e.type = "agent_started" THEN @ \cup {e.run}
                   ELSE IF e.type \in {"agent_finished", "agent_error"} THEN @ \ {e.run} ELSE @,
        !.calls = IF e.type = "tool_start" THEN @ \cup {e.tool}
                  ELSE IF e.type = "tool_end" THEN @ \ {e.tool} ELSE @,
        !.started = IF e.type = "run_started" THEN e.run ELSE @,
        !.finished = IF e.type = "run_finished" THEN e.run ELSE @,
        !.last = e]

\* One awaited send(event) of the runner.
Send ==
    /\ adapter.out # <<>>
    /\ adapter' = Pop(adapter)
    /\ mixin' = IF Head(adapter.out).type = "run_started" THEN RunIdOf(Head(adapter.out)) ELSE mixin
    /\ client' = Receive(client, Shown(Head(adapter.out)))
    /\ UNCHANGED <<agno, parent, calls, drive, rounds, pending>>

-----------------------------------------------------------------------------
(* Agno's events, each with the whole handler of the adapter. *)

\* The next raw event is taken only when the burst of the one before is sent.
Streaming == drive = "streaming" /\ adapter.out = <<>> /\ ~adapter.paused
Live(r) == Streaming /\ agno[r] = "live"

\* _run_key: the event's own run id or, when it carries none, the run in progress; only events of
\* the top run come without one.
KeysOf(r) == IF r = Top THEN {Top, adapter.active} ELSE {r}

\* Agno may announce the top run twice; the second announcement is dropped.
RunStarted ==
    /\ Streaming
    /\ agno[Top] = "idle" \/ (agno[Top] = "live" /\ adapter.active = Top)
    /\ agno' = [agno EXCEPT ![Top] = "live"]
    /\ adapter' = IF adapter.active = Top THEN adapter
                  ELSE Emit([adapter EXCEPT !.active = Top], <<[type |-> "run_started", run |-> "agno"]>>)
    /\ UNCHANGED <<parent, calls, drive, rounds, pending, mixin, client>>

\* A nested run: the parent's own sequences are closed, a sibling's are not.
MemberStarted(m, p) ==
    /\ Live(p) /\ agno[m] = "idle"
    /\ agno' = [agno EXCEPT ![m] = "live"]
    /\ parent' = [parent EXCEPT ![m] = p]
    /\ LET a == Close(Close(adapter, "text", p), "reasoning", p)
           started == [type |-> "agent_started", run |-> m, parent |-> Owner(a, p)]
       IN adapter' = [Emit(a, <<started>>) EXCEPT !.subagents = Append(@, m)]
    /\ UNCHANGED <<calls, drive, rounds, pending, mixin, client>>

\* Mutant: the delegation is closed before what the member was saying.
LeaveFirst(m, type) ==
    LET a == IF m \notin Range(adapter.subagents) THEN adapter
             ELSE [Emit(adapter, <<[type |-> type, run |-> m]>>)
                      EXCEPT !.subagents = Popped(@, m)]
    IN Close(Close(a, "text", m), "reasoning", m)

\* A member's own sequences are closed, then its delegation, if one is in flight.
Leave(m, type) ==
    LET a == Close(Close(adapter, "text", m), "reasoning", m)
    IN IF m \notin Range(a.subagents) THEN a
       ELSE [Emit(a, <<[type |-> type, run |-> m]>>)
                EXCEPT !.subagents = Popped(@, m)]

\* Agno awaits the delegations of a member before the member itself completes.
MemberCompleted(m) ==
    /\ Live(m) /\ \A n \in Members : parent[n] = m => agno[n] # "live"
    /\ agno' = [agno EXCEPT ![m] = "over"]
    /\ adapter' = Leave(m, "agent_finished")
    /\ UNCHANGED <<parent, calls, drive, rounds, pending, mixin, client>>

\* RUN_ERROR ends the stream, unless the run that failed is a delegation in flight.
FailedWhole == Emit(CloseEverything(adapter), <<[type |-> "run_error"]>>)

MemberFailed(m) ==
    /\ Live(m) /\ \A n \in Members : parent[n] = m => agno[n] # "live"
    /\ agno' = [agno EXCEPT ![m] = "over"]
    /\ adapter' = IF m \in Range(adapter.subagents) THEN Leave(m, "agent_error") ELSE FailedWhole
    /\ UNCHANGED <<parent, calls, drive, rounds, pending, mixin, client>>

RunFailed ==
    /\ Live(Top)
    /\ agno' = [r \in Runs |-> "over"]
    /\ adapter' = FailedWhole
    /\ UNCHANGED <<parent, calls, drive, rounds, pending, mixin, client>>

\* Whatever still runs when the top-level run ends is force-closed; a repeated completion is dropped.
RunCompleted ==
    /\ Live(Top) \/ (Streaming /\ Top \in adapter.completed)
    /\ agno' = [r \in Runs |-> "over"]
    /\ adapter' = IF Top \in adapter.completed /\ adapter.active # Top THEN adapter
                  ELSE Emit([CloseEverything(adapter) EXCEPT !.completed = @ \cup {Top}, !.active = Nobody],
                            <<[type |-> "run_finished", run |-> "agno"]>>)
    /\ UNCHANGED <<parent, calls, drive, rounds, pending, mixin, client>>

\* run_content: reasoning first, then text.
RunContent(r, k, reasoning, text) ==
    /\ Live(r) /\ <<reasoning, text>> # <<"absent", "absent">>
    /\ adapter' = Process(Process(adapter, "reasoning", k, r, reasoning), "text", k, r, text)
    /\ adapter'.next <= MaxIds
    /\ UNCHANGED <<agno, parent, calls, drive, rounds, pending, mixin, client>>

\* reasoning_step, emitted by the ReasoningTools, opens a sequence of its own if none is open.
ReasoningStep(r, k) ==
    /\ Live(r)
    /\ adapter' = Process(adapter, "reasoning", k, r, "some")
    /\ adapter'.next <= MaxIds
    /\ UNCHANGED <<agno, parent, calls, drive, rounds, pending, mixin, client>>

\* Native reasoning: Agno starts it when none is open for the run, and streams it while it is.
ReasoningStarted(r, k) ==
    /\ Live(r) /\ k \notin OpenKeys(adapter, "reasoning") /\ adapter.next < MaxIds
    /\ adapter' = Open(Close(adapter, "text", k), "reasoning", k, r)
    /\ UNCHANGED <<agno, parent, calls, drive, rounds, pending, mixin, client>>

ReasoningDelta(r, k) ==
    /\ Live(r) /\ k \in OpenKeys(adapter, "reasoning")
    /\ adapter' = Say(adapter, "reasoning", k)
    /\ UNCHANGED <<agno, parent, calls, drive, rounds, pending, mixin, client>>

ReasoningCompleted(r, k) ==
    /\ Live(r)
    /\ adapter' = Close(adapter, "reasoning", k)
    /\ UNCHANGED <<agno, parent, calls, drive, rounds, pending, mixin, client>>

ToolStarted(r, k, t) ==
    /\ Live(r) /\ t \in ServerTools /\ calls[t] = "idle"
    /\ calls' = [calls EXCEPT ![t] = "open"]
    /\ adapter' = LET a == Close(Close(adapter, "reasoning", k), "text", k)
                  IN Emit(a, <<ToolEvents(a, t, k).start>>)
    /\ UNCHANGED <<agno, parent, drive, rounds, pending, mixin, client>>

EndCall(k, t) == [Emit(adapter, <<ToolEvents(adapter, t, k).end>>) EXCEPT !.closed = @ \cup {t}]

ToolCompleted(r, k, t) ==
    /\ Live(r) /\ calls[t] = "open"
    /\ calls' = [calls EXCEPT ![t] = "closed"]
    /\ adapter' = EndCall(k, t)
    /\ UNCHANGED <<agno, parent, drive, rounds, pending, mixin, client>>

\* Agno reports the error of a call by itself or once more after its completion.
ToolFailed(r, k, t) ==
    /\ Live(r) /\ t \in ServerTools /\ calls[t] # "idle"
    /\ calls' = [calls EXCEPT ![t] = "closed"]
    /\ adapter' = IF t \in adapter.closed THEN adapter ELSE EndCall(k, t)
    /\ UNCHANGED <<agno, parent, drive, rounds, pending, mixin, client>>

\* run_paused: every sequence is closed, and the events Agno suppresses for the external calls E
\* are made up.
RunPaused(E) ==
    /\ Live(Top) /\ \A t \in E : calls[t] = "idle"
    /\ agno' = [r \in Runs |-> IF r # Top /\ agno[r] = "live" /\ ~MembersContinue THEN "over" ELSE agno[r]]
    /\ calls' = [t \in Tools |-> IF t \in E THEN "closed" ELSE calls[t]]
    /\ pending' = E
    /\ LET a == CloseAll(CloseAll(adapter, "reasoning"), "text")
           ts == SetToSeq(E)
           made == [i \in 1..2 * Len(ts) |->
                      LET e == ToolEvents(a, ts[(i + 1) \div 2], Nobody)
                      IN IF i % 2 = 1 THEN e.start ELSE e.end]
       IN adapter' = [Emit(a, made) EXCEPT !.paused = TRUE, !.closed = @ \cup E]
    /\ UNCHANGED <<parent, drive, rounds, mixin, client>>

-----------------------------------------------------------------------------
(* The runner. *)

\* The stream is drained: flush.
StreamEnds ==
    /\ drive = "streaming" /\ adapter.out = <<>>
    /\ agno[Top] = "over" \/ adapter.paused
    /\ adapter' = CloseEverything(adapter)
    /\ drive' = "flushed"
    /\ UNCHANGED <<agno, parent, calls, rounds, pending, mixin, client>>

Flushed == drive = "flushed" /\ adapter.out = <<>>

\* load_manager calls alone are resolved in process, and the run continues.
OnlyLoads == adapter.paused /\ pending # {} /\ pending \subseteq LoadTools

\* Mutant: rounds are not counted.
AutoContinueUncounted ==
    /\ Flushed /\ OnlyLoads /\ rounds < ContinueLimit
    /\ adapter' = NewAdapter(adapter.next)
    /\ calls' = [t \in Tools |-> IF calls[t] = "open" THEN "open" ELSE "idle"]
    /\ pending' = {} /\ drive' = "streaming"
    /\ UNCHANGED <<agno, parent, rounds, mixin, client>>

AutoContinue ==
    /\ Flushed /\ OnlyLoads /\ rounds < ContinueLimit
    /\ adapter' = NewAdapter(adapter.next)
    /\ calls' = [t \in Tools |-> IF calls[t] = "open" THEN "open" ELSE "idle"]
    /\ rounds' = rounds + 1 /\ pending' = {} /\ drive' = "streaming"
    /\ UNCHANGED <<agno, parent, mixin, client>>

LimitReached ==
    /\ Flushed /\ OnlyLoads /\ rounds = ContinueLimit
    /\ adapter' = Emit(adapter, <<[type |-> "run_error"]>>)
    /\ drive' = "ending"
    /\ UNCHANGED <<agno, parent, calls, rounds, pending, mixin, client>>

\* PausedRunStore.save, then emit_awaiting_tool_result, which does not go through the mixin and
\* takes the run id of Agno's run.
AwaitTools ==
    /\ Flushed /\ adapter.paused /\ ~OnlyLoads
    /\ pending' = pending \ LoadTools
    /\ client' = Receive(client, [type |-> "run_finished", run |-> "agno"])
    /\ drive' = "done"
    /\ UNCHANGED <<agno, parent, calls, adapter, rounds, mixin>>

Return ==
    /\ drive = "ending" \/ (drive = "flushed" /\ ~adapter.paused)
    /\ adapter.out = <<>>
    /\ drive' = "done"
    /\ UNCHANGED <<agno, parent, calls, adapter, rounds, pending, mixin, client>>

-----------------------------------------------------------------------------
Idle == [r \in Runs |-> "idle"]
RunStartedBy(run) == [type |-> "run_started", run |-> run]

\* A fresh run; a resumed one, announced by continue_paused_run; or a reply that lacks results,
\* refused by try_resume.
Init ==
    /\ \/ /\ agno = Idle /\ drive = "streaming"
          /\ adapter = NewAdapter(0)
       \/ /\ agno = [Idle EXCEPT ![Top] = "live"] /\ drive = "streaming"
          /\ adapter = Emit(NewAdapter(0), <<RunStartedBy("input")>>)
       \/ /\ agno = Idle /\ drive = "ending"
          /\ adapter = Emit(NewAdapter(0), <<RunStartedBy("input"), [type |-> "run_error"]>>)
    /\ calls = [t \in Tools |-> "idle"]
    /\ parent = [m \in Members |-> Nobody]
    /\ rounds = 1 /\ pending = {}
    /\ mixin \in {"none", "input"}
    /\ client = [phase |-> "idle", open |-> {}, agents |-> {}, calls |-> {},
                 started |-> "none", finished |-> "none", last |-> [type |-> "none"]]

Contents == {"absent", "empty", "some"}

Speaks(r, k) ==
    \/ \E reasoning, text \in Contents : RunContent(r, k, reasoning, text)
    \/ ReasoningStep(r, k) \/ ReasoningStarted(r, k)
    \/ ReasoningDelta(r, k) \/ ReasoningCompleted(r, k)
    \/ \E t \in ServerTools : ToolStarted(r, k, t) \/ ToolCompleted(r, k, t) \/ ToolFailed(r, k, t)

MemberStep(m) == (\E p \in Runs : MemberStarted(m, p)) \/ MemberCompleted(m) \/ MemberFailed(m)

AgnoStops == RunCompleted \/ RunFailed \/ \E E \in SUBSET External : RunPaused(E)

Runner == StreamEnds \/ AutoContinue \/ LimitReached \/ AwaitTools \/ Return

Next == \/ Send \/ Runner \/ RunStarted \/ AgnoStops
        \/ \E r \in Runs : \E k \in KeysOf(r) : Speaks(r, k)
        \/ \E m \in Members : MemberStep(m)

\* The event loop goes on, sends return, and no stream of Agno's is endless.
Proceeds == Send \/ Runner \/ RunStarted
StreamOver == agno[Top] = "over" \/ adapter.paused \/ drive # "streaming"
Fairness == WF_vars(Proceeds) /\ []<>StreamOver

Spec == Init /\ [][Next]_vars /\ Fairness

-----------------------------------------------------------------------------
Seqs == [id : 0..MaxIds, meta : Runs \cup {Nobody}]

\* Every variable keeps its type; no turn opens more sequences than the bound.
TypeOK ==
    /\ agno \in [Runs -> {"idle", "live", "over"}]
    /\ calls \in [Tools -> {"idle", "open", "closed"}]
    /\ adapter.open \in [Kinds -> [Keys -> Seqs]]
    /\ adapter.subagents \in Seq(Members)
    /\ adapter.active \in {Top, Nobody} /\ adapter.next \in 0..MaxIds
    /\ adapter.completed \subseteq {Top} /\ adapter.closed \subseteq Tools
    /\ adapter.paused \in BOOLEAN
    /\ drive \in {"streaming", "flushed", "ending", "done"}
    /\ rounds \in 1..ContinueLimit /\ pending \subseteq External
    /\ mixin \in RunIds

\* No run is shown speaking and reasoning at once: at no point are a text message and a reasoning
\* sequence open under the same key, and no two open sequences share an id.
OneVoicePerRun ==
    /\ \A k \in Keys : ~(k \in OpenKeys(adapter, "text") /\ k \in OpenKeys(adapter, "reasoning"))
    /\ \A kind1, kind2 \in Kinds : \A k1 \in OpenKeys(adapter, kind1), k2 \in OpenKeys(adapter, kind2) :
          adapter.open[kind1][k1].id = adapter.open[kind2][k2].id => kind1 = kind2 /\ k1 = k2

\* Between two raw events the client's screen shows exactly the sequences and delegations that the
\* adapter believes open, each attributed to the run that the adapter would attribute its end to.
ScreenMatchesAdapter ==
    adapter.out = <<>> =>
        /\ client.agents = Range(adapter.subagents)
        /\ client.open = UNION {{[kind |-> kind, id |-> adapter.open[kind][k].id, by |-> Owner(adapter, k)] :
                                    k \in OpenKeys(adapter, kind)} : kind \in Kinds}

\* A turn that returns has told the client that its run is over, under the id it was begun with
\* unless it awaits tools, and has left nothing open.
EndsCleanly ==
    drive = "done" => /\ client.phase = "over"
                      /\ client.open = {} /\ client.agents = {}
                      /\ adapter.paused \/ client.finished \in {"none", client.started}

\* The client's screen is what the adapter takes it for, to the end of the turn.
ScreenIsTrue == ScreenMatchesAdapter /\ EndsCleanly

\* Every turn ends: a model that keeps calling load_manager cannot keep the loop going.
TurnEnds == <>(drive = "done")

Agui == INSTANCE AguiProtocol WITH
    phase <- client.phase, open <- client.open, agents <- client.agents,
    calls <- client.calls, last <- client.last

\* What the client is sent is a stream that the protocol accepts: see AguiProtocol.
ImplementsAgui == Agui!Spec
=============================================================================
