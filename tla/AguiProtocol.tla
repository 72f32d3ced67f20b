---------------------------- MODULE AguiProtocol ----------------------------
(***************************************************************************)
(* What an AG-UI client accepts of one turn, as the comments of            *)
(* community/agno/agno_adapter.py and mixins/agui_mixin.py state it: one   *)
(* RUN_STARTED first; content only inside a sequence that its own author   *)
(* opened; a sub-agent closed after what it was saying; RUN_FINISHED with  *)
(* nothing open; nothing after RUN_FINISHED or RUN_ERROR.                  *)
(* `open` holds the sequences on the screen, `agents` the sub-agents at    *)
(* work, `calls` the tool calls in flight, `last` the latest event.        *)
(***************************************************************************)

CONSTANTS Kinds, Members, Tools, Nobody, Ids, RunIds
VARIABLES phase, open, agents, calls, last

Speakers == Members \cup {Nobody}

vars == <<phase, open, agents, calls, last>>

Init == /\ phase = "idle" /\ open = {} /\ agents = {} /\ calls = {}
        /\ last = [type |-> "none"]

Started == /\ phase = "idle" /\ phase' = "running"
           /\ last' \in [type : {"run_started"}, run : RunIds]
           /\ UNCHANGED <<open, agents, calls>>

Opened(kind, id, by) ==
    /\ phase = "running" /\ by \in agents \cup {Nobody}
    /\ \A s \in open : s.id # id
    /\ open' = open \cup {[kind |-> kind, id |-> id, by |-> by]}
    /\ last' = [type |-> "open", kind |-> kind, id |-> id, by |-> by]
    /\ UNCHANGED <<phase, agents, calls>>

Said(s) == /\ phase = "running"
           /\ last' = [type |-> "delta", kind |-> s.kind, id |-> s.id, by |-> s.by]
           /\ UNCHANGED <<phase, open, agents, calls>>

Closed(s) == /\ phase = "running" /\ open' = open \ {s}
             /\ last' = [type |-> "close", kind |-> s.kind, id |-> s.id, by |-> s.by]
             /\ UNCHANGED <<phase, agents, calls>>

AgentStarted(m, p) ==
    /\ phase = "running" /\ m \notin agents /\ p \in agents \cup {Nobody}
    /\ agents' = agents \cup {m}
    /\ last' = [type |-> "agent_started", run |-> m, parent |-> p]
    /\ UNCHANGED <<phase, open, calls>>

AgentEnded(m) == /\ phase = "running" /\ m \in agents
                 /\ \A s \in open : s.by # m
                 /\ agents' = agents \ {m}
                 /\ last' \in [type : {"agent_finished", "agent_error"}, run : {m}]
                 /\ UNCHANGED <<phase, open, calls>>

CallStarted(t, by) ==
    /\ phase = "running" /\ t \notin calls /\ by \in agents \cup {Nobody}
    /\ calls' = calls \cup {t}
    /\ last' = [type |-> "tool_start", tool |-> t, by |-> by]
    /\ UNCHANGED <<phase, open, agents>>

CallEnded(t) == /\ phase = "running" /\ t \in calls /\ calls' = calls \ {t}
                /\ last' \in [type : {"tool_end"}, tool : {t}, by : Speakers]
                /\ UNCHANGED <<phase, open, agents>>

Finished == /\ phase = "running" /\ open = {} /\ agents = {} /\ phase' = "over"
            /\ last' \in [type : {"run_finished"}, run : RunIds]
            /\ UNCHANGED <<open, agents, calls>>

Failed == /\ phase = "running" /\ open = {} /\ agents = {} /\ phase' = "over"
          /\ last' = [type |-> "run_error"]
          /\ UNCHANGED <<open, agents, calls>>

Next == \/ Started \/ Finished \/ Failed
        \/ \E kind \in Kinds, id \in Ids, by \in Speakers : Opened(kind, id, by)
        \/ \E s \in open : Said(s) \/ Closed(s)
        \/ \E m \in Members : AgentEnded(m) \/ \E p \in Speakers : AgentStarted(m, p)
        \/ \E t \in Tools : CallEnded(t) \/ \E by \in Speakers : CallStarted(t, by)

Spec == Init /\ [][Next]_vars
=============================================================================
