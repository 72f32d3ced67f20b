------------------------------- MODULE MCHost -------------------------------
(* One process that hosts modules, each side on a small instance: the server *)
(* and its requests, the server and its signal listener, one module instance,*)
(* and the clients that pull a task's outputs or write to its input.         *)
EXTENDS ModuleLife, ServerLife, StreamPull

CONSTANTS p1, p2, v1, v2
\* The request of the listener side.
ASSUME HostAssumption == p1 \in Posts

VARIABLE side

Init ==
  /\ side \in {"requests", "listener", "module", "pulls", "messages"}
  /\ LifeInit /\ SignalInit /\ ServerInit /\ PullInit
  /\ side # "module" => kind = "task"
  /\ side # "requests" => ~remote

\* Two requests, over one start; the listener stands still.
RequestsStep ==
  /\ OwnerStep \/ \E p \in Posts : RequestStep(p)
  /\ starts' <= 1 /\ booted' # "ok"

\* One request, and as many starts as there may be, each beside the listen loops
\* of those before; of the awaits of the server only the listener's fail, and no
\* run opens again what was closed.
ListenerStep ==
  /\ OwnerStep \/ RequestStep(p1)
  /\ owner = "listening" \/ mishaps' = mishaps
  /\ left' = {}

\* Clients that pull outputs, or that only write.
OnStream ==
  /\ PullNext
  /\ IF side = "pulls" THEN \A p \in Pulls : upstream'[p].sent = 0 ELSE written' = 0

\* The listen loops run on.
OnListener == side = "listener" /\ Listener /\ UNCHANGED <<side, lvars, pvars>>
\* Once a stop, a report or a cleanup has begun it goes on.
OnModule == side = "module" /\ Progresses /\ UNCHANGED <<side, avars, pvars>>

Next ==
  \/ OnListener \/ OnModule
  \/ side = "requests" /\ RequestsStep /\ UNCHANGED <<side, lvars, pvars>>
  \/ side = "listener" /\ ListenerStep /\ UNCHANGED <<side, lvars, pvars>>
  \/ side = "module" /\ LifeNext /\ UNCHANGED <<side, avars, pvars>>
  \/ side \in {"pulls", "messages"} /\ OnStream /\ UNCHANGED <<side, lvars, avars>>

all == <<side, lvars, avars, pvars>>
Spec == Init /\ [][Next]_all /\ WF_all(OnListener) /\ WF_all(OnModule)
=============================================================================
