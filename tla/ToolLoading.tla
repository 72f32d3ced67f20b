---------------------------- MODULE ToolLoading ----------------------------
(* The tools of an agent: those its setup declares, shared by the missions   *)
(* of a process, and those it loads at run time, which a mission remembers   *)
(* by id.  Every user message is a turn of its own, with its own view of the *)
(* tool cache; several turns may be under way, of one mission too.  The      *)
(* registry changes meanwhile: a setup is revoked and granted again, or      *)
(* fails to answer.  A step is the code between two awaits.                  *)
EXTENDS Naturals, FiniteSets

CONSTANTS
  Turns, Missions, Tools, Modules,
  MissionOf,    \* [Turns -> Missions]
  ModuleOf,     \* [Tools -> Modules]
  MaxChanges,   \* bound: changes of the registry and of the agent's setup
  MaxLoads,     \* bound: load_manager calls of a turn
  MaxLapses     \* bound: calls to the storage or the registry that fail

ASSUME LoadingAssumption ==
  /\ MissionOf \in [Turns -> Missions] /\ ModuleOf \in [Tools -> Modules]
  /\ MaxChanges \in Nat /\ MaxLoads \in Nat /\ MaxLapses \in Nat

VARIABLES
  registry,   \* what the registry answers for the setup of each tool
  declared,   \* the servicer's layer of the tool cache
  loaded,     \* the loaded_tools records of each mission
  turn,       \* where each turn stands, its view of the cache, its toolkits
  promised,   \* tools of each mission whose record was stored and not refused since
  shown,      \* tools that were ever declared, or loaded in the mission
  overlapped, \* missions that had two turns under way at once
  missed,     \* missions that had a turn without a tool that is on their record
  redeclared, \* the agent's setup selected another tool meanwhile
  changes, lapses

tvars == <<registry, declared, loaded, turn, promised, shown, overlapped, missed, redeclared, changes, lapses>>

Idle == [at |-> "idle", view |-> {}, dynamic |-> {}, kits |-> {}, todo |-> {}, drop |-> {},
         tool |-> {}, loads |-> 0]

ToolsInit ==
  /\ registry = [s \in Tools |-> "granted"]
  /\ declared \in SUBSET Tools
  /\ \A s, t \in declared : ModuleOf[s] = ModuleOf[t] => s = t
  /\ loaded = [m \in Missions |-> {}]
  /\ turn = [t \in Turns |-> Idle]
  /\ promised = [m \in Missions |-> {}]
  /\ shown = [m \in Missions |-> declared]
  /\ overlapped = {} /\ missed = {} /\ redeclared = FALSE
  /\ changes = 0 /\ lapses = 0

Lapse == lapses < MaxLapses /\ lapses' = lapses + 1
Busy(m) == {t \in Turns : MissionOf[t] = m /\ turn[t].at \notin {"idle", "over"}}
Goto(t, r) == turn' = [turn EXCEPT ![t] = r]

-----------------------------------------------------------------------------
(* prepare(): a view of the cache, then the mission's loaded tools again     *)

MissionView(t) == [Idle EXCEPT !.at = "rehydrating", !.view = declared]

(* mission_view shares the declared layer and starts an empty dynamic one;   *)
(* list_setup_ids gives nothing when the storage fails.                      *)
TurnStarts(t) ==
  LET m == MissionOf[t] IN
  /\ turn[t].at = "idle"
  /\ \/ Goto(t, [MissionView(t) EXCEPT !.todo = loaded[m]]) /\ UNCHANGED lapses
     \/ Goto(t, [MissionView(t) EXCEPT !.todo = {}]) /\ Lapse
  /\ overlapped' = IF Busy(m) # {} THEN overlapped \cup {m} ELSE overlapped
  /\ UNCHANGED <<registry, declared, loaded, promised, shown, missed, redeclared, changes>>

\* resolve_tool asks the registry first, whatever the cache holds.
Resolvable(s) == registry[s] = "granted"

DropOnFailure(r, s) == r.drop \cup {s}
KeepOnFailure(r, s) == r.drop

(* The ids are resolved side by side; what is denied or absent will be       *)
(* dropped, what fails otherwise is kept for a later turn.  A setup that is  *)
(* gone is absent when the registry sends an empty answer; its NOT_FOUND is  *)
(* an error like any other.                                                  *)
Rehydrates(t, s) ==
  LET r == [turn[t] EXCEPT !.todo = @ \ {s}]  m == MissionOf[t] IN
  /\ r.at = "rehydrating" /\ s \in turn[t].todo
  /\ \/ /\ Resolvable(s)
        /\ Goto(t, [r EXCEPT !.dynamic = @ \cup ({s} \ r.view)])
        /\ UNCHANGED <<promised, lapses>>
     \/ /\ ~Resolvable(s)
        /\ Goto(t, [r EXCEPT !.drop = @ \cup {s}])
        /\ promised' = [promised EXCEPT ![m] = @ \ {s}]
        /\ UNCHANGED lapses
     \/ /\ Lapse \/ (registry[s] = "gone" /\ UNCHANGED lapses)
        /\ Goto(t, [r EXCEPT !.drop = KeepOnFailure(r, s)])
        /\ UNCHANGED promised
  /\ UNCHANGED <<registry, declared, loaded, shown, overlapped, missed, redeclared, changes>>

(* forget: a record that cannot be removed stays for the next turn.          *)
Forgets(t, s) ==
  LET r == turn[t]  m == MissionOf[t] IN
  /\ r.at = "rehydrating" /\ r.todo = {} /\ s \in r.drop
  /\ \/ loaded' = [loaded EXCEPT ![m] = @ \ {s}] /\ UNCHANGED lapses
     \/ Lapse /\ UNCHANGED loaded
  /\ Goto(t, [r EXCEPT !.drop = @ \ {s}])
  /\ UNCHANGED <<registry, declared, promised, shown, overlapped, missed, redeclared, changes>>

(* initialize() makes a toolkit of every entry of the view.                  *)
Initialized(t) ==
  LET r == turn[t]  m == MissionOf[t] IN
  /\ r.at = "rehydrating" /\ r.todo = {} /\ r.drop = {}
  /\ Goto(t, [r EXCEPT !.at = "running", !.kits = r.view \cup r.dynamic])
  /\ missed' = IF loaded[m] \subseteq r.view \cup r.dynamic THEN missed ELSE missed \cup {m}
  /\ UNCHANGED <<registry, declared, loaded, promised, shown, overlapped, redeclared, changes, lapses>>

-----------------------------------------------------------------------------
(* load_manager                                                              *)

KitOf(r, s) == \E k \in r.kits : ModuleOf[k] = ModuleOf[s]
Conflict(r, s) == s \notin r.kits /\ KitOf(r, s)

Loadable(r, s) == Resolvable(s) /\ ~Conflict(r, s)

\* The registry is asked for the setup and its module; a denial, an unknown id
\* and a failure end the load with a message.
LoadBegins(t, s) ==
  LET r == turn[t] IN
  /\ r.at = "running" /\ r.loads < MaxLoads
  /\ \/ /\ Loadable(r, s)
        /\ Goto(t, [r EXCEPT !.at = IF s \notin r.kits THEN "resolving"
                                    ELSE IF s \notin r.view THEN "persisting" ELSE "running",
                             !.tool = {s}, !.loads = @ + 1])
     \/ /\ ~Loadable(r, s)
        /\ Goto(t, [r EXCEPT !.loads = @ + 1])
  /\ UNCHANGED <<registry, declared, loaded, promised, shown, overlapped, missed, redeclared, changes, lapses>>

\* resolve_tool asks again. The toolkit joins the live list.
LoadResolves(t) ==
  LET r == turn[t]  m == MissionOf[t] IN
  /\ r.at = "resolving"
  /\ \/ /\ \A s \in r.tool : Resolvable(s)
        /\ Goto(t, [r EXCEPT !.at = "persisting", !.dynamic = @ \cup (r.tool \ r.view), !.kits = @ \cup r.tool])
        /\ shown' = [shown EXCEPT ![m] = @ \cup r.tool]
        /\ UNCHANGED lapses
     \/ /\ \E s \in r.tool : ~Resolvable(s)
        /\ Goto(t, [r EXCEPT !.at = "running"])
        /\ UNCHANGED <<shown, lapses>>
     \/ /\ Lapse
        /\ Goto(t, [r EXCEPT !.at = "running"])
        /\ UNCHANGED shown
  /\ UNCHANGED <<registry, declared, loaded, promised, overlapped, missed, redeclared, changes>>

Saved(m, s) == loaded' = [loaded EXCEPT ![m] = @ \cup s]

(* persist_loaded_tool is fail-soft: the tool stays for this turn.           *)
Persists(t) ==
  LET r == turn[t]  m == MissionOf[t] IN
  /\ r.at = "persisting"
  /\ \/ /\ Saved(m, r.tool)
        /\ promised' = [promised EXCEPT ![m] = @ \cup r.tool]
        /\ UNCHANGED lapses
     \/ Lapse /\ UNCHANGED <<loaded, promised>>
  /\ Goto(t, [r EXCEPT !.at = "running"])
  /\ UNCHANGED <<registry, declared, shown, overlapped, missed, redeclared, changes>>

TurnEnds(t) ==
  /\ turn[t].at = "running"
  /\ Goto(t, [Idle EXCEPT !.at = "over"])
  /\ UNCHANGED <<registry, declared, loaded, promised, shown, overlapped, missed, redeclared, changes, lapses>>

-----------------------------------------------------------------------------
Change == changes < MaxChanges /\ changes' = changes + 1

Regranted(s) ==
  /\ Change
  /\ \E a \in {"granted", "denied", "gone"} \ {registry[s]} : registry' = [registry EXCEPT ![s] = a]
  /\ UNCHANGED <<declared, loaded, turn, promised, shown, overlapped, missed, redeclared, lapses>>

(* The agent's setup now selects another tool; the next view shows it, next  *)
(* to what the mission loaded before.                                        *)
Redeclared(s) ==
  /\ Change
  /\ \A d \in declared : ModuleOf[d] # ModuleOf[s]
  /\ declared' = declared \cup {s}
  /\ shown' = [m \in Missions |-> shown[m] \cup {s}]
  /\ redeclared' = TRUE
  /\ UNCHANGED <<registry, loaded, turn, promised, overlapped, missed, lapses>>

ToolsNext ==
  \/ \E t \in Turns : TurnStarts(t) \/ Initialized(t) \/ LoadResolves(t) \/ Persists(t) \/ TurnEnds(t)
  \/ \E t \in Turns, s \in Tools : Rehydrates(t, s) \/ Forgets(t, s) \/ LoadBegins(t, s)
  \/ \E s \in Tools : Regranted(s) \/ Redeclared(s)

-----------------------------------------------------------------------------
\* What a turn can call its setup declared or a turn of its own mission loaded.
NoLeak == \A t \in Turns : turn[t].kits \cup turn[t].dynamic \subseteq shown[MissionOf[t]]

\* Only a turn beside it, which was refused before, drops a tool loaded since.
LoadsKept == \A m \in Missions \ overlapped : promised[m] \subseteq loaded[m]

OneEach(kits) == \A j, k \in kits : ModuleOf[j] = ModuleOf[k] => j = k
OneToolkitPerModule ==
  redeclared \/ \A t \in Turns : MissionOf[t] \in overlapped \cup missed \/ OneEach(turn[t].kits)

(* "a load persists across the turns of one conversation and never leaks     *)
(* into another mission": a load that was stored stays until a turn finds    *)
(* the tool revoked or gone, whatever fails for a while. The names of two    *)
(* toolkits of one module would clash: load_manager refuses the second, and  *)
(* only turns of the mission that overlapped, a turn that could not restore  *)
(* what the mission had loaded, or a change of the agent's setup, put two of *)
(* them before the model.                                                    *)
LoadsInOrder == NoLeak /\ LoadsKept /\ OneToolkitPerModule
=============================================================================
