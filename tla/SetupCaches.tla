---------------------------- MODULE SetupCaches ----------------------------
(* The two caches of ModuleServicer, of setups and of the tools resolved for *)
(* them, read by the module runners of a process through a single flight per *)
(* setup, and invalidated by what changes a setup: the managers an agent is  *)
(* given (tools_manager, services_manager, kins_manager) in the same process,*)
(* ConfigSetupModule, and the messages its process publishes to the others.  *)
(* A step is the code between two awaits.                                    *)
EXTENDS SetupService

CONSTANTS
  Procs,       \* processes, each with its servicer
  Configured,  \* the process that ConfigSetupModule requests reach
  NumRuns,     \* module runs, numbered as they start
  Served,      \* the setups they are runs of
  Calls,       \* calls of a manager by an agent
  AgentAt,     \* [Calls -> Procs]: the process that agent runs in
  CacheMax,    \* setup_cache_max
  MaxEvents    \* bound: manager calls and ConfigSetupModule requests, calls that fail,
               \* replies and messages lost, runs cancelled, entries that expire

ASSUME CachesAssumption ==
  /\ NumRuns \in Nat
  /\ Configured \in Procs
  /\ AgentAt \in [Calls -> Procs]
  /\ Served \subseteq Setups
  /\ CacheMax \in Nat \ {0}
  /\ MaxEvents \in Nat

VARIABLES
  cache,       \* cache[k][p]: setup -> [val, late, old], k "setup" or "tools"
  inflight,    \* inflight[k][p]: setup -> the run that leads the flight
  fut,         \* fut[k][r]: the future a leading run shares with those that wait
  run,         \* run[r]: one ModuleRunner.run, up to the start of the module
  call,        \* call[c]: one action of a manager
  config,      \* the ConfigSetupModule request being served
  wire,        \* invalidations published and not yet dispatched
  told,        \* told[k][p][s]: versions that process p knows to be superseded
  events       \* of those that MaxEvents bounds, so many have been

vars == <<service, cache, inflight, fut, run, call, config, wire, told,
          events>>

Runs == 1..NumRuns
CacheKinds == {"setup", "tools"}
NoFuture == [is |-> "none", val |-> 0, late |-> FALSE]
Idle == [at |-> "idle", proc |-> CHOOSE p \in Procs : TRUE,
         setup |-> CHOOSE s \in Setups : TRUE, on |-> 0, got |-> 0,
         val |-> 0, via |-> "none", vlate |-> FALSE, tools |-> 0, tlate |-> FALSE,
         late |-> FALSE, bad |-> [k \in {"setup", "config", "tools"} |-> {}]]
NoCall == [at |-> "idle", proc |-> Idle.proc, as |-> CHOOSE k \in Kinds : TRUE,
           action |-> "none", setup |-> Idle.setup, orphan |-> FALSE,
           superseded |-> {}]
Ended(how) == [Idle EXCEPT !.at = how]
Closed(how) == [NoCall EXCEPT !.at = how]
NoConfig == [at |-> "idle", proc |-> Idle.proc, setup |-> Idle.setup, val |-> 0]

Init ==
  /\ ServiceInit
  /\ cache = [k \in CacheKinds |-> [p \in Procs |-> <<>>]]
  /\ inflight = [k \in CacheKinds |-> [p \in Procs |-> <<>>]]
  /\ fut = [k \in CacheKinds |-> [r \in Runs |-> NoFuture]]
  /\ run = [r \in Runs |-> Idle]
  /\ call = [c \in Calls |-> NoCall]
  /\ config = NoConfig
  /\ wire = {}
  /\ told = [k \in {"setup", "config", "tools"} |-> [p \in Procs |-> [s \in Setups |-> {}]]]
  /\ events = 0

Event == events < MaxEvents /\ events' = events + 1

-----------------------------------------------------------------------------
(* The tables of one process *)

Drop(table, S) == [s \in DOMAIN table \ S |-> table[s]]
Put(table, s, x) == [t \in DOMAIN table \cup {s} |-> IF t = s THEN x ELSE table[t]]

(* _cache_setup and set_tool_cache: at capacity the oldest entry goes first, *)
(* also when the setup has an entry already. Which is oldest is left open.   *)
Stored(table, s, x) ==
  IF Cardinality(DOMAIN table) >= CacheMax
  THEN {Put(Drop(table, {o}), s, x) : o \in DOMAIN table}
  ELSE {Put(table, s, x)}

Cached(k, p, s, x) ==
  \E table \in Stored(cache[k][p], s, x) : cache' = [cache EXCEPT ![k][p] = table]

(* Entries past their time to live are found and dropped by the next lookup. *)
Live(k, p, s) == s \in DOMAIN cache[k][p] /\ ~cache[k][p][s].old

Expire(k, p, s) ==
  /\ Live(k, p, s)
  /\ Event
  /\ cache' = [cache EXCEPT ![k][p][s].old = TRUE]
  /\ UNCHANGED <<service, inflight, fut, run, call, config, wire, told>>

(* invalidate_setup_cache empties both tables, the flights under way go on;  *)
(* of the tools only what is cached is forgotten.                            *)
KeepFlights(table, S) == table
ForgetFlights(table, S) == Drop(table, S)
EmptySetups(p, S) ==
  /\ cache' = [cache EXCEPT !["setup"][p] = Drop(@, S)]
  /\ inflight' = [inflight EXCEPT !["setup"][p] = ForgetFlights(@, S)]

ForgetTools(p, s) ==
  /\ cache' = [cache EXCEPT !["tools"][p] = Drop(@, {s})]
  /\ UNCHANGED inflight

(* Runs under way in p may still store what they read before. *)
Overtaken(p, S) ==
  [r \in Runs |->
     IF run[r].proc = p /\ run[r].setup \in S
        /\ run[r].at \notin {"idle", "done", "failed", "cancelled"}
     THEN [run[r] EXCEPT !.late = TRUE] ELSE run[r]]

-----------------------------------------------------------------------------
(* resolve_setup, called by the module runner *)

StartRun(r, p, s) ==
  /\ run[r].at = "idle" /\ \A q \in 1..(r - 1) : run[q].at # "idle"
  /\ run' = [run EXCEPT ![r] = [Idle EXCEPT !.at = "access", !.proc = p, !.setup = s,
                                  !.bad = [k \in DOMAIN told |-> told[k][p][s]]]]
  /\ UNCHANGED <<service, cache, inflight, fut, call, config, wire, told, events>>

(* _check_setup_access comes before either cache, and fails closed. *)
AccessDenied(r) ==
  /\ run[r].at = "access"
  /\ run' = [run EXCEPT ![r] = Ended("failed")]
  /\ UNCHANGED <<service, cache, inflight, fut, call, config, wire, told, events>>

SetupHit(r) ==
  LET p == run[r].proc  s == run[r].setup IN
  /\ run[r].at = "access"
  /\ Live("setup", p, s)
  /\ run' = [run EXCEPT ![r].at = "model", ![r].val = cache["setup"][p][s].val,
                        ![r].via = "cache", ![r].vlate = cache["setup"][p][s].late,
                        ![r].late = @ \/ cache["setup"][p][s].late]
  /\ UNCHANGED <<service, cache, inflight, fut, call, config, wire, told, events>>

(* Miss: await the flight there is, or lead one. *)
Join(r, k, waiting, leading) ==
  LET p == run[r].proc  s == run[r].setup IN
  /\ ~Live(k, p, s)
  /\ cache' = [cache EXCEPT ![k][p] = Drop(@, {s})]
  /\ IF s \in DOMAIN inflight[k][p]
     THEN /\ run' = [run EXCEPT ![r].at = waiting, ![r].on = inflight[k][p][s]]
          /\ UNCHANGED <<inflight, fut>>
     ELSE /\ run' = [run EXCEPT ![r].at = leading]
          /\ inflight' = [inflight EXCEPT ![k][p] = Put(@, s, r)]
          /\ fut' = [fut EXCEPT ![k][r].is = "pending"]

SetupMiss(r) ==
  /\ run[r].at = "access"
  /\ Join(r, "setup", "waiting", "fetching")
  /\ UNCHANGED <<service, call, config, wire, told, events>>

(* The setup service reads its table some time before the reply is here. *)
Read(r) ==
  LET s == run[r].setup IN
  /\ run[r].at = "fetching" /\ run[r].got = 0
  /\ Exists(s)
  /\ run' = [run EXCEPT ![r].got = setups[s].current,
                        ![r].late = @ \/ (config.at = "returned" /\ config.setup = s)]
  /\ UNCHANGED <<service, cache, inflight, fut, call, config, wire, told, events>>

(* The flight ends: whatever future stands under the setup is popped. *)
Land(k, r) == inflight' = [inflight EXCEPT ![k][run[r].proc] = Drop(@, {run[r].setup})]
Resolve(k, r, is, val) ==
  fut' = [fut EXCEPT ![k][r] = IF @.is = "pending"
                               THEN [is |-> is, val |-> val, late |-> run[r].late]
                               ELSE @]

(* _fetch_setup stores the reply, resolve_setup hands it to those who wait.  *)
(* If one of them was cancelled it took the future with it: set_result       *)
(* raises, and the leader fails though it has the setup.                     *)
FetchReturns(r) ==
  LET p == run[r].proc  s == run[r].setup IN
  /\ run[r].at = "fetching" /\ run[r].got # 0
  /\ Cached("setup", p, s, [val |-> run[r].got, late |-> run[r].late, old |-> FALSE])
  /\ Resolve("setup", r, "done", run[r].got)
  /\ Land("setup", r)
  /\ run' = [run EXCEPT ![r] = IF fut["setup"][r].is = "pending"
                               THEN [@ EXCEPT !.at = "model", !.val = run[r].got, !.via = "own",
                                              !.vlate = run[r].late]
                               ELSE Ended("failed")]
  /\ UNCHANGED <<service, call, config, wire, told, events>>

LeaveFlight(r) == UNCHANGED fut      \* as a fetch with no handler would
FailFlight(r) == Resolve("setup", r, "failed", 0)

(* The call fails, or the setup is not there. *)
FetchFails(r) ==
  /\ run[r].at = "fetching"
  /\ \/ run[r].got = 0 /\ ~Exists(run[r].setup) /\ UNCHANGED events
     \/ Event
  /\ FailFlight(r)
  /\ Land("setup", r)
  /\ run' = [run EXCEPT ![r] = Ended("failed")]
  /\ UNCHANGED <<service, cache, call, config, wire, told>>

Wake(r) ==
  LET f == fut["setup"][run[r].on] IN
  /\ run[r].at = "waiting" /\ f.is # "pending"
  /\ IF f.is = "done"
     THEN run' = [run EXCEPT ![r].at = "model", ![r].val = f.val, ![r].via = "future",
                             ![r].vlate = f.late, ![r].late = @ \/ f.late]
     ELSE run' = [run EXCEPT ![r] = Ended("failed")]
  /\ UNCHANGED <<service, cache, inflight, fut, call, config, wire, told, events>>

Resolving(r) == \/ AccessDenied(r) \/ SetupHit(r) \/ SetupMiss(r)
                \/ Read(r) \/ FetchReturns(r) \/ FetchFails(r) \/ Wake(r)

-----------------------------------------------------------------------------
(* get_or_build_tool_cache, once the setup model is made *)

ToolsHit(r) ==
  LET p == run[r].proc  s == run[r].setup IN
  /\ run[r].at = "model"
  /\ Live("tools", p, s)
  /\ run' = [run EXCEPT ![r].at = "done", ![r].tools = cache["tools"][p][s].val,
                        ![r].tlate = cache["tools"][p][s].late]
  /\ UNCHANGED <<service, cache, inflight, fut, call, config, wire, told, events>>

ToolsMiss(r) ==
  /\ run[r].at = "model"
  /\ Join(r, "tools", "waitingTools", "building")
  /\ UNCHANGED <<service, call, config, wire, told, events>>

(* build_tool_cache resolves the tools which that version of the setup names. *)
BuildReturns(r) ==
  LET p == run[r].proc  s == run[r].setup IN
  /\ run[r].at = "building"
  /\ Cached("tools", p, s, [val |-> run[r].val, late |-> run[r].late, old |-> FALSE])
  /\ Resolve("tools", r, "done", run[r].val)
  /\ Land("tools", r)
  /\ run' = [run EXCEPT ![r] = IF fut["tools"][r].is = "pending"
                               THEN [@ EXCEPT !.at = "done", !.tools = run[r].val, !.tlate = run[r].late]
                               ELSE Ended("failed")]
  /\ UNCHANGED <<service, call, config, wire, told, events>>

BuildFails(r) ==
  /\ run[r].at = "building"
  /\ Event
  /\ Resolve("tools", r, "failed", 0)
  /\ Land("tools", r)
  /\ run' = [run EXCEPT ![r] = Ended("failed")]
  /\ UNCHANGED <<service, cache, call, config, wire, told>>

WakeTools(r) ==
  LET f == fut["tools"][run[r].on] IN
  /\ run[r].at = "waitingTools" /\ f.is # "pending"
  /\ run' = [run EXCEPT ![r] = IF f.is = "done"
                               THEN [@ EXCEPT !.at = "done", !.tools = f.val, !.tlate = f.late]
                               ELSE Ended("failed")]
  /\ UNCHANGED <<service, cache, inflight, fut, call, config, wire, told, events>>

Tooling(r) == \/ ToolsHit(r) \/ ToolsMiss(r) \/ BuildReturns(r) \/ BuildFails(r) \/ WakeTools(r)

-----------------------------------------------------------------------------
(* A run is cancelled at one of its awaits *)

(* resolve_setup catches BaseException: those who wait are cancelled as well. *)
CancelFetch(r) == /\ run[r].at = "fetching"
                  /\ FailFlight(r)
                  /\ Land("setup", r)

(* get_or_build_tool_cache catches Exception only: the flight is forgotten    *)
(* and its future is never resolved.                                         *)
AbandonFuture(r) == UNCHANGED fut
CancelBuild(r) == /\ run[r].at = "building"
                  /\ AbandonFuture(r)
                  /\ Land("tools", r)

(* Cancelling a task that awaits a plain future cancels the future.          *)
CancelWait(r) ==
  LET k == IF run[r].at = "waiting" THEN "setup" ELSE "tools" IN
  /\ run[r].at \in {"waiting", "waitingTools"}
  /\ fut' = [fut EXCEPT ![k][run[r].on].is = IF @ = "pending" THEN "cancelled" ELSE @]
  /\ UNCHANGED inflight

CancelRun(r) ==
  /\ Event
  /\ \/ CancelFetch(r) \/ CancelBuild(r) \/ CancelWait(r)
     \/ run[r].at \in {"access", "model"} /\ UNCHANGED <<fut, inflight>>
  /\ run' = [run EXCEPT ![r] = Ended("cancelled")]
  /\ UNCHANGED <<service, cache, call, config, wire, told>>

-----------------------------------------------------------------------------
(* The managers *)

KinActions == {"get", "search", "update", "delete", "change_visibility",
               "list_versions", "set_version"}
ServiceActions == KinActions \cup {"create", "load"}
Offered(kind) == IF kind = "service" THEN ServiceActions ELSE KinActions
Writes == {"update", "delete", "change_visibility", "set_version", "create"}

StartCall(c, kind, action, s) ==
  /\ call[c].at = "idle"
  /\ action \in Offered(kind)
  /\ action = "create" => setups[s] = NoSetup
  /\ Event
  /\ call' = [call EXCEPT ![c] = [NoCall EXCEPT
                !.at = IF action = "create" THEN "write"
                       ELSE IF action = "search" THEN "reply" ELSE "gate",
                !.proc = AgentAt[c], !.as = kind, !.action = action, !.setup = s]]
  /\ UNCHANGED <<service, cache, inflight, fut, run, config, wire, told>>

(* Every error becomes a fail envelope, and nothing is invalidated. *)
CallFails(c) ==
  /\ call[c].at \in {"gate", "kind", "write", "reread"}
  /\ \/ call[c].at \in {"gate", "write", "reread"} /\ ~Exists(call[c].setup)
        /\ call[c].action # "create" /\ UNCHANGED events
     \/ Event
  /\ call' = [call EXCEPT ![c] = Closed("failed")]
  /\ UNCHANGED <<service, cache, inflight, fut, run, config, wire, told>>

(* ensure_kind: the setup, then the module behind it. Only delete lets a     *)
(* setup pass whose module is gone; a registry that cannot say refuses.      *)
EnsureKind(c) ==
  /\ call[c].at = "gate"
  /\ Exists(call[c].setup)
  /\ call' = [call EXCEPT ![c].at = "kind"]
  /\ UNCHANGED <<service, cache, inflight, fut, run, config, wire, told, events>>

Passes(c, kind) == kind = call[c].as
NotFound(c, kind) == kind = "not_found"      \* whatever the action
Orphaned(c, kind) == kind = "not_found" /\ call[c].action = "delete"

KindKnown(c) ==
  LET kind == DiscoverById(Backing[call[c].setup]) IN
  /\ call[c].at = "kind"
  /\ call' = [call EXCEPT ![c].at = IF ~(Passes(c, kind) \/ Orphaned(c, kind)) THEN "failed"
                                    ELSE IF call[c].action \in Writes THEN "write" ELSE "reply",
                          ![c].orphan = Orphaned(c, kind)]
  /\ UNCHANGED <<service, cache, inflight, fut, run, config, wire, told, events>>

(* What a write leaves behind: the version that is not current any more.     *)
Superseded(s) == {setups[s].current} \ {setups'[s].current, 0}

(* A version that is current again is superseded no more. *)
Revived(s) ==
  /\ told' = [k \in DOMAIN told |-> [p \in Procs |->
                [told[k][p] EXCEPT ![s] = @ \ {setups'[s].current}]]]
  /\ run' = [r \in Runs |-> IF run[r].setup # s THEN run[r]
               ELSE [run[r] EXCEPT !.bad = [k \in DOMAIN @ |-> @[k] \ {setups'[s].current}]]]

Write(c) ==
  LET s == call[c].setup IN
  /\ call[c].at = "write"
  /\ call[c].action = "create" \/ Exists(s)
  /\ \/ call[c].action = "update" /\ \E asCurrent \in BOOLEAN : UpdateSetup(s, asCurrent)
     \/ call[c].action = "delete" /\ DeleteSetup(s)
     \/ call[c].action = "change_visibility" /\ \E scope \in Scopes : ChangeVisibility(s, scope)
     \/ call[c].action = "set_version"
        /\ \E v \in ToSet(setups[s].versions) : SetCurrentSetupVersion(s, v)
     \/ call[c].action = "create" /\ CreateSetup(s)
  /\ \E lost \in BOOLEAN :
       /\ IF lost THEN Event ELSE UNCHANGED events
       /\ call' = [call EXCEPT ![c].at = IF lost THEN "failed"
                                         ELSE IF call[c].action = "change_visibility" THEN "reread"
                                         ELSE "reply",
                               ![c].superseded = Superseded(s)]
  /\ Revived(s)
  /\ UNCHANGED <<modules, cache, inflight, fut, config, wire>>

ReRead(c) ==
  /\ call[c].at = "reread"
  /\ Exists(call[c].setup)
  /\ call' = [call EXCEPT ![c].at = "reply"]
  /\ UNCHANGED <<service, cache, inflight, fut, run, config, wire, told, events>>

(* _dispatch, after a write that was answered: the whole setup cache of the  *)
(* process is emptied, before the agent has its answer.                      *)
Invalidates(c) == call[c].action \in Writes
InvalidateSetupCache(c) ==
  IF Invalidates(c) THEN EmptySetups(call[c].proc, Setups)
  ELSE UNCHANGED <<cache, inflight>>

Knows(k, p, s, versions) == [told EXCEPT ![k][p][s] = @ \cup (versions \ {setups[s].current})]

CallReturns(c) ==
  LET p == call[c].proc  s == call[c].setup IN
  /\ call[c].at = "reply"
  /\ InvalidateSetupCache(c)
  /\ IF call[c].action \in Writes
     THEN /\ told' = Knows("setup", p, s, call[c].superseded)
          /\ run' = Overtaken(p, Setups)
     ELSE UNCHANGED <<told, run>>
  /\ call' = [call EXCEPT ![c] = Closed("done")]
  /\ UNCHANGED <<service, fut, config, wire, events>>

ModuleLeaves(m) ==
  /\ Deregister(m)
  /\ Event
  /\ UNCHANGED <<cache, inflight, fut, run, call, config, wire, told>>
ModuleReturns(m) ==
  /\ m \notin modules
  /\ Register(m)
  /\ UNCHANGED <<cache, inflight, fut, run, call, config, wire, told, events>>

Manage(c) == \/ CallFails(c) \/ EnsureKind(c) \/ KindKnown(c) \/ Write(c) \/ ReRead(c)
             \/ CallReturns(c)

-----------------------------------------------------------------------------
(* ConfigSetupModule *)

ConfigStart(p, s) ==
  /\ config.at = "idle"
  /\ Event
  /\ Exists(s)
  /\ config' = [at |-> "running", proc |-> p, setup |-> s, val |-> 0]
  /\ cache' = [cache EXCEPT !["setup"][p] = Drop(@, {s})]
  /\ UNCHANGED <<service, inflight, fut, run, call, wire, told>>

ConfigFails ==
  /\ config.at = "running"
  /\ Event
  /\ config' = NoConfig
  /\ UNCHANGED <<service, cache, inflight, fut, run, call, wire, told>>

(* The configured content is cached before the caller has it to commit, the  *)
(* tools of the setup are forgotten, and the other processes are told; each  *)
(* publish may be lost on its own.                                           *)
ConfigReturns ==
  LET p == config.proc  s == config.setup IN
  /\ config.at = "running"
  /\ cut < MaxVersion
  /\ cut' = cut + 1
  /\ \E table \in Stored(cache["setup"][p], s, [val |-> cut + 1, late |-> FALSE, old |-> FALSE]) :
       cache' = [cache EXCEPT !["setup"][p] = table, !["tools"][p] = Drop(@, {s})]
  /\ \E lost \in SUBSET CacheKinds :
       /\ events + Cardinality(lost) <= MaxEvents
       /\ events' = events + Cardinality(lost)
       /\ wire' = wire \cup [of : CacheKinds \ lost, proc : Procs \ {p}, setup : {s}]
  /\ LET replaced == {setups[s].current} \ {0} IN
     told' = [told EXCEPT !["config"][p][s] = @ \cup replaced, !["tools"][p][s] = @ \cup replaced]
  /\ run' = Overtaken(p, {s})
  /\ config' = [config EXCEPT !.at = "returned", !.val = cut + 1]
  /\ UNCHANGED <<setups, modules, inflight, fut, call>>

(* The caller of ConfigSetupModule stores what it was answered. *)
ConfigCommitted ==
  LET s == config.setup IN
  /\ config.at = "returned"
  /\ IF Exists(s)
     THEN setups' = [setups EXCEPT ![s].versions = Append(@, config.val), ![s].current = config.val]
     ELSE UNCHANGED setups
  /\ Revived(s)
  /\ config' = NoConfig
  /\ UNCHANGED <<modules, cut, cache, inflight, fut, call, wire, events>>

(* _invalidate_setup and _invalidate_tools of a process that listens. The    *)
(* setup's flight is dropped with it; the flight of its tools is not.        *)
Dispatch(msg) ==
  LET p == msg.proc  s == msg.setup IN
  /\ msg \in wire
  /\ wire' = wire \ {msg}
  /\ IF msg.of = "setup"
     THEN EmptySetups(p, {s})
     ELSE ForgetTools(p, s)
  /\ run' = Overtaken(p, {s})
  /\ UNCHANGED <<service, fut, call, config, told, events>>

-----------------------------------------------------------------------------
Next ==
  \/ \E r \in Runs : \/ \E p \in Procs, s \in Served : StartRun(r, p, s)
                     \/ Resolving(r) \/ Tooling(r) \/ CancelRun(r)
  \/ \E k \in CacheKinds, p \in Procs, s \in Setups : Expire(k, p, s)
  \/ \E c \in Calls : \/ \E kind \in Kinds, s \in Setups, action \in ServiceActions :
                           StartCall(c, kind, action, s)
                      \/ Manage(c)
  \/ \E m \in Modules : ModuleLeaves(m) \/ ModuleReturns(m)
  \/ \E s \in Setups : ConfigStart(Configured, s)
  \/ ConfigFails \/ ConfigReturns \/ ConfigCommitted
  \/ \E msg \in wire : Dispatch(msg)

Spec == Init /\ [][Next]_vars

(* Services answer, and the event loop does not stop while it can resume a   *)
(* run: a run has few steps, so none is passed over for ever.                *)
Fairness == WF_vars(\E r \in Runs : Resolving(r) \/ Tooling(r))
FairSpec == Spec /\ Fairness

-----------------------------------------------------------------------------
(* Once a manager's write was answered, or ConfigSetupModule has returned, a *)
(* run that starts in that process is not given a setup it replaced, nor     *)
(* tools of one that was configured anew: except out of the cache, where a   *)
(* flight that the invalidation overtook may have put it. Through the shared *)
(* flight itself no superseded setup comes after a manager's write.          *)
ServedFresh ==
  \A r \in Runs :
    /\ run[r].val \in run[r].bad["setup"] => run[r].vlate /\ run[r].via = "cache"
    /\ run[r].val \in run[r].bad["config"] => run[r].vlate
    /\ run[r].tools \in run[r].bad["tools"] => run[r].tlate

(* "builder() runs at most once per miss": in one process no two runs build  *)
(* the tools of one setup at a time.                                         *)
OneBuilder ==
  \A r, q \in Runs :
    /\ r # q /\ run[r].at = "building" /\ run[q].at = "building"
    => <<run[r].proc, run[r].setup>> # <<run[q].proc, run[q].setup>>

(* The caches serve what is current, and ask for it once. *)
CachesInOrder == ServedFresh /\ OneBuilder

(* A manager changes setups of its own kind only, of those there are (the    *)
(* service chooses the module of a new one); a setup whose module was gone   *)
(* when it asked may be deleted, whatever its kind, and an outage of the     *)
(* registry is not taken for that.                                           *)
NoForeignWrite ==
  [][\A c \in Calls :
       /\ call[c].at = "write" /\ setups[call[c].setup] # NoSetup
       /\ setups' # setups /\ call'[c] # call[c]
       => \/ KindOf[Backing[call[c].setup]] = call[c].as
          \/ call[c].action = "delete" /\ call[c].orphan]_vars

(* The runs that began end, but for one that waits for tools whose builder   *)
(* was cancelled: that flight is forgotten and its future never resolved.    *)
Abandoned(r) ==
  /\ run[r].at = "waitingTools"
  /\ run[run[r].on].at = "cancelled"
RunsEnd ==
  []<>(\A r \in Runs : run[r].at \in {"idle", "done", "failed", "cancelled"} \/ Abandoned(r))
=============================================================================
