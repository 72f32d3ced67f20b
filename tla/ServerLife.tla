----------------------------- MODULE ServerLife -----------------------------
(* The life of a ModuleServer in its process: start_async and stop_async of  *)
(* ModuleServer and BaseServer, the resources they open and close, and the   *)
(* requests that arrive meanwhile: RPCs are served from the start of grpc on *)
(* to the last but one step of stop.  A step is the code between two awaits. *)
EXTENDS SignalListener, FiniteSets

CONSTANTS
  MaxStreams,   \* max_streams of the gateway
  MaxStarts,    \* bound: starts of the server in this process
  MaxMishaps    \* bound: calls that fail or are cancelled

ASSUME ServerAssumption == MaxStreams \in Nat \ {0} /\ MaxStarts \in Nat /\ MaxMishaps \in Nat

VARIABLES
  remote,     \* client_config is given: remote services and a registry
  owner,      \* where the coroutine that starts and stops the server stands
  starts,     \* servers started so far
  serving,    \* grpc serves
  verified,   \* the gateway reached Redis
  booted,     \* listener.start() of the last start: "", "ok", "failed"
  opened,     \* the open resources, each with the server that opened it
  left,       \* ghost: what no one closes: its close failed, or a run opened it after
  advertised, \* the start whose address the registry gives to callers, 0 for none
  call,       \* the StartStream handler of each request
  sessions,   \* StreamRegistry._local_cache
  dial,       \* the dial-back task of each request
  watched,    \* StreamRegistry._monitored_tasks
  doomed,     \* the dials shutdown() cancelled and awaits
  run,        \* the module task of each request
  born,       \* the start that accepted it
  stray,      \* ghost: dials spawned once the others had been cancelled
  mishaps

wvars == <<remote, owner, starts, serving, verified, booted, opened, left, advertised,
           call, sessions, dial, watched, doomed, run, born, stray, mishaps>>
avars == <<sigvars, wvars>>

Mine(R) == {<<starts, x>> : x \in R}
Opens(R) == opened' = opened \cup Mine(R)
Closes(R) == opened' = opened \ Mine(R)

ServerInit ==
  /\ remote \in BOOLEAN /\ owner = "off" /\ starts = 0
  /\ serving = FALSE /\ verified = FALSE /\ booted = "" /\ advertised = 0
  /\ opened = {} /\ left = {}
  /\ call = [p \in Posts |-> "none"] /\ dial = [p \in Posts |-> "none"] /\ run = [p \in Posts |-> "none"]
  /\ sessions = {} /\ watched = {} /\ doomed = {} /\ stray = {} /\ mishaps = 0
  /\ born = [p \in Posts |-> 0]

Mishap == mishaps < MaxMishaps /\ mishaps' = mishaps + 1

OwnerOnly == UNCHANGED <<remote, call, dial, run, born, stray>>
Requests == UNCHANGED <<call, sessions, dial, watched, doomed, run, born, stray>>

-----------------------------------------------------------------------------
(* start_async                                                               *)

\* ModuleServicer with its clients, and the gateway with a Redis client of its own.
ServicerOpens == {"servicerRedis"} \cup IF remote THEN {"setup", "profile"} ELSE {}
GatewayOpens == {"gatewayRedis"}

\* Everything up to the first await: create the server with its port, register
\* the servicers, health (SERVING), reflection.
Creates ==
  /\ owner = "off" /\ starts < MaxStarts
  /\ starts' = starts + 1
  /\ owner' = "binding"
  /\ opened' = opened \cup {<<starts + 1, x>> : x \in ServicerOpens \cup GatewayOpens}
  /\ verified' = FALSE
  /\ watched' = {} /\ sessions' = {}
  /\ OwnerOnly /\ UNCHANGED <<sigvars, serving, booted, left, advertised, doomed, mishaps>>

\* Bad settings, a port in use, no DIGITALKIN_REDIS_URL: with no server to stop.
CreateFails ==
  /\ owner = "off" /\ starts < MaxStarts
  /\ starts' = starts + 1 /\ Mishap
  /\ OwnerOnly /\ UNCHANGED <<sigvars, owner, serving, verified, booted, opened, left, advertised, sessions, watched, doomed>>

Serves ==
  /\ owner = "binding"
  /\ owner' = "verifying" /\ serving' = TRUE
  /\ Requests /\ UNCHANGED <<sigvars, remote, starts, verified, booted, opened, left, advertised, mishaps>>

\* gateway.start: both pools answered, the sweeper is spawned, then the listener.
VerifyFirst == verified' = TRUE
Verifies ==
  /\ owner = "verifying"
  /\ VerifyFirst /\ Opens({"sweeper"})
  /\ IF Listening
     THEN owner' = "started" /\ booted' = "ok" /\ UNCHANGED sigvars
     ELSE owner' = "listening" /\ StartOpens /\ UNCHANGED booted
  /\ Requests /\ UNCHANGED <<remote, starts, serving, left, advertised, mishaps>>

\* The failure of the listener is logged: start_async goes on without it.
ListenerUp ==
  /\ owner = "listening"
  /\ \/ booted' = "ok" /\ StartSubscribes /\ UNCHANGED mishaps
     \/ booted' = "failed" /\ Mishap /\ StartGivesUp
  /\ owner' = "started"
  /\ Requests /\ UNCHANGED <<remote, starts, serving, verified, opened, left, advertised>>

Registers ==
  /\ owner = "started"
  /\ IF remote THEN owner' = "probing" /\ Opens({"registry"}) ELSE owner' = "up" /\ UNCHANGED opened
  /\ Requests /\ UNCHANGED <<sigvars, remote, starts, serving, verified, booted, left, advertised, mishaps>>

Probed ==
  /\ owner = "probing"
  /\ owner' = "registering"
  /\ Requests /\ UNCHANGED <<sigvars, remote, starts, serving, verified, booted, opened, left, advertised, mishaps>>

Registered ==
  /\ owner = "registering"
  /\ owner' = "up" /\ advertised' = starts
  /\ Requests /\ UNCHANGED <<sigvars, remote, starts, serving, verified, booted, opened, left, mishaps>>

\* Any await of start_async raises or is cancelled; the registry may have done
\* what it was asked.
Starting == {"binding", "verifying", "listening", "probing", "registering"}
StartRaises ==
  /\ owner \in Starting /\ Mishap
  /\ owner' = "raised"
  /\ \/ UNCHANGED advertised
     \/ owner = "registering" /\ advertised' = starts
  /\ StartGivesUp
  /\ Requests /\ UNCHANGED <<remote, starts, serving, verified, booted, opened, left>>

-----------------------------------------------------------------------------
(* stop_async: called when the server is up, or start_async raised.          *)
(* Deregistering only logs, and so does stopping the job manager: the runs   *)
(* go on.                                                                    *)

FailsToClose(x) == left' = left \cup Mine({x}) /\ Mishap

\* ModuleServicer.shutdown: the clients it owns, each failure caught.
Shuts ==
  /\ owner \in {"up", "raised"}
  /\ owner' = "closing"
  /\ \/ Closes({"setup", "profile"}) /\ UNCHANGED <<left, mishaps>>
     \/ \E x \in {"setup", "profile"} : <<starts, x>> \in opened /\ Closes({"setup", "profile"} \ {x}) /\ FailsToClose(x)
  /\ Requests /\ UNCHANGED <<sigvars, remote, starts, serving, verified, booted, advertised>>

\* Its Redis pools, outside any try: if that raises, the registry cache is kept.
ClosesServicer == Closes({"servicerRedis", "registryCache"})
ClosesItsRedis ==
  /\ owner = "closing"
  /\ owner' = "closed"
  /\ \/ ClosesServicer /\ UNCHANGED <<left, mishaps>>
     \/ /\ UNCHANGED opened /\ Mishap
        /\ left' = left \cup Mine({"servicerRedis", "registryCache"})
  /\ Disconnects /\ UNCHANGED <<pubsub, starting, loops, listenTask, table, signal>>
  /\ Requests /\ UNCHANGED <<remote, starts, serving, verified, booted, advertised>>

ClosesRegistry ==
  /\ owner = "closed"
  /\ owner' = "draining"
  /\ \/ Closes({"registry"}) /\ UNCHANGED <<left, mishaps>>
     \/ <<starts, "registry">> \in opened /\ UNCHANGED opened /\ FailsToClose("registry")
  /\ Requests /\ UNCHANGED <<sigvars, remote, starts, serving, verified, booted, advertised>>

\* gateway.stop: the sweeper, then every watched task is cancelled ...
CancelDials == doomed' = watched
StopsGateway ==
  /\ owner = "draining"
  /\ owner' = "gathering" /\ Closes({"sweeper"}) /\ CancelDials
  /\ OwnerOnly /\ UNCHANGED <<sigvars, starts, serving, verified, booted, left, advertised, sessions, watched, mishaps>>

\* ... and awaited; then the sessions left are torn down.
Gathered ==
  /\ owner = "gathering" /\ \A p \in doomed : dial[p] # "live"
  /\ owner' = "drained"
  /\ watched' = {} /\ sessions' = {}
  /\ OwnerOnly /\ UNCHANGED <<sigvars, starts, serving, verified, booted, opened, left, advertised, doomed, mishaps>>

ClosesGatewayRedis ==
  /\ owner = "drained"
  /\ owner' = "unbinding"
  /\ \/ Closes({"gatewayRedis"}) /\ UNCHANGED <<left, mishaps>>
     \/ UNCHANGED opened /\ FailsToClose("gatewayRedis")
  /\ Requests /\ UNCHANGED <<sigvars, remote, starts, serving, verified, booted, advertised>>

\* BaseServer.stop_async: grpc refuses new calls, and cancels at the end of the
\* grace those still running.
Unbinds ==
  /\ owner = "unbinding"
  /\ owner' = "sweeping" /\ serving' = FALSE
  /\ call' = [p \in Posts |-> IF call[p] = "seeding" THEN "abandoned" ELSE call[p]]
  /\ UNCHANGED <<sigvars, remote, starts, verified, booted, opened, left, advertised,
                 sessions, dial, watched, doomed, run, born, stray, mishaps>>

\* close_all_cached_channels, whoever holds them.
SweepNone == UNCHANGED opened
SweepsChannels == opened' = opened \ ((1..MaxStarts) \X {"setup", "profile", "registry", "registryCache", "pooled"})
Stops ==
  /\ owner = "sweeping"
  /\ owner' = "off"
  /\ SweepsChannels
  /\ Requests /\ UNCHANGED <<sigvars, remote, starts, serving, verified, booted, left, advertised, mishaps>>

-----------------------------------------------------------------------------
(* Requests                                                                  *)

Stopping == {"closed", "draining", "gathering", "drained", "unbinding", "sweeping", "off"}
Untouched == UNCHANGED <<remote, owner, starts, serving, verified, booted, advertised>>

\* StartStream registers the session ...
StartStream(p) ==
  /\ serving /\ call[p] = "none"
  /\ born' = [born EXCEPT ![p] = starts]
  /\ IF Cardinality(sessions) < MaxStreams
     THEN call' = [call EXCEPT ![p] = "seeding"] /\ sessions' = sessions \cup {p}
     ELSE call' = [call EXCEPT ![p] = "refused"] /\ UNCHANGED sessions
  /\ Untouched /\ UNCHANGED <<sigvars, opened, left, dial, watched, doomed, run, stray, mishaps>>

\* ... awaits the XADD of stream.start, which may raise, ...
SeedFails(p) ==
  /\ call[p] = "seeding" /\ Mishap
  /\ call' = [call EXCEPT ![p] = "refused"] /\ sessions' = sessions \ {p}
  /\ Untouched /\ UNCHANGED <<sigvars, opened, left, dial, watched, doomed, run, born, stray>>

\* ... or be cancelled with the RPC: CancelledError is no RedisError.
Abandoned(p) ==
  /\ call[p] = "seeding" /\ Mishap
  /\ call' = [call EXCEPT ![p] = "abandoned"]
  /\ Untouched /\ UNCHANGED <<sigvars, opened, left, sessions, dial, watched, doomed, run, born, stray>>

\* ... and spawns the dial.
Swept(p) == born[p] # starts \/ owner \in {"gathering", "drained", "unbinding", "sweeping", "off"}
Spawn(p) == watched' = watched \cup {p}
SpawnDial(p) ==
  /\ call[p] = "seeding"
  /\ call' = [call EXCEPT ![p] = "answered"]
  /\ dial' = [dial EXCEPT ![p] = "live"]
  /\ Spawn(p)
  /\ stray' = IF Swept(p) THEN stray \cup {p} ELSE stray
  /\ Untouched /\ UNCHANGED <<sigvars, opened, left, sessions, doomed, run, born, mishaps>>

\* The consumer's first reply: the module runs in a task of its own, over the
\* channels of its services and the pools, which reconnect when they are used.
Uses(p, R) ==
  LET new == {<<born[p], x>> : x \in R} \ opened IN
  /\ opened' = opened \cup new
  /\ left' = IF born[p] # starts \/ owner \in Stopping THEN left \cup new ELSE left

RunStarts(p) ==
  /\ dial[p] = "live" /\ run[p] = "none" /\ p \notin doomed
  /\ run' = [run EXCEPT ![p] = "live"]
  /\ Register(p)
  /\ Uses(p, {"servicerRedis", "gatewayRedis", "pooled"} \cup IF remote THEN {"registryCache"} ELSE {})
  /\ Untouched /\ UNCHANGED <<pubsub, conns, starting, loops, listenTask, signal, call, sessions, dial, watched, doomed, born, stray, mishaps>>

RunWrites(p) ==
  /\ run[p] = "live"
  /\ ~({<<born[p], "servicerRedis">>, <<born[p], "gatewayRedis">>} \subseteq opened)
  /\ Uses(p, {"servicerRedis", "gatewayRedis"})
  /\ Untouched /\ UNCHANGED <<sigvars, call, sessions, dial, watched, doomed, run, born, stray, mishaps>>

RunEnds(p) ==
  /\ run[p] = "live"
  /\ run' = [run EXCEPT ![p] = "over"]
  /\ Unregister(p)
  /\ Untouched /\ UNCHANGED <<pubsub, conns, starting, loops, listenTask, signal, opened, left, call, sessions, dial, watched, doomed, born, stray, mishaps>>

Signal(p) ==
  /\ serving /\ run[p] = "live" /\ p \in sessions /\ signal[p] = "none"
  /\ Publish(p)
  /\ Untouched /\ UNCHANGED <<pubsub, starting, loops, listenTask, table, opened, left, call, sessions, dial, watched, doomed, run, born, stray, mishaps>>

\* The dial's finally unregisters the session ...
DialEnds(p) ==
  /\ dial[p] = "live"
  /\ dial' = [dial EXCEPT ![p] = "over"]
  /\ sessions' = sessions \ {p} /\ watched' = watched \ {p}
  /\ Untouched /\ UNCHANGED <<sigvars, opened, left, call, doomed, run, born, stray, mishaps>>

\* ... or is cut short, and the done callback spawns the reaper,
Reaper(p) == IF p \in sessions THEN "reaping" ELSE "over"
DialDies(p) ==
  /\ dial[p] = "live" /\ Mishap
  /\ dial' = [dial EXCEPT ![p] = Reaper(p)]
  /\ watched' = IF Reaper(p) = "reaping" THEN watched ELSE watched \ {p}
  /\ UNCHANGED doomed
  /\ Untouched /\ UNCHANGED <<sigvars, opened, left, call, sessions, run, born, stray>>

\* which unregisters it.
Reaps(p) ==
  /\ dial[p] = "reaping"
  /\ dial' = [dial EXCEPT ![p] = "over"]
  /\ sessions' = sessions \ {p} /\ watched' = watched \ {p}
  /\ Untouched /\ UNCHANGED <<sigvars, opened, left, call, doomed, run, born, stray, mishaps>>

Listens == \E l \in DOMAIN loops : LoopStep(l)
ListenFails == \E l \in DOMAIN loops :
  /\ LoopRaises(l)
  /\ IF Troubled(l) THEN UNCHANGED mishaps ELSE Mishap

Listener ==
  /\ (Listens /\ UNCHANGED mishaps) \/ ListenFails
  /\ Untouched /\ UNCHANGED <<opened, left, call, sessions, dial, watched, doomed, run, born, stray>>

-----------------------------------------------------------------------------
StopStep ==
  \/ Shuts \/ ClosesItsRedis \/ ClosesRegistry \/ StopsGateway \/ Gathered
  \/ ClosesGatewayRedis \/ Unbinds \/ Stops

OwnerStep ==
  \/ Creates \/ CreateFails \/ Serves \/ Verifies \/ ListenerUp \/ Registers
  \/ Probed \/ Registered \/ StartRaises \/ StopStep

RequestStep(p) ==
  \/ StartStream(p) \/ SeedFails(p) \/ Abandoned(p) \/ SpawnDial(p) \/ RunStarts(p)
  \/ RunWrites(p) \/ RunEnds(p) \/ Signal(p) \/ DialEnds(p) \/ DialDies(p) \/ Reaps(p)

-----------------------------------------------------------------------------
(* Properties                                                                *)

\* When stop_async returns, everything the server opened is closed, but what
\* failed to close and what a run that outlived it opened anew: nobody cancels
\* the runs, and pools that were closed reconnect (stop_async, "Pools were
\* leaked on every server stop").
ReleasedAtStop == owner = "off" => opened \subseteq left

\* A session stays in the registry only while someone will take it out: its
\* StartStream, its dial or the reaper; and once the gateway has stopped no
\* dial is left but of a request that was answered after. An RPC cancelled
\* while it seeds the stream leaves its session for ever.
NoneOutlives ==
  /\ \A p \in sessions :
       call[p] \in {"seeding", "abandoned"} \/ dial[p] \in {"live", "reaping"}
  /\ owner \in {"drained", "unbinding", "sweeping", "off"} =>
       \A p \in Posts : dial[p] = "live" => p \in stray

\* The registry is given the address of this server only once grpc serves, the
\* gateway has reached Redis and the sweeper of its calls runs.
AdvertisedIsUp ==
  advertised = starts /\ owner \in {"up", "raised"} =>
    serving /\ verified /\ <<starts, "sweeper">> \in opened

\* One loop is closing a PubSub while another loop, or start(), has to do with
\* one: it closes theirs, or drops it unclosed.
Collide ==
  \E l \in DOMAIN loops :
    /\ loops[l].at = "closing"
    /\ starting # 0 \/ \E k \in DOMAIN loops \ {l} : loops[k].on # 0

\* Once its first subscription succeeded the listener is, always again,
\* subscribed with nothing unread, whatever breaks its connection, also beside
\* a second loop that a restart of the server left behind, unless the two close
\* each other's PubSub over and over (_listen_loop closes whatever self._pubsub
\* is): every read of the one may break the read of the other.
BackOnAir ==
  []<>(listenTask = 0 \/ Collide \/ (pubsub # 0 /\ conns[pubsub].on /\ conns[pubsub].unread = {}))

\* What a server leaves behind when it is stopped, and what it says before.
LeavesNothing == ReleasedAtStop /\ NoneOutlives /\ AdvertisedIsUp
=============================================================================
