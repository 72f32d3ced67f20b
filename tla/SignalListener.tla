--------------------------- MODULE SignalListener ---------------------------
(* SharedRedisListener: the one PubSub of a process. start() opens it and    *)
(* spawns the listen loop; the loop reads it, dispatches what it reads to    *)
(* the registered tasks, and opens a new one when a read fails.  start() is  *)
(* called once per server start, and close() by nobody: the reference that   *)
(* SingleJobManager takes is never released, so a loop that start() replaced *)
(* runs on, beside the new one and on the same PubSub.                       *)
(* No two signals are equal (each carries the time it was published), so the *)
(* comparison with _last_seen never holds and is left out.                   *)
EXTENDS Naturals, Sequences

CONSTANT Posts   \* the tasks

VARIABLES
  pubsub,      \* the listener's PubSub, 0 for None
  conns,       \* the PubSubs: is it subscribed, and what it holds unread
  starting,    \* the PubSub start() is subscribing, 0 for none
  loops,       \* every listen loop: where it stands, and the PubSub it awaits
  listenTask,  \* the loop the listener remembers, 0 for None
  table,       \* registered tasks
  signal       \* the cancel of each task: "none", "sent", "heard" or "skipped"

sigvars == <<pubsub, conns, starting, loops, listenTask, table, signal>>

SignalInit ==
  /\ pubsub = 0 /\ conns = <<>> /\ starting = 0 /\ loops = <<>> /\ listenTask = 0
  /\ table = {} /\ signal = [t \in Posts |-> "none"]

Closed == [on |-> FALSE, unread |-> {}]

\* A PubSub that no one refers to any more is collected: its number is free.
Referred(c) == c \in {pubsub, starting} \/ \E l \in DOMAIN loops : loops[l].on = c
Fresh == CHOOSE c \in 1..(Len(conns) + 1) : ~Referred(c) /\ \A d \in 1..(c - 1) : Referred(d)
NewConn == IF Fresh = Len(conns) + 1 THEN Append(conns, Closed) ELSE [conns EXCEPT ![Fresh] = Closed]
OpenPubsub == conns' = NewConn /\ pubsub' = Fresh
Subscribe(c) == [conns EXCEPT ![c].on = TRUE]
Unsubscribe(c) == [conns EXCEPT ![c] = Closed]

-----------------------------------------------------------------------------
(* start()                                                                   *)

Listening == pubsub # 0 /\ listenTask # 0

StartOpens ==
  /\ ~Listening
  /\ OpenPubsub /\ starting' = Fresh
  /\ UNCHANGED <<loops, listenTask, table, signal>>

\* psubscribe returns; a loop may have closed or dropped the PubSub meanwhile.
StartSubscribes ==
  /\ conns' = Subscribe(starting) /\ starting' = 0
  /\ loops' = Append(loops, [at |-> "top", on |-> 0]) /\ listenTask' = Len(loops) + 1
  /\ UNCHANGED <<pubsub, table, signal>>

\* psubscribe raises or is cancelled: the PubSub stays in place, unsubscribed.
StartGivesUp == starting' = 0 /\ UNCHANGED <<pubsub, conns, loops, listenTask, table, signal>>

-----------------------------------------------------------------------------
(* _listen_loop, between its awaits                                          *)

Goes(l, at, c) == loops' = [loops EXCEPT ![l] = [at |-> at, on |-> c]]
ToError(l) == IF pubsub = 0 THEN Goes(l, "backoff", 0) ELSE Goes(l, "closing", pubsub)

LoopTop(l) ==
  /\ loops[l].at = "top"
  /\ IF pubsub = 0
     THEN OpenPubsub /\ Goes(l, "subscribing", Fresh)
     ELSE UNCHANGED <<conns, pubsub>> /\ Goes(l, "reading", pubsub)
  /\ UNCHANGED <<starting, listenTask, table, signal>>

\* The PubSub is read anew after the await: another loop may have dropped it.
LoopSubscribed(l) ==
  /\ loops[l].at = "subscribing"
  /\ conns' = Subscribe(loops[l].on)
  /\ IF pubsub = 0 THEN Goes(l, "backoff", 0) ELSE Goes(l, "reading", pubsub)
  /\ UNCHANGED <<pubsub, starting, listenTask, table, signal>>

(* dispatch_signal: a signal of a task that is not registered is skipped.    *)
Dispatch(t) == signal' = [signal EXCEPT ![t] = IF t \in table THEN "heard" ELSE "skipped"]

LoopReads(l) ==
  LET c == loops[l].on IN
  /\ loops[l].at = "reading" /\ conns[c].on
  /\ \/ conns[c].unread = {} /\ UNCHANGED <<conns, signal>>
     \/ \E t \in conns[c].unread :
          conns' = [conns EXCEPT ![c].unread = @ \ {t}] /\ Dispatch(t)
  /\ Goes(l, "top", 0)
  /\ UNCHANGED <<pubsub, starting, listenTask, table>>

\* psubscribe or get_message raises.  Reading a PubSub that is not subscribed
\* does, and on one that another loop reads, opens or closes it may.
Troubled(l) ==
  LET c == loops[l].on IN
  \/ loops[l].at = "reading" /\ ~conns[c].on
  \/ loops[l].at = "subscribing" /\ pubsub # c
  \/ c = starting \/ \E k \in DOMAIN loops \ {l} : loops[k].on = c
LoopRaises(l) ==
  /\ loops[l].at \in {"subscribing", "reading"}
  /\ ToError(l)
  /\ UNCHANGED <<pubsub, conns, starting, listenTask, table, signal>>

\* Were the broken PubSub kept after the error.
KeepPubsub == UNCHANGED pubsub
DropPubsub == pubsub' = 0

\* aclose() of the PubSub it found, then None for whatever is in place by now.
LoopCloses(l) ==
  /\ loops[l].at = "closing"
  /\ conns' = Unsubscribe(loops[l].on)
  /\ DropPubsub
  /\ Goes(l, "backoff", 0)
  /\ UNCHANGED <<starting, listenTask, table, signal>>

LoopBacksOff(l) ==
  /\ loops[l].at = "backoff"
  /\ Goes(l, "top", 0)
  /\ UNCHANGED <<pubsub, conns, starting, listenTask, table, signal>>

LoopStep(l) == LoopTop(l) \/ LoopSubscribed(l) \/ LoopReads(l) \/ LoopCloses(l) \/ LoopBacksOff(l)

-----------------------------------------------------------------------------
(* What the rest of the process does with it                                 *)

\* register(): raises, and is swallowed, when there is no listen loop.
Register(t) == table' = IF listenTask = 0 THEN table ELSE table \cup {t}
Unregister(t) == table' = table \ {t}

\* PUBLISH signal_ch:<t>, to whoever is subscribed.
Publish(t) ==
  /\ signal' = [signal EXCEPT ![t] = "sent"]
  /\ conns' = [c \in DOMAIN conns |->
                IF conns[c].on THEN [conns[c] EXCEPT !.unread = @ \cup {t}] ELSE conns[c]]

\* The pools of the client are disconnected, the PubSub's connection with them.
Disconnects == conns' = [c \in DOMAIN conns |-> Closed]
=============================================================================
