---------------------------- MODULE GuardedQuery ----------------------------
(* GrpcClientWrapper.exec_grpc_query: the remote calls of one service behind *)
(* its circuit breaker, with retries, and with the lock that lets one probe  *)
(* through a half-open breaker.  A call keeps the breaker it was admitted    *)
(* by; when the last channel of the service is closed the breaker is         *)
(* removed, and the next call makes another.  A step is the code between two *)
(* awaits.                                                                   *)
EXTENDS Breaker, FiniteSets

CONSTANTS
  Calls,
  MaxRetries,   \* max_retries of the client settings
  MaxBreakers,  \* bound: breakers ever made for the service
  MaxCools      \* bound: times reset_timeout goes by

ASSUME QueryAssumption == MaxRetries \in Nat /\ MaxBreakers \in Nat /\ MaxCools \in Nat

VARIABLES
  current,   \* the breaker under the service's name, 0 if none
  breaker,   \* [1..MaxBreakers -> Breakers]
  locked,    \* _half_open_lock of each
  call,      \* where each call stands, its breaker, its attempt, whether it is a probe
  jostled,   \* breakers that a call other than the lock's owner resolved or freed
  cools

qvars == <<current, breaker, locked, call, jostled, cools>>

Generations == 1..MaxBreakers
InFlight(c) == call[c].at \in {"asking", "backing_off"}
Probes(g) == {c \in Calls : InFlight(c) /\ call[c].by = g /\ call[c].probe}

QueryInit ==
  /\ current = 0
  /\ breaker = [g \in Generations |-> FreshBreaker]
  /\ locked = [g \in Generations |-> FALSE]
  /\ call = [c \in Calls |-> [at |-> "idle", by |-> 0, attempt |-> 0, probe |-> FALSE]]
  /\ jostled = {}
  /\ cools = 0

\* get_or_create: breakers are made in turn.
Registered == IF current # 0 THEN current
              ELSE 1 + Cardinality({g \in Generations : \E c \in Calls : call[c].by >= g})

LockTaken(held, probe) == held \/ probe

(* check: reading the state turns a cooled breaker half-open and frees its lock. *)
Check(c) ==
  LET g == Registered
      b == StateRead(breaker[g])
      held == locked[g] /\ breaker[g].state # "cooled"
      probe == b.state = "half_open"
      refused == b.state = "open" \/ (probe /\ held)
  IN /\ call[c].at = "idle" /\ g \in Generations
     /\ current' = g
     /\ breaker' = [breaker EXCEPT ![g] = b]
     /\ locked' = [locked EXCEPT ![g] = LockTaken(held, probe)]
     /\ call' = [call EXCEPT ![c] = [at |-> IF refused THEN "refused" ELSE "asking", by |-> g,
                                     attempt |-> 0, probe |-> probe /\ ~refused]]
     /\ jostled' = IF Probes(g) = {} THEN jostled \ {g} ELSE jostled
     /\ UNCHANGED cools

-----------------------------------------------------------------------------
(* A call ends.  Its breaker records the outcome, or none if the call was    *)
(* cancelled, and what is left of a probe's lock is freed, whoever holds it. *)

KeepLock(g, b) == locked[g] /\ b.state = "half_open"
FreeLock(g, b) == FALSE
LockLeft(g, b) == FreeLock(g, b)

End(c, outcome, b) ==
  LET g == call[c].by IN
  /\ breaker' = [breaker EXCEPT ![g] = b]
  /\ locked' = [locked EXCEPT ![g] = LockLeft(g, b)]
  /\ call' = [call EXCEPT ![c].at = outcome, ![c].probe = FALSE]
  /\ jostled' = IF locked[g] /\ ~call[c].probe THEN jostled \cup {g} ELSE jostled
  /\ UNCHANGED <<current, cools>>

\* An answer, or an error of the application: the service responded.
Responds(c) ==
  /\ call[c].at = "asking"
  /\ \E outcome \in {"returned", "failed"} : End(c, outcome, RecordSuccess(breaker[call[c].by]))

(* A retryable error while attempts are left. *)
BacksOff(c) ==
  /\ call[c].at = "asking" /\ call[c].attempt < MaxRetries
  /\ call' = [call EXCEPT ![c].at = "backing_off"]
  /\ UNCHANGED <<current, breaker, locked, jostled, cools>>

Retries(c) ==
  /\ call[c].at = "backing_off"
  /\ call' = [call EXCEPT ![c].at = "asking", ![c].attempt = @ + 1]
  /\ UNCHANGED <<current, breaker, locked, jostled, cools>>

\* A failure of the service: UNKNOWN or RESOURCE_EXHAUSTED at once, a
\* retryable code after the last attempt.
Fails(c) ==
  /\ call[c].at = "asking"
  /\ End(c, "failed", RecordFailure(breaker[call[c].by]))

Cancelled(c) ==
  /\ InFlight(c)
  /\ End(c, "cancelled", breaker[call[c].by])

-----------------------------------------------------------------------------
(* reset_timeout goes by. *)
Cools(g) ==
  /\ breaker[g].state = "open" /\ cools < MaxCools
  /\ breaker' = [breaker EXCEPT ![g] = CoolDown(@)]
  /\ cools' = cools + 1
  /\ UNCHANGED <<current, locked, call, jostled>>

(* The last channel of the service is closed: its breaker is removed.        *)
Removed ==
  /\ current # 0
  /\ current' = 0
  /\ UNCHANGED <<breaker, locked, call, jostled, cools>>

QueryNext ==
  \/ \E c \in Calls : \/ Check(c) \/ Responds(c) \/ BacksOff(c) \/ Retries(c)
                      \/ Fails(c) \/ Cancelled(c)
  \/ \E g \in Generations : Cools(g)
  \/ Removed

-----------------------------------------------------------------------------
(* The lock of a half-open breaker cannot wedge: while it is taken a probe   *)
(* is under way whose end will free it.                                      *)
LockHeldByProbe ==
  \A g \in Generations : locked[g] => breaker[g].state = "half_open" /\ Probes(g) # {}

(* "one probe call allowed": a half-open breaker has one probe under way,    *)
(* unless a call that was admitted before it opened ended in between and     *)
(* freed the lock of a probe that is not its own.                            *)
OneProbe ==
  \A g \in Generations : breaker[g].state = "half_open" =>
    Cardinality(Probes(g)) <= 1 \/ g \in jostled

(* The lock of the probe does what it is for: it admits one probe, and never *)
(* outlives it.                                                              *)
ProbesAreLocked == LockHeldByProbe /\ OneProbe
=============================================================================
