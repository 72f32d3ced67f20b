------------------------------ MODULE Breaker ------------------------------
(* grpc_servers/utils/circuit_breaker.py: a circuit breaker as a value and   *)
(* its methods as operators on that value.  The clock is in the value: an    *)
(* OPEN breaker is "open" until reset_timeout has gone by since its last     *)
(* failure and "cooled" from then on.  The failure counter is only compared  *)
(* with fail_max, so it saturates there.  The lock of the half-open probe is *)
(* left out: only check() takes it and call_module never calls check().      *)
EXTENDS Naturals

CONSTANT FailMax   \* fail_max

\* CircuitBreaker.__init__ raises ValueError otherwise.
ASSUME FailMaxAssumption == FailMax \in Nat \ {0}

Breakers == [state : {"closed", "open", "cooled", "half_open"}, fails : 0..FailMax]

FreshBreaker == [state |-> "closed", fails |-> 0]

\* The value after its `state` property has been read.
StateRead(b) == IF b.state = "cooled" THEN [b EXCEPT !.state = "half_open"] ELSE b

RecordSuccess(b) == FreshBreaker

RecordFailure(b) ==
  LET n == IF b.fails < FailMax THEN b.fails + 1 ELSE FailMax
  IN  [state |-> IF b.state = "half_open" \/ n = FailMax THEN "open" ELSE b.state, fails |-> n]

\* reset_timeout has gone by.
CoolDown(b) == [b EXCEPT !.state = "cooled"]
=============================================================================
