----------------------------- MODULE CostLedger -----------------------------
(* The costs of one run of a module, over DefaultCost or GrpcCost: handlers  *)
(* add them through CostMixin, which logs whatever fails. The cost service   *)
(* is asked by exec_grpc_query, which repeats a call that failed for the     *)
(* moment: whether the service had done it already or not.                   *)
EXTENDS Naturals

CONSTANTS
  Costs,        \* calls of add_cost
  Labels,       \* names of costs
  LabelOf,      \* the name each call gives
  Rates,        \* names of cost configs
  RateOf,       \* the cost config each call names
  MaxRepeats,   \* max_retries of the query settings
  MaxBreaks     \* bound: calls of the service that fail

ASSUME CostAssumption ==
  /\ LabelOf \in [Costs -> Labels] /\ RateOf \in [Costs -> Rates]
  /\ MaxRepeats \in Nat /\ MaxBreaks \in Nat

VARIABLES
  distant,   \* GrpcCost, or DefaultCost
  limited,   \* the request carries cost_limits
  charging,  \* the run: "arrived", "runs" or "failed"
  rates,     \* CostStrategy.config
  entry,     \* where each call stands
  repeats,   \* its attempts that failed
  charges,   \* how often each call is on the ledger
  unheard,   \* ghost: attempts that were charged and whose answer was lost
  breaks

covars == <<distant, limited, charging, rates, entry, repeats, charges, unheard, breaks>>

CostInit ==
  /\ distant \in BOOLEAN /\ limited \in BOOLEAN
  /\ charging = "arrived"
  /\ rates \in SUBSET Rates
  /\ entry = [c \in Costs |-> "idle"]
  /\ repeats = [c \in Costs |-> 0] /\ charges = [c \in Costs |-> 0] /\ unheard = [c \in Costs |-> 0]
  /\ breaks = 0

\* The limits come out of model_dump() as dicts, and set_limits reads limit.name
\* of each.
TakesLimits == ~limited

RunBegins ==
  /\ charging = "arrived"
  /\ charging' = IF TakesLimits THEN "runs" ELSE "failed"
  /\ UNCHANGED <<distant, limited, rates, entry, repeats, charges, unheard, breaks>>

Settles(c, how) == entry' = [entry EXCEPT ![c] = how]
Charge(c) == charges' = [charges EXCEPT ![c] = @ + 1]

\* Mutant: a second cost of a name is taken.
LabelTaken(c) == \E d \in Costs : charges[d] > 0 /\ LabelOf[d] = LabelOf[c]

\* Without its config, or with a name that DefaultCost holds: logged, and the
\* handler goes on.
AddCost(c) ==
  /\ charging = "runs" /\ entry[c] = "idle"
  /\ IF RateOf[c] \notin rates \/ (~distant /\ LabelTaken(c))
     THEN Settles(c, "logged") /\ UNCHANGED charges
     ELSE IF distant THEN Settles(c, "asking") /\ UNCHANGED charges
     ELSE Settles(c, "charged") /\ Charge(c)
  /\ UNCHANGED <<distant, limited, charging, rates, repeats, unheard, breaks>>

Charged(c) ==
  /\ entry[c] = "asking"
  /\ Charge(c) /\ Settles(c, "charged")
  /\ UNCHANGED <<distant, limited, charging, rates, repeats, unheard, breaks>>

\* UNAVAILABLE, INTERNAL and DEADLINE_EXCEEDED are asked again, another code
\* is not.
AttemptFails(c, transient) ==
  /\ breaks < MaxBreaks /\ breaks' = breaks + 1
  /\ repeats' = [repeats EXCEPT ![c] = @ + 1]
  /\ Settles(c, IF transient /\ repeats[c] < MaxRepeats THEN "asking" ELSE "logged")

Uncharged(c, transient) ==
  /\ entry[c] = "asking"
  /\ AttemptFails(c, transient)
  /\ UNCHANGED <<distant, limited, charging, rates, charges, unheard>>

ChargedUnheard(c) ==
  /\ entry[c] = "asking"
  /\ AttemptFails(c, TRUE)
  /\ Charge(c) /\ unheard' = [unheard EXCEPT ![c] = @ + 1]
  /\ UNCHANGED <<distant, limited, charging, rates>>

\* DefaultCost replaces its configs, GrpcCost only those of the service.
SetCostConfig(R) ==
  /\ charging = "runs" /\ rates # R
  /\ rates' = IF distant THEN rates ELSE R
  /\ UNCHANGED <<distant, limited, charging, entry, repeats, charges, unheard, breaks>>

CostNext ==
  \/ RunBegins
  \/ \E c \in Costs : AddCost(c) \/ Charged(c) \/ ChargedUnheard(c) \/ \E t \in BOOLEAN : Uncharged(c, t)
  \/ \E R \in SUBSET Rates : SetCostConfig(R)

-----------------------------------------------------------------------------
(* A run is charged what its handlers added: a cost that was acknowledged is *)
(* on the ledger, one that was logged as failed is not, and none is there    *)
(* twice, but for as often as an answer was lost on the way; and a local     *)
(* ledger has one cost of a name.                                            *)
ChargedAsAdded ==
  \A c \in Costs :
    /\ charges[c] = unheard[c] + (IF entry[c] = "charged" THEN 1 ELSE 0)
    /\ ~distant => \A d \in Costs \ {c} :
         charges[c] > 0 /\ charges[d] > 0 => LabelOf[c] # LabelOf[d]

(* utility_schema_extender.py adds the "cost_limits field for cost control"  *)
(* to every input: then a run that is given limits runs under them.          *)
LimitedRunsRun == limited => charging # "failed"
=============================================================================
