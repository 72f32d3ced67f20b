-------------------------- MODULE TriggerDiscovery --------------------------
(* How a module comes by its trigger handlers: ModuleDiscoverer imports the  *)
(* trigger files of its packages, each registers its class as it is executed,*)
(* and a run instantiates all that are registered and dispatches its input   *)
(* to one of them. Every servicer that is created discovers again; the       *)
(* registry of classes and sys.modules are the process's.                    *)
EXTENDS SequencesExt, Ranking

CONSTANTS
  Files,       \* modules found in the packages, numbered as they are walked
  Builtin,     \* the handlers of the SDK itself, which are not discovered
  Passed,      \* the files whose path, pattern and name are accepted
  Package,     \* [Files -> packages]
  Protocol,    \* [Files \cup Builtin -> protocols]
  Format,      \* [Files \cup Builtin -> formats]: input_format of the handler
  IsA,         \* IsA[x]: the formats an input of format x is an instance of
  Runs,
  MaxDiscoveries   \* bound: servicers created

ASSUME DiscoveryAssumption ==
  /\ Files \cup Builtin \subseteq Nat /\ IsFiniteSet(Files \cup Builtin)
  /\ MaxDiscoveries \in Nat

VARIABLES
  imported,    \* the files in sys.modules
  registered,  \* _trigger_handlers_cls: classes in the order of registration
  results,     \* results[f]: what the last discovery says of the file
  discoveries, \* how many there were; a file executed again makes a new class
  run          \* run[r]: its handlers, and the one its input went to

tdvars == <<imported, registered, results, discoveries, run>>

Class(h, n) == [handler |-> h, copy |-> n]
NoHandler == Class(0, 0)
Inputs == DOMAIN IsA

DiscoveryInit ==
  /\ imported = {} /\ registered = <<>> /\ discoveries = 0
  /\ results = [f \in Files |-> FALSE]
  /\ run = [r \in Runs |-> [at |-> "idle", handlers |-> <<>>, input |-> 0, to |-> NoHandler]]

(* What executing a file comes to: an import error before or after its class *)
(* was registered, which stays registered then.                              *)
Outcomes == {"ok", "early", "late"}

\* _safe_import_module: a file that fails is not left in sys.modules ...
KeptOnFailure(S) == S
PoppedOnFailure(S) == {}

\* _discover_package leaves out a package that cannot be imported.
Found == SUBSET {Package[f] : f \in Files}
Wanted(found) == {f \in Files : Package[f] \in found /\ f \in Passed}

\* What register_trigger is called with, and by discover() for the built-ins.
RegisterTrigger(handlers, n) ==
  [i \in 1..Cardinality(handlers) |-> Class(Ranked(handlers)[i], n)]

(* A file that is in sys.modules is not executed again. *)
DiscoverModules ==
  /\ discoveries < MaxDiscoveries
  /\ discoveries' = discoveries + 1
  /\ \E found \in Found :
     \E outcome \in [Files -> Outcomes] :
       LET wanted == Wanted(found)
           executed == wanted \ imported
           failed == {f \in executed : outcome[f] # "ok"}
           fresh == {f \in executed : outcome[f] # "early"}
       IN /\ imported' = imported \cup (executed \ failed) \cup PoppedOnFailure(failed)
          /\ registered' = registered \o RegisterTrigger(fresh, discoveries + 1)
                                      \o RegisterTrigger(Builtin, 0)
          /\ results' = [f \in Files |-> f \in wanted \ failed]
  /\ UNCHANGED run

(* init_handlers: one instance of each class, in no particular order. A      *)
(* built-in was registered once for every discovery.                         *)
EachOnce == SetToSeqs(ToSet(registered))
InitHandlers(r) ==
  /\ run[r].at = "idle" /\ discoveries > 0
  /\ \E h \in EachOnce : run' = [run EXCEPT ![r].at = "prepared", ![r].handlers = h]
  /\ UNCHANGED <<imported, registered, results, discoveries>>

(* get_trigger: the first handler of the input's protocol whose format the   *)
(* input is an instance of.                                                  *)
Takes(class, x) == Format[class.handler] \in IsA[x].formats
Fits(class, x) == Protocol[class.handler] = IsA[x].protocol /\ Takes(class, x)
GetTrigger(r, x) ==
  LET fit == {i \in DOMAIN run[r].handlers : Fits(run[r].handlers[i], x)}
  IN /\ run[r].at = "prepared"
     /\ \/ /\ fit = {}
           /\ run' = [run EXCEPT ![r].at = "refused", ![r].input = x]
        \/ \E i \in fit :
             /\ \A j \in fit : i <= j
             /\ run' = [run EXCEPT ![r].at = "handled", ![r].input = x, ![r].to = run[r].handlers[i]]
     /\ UNCHANGED <<imported, registered, results, discoveries>>

\* The next input is another run's, with a context of its own.
RunEnds(r) ==
  /\ run[r].at \in {"handled", "refused"}
  /\ run' = [run EXCEPT ![r] = [at |-> "idle", handlers |-> <<>>, input |-> 0, to |-> NoHandler]]
  /\ UNCHANGED <<imported, registered, results, discoveries>>

DiscoveryNext ==
  \/ DiscoverModules
  \/ \E r \in Runs : \/ InitHandlers(r) \/ RunEnds(r)
                     \/ \E x \in Inputs : GetTrigger(r, x)

(* A file discovery reports has a class that inputs can go to, also when an  *)
(* earlier discovery failed on it; a run holds one instance of a class,      *)
(* however often it was registered; its input goes to a handler made for it, *)
(* and is refused only when no handler the run holds is.                     *)
HandlersAnswer ==
  /\ \A f \in Files : results[f] => \E i \in DOMAIN registered : registered[i].handler = f
  /\ \A r \in Runs :
       /\ IsInjective(run[r].handlers)
       /\ run[r].at = "handled" =>
            /\ Protocol[run[r].to.handler] = IsA[run[r].input].protocol
            /\ Format[run[r].to.handler] \in IsA[run[r].input].formats
       /\ run[r].at = "refused" =>
            \A i \in DOMAIN run[r].handlers :
              LET h == run[r].handlers[i].handler IN
              Protocol[h] # IsA[run[r].input].protocol \/ Format[h] \notin IsA[run[r].input].formats
=============================================================================
