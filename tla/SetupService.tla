--------------------------- MODULE SetupService ---------------------------
(* The two remote services a module asks about setups: the setup service,    *)
(* whose in-memory stand-in DefaultSetup keeps every version ever cut, and   *)
(* the registry, which resolves the module behind a setup and so its kind.   *)
(* The operators say what one call does to the tables; when it is called,    *)
(* and what the caller learns of it, is for the modules that extend this one.*)
EXTENDS SequencesExt

CONSTANTS
  Setups,      \* setup ids
  Modules,     \* module ids of the registry
  Kinds,       \* RegistryModuleType: tool, service, kin
  Backing,     \* [Setups -> Modules]: module_id of a setup
  KindOf,      \* [Modules -> Kinds]: module_type of a module
  Initially,   \* the setups there are at the start
  MaxVersion   \* bound: versions ever cut

ASSUME SetupsAssumption ==
  /\ Backing \in [Setups -> Modules]
  /\ KindOf \in [Modules -> Kinds]
  /\ "not_found" \notin Kinds
  /\ Initially \subseteq Setups
  /\ MaxVersion \in Nat \ {0}

VARIABLES
  setups,      \* setups[s]: NoSetup, or its versions, the current one, its visibility
  modules,     \* the modules the registry knows
  cut          \* versions cut so far; a version is named by its number

service == <<setups, modules, cut>>

NoSetup == [versions |-> <<>>, current |-> 0, visibility |-> "none"]
Deleted == [versions |-> <<>>, current |-> 0, visibility |-> "deleted"]
Exists(s) == setups[s].versions # <<>>
Scopes == {"public", "private"}      \* and "internal": one more scope to change to

ServiceInit ==
  /\ setups = [s \in Setups |->
                 IF s \in Initially
                 THEN [versions |-> <<1>>, current |-> 1, visibility |-> "private"]
                 ELSE NoSetup]
  /\ modules = Modules
  /\ cut = 1

(* update_setup cuts a version; without set_as_current it is only staged. *)
UpdateSetup(s, asCurrent) ==
  /\ cut < MaxVersion
  /\ cut' = cut + 1
  /\ setups' = [setups EXCEPT ![s].versions = Append(@, cut + 1),
                              ![s].current = IF asCurrent THEN cut + 1 ELSE @]

DeleteSetup(s) ==
  /\ setups' = [setups EXCEPT ![s] = Deleted]
  /\ UNCHANGED cut

ChangeVisibility(s, scope) ==
  /\ setups' = [setups EXCEPT ![s].visibility = scope]
  /\ UNCHANGED cut

(* A version of another setup is refused. *)
SetCurrentSetupVersion(s, v) ==
  /\ v \in ToSet(setups[s].versions)
  /\ setups' = [setups EXCEPT ![s].current = v]
  /\ UNCHANGED cut

(* A created setup is private until change_visibility; its id is new. *)
CreateSetup(s) ==
  /\ setups[s] = NoSetup
  /\ cut < MaxVersion
  /\ cut' = cut + 1
  /\ setups' = [setups EXCEPT ![s] =
                  [versions |-> <<cut + 1>>, current |-> cut + 1, visibility |-> "private"]]

(* discover_by_id answers the module or raises RegistryModuleNotFoundError. *)
DiscoverById(m) == IF m \in modules THEN KindOf[m] ELSE "not_found"

(* A module comes and goes; registering again gives it the type it had. *)
Register(m) == /\ modules' = modules \cup {m}
               /\ UNCHANGED <<setups, cut>>
Deregister(m) == /\ m \in modules
                 /\ modules' = modules \ {m}
                 /\ UNCHANGED <<setups, cut>>
=============================================================================
