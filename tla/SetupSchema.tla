---------------------------- MODULE SetupSchema ----------------------------
(* The models SetupModel.get_clean_model derives from a module's setup       *)
(* class: filtered by who they are for, and for a schema request refreshed,  *)
(* field after field, from the fetchers of its dynamic fields, those of      *)
(* nested models included. Models that were not refreshed are cached.        *)
EXTENDS SequencesExt

CONSTANTS
  NumFields,   \* the fields of the setup class, numbered in order
  Config, Hidden,  \* those marked "config", those with a hidden widget
  Inherited,   \* those of SetupModel itself, which every derived model inherits
  Own,         \* Own[f]: the fetchers of the field's DynamicField
  Shape,       \* Shape[f]: the form of its annotation
  Inner,      \* Inner[f]: the fetchers in each of the models in the annotation
  Requests,    \* schema requests
  CleanMax,    \* _CLEAN_MODEL_CACHE_MAX
  MaxShifts     \* bound: fetchers that fail, values that change, invalidations

Fields == 1..NumFields
Shapes == {"plain", "model", "optional", "container", "union", "container of union"}
Keys == (UNION {Own[f] : f \in Fields}) \cup (UNION {UNION Inner[f] : f \in Fields})
Static == 0                          \* what json_schema_extra declares

ASSUME SchemaAssumption ==
  /\ NumFields \in Nat /\ CleanMax \in Nat \ {0} /\ MaxShifts \in Nat
  /\ Config \cup Hidden \cup Inherited \subseteq Fields
  /\ Shape \in [Fields -> Shapes]
  \* A key is a fetcher at its place: a model two fields share has keys in each.
  /\ \A f, g \in Fields :
       (Own[f] \cup UNION Inner[f]) \cap (Own[g] \cup UNION Inner[g]) # {} => f = g
  \* A plain annotation has no model.
  /\ \A f \in Fields : Shape[f] = "plain" => Inner[f] = {}

VARIABLES
  provider,    \* provider[k]: what a fetcher would answer now
  ownField,    \* ownField[k]: the class's own field, and whether it is dynamic
  clean,       \* _clean_model_cache, oldest first: [for, model]
  request,     \* request[r]: one GetModuleSetup or GetConfigSetupModule
  shifts

mvars == <<provider, ownField, clean, request, shifts>>

Shifts == shifts < MaxShifts /\ shifts' = shifts + 1

\* Whom a model is for: config setup schemas, setup schemas, models of stored data.
Filter(config, hidden) == [config |-> config, hidden |-> hidden]
SchemaFilters == {Filter(TRUE, FALSE), Filter(FALSE, TRUE)}
DataFilters == {Filter(TRUE, TRUE), Filter(FALSE, TRUE)}

Excluded(x) == {f \in Fields : (f \in Config /\ ~x.config) \/ (f \in Hidden /\ ~x.hidden)}
RemoveExcluded(x) == Excluded(x)
FieldsOf(x) == ((Fields \ Excluded(x)) \cup Inherited) \ RemoveExcluded(x)

KeysOf(f) == Own[f] \cup UNION Inner[f]
Model(x, value) ==
  [f \in FieldsOf(x) |-> [k \in KeysOf(f) |-> value[k]]]
AsDeclared == [k \in Keys |-> ownField[k].value]

SchemaInit ==
  /\ provider = [k \in Keys |-> 1]
  /\ ownField = [k \in Keys |-> [value |-> Static, dynamic |-> TRUE]]
  /\ clean = <<>>
  /\ request = [r \in Requests |-> [at |-> "idle"]]
  /\ shifts = 0

(* Without force nothing is awaited: the cached model, or a new one, the     *)
(* oldest making room for it.                                                *)
Remember(x, model) ==
  LET room == IF Len(clean) >= CleanMax THEN Tail(clean) ELSE clean IN
  clean' = Append(room, [for |-> x, model |-> model])
GetCleanModel(x) ==
  /\ \A i \in DOMAIN clean : clean[i].for # x
  /\ Remember(x, Model(x, AsDeclared))
  /\ UNCHANGED <<provider, ownField, request, shifts>>

ClearCleanModelCache ==
  /\ clean # <<>> /\ Shifts
  /\ clean' = <<>>
  /\ UNCHANGED <<provider, ownField, request>>

(* _refresh_annotation finds the model in an annotation that is one, may be  *)
(* none, or is a container of one, and every variant of a union of several,  *)
(* but not in a container of a union.                                        *)
RefreshAnnotation(f) == IF Shape[f] \in {"plain", "container of union"} THEN {} ELSE UNION Inner[f]
Refreshable(f) == {k \in Own[f] \cup RefreshAnnotation(f) : ownField[k].dynamic}

ForceCleanModel(r, x) ==
  /\ request[r].at = "idle"
  /\ request' = [request EXCEPT ![r] =
                   [at |-> "refreshing", for |-> x, next |-> 1, got |-> AsDeclared,
                    asked |-> {}, seen |-> [k \in Keys |-> {provider[k]}], failed |-> {}]]
  /\ UNCHANGED <<provider, ownField, clean, shifts>>

(* resolve_safe: the fetchers of a field answer in any order, each for       *)
(* itself; a value that could not be had stays as declared.                *)
AlsoOnClass(k, v) == ownField' = [ownField EXCEPT ![k] = [value |-> v, dynamic |-> FALSE]]
OnCopy(k, v) == UNCHANGED ownField
ResolveOne(r, k) ==
  /\ request[r].at = "refreshing"
  /\ request[r].next \in Fields \ Excluded(request[r].for)
  /\ k \in Refreshable(request[r].next) \ request[r].asked
  /\ \/ /\ request' = [request EXCEPT ![r].got[k] = provider[k], ![r].asked = @ \cup {k}]
        /\ OnCopy(k, provider[k])
        /\ UNCHANGED shifts
     \/ /\ Shifts
        /\ request' = [request EXCEPT ![r].asked = @ \cup {k}, ![r].failed = @ \cup {k}]
        /\ UNCHANGED ownField
  /\ UNCHANGED <<provider, clean>>

NextField(r) ==
  /\ request[r].at = "refreshing"
  /\ request[r].next \in Fields
  /\ request[r].next \in Excluded(request[r].for)
     \/ Refreshable(request[r].next) \subseteq request[r].asked
  /\ request' = [request EXCEPT ![r].next = @ + 1, ![r].asked = {}]
  /\ UNCHANGED <<provider, ownField, clean, shifts>>

(* A refreshed model is answered and never cached. *)
NotCached(r) == UNCHANGED clean
Answer(r) ==
  /\ request[r].at = "refreshing" /\ request[r].next = NumFields + 1
  /\ request' = [request EXCEPT ![r].at = "answered",
                                ![r].got = Model(request[r].for, @)]
  /\ NotCached(r)
  /\ UNCHANGED <<provider, ownField, shifts>>

\* What a fetcher would answer changes.
ProviderShifts(k) ==
  /\ Shifts
  /\ provider' = [provider EXCEPT ![k] = @ + 1]
  /\ request' = [r \in Requests |-> IF request[r].at = "refreshing"
                   THEN [request[r] EXCEPT !.seen[k] = @ \cup {provider'[k]}] ELSE request[r]]
  /\ UNCHANGED <<ownField, clean>>

SchemaNext ==
  \/ \E x \in DataFilters : GetCleanModel(x)
  \/ ClearCleanModelCache
  \/ \E r \in Requests : \/ \E x \in SchemaFilters : ForceCleanModel(r, x)
                         \/ \E k \in Keys : ResolveOne(r, k)
                         \/ NextField(r) \/ Answer(r)
  \/ \E k \in Keys : ProviderShifts(k)

(* A schema shows the fields it is for and no others; of every fetcher that  *)
(* did not fail it shows a value the fetcher had while the request was       *)
(* served, however often the schema was asked for before. The models data is *)
(* read with show what the class declares, whatever schemas were refreshed.  *)
Reachable(f) == IF Shape[f] = "container of union" THEN Own[f] ELSE KeysOf(f)
SchemasAreTrue ==
  /\ \A r \in Requests : request[r].at = "answered" =>
       /\ DOMAIN request[r].got = Fields \ Excluded(request[r].for)
       /\ \A f \in DOMAIN request[r].got : \A k \in Reachable(f) :
            request[r].got[f][k] \in IF k \in request[r].failed THEN {Static}
                                     ELSE request[r].seen[k]
  /\ \A i \in DOMAIN clean :
       /\ DOMAIN clean[i].model = Fields \ Excluded(clean[i].for)
       /\ \A f \in DOMAIN clean[i].model : \A k \in KeysOf(f) : clean[i].model[f][k] = Static
=============================================================================
