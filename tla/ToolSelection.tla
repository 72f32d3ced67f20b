--------------------------- MODULE ToolSelection ---------------------------
(* SetupModel.build_tool_cache: what a setup selects in its ToolReferences,  *)
(* resolved against the registry and the modules it names. The references of *)
(* one level are resolved at the same time, and all the entries of each;     *)
(* those of nested models follow. resolved_tools is a field of the setup: it *)
(* is kept between builds, and stored with the setup.                        *)
EXTENDS FiniteSets, Naturals

CONSTANTS
  Refs,        \* the ToolReferences of the setup
  Nested,      \* those in nested models
  Rows,        \* Rows[r]: the rows a form sends, [setup, enabled]
  Known,       \* the setups the registry knows
  Catalogues,  \* what a module's input schema may hold: sets of protocols
  Utility,     \* the protocols every module answers
  MinTools, MaxTools,   \* limits of tool_reference_input, 0 for none
  MaxMoves     \* bound: resolutions that fail, modules that change, builds

ASSUME SelectionAssumption ==
  /\ Nested \subseteq Refs
  /\ MinTools \in Nat /\ MaxTools \in Nat /\ MaxMoves \in Nat

VARIABLES
  selected,    \* selected[r]: the entries of the reference, once validated
  advertised,  \* advertised[s]: the protocols of its module's input schema
  resolved,    \* resolved_tools: [setup -> the catalogue it was resolved to]
  build,       \* the build under way: its level, and whether it may ask a registry
  ref,         \* ref[r]: "idle", "asking" or "done" in this build
  answers,     \* what asking came to: [ref, setup, tools], no tools when it failed
  tools,       \* the tool cache being built
  seen,        \* seen[s]: the catalogues advertised since the build began
  moves        \* of those that MaxMoves bounds, so many

svars == <<selected, advertised, resolved, build, ref, answers, tools, seen, moves>>

Blank == "blank"                     \* a placeholder row: no setupId
Put(table, s, x) == [t \in DOMAIN table \cup {s} |-> IF t = s THEN x ELSE table[t]]
Moves == moves < MaxMoves /\ moves' = moves + 1

(* _drop_blank_selections comes before validate_tools_count, which refuses   *)
(* the whole input.                                                          *)
Kept(r) == {row \in Rows[r] : row.setup # Blank}
Allowed(r) ==
  /\ MinTools > 0 => Cardinality(Kept(r)) >= MinTools
  /\ MaxTools > 0 => Cardinality(Kept(r)) <= MaxTools

\* The SDK's own protocols are not tools.
ExtractTools(schema) == schema \ Utility

NoBuild == [at |-> "none", registry |-> FALSE]

(* A setup may come with the catalogues of an earlier build. *)
SelectionInit ==
  /\ selected = [r \in Refs |-> IF Allowed(r) THEN Kept(r) ELSE {}]
  /\ advertised \in [Known -> Catalogues]
  /\ \E C \in {ExtractTools(X) : X \in Catalogues} \ {{}} : resolved \in {<<>>, [s \in Known |-> C]}
  /\ build = NoBuild
  /\ ref = [r \in Refs |-> "idle"]
  /\ answers = {} /\ tools = <<>> /\ moves = 0
  /\ seen = [s \in Known |-> {}]

StartBuild(registry, table) ==
  /\ build.at \in {"none", "built"}
  /\ Moves
  /\ build' = [at |-> "top", registry |-> registry]
  /\ resolved' = table
  /\ ref' = [r \in Refs |-> "idle"]
  /\ answers' = {} /\ tools' = <<>>
  /\ seen' = [s \in Known |-> {ExtractTools(advertised[s])}]
  /\ UNCHANGED <<selected, advertised>>

LeftAsItIs(table) == table
Cleared(table) == <<>>               \* resolved_tools.clear()
BuildToolCache(registry) ==
  StartBuild(registry, IF registry THEN Cleared(resolved) ELSE resolved)

(* A config setup starts from empty even when there is no registry to ask. *)
ResolveTools(registry) == StartBuild(registry, <<>>)

Level == CASE build.at = "top" -> Refs \ Nested
           [] build.at = "nested" -> Nested
           [] OTHER -> {}
Setups(r) == {e.setup : e \in selected[r]}

\* The loop over selected_tools: what is resolved by now is added.
Added(r, table) ==
  [s \in DOMAIN tools \cup (Setups(r) \cap DOMAIN table) |->
     IF s \in Setups(r) \cap DOMAIN table THEN table[s] ELSE tools[s]]

(* A reference whose setups were all resolved by others asks nobody, and     *)
(* neither does one without a registry.                                      *)
HasUncached(r) == ~(Setups(r) \subseteq DOMAIN resolved)
Collect(r) ==
  /\ r \in Level /\ ref[r] = "idle"
  /\ IF HasUncached(r) /\ build.registry
     THEN ref' = [ref EXCEPT ![r] = "asking"] /\ UNCHANGED tools
     ELSE ref' = [ref EXCEPT ![r] = "done"] /\ tools' = Added(r, resolved)
  /\ UNCHANGED <<selected, advertised, resolved, build, answers, seen, moves>>

(* _resolve_single: the module's catalogue whole, or nothing when no trigger *)
(* of the entry is among those it advertises (none enabled: all are).        *)
Matching(e, C) == IF e.enabled = {} THEN C ELSE C \cap e.enabled
Offered(e, C) == IF Matching(e, C) = {} THEN {} ELSE C

(* One entry of a reference: a setup the registry does not know, a timeout   *)
(* and an error leave it unresolved and touch no other.                      *)
ResolveSingle(r, e) ==
  /\ ref[r] = "asking"
  /\ ~\E a \in answers : a.ref = r /\ a.entry = e
  /\ \/ /\ e.setup \in Known
        /\ answers' = answers \cup {[ref |-> r, entry |-> e, 
                                   tools |-> Offered(e, ExtractTools(advertised[e.setup]))]}
        /\ UNCHANGED moves
     \/ /\ IF e.setup \in Known THEN Moves ELSE UNCHANGED moves
        /\ answers' = answers \cup {[ref |-> r, entry |-> e, tools |-> {}]}
  /\ UNCHANGED <<selected, advertised, resolved, build, ref, tools, seen>>

(* The gather of resolve() returns, and resolved_tools is read again before  *)
(* anyone else runs. Of two entries for one setup the later wins.            *)
Answered(r) == {a \in answers : a.ref = r /\ a.tools # {}}
Resolved(r) ==
  /\ ref[r] = "asking"
  /\ \A e \in selected[r] : \E a \in answers : a.ref = r /\ a.entry = e
  /\ \E pick \in [{a.entry.setup : a \in Answered(r)} -> Answered(r)] :
       /\ \A s \in DOMAIN pick : pick[s].entry.setup = s
       /\ resolved' = [s \in DOMAIN resolved \cup DOMAIN pick |->
                         IF s \in DOMAIN pick THEN pick[s].tools ELSE resolved[s]]
  /\ tools' = Added(r, resolved')
  /\ ref' = [ref EXCEPT ![r] = "done"]
  /\ UNCHANGED <<selected, advertised, build, answers, seen, moves>>

Descend ==
  /\ build.at \in {"top", "nested"}
  /\ \A r \in Level : ref[r] = "done"
  /\ build' = [build EXCEPT !.at = IF @ = "top" THEN "nested" ELSE "built"]
  /\ UNCHANGED <<selected, advertised, resolved, ref, answers, tools, seen, moves>>

\* The module behind a setup is deployed with other triggers.
Redeploy(s) ==
  /\ Moves
  /\ \E C \in Catalogues \ {advertised[s]} :
       /\ advertised' = [advertised EXCEPT ![s] = C]
       /\ seen' = [seen EXCEPT ![s] = @ \cup {ExtractTools(C)}]
  /\ UNCHANGED <<selected, resolved, build, ref, answers, tools>>

SelectionNext ==
  \/ \E registry \in BOOLEAN : BuildToolCache(registry) \/ ResolveTools(registry)
  \/ \E r \in Refs : \/ Collect(r) \/ Resolved(r)
                     \/ \E e \in selected[r] : ResolveSingle(r, e)
  \/ Descend
  \/ \E s \in Known : Redeploy(s)

(* A build that had a registry to ask leaves in the cache exactly what some  *)
(* reference resolved in it: a catalogue advertised while it ran, whatever   *)
(* resolved_tools held before, and one that gives an agent something to      *)
(* call; and no entry that was resolved is lost to another's failure.        *)
BuiltAfresh ==
  build.at = "built" /\ build.registry =>
    /\ DOMAIN tools = {a.entry.setup : a \in UNION {Answered(r) : r \in Refs}}
    /\ \A s \in DOMAIN tools :
         /\ tools[s] \in seen[s]
         /\ \E e \in UNION {selected[r] : r \in Refs} :
              e.setup = s /\ Matching(e, tools[s]) # {}
=============================================================================
