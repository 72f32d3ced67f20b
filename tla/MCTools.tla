------------------------------ MODULE MCTools ------------------------------
(* What a module is given and what its agent uses, each side on a small      *)
(* instance: its triggers and the schemas it shows, the tools its setup      *)
(* selects, those it loads over the turns of two missions, the runs that     *)
(* pause on the client's tools, the catalogue an agent pages through, and its*)
(* calls of a tool module.                                                   *)
EXTENDS ToolLoading, PausedRuns, ToolSelection, SetupSchema, TriggerDiscovery, CatalogSearch,
        ToolCall, TLC

CONSTANTS t1, t2, t3, a1, a2, b1, p1, p2, p3, r1, r2, r3, s1, s2, q1, q2, m1
VARIABLE side

MCMissionOf == [t \in Turns |-> IF t = t3 THEN "m2" ELSE "m1"]
MCModuleOf == [s \in Tools |-> IF s = b1 THEN "B" ELSE "A"]

\* Two references to s1 with other triggers, a nested one, a blank row, a setup that is gone.
Entry(s, enabled) == [setup |-> s, enabled |-> enabled]
FormRows ==
  (r1 :> {Entry(s1, {"x"}), Entry(Blank, {})})
  @@ (r2 :> {Entry(s1, {"y"}), Entry(s2, {})})
  @@ (r3 :> {Entry(s2, {"x"}), Entry("gone", {})})
InputSchemas == {{"help"}, {"x", "help"}, {"x", "y"}}

\* A dynamic config field, two fields with dynamic models, and resolved_tools.
FieldFetchers == <<{"a"}, {}, {}, {}>>
FieldShapes == <<"plain", "union", "container of union", "plain">>
FieldModels == <<{}, {{"b"}, {"c"}}, {{"d"}, {}}, {}>>

\* Two handlers of one protocol, one for a subclass; a file that is refused; a built-in.
FilePackages == <<"a", "a", "b">>
FileProtocols == <<"message", "message", "file", "ping">>
FileFormats == <<"base", "sub", "file", "ping">>
InputFormats ==
  <<[protocol |-> "message", formats |-> {"base"}],
    [protocol |-> "message", formats |-> {"base", "sub"}],
    [protocol |-> "ping", formats |-> {"ping"}]>>

Init ==
  /\ side \in {"loads", "pauses", "selection", "schemas", "triggers", "search", "calls"}
  \* A side that is not checked stands still at one of its initial states.
  /\ SearchInit
  /\ side # "search" =>
       /\ listed = <<>> /\ listing = [s \in Listings |-> "draft"]
       /\ query = [cap |-> 1, byName |-> FALSE, grpc |-> FALSE, drift |-> FALSE]
  /\ ToolsInit
  /\ side # "loads" => declared = {}
  /\ SelectionInit
  /\ side # "selection" => resolved = <<>> /\ \A s \in Known : advertised[s] = {"help"}
  /\ HitlInit /\ SchemaInit /\ DiscoveryInit /\ CallsInit

Next ==
  \/ side = "loads" /\ ToolsNext /\ UNCHANGED <<side, hvars, svars, mvars, tdvars, qvars, cvars>>
  \/ side = "pauses" /\ HitlNext /\ UNCHANGED <<side, tvars, svars, mvars, tdvars, qvars, cvars>>
  \/ side = "selection" /\ SelectionNext /\ UNCHANGED <<side, tvars, hvars, mvars, tdvars, qvars, cvars>>
  \/ side = "schemas" /\ SchemaNext /\ UNCHANGED <<side, tvars, hvars, svars, tdvars, qvars, cvars>>
  \/ side = "triggers" /\ DiscoveryNext /\ UNCHANGED <<side, tvars, hvars, svars, mvars, qvars, cvars>>
  \/ side = "search" /\ SearchNext /\ UNCHANGED <<side, tvars, hvars, svars, mvars, tdvars, cvars>>
  \/ side = "calls" /\ ToolCallNext /\ UNCHANGED <<side, tvars, hvars, svars, mvars, tdvars, qvars>>

Spec == Init /\ [][Next]_<<side, tvars, hvars, svars, mvars, tdvars, qvars, cvars>>
=============================================================================
