----------------------------- MODULE MCServices -----------------------------
(* What a process keeps for the services of its modules, each side on a      *)
(* small instance: the channels they share, the guarded calls of one of      *)
(* them, the file history over the storage service, and what the local       *)
(* services and the cost service hold.                                       *)
EXTENDS ChannelPool, GuardedQuery, FileHistory, LocalStore, LocalFiles, CostLedger, TLC

CONSTANTS
  a1, a2, d1, d2, c1, addr1, addr2,
  p1, p2, p3, v1, v2, t1, s1, s2, h1, r1, f0, f1, f2, f3, odd,
  u1, u2, n1, n2, e1, e2, e3
VARIABLE side

KeyOfTaker == [c \in Takers |-> IF c \in {a1, a2} THEN addr2 ELSE addr1]
KindOfTaker == (a1 :> "service") @@ (a2 :> "service") @@ (d1 :> "dial") @@ (d2 :> "dial") @@ (c1 :> "call")
OneHandler == [c \in {p1, p2, p3, t1} |-> h1]
OneRunner == [h \in {h1} |-> t1]
OneHistory == [h \in {h1} |-> r1]
FilePerWriter == (p1 :> f1) @@ (p2 :> f2) @@ (p3 :> f3)
Payloads == {<<f0>>}
VisitorApart == [c \in Clients |-> IF c = v2 THEN s2 ELSE s1]
OneCollection == [r \in {r1} |-> "file_history"]
TwoLabels == [c \in {e1, e2, e3} |-> IF c = e3 THEN "output" ELSE "input"]
TwoRates == [c \in {e1, e2, e3} |-> IF c = e2 THEN "call" ELSE "token"]

\* A side that is not checked stands still at one of its initial states.
AtRest ==
  /\ side # "history" => stored = [r \in Records |-> Absent]
  /\ side # "store" => fits = [s \in Stores |-> [g \in Groups |-> "m"]]
  /\ side # "costs" => ~distant /\ ~limited /\ rates = Rates

Init ==
  /\ side \in {"channels", "queries", "history", "store", "files", "costs"}
  /\ PoolInit /\ QueryInit /\ HistoryInit /\ StoreInit /\ FilesInit /\ CostInit
  /\ AtRest

Next ==
  \/ side = "channels" /\ PoolNext /\ UNCHANGED <<side, qvars, fhvars, stvars, flvars, covars>>
  \/ side = "queries" /\ QueryNext /\ UNCHANGED <<side, pvars, fhvars, stvars, flvars, covars>>
  \/ side = "history" /\ HistoryNext /\ UNCHANGED <<side, pvars, qvars, stvars, flvars, covars>>
  \/ side = "store" /\ StoreNext /\ UNCHANGED <<side, pvars, qvars, fhvars, flvars, covars>>
  \/ side = "files" /\ FilesNext /\ UNCHANGED <<side, pvars, qvars, fhvars, stvars, covars>>
  \/ side = "costs" /\ CostNext /\ UNCHANGED <<side, pvars, qvars, fhvars, stvars, flvars>>

(* What is kept for a caller is what the caller was told: records, files and *)
(* costs, each with the exceptions its property names.                       *)
KeptAsTold == OutlivesItsRun /\ ServedAsRecorded /\ ChargedAsAdded

Spec == Init /\ [][Next]_<<side, pvars, qvars, fhvars, stvars, flvars, covars>>
=============================================================================
