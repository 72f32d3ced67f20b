------------------------ MODULE SetupCaches_proofs ------------------------
(* What is proved of the setup and tool caches of a process: for any number  *)
(* of processes, runs, setups and calls, the caches serve what is current    *)
(* and ask for it once (CachesInOrder), and a manager changes setups of its  *)
(* own kind only (NoForeignWrite).                                           *)
(*                                                                           *)
(* CachesInv says where a version that a process knows to be superseded can  *)
(* still be: in an entry that an overtaken flight stored and marked late, in *)
(* the hands of a run that was overtaken itself, or in a future such a run   *)
(* resolved. Of a setup in the flights that can still be joined it is        *)
(* nowhere, for what ends a version in a process ends its flights there.     *)
EXTENDS SetupCaches, SequenceTheorems, FiniteSetTheorems, TLAPS

ToldKinds == {"setup", "config", "tools"}
RunStates == {"idle", "access", "fetching", "waiting", "model", "building", "waitingTools",
              "done", "failed", "cancelled"}
UnderWay(r) == run[r].at \notin {"idle", "done", "failed", "cancelled"}
RunRecords == [at : RunStates, proc : Procs, setup : Setups \cup {Idle.setup}, on : Nat, got : Nat,
               val : Nat, via : {"none", "cache", "own", "future"}, vlate : BOOLEAN, tools : Nat, tlate : BOOLEAN,
               late : BOOLEAN, bad : [ToldKinds -> SUBSET Nat]]
SetupRecords(n) == [versions : Seq(1..n), current : 0..n, visibility : Scopes \cup {"none", "deleted"}]
Entries == [val : Nat, late : BOOLEAN, old : BOOLEAN]
Futures == [is : {"none", "pending", "done", "failed", "cancelled"}, val : Nat, late : BOOLEAN]
Nested(f) == f = [k \in CacheKinds |-> [p \in Procs |-> f[k][p]]]

CallRecords ==
  [at : {"idle", "gate", "kind", "write", "reread", "reply", "failed", "done"}, proc : Procs,
   as : Kinds \cup {NoCall.as}, action : ServiceActions \cup {"none"}, setup : Setups \cup {Idle.setup},
   orphan : BOOLEAN, superseded : SUBSET Nat]
ConfigRecords == [at : {"idle", "running", "returned"}, proc : Procs, setup : Setups \cup {Idle.setup}, val : Nat]

ServiceTyped ==
  /\ cut \in Nat
  /\ setups \in [Setups -> SetupRecords(cut)]
  /\ call \in [Calls -> CallRecords]
  /\ \A c \in Calls : /\ call[c].at # "idle" => call[c].setup \in Setups
                     /\ call[c].superseded \subseteq 1..cut
  /\ config \in ConfigRecords /\ config.val <= cut
  /\ config.at # "idle" => config.setup \in Setups
  /\ config.at = "returned" => config.val # 0
  /\ wire \subseteq [of : CacheKinds, proc : Procs, setup : Setups]

RunsTyped ==
  /\ run \in [Runs -> RunRecords]
  /\ \A r \in Runs : UnderWay(r) => run[r].setup \in Setups
  /\ \A r \in Runs : run[r].at = "access" => run[r].got = 0

TablesTyped ==
  /\ Nested(cache) /\ Nested(inflight)
  /\ fut \in [CacheKinds -> [Runs -> Futures]]
  /\ \A k \in CacheKinds, p \in Procs : \A s \in DOMAIN cache[k][p] : cache[k][p][s] \in Entries

ToldTyped ==
  /\ told \in [ToldKinds -> [Procs -> [Setups -> SUBSET (1..cut)]]]
  /\ \A p \in Procs, s \in Setups : told["tools"][p][s] = told["config"][p][s]

(* Nothing current is known to be superseded; but for a setup configured     *)
(* anew, until the caller has stored what it was given.                      *)
CurrentKnown ==
  \A p \in Procs, s \in Setups :
    /\ setups[s].current \notin told["setup"][p][s]
    /\ setups[s].current \in told["config"][p][s] => config.at = "returned" /\ config.setup = s

(* What a process knows to be superseded is in its caches only where a       *)
(* flight that was overtaken has put it.                                     *)
EntriesMarked ==
  \A p \in Procs :
    /\ \A s \in DOMAIN cache["setup"][p] \cap Setups :
         cache["setup"][p][s].val \in told["setup"][p][s] \cup told["config"][p][s] => cache["setup"][p][s].late
    /\ \A s \in DOMAIN cache["tools"][p] \cap Setups :
         cache["tools"][p][s].val \in told["tools"][p][s] => cache["tools"][p][s].late

(* A run holds what its process knows to be superseded only if it was        *)
(* overtaken; what was known when it started is known.                       *)
RunMarked(r) ==
  UnderWay(r) =>
    /\ run[r].got \in told["setup"][run[r].proc][run[r].setup] \cup told["config"][run[r].proc][run[r].setup]
       => run[r].late
    /\ run[r].val \in told["config"][run[r].proc][run[r].setup] => run[r].late
    /\ \A k \in ToldKinds : run[r].bad[k] \subseteq told[k][run[r].proc][run[r].setup]
    /\ run[r].got \notin run[r].bad["setup"]

ServedMarked(r) ==
  /\ run[r].val \in run[r].bad["setup"] => run[r].vlate /\ run[r].via = "cache"
  /\ run[r].val \in run[r].bad["config"] => run[r].vlate
  /\ run[r].tools \in run[r].bad["tools"] => run[r].tlate

(* A flight that can be joined is one of a run under way, for that setup in  *)
(* that process; and no setup it has is one known to be superseded.          *)
LeadOf(k) == IF k = "setup" THEN "fetching" ELSE "building"
FlightTrue(k, p, s, q) ==
  /\ q \in Runs /\ run[q].at = LeadOf(k) /\ run[q].proc = p /\ run[q].setup = s
  /\ k = "setup" => run[q].got \notin told["setup"][p][s]
Flights ==
  \A k \in CacheKinds, p \in Procs : \A s \in DOMAIN inflight[k][p] : FlightTrue(k, p, s, inflight[k][p][s])

(* Who builds the tools of a setup leads their flight.                       *)
Leads(r) ==
  run[r].at = "building" => /\ run[r].setup \in DOMAIN inflight["tools"][run[r].proc]
                            /\ inflight["tools"][run[r].proc][run[r].setup] = r

FuturesOpen(r) == \A k \in CacheKinds : run[r].at = LeadOf(k) => fut[k][r].is # "done"

(* Who waits for a flight waits for one of its setup in its process, and     *)
(* what it is handed is not what was superseded when it started.             *)
WaitsWell(r) ==
  run[r].at = "waiting" =>
    /\ run[r].on \in Runs /\ run[run[r].on].at \notin {"idle", "access"}
    /\ run[run[r].on].at = "fetching" =>
         /\ run[run[r].on].proc = run[r].proc /\ run[run[r].on].setup = run[r].setup
         /\ run[run[r].on].got \notin run[r].bad["setup"]
    /\ fut["setup"][run[r].on].is = "done" =>
         /\ fut["setup"][run[r].on].val \notin run[r].bad["setup"]
         /\ fut["setup"][run[r].on].val \in run[r].bad["config"] => fut["setup"][run[r].on].late
         /\ fut["setup"][run[r].on].val \in told["config"][run[r].proc][run[r].setup]
            => fut["setup"][run[r].on].late \/ run[r].late

WaitsWellForTools(r) ==
  run[r].at = "waitingTools" =>
    /\ run[r].on \in Runs /\ run[run[r].on].at \in {"building", "done", "failed", "cancelled"}
    /\ run[run[r].on].at = "building" =>
         run[run[r].on].proc = run[r].proc /\ run[run[r].on].setup = run[r].setup
    /\ fut["tools"][run[r].on].is = "done" =>
         (fut["tools"][run[r].on].val \in run[r].bad["tools"] => fut["tools"][run[r].on].late)

RunTrue(r) ==
  /\ RunMarked(r) /\ ServedMarked(r) /\ Leads(r) /\ FuturesOpen(r)
  /\ WaitsWell(r) /\ WaitsWellForTools(r)

CachesInv ==
  /\ ServiceTyped /\ RunsTyped /\ TablesTyped /\ ToldTyped
  /\ CurrentKnown /\ EntriesMarked /\ Flights
  /\ \A r \in Runs : RunTrue(r)

GateInv ==
  \A c \in Calls :
    call[c].at = "write" /\ call[c].action # "create"
    => KindOf[Backing[call[c].setup]] = call[c].as \/ (call[c].action = "delete" /\ call[c].orphan)

-----------------------------------------------------------------------------
(* The tables of a process *)

(* Drop takes away and leaves the rest.                                     *)
LEMMA DropKeeps ==
  ASSUME NEW t, NEW S
  PROVE  DOMAIN Drop(t, S) = DOMAIN t \ S /\ \A s \in DOMAIN t \ S : Drop(t, S)[s] = t[s]
BY DEF Drop

(* Put adds or replaces one entry and leaves the rest.                      *)
LEMMA PutAdds ==
  ASSUME NEW t, NEW s, NEW x
  PROVE  /\ DOMAIN Put(t, s, x) = DOMAIN t \cup {s} /\ Put(t, s, x)[s] = x
         /\ \A o \in DOMAIN t \ {s} : Put(t, s, x)[o] = t[o]
BY DEF Put

(* What is stored is there, and whatever else is there was there before.     *)
LEMMA StoredAdds ==
  ASSUME NEW t, NEW s, NEW x, NEW u \in Stored(t, s, x)
  PROVE  /\ DOMAIN u \subseteq DOMAIN t \cup {s} /\ s \in DOMAIN u /\ u[s] = x
         /\ \A o \in DOMAIN u \ {s} : o \in DOMAIN t /\ u[o] = t[o]
<1>1. CASE u = Put(t, s, x)
  <2>1. /\ DOMAIN Put(t, s, x) = DOMAIN t \cup {s} /\ Put(t, s, x)[s] = x
        /\ \A a \in DOMAIN t \ {s} : Put(t, s, x)[a] = t[a]
    BY DEF Put
  <2> QED BY <1>1, <2>1
<1>2. ASSUME NEW o \in DOMAIN t, u = Put(Drop(t, {o}), s, x)
      PROVE  /\ DOMAIN u \subseteq DOMAIN t \cup {s} /\ s \in DOMAIN u /\ u[s] = x
             /\ \A a \in DOMAIN u \ {s} : a \in DOMAIN t /\ u[a] = t[a]
  <2>1. DOMAIN Drop(t, {o}) = DOMAIN t \ {o} /\ \A a \in DOMAIN t \ {o} : Drop(t, {o})[a] = t[a]
    BY DEF Drop
  <2> DEFINE d == Drop(t, {o})
  <2>2. /\ DOMAIN Put(d, s, x) = DOMAIN d \cup {s} /\ Put(d, s, x)[s] = x
        /\ \A a \in DOMAIN d \ {s} : Put(d, s, x)[a] = d[a]
    BY DEF Put
  <2> QED BY <1>2, <2>1, <2>2
<1> QED BY <1>1, <1>2 DEF Stored

(* One table of one process replaced.                                        *)
Replaced(f, k, p, T) == [f EXCEPT ![k][p] = T]

(* Of the other tables nothing changes.                                     *)
LEMMA OneTable ==
  ASSUME NEW f, Nested(f), NEW k \in CacheKinds, NEW p \in Procs, NEW T
  PROVE  /\ Nested(Replaced(f, k, p, T)) /\ Replaced(f, k, p, T)[k][p] = T
         /\ \A l \in CacheKinds, q \in Procs : l # k \/ q # p => Replaced(f, k, p, T)[l][q] = f[l][q]
<1>1. /\ DOMAIN f = CacheKinds /\ \A l \in CacheKinds : f[l] = [q \in Procs |-> f[l][q]]
  BY DEF Nested
<1>0. PICK g : g = [f EXCEPT ![k][p] = T]
  OBVIOUS
<1>2. g = [l \in CacheKinds |-> IF l = k THEN [f[k] EXCEPT ![p] = T] ELSE f[l]]
  BY <1>0, <1>1
<1>3. [f[k] EXCEPT ![p] = T] = [q \in Procs |-> IF q = p THEN T ELSE f[k][q]]
  BY <1>1
<1>4. \A l \in CacheKinds, q \in Procs : g[l][q] = IF l = k /\ q = p THEN T ELSE f[l][q]
  BY <1>2, <1>3
<1>5. \A l \in CacheKinds : g[l] = [q \in Procs |-> g[l][q]]
  BY <1>1, <1>2, <1>3, <1>4
<1>6. g = [l \in CacheKinds |-> [q \in Procs |-> g[l][q]]]
  BY <1>2, <1>5
<1>7. g = Replaced(f, k, p, T)
  BY <1>0 DEF Replaced
<1>8. /\ Nested(g) /\ g[k][p] = T
      /\ \A l \in CacheKinds, q \in Procs : l # k \/ q # p => g[l][q] = f[l][q]
  BY <1>4, <1>6 DEF Nested
<1> QED BY <1>7, <1>8

-----------------------------------------------------------------------------
(* The steps of one run leave the other runs as they are *)

UnchangedWorld == UNCHANGED <<setups, cut, call, config, wire, told>>

(* A step of r changes nothing of another run; a future that was handed out  *)
(* only as the leader resolves it, or as one who waits for it takes it along.*)
RunStep(r) ==
  /\ UnchangedWorld
  /\ run' \in [Runs -> RunRecords] /\ \A j \in Runs \ {r} : run'[j] = run[j]
  /\ fut' \in [CacheKinds -> [Runs -> Futures]]
  /\ run[r].at \notin {"idle", "access"} => run'[r].at \notin {"idle", "access"}
  /\ run'[r].at = "fetching" =>
       \/ run[r].at = "access"
       \/ /\ run[r].at = "fetching" /\ run'[r].proc = run[r].proc /\ run'[r].setup = run[r].setup
          /\ run'[r].got \in {run[r].got, setups[run[r].setup].current}
  /\ run[r].at \in {"building", "done", "failed", "cancelled"} => run'[r].at \in {"done", "failed", "cancelled"}
  /\ \A q \in Runs \ {r}, k \in CacheKinds :
       fut'[k][q] = fut[k][q] \/ (fut[k][q].is = "pending" /\ fut'[k][q].is = "cancelled")
  /\ fut'["setup"][r].is = "done" =>
       \/ fut'["setup"][r] = fut["setup"][r]
       \/ run[r].at = "fetching" /\ fut'["setup"][r].val = run[r].got /\ fut'["setup"][r].late = run[r].late
  /\ fut'["tools"][r].is = "done" =>
       \/ fut'["tools"][r] = fut["tools"][r]
       \/ run[r].at = "building" /\ fut'["tools"][r].val = run[r].val /\ fut'["tools"][r].late = run[r].late

(* The invariant, part by part, for citing.                                 *)
LEMMA InvParts ==
  ASSUME CachesInv
  PROVE  /\ ServiceTyped /\ RunsTyped /\ TablesTyped /\ ToldTyped /\ CurrentKnown /\ EntriesMarked /\ Flights
         /\ \A r \in Runs : RunMarked(r) /\ ServedMarked(r) /\ Leads(r) /\ FuturesOpen(r)
                            /\ WaitsWell(r) /\ WaitsWellForTools(r)
BY DEF CachesInv, RunTrue

(* A step of one run changes nothing of what the others hold.               *)
LEMMA OthersMarked ==
  ASSUME CachesInv, NEW r \in Runs, RunStep(r), NEW j \in Runs \ {r}
  PROVE  RunMarked(j)' /\ ServedMarked(j)' /\ FuturesOpen(j)'
<1>1. RunMarked(j) /\ ServedMarked(j) /\ FuturesOpen(j) /\ run'[j] = run[j] /\ told' = told
  BY InvParts DEF RunStep, UnchangedWorld
<1>2. \A k \in CacheKinds : fut'[k][j] = fut[k][j] \/ fut'[k][j].is = "cancelled"
  BY DEF RunStep
<1> QED BY <1>1, <1>2 DEF RunMarked, ServedMarked, FuturesOpen, UnderWay

(* Who waits for the flight of the run that steps still waits well.         *)
LEMMA OthersWaitWell ==
  ASSUME CachesInv, NEW r \in Runs, RunStep(r), NEW j \in Runs \ {r}
  PROVE  WaitsWell(j)'
<1> SUFFICES ASSUME run[j].at = "waiting" PROVE WaitsWell(j)'
  BY DEF WaitsWell, RunStep
<1>i. RunsTyped /\ ServiceTyped /\ CurrentKnown /\ RunMarked(j) /\ RunMarked(r) /\ WaitsWell(j)
  BY InvParts
<1>0. PICK q : q = run[j].on
  OBVIOUS
<1>1. /\ run'[j] = run[j] /\ told' = told /\ q \in Runs /\ UnderWay(j) /\ run[q].at \notin {"idle", "access"}
  BY <1>0, <1>i DEF RunStep, UnchangedWorld, WaitsWell, UnderWay
<1>j. run[j].proc \in Procs /\ run[j].setup \in Setups
  BY <1>1, <1>i DEF RunsTyped, RunRecords
<1>m. \A k \in ToldKinds : run[j].bad[k] \subseteq told[k][run[j].proc][run[j].setup]
  BY <1>1, <1>i DEF RunMarked
<1>2. CASE q # r
  <2>1. run'[q] = run[q] /\ (fut'["setup"][q] = fut["setup"][q] \/ fut'["setup"][q].is = "cancelled")
    BY <1>1, <1>2 DEF RunStep, CacheKinds
  <2> QED BY <1>0, <1>1, <1>i, <2>1 DEF WaitsWell
<1>3. CASE q = r
  <2>1. run'[q].at \notin {"idle", "access"}
    BY <1>1, <1>3 DEF RunStep
  <2>2. ASSUME run'[q].at = "fetching"
        PROVE  /\ run'[q].proc = run[j].proc /\ run'[q].setup = run[j].setup
               /\ run'[q].got \notin run[j].bad["setup"]
    <3>1. /\ run[q].at = "fetching" /\ run'[q].proc = run[q].proc /\ run'[q].setup = run[q].setup
          /\ run'[q].got \in {run[q].got, setups[run[q].setup].current}
      BY <1>1, <1>3, <2>2 DEF RunStep
    <3>2. /\ run[q].proc = run[j].proc /\ run[q].setup = run[j].setup /\ run[q].got \notin run[j].bad["setup"]
      BY <3>1, <1>0, <1>i DEF WaitsWell
    <3>3. setups[run[j].setup].current \notin told["setup"][run[j].proc][run[j].setup]
      BY <1>j, <1>i DEF CurrentKnown
    <3>4. run[j].bad["setup"] \subseteq told["setup"][run[j].proc][run[j].setup]
      BY <1>m DEF ToldKinds
    <3> QED BY <3>1, <3>2, <3>3, <3>4
  <2>3. ASSUME fut'["setup"][q].is = "done"
        PROVE  /\ fut'["setup"][q].val \notin run[j].bad["setup"]
               /\ fut'["setup"][q].val \in run[j].bad["config"] => fut'["setup"][q].late
               /\ fut'["setup"][q].val \in told["config"][run[j].proc][run[j].setup]
                  => fut'["setup"][q].late \/ run[j].late
    <3>1. CASE fut'["setup"][q] = fut["setup"][q]
      BY <3>1, <2>3, <1>0, <1>i DEF WaitsWell
    <3>2. CASE run[r].at = "fetching" /\ fut'["setup"][r].val = run[r].got /\ fut'["setup"][r].late = run[r].late
      <4>1. /\ run[r].proc = run[j].proc /\ run[r].setup = run[j].setup /\ run[r].got \notin run[j].bad["setup"]
        BY <3>2, <1>0, <1>3, <1>i DEF WaitsWell
      <4>2. run[r].got \in told["config"][run[j].proc][run[j].setup] => run[r].late
        BY <4>1, <3>2, <1>i DEF RunMarked, UnderWay
      <4>3. run[j].bad["config"] \subseteq told["config"][run[j].proc][run[j].setup]
        BY <1>m DEF ToldKinds
      <4>4. fut'["setup"][q].val = run[r].got /\ fut'["setup"][q].late = run[r].late
        BY <3>2, <1>3
      <4> QED BY <4>1, <4>2, <4>3, <4>4
    <3> QED BY <3>1, <3>2, <2>3, <1>3 DEF RunStep
  <2> QED BY <1>0, <1>1, <2>1, <2>2, <2>3 DEF WaitsWell
<1> QED BY <1>2, <1>3

(* The same for those who wait for tools.                                   *)
LEMMA OthersWaitWellForTools ==
  ASSUME CachesInv, NEW r \in Runs, RunStep(r), NEW j \in Runs \ {r}
  PROVE  WaitsWellForTools(j)'
<1> SUFFICES ASSUME run[j].at = "waitingTools" PROVE WaitsWellForTools(j)'
  BY DEF WaitsWellForTools, RunStep
<1>i. RunsTyped /\ ToldTyped /\ RunMarked(j) /\ RunMarked(r) /\ WaitsWellForTools(j)
  BY InvParts
<1>0. PICK q : q = run[j].on
  OBVIOUS
<1>1. /\ run'[j] = run[j] /\ told' = told /\ q \in Runs /\ UnderWay(j)
      /\ run[q].at \in {"building", "done", "failed", "cancelled"}
  BY <1>0, <1>i DEF RunStep, UnchangedWorld, WaitsWellForTools, UnderWay
<1>j. run[j].proc \in Procs /\ run[j].setup \in Setups
  BY <1>1, <1>i DEF RunsTyped, RunRecords
<1>m. run[j].bad["tools"] \subseteq told["tools"][run[j].proc][run[j].setup]
  BY <1>1, <1>i DEF RunMarked, ToldKinds
<1>2. CASE q # r
  <2>1. run'[q] = run[q] /\ (fut'["tools"][q] = fut["tools"][q] \/ fut'["tools"][q].is = "cancelled")
    BY <1>1, <1>2 DEF RunStep, CacheKinds
  <2> QED BY <1>0, <1>1, <1>i, <2>1 DEF WaitsWellForTools
<1>3. CASE q = r
  <2>1. run'[q].at \in {"done", "failed", "cancelled"}
    BY <1>1, <1>3 DEF RunStep
  <2>2. ASSUME fut'["tools"][q].is = "done", fut'["tools"][q].val \in run[j].bad["tools"]
        PROVE  fut'["tools"][q].late
    <3>1. CASE fut'["tools"][q] = fut["tools"][q]
      BY <3>1, <2>2, <1>0, <1>i DEF WaitsWellForTools
    <3>2. CASE run[r].at = "building" /\ fut'["tools"][r].val = run[r].val /\ fut'["tools"][r].late = run[r].late
      <4>1. /\ run[r].proc = run[j].proc /\ run[r].setup = run[j].setup
        BY <3>2, <1>0, <1>3, <1>i DEF WaitsWellForTools
      <4>2. run[r].val \in told["config"][run[j].proc][run[j].setup] => run[r].late
        BY <4>1, <3>2, <1>i DEF RunMarked, UnderWay
      <4>3. told["tools"][run[j].proc][run[j].setup] = told["config"][run[j].proc][run[j].setup]
        BY <1>j, <1>i DEF ToldTyped
      <4> QED BY <4>2, <4>3, <3>2, <2>2, <1>3, <1>m
    <3> QED BY <3>1, <3>2, <2>2, <1>3 DEF RunStep
  <2> QED BY <1>0, <1>1, <2>1, <2>2 DEF WaitsWellForTools
<1> QED BY <1>2, <1>3

-----------------------------------------------------------------------------
(* Flights and entries under the steps of a run *)

(* What a step of r does to the flights: none is touched, or it leads one,   *)
(* or the one it leads ends.                                                 *)
FlightStep(r) ==
  \/ /\ inflight' = inflight
     /\ run[r].at \in {"fetching", "building"} =>
          run'[r].at = run[r].at /\ run'[r].proc = run[r].proc /\ run'[r].setup = run[r].setup
     /\ run'[r].at = "building" => run[r].at = "building"
  \/ \E k \in CacheKinds :
       /\ run[r].setup \notin DOMAIN inflight[k][run[r].proc]
       /\ inflight' = [inflight EXCEPT ![k][run[r].proc] = Put(@, run[r].setup, r)]
       /\ run[r].at \in {"access", "model"} /\ run'[r].at = LeadOf(k)
       /\ run'[r].proc = run[r].proc /\ run'[r].setup = run[r].setup
       /\ k = "setup" => run'[r].got = 0
  \/ \E k \in CacheKinds :
       /\ run[r].at = LeadOf(k) /\ run'[r].at \notin {"fetching", "building"}
       /\ inflight' = [inflight EXCEPT ![k][run[r].proc] = Drop(@, {run[r].setup})]

(* What a step of r does to the caches: what is stored is what r holds.      *)
EntryStep(r) ==
  /\ Nested(cache')
  /\ \A k \in CacheKinds, p \in Procs : \A s \in DOMAIN cache'[k][p] :
       \/ s \in DOMAIN cache[k][p] /\ cache'[k][p][s] = cache[k][p][s]
       \/ /\ p = run[r].proc /\ s = run[r].setup /\ run[r].at = LeadOf(k)
          /\ cache'[k][p][s] \in Entries /\ cache'[k][p][s].late = run[r].late
          /\ cache'[k][p][s].val = IF k = "setup" THEN run[r].got ELSE run[r].val

(* After a run's step the flights are those of runs under way.              *)
LEMMA FlightsKept ==
  ASSUME CachesInv, NEW r \in Runs, RunStep(r), FlightStep(r)
  PROVE  Nested(inflight') /\ Flights' /\ \A j \in Runs : Leads(j)'
<1>i. /\ RunsTyped /\ TablesTyped /\ ToldTyped /\ CurrentKnown /\ Flights /\ \A j \in Runs : Leads(j)
  BY InvParts
<1>0. /\ told' = told /\ setups' = setups /\ \A j \in Runs \ {r} : run'[j] = run[j]
  BY DEF RunStep, UnchangedWorld
<1>1. UnderWay(r) => run[r].proc \in Procs /\ run[r].setup \in Setups
  BY <1>i DEF RunsTyped, RunRecords
<1>2. \A p \in Procs, s \in Setups : 0 \notin told["setup"][p][s]
  BY <1>i DEF ToldTyped, ToldKinds
<1>3. ASSUME NEW k \in CacheKinds, NEW p \in Procs, NEW s, NEW q, q # r, FlightTrue(k, p, s, q)
      PROVE  FlightTrue(k, p, s, q)'
  BY <1>3, <1>0 DEF FlightTrue
<1>4. CASE /\ inflight' = inflight
           /\ run[r].at \in {"fetching", "building"} =>
                run'[r].at = run[r].at /\ run'[r].proc = run[r].proc /\ run'[r].setup = run[r].setup
           /\ run'[r].at = "building" => run[r].at = "building"
  <2>1. ASSUME NEW k \in CacheKinds, NEW p \in Procs, NEW s \in DOMAIN inflight[k][p], inflight[k][p][s] = r
        PROVE  FlightTrue(k, p, s, r)'
    <3>1. FlightTrue(k, p, s, r)
      BY <2>1, <1>i DEF Flights
    <3>2. run'[r].at = LeadOf(k) /\ run'[r].proc = p /\ run'[r].setup = s
      BY <3>1, <1>4 DEF FlightTrue, LeadOf
    <3>3. ASSUME k = "setup" PROVE run'[r].got \notin told["setup"][p][s]
      <4>1. run'[r].at = "fetching" /\ run[r].at = "fetching" /\ run[r].got \notin told["setup"][p][s]
        BY <3>1, <3>2, <3>3 DEF FlightTrue, LeadOf
      <4>2. run'[r].got \in {run[r].got, setups[s].current} /\ s \in Setups
        BY <4>1, <3>1, <1>1 DEF RunStep, FlightTrue, UnderWay
      <4> QED BY <4>1, <4>2, <1>i DEF CurrentKnown
    <3> QED BY <3>2, <3>3, <1>0 DEF FlightTrue
  <2>2. Flights'
    <3> SUFFICES ASSUME NEW k \in CacheKinds, NEW p \in Procs, NEW s \in DOMAIN inflight[k][p]
                 PROVE  FlightTrue(k, p, s, inflight[k][p][s])'
      BY <1>4 DEF Flights
    <3>1. FlightTrue(k, p, s, inflight[k][p][s])
      BY <1>i DEF Flights
    <3>2. PICK q : q = inflight[k][p][s]
      OBVIOUS
    <3>3. FlightTrue(k, p, s, q)'
      BY <3>1, <3>2, <2>1, <1>3
    <3> QED BY <3>2, <3>3, <1>4
  <2>3. \A j \in Runs : Leads(j)'
    <3> SUFFICES ASSUME NEW j \in Runs PROVE Leads(j)'
      OBVIOUS
    <3>1. CASE j = r
      BY <3>1, <1>4, <1>i DEF Leads
    <3>2. CASE j # r
      BY <3>2, <1>4, <1>0, <1>i DEF Leads
    <3> QED BY <3>1, <3>2
  <2> QED BY <2>2, <2>3, <1>4, <1>i DEF TablesTyped
<1>5. ASSUME NEW k \in CacheKinds,
             run[r].setup \notin DOMAIN inflight[k][run[r].proc],
             inflight' = [inflight EXCEPT ![k][run[r].proc] = Put(@, run[r].setup, r)],
             run[r].at \in {"access", "model"}, run'[r].at = LeadOf(k),
             run'[r].proc = run[r].proc, run'[r].setup = run[r].setup, k = "setup" => run'[r].got = 0
      PROVE  Nested(inflight') /\ Flights' /\ \A j \in Runs : Leads(j)'
  <2>1. PICK P, S : P = run[r].proc /\ S = run[r].setup
    OBVIOUS
  <2>p. P \in Procs /\ S \in Setups /\ S \notin DOMAIN inflight[k][P]
    BY <2>1, <1>1, <1>5 DEF UnderWay
  <2>2. PICK T : T = Put(inflight[k][P], S, r)
    OBVIOUS
  <2>3. DOMAIN T = DOMAIN inflight[k][P] \cup {S} /\ T[S] = r /\ \A s \in DOMAIN inflight[k][P] : T[s] = inflight[k][P][s]
    BY <2>2, <2>p DEF Put
  <2>4. inflight' = [inflight EXCEPT ![k][P] = T]
    BY <1>5, <2>1, <2>2
  <2>n. Nested(inflight)
    BY <1>i DEF TablesTyped
  <2>r. inflight' = Replaced(inflight, k, P, T)
    BY <2>4 DEF Replaced
  <2>5. /\ Nested(inflight') /\ inflight'[k][P] = T
        /\ \A l \in CacheKinds, p \in Procs : l # k \/ p # P => inflight'[l][p] = inflight[l][p]
    BY <2>r, <2>n, <2>p, OneTable
  <2>6. \A l \in CacheKinds, p \in Procs : \A s \in DOMAIN inflight'[l][p] :
          \/ l = k /\ p = P /\ s = S /\ inflight'[l][p][s] = r
          \/ s \in DOMAIN inflight[l][p] /\ inflight'[l][p][s] = inflight[l][p][s]
    BY <2>3, <2>5
  <2>7. \A l \in CacheKinds, p \in Procs : \A s \in DOMAIN inflight[l][p] :
          s \in DOMAIN inflight'[l][p] /\ inflight'[l][p][s] = inflight[l][p][s]
    BY <2>3, <2>5
  <2>8. FlightTrue(k, P, S, r)'
    BY <1>5, <2>1, <2>p, <1>0, <1>2 DEF FlightTrue
  <2>9. Flights'
    <3> SUFFICES ASSUME NEW l \in CacheKinds, NEW p \in Procs, NEW s \in DOMAIN inflight'[l][p]
                 PROVE  FlightTrue(l, p, s, inflight[l][p][s])'
      BY Zenon DEF Flights
    <3>1. PICK q : q = inflight'[l][p][s]
      OBVIOUS
    <3>2. CASE l = k /\ p = P /\ s = S /\ q = r
      BY <3>2, <3>1, <2>8
    <3>3. CASE s \in DOMAIN inflight[l][p] /\ q = inflight[l][p][s]
      <4>1. FlightTrue(l, p, s, q)
        BY <3>3, <1>i DEF Flights
      <4>2. q # r
        BY <4>1, <1>5 DEF FlightTrue, LeadOf
      <4>3. FlightTrue(l, p, s, q)'
        BY <4>1, <4>2, <1>3
      <4> QED BY <4>3, <3>1
    <3> QED BY <3>1, <3>2, <3>3, <2>6
  <2>10. ASSUME NEW j \in Runs PROVE Leads(j)'
    <3>1. CASE j = r
      <4> SUFFICES ASSUME run'[r].at = "building" PROVE Leads(j)'
        BY <3>1 DEF Leads
      <4>1. k = "tools"
        BY <1>5 DEF LeadOf, CacheKinds
      <4> QED BY <3>1, <4>1, <2>1, <2>3, <2>5, <1>5 DEF Leads
    <3>2. CASE j # r
      <4> SUFFICES ASSUME run[j].at = "building" PROVE Leads(j)'
        BY <3>2, <1>0 DEF Leads
      <4>1. /\ run[j].setup \in DOMAIN inflight["tools"][run[j].proc]
            /\ inflight["tools"][run[j].proc][run[j].setup] = j /\ run[j].proc \in Procs
        BY <1>i DEF Leads, RunsTyped, RunRecords
      <4> QED BY <4>1, <2>7, <3>2, <1>0 DEF Leads, CacheKinds
    <3> QED BY <3>1, <3>2
  <2> QED BY <2>5, <2>9, <2>10
<1>6. ASSUME NEW k \in CacheKinds, run[r].at = LeadOf(k), run'[r].at \notin {"fetching", "building"},
             inflight' = [inflight EXCEPT ![k][run[r].proc] = Drop(@, {run[r].setup})]
      PROVE  Nested(inflight') /\ Flights' /\ \A j \in Runs : Leads(j)'
  <2>1. PICK P, S : P = run[r].proc /\ S = run[r].setup
    OBVIOUS
  <2>p. P \in Procs /\ S \in Setups
    BY <2>1, <1>1, <1>6 DEF UnderWay, LeadOf
  <2>2. PICK T : T = Drop(inflight[k][P], {S})
    OBVIOUS
  <2>3. DOMAIN T = DOMAIN inflight[k][P] \ {S} /\ \A s \in DOMAIN T : T[s] = inflight[k][P][s]
    BY <2>2 DEF Drop
  <2>4. inflight' = [inflight EXCEPT ![k][P] = T]
    BY <1>6, <2>1, <2>2
  <2>n. Nested(inflight)
    BY <1>i DEF TablesTyped
  <2>r. inflight' = Replaced(inflight, k, P, T)
    BY <2>4 DEF Replaced
  <2>5. /\ Nested(inflight') /\ inflight'[k][P] = T
        /\ \A l \in CacheKinds, p \in Procs : l # k \/ p # P => inflight'[l][p] = inflight[l][p]
    BY <2>r, <2>n, <2>p, OneTable
  <2>6. \A l \in CacheKinds, p \in Procs : \A s \in DOMAIN inflight'[l][p] :
          /\ s \in DOMAIN inflight[l][p] /\ inflight'[l][p][s] = inflight[l][p][s]
          /\ l # k \/ p # P \/ s # S
    BY <2>3, <2>5
  <2>9. Flights'
    <3> SUFFICES ASSUME NEW l \in CacheKinds, NEW p \in Procs, NEW s \in DOMAIN inflight'[l][p]
                 PROVE  FlightTrue(l, p, s, inflight[l][p][s])'
      BY Zenon DEF Flights
    <3>1. PICK q : q = inflight'[l][p][s]
      OBVIOUS
    <3>2. FlightTrue(l, p, s, q) /\ (l # k \/ p # P \/ s # S)
      BY <3>1, <2>6, <1>i DEF Flights
    <3>3. q # r
      BY <3>2, <2>1, <1>6 DEF FlightTrue, LeadOf, CacheKinds
    <3>4. FlightTrue(l, p, s, q)'
      BY <3>2, <3>3, <1>3
    <3> QED BY <3>1, <3>4
  <2>10. ASSUME NEW j \in Runs PROVE Leads(j)'
    <3> SUFFICES ASSUME run'[j].at = "building" PROVE Leads(j)'
      BY DEF Leads
    <3>1. j # r /\ run'[j] = run[j] /\ run[j].at = "building"
      BY <1>6, <1>0
    <3>2. /\ run[j].setup \in DOMAIN inflight["tools"][run[j].proc]
          /\ inflight["tools"][run[j].proc][run[j].setup] = j /\ run[j].proc \in Procs
      BY <3>1, <1>i DEF Leads, RunsTyped, RunRecords
    <3>3. k # "tools" \/ run[j].proc # P \/ run[j].setup # S
      BY <3>1, <3>2, <1>6, <1>i, <2>1 DEF Leads, LeadOf
    <3>4. run[j].setup \in DOMAIN inflight'["tools"][run[j].proc]
      BY <3>2, <3>3, <2>3, <2>5 DEF CacheKinds
    <3> QED BY <3>1, <3>2, <3>4, <2>6 DEF Leads, CacheKinds
  <2> QED BY <2>5, <2>9, <2>10
<1> QED BY <1>4, <1>5, <1>6 DEF FlightStep

(* What a run stores is marked as the run was.                              *)
LEMMA EntriesKept ==
  ASSUME CachesInv, NEW r \in Runs, RunStep(r), EntryStep(r)
  PROVE  /\ EntriesMarked' /\ Nested(cache')
         /\ \A k \in CacheKinds, p \in Procs : \A s \in DOMAIN cache'[k][p] : cache'[k][p][s] \in Entries
<1>i. RunsTyped /\ TablesTyped /\ ToldTyped /\ EntriesMarked /\ RunMarked(r) /\ told' = told
  BY InvParts DEF RunStep, UnchangedWorld
<1>1. ASSUME NEW p \in Procs, NEW s \in DOMAIN cache'["setup"][p] \cap Setups,
             cache'["setup"][p][s].val \in told["setup"][p][s] \cup told["config"][p][s]
      PROVE  cache'["setup"][p][s].late
  <2>1. CASE s \in DOMAIN cache["setup"][p] /\ cache'["setup"][p][s] = cache["setup"][p][s]
    BY <2>1, <1>1, <1>i DEF EntriesMarked
  <2>2. CASE /\ p = run[r].proc /\ s = run[r].setup
             /\ run[r].at = LeadOf("setup") /\ cache'["setup"][p][s].late = run[r].late /\ cache'["setup"][p][s].val = run[r].got
    BY <2>2, <1>1, <1>i DEF RunMarked, UnderWay, LeadOf
  <2> QED BY <2>1, <2>2 DEF EntryStep, CacheKinds
<1>2. ASSUME NEW p \in Procs, NEW s \in DOMAIN cache'["tools"][p] \cap Setups,
             cache'["tools"][p][s].val \in told["tools"][p][s]
      PROVE  cache'["tools"][p][s].late
  <2>1. CASE s \in DOMAIN cache["tools"][p] /\ cache'["tools"][p][s] = cache["tools"][p][s]
    BY <2>1, <1>2, <1>i DEF EntriesMarked
  <2>2. CASE /\ p = run[r].proc /\ s = run[r].setup
             /\ run[r].at = LeadOf("tools") /\ cache'["tools"][p][s].late = run[r].late /\ cache'["tools"][p][s].val = run[r].val
    BY <2>2, <1>2, <1>i DEF RunMarked, ToldTyped, UnderWay, LeadOf
  <2> QED BY <2>1, <2>2 DEF EntryStep, CacheKinds
<1>3. EntriesMarked'
  BY <1>1, <1>2, <1>i DEF EntriesMarked
<1>4. ASSUME NEW k \in CacheKinds, NEW p \in Procs, NEW s \in DOMAIN cache'[k][p] PROVE cache'[k][p][s] \in Entries
  BY <1>i DEF EntryStep, TablesTyped
<1> QED BY <1>3, <1>4 DEF EntryStep

(* What is left to show of a run's own step.                                 *)
LEMMA RunStepKeeps ==
  ASSUME CachesInv, NEW r \in Runs, RunStep(r), FlightStep(r), EntryStep(r),
         RunsTyped', RunMarked(r)', ServedMarked(r)', FuturesOpen(r)', WaitsWell(r)', WaitsWellForTools(r)'
  PROVE  CachesInv'
<1>i. /\ ServiceTyped /\ TablesTyped /\ ToldTyped /\ CurrentKnown
  BY InvParts
<1>1. ServiceTyped' /\ ToldTyped' /\ CurrentKnown'
  BY <1>i DEF RunStep, UnchangedWorld, ServiceTyped, ToldTyped, CurrentKnown
<1>2. Nested(inflight') /\ Flights' /\ \A j \in Runs : Leads(j)'
  BY FlightsKept
<1>3. /\ EntriesMarked' /\ Nested(cache')
      /\ \A k \in CacheKinds, p \in Procs : \A s \in DOMAIN cache'[k][p] : cache'[k][p][s] \in Entries
  BY EntriesKept
<1>4. TablesTyped'
  <2>1. fut' \in [CacheKinds -> [Runs -> Futures]]
    BY DEF RunStep
  <2>2. Nested(cache)' /\ Nested(inflight)'
    BY <1>2, <1>3 DEF Nested
  <2> QED BY <2>1, <2>2, <1>3 DEF TablesTyped
<1>5. ASSUME NEW j \in Runs PROVE RunTrue(j)'
  <2>1. CASE j = r
    BY <2>1, <1>2 DEF RunTrue
  <2>2. CASE j # r
    <3>1. RunMarked(j)' /\ ServedMarked(j)' /\ FuturesOpen(j)'
      BY <2>2, OthersMarked
    <3>2. WaitsWell(j)'
      BY <2>2, OthersWaitWell
    <3>3. WaitsWellForTools(j)'
      BY <2>2, OthersWaitWellForTools
    <3> QED BY <3>1, <3>2, <3>3, <1>2 DEF RunTrue
  <2> QED BY <2>1, <2>2
<1> QED BY <1>1, <1>2, <1>3, <1>4, <1>5 DEF CachesInv

-----------------------------------------------------------------------------
(* Futures, and the records a run begins and ends with *)

FutStep(r) ==
  /\ fut' \in [CacheKinds -> [Runs -> Futures]]
  /\ \A q \in Runs \ {r}, k \in CacheKinds :
       fut'[k][q] = fut[k][q] \/ (fut[k][q].is = "pending" /\ fut'[k][q].is = "cancelled")
  /\ fut'["setup"][r].is = "done" =>
       \/ fut'["setup"][r] = fut["setup"][r]
       \/ run[r].at = "fetching" /\ fut'["setup"][r].val = run[r].got /\ fut'["setup"][r].late = run[r].late
  /\ fut'["tools"][r].is = "done" =>
       \/ fut'["tools"][r] = fut["tools"][r]
       \/ run[r].at = "building" /\ fut'["tools"][r].val = run[r].val /\ fut'["tools"][r].late = run[r].late

(* One future replaced.                                                      *)
LEMMA OneFuture ==
  ASSUME NEW f \in [CacheKinds -> [Runs -> Futures]], NEW k \in CacheKinds, NEW q \in Runs, NEW F \in Futures
  PROVE  /\ Replaced(f, k, q, F) \in [CacheKinds -> [Runs -> Futures]]
         /\ Replaced(f, k, q, F)[k][q] = F
         /\ \A l \in CacheKinds, j \in Runs : l # k \/ j # q => Replaced(f, k, q, F)[l][j] = f[l][j]
<1>1. Replaced(f, k, q, F) = [f EXCEPT ![k] = [f[k] EXCEPT ![q] = F]]
  BY DEF Replaced
<1>2. [f[k] EXCEPT ![q] = F] \in [Runs -> Futures]
  OBVIOUS
<1> QED BY <1>1, <1>2

(* A step that leaves the futures alone.                                    *)
LEMMA FutureKept ==
  ASSUME CachesInv, NEW r \in Runs, fut' = fut
  PROVE  FutStep(r)
BY InvParts DEF FutStep, TablesTyped

(* The leader resolves its own future with what it holds.                   *)
LEMMA FutureResolved ==
  ASSUME CachesInv, NEW r \in Runs, NEW k \in CacheKinds, NEW is, NEW v \in Nat, Resolve(k, r, is, v),
         \/ is = "failed"
         \/ is = "done" /\ run[r].at = LeadOf(k) /\ v = IF k = "setup" THEN run[r].got ELSE run[r].val
  PROVE  FutStep(r)
<1>1. PICK F : F = IF fut[k][r].is = "pending" THEN [is |-> is, val |-> v, late |-> run[r].late] ELSE fut[k][r]
  OBVIOUS
<1>2. fut \in [CacheKinds -> [Runs -> Futures]] /\ run[r].late \in BOOLEAN
  BY InvParts DEF TablesTyped, RunsTyped, RunRecords
<1>3. F \in Futures
  <2>1. [is |-> is, val |-> v, late |-> run[r].late] \in Futures
    BY <1>2 DEF Futures
  <2> QED BY <1>1, <1>2, <2>1
<1>4. fut' = Replaced(fut, k, r, F)
  BY <1>1 DEF Resolve, Replaced
<1>5. /\ fut' \in [CacheKinds -> [Runs -> Futures]] /\ fut'[k][r] = F
      /\ \A l \in CacheKinds, j \in Runs : l # k \/ j # r => fut'[l][j] = fut[l][j]
  BY <1>2, <1>3, <1>4, OneFuture
<1>6. F.is = "done" => F = fut[k][r] \/ (/\ run[r].at = LeadOf(k) /\ F.late = run[r].late
                                        /\ F.val = IF k = "setup" THEN run[r].got ELSE run[r].val)
  BY <1>1
<1>7. ASSUME NEW l \in CacheKinds, fut'[l][r].is = "done"
      PROVE  \/ fut'[l][r] = fut[l][r]
             \/ /\ run[r].at = LeadOf(l) /\ fut'[l][r].late = run[r].late
                /\ fut'[l][r].val = IF l = "setup" THEN run[r].got ELSE run[r].val
  BY <1>5, <1>6, <1>7
<1> QED BY <1>5, <1>7 DEF FutStep, LeadOf, CacheKinds

(* A run is given a new record, and nothing of another run changes.          *)
LEMMA Moves ==
  ASSUME CachesInv, NEW r \in Runs, NEW N \in RunRecords, run' = [run EXCEPT ![r] = N], UnchangedWorld, FutStep(r),
         N.at \notin {"done", "failed", "cancelled"} => N.setup \in Setups, N.at = "access" => N.got = 0,
         N.at # "idle", N.at = "access" => run[r].at = "idle",
         N.at = "fetching" =>
           \/ run[r].at = "access"
           \/ /\ run[r].at = "fetching" /\ N.proc = run[r].proc /\ N.setup = run[r].setup
              /\ N.got \in {run[r].got, setups[run[r].setup].current},
         run[r].at \in {"building", "done", "failed", "cancelled"} => N.at \in {"done", "failed", "cancelled"}
  PROVE  RunStep(r) /\ RunsTyped' /\ run'[r] = N
<1>1. RunsTyped
  BY InvParts
<1>2. run'[r] = N /\ run' \in [Runs -> RunRecords] /\ \A j \in Runs \ {r} : run'[j] = run[j]
  BY <1>1 DEF RunsTyped
<1>3. RunsTyped'
  BY <1>1, <1>2 DEF RunsTyped, UnderWay
<1>4. RunStep(r)
  BY <1>2 DEF RunStep, FutStep
<1> QED BY <1>2, <1>3, <1>4

(* The record of a run that has not begun.                                  *)
LEMMA IdleRecord ==
  /\ Idle \in RunRecords /\ Idle.at = "idle" /\ Idle.got = 0 /\ Idle.val = 0 /\ Idle.tools = 0
  /\ \A k \in ToldKinds : Idle.bad[k] = {}
  /\ Idle.proc \in Procs
<1>1. Idle.proc \in Procs
  BY CachesAssumption DEF Idle
<1>2. Idle.setup \in Setups \cup {Idle.setup}
  OBVIOUS
<1>3. PICK p, s : p = Idle.proc /\ s = Idle.setup
  OBVIOUS
<1>4. Idle = [at |-> "idle", proc |-> p, setup |-> s, on |-> 0, got |-> 0,
         val |-> 0, via |-> "none", vlate |-> FALSE, tools |-> 0, tlate |-> FALSE,
         late |-> FALSE, bad |-> [k \in {"setup", "config", "tools"} |-> {}]]
  BY <1>3 DEF Idle
<1>5. [k \in {"setup", "config", "tools"} |-> {}] \in [ToldKinds -> SUBSET Nat]
  BY DEF ToldKinds
<1>6. Idle \in RunRecords
  BY <1>1, <1>3, <1>4, <1>5 DEF RunRecords, RunStates
<1> QED BY <1>1, <1>4, <1>6 DEF ToldKinds

(* The record of a run that is over.                                        *)
LEMMA EndedRecord ==
  ASSUME NEW how \in {"failed", "cancelled", "done"}
  PROVE  /\ Ended(how) \in RunRecords /\ Ended(how).at = how /\ Ended(how).val = 0 /\ Ended(how).tools = 0
         /\ \A k \in ToldKinds : Ended(how).bad[k] = {}
<1>1. Ended(how) = [Idle EXCEPT !.at = how]
  BY DEF Ended
<1>2. Idle \in RunRecords /\ Idle.val = 0 /\ Idle.tools = 0 /\ \A k \in ToldKinds : Idle.bad[k] = {}
  BY IdleRecord
<1> QED BY <1>1, <1>2 DEF RunRecords, RunStates

(* A run that ends without having been served.                               *)
LEMMA EndsWell ==
  ASSUME CachesInv, NEW r \in Runs, NEW how \in {"failed", "cancelled"}, run' = [run EXCEPT ![r] = Ended(how)],
         UnchangedWorld, FutStep(r), EntryStep(r),
         \/ inflight' = inflight /\ run[r].at \notin {"fetching", "building"}
         \/ \E k \in CacheKinds :
              /\ run[r].at = LeadOf(k)
              /\ inflight' = [inflight EXCEPT ![k][run[r].proc] = Drop(@, {run[r].setup})]
  PROVE  CachesInv'
<1>1. PICK N : N = Ended(how)
  OBVIOUS
<1>2. /\ N \in RunRecords /\ N.at = how /\ N.val = 0 /\ N.tools = 0
      /\ \A k \in ToldKinds : N.bad[k] = {}
  BY <1>1, EndedRecord
<1>3. RunStep(r) /\ RunsTyped' /\ run'[r] = N
  BY <1>1, <1>2, Moves
<1>4. RunMarked(r)' /\ ServedMarked(r)' /\ FuturesOpen(r)' /\ WaitsWell(r)' /\ WaitsWellForTools(r)'
  <2>1. run'[r].at \in {"failed", "cancelled"} /\ run'[r].val = 0 /\ run'[r].tools = 0
        /\ run'[r].bad["setup"] = {} /\ run'[r].bad["config"] = {} /\ run'[r].bad["tools"] = {}
    BY <1>2, <1>3 DEF ToldKinds
  <2>2. RunMarked(r)'
    BY <2>1 DEF RunMarked, UnderWay
  <2>3. ServedMarked(r)'
    BY <2>1 DEF ServedMarked
  <2>4. FuturesOpen(r)'
    BY <2>1 DEF FuturesOpen, LeadOf
  <2>5. WaitsWell(r)' /\ WaitsWellForTools(r)'
    BY <2>1 DEF WaitsWell, WaitsWellForTools
  <2> QED BY <2>2, <2>3, <2>4, <2>5
<1>5. FlightStep(r)
  <2>1. run'[r].at \notin {"fetching", "building"}
    BY <1>2, <1>3
  <2> QED BY <2>1 DEF FlightStep
<1> QED BY <1>3, <1>4, <1>5, RunStepKeeps

-----------------------------------------------------------------------------
(* A run starts and finds its setup in the cache *)

(* A step that leaves the caches alone.                                     *)
LEMMA CacheKept ==
  ASSUME CachesInv, NEW r \in Runs, cache' = cache
  PROVE  EntryStep(r)
BY InvParts DEF EntryStep, TablesTyped

(* A step that only forgets entries.                                        *)
LEMMA CacheDropped ==
  ASSUME CachesInv, NEW r \in Runs, NEW k \in CacheKinds, NEW p \in Procs, NEW S,
         cache' = [cache EXCEPT ![k][p] = Drop(@, S)]
  PROVE  EntryStep(r)
<1>1. PICK T : T = Drop(cache[k][p], S)
  OBVIOUS
<1>2. cache' = Replaced(cache, k, p, T) /\ Nested(cache) /\ k \in CacheKinds /\ p \in Procs
  BY <1>1, InvParts DEF Replaced, TablesTyped
<1>n. /\ Nested(Replaced(cache, k, p, T)) /\ Replaced(cache, k, p, T)[k][p] = T
      /\ \A l \in CacheKinds, q \in Procs : l # k \/ q # p => Replaced(cache, k, p, T)[l][q] = cache[l][q]
  BY <1>2, OneTable
<1>3. /\ Nested(cache') /\ cache'[k][p] = T
      /\ \A l \in CacheKinds, q \in Procs : l # k \/ q # p => cache'[l][q] = cache[l][q]
  BY <1>2, <1>n
<1>4. \A s \in DOMAIN T : s \in DOMAIN cache[k][p] /\ T[s] = cache[k][p][s]
  BY <1>1 DEF Drop
<1>5. ASSUME NEW l \in CacheKinds, NEW q \in Procs, NEW o \in DOMAIN cache'[l][q]
      PROVE  o \in DOMAIN cache[l][q] /\ cache'[l][q][o] = cache[l][q][o]
  BY <1>3, <1>4
<1> QED BY <1>3, <1>5 DEF EntryStep

(* A leader stores what it fetched or built.                                *)
LEMMA CacheStored ==
  ASSUME CachesInv, NEW r \in Runs, NEW k \in CacheKinds, NEW x \in Entries, run[r].proc \in Procs,
         Cached(k, run[r].proc, run[r].setup, x), run[r].at = LeadOf(k), x.late = run[r].late,
         x.val = IF k = "setup" THEN run[r].got ELSE run[r].val
  PROVE  EntryStep(r)
<1>0. PICK p, s : p = run[r].proc /\ s = run[r].setup
  OBVIOUS
<1>1. PICK T \in Stored(cache[k][p], s, x) : cache' = [cache EXCEPT ![k][p] = T]
  BY <1>0 DEF Cached
<1>2. cache' = Replaced(cache, k, p, T) /\ Nested(cache) /\ p \in Procs
  BY <1>0, <1>1, InvParts DEF Replaced, TablesTyped
<1>3. /\ Nested(cache') /\ cache'[k][p] = T
      /\ \A l \in CacheKinds, q \in Procs : l # k \/ q # p => cache'[l][q] = cache[l][q]
  BY <1>2, OneTable
<1>4. T[s] = x /\ \A o \in DOMAIN T \ {s} : o \in DOMAIN cache[k][p] /\ T[o] = cache[k][p][o]
  BY <1>1, StoredAdds
<1>5. ASSUME NEW l \in CacheKinds, NEW q \in Procs, NEW o \in DOMAIN cache'[l][q]
      PROVE  \/ o \in DOMAIN cache[l][q] /\ cache'[l][q][o] = cache[l][q][o]
             \/ l = k /\ q = p /\ o = s /\ cache'[l][q][o] = x
  BY <1>3, <1>4
<1>6. ASSUME NEW l \in CacheKinds, NEW q \in Procs, NEW o \in DOMAIN cache'[l][q]
      PROVE  \/ o \in DOMAIN cache[l][q] /\ cache'[l][q][o] = cache[l][q][o]
             \/ /\ q = run[r].proc /\ o = run[r].setup /\ run[r].at = LeadOf(l)
                /\ cache'[l][q][o] \in Entries /\ cache'[l][q][o].late = run[r].late
                /\ cache'[l][q][o].val = IF l = "setup" THEN run[r].got ELSE run[r].val
  BY <1>5, <1>6, <1>0
<1> QED BY <1>3, <1>6 DEF EntryStep

(* A run starts: what is known when it starts is told, so bad is within told. *)
LEMMA StartRunKeeps ==
  ASSUME CachesInv, NEW r \in Runs, NEW p \in Procs, NEW s \in Served, StartRun(r, p, s)
  PROVE  CachesInv'
<1>i. ToldTyped
  BY InvParts
<1>1. PICK N : N = [Idle EXCEPT !.at = "access", !.proc = p, !.setup = s,
                                  !.bad = [k \in DOMAIN told |-> told[k][p][s]]]
  OBVIOUS
<1>2. s \in Setups
  BY CachesAssumption
<1>3. [k \in DOMAIN told |-> told[k][p][s]] \in [ToldKinds -> SUBSET Nat]
  <2>1. cut \in Nat
    BY InvParts DEF ServiceTyped
  <2>2. DOMAIN told = ToldKinds /\ \A k \in ToldKinds : told[k][p][s] \subseteq 1..cut
    BY <1>2, <1>i DEF ToldTyped
  <2> QED BY <2>1, <2>2
<1>4. /\ N \in RunRecords /\ N.at = "access" /\ N.proc = p /\ N.setup = s /\ N.got = 0 /\ N.val = 0 /\ N.tools = 0
      /\ N.bad = [k \in DOMAIN told |-> told[k][p][s]]
  BY <1>1, <1>2, <1>3, IdleRecord DEF RunRecords, RunStates
<1>5. /\ run' = [run EXCEPT ![r] = N] /\ UnchangedWorld /\ fut' = fut /\ cache' = cache /\ inflight' = inflight
      /\ run[r].at = "idle"
  BY <1>1 DEF StartRun, UnchangedWorld, service
<1>6. FutStep(r) /\ EntryStep(r)
  BY <1>5, FutureKept, CacheKept
<1>7. RunStep(r) /\ RunsTyped' /\ run'[r] = N
  BY <1>2, <1>4, <1>5, <1>6, Moves
<1>8. FlightStep(r)
  BY <1>4, <1>5, <1>7 DEF FlightStep
<1>9. \A k \in ToldKinds : N.bad[k] = told[k][p][s] /\ 0 \notin told[k][p][s]
  BY <1>2, <1>4, <1>i DEF ToldTyped
<1>10. RunMarked(r)' /\ ServedMarked(r)'
  <2>1. /\ run'[r].proc = p /\ run'[r].setup = s /\ run'[r].got = 0 /\ run'[r].val = 0 /\ run'[r].tools = 0
        /\ told' = told /\ \A k \in ToldKinds : run'[r].bad[k] = told[k][p][s] /\ 0 \notin told[k][p][s]
    BY <1>4, <1>5, <1>7, <1>9 DEF UnchangedWorld
  <2>2. RunMarked(r)'
    BY <2>1 DEF RunMarked, ToldKinds
  <2>3. ServedMarked(r)'
    BY <2>1 DEF ServedMarked, ToldKinds
  <2> QED BY <2>2, <2>3
<1>11. FuturesOpen(r)' /\ WaitsWell(r)' /\ WaitsWellForTools(r)'
  BY <1>4, <1>7 DEF FuturesOpen, WaitsWell, WaitsWellForTools, LeadOf
<1> QED BY <1>6, <1>7, <1>8, <1>10, <1>11, RunStepKeeps

(* A run without access ends before either cache.                           *)
LEMMA AccessDeniedKeeps ==
  ASSUME CachesInv, NEW r \in Runs, AccessDenied(r)
  PROVE  CachesInv'
<1>1. FutStep(r) /\ EntryStep(r)
  BY FutureKept, CacheKept DEF AccessDenied
<1>2. /\ run' = [run EXCEPT ![r] = Ended("failed")] /\ UnchangedWorld
      /\ inflight' = inflight /\ run[r].at \notin {"fetching", "building"}
  BY DEF AccessDenied, UnchangedWorld, service
<1> QED BY <1>1, <1>2, EndsWell

(* What is known of a run under way.                                         *)
LEMMA OwnFacts ==
  ASSUME CachesInv, NEW r \in Runs, UnderWay(r)
  PROVE  /\ run[r] \in RunRecords /\ run[r].proc \in Procs /\ run[r].setup \in Setups
         /\ \A k \in ToldKinds : run[r].bad[k] \subseteq told[k][run[r].proc][run[r].setup]
         /\ told["tools"][run[r].proc][run[r].setup] = told["config"][run[r].proc][run[r].setup]
<1>1. RunsTyped /\ ToldTyped /\ RunMarked(r)
  BY InvParts
<1> QED BY <1>1 DEF RunsTyped, ToldTyped, RunMarked, RunRecords

(* A hit hands out a marked entry and marks the run with it.                *)
LEMMA SetupHitKeeps ==
  ASSUME CachesInv, NEW r \in Runs, SetupHit(r)
  PROVE  CachesInv'
<1>0. PICK p, s : p = run[r].proc /\ s = run[r].setup
  OBVIOUS
<1>u. UnderWay(r) /\ run[r].at = "access"
  BY DEF SetupHit, UnderWay
<1>1. /\ run[r] \in RunRecords /\ p \in Procs /\ s \in Setups
      /\ \A k \in ToldKinds : run[r].bad[k] \subseteq told[k][p][s]
  BY <1>0, <1>u, OwnFacts
<1>i. TablesTyped /\ EntriesMarked /\ RunMarked(r) /\ ServedMarked(r)
  BY InvParts
<1>2. PICK e : e = cache["setup"][p][s]
  OBVIOUS
<1>3. /\ e \in Entries /\ s \in DOMAIN cache["setup"][p]
      /\ e.val \in told["setup"][p][s] \cup told["config"][p][s] => e.late
  <2>1. s \in DOMAIN cache["setup"][p]
    BY <1>0 DEF SetupHit, Live
  <2> QED BY <2>1, <1>1, <1>2, <1>i DEF TablesTyped, EntriesMarked, CacheKinds
<1>4. PICK N : N = [run[r] EXCEPT !.at = "model", !.val = e.val, !.via = "cache", !.vlate = e.late,
                                   !.late = @ \/ e.late]
  OBVIOUS
<1>5. /\ N \in RunRecords /\ N.at = "model" /\ N.proc = p /\ N.setup = s /\ N.got = run[r].got
      /\ N.val = e.val /\ N.via = "cache" /\ N.vlate = e.late /\ N.tools = run[r].tools /\ N.tlate = run[r].tlate
      /\ N.late = (run[r].late \/ e.late) /\ N.bad = run[r].bad
  BY <1>0, <1>1, <1>3, <1>4 DEF RunRecords, RunStates, Entries
<1>6. /\ run' = [run EXCEPT ![r] = N] /\ UnchangedWorld /\ fut' = fut /\ cache' = cache /\ inflight' = inflight
  BY <1>0, <1>2, <1>4 DEF SetupHit, UnchangedWorld, service
<1>7. FutStep(r) /\ EntryStep(r)
  BY <1>6, FutureKept, CacheKept
<1>8. RunStep(r) /\ RunsTyped' /\ run'[r] = N
  BY <1>u, <1>1, <1>5, <1>6, <1>7, Moves
<1>9. FlightStep(r)
  BY <1>u, <1>5, <1>6, <1>8 DEF FlightStep
<1>10. RunMarked(r)'
  BY <1>u, <1>0, <1>1, <1>3, <1>5, <1>6, <1>8, <1>i DEF RunMarked, UnderWay, UnchangedWorld
<1>11. ServedMarked(r)'
  BY <1>1, <1>3, <1>5, <1>8, <1>i DEF ServedMarked, ToldKinds
<1>12. FuturesOpen(r)' /\ WaitsWell(r)' /\ WaitsWellForTools(r)'
  BY <1>5, <1>8 DEF FuturesOpen, WaitsWell, WaitsWellForTools, LeadOf
<1> QED BY <1>7, <1>8, <1>9, <1>10, <1>11, <1>12, RunStepKeeps

-----------------------------------------------------------------------------
(* A run misses, and leads a flight or joins one *)

(* A new flight in a process where the setup has none.                      *)
LEMMA LeadKept ==
  ASSUME CachesInv, NEW k \in CacheKinds, NEW p \in Procs, NEW s \in DOMAIN inflight[k][p]
  PROVE  FlightTrue(k, p, s, inflight[k][p][s])
BY InvParts DEF Flights

(* Await the flight there is, or lead one.                                   *)
LEMMA SetupMissKeeps ==
  ASSUME CachesInv, NEW r \in Runs, SetupMiss(r)
  PROVE  CachesInv'
<1>0. PICK p, s : p = run[r].proc /\ s = run[r].setup
  OBVIOUS
<1>u. UnderWay(r) /\ run[r].at = "access"
  BY DEF SetupMiss, UnderWay
<1>1. /\ run[r] \in RunRecords /\ p \in Procs /\ s \in Setups
      /\ \A k \in ToldKinds : run[r].bad[k] \subseteq told[k][p][s]
  BY <1>0, <1>u, OwnFacts
<1>i. RunsTyped /\ TablesTyped /\ RunMarked(r) /\ ServedMarked(r) /\ \A j \in Runs : FuturesOpen(j)
  BY InvParts
<1>g. run[r].got = 0
  BY <1>u, <1>i DEF RunsTyped
<1>w. UnchangedWorld
  BY DEF SetupMiss, UnchangedWorld, service
<1>c. EntryStep(r)
  <2>1. cache' = [cache EXCEPT !["setup"][p] = Drop(@, {s})]
    BY <1>0 DEF SetupMiss, Join
  <2> QED BY <2>1, <1>1, CacheDropped DEF CacheKinds
<1>2. ASSUME s \in DOMAIN inflight["setup"][p]
      PROVE  CachesInv'
  <2>1. PICK q : q = inflight["setup"][p][s]
    OBVIOUS
  <2>2. /\ q \in Runs /\ run[q].at = "fetching" /\ run[q].proc = p /\ run[q].setup = s
        /\ run[q].got \notin told["setup"][p][s]
    <3>1. FlightTrue("setup", p, s, q)
      BY <1>1, <1>2, <2>1, LeadKept DEF CacheKinds
    <3> QED BY <3>1 DEF FlightTrue, LeadOf
  <2>n. q \in Nat
    BY <2>2, CachesAssumption DEF Runs
  <2>3. PICK N : N = [run[r] EXCEPT !.at = "waiting", !.on = q]
    OBVIOUS
  <2>4. /\ N \in RunRecords /\ N.at = "waiting" /\ N.on = q /\ N.proc = p /\ N.setup = s /\ N.got = run[r].got
        /\ N.val = run[r].val /\ N.via = run[r].via /\ N.vlate = run[r].vlate /\ N.tools = run[r].tools
        /\ N.tlate = run[r].tlate /\ N.late = run[r].late /\ N.bad = run[r].bad
    BY <1>0, <1>1, <2>n, <2>3 DEF RunRecords, RunStates
  <2>5. run' = [run EXCEPT ![r] = N] /\ fut' = fut /\ inflight' = inflight
    BY <1>0, <1>2, <2>1, <2>3 DEF SetupMiss, Join
  <2>6. FutStep(r)
    BY <2>5, FutureKept
  <2>7. RunStep(r) /\ RunsTyped' /\ run'[r] = N
    BY <1>u, <1>1, <1>w, <2>4, <2>5, <2>6, Moves
  <2>8. FlightStep(r)
    BY <1>u, <2>4, <2>5, <2>7 DEF FlightStep
  <2>9. RunMarked(r)' /\ ServedMarked(r)'
    BY <1>u, <1>0, <1>i, <1>w, <2>4, <2>7 DEF RunMarked, ServedMarked, UnderWay, UnchangedWorld
  <2>10. FuturesOpen(r)' /\ WaitsWellForTools(r)'
    BY <2>4, <2>7 DEF FuturesOpen, WaitsWellForTools, LeadOf
  <2>11. WaitsWell(r)'
    <3>1. run'[q] = run[q]
      BY <1>u, <2>2, <2>7 DEF RunStep
    <3>2. fut["setup"][q].is # "done"
      BY <1>i, <2>2 DEF FuturesOpen, LeadOf, CacheKinds
    <3>3. run[q].got \notin run[r].bad["setup"]
      BY <1>1, <2>2 DEF ToldKinds
    <3> QED BY <2>2, <2>4, <2>5, <2>7, <3>1, <3>2, <3>3 DEF WaitsWell
  <2> QED BY <1>c, <2>7, <2>8, <2>9, <2>10, <2>11, RunStepKeeps
<1>3. ASSUME s \notin DOMAIN inflight["setup"][p]
      PROVE  CachesInv'
  <2>3. PICK N : N = [run[r] EXCEPT !.at = "fetching"]
    OBVIOUS
  <2>4. /\ N \in RunRecords /\ N.at = "fetching" /\ N.proc = p /\ N.setup = s /\ N.got = 0
        /\ N.val = run[r].val /\ N.via = run[r].via /\ N.vlate = run[r].vlate /\ N.tools = run[r].tools
        /\ N.tlate = run[r].tlate /\ N.late = run[r].late /\ N.bad = run[r].bad
    BY <1>0, <1>1, <1>g, <2>3 DEF RunRecords, RunStates
  <2>5. /\ run' = [run EXCEPT ![r] = N] /\ inflight' = [inflight EXCEPT !["setup"][p] = Put(@, s, r)]
        /\ fut' = [fut EXCEPT !["setup"][r].is = "pending"]
    BY <1>0, <1>3, <2>3 DEF SetupMiss, Join
  <2>6. PICK F : F = [fut["setup"][r] EXCEPT !.is = "pending"]
    OBVIOUS
  <2>f. /\ fut' \in [CacheKinds -> [Runs -> Futures]] /\ fut'["setup"][r] = F /\ F.is = "pending"
        /\ \A l \in CacheKinds, j \in Runs : l # "setup" \/ j # r => fut'[l][j] = fut[l][j]
    <3>1. fut \in [CacheKinds -> [Runs -> Futures]]
      BY <1>i DEF TablesTyped
    <3>2. F \in Futures /\ F.is = "pending" /\ "setup" \in CacheKinds
      BY <2>6, <3>1 DEF Futures, CacheKinds
    <3>3. fut' = Replaced(fut, "setup", r, F)
      BY <2>5, <2>6 DEF Replaced
    <3>k. PICK k : k = "setup"
      OBVIOUS
    <3>l. k \in CacheKinds
      BY <3>2, <3>k
    <3>4. /\ Replaced(fut, k, r, F) \in [CacheKinds -> [Runs -> Futures]]
          /\ Replaced(fut, k, r, F)[k][r] = F
          /\ \A l \in CacheKinds, j \in Runs : l # k \/ j # r => Replaced(fut, k, r, F)[l][j] = fut[l][j]
      BY <3>1, <3>2, <3>l, OneFuture
    <3> QED BY <3>2, <3>3, <3>4, <3>k
  <2>g. FutStep(r)
    BY <2>f DEF FutStep, CacheKinds
  <2>7. RunStep(r) /\ RunsTyped' /\ run'[r] = N
    BY <1>u, <1>1, <1>w, <2>4, <2>5, <2>g, Moves
  <2>8. FlightStep(r)
    BY <1>u, <1>0, <1>3, <2>4, <2>5, <2>7 DEF FlightStep, LeadOf, CacheKinds
  <2>9. RunMarked(r)' /\ ServedMarked(r)'
    BY <1>u, <1>0, <1>i, <1>g, <1>w, <2>4, <2>7 DEF RunMarked, ServedMarked, UnderWay,
       UnchangedWorld
  <2>10. FuturesOpen(r)' /\ WaitsWellForTools(r)' /\ WaitsWell(r)'
    BY <2>4, <2>7, <2>f DEF FuturesOpen, WaitsWellForTools, WaitsWell, LeadOf, CacheKinds
  <2> QED BY <1>c, <2>7, <2>8, <2>9, <2>10, RunStepKeeps
<1> QED BY <1>2, <1>3

(* A miss of the tools: the run waits for their builder, or builds.         *)
LEMMA ToolsMissKeeps ==
  ASSUME CachesInv, NEW r \in Runs, ToolsMiss(r)
  PROVE  CachesInv'
<1>0. PICK p, s : p = run[r].proc /\ s = run[r].setup
  OBVIOUS
<1>u. UnderWay(r) /\ run[r].at = "model"
  BY DEF ToolsMiss, UnderWay
<1>1. /\ run[r] \in RunRecords /\ p \in Procs /\ s \in Setups
      /\ \A k \in ToldKinds : run[r].bad[k] \subseteq told[k][p][s]
  BY <1>0, <1>u, OwnFacts
<1>i. TablesTyped /\ RunMarked(r) /\ ServedMarked(r) /\ \A j \in Runs : FuturesOpen(j)
  BY InvParts
<1>w. UnchangedWorld
  BY DEF ToolsMiss, UnchangedWorld, service
<1>c. EntryStep(r)
  <2>1. cache' = [cache EXCEPT !["tools"][p] = Drop(@, {s})]
    BY <1>0 DEF ToolsMiss, Join
  <2> QED BY <2>1, <1>1, CacheDropped DEF CacheKinds
<1>2. ASSUME s \in DOMAIN inflight["tools"][p]
      PROVE  CachesInv'
  <2>1. PICK q : q = inflight["tools"][p][s]
    OBVIOUS
  <2>2. q \in Runs /\ run[q].at = "building" /\ run[q].proc = p /\ run[q].setup = s
    <3>1. FlightTrue("tools", p, s, q)
      BY <1>1, <1>2, <2>1, LeadKept DEF CacheKinds
    <3> QED BY <3>1 DEF FlightTrue, LeadOf
  <2>n. q \in Nat
    BY <2>2, CachesAssumption DEF Runs
  <2>3. PICK N : N = [run[r] EXCEPT !.at = "waitingTools", !.on = q]
    OBVIOUS
  <2>4. /\ N \in RunRecords /\ N.at = "waitingTools" /\ N.on = q /\ N.proc = p /\ N.setup = s /\ N.got = run[r].got
        /\ N.val = run[r].val /\ N.via = run[r].via /\ N.vlate = run[r].vlate /\ N.tools = run[r].tools
        /\ N.tlate = run[r].tlate /\ N.late = run[r].late /\ N.bad = run[r].bad
    BY <1>0, <1>1, <2>n, <2>3 DEF RunRecords, RunStates
  <2>5. run' = [run EXCEPT ![r] = N] /\ fut' = fut /\ inflight' = inflight
    BY <1>0, <1>2, <2>1, <2>3 DEF ToolsMiss, Join
  <2>6. FutStep(r)
    BY <2>5, FutureKept
  <2>7. RunStep(r) /\ RunsTyped' /\ run'[r] = N
    BY <1>u, <1>1, <1>w, <2>4, <2>5, <2>6, Moves
  <2>8. FlightStep(r)
    BY <1>u, <2>4, <2>5, <2>7 DEF FlightStep
  <2>9. RunMarked(r)' /\ ServedMarked(r)'
    BY <1>u, <1>0, <1>i, <1>w, <2>4, <2>7 DEF RunMarked, ServedMarked, UnderWay, UnchangedWorld
  <2>10. FuturesOpen(r)' /\ WaitsWell(r)'
    BY <2>4, <2>7 DEF FuturesOpen, WaitsWell, LeadOf
  <2>11. WaitsWellForTools(r)'
    <3>1. run'[q] = run[q]
      BY <1>u, <2>2, <2>7 DEF RunStep
    <3>2. fut["tools"][q].is # "done"
      BY <1>i, <2>2 DEF FuturesOpen, LeadOf, CacheKinds
    <3> QED BY <2>2, <2>4, <2>5, <2>7, <3>1, <3>2 DEF WaitsWellForTools
  <2> QED BY <1>c, <2>7, <2>8, <2>9, <2>10, <2>11, RunStepKeeps
<1>3. ASSUME s \notin DOMAIN inflight["tools"][p]
      PROVE  CachesInv'
  <2>3. PICK N : N = [run[r] EXCEPT !.at = "building"]
    OBVIOUS
  <2>4. /\ N \in RunRecords /\ N.at = "building" /\ N.proc = p /\ N.setup = s /\ N.got = run[r].got
        /\ N.val = run[r].val /\ N.via = run[r].via /\ N.vlate = run[r].vlate /\ N.tools = run[r].tools
        /\ N.tlate = run[r].tlate /\ N.late = run[r].late /\ N.bad = run[r].bad
    BY <1>0, <1>1, <2>3 DEF RunRecords, RunStates
  <2>5. /\ run' = [run EXCEPT ![r] = N] /\ inflight' = [inflight EXCEPT !["tools"][p] = Put(@, s, r)]
        /\ fut' = [fut EXCEPT !["tools"][r].is = "pending"]
    BY <1>0, <1>3, <2>3 DEF ToolsMiss, Join
  <2>6. PICK F : F = [fut["tools"][r] EXCEPT !.is = "pending"]
    OBVIOUS
  <2>f. /\ fut' \in [CacheKinds -> [Runs -> Futures]] /\ fut'["tools"][r] = F /\ F.is = "pending"
        /\ \A l \in CacheKinds, j \in Runs : l # "tools" \/ j # r => fut'[l][j] = fut[l][j]
    <3>1. fut \in [CacheKinds -> [Runs -> Futures]]
      BY <1>i DEF TablesTyped
    <3>2. F \in Futures /\ F.is = "pending" /\ "tools" \in CacheKinds
      BY <2>6, <3>1 DEF Futures, CacheKinds
    <3>3. fut' = Replaced(fut, "tools", r, F)
      BY <2>5, <2>6 DEF Replaced
    <3>k. PICK k : k = "tools"
      OBVIOUS
    <3>l. k \in CacheKinds
      BY <3>2, <3>k
    <3>4. /\ Replaced(fut, k, r, F) \in [CacheKinds -> [Runs -> Futures]]
          /\ Replaced(fut, k, r, F)[k][r] = F
          /\ \A l \in CacheKinds, j \in Runs : l # k \/ j # r => Replaced(fut, k, r, F)[l][j] = fut[l][j]
      BY <3>1, <3>2, <3>l, OneFuture
    <3> QED BY <3>2, <3>3, <3>4, <3>k
  <2>g. FutStep(r)
    BY <2>f DEF FutStep, CacheKinds
  <2>7. RunStep(r) /\ RunsTyped' /\ run'[r] = N
    BY <1>u, <1>1, <1>w, <2>4, <2>5, <2>g, Moves
  <2>8. FlightStep(r)
    BY <1>u, <1>0, <1>3, <2>4, <2>5, <2>7 DEF FlightStep, LeadOf, CacheKinds
  <2>9. RunMarked(r)' /\ ServedMarked(r)'
    BY <1>u, <1>0, <1>i, <1>w, <2>4, <2>7 DEF RunMarked, ServedMarked, UnderWay, UnchangedWorld
  <2>10. FuturesOpen(r)' /\ WaitsWellForTools(r)' /\ WaitsWell(r)'
    BY <2>4, <2>7, <2>f DEF FuturesOpen, WaitsWellForTools, WaitsWell, LeadOf, CacheKinds
  <2> QED BY <1>c, <2>7, <2>8, <2>9, <2>10, RunStepKeeps
<1> QED BY <1>2, <1>3

(* The setup service answers with what is current.                           *)
LEMMA ReadKeeps ==
  ASSUME CachesInv, NEW r \in Runs, Read(r)
  PROVE  CachesInv'
<1>0. PICK p, s : p = run[r].proc /\ s = run[r].setup
  OBVIOUS
<1>u. UnderWay(r) /\ run[r].at = "fetching"
  BY DEF Read, UnderWay
<1>1. /\ run[r] \in RunRecords /\ p \in Procs /\ s \in Setups
      /\ \A k \in ToldKinds : run[r].bad[k] \subseteq told[k][p][s]
  BY <1>0, <1>u, OwnFacts
<1>i. ServiceTyped /\ CurrentKnown /\ RunMarked(r) /\ ServedMarked(r) /\ FuturesOpen(r)
  BY InvParts
<1>2. PICK N : N = [run[r] EXCEPT !.got = setups[s].current,
                                   !.late = @ \/ (config.at = "returned" /\ config.setup = s)]
  OBVIOUS
<1>3. setups[s].current \in Nat
  BY <1>1, <1>i DEF ServiceTyped, SetupRecords
<1>4. /\ N \in RunRecords /\ N.at = "fetching" /\ N.proc = p /\ N.setup = s /\ N.got = setups[s].current
      /\ N.val = run[r].val /\ N.via = run[r].via /\ N.vlate = run[r].vlate /\ N.tools = run[r].tools
      /\ N.tlate = run[r].tlate /\ N.late = (run[r].late \/ (config.at = "returned" /\ config.setup = s))
      /\ N.bad = run[r].bad
  BY <1>0, <1>u, <1>1, <1>2, <1>3 DEF RunRecords
<1>5. run' = [run EXCEPT ![r] = N] /\ UnchangedWorld /\ fut' = fut /\ cache' = cache /\ inflight' = inflight
  BY <1>0, <1>2 DEF Read, UnchangedWorld, service
<1>6. FutStep(r) /\ EntryStep(r)
  BY <1>5, FutureKept, CacheKept
<1>7. RunStep(r) /\ RunsTyped' /\ run'[r] = N
  BY <1>u, <1>0, <1>1, <1>4, <1>5, <1>6, Moves
<1>8. FlightStep(r)
  BY <1>u, <1>0, <1>4, <1>5, <1>7 DEF FlightStep
<1>9. /\ setups[s].current \notin told["setup"][p][s]
      /\ setups[s].current \in told["config"][p][s] => config.at = "returned" /\ config.setup = s
  BY <1>1, <1>i DEF CurrentKnown
<1>b. setups[s].current \notin run[r].bad["setup"]
  BY <1>1, <1>9 DEF ToldKinds
<1>10. RunMarked(r)'
  BY <1>u, <1>0, <1>4, <1>5, <1>7, <1>9, <1>b, <1>i DEF RunMarked, UnderWay, UnchangedWorld
<1>11. ServedMarked(r)' /\ FuturesOpen(r)' /\ WaitsWell(r)' /\ WaitsWellForTools(r)'
  BY <1>u, <1>4, <1>5, <1>7, <1>i DEF ServedMarked, FuturesOpen, WaitsWell, WaitsWellForTools
<1> QED BY <1>6, <1>7, <1>8, <1>10, <1>11, RunStepKeeps

-----------------------------------------------------------------------------
(* A flight lands, those who wait for it wake, a run is cancelled *)

(* The setup is stored, shared and the flight ends.                         *)
LEMMA FetchReturnsKeeps ==
  ASSUME CachesInv, NEW r \in Runs, FetchReturns(r)
  PROVE  CachesInv'
<1>0. PICK p, s : p = run[r].proc /\ s = run[r].setup
  OBVIOUS
<1>u. UnderWay(r) /\ run[r].at = "fetching"
  BY DEF FetchReturns, UnderWay
<1>1. /\ run[r] \in RunRecords /\ p \in Procs /\ s \in Setups
      /\ \A k \in ToldKinds : run[r].bad[k] \subseteq told[k][p][s]
  BY <1>0, <1>u, OwnFacts
<1>i. RunMarked(r) /\ ServedMarked(r)
  BY InvParts
<1>w. UnchangedWorld
  BY DEF FetchReturns, UnchangedWorld, service
<1>g. run[r].got \in Nat /\ run[r].late \in BOOLEAN
  BY <1>1 DEF RunRecords
<1>2. EntryStep(r)
  <2>1. PICK x : x = [val |-> run[r].got, late |-> run[r].late, old |-> FALSE]
    OBVIOUS
  <2>2. x \in Entries /\ x.val = run[r].got /\ x.late = run[r].late
    BY <2>1, <1>g DEF Entries
  <2>3. Cached("setup", run[r].proc, run[r].setup, x)
    BY <2>1 DEF FetchReturns
  <2>4. run[r].at = LeadOf("setup") /\ run[r].proc \in Procs /\ "setup" \in CacheKinds
    BY <1>u, <1>0, <1>1 DEF LeadOf, CacheKinds
  <2> QED BY <2>2, <2>3, <2>4, CacheStored
<1>3. FutStep(r)
  <2>1. Resolve("setup", r, "done", run[r].got)
    BY DEF FetchReturns
  <2>2. run[r].at = LeadOf("setup") /\ "setup" \in CacheKinds
    BY <1>u DEF LeadOf, CacheKinds
  <2> QED BY <1>g, <2>1, <2>2, FutureResolved
<1>4. /\ run[r].at = LeadOf("setup") /\ "setup" \in CacheKinds
      /\ inflight' = [inflight EXCEPT !["setup"][run[r].proc] = Drop(@, {run[r].setup})]
  BY <1>u DEF FetchReturns, Land, LeadOf, CacheKinds
<1>5. CASE fut["setup"][r].is # "pending"
  <2>1. run' = [run EXCEPT ![r] = Ended("failed")]
    BY <1>5 DEF FetchReturns
  <2> QED BY <1>2, <1>3, <1>4, <1>w, <2>1, EndsWell
<1>6. CASE fut["setup"][r].is = "pending"
  <2>1. PICK N : N = [run[r] EXCEPT !.at = "model", !.val = run[r].got, !.via = "own", !.vlate = run[r].late]
    OBVIOUS
  <2>2. /\ N \in RunRecords /\ N.at = "model" /\ N.proc = p /\ N.setup = s /\ N.got = run[r].got
        /\ N.val = run[r].got /\ N.via = "own" /\ N.vlate = run[r].late /\ N.tools = run[r].tools
        /\ N.tlate = run[r].tlate /\ N.late = run[r].late /\ N.bad = run[r].bad
    BY <1>0, <1>1, <2>1 DEF RunRecords, RunStates
  <2>3. run' = [run EXCEPT ![r] = N]
    BY <1>6, <2>1 DEF FetchReturns
  <2>4. RunStep(r) /\ RunsTyped' /\ run'[r] = N
    BY <1>u, <1>1, <1>3, <1>w, <2>2, <2>3, Moves
  <2>5. FlightStep(r)
    BY <1>4, <2>2, <2>4 DEF FlightStep
  <2>6. RunMarked(r)'
    BY <1>u, <1>0, <1>i, <1>w, <2>2, <2>4 DEF RunMarked, UnderWay, UnchangedWorld
  <2>7. ServedMarked(r)'
    <3>1. run[r].got \notin run[r].bad["setup"]
      BY <1>u, <1>i DEF RunMarked
    <3>2. run[r].got \in run[r].bad["config"] => run[r].late
      BY <1>u, <1>i, <1>0, <1>1 DEF RunMarked, ToldKinds
    <3> QED BY <1>i, <2>2, <2>4, <3>1, <3>2 DEF ServedMarked
  <2>8. FuturesOpen(r)' /\ WaitsWell(r)' /\ WaitsWellForTools(r)'
    BY <2>2, <2>4 DEF FuturesOpen, WaitsWell, WaitsWellForTools, LeadOf
  <2> QED BY <1>2, <2>4, <2>5, <2>6, <2>7, <2>8, RunStepKeeps
<1> QED BY <1>5, <1>6

(* A flight that fails resolves its future with nothing.                    *)
LEMMA FlightFails ==
  ASSUME CachesInv, NEW r \in Runs, NEW k \in CacheKinds, NEW how \in {"failed", "cancelled"},
         run[r].at = LeadOf(k), Resolve(k, r, "failed", 0) \/ fut' = fut, Land(k, r), UnchangedWorld,
         cache' = cache, run' = [run EXCEPT ![r] = Ended(how)]
  PROVE  CachesInv'
<1>1. EntryStep(r)
  BY CacheKept
<1>2. FutStep(r)
  <2>1. CASE Resolve(k, r, "failed", 0)
    BY <2>1, FutureResolved
  <2>2. CASE fut' = fut
    BY <2>2, FutureKept
  <2> QED BY <2>1, <2>2
<1>3. inflight' = [inflight EXCEPT ![k][run[r].proc] = Drop(@, {run[r].setup})]
  BY DEF Land
<1> QED BY <1>1, <1>2, <1>3, EndsWell

(* The fetch of a setup fails.                                              *)
LEMMA FetchFailsKeeps ==
  ASSUME CachesInv, NEW r \in Runs, FetchFails(r)
  PROVE  CachesInv'
<1>1. /\ run[r].at = LeadOf("setup") /\ "setup" \in CacheKinds /\ Resolve("setup", r, "failed", 0) /\ Land("setup", r)
      /\ UnchangedWorld /\ cache' = cache /\ run' = [run EXCEPT ![r] = Ended("failed")]
  BY DEF FetchFails, FailFlight, LeadOf, CacheKinds, UnchangedWorld, service
<1> QED BY <1>1, FlightFails

(* The build of the tools fails.                                            *)
LEMMA BuildFailsKeeps ==
  ASSUME CachesInv, NEW r \in Runs, BuildFails(r)
  PROVE  CachesInv'
<1>1. /\ run[r].at = LeadOf("tools") /\ "tools" \in CacheKinds /\ Resolve("tools", r, "failed", 0) /\ Land("tools", r)
      /\ UnchangedWorld /\ cache' = cache /\ run' = [run EXCEPT ![r] = Ended("failed")]
  BY DEF BuildFails, LeadOf, CacheKinds, UnchangedWorld, service
<1> QED BY <1>1, FlightFails

(* A run wakes with the setup of the flight it waited for.                  *)
LEMMA WakeKeeps ==
  ASSUME CachesInv, NEW r \in Runs, Wake(r)
  PROVE  CachesInv'
<1>0. PICK p, s : p = run[r].proc /\ s = run[r].setup
  OBVIOUS
<1>u. UnderWay(r) /\ run[r].at = "waiting"
  BY DEF Wake, UnderWay
<1>1. /\ run[r] \in RunRecords /\ p \in Procs /\ s \in Setups
      /\ \A k \in ToldKinds : run[r].bad[k] \subseteq told[k][p][s]
  BY <1>0, <1>u, OwnFacts
<1>i. TablesTyped /\ RunMarked(r) /\ ServedMarked(r) /\ WaitsWell(r)
  BY InvParts
<1>2. PICK f : f = fut["setup"][run[r].on]
  OBVIOUS
<1>3. /\ f \in Futures
      /\ f.is = "done" => /\ f.val \notin run[r].bad["setup"] /\ (f.val \in run[r].bad["config"] => f.late)
                          /\ (f.val \in told["config"][p][s] => f.late \/ run[r].late)
  <2>1. run[r].on \in Runs
    BY <1>u, <1>i DEF WaitsWell
  <2> QED BY <1>u, <1>0, <1>2, <1>i, <2>1 DEF WaitsWell, TablesTyped, CacheKinds
<1>w. /\ UnchangedWorld /\ fut' = fut /\ cache' = cache /\ inflight' = inflight
  BY DEF Wake, UnchangedWorld, service
<1>4. FutStep(r) /\ EntryStep(r)
  BY <1>w, FutureKept, CacheKept
<1>5. CASE f.is # "done"
  <2>1. run' = [run EXCEPT ![r] = Ended("failed")]
    BY <1>5, <1>2 DEF Wake
  <2> QED BY <1>u, <1>4, <1>w, <2>1, EndsWell
<1>6. CASE f.is = "done"
  <2>1. PICK N : N = [run[r] EXCEPT !.at = "model", !.val = fut["setup"][run[r].on].val, !.via = "future",
                                     !.vlate = fut["setup"][run[r].on].late,
                                     !.late = @ \/ fut["setup"][run[r].on].late]
    OBVIOUS
  <2>v. f.val \in Nat /\ f.late \in BOOLEAN
    BY <1>3 DEF Futures
  <2>r. run[r] \in RunRecords
    BY <1>1
  <2>m. N \in RunRecords
    BY <1>2, <2>r, <2>v, <2>1 DEF RunRecords, RunStates
  <2>2. /\ N \in RunRecords /\ N.at = "model" /\ N.proc = p /\ N.setup = s /\ N.got = run[r].got
        /\ N.val = f.val /\ N.via = "future" /\ N.vlate = f.late /\ N.tools = run[r].tools
        /\ N.tlate = run[r].tlate /\ (N.late <=> run[r].late \/ f.late) /\ N.bad = run[r].bad
    BY <1>0, <1>2, <2>v, <2>r, <2>m, <2>1 DEF RunRecords
  <2>3. run' = [run EXCEPT ![r] = N]
    BY <1>6, <1>2, <2>1 DEF Wake
  <2>4. RunStep(r) /\ RunsTyped' /\ run'[r] = N
    BY <1>u, <1>1, <1>4, <1>w, <2>2, <2>3, Moves
  <2>5. FlightStep(r)
    BY <1>u, <1>w, <2>2, <2>4 DEF FlightStep
  <2>6. RunMarked(r)'
    BY <1>u, <1>0, <1>i, <1>w, <1>3, <1>6, <2>2, <2>4 DEF RunMarked, UnderWay, UnchangedWorld
  <2>7. ServedMarked(r)'
    BY <1>i, <1>3, <1>6, <2>2, <2>4 DEF ServedMarked
  <2>8. FuturesOpen(r)' /\ WaitsWell(r)' /\ WaitsWellForTools(r)'
    BY <2>2, <2>4 DEF FuturesOpen, WaitsWell, WaitsWellForTools, LeadOf
  <2> QED BY <1>4, <2>4, <2>5, <2>6, <2>7, <2>8, RunStepKeeps
<1> QED BY <1>5, <1>6

(* A run that is served its tools and goes on.                               *)
LEMMA Equipped ==
  ASSUME CachesInv, NEW r \in Runs, UnderWay(r), NEW v \in Nat, NEW l \in BOOLEAN,
         run' = [run EXCEPT ![r] = [run[r] EXCEPT !.at = "done", !.tools = v, !.tlate = l]],
         v \in run[r].bad["tools"] => l,
         UnchangedWorld, FutStep(r), EntryStep(r),
         \/ inflight' = inflight /\ run[r].at \notin {"fetching", "building"}
         \/ \E k \in CacheKinds :
              /\ run[r].at = LeadOf(k)
              /\ inflight' = [inflight EXCEPT ![k][run[r].proc] = Drop(@, {run[r].setup})]
  PROVE  CachesInv'
<1>1. run[r] \in RunRecords /\ ServedMarked(r)
  BY OwnFacts, InvParts
<1>2. PICK N : N = [run[r] EXCEPT !.at = "done", !.tools = v, !.tlate = l]
  OBVIOUS
<1>3. /\ N \in RunRecords /\ N.at = "done" /\ N.val = run[r].val /\ N.via = run[r].via /\ N.vlate = run[r].vlate
      /\ N.tools = v /\ N.tlate = l /\ N.bad = run[r].bad
  BY <1>1, <1>2 DEF RunRecords, RunStates
<1>4. RunStep(r) /\ RunsTyped' /\ run'[r] = N
  BY <1>2, <1>3, Moves
<1>5. FlightStep(r)
  <2>1. run'[r].at \notin {"fetching", "building"}
    BY <1>3, <1>4
  <2> QED BY <2>1 DEF FlightStep
<1>6. RunMarked(r)' /\ ServedMarked(r)'
  BY <1>1, <1>3, <1>4 DEF RunMarked, ServedMarked, UnderWay
<1>7. FuturesOpen(r)' /\ WaitsWell(r)' /\ WaitsWellForTools(r)'
  BY <1>3, <1>4 DEF FuturesOpen, WaitsWell, WaitsWellForTools, LeadOf
<1> QED BY <1>4, <1>5, <1>6, <1>7, RunStepKeeps

(* The tools come out of the cache.                                         *)
LEMMA ToolsHitKeeps ==
  ASSUME CachesInv, NEW r \in Runs, ToolsHit(r)
  PROVE  CachesInv'
<1>0. PICK p, s : p = run[r].proc /\ s = run[r].setup
  OBVIOUS
<1>u. UnderWay(r) /\ run[r].at = "model"
  BY DEF ToolsHit, UnderWay
<1>1. /\ p \in Procs /\ s \in Setups /\ run[r].bad["tools"] \subseteq told["tools"][p][s]
  BY <1>0, <1>u, OwnFacts DEF ToldKinds
<1>i. TablesTyped /\ EntriesMarked
  BY InvParts
<1>2. PICK v, l : v = cache["tools"][p][s].val /\ l = cache["tools"][p][s].late
  OBVIOUS
<1>3. v \in Nat /\ l \in BOOLEAN /\ (v \in told["tools"][p][s] => l)
  <2>1. s \in DOMAIN cache["tools"][p]
    BY <1>0 DEF ToolsHit, Live
  <2>2. cache["tools"][p][s] \in Entries
    BY <2>1, <1>1, <1>i DEF TablesTyped, CacheKinds
  <2> QED BY <2>1, <2>2, <1>1, <1>2, <1>i DEF EntriesMarked, Entries
<1>4. /\ run' = [run EXCEPT ![r] = [run[r] EXCEPT !.at = "done", !.tools = v, !.tlate = l]]
      /\ UnchangedWorld /\ fut' = fut /\ cache' = cache /\ inflight' = inflight
  BY <1>0, <1>2 DEF ToolsHit, UnchangedWorld, service
<1>5. FutStep(r) /\ EntryStep(r)
  BY <1>4, FutureKept, CacheKept
<1>6. v \in run[r].bad["tools"] => l
  BY <1>1, <1>3
<1> QED BY <1>u, <1>3, <1>4, <1>5, <1>6, Equipped

(* The tools are stored, shared and the flight ends.                        *)
LEMMA BuildReturnsKeeps ==
  ASSUME CachesInv, NEW r \in Runs, BuildReturns(r)
  PROVE  CachesInv'
<1>0. PICK p, s : p = run[r].proc /\ s = run[r].setup
  OBVIOUS
<1>u. UnderWay(r) /\ run[r].at = "building"
  BY DEF BuildReturns, UnderWay
<1>1. /\ run[r] \in RunRecords /\ p \in Procs /\ s \in Setups
      /\ run[r].bad["tools"] \subseteq told["config"][p][s]
  BY <1>0, <1>u, OwnFacts DEF ToldKinds
<1>w. UnchangedWorld
  BY DEF BuildReturns, UnchangedWorld, service
<1>g. run[r].val \in Nat /\ run[r].late \in BOOLEAN
  BY <1>1 DEF RunRecords
<1>2. EntryStep(r)
  <2>1. PICK x : x = [val |-> run[r].val, late |-> run[r].late, old |-> FALSE]
    OBVIOUS
  <2>2. x \in Entries /\ x.val = run[r].val /\ x.late = run[r].late
    BY <2>1, <1>g DEF Entries
  <2>3. Cached("tools", run[r].proc, run[r].setup, x)
    BY <2>1 DEF BuildReturns
  <2>4. run[r].at = LeadOf("tools") /\ run[r].proc \in Procs /\ "tools" \in CacheKinds /\ "tools" # "setup"
    BY <1>u, <1>0, <1>1 DEF LeadOf, CacheKinds
  <2> QED BY <2>2, <2>3, <2>4, CacheStored
<1>3. FutStep(r)
  <2>1. Resolve("tools", r, "done", run[r].val)
    BY DEF BuildReturns
  <2>2. run[r].at = LeadOf("tools") /\ "tools" \in CacheKinds /\ "tools" # "setup"
    BY <1>u DEF LeadOf, CacheKinds
  <2> QED BY <1>g, <2>1, <2>2, FutureResolved
<1>4. /\ run[r].at = LeadOf("tools") /\ "tools" \in CacheKinds
      /\ inflight' = [inflight EXCEPT !["tools"][run[r].proc] = Drop(@, {run[r].setup})]
  BY <1>u DEF BuildReturns, Land, LeadOf, CacheKinds
<1>5. CASE fut["tools"][r].is # "pending"
  <2>1. run' = [run EXCEPT ![r] = Ended("failed")]
    BY <1>5 DEF BuildReturns
  <2> QED BY <1>2, <1>3, <1>4, <1>w, <2>1, EndsWell
<1>6. CASE fut["tools"][r].is = "pending"
  <2>1. run' = [run EXCEPT ![r] = [run[r] EXCEPT !.at = "done", !.tools = run[r].val, !.tlate = run[r].late]]
    BY <1>6 DEF BuildReturns
  <2>2. run[r].val \in run[r].bad["tools"] => run[r].late
    BY <1>u, <1>0, <1>1, InvParts DEF RunMarked
  <2> QED BY <1>u, <1>2, <1>3, <1>4, <1>w, <1>g, <2>1, <2>2, Equipped
<1> QED BY <1>5, <1>6

(* A run wakes with the tools of the builder it waited for.                 *)
LEMMA WakeToolsKeeps ==
  ASSUME CachesInv, NEW r \in Runs, WakeTools(r)
  PROVE  CachesInv'
<1>u. UnderWay(r) /\ run[r].at = "waitingTools"
  BY DEF WakeTools, UnderWay
<1>i. TablesTyped /\ WaitsWellForTools(r)
  BY InvParts
<1>2. PICK f : f = fut["tools"][run[r].on]
  OBVIOUS
<1>3. f \in Futures /\ (f.is = "done" => (f.val \in run[r].bad["tools"] => f.late))
  <2>1. run[r].on \in Runs
    BY <1>u, <1>i DEF WaitsWellForTools
  <2> QED BY <1>u, <1>2, <1>i, <2>1 DEF WaitsWellForTools, TablesTyped, CacheKinds
<1>w. /\ UnchangedWorld /\ fut' = fut /\ cache' = cache /\ inflight' = inflight
  BY DEF WakeTools, UnchangedWorld, service
<1>4. FutStep(r) /\ EntryStep(r)
  BY <1>w, FutureKept, CacheKept
<1>5. CASE f.is # "done"
  <2>1. run' = [run EXCEPT ![r] = Ended("failed")]
    BY <1>5, <1>2 DEF WakeTools
  <2> QED BY <1>u, <1>4, <1>w, <2>1, EndsWell
<1>6. CASE f.is = "done"
  <2>1. PICK v, l : v = f.val /\ l = f.late
    OBVIOUS
  <2>2. v \in Nat /\ l \in BOOLEAN
    BY <1>3, <2>1 DEF Futures
  <2>3. run' = [run EXCEPT ![r] = [run[r] EXCEPT !.at = "done", !.tools = v, !.tlate = l]]
    BY <1>6, <1>2, <2>1 DEF WakeTools
  <2>4. v \in run[r].bad["tools"] => l
    BY <1>3, <1>6, <2>1
  <2> QED BY <1>u, <1>4, <1>w, <2>2, <2>3, <2>4, Equipped
<1> QED BY <1>5, <1>6

(* A run is cancelled where it awaits; one that waits takes the future along.*)
LEMMA CancelRunKeeps ==
  ASSUME CachesInv, NEW r \in Runs, CancelRun(r)
  PROVE  CachesInv'
<1>w. UnchangedWorld /\ cache' = cache /\ run' = [run EXCEPT ![r] = Ended("cancelled")]
  BY DEF CancelRun, UnchangedWorld, service
<1>e. EntryStep(r)
  BY <1>w, CacheKept
<1>i. TablesTyped /\ WaitsWell(r) /\ WaitsWellForTools(r)
  BY InvParts
<1>1. CASE CancelFetch(r)
  <2>1. /\ run[r].at = LeadOf("setup") /\ "setup" \in CacheKinds /\ Resolve("setup", r, "failed", 0)
        /\ Land("setup", r)
    BY <1>1 DEF CancelFetch, FailFlight, LeadOf, CacheKinds
  <2> QED BY <1>w, <2>1, FlightFails
<1>2. CASE CancelBuild(r)
  <2>1. /\ run[r].at = LeadOf("tools") /\ "tools" \in CacheKinds /\ fut' = fut /\ Land("tools", r)
    BY <1>2 DEF CancelBuild, AbandonFuture, LeadOf, CacheKinds
  <2> QED BY <1>w, <2>1, FlightFails
<1>3. CASE CancelWait(r)
  <2>1. PICK k : k = IF run[r].at = "waiting" THEN "setup" ELSE "tools"
    OBVIOUS
  <2>2. PICK q : q = run[r].on
    OBVIOUS
  <2>3. k \in CacheKinds /\ q \in Runs /\ run[r].at \in {"waiting", "waitingTools"} /\ inflight' = inflight
    BY <1>3, <1>i, <2>1, <2>2 DEF CancelWait, WaitsWell, WaitsWellForTools, CacheKinds
  <2>4. PICK F : F = [fut[k][q] EXCEPT !.is = IF @ = "pending" THEN "cancelled" ELSE @]
    OBVIOUS
  <2>5. fut \in [CacheKinds -> [Runs -> Futures]] /\ fut[k][q] \in Futures
    BY <1>i, <2>3 DEF TablesTyped
  <2>6. F \in Futures /\ (F = fut[k][q] \/ (fut[k][q].is = "pending" /\ F.is = "cancelled"))
    BY <2>4, <2>5 DEF Futures
  <2>7. fut' = Replaced(fut, k, q, F)
    BY <1>3, <2>1, <2>2, <2>4 DEF CancelWait, Replaced
  <2>8. /\ fut' \in [CacheKinds -> [Runs -> Futures]] /\ fut'[k][q] = F
        /\ \A l \in CacheKinds, j \in Runs : l # k \/ j # q => fut'[l][j] = fut[l][j]
    BY <2>3, <2>5, <2>6, <2>7, OneFuture
  <2>9. \A l \in CacheKinds, j \in Runs : fut'[l][j] = fut[l][j] \/ (fut[l][j].is = "pending" /\ fut'[l][j].is = "cancelled")
    BY <2>6, <2>8
  <2>10. FutStep(r)
    BY <2>8, <2>9 DEF FutStep, CacheKinds
  <2> QED BY <1>w, <1>e, <2>3, <2>10, EndsWell
<1>4. CASE run[r].at \in {"access", "model"} /\ UNCHANGED <<fut, inflight>>
  <2>1. FutStep(r)
    BY <1>4, FutureKept
  <2> QED BY <1>w, <1>e, <1>4, <2>1, EndsWell
<1> QED BY <1>1, <1>2, <1>3, <1>4 DEF CancelRun

-----------------------------------------------------------------------------
(* Steps that no run notices *)

(* Of the caches nothing new is stored.                                      *)
EntriesShrink ==
  /\ Nested(cache')
  /\ \A k \in CacheKinds, p \in Procs : \A s \in DOMAIN cache'[k][p] :
       /\ s \in DOMAIN cache[k][p] /\ cache'[k][p][s] \in Entries
       /\ cache'[k][p][s].val = cache[k][p][s].val /\ cache'[k][p][s].late = cache[k][p][s].late

(* Caches that do not change do not grow.                                   *)
LEMMA SameEntries ==
  ASSUME CachesInv, cache' = cache
  PROVE  EntriesShrink
BY InvParts DEF EntriesShrink, TablesTyped

(* Forgetting shrinks one table and leaves the others.                      *)
LEMMA DroppedEntries ==
  ASSUME CachesInv, NEW k \in CacheKinds, NEW p \in Procs, NEW S, cache' = [cache EXCEPT ![k][p] = Drop(@, S)]
  PROVE  /\ EntriesShrink /\ DOMAIN cache'[k][p] = DOMAIN cache[k][p] \ S
         /\ \A l \in CacheKinds, q \in Procs : l # k \/ q # p => cache'[l][q] = cache[l][q]
<1>1. PICK T : T = Drop(cache[k][p], S)
  OBVIOUS
<1>i. TablesTyped
  BY InvParts
<1>2. cache' = Replaced(cache, k, p, T) /\ Nested(cache)
  BY <1>1, <1>i DEF Replaced, TablesTyped
<1>n. /\ Nested(Replaced(cache, k, p, T)) /\ Replaced(cache, k, p, T)[k][p] = T
      /\ \A l \in CacheKinds, q \in Procs : l # k \/ q # p => Replaced(cache, k, p, T)[l][q] = cache[l][q]
  BY <1>2, OneTable
<1>3. /\ Nested(cache') /\ cache'[k][p] = T
      /\ \A l \in CacheKinds, q \in Procs : l # k \/ q # p => cache'[l][q] = cache[l][q]
  BY <1>2, <1>n
<1>4. DOMAIN T = DOMAIN cache[k][p] \ S /\ \A s \in DOMAIN T : s \in DOMAIN cache[k][p] /\ T[s] = cache[k][p][s]
  BY <1>1 DEF Drop
<1>5. ASSUME NEW l \in CacheKinds, NEW q \in Procs, NEW o \in DOMAIN cache'[l][q]
      PROVE  o \in DOMAIN cache[l][q] /\ cache'[l][q][o] = cache[l][q][o] /\ cache'[l][q][o] \in Entries
  <2>1. o \in DOMAIN cache[l][q] /\ cache'[l][q][o] = cache[l][q][o]
    BY <1>3, <1>4
  <2> QED BY <2>1, <1>i DEF TablesTyped
<1> QED BY <1>3, <1>4, <1>5 DEF EntriesShrink

(* Entries stay marked when neither they nor what is known grows.           *)
LEMMA ShrinkKeeps ==
  ASSUME CachesInv, EntriesShrink,
         \A k \in ToldKinds, p \in Procs, s \in Setups : told'[k][p][s] \subseteq told[k][p][s]
  PROVE  EntriesMarked'
<1>1. EntriesMarked
  BY InvParts
<1>2. ASSUME NEW p \in Procs, NEW s \in DOMAIN cache'["setup"][p] \cap Setups,
             cache'["setup"][p][s].val \in told'["setup"][p][s] \cup told'["config"][p][s]
      PROVE  cache'["setup"][p][s].late
  <2>1. /\ s \in DOMAIN cache["setup"][p] \cap Setups /\ cache'["setup"][p][s].val = cache["setup"][p][s].val
        /\ cache'["setup"][p][s].late = cache["setup"][p][s].late
    BY <1>2 DEF EntriesShrink, CacheKinds
  <2>2. cache["setup"][p][s].val \in told["setup"][p][s] \cup told["config"][p][s]
    BY <1>2, <2>1 DEF ToldKinds
  <2> QED BY <1>1, <2>1, <2>2 DEF EntriesMarked
<1>3. ASSUME NEW p \in Procs, NEW s \in DOMAIN cache'["tools"][p] \cap Setups,
             cache'["tools"][p][s].val \in told'["tools"][p][s]
      PROVE  cache'["tools"][p][s].late
  <2>1. /\ s \in DOMAIN cache["tools"][p] \cap Setups /\ cache'["tools"][p][s].val = cache["tools"][p][s].val
        /\ cache'["tools"][p][s].late = cache["tools"][p][s].late
    BY <1>3 DEF EntriesShrink, CacheKinds
  <2>2. cache["tools"][p][s].val \in told["tools"][p][s]
    BY <1>3, <2>1 DEF ToldKinds
  <2> QED BY <1>1, <2>1, <2>2 DEF EntriesMarked
<1> QED BY <1>2, <1>3 DEF EntriesMarked

(* A step that no run notices.                                               *)
LEMMA QuietKeeps ==
  ASSUME CachesInv, ServiceTyped', UNCHANGED <<setups, cut, run, fut, told, inflight>>,
         config.at = "returned" => config' = config, EntriesShrink
  PROVE  CachesInv'
<1>i. /\ RunsTyped /\ TablesTyped /\ ToldTyped /\ CurrentKnown /\ Flights /\ \A r \in Runs : RunTrue(r)
  BY DEF CachesInv
<1>1. RunsTyped' /\ ToldTyped' /\ CurrentKnown'
  BY <1>i DEF RunsTyped, ToldTyped, CurrentKnown, UnderWay
<1>2. TablesTyped'
  <2>1. Nested(inflight)' /\ fut' \in [CacheKinds -> [Runs -> Futures]]
    BY <1>i DEF TablesTyped, Nested
  <2>2. Nested(cache)' /\ \A k \in CacheKinds, p \in Procs : \A s \in DOMAIN cache'[k][p] : cache'[k][p][s] \in Entries
    BY DEF EntriesShrink, Nested
  <2> QED BY <2>1, <2>2 DEF TablesTyped
<1>3. EntriesMarked'
  <2>1. \A k \in ToldKinds, p \in Procs, s \in Setups : told'[k][p][s] \subseteq told[k][p][s]
    OBVIOUS
  <2> QED BY <2>1, ShrinkKeeps
<1>4. Flights'
  BY <1>i DEF Flights, FlightTrue
<1>5. ASSUME NEW r \in Runs PROVE RunTrue(r)'
  BY <1>i DEF RunTrue, RunMarked, ServedMarked, Leads, FuturesOpen, WaitsWell, WaitsWellForTools,
     UnderWay
<1> QED BY <1>1, <1>2, <1>3, <1>4, <1>5 DEF CachesInv

(* The stages of a manager's call before it has written and after.           *)
LEMMA CallKeeps ==
  ASSUME CachesInv, call' \in [Calls -> CallRecords],
         \A c \in Calls : /\ call'[c].at # "idle" => call'[c].setup \in Setups
                          /\ call'[c].superseded \subseteq 1..cut,
         UNCHANGED <<setups, cut, cache, inflight, fut, run, config, wire, told>>
  PROVE  CachesInv'
<1>1. ServiceTyped'
  BY InvParts DEF ServiceTyped
<1>2. EntriesShrink
  BY SameEntries
<1> QED BY <1>1, <1>2, QuietKeeps

(* The record of a call that has not been made.                             *)
LEMMA NoCallRecord ==
  /\ NoCall \in CallRecords /\ NoCall.superseded = {} /\ NoCall.setup = Idle.setup /\ NoCall.at = "idle"
  /\ NoCall.action = "none"
<1>1. /\ NoCall.at = "idle" /\ NoCall.proc = Idle.proc /\ NoCall.action = "none" /\ NoCall.setup = Idle.setup
      /\ NoCall.orphan = FALSE /\ NoCall.superseded = {}
  BY DEF NoCall
<1>2. NoCall = [at |-> NoCall.at, proc |-> NoCall.proc, as |-> NoCall.as, action |-> NoCall.action,
                setup |-> NoCall.setup, orphan |-> NoCall.orphan, superseded |-> NoCall.superseded]
  BY DEF NoCall
<1>3. Idle.proc \in Procs
  BY IdleRecord
<1>4. PICK k : k = NoCall.as
  OBVIOUS
<1>5. NoCall \in CallRecords
  BY <1>1, <1>2, <1>3, <1>4 DEF CallRecords
<1> QED BY <1>1, <1>5

(* One call moves on, the others stay typed.                                *)
LEMMA CallMoves ==
  ASSUME CachesInv, NEW c \in Calls, NEW N \in CallRecords, call' = [call EXCEPT ![c] = N],
         N.at # "idle" => N.setup \in Setups, N.superseded \subseteq 1..cut
  PROVE  /\ call' \in [Calls -> CallRecords]
         /\ \A d \in Calls : /\ call'[d].at # "idle" => call'[d].setup \in Setups
                             /\ call'[d].superseded \subseteq 1..cut
BY InvParts DEF ServiceTyped

(* An agent calls a manager.                                                *)
LEMMA StartCallKeeps ==
  ASSUME CachesInv, NEW c \in Calls, NEW kind \in Kinds, NEW s \in Setups, NEW action \in ServiceActions,
         StartCall(c, kind, action, s)
  PROVE  CachesInv'
<1>1. PICK N : N = [NoCall EXCEPT
                !.at = IF action = "create" THEN "write"
                       ELSE IF action = "search" THEN "reply" ELSE "gate",
                !.proc = AgentAt[c], !.as = kind, !.action = action, !.setup = s]
  OBVIOUS
<1>2. AgentAt[c] \in Procs
  BY CachesAssumption
<1>3. N \in CallRecords /\ N.setup = s /\ N.superseded = {}
  BY <1>1, <1>2, NoCallRecord DEF CallRecords
<1>4. /\ call' = [call EXCEPT ![c] = N]
      /\ UNCHANGED <<setups, cut, cache, inflight, fut, run, config, wire, told>>
  BY <1>1 DEF StartCall, service
<1>5. /\ call' \in [Calls -> CallRecords]
      /\ \A d \in Calls : /\ call'[d].at # "idle" => call'[d].setup \in Setups
                          /\ call'[d].superseded \subseteq 1..cut
  BY <1>3, <1>4, CallMoves
<1> QED BY <1>4, <1>5, CallKeeps

(* The record of a call that is over.                                       *)
LEMMA ClosedRecord ==
  ASSUME NEW how \in {"failed", "done"}, Setups # {}
  PROVE  Closed(how) \in CallRecords /\ Closed(how).setup \in Setups /\ Closed(how).superseded = {}
<1>1. Idle.setup \in Setups
  BY DEF Idle
<1>2. Closed(how) = [NoCall EXCEPT !.at = how]
  BY DEF Closed
<1> QED BY <1>1, <1>2, NoCallRecord DEF CallRecords

(* A call fails, and nothing is invalidated.                                *)
LEMMA CallFailsKeeps ==
  ASSUME CachesInv, NEW c \in Calls, CallFails(c)
  PROVE  CachesInv'
<1>1. PICK N : N = Closed("failed")
  OBVIOUS
<1>2. Setups # {}
  BY InvParts DEF ServiceTyped, CallFails
<1>3. N \in CallRecords /\ N.setup \in Setups /\ N.superseded = {}
  BY <1>1, <1>2, ClosedRecord
<1>4. /\ call' = [call EXCEPT ![c] = N]
      /\ UNCHANGED <<setups, cut, cache, inflight, fut, run, config, wire, told>>
  BY <1>1 DEF CallFails, service
<1>5. /\ call' \in [Calls -> CallRecords]
      /\ \A d \in Calls : /\ call'[d].at # "idle" => call'[d].setup \in Setups
                          /\ call'[d].superseded \subseteq 1..cut
  BY <1>3, <1>4, CallMoves
<1> QED BY <1>4, <1>5, CallKeeps

(* A call goes on to its next stage.                                         *)
LEMMA GoesOnKeeps ==
  ASSUME CachesInv, NEW c \in Calls, EnsureKind(c) \/ KindKnown(c) \/ ReRead(c)
  PROVE  CachesInv'
<1>1. call[c] \in CallRecords /\ call[c].setup \in Setups /\ call[c].superseded \subseteq 1..cut
  BY InvParts DEF ServiceTyped, EnsureKind, KindKnown, ReRead
<1>u. UNCHANGED <<setups, cut, cache, inflight, fut, run, config, wire, told>>
  BY DEF EnsureKind, KindKnown, ReRead, service
<1>2. \E a \in {"kind", "failed", "write", "reply"}, o \in BOOLEAN :
        call' = [call EXCEPT ![c] = [call[c] EXCEPT !.at = a, !.orphan = o]]
  <2>1. CASE EnsureKind(c)
    <3>1. call' = [call EXCEPT ![c].at = "kind"]
      BY <2>1 DEF EnsureKind
    <3>2. [call[c] EXCEPT !.at = "kind"] = [call[c] EXCEPT !.at = "kind", !.orphan = call[c].orphan]
      BY <1>1 DEF CallRecords
    <3>3. call' = [call EXCEPT ![c] = [call[c] EXCEPT !.at = "kind", !.orphan = call[c].orphan]]
      BY <3>1, <3>2
    <3> QED BY <1>1, <3>3 DEF CallRecords
  <2>2. CASE ReRead(c)
    <3>1. call' = [call EXCEPT ![c].at = "reply"]
      BY <2>2 DEF ReRead
    <3>2. [call[c] EXCEPT !.at = "reply"] = [call[c] EXCEPT !.at = "reply", !.orphan = call[c].orphan]
      BY <1>1 DEF CallRecords
    <3>3. call' = [call EXCEPT ![c] = [call[c] EXCEPT !.at = "reply", !.orphan = call[c].orphan]]
      BY <3>1, <3>2
    <3> QED BY <1>1, <3>3 DEF CallRecords
  <2>3. CASE KindKnown(c)
    <3>1. PICK kind : kind = DiscoverById(Backing[call[c].setup])
      OBVIOUS
    <3>2. PICK a : a = IF ~(Passes(c, kind) \/ Orphaned(c, kind)) THEN "failed"
                         ELSE IF call[c].action \in Writes THEN "write" ELSE "reply"
      OBVIOUS
    <3>3. call' = [call EXCEPT ![c].at = a, ![c].orphan = Orphaned(c, kind)]
      BY <2>3, <3>1, <3>2 DEF KindKnown
    <3>4. a \in {"failed", "write", "reply"} /\ Orphaned(c, kind) \in BOOLEAN
      BY <3>2 DEF Orphaned
    <3>5. call' = [call EXCEPT ![c] = [call[c] EXCEPT !.at = a, !.orphan = Orphaned(c, kind)]]
      BY <3>3
    <3> QED BY <3>4, <3>5
  <2> QED BY <2>1, <2>2, <2>3
<1>3. PICK a \in {"kind", "failed", "write", "reply"}, o \in BOOLEAN :
        call' = [call EXCEPT ![c] = [call[c] EXCEPT !.at = a, !.orphan = o]]
  BY <1>2
<1>4. PICK N : N = [call[c] EXCEPT !.at = a, !.orphan = o]
  OBVIOUS
<1>5. N \in CallRecords /\ N.setup = call[c].setup /\ N.superseded = call[c].superseded
  BY <1>1, <1>4 DEF CallRecords
<1>6. /\ call' \in [Calls -> CallRecords]
      /\ \A d \in Calls : /\ call'[d].at # "idle" => call'[d].setup \in Setups
                          /\ call'[d].superseded \subseteq 1..cut
  BY <1>1, <1>3, <1>4, <1>5, CallMoves
<1> QED BY <1>u, <1>6, CallKeeps

(* A module leaves the registry or comes back.                              *)
LEMMA ModuleKeeps ==
  ASSUME CachesInv, NEW m \in Modules, ModuleLeaves(m) \/ ModuleReturns(m)
  PROVE  CachesInv'
<1>1. UNCHANGED <<setups, cut, cache, inflight, fut, run, call, config, wire, told>>
  BY DEF ModuleLeaves, ModuleReturns, Register, Deregister
<1>2. ServiceTyped'
  BY <1>1, InvParts DEF ServiceTyped
<1>3. EntriesShrink
  BY <1>1, SameEntries
<1> QED BY <1>1, <1>2, <1>3, QuietKeeps

(* An entry outlives its time: it is as marked as before.                   *)
LEMMA ExpireKeeps ==
  ASSUME CachesInv, NEW k \in CacheKinds, NEW p \in Procs, NEW s \in Setups, Expire(k, p, s)
  PROVE  CachesInv'
<1>1. UNCHANGED <<setups, cut, inflight, fut, run, call, config, wire, told>>
  BY DEF Expire, service
<1>i. TablesTyped
  BY InvParts
<1>2. ServiceTyped'
  BY <1>1, InvParts DEF ServiceTyped
<1>3. PICK e : e = [cache[k][p][s] EXCEPT !.old = TRUE]
  OBVIOUS
<1>4. s \in DOMAIN cache[k][p] /\ cache[k][p][s] \in Entries
  BY <1>i DEF Expire, Live, TablesTyped
<1>5. e \in Entries /\ e.val = cache[k][p][s].val /\ e.late = cache[k][p][s].late
  BY <1>3, <1>4 DEF Entries
<1>6. PICK T : T = [cache[k][p] EXCEPT ![s] = e]
  OBVIOUS
<1>7. DOMAIN T = DOMAIN cache[k][p] /\ \A o \in DOMAIN T : T[o] = IF o = s THEN e ELSE cache[k][p][o]
  BY <1>4, <1>6
<1>8. cache' = Replaced(cache, k, p, T) /\ Nested(cache)
  BY <1>3, <1>6, <1>i DEF Expire, Replaced, TablesTyped
<1>n. /\ Nested(Replaced(cache, k, p, T)) /\ Replaced(cache, k, p, T)[k][p] = T
      /\ \A l \in CacheKinds, q \in Procs : l # k \/ q # p => Replaced(cache, k, p, T)[l][q] = cache[l][q]
  BY <1>8, OneTable
<1>9. ASSUME NEW l \in CacheKinds, NEW q \in Procs, NEW o \in DOMAIN cache'[l][q]
      PROVE  /\ o \in DOMAIN cache[l][q] /\ cache'[l][q][o] \in Entries
             /\ cache'[l][q][o].val = cache[l][q][o].val /\ cache'[l][q][o].late = cache[l][q][o].late
  <2>1. CASE l = k /\ q = p
    <3>1. cache'[l][q] = T
      BY <2>1, <1>8, <1>n
    <3>2. o \in DOMAIN cache[l][q] /\ cache[l][q][o] \in Entries
      BY <3>1, <2>1, <1>7, <1>9, <1>i DEF TablesTyped
    <3> QED BY <3>1, <3>2, <2>1, <1>5, <1>7
  <2>2. CASE l # k \/ q # p
    <3>1. cache'[l][q] = cache[l][q]
      BY <2>2, <1>8, <1>n
    <3>2. o \in DOMAIN cache[l][q] /\ cache[l][q][o] \in Entries
      BY <3>1, <1>9, <1>i DEF TablesTyped
    <3> QED BY <3>1, <3>2
  <2> QED BY <2>1, <2>2
<1>10. EntriesShrink
  BY <1>8, <1>n, <1>9 DEF EntriesShrink
<1> QED BY <1>1, <1>2, <1>10, QuietKeeps

(* A ConfigSetupModule request starts or fails.                             *)
LEMMA ConfigBeginsKeeps ==
  ASSUME CachesInv, ConfigFails \/ \E s \in Setups : ConfigStart(Configured, s)
  PROVE  CachesInv'
<1>i. ServiceTyped
  BY InvParts
<1>1. CASE ConfigFails
  <2>1. /\ UNCHANGED <<setups, cut, cache, inflight, fut, run, call, wire, told>> /\ config' = NoConfig
        /\ config.at = "running"
    BY <1>1 DEF ConfigFails, service
  <2>2. NoConfig \in ConfigRecords /\ NoConfig.val = 0 /\ NoConfig.at = "idle"
    <3>1. PICK p, s : p = Idle.proc /\ s = Idle.setup
      OBVIOUS
    <3>2. NoConfig = [at |-> "idle", proc |-> p, setup |-> s, val |-> 0] /\ p \in Procs
      BY <3>1, IdleRecord DEF NoConfig
    <3> QED BY <3>1, <3>2 DEF ConfigRecords
  <2>3. ServiceTyped'
    BY <2>1, <2>2, <1>i DEF ServiceTyped
  <2>4. EntriesShrink
    BY <2>1, SameEntries
  <2> QED BY <2>1, <2>3, <2>4, QuietKeeps
<1>2. ASSUME NEW s \in Setups, ConfigStart(Configured, s) PROVE CachesInv'
  <2>1. /\ UNCHANGED <<setups, cut, inflight, fut, run, call, wire, told>>
        /\ config' = [at |-> "running", proc |-> Configured, setup |-> s, val |-> 0]
        /\ config.at = "idle" /\ cache' = [cache EXCEPT !["setup"][Configured] = Drop(@, {s})]
    BY <1>2 DEF ConfigStart, service
  <2>2. config' \in ConfigRecords /\ config'.val = 0 /\ config'.setup = s
    BY <2>1, CachesAssumption DEF ConfigRecords
  <2>3. ServiceTyped'
    BY <2>1, <2>2, <1>i DEF ServiceTyped
  <2>4. EntriesShrink
    BY <2>1, CachesAssumption, DroppedEntries DEF CacheKinds
  <2> QED BY <2>1, <2>3, <2>4, QuietKeeps
<1> QED BY <1>1, <1>2

-----------------------------------------------------------------------------
(* A version is current again *)

(* What the runs of a setup hold of the world shrinks when a version of it   *)
(* is current again.                                                         *)
LEMMA RevivedRun ==
  ASSUME CachesInv, NEW s \in Setups, Revived(s), NEW j \in Runs
  PROVE  /\ run'[j] \in RunRecords /\ run'[j].at = run[j].at /\ run'[j].proc = run[j].proc
         /\ run'[j].setup = run[j].setup /\ run'[j].on = run[j].on /\ run'[j].got = run[j].got
         /\ run'[j].val = run[j].val /\ run'[j].via = run[j].via /\ run'[j].vlate = run[j].vlate
         /\ run'[j].tools = run[j].tools /\ run'[j].tlate = run[j].tlate /\ run'[j].late = run[j].late
         /\ \A k \in ToldKinds :
              run'[j].bad[k] = IF run[j].setup = s THEN run[j].bad[k] \ {setups'[s].current} ELSE run[j].bad[k]
<1>1. run[j] \in RunRecords
  BY InvParts DEF RunsTyped
<1>2. CASE run[j].setup # s
  <2>1. run'[j] = run[j]
    BY <1>2 DEF Revived
  <2> QED BY <2>1, <1>1, <1>2
<1>3. CASE run[j].setup = s
  <2>1. PICK B : B = [k \in DOMAIN run[j].bad |-> run[j].bad[k] \ {setups'[s].current}]
    OBVIOUS
  <2>2. run[j].bad \in [ToldKinds -> SUBSET Nat]
    BY <1>1 DEF RunRecords
  <2>3. B \in [ToldKinds -> SUBSET Nat] /\ \A k \in ToldKinds : B[k] = run[j].bad[k] \ {setups'[s].current}
    BY <2>1, <2>2
  <2>4. run'[j] = [run[j] EXCEPT !.bad = B]
    BY <1>3, <2>1 DEF Revived
  <2>5. run'[j] \in RunRecords
    BY <1>1, <2>3, <2>4 DEF RunRecords
  <2>6. /\ run'[j].at = run[j].at /\ run'[j].proc = run[j].proc /\ run'[j].bad = B
        /\ run'[j].setup = run[j].setup /\ run'[j].on = run[j].on /\ run'[j].got = run[j].got
        /\ run'[j].val = run[j].val /\ run'[j].via = run[j].via /\ run'[j].vlate = run[j].vlate
        /\ run'[j].tools = run[j].tools /\ run'[j].tlate = run[j].tlate /\ run'[j].late = run[j].late
    BY <1>1, <2>4 DEF RunRecords
  <2> QED BY <1>3, <2>3, <2>5, <2>6
<1> QED BY <1>2, <1>3

(* A version that is current again is struck off everywhere.                *)
LEMMA RevivedTold ==
  ASSUME CachesInv, NEW s \in Setups, Revived(s)
  PROVE  /\ told' = [k \in ToldKinds |-> [p \in Procs |-> [told[k][p] EXCEPT ![s] = @ \ {setups'[s].current}]]]
         /\ \A k \in ToldKinds, p \in Procs, t \in Setups :
              told'[k][p][t] = IF t = s THEN told[k][p][t] \ {setups'[s].current} ELSE told[k][p][t]
<1>1. told \in [ToldKinds -> [Procs -> [Setups -> SUBSET (1..cut)]]]
  BY InvParts DEF ToldTyped
<1>2. told' = [k \in ToldKinds |-> [p \in Procs |-> [told[k][p] EXCEPT ![s] = @ \ {setups'[s].current}]]]
  BY <1>1 DEF Revived
<1> QED BY <1>1, <1>2

(* What any change of the setups keeps that strikes off the new current version. *)
LEMMA RevivedKeeps ==
  ASSUME CachesInv, NEW s \in Setups, Revived(s), ServiceTyped', cut <= cut',
         \A t \in Setups \ {s} : setups'[t] = setups[t],
         UNCHANGED <<cache, inflight, fut>>,
         config' = config \/ (config'.at = "idle" /\ config.setup = s)
  PROVE  CachesInv'
<1>i. /\ ServiceTyped /\ RunsTyped /\ TablesTyped /\ ToldTyped /\ CurrentKnown /\ EntriesMarked /\ Flights
      /\ \A j \in Runs : RunTrue(j)
  BY DEF CachesInv
<1>t. \A k \in ToldKinds, p \in Procs, t \in Setups :
        told'[k][p][t] = IF t = s THEN told[k][p][t] \ {setups'[s].current} ELSE told[k][p][t]
  BY RevivedTold
<1>u. \A k \in ToldKinds, p \in Procs, t \in Setups : told'[k][p][t] \subseteq told[k][p][t]
  <2> SUFFICES ASSUME NEW k \in ToldKinds, NEW p \in Procs, NEW t \in Setups
               PROVE  told'[k][p][t] \subseteq told[k][p][t]
    OBVIOUS
  <2>1. told'[k][p][t] = IF t = s THEN told[k][p][t] \ {setups'[s].current} ELSE told[k][p][t]
    BY <1>t
  <2> QED BY <2>1
<1>r. \A j \in Runs :
         /\ run'[j] \in RunRecords /\ run'[j].at = run[j].at /\ run'[j].proc = run[j].proc
         /\ run'[j].setup = run[j].setup /\ run'[j].on = run[j].on /\ run'[j].got = run[j].got
         /\ run'[j].val = run[j].val /\ run'[j].via = run[j].via /\ run'[j].vlate = run[j].vlate
         /\ run'[j].tools = run[j].tools /\ run'[j].tlate = run[j].tlate /\ run'[j].late = run[j].late
         /\ \A k \in ToldKinds :
              run'[j].bad[k] = IF run[j].setup = s THEN run[j].bad[k] \ {setups'[s].current} ELSE run[j].bad[k]
  BY RevivedRun
<1>b. \A j \in Runs, k \in ToldKinds : run'[j].bad[k] \subseteq run[j].bad[k]
  BY <1>r
<1>1. RunsTyped'
  <2>1. run' = [j \in Runs |-> run'[j]]
    BY DEF Revived
  <2>2. run' \in [Runs -> RunRecords]
    BY <1>r, <2>1
  <2>3. \A j \in Runs : run'[j].at = run[j].at /\ run'[j].setup = run[j].setup /\ run'[j].got = run[j].got
    BY <1>r
  <2> QED BY <2>2, <2>3, <1>i DEF RunsTyped, UnderWay
<1>2. ToldTyped'
  <2>1. cut \in Nat /\ cut' \in Nat
    BY <1>i DEF ServiceTyped
  <2>2. 1..cut \subseteq 1..cut'
    BY <2>1
  <2>3. told' = [k \in ToldKinds |-> [p \in Procs |-> [told[k][p] EXCEPT ![s] = @ \ {setups'[s].current}]]]
    BY RevivedTold
  <2>4. told \in [ToldKinds -> [Procs -> [Setups -> SUBSET (1..cut')]]]
    BY <1>i, <2>2 DEF ToldTyped
  <2>5. told' \in [ToldKinds -> [Procs -> [Setups -> SUBSET (1..cut')]]]
    BY <2>3, <2>4
  <2>6. \A p \in Procs, t \in Setups : told'["tools"][p][t] = told'["config"][p][t]
    <3> SUFFICES ASSUME NEW p \in Procs, NEW t \in Setups
                 PROVE  told'["tools"][p][t] = told'["config"][p][t]
      OBVIOUS
    <3>1. \A k \in ToldKinds :
            told'[k][p][t] = IF t = s THEN told[k][p][t] \ {setups'[s].current} ELSE told[k][p][t]
      BY <1>t
    <3>2. told["tools"][p][t] = told["config"][p][t]
      BY <1>i DEF ToldTyped
    <3> QED BY <3>1, <3>2 DEF ToldKinds
  <2> QED BY <2>5, <2>6 DEF ToldTyped
<1>3. CurrentKnown'
  <2> SUFFICES ASSUME NEW p \in Procs, NEW t \in Setups
               PROVE  /\ setups'[t].current \notin told'["setup"][p][t]
                      /\ setups'[t].current \in told'["config"][p][t] => config'.at = "returned" /\ config'.setup = t
    BY DEF CurrentKnown
  <2>1. CASE t = s
    BY <2>1, <1>t DEF ToldKinds
  <2>2. CASE t # s
    <3>1. /\ setups'[t] = setups[t] /\ told'["setup"][p][t] = told["setup"][p][t]
          /\ told'["config"][p][t] = told["config"][p][t]
      BY <2>2, <1>t DEF ToldKinds
    <3>2. config.at = "returned" /\ config.setup = t => config' = config
      BY <2>2
    <3> QED BY <3>1, <3>2, <1>i DEF CurrentKnown
  <2> QED BY <2>1, <2>2
<1>4. EntriesMarked'
  BY <1>u, SameEntries, ShrinkKeeps
<1>5. Flights'
  <2> SUFFICES ASSUME NEW k \in CacheKinds, NEW p \in Procs, NEW t \in DOMAIN inflight[k][p]
               PROVE  FlightTrue(k, p, t, inflight[k][p][t])'
    BY Zenon DEF Flights
  <2>1. PICK q : q = inflight[k][p][t]
    OBVIOUS
  <2>2. FlightTrue(k, p, t, q)
    BY <2>1, <1>i DEF Flights
  <2>3. t \in Setups
    BY <2>2, <1>i DEF FlightTrue, RunsTyped, UnderWay, LeadOf
  <2>4. told'["setup"][p][t] \subseteq told["setup"][p][t]
    BY <2>3, <1>u DEF ToldKinds
  <2>5. q \in Runs
    BY <2>2 DEF FlightTrue
  <2>6. FlightTrue(k, p, t, q)'
    BY <2>2, <2>4, <2>5, <1>r DEF FlightTrue
  <2> QED BY <2>1, <2>6
<1>6. TablesTyped'
  BY <1>i DEF TablesTyped, Nested
<1>7. ASSUME NEW j \in Runs PROVE RunTrue(j)'
  <2>i. RunMarked(j) /\ ServedMarked(j) /\ Leads(j) /\ FuturesOpen(j) /\ WaitsWell(j) /\ WaitsWellForTools(j)
    BY <1>i DEF RunTrue
  <2>j. UnderWay(j) => run[j].proc \in Procs /\ run[j].setup \in Setups
    BY <1>i DEF RunsTyped, RunRecords
  <2>1. RunMarked(j)'
    <3> SUFFICES ASSUME UnderWay(j) PROVE RunMarked(j)'
      BY <1>r DEF RunMarked, UnderWay
    <3>1. run[j].proc \in Procs /\ run[j].setup \in Setups
      BY <2>j
    <3>2. \A k \in ToldKinds : told'[k][run[j].proc][run[j].setup] \subseteq told[k][run[j].proc][run[j].setup]
      BY <3>1, <1>u
    <3>3. \A k \in ToldKinds : run'[j].bad[k] \subseteq told'[k][run[j].proc][run[j].setup]
      <4> SUFFICES ASSUME NEW k \in ToldKinds
                   PROVE  run'[j].bad[k] \subseteq told'[k][run[j].proc][run[j].setup]
        OBVIOUS
      <4>1. run[j].bad[k] \subseteq told[k][run[j].proc][run[j].setup]
        BY <2>i DEF RunMarked
      <4>2. run'[j].bad[k] = IF run[j].setup = s THEN run[j].bad[k] \ {setups'[s].current} ELSE run[j].bad[k]
        BY <1>r
      <4>3. told'[k][run[j].proc][run[j].setup] =
              IF run[j].setup = s THEN told[k][run[j].proc][run[j].setup] \ {setups'[s].current}
              ELSE told[k][run[j].proc][run[j].setup]
        BY <3>1, <1>t
      <4> QED BY <4>1, <4>2, <4>3
    <3>4. \A k \in ToldKinds : run'[j].bad[k] \subseteq run[j].bad[k]
      BY <1>b
    <3>5. /\ run'[j].got \in told'["setup"][run[j].proc][run[j].setup] \cup told'["config"][run[j].proc][run[j].setup]
             => run'[j].late
          /\ run'[j].val \in told'["config"][run[j].proc][run[j].setup] => run'[j].late
          /\ run'[j].got \notin run'[j].bad["setup"]
      BY <3>2, <3>4, <1>r, <2>i DEF RunMarked, ToldKinds
    <3> QED BY <3>3, <3>5, <1>r DEF RunMarked
  <2>2. ServedMarked(j)'
    <3>1. /\ run'[j].bad["setup"] \subseteq run[j].bad["setup"] /\ run'[j].bad["config"] \subseteq run[j].bad["config"]
          /\ run'[j].bad["tools"] \subseteq run[j].bad["tools"]
      BY <1>b DEF ToldKinds
    <3> QED BY <3>1, <1>r, <2>i DEF ServedMarked
  <2>3. Leads(j)' /\ FuturesOpen(j)'
    BY <1>r, <2>i DEF Leads, FuturesOpen
  <2>4. WaitsWell(j)'
    <3> SUFFICES ASSUME run[j].at = "waiting" PROVE WaitsWell(j)'
      BY <1>r DEF WaitsWell
    <3>1. PICK q \in Runs : q = run[j].on
      BY <2>i DEF WaitsWell
    <3>2. run[j].proc \in Procs /\ run[j].setup \in Setups
      BY <2>j DEF UnderWay
    <3>3. /\ run'[j].bad["setup"] \subseteq run[j].bad["setup"] /\ run'[j].bad["config"] \subseteq run[j].bad["config"]
          /\ told'["config"][run[j].proc][run[j].setup] \subseteq told["config"][run[j].proc][run[j].setup]
      BY <1>b, <1>u, <3>2 DEF ToldKinds
    <3>4. /\ run'[q].at = run[q].at /\ run'[q].proc = run[q].proc /\ run'[q].setup = run[q].setup
          /\ run'[q].got = run[q].got /\ run'[j].on = q /\ run'[j].proc = run[j].proc
          /\ run'[j].setup = run[j].setup /\ run'[j].late = run[j].late
      BY <1>r, <3>1
    <3> QED BY <3>1, <3>3, <3>4, <2>i DEF WaitsWell
  <2>5. WaitsWellForTools(j)'
    <3> SUFFICES ASSUME run[j].at = "waitingTools" PROVE WaitsWellForTools(j)'
      BY <1>r DEF WaitsWellForTools
    <3>1. PICK q \in Runs : q = run[j].on
      BY <2>i DEF WaitsWellForTools
    <3>3. run'[j].bad["tools"] \subseteq run[j].bad["tools"]
      BY <1>b DEF ToldKinds
    <3>4. /\ run'[q].at = run[q].at /\ run'[q].proc = run[q].proc /\ run'[q].setup = run[q].setup
          /\ run'[j].on = q /\ run'[j].proc = run[j].proc /\ run'[j].setup = run[j].setup
      BY <1>r, <3>1
    <3> QED BY <3>1, <3>3, <3>4, <2>i DEF WaitsWellForTools
  <2> QED BY <2>1, <2>2, <2>3, <2>4, <2>5 DEF RunTrue
<1> QED BY <1>1, <1>2, <1>3, <1>4, <1>5, <1>6, <1>7 DEF CachesInv

(* A setup's record stays typed when more versions are cut.                 *)
LEMMA MoreVersions ==
  ASSUME NEW n \in Nat, NEW m \in Nat, n <= m, NEW r \in SetupRecords(n)
  PROVE  r \in SetupRecords(m)
<1>1. 1..n \subseteq 1..m /\ 0..n \subseteq 0..m
  OBVIOUS
<1>2. r.versions \in Seq(1..n)
  BY DEF SetupRecords
<1>3. r.versions \in Seq(1..m)
  BY <1>1, <1>2
<1>4. r = [versions |-> r.versions, current |-> r.current, visibility |-> r.visibility]
  BY DEF SetupRecords
<1>5. r.current \in 0..m /\ r.visibility \in Scopes \cup {"none", "deleted"}
  BY <1>1 DEF SetupRecords
<1> QED BY <1>3, <1>4, <1>5 DEF SetupRecords

(* What a write of a manager does to the setups.                             *)
LEMMA Written ==
  ASSUME CachesInv, NEW c \in Calls, Write(c), NEW s, s = call[c].setup
  PROVE  /\ s \in Setups /\ cut' \in Nat /\ cut <= cut' /\ cut' <= cut + 1
         /\ setups' \in [Setups -> SetupRecords(cut')]
         /\ \A t \in Setups \ {s} : setups'[t] = setups[t]
<1>i. ServiceTyped
  BY InvParts
<1>1. s \in Setups /\ cut \in Nat /\ setups \in [Setups -> SetupRecords(cut)] /\ setups[s] \in SetupRecords(cut)
  BY <1>i DEF ServiceTyped, Write
<1>m. \A m \in {cut, cut + 1} : setups \in [Setups -> SetupRecords(m)]
  <2>1. \A t \in Setups : setups[t] \in SetupRecords(cut) /\ setups[t] \in SetupRecords(cut + 1)
    <3> SUFFICES ASSUME NEW t \in Setups PROVE setups[t] \in SetupRecords(cut + 1)
      BY <1>1
    <3>1. setups[t] \in SetupRecords(cut) /\ cut + 1 \in Nat /\ cut <= cut + 1
      BY <1>1
    <3> QED BY <1>1, <3>1, MoreVersions
  <2> QED BY <2>1, <1>1
<1>2. ASSUME NEW asCurrent \in BOOLEAN, UpdateSetup(s, asCurrent)
      PROVE  \E R \in SetupRecords(cut + 1) : setups' = [setups EXCEPT ![s] = R] /\ cut' = cut + 1
  <2>1. PICK v, u : v = Append(setups[s].versions, cut + 1) /\ u = IF asCurrent THEN cut + 1 ELSE setups[s].current
    OBVIOUS
  <2>2. setups[s] \in SetupRecords(cut + 1)
    BY <1>1, <1>m
  <2>3. v \in Seq(1..(cut + 1)) /\ u \in 0..(cut + 1)
    <3>1. setups[s].versions \in Seq(1..(cut + 1)) /\ setups[s].current \in 0..(cut + 1)
      BY <2>2 DEF SetupRecords
    <3>2. cut + 1 \in 1..(cut + 1) /\ cut + 1 \in 0..(cut + 1)
      BY <1>1
    <3> QED BY <2>1, <3>1, <3>2
  <2>4. PICK R : R = [setups[s] EXCEPT !.versions = v, !.current = u]
    OBVIOUS
  <2>5. R \in SetupRecords(cut + 1)
    BY <2>2, <2>3, <2>4 DEF SetupRecords
  <2>6. setups' = [setups EXCEPT ![s] = R] /\ cut' = cut + 1
    BY <1>2, <2>1, <2>4 DEF UpdateSetup
  <2> QED BY <2>5, <2>6
<1>3. ASSUME DeleteSetup(s)
      PROVE  \E R \in SetupRecords(cut) : setups' = [setups EXCEPT ![s] = R] /\ cut' = cut
  <2>1. Deleted \in SetupRecords(cut)
    BY <1>1 DEF Deleted, SetupRecords
  <2> QED BY <1>3, <2>1 DEF DeleteSetup
<1>4. ASSUME NEW scope \in Scopes, ChangeVisibility(s, scope)
      PROVE  \E R \in SetupRecords(cut) : setups' = [setups EXCEPT ![s] = R] /\ cut' = cut
  <2>1. PICK R : R = [setups[s] EXCEPT !.visibility = scope]
    OBVIOUS
  <2>2. R \in SetupRecords(cut)
    BY <1>1, <2>1 DEF SetupRecords
  <2>3. setups' = [setups EXCEPT ![s] = R] /\ cut' = cut
    BY <1>4, <2>1 DEF ChangeVisibility
  <2> QED BY <2>2, <2>3
<1>5. ASSUME NEW v \in ToSet(setups[s].versions), SetCurrentSetupVersion(s, v)
      PROVE  \E R \in SetupRecords(cut) : setups' = [setups EXCEPT ![s] = R] /\ cut' = cut
  <2>1. PICK R : R = [setups[s] EXCEPT !.current = v]
    OBVIOUS
  <2>2. v \in 0..cut
    <3>1. setups[s].versions \in Seq(1..cut)
      BY <1>1 DEF SetupRecords
    <3>2. PICK i \in DOMAIN setups[s].versions : v = setups[s].versions[i]
      BY DEF ToSet
    <3>3. v \in 1..cut
      BY <3>1, <3>2, ElementOfSeq, LenProperties
    <3> QED BY <1>1, <3>3
  <2>3. R \in SetupRecords(cut)
    BY <1>1, <2>1, <2>2 DEF SetupRecords
  <2>4. setups' = [setups EXCEPT ![s] = R] /\ cut' = cut
    BY <1>5, <2>1 DEF SetCurrentSetupVersion
  <2> QED BY <2>3, <2>4
<1>6. ASSUME CreateSetup(s)
      PROVE  \E R \in SetupRecords(cut + 1) : setups' = [setups EXCEPT ![s] = R] /\ cut' = cut + 1
  <2>1. PICK R : R = [versions |-> <<cut + 1>>, current |-> cut + 1, visibility |-> "private"]
    OBVIOUS
  <2>2. cut + 1 \in 1..(cut + 1) /\ cut + 1 \in 0..(cut + 1)
    BY <1>1
  <2>3. R \in SetupRecords(cut + 1)
    BY <2>1, <2>2 DEF SetupRecords, Scopes
  <2>4. setups' = [setups EXCEPT ![s] = R] /\ cut' = cut + 1
    BY <1>6, <2>1 DEF CreateSetup
  <2> QED BY <2>3, <2>4
<1>7. PICK m \in {cut, cut + 1} : \E R \in SetupRecords(m) : setups' = [setups EXCEPT ![s] = R] /\ cut' = m
  BY <1>2, <1>3, <1>4, <1>5, <1>6 DEF Write
<1>8. PICK R \in SetupRecords(m) : setups' = [setups EXCEPT ![s] = R] /\ cut' = m
  BY <1>7
<1> QED BY <1>1, <1>m, <1>8

-----------------------------------------------------------------------------
(* A manager writes; a configured setup is committed *)

(* A write leaves a mark on the call: what came of it, what it superseded.   *)
LEMMA WriteMarks ==
  ASSUME NEW c \in Calls, Write(c)
  PROVE  \E a \in {"failed", "reread", "reply"} :
           call' = [call EXCEPT ![c].at = a, ![c].superseded = Superseded(call[c].setup)]
<1>1. PICK lost \in BOOLEAN :
        call' = [call EXCEPT ![c].at = IF lost THEN "failed"
                                       ELSE IF call[c].action = "change_visibility" THEN "reread" ELSE "reply",
                             ![c].superseded = Superseded(call[c].setup)]
  BY DEF Write
<1>2. PICK a : a = IF lost THEN "failed" ELSE IF call[c].action = "change_visibility" THEN "reread" ELSE "reply"
  OBVIOUS
<1>3. call' = [call EXCEPT ![c].at = a, ![c].superseded = Superseded(call[c].setup)]
  BY <1>1, <1>2
<1>4. a \in {"failed", "reread", "reply"}
  BY <1>2
<1> QED BY <1>3, <1>4

(* A manager writes: nobody is told yet.                                    *)
LEMMA WriteKeeps ==
  ASSUME CachesInv, NEW c \in Calls, Write(c)
  PROVE  CachesInv'
<1>0. PICK s : s = call[c].setup
  OBVIOUS
<1>i. ServiceTyped
  BY InvParts
<1>1. /\ s \in Setups /\ cut' \in Nat /\ cut <= cut' /\ cut' <= cut + 1
      /\ setups' \in [Setups -> SetupRecords(cut')]
      /\ \A t \in Setups \ {s} : setups'[t] = setups[t]
  BY <1>0, Written
<1>2. /\ Revived(s) /\ UNCHANGED <<cache, inflight, fut, config, wire>>
  BY <1>0 DEF Write
<1>3. ServiceTyped'
  <2>1. PICK a, S : /\ a \in {"failed", "reread", "reply"} /\ S = Superseded(s)
                    /\ call' = [call EXCEPT ![c].at = a, ![c].superseded = S]
    BY <1>0, WriteMarks
  <2>2. S \subseteq 1..cut
    <3>1. setups[s].current \in 0..cut
      BY <1>1, <1>i DEF ServiceTyped, SetupRecords
    <3> QED BY <2>1, <3>1 DEF Superseded
  <2>3. PICK N : N = [call[c] EXCEPT !.at = a, !.superseded = S]
    OBVIOUS
  <2>4. call[c] \in CallRecords /\ call[c].setup \in Setups
    BY <1>1, <1>0, <1>i DEF ServiceTyped
  <2>s. S \in SUBSET Nat
    <3>1. cut \in Nat
      BY <1>i DEF ServiceTyped
    <3>2. 1..cut \subseteq Nat
      BY <3>1
    <3> QED BY <2>2, <3>2
  <2>5a. N \in CallRecords
    BY <2>1, <2>s, <2>3, <2>4 DEF CallRecords
  <2>5b. N.setup = call[c].setup /\ N.superseded = S
    BY <2>3, <2>4 DEF CallRecords
  <2>5. N \in CallRecords /\ N.setup \in Setups /\ N.superseded \subseteq 1..cut
    BY <2>5a, <2>5b, <2>2, <2>4
  <2>6. call' = [call EXCEPT ![c] = N]
    BY <2>1, <2>3
  <2>7. /\ call' \in [Calls -> CallRecords]
        /\ \A d \in Calls : /\ call'[d].at # "idle" => call'[d].setup \in Setups
                            /\ call'[d].superseded \subseteq 1..cut
    BY <2>5, <2>6, CallMoves
  <2>8. 1..cut \subseteq 1..cut' /\ config.val <= cut'
    <3>1. cut \in Nat /\ config.val \in Nat /\ config.val <= cut
      BY <1>i DEF ServiceTyped, ConfigRecords
    <3> QED BY <1>1, <3>1
  <2>9. \A d \in Calls : call'[d].superseded \subseteq 1..cut'
    BY <2>7, <2>8
  <2> QED BY <1>1, <1>2, <1>i, <2>7, <2>8, <2>9 DEF ServiceTyped
<1> QED BY <1>1, <1>2, <1>3, RevivedKeeps

(* The caller stores what ConfigSetupModule answered.                       *)
LEMMA ConfigCommittedKeeps ==
  ASSUME CachesInv, ConfigCommitted
  PROVE  CachesInv'
<1>0. PICK s : s = config.setup
  OBVIOUS
<1>i. ServiceTyped
  BY InvParts
<1>1. /\ s \in Setups /\ cut' = cut /\ cut \in Nat /\ config.at = "returned" /\ config.val \in 0..cut
      /\ setups \in [Setups -> SetupRecords(cut)]
  BY <1>0, <1>i DEF ConfigCommitted, ServiceTyped, ConfigRecords
<1>2. /\ Revived(s) /\ UNCHANGED <<cache, inflight, fut, call, wire>> /\ config' = NoConfig
  BY <1>0 DEF ConfigCommitted
<1>3. /\ setups' \in [Setups -> SetupRecords(cut)] /\ \A t \in Setups \ {s} : setups'[t] = setups[t]
  <2>1. CASE ~Exists(s)
    BY <2>1, <1>0, <1>1 DEF ConfigCommitted
  <2>2. CASE Exists(s)
    <3>1. setups[s] \in SetupRecords(cut) /\ setups[s].versions \in Seq(1..cut) /\ setups[s].versions # <<>>
      BY <1>1, <2>2 DEF SetupRecords, Exists
    <3>2. config.val \in 1..cut /\ config.val \in 0..cut
      BY <1>1, <1>i DEF ServiceTyped
    <3>3. PICK v : v = Append(setups[s].versions, config.val)
      OBVIOUS
    <3>4. v \in Seq(1..cut)
      BY <3>1, <3>2, <3>3, AppendProperties
    <3>5. PICK R : R = [setups[s] EXCEPT !.versions = v, !.current = config.val]
      OBVIOUS
    <3>6. R \in SetupRecords(cut)
      BY <3>1, <3>2, <3>4, <3>5 DEF SetupRecords
    <3>7. setups' = [setups EXCEPT ![s] = R]
      BY <2>2, <1>0, <3>3, <3>5 DEF ConfigCommitted
    <3> QED BY <1>1, <3>6, <3>7
  <2> QED BY <2>1, <2>2
<1>4. NoConfig \in ConfigRecords /\ NoConfig.at = "idle" /\ NoConfig.val = 0
  BY <1>1, <1>i DEF NoConfig, Idle, ConfigRecords, ServiceTyped
<1>5. ServiceTyped'
  BY <1>1, <1>2, <1>3, <1>4, <1>i DEF ServiceTyped
<1>6. config' = config \/ (config'.at = "idle" /\ config.setup = s)
  BY <1>0, <1>2, <1>4
<1> QED BY <1>1, <1>2, <1>3, <1>5, <1>6, RevivedKeeps

-----------------------------------------------------------------------------
(* A process learns of a new version, and its runs are overtaken *)

(* A run that is overtaken is marked, and otherwise as it was.               *)
LEMMA OvertakenRun ==
  ASSUME CachesInv, NEW p \in Procs, NEW S \in SUBSET Setups, run' = Overtaken(p, S), NEW j \in Runs
  PROVE  /\ run'[j] \in RunRecords /\ run'[j].at = run[j].at /\ run'[j].proc = run[j].proc
         /\ run'[j].setup = run[j].setup /\ run'[j].on = run[j].on /\ run'[j].got = run[j].got
         /\ run'[j].val = run[j].val /\ run'[j].via = run[j].via /\ run'[j].vlate = run[j].vlate
         /\ run'[j].tools = run[j].tools /\ run'[j].tlate = run[j].tlate /\ run'[j].bad = run[j].bad
         /\ run[j].late => run'[j].late
         /\ UnderWay(j) /\ run[j].proc = p /\ run[j].setup \in S => run'[j].late
<1>1. run[j] \in RunRecords
  BY InvParts DEF RunsTyped
<1>2. CASE run[j].proc = p /\ run[j].setup \in S /\ UnderWay(j)
  <2>1. run'[j] = [run[j] EXCEPT !.late = TRUE]
    BY <1>2 DEF Overtaken, UnderWay
  <2>2. run'[j] \in RunRecords
    BY <1>1, <2>1 DEF RunRecords
  <2> QED BY <1>1, <2>1, <2>2 DEF RunRecords
<1>3. CASE ~(run[j].proc = p /\ run[j].setup \in S /\ UnderWay(j))
  <2>1. run'[j] = run[j]
    BY <1>3 DEF Overtaken, UnderWay
  <2> QED BY <1>1, <1>3, <2>1
<1> QED BY <1>2, <1>3

(* What a process comes to know of setups whose runs there are overtaken     *)
(* leaves the caches in order, when its tables and its flights do.           *)
LEMMA OvertakenKeeps ==
  ASSUME CachesInv, NEW p \in Procs, NEW S \in SUBSET Setups, run' = Overtaken(p, S), fut' = fut,
         ServiceTyped', TablesTyped', ToldTyped', CurrentKnown', EntriesMarked',
         \A k \in CacheKinds, q \in Procs :
           /\ DOMAIN inflight'[k][q] \subseteq DOMAIN inflight[k][q]
           /\ \A t \in DOMAIN inflight'[k][q] : inflight'[k][q][t] = inflight[k][q][t],
         \A q \in Procs : inflight'["tools"][q] = inflight["tools"][q],
         \A q \in Procs : \A t \in Setups \cap DOMAIN inflight'["setup"][q] :
           told'["setup"][q][t] = told["setup"][q][t],
         \A k \in ToldKinds, q \in Procs, t \in Setups :
           /\ told[k][q][t] \subseteq told'[k][q][t]
           /\ q # p \/ t \notin S => told'[k][q][t] = told[k][q][t]
  PROVE  CachesInv'
<1>i. /\ ServiceTyped /\ RunsTyped /\ TablesTyped /\ ToldTyped /\ CurrentKnown /\ EntriesMarked /\ Flights
      /\ \A j \in Runs : RunTrue(j)
  BY DEF CachesInv
<1>r. \A j \in Runs :
         /\ run'[j] \in RunRecords /\ run'[j].at = run[j].at /\ run'[j].proc = run[j].proc
         /\ run'[j].setup = run[j].setup /\ run'[j].on = run[j].on /\ run'[j].got = run[j].got
         /\ run'[j].val = run[j].val /\ run'[j].via = run[j].via /\ run'[j].vlate = run[j].vlate
         /\ run'[j].tools = run[j].tools /\ run'[j].tlate = run[j].tlate /\ run'[j].bad = run[j].bad
         /\ run[j].late => run'[j].late
         /\ UnderWay(j) /\ run[j].proc = p /\ run[j].setup \in S => run'[j].late
  BY OvertakenRun
<1>k. "setup" \in CacheKinds /\ "tools" \in CacheKinds /\ "setup" \in ToldKinds /\ "config" \in ToldKinds
      /\ "tools" \in ToldKinds
  BY DEF CacheKinds, ToldKinds
<1>1. RunsTyped'
  <2>1. run' = [j \in Runs |-> run'[j]]
    BY DEF Overtaken
  <2>2. run' \in [Runs -> RunRecords]
    BY <1>r, <2>1
  <2>3. \A j \in Runs : run'[j].at = run[j].at /\ run'[j].setup = run[j].setup /\ run'[j].got = run[j].got
    BY <1>r
  <2> QED BY <2>2, <2>3, <1>i DEF RunsTyped, UnderWay
<1>5. Flights'
  <2> SUFFICES ASSUME NEW k \in CacheKinds, NEW q \in Procs, NEW t \in DOMAIN inflight'[k][q]
               PROVE  FlightTrue(k, q, t, inflight[k][q][t])'
    BY Zenon DEF Flights
  <2>1. PICK l : l = inflight[k][q][t]
    OBVIOUS
  <2>0. t \in DOMAIN inflight[k][q] /\ inflight'[k][q][t] = l
    BY <2>1
  <2>2. FlightTrue(k, q, t, l)
    BY <2>0, <2>1, <1>i DEF Flights
  <2>3. t \in Setups /\ l \in Runs
    BY <2>2, <1>i DEF FlightTrue, RunsTyped, UnderWay, LeadOf
  <2>4. k = "setup" => told'["setup"][q][t] = told["setup"][q][t]
    BY <2>3
  <2>5. run'[l].at = run[l].at /\ run'[l].proc = run[l].proc /\ run'[l].setup = run[l].setup
        /\ run'[l].got = run[l].got
    BY <2>3, <1>r
  <2>6. FlightTrue(k, q, t, l)'
    BY <2>2, <2>4, <2>5 DEF FlightTrue
  <2> QED BY <2>0, <2>6
<1>7. ASSUME NEW j \in Runs PROVE RunTrue(j)'
  <2>i. RunMarked(j) /\ ServedMarked(j) /\ Leads(j) /\ FuturesOpen(j) /\ WaitsWell(j) /\ WaitsWellForTools(j)
    BY <1>i DEF RunTrue
  <2>j. UnderWay(j) => run[j].proc \in Procs /\ run[j].setup \in Setups
    BY <1>i DEF RunsTyped, RunRecords
  <2>s. /\ run'[j].at = run[j].at /\ run'[j].proc = run[j].proc
        /\ run'[j].setup = run[j].setup /\ run'[j].on = run[j].on /\ run'[j].got = run[j].got
        /\ run'[j].val = run[j].val /\ run'[j].via = run[j].via /\ run'[j].vlate = run[j].vlate
        /\ run'[j].tools = run[j].tools /\ run'[j].tlate = run[j].tlate /\ run'[j].bad = run[j].bad
        /\ run[j].late => run'[j].late
    BY <1>r
  <2>l. UnderWay(j) => \/ run'[j].late
                       \/ \A k \in ToldKinds : told'[k][run[j].proc][run[j].setup] = told[k][run[j].proc][run[j].setup]
    <3> SUFFICES ASSUME UnderWay(j), ~run'[j].late
                 PROVE  \A k \in ToldKinds :
                          told'[k][run[j].proc][run[j].setup] = told[k][run[j].proc][run[j].setup]
      OBVIOUS
    <3>1. run[j].proc \in Procs /\ run[j].setup \in Setups
      BY <2>j
    <3>2. run[j].proc # p \/ run[j].setup \notin S
      BY <1>r
    <3> QED BY <3>1, <3>2
  <2>1. RunMarked(j)'
    <3> SUFFICES ASSUME UnderWay(j) PROVE RunMarked(j)'
      BY <2>s DEF RunMarked, UnderWay
    <3>1. run[j].proc \in Procs /\ run[j].setup \in Setups
      BY <2>j
    <3>2. PICK a, t : a = run[j].proc /\ t = run[j].setup
      OBVIOUS
    <3>3. \A k \in ToldKinds : run'[j].bad[k] \subseteq told'[k][a][t]
      <4> SUFFICES ASSUME NEW k \in ToldKinds PROVE run'[j].bad[k] \subseteq told'[k][a][t]
        OBVIOUS
      <4>1. run[j].bad[k] \subseteq told[k][a][t]
        BY <2>i, <3>2 DEF RunMarked
      <4>2. told[k][a][t] \subseteq told'[k][a][t]
        BY <3>1, <3>2
      <4> QED BY <4>1, <4>2, <2>s
    <3>4. CASE run'[j].late
      BY <3>3, <3>2, <3>4, <2>s, <2>i DEF RunMarked
    <3>5. CASE \A k \in ToldKinds : told'[k][a][t] = told[k][a][t]
      <4>1. told'["setup"][a][t] = told["setup"][a][t] /\ told'["config"][a][t] = told["config"][a][t]
        BY <3>5, <1>k
      <4>2. /\ run[j].got \in told["setup"][a][t] \cup told["config"][a][t] => run[j].late
            /\ run[j].val \in told["config"][a][t] => run[j].late
            /\ run[j].got \notin run[j].bad["setup"]
        BY <2>i, <3>2 DEF RunMarked
      <4>3. /\ run'[j].got \in told'["setup"][a][t] \cup told'["config"][a][t] => run'[j].late
            /\ run'[j].val \in told'["config"][a][t] => run'[j].late
            /\ run'[j].got \notin run'[j].bad["setup"] /\ run'[j].proc = a /\ run'[j].setup = t
        BY <4>1, <4>2, <2>s, <3>2
      <4> QED BY <3>3, <4>3 DEF RunMarked
    <3> QED BY <3>2, <3>4, <3>5, <2>l
  <2>2. ServedMarked(j)'
    BY <2>s, <2>i DEF ServedMarked
  <2>3. Leads(j)' /\ FuturesOpen(j)'
    <3>1. run[j].at = "building" => inflight'["tools"][run[j].proc] = inflight["tools"][run[j].proc]
      BY <2>j DEF UnderWay
    <3> QED BY <3>1, <2>s, <2>i DEF Leads, FuturesOpen
  <2>4. WaitsWell(j)'
    <3> SUFFICES ASSUME run[j].at = "waiting" PROVE WaitsWell(j)'
      BY <2>s DEF WaitsWell
    <3>1. PICK q \in Runs : q = run[j].on
      BY <2>i DEF WaitsWell
    <3>4. /\ run'[q].at = run[q].at /\ run'[q].proc = run[q].proc /\ run'[q].setup = run[q].setup
          /\ run'[q].got = run[q].got
      BY <1>r
    <3>5. \/ run'[j].late
          \/ told'["config"][run[j].proc][run[j].setup] = told["config"][run[j].proc][run[j].setup]
      BY <2>l, <1>k DEF UnderWay
    <3> QED BY <3>1, <3>4, <3>5, <2>s, <2>i DEF WaitsWell
  <2>5. WaitsWellForTools(j)'
    <3> SUFFICES ASSUME run[j].at = "waitingTools" PROVE WaitsWellForTools(j)'
      BY <2>s DEF WaitsWellForTools
    <3>1. PICK q \in Runs : q = run[j].on
      BY <2>i DEF WaitsWellForTools
    <3>4. run'[q].at = run[q].at /\ run'[q].proc = run[q].proc /\ run'[q].setup = run[q].setup
      BY <1>r
    <3> QED BY <3>1, <3>4, <2>s, <2>i DEF WaitsWellForTools
  <2> QED BY <2>1, <2>2, <2>3, <2>4, <2>5 DEF RunTrue
<1> QED BY <1>1, <1>5, <1>7 DEF CachesInv

-----------------------------------------------------------------------------
(* A message arrives; a call is answered *)

(* Flights that are only forgotten stay what they are.                       *)
FlightsShrink ==
  /\ Nested(inflight')
  /\ \A k \in CacheKinds, q \in Procs :
       /\ DOMAIN inflight'[k][q] \subseteq DOMAIN inflight[k][q]
       /\ \A t \in DOMAIN inflight'[k][q] : inflight'[k][q][t] = inflight[k][q][t]
  /\ \A q \in Procs : inflight'["tools"][q] = inflight["tools"][q]

(* Flights that do not change.                                              *)
LEMMA SameFlights ==
  ASSUME CachesInv, inflight' = inflight
  PROVE  FlightsShrink
BY InvParts DEF FlightsShrink, TablesTyped

(* A process empties its cache of setups, the flights with it.               *)
LEMMA EmptiedSetups ==
  ASSUME CachesInv, NEW p \in Procs, NEW S, EmptySetups(p, S)
  PROVE  /\ EntriesShrink /\ FlightsShrink
         /\ DOMAIN cache'["setup"][p] \cap S = {} /\ DOMAIN inflight'["setup"][p] \cap S = {}
<1>k. PICK k \in CacheKinds : k = "setup"
  BY DEF CacheKinds
<1>1. cache' = [cache EXCEPT ![k][p] = Drop(@, S)]
  BY <1>k DEF EmptySetups
<1>2. EntriesShrink /\ DOMAIN cache'[k][p] = DOMAIN cache[k][p] \ S
  BY <1>1, DroppedEntries
<1>3. PICK T : T = Drop(inflight[k][p], S)
  OBVIOUS
<1>4. inflight' = Replaced(inflight, k, p, T) /\ Nested(inflight)
  BY <1>k, <1>3, InvParts DEF Replaced, TablesTyped, EmptySetups, ForgetFlights
<1>5. /\ Nested(Replaced(inflight, k, p, T)) /\ Replaced(inflight, k, p, T)[k][p] = T
      /\ \A l \in CacheKinds, q \in Procs : l # k \/ q # p => Replaced(inflight, k, p, T)[l][q] = inflight[l][q]
  BY <1>4, OneTable
<1>6. /\ Nested(inflight') /\ inflight'[k][p] = T
      /\ \A l \in CacheKinds, q \in Procs : l # k \/ q # p => inflight'[l][q] = inflight[l][q]
  BY <1>4, <1>5
<1>7. DOMAIN T = DOMAIN inflight[k][p] \ S /\ \A t \in DOMAIN T : T[t] = inflight[k][p][t]
  BY <1>3 DEF Drop
<1>8. ASSUME NEW l \in CacheKinds, NEW q \in Procs
      PROVE  /\ DOMAIN inflight'[l][q] \subseteq DOMAIN inflight[l][q]
             /\ \A t \in DOMAIN inflight'[l][q] : inflight'[l][q][t] = inflight[l][q][t]
  BY <1>6, <1>7
<1>9. \A q \in Procs : inflight'["tools"][q] = inflight["tools"][q]
  BY <1>k, <1>6 DEF CacheKinds
<1>10. FlightsShrink
  BY <1>6, <1>8, <1>9 DEF FlightsShrink
<1> QED BY <1>k, <1>2, <1>6, <1>7, <1>10

(* The tables stay typed while entries and flights only go.                 *)
LEMMA TablesStay ==
  ASSUME CachesInv, EntriesShrink, FlightsShrink, fut' = fut
  PROVE  TablesTyped'
<1>1. fut' \in [CacheKinds -> [Runs -> Futures]]
  BY InvParts DEF TablesTyped
<1>2. Nested(inflight)'
  BY DEF FlightsShrink, Nested
<1>3. Nested(cache)' /\ \A k \in CacheKinds, p \in Procs : \A s \in DOMAIN cache'[k][p] : cache'[k][p][s] \in Entries
  BY DEF EntriesShrink, Nested
<1> QED BY <1>1, <1>2, <1>3 DEF TablesTyped

(* A message of another process empties what it names and overtakes the runs. *)
LEMMA DispatchKeeps ==
  ASSUME CachesInv, NEW msg \in wire, Dispatch(msg)
  PROVE  CachesInv'
<1>0. PICK p, s : p = msg.proc /\ s = msg.setup
  OBVIOUS
<1>i. ServiceTyped /\ ToldTyped /\ CurrentKnown
  BY InvParts
<1>1. p \in Procs /\ s \in Setups
  BY <1>0, <1>i DEF ServiceTyped
<1>2. UNCHANGED <<setups, cut, call, config, told, fut>> /\ wire' \subseteq wire /\ run' = Overtaken(p, {s})
  BY <1>0 DEF Dispatch, service
<1>3. EntriesShrink /\ FlightsShrink
  <2>1. CASE msg.of = "setup"
    <3>1. EmptySetups(p, {s})
      BY <1>0, <2>1 DEF Dispatch
    <3> QED BY <1>1, <3>1, EmptiedSetups
  <2>2. CASE msg.of # "setup"
    <3>1. ForgetTools(p, s)
      BY <1>0, <2>2 DEF Dispatch
    <3>2. PICK k \in CacheKinds : k = "tools"
      BY DEF CacheKinds
    <3>3. cache' = [cache EXCEPT ![k][p] = Drop(@, {s})] /\ inflight' = inflight
      BY <3>1, <3>2 DEF ForgetTools
    <3> QED BY <1>1, <3>3, DroppedEntries, SameFlights
  <2> QED BY <2>1, <2>2
<1>4. ServiceTyped' /\ ToldTyped' /\ CurrentKnown'
  BY <1>2, <1>i DEF ServiceTyped, ToldTyped, CurrentKnown
<1>5. EntriesMarked'
  <2>1. \A k \in ToldKinds, q \in Procs, t \in Setups : told'[k][q][t] \subseteq told[k][q][t]
    BY <1>2
  <2> QED BY <1>3, <2>1, ShrinkKeeps
<1>6. TablesTyped'
  BY <1>2, <1>3, TablesStay
<1>7. \A q \in Procs : \A t \in Setups \cap DOMAIN inflight'["setup"][q] : told'["setup"][q][t] = told["setup"][q][t]
  BY <1>2
<1>8. \A k \in ToldKinds, q \in Procs, t \in Setups :
           /\ told[k][q][t] \subseteq told'[k][q][t]
           /\ q # p \/ t \notin {s} => told'[k][q][t] = told[k][q][t]
  BY <1>2
<1>9. {s} \in SUBSET Setups
  BY <1>1
<1> QED BY <1>1, <1>2, <1>3, <1>4, <1>5, <1>6, <1>7, <1>8, <1>9, OvertakenKeeps DEF FlightsShrink

(* What a process comes to know of a setup.                                  *)
Learns(k, p, s, V) == told' = [told EXCEPT ![k][p][s] = @ \cup V]

(* One set of what is known grows, the others stay.                         *)
LEMMA Learnt ==
  ASSUME CachesInv, NEW k \in ToldKinds, NEW p \in Procs, NEW s \in Setups, NEW V, Learns(k, p, s, V)
  PROVE  /\ told' \in [ToldKinds -> [Procs -> [Setups -> SUBSET (1..cut \cup V)]]]
         /\ told'[k][p][s] = told[k][p][s] \cup V
         /\ \A l \in ToldKinds, q \in Procs, t \in Setups :
              l # k \/ q # p \/ t # s => told'[l][q][t] = told[l][q][t]
<1>1. told \in [ToldKinds -> [Procs -> [Setups -> SUBSET (1..cut)]]]
  BY InvParts DEF ToldTyped
<1>2. PICK B : B = 1..cut \cup V
  OBVIOUS
<1>3. told \in [ToldKinds -> [Procs -> [Setups -> SUBSET B]]]
  BY <1>1, <1>2
<1>4. told[k][p][s] \cup V \in SUBSET B
  BY <1>2, <1>3
<1>5. told' \in [ToldKinds -> [Procs -> [Setups -> SUBSET B]]]
  BY <1>3, <1>4 DEF Learns
<1>6. told'[k][p][s] = told[k][p][s] \cup V
  BY <1>3 DEF Learns
<1>7. ASSUME NEW l \in ToldKinds, NEW q \in Procs, NEW t \in Setups, l # k \/ q # p \/ t # s
      PROVE  told'[l][q][t] = told[l][q][t]
  BY <1>3, <1>7 DEF Learns
<1> QED BY <1>2, <1>5, <1>6, <1>7

(* A write is answered: the process knows, its setup cache and flights are gone. *)
LEMMA CallReturnsKeeps ==
  ASSUME CachesInv, NEW c \in Calls, CallReturns(c)
  PROVE  CachesInv'
<1>0. PICK p, s : p = call[c].proc /\ s = call[c].setup
  OBVIOUS
<1>i. ServiceTyped /\ ToldTyped /\ CurrentKnown
  BY InvParts
<1>1. call[c] \in CallRecords /\ p \in Procs /\ s \in Setups /\ call[c].superseded \subseteq 1..cut
  BY <1>0, <1>i DEF ServiceTyped, CallRecords, CallReturns
<1>2. UNCHANGED <<setups, cut, fut, config, wire>>
  BY DEF CallReturns, service
<1>3. ServiceTyped'
  <2>1. PICK N : N = Closed("done")
    OBVIOUS
  <2>2. N \in CallRecords /\ N.setup \in Setups /\ N.superseded = {}
    <3>1. Setups # {}
      BY <1>1
    <3> QED BY <2>1, <3>1, ClosedRecord
  <2>3. call' = [call EXCEPT ![c] = N] /\ N.superseded \subseteq 1..cut
    BY <2>1, <2>2 DEF CallReturns
  <2>4. /\ call' \in [Calls -> CallRecords]
        /\ \A d \in Calls : /\ call'[d].at # "idle" => call'[d].setup \in Setups
                            /\ call'[d].superseded \subseteq 1..cut
    BY <2>2, <2>3, CallMoves
  <2> QED BY <1>2, <2>4, <1>i DEF ServiceTyped
<1>4. CASE call[c].action \notin Writes
  <2>1. UNCHANGED <<cache, inflight, told, run>>
    BY <1>4 DEF CallReturns, InvalidateSetupCache, Invalidates
  <2>2. EntriesShrink
    BY <2>1, SameEntries
  <2> QED BY <1>2, <1>3, <2>1, <2>2, QuietKeeps
<1>5. CASE call[c].action \in Writes
  <2>1. EmptySetups(p, Setups) /\ run' = Overtaken(p, Setups)
    BY <1>0, <1>5 DEF CallReturns, InvalidateSetupCache, Invalidates
  <2>2. EntriesShrink /\ FlightsShrink /\ DOMAIN cache'["setup"][p] \cap Setups = {}
        /\ DOMAIN inflight'["setup"][p] \cap Setups = {}
    BY <1>1, <2>1, EmptiedSetups
  <2>k. PICK k \in ToldKinds : k = "setup"
    BY DEF ToldKinds
  <2>3. PICK V : V = call[c].superseded \ {setups[s].current}
    OBVIOUS
  <2>4. Learns(k, p, s, V)
    BY <1>0, <1>5, <2>k, <2>3 DEF CallReturns, Knows, Learns
  <2>5. /\ told' \in [ToldKinds -> [Procs -> [Setups -> SUBSET (1..cut \cup V)]]]
        /\ told'[k][p][s] = told[k][p][s] \cup V
        /\ \A l \in ToldKinds, q \in Procs, t \in Setups :
             l # k \/ q # p \/ t # s => told'[l][q][t] = told[l][q][t]
    BY <1>1, <2>4, Learnt
  <2>6. 1..cut \cup V = 1..cut
    BY <1>1, <2>3
  <2>7. ToldTyped'
    <3>1. told' \in [ToldKinds -> [Procs -> [Setups -> SUBSET (1..cut)]]]
      BY <2>5, <2>6
    <3>2. \A q \in Procs, t \in Setups : told'["tools"][q][t] = told'["config"][q][t]
      BY <2>5, <2>k, <1>i DEF ToldTyped, ToldKinds
    <3> QED BY <3>1, <3>2, <1>2 DEF ToldTyped
  <2>8. CurrentKnown'
    <3>1. \A q \in Procs, t \in Setups : told'["config"][q][t] = told["config"][q][t]
      BY <2>5, <2>k DEF ToldKinds
    <3>2. ASSUME NEW q \in Procs, NEW t \in Setups PROVE setups[t].current \notin told'["setup"][q][t]
      <4>1. setups[t].current \notin told["setup"][q][t]
        BY <1>i DEF CurrentKnown
      <4> QED BY <4>1, <2>3, <2>5, <2>k
    <3> QED BY <3>1, <3>2, <1>2, <1>i DEF CurrentKnown
  <2>9. EntriesMarked'
    <3>i. EntriesMarked
      BY InvParts
    <3>1. ASSUME NEW q \in Procs, NEW t \in DOMAIN cache'["setup"][q] \cap Setups,
                 cache'["setup"][q][t].val \in told'["setup"][q][t] \cup told'["config"][q][t]
          PROVE  cache'["setup"][q][t].late
      <4>1. q # p
        BY <2>2
      <4>2. told'["setup"][q][t] = told["setup"][q][t] /\ told'["config"][q][t] = told["config"][q][t]
        BY <4>1, <2>5 DEF ToldKinds
      <4>3. /\ t \in DOMAIN cache["setup"][q] \cap Setups /\ cache'["setup"][q][t].val = cache["setup"][q][t].val
            /\ cache'["setup"][q][t].late = cache["setup"][q][t].late
        BY <2>2 DEF EntriesShrink, CacheKinds
      <4> QED BY <3>1, <4>2, <4>3, <3>i DEF EntriesMarked
    <3>2. ASSUME NEW q \in Procs, NEW t \in DOMAIN cache'["tools"][q] \cap Setups,
                 cache'["tools"][q][t].val \in told'["tools"][q][t]
          PROVE  cache'["tools"][q][t].late
      <4>2. told'["tools"][q][t] = told["tools"][q][t]
        BY <2>k, <2>5 DEF ToldKinds
      <4>3. /\ t \in DOMAIN cache["tools"][q] \cap Setups /\ cache'["tools"][q][t].val = cache["tools"][q][t].val
            /\ cache'["tools"][q][t].late = cache["tools"][q][t].late
        BY <2>2 DEF EntriesShrink, CacheKinds
      <4> QED BY <3>2, <4>2, <4>3, <3>i DEF EntriesMarked
    <3> QED BY <3>1, <3>2 DEF EntriesMarked
  <2>10. TablesTyped'
    BY <1>2, <2>2, TablesStay
  <2>11. \A q \in Procs : \A t \in Setups \cap DOMAIN inflight'["setup"][q] :
           told'["setup"][q][t] = told["setup"][q][t]
    BY <2>2, <2>5 DEF ToldKinds
  <2>12. \A l \in ToldKinds, q \in Procs, t \in Setups :
           /\ told[l][q][t] \subseteq told'[l][q][t]
           /\ q # p \/ t \notin Setups => told'[l][q][t] = told[l][q][t]
    BY <2>5
  <2> QED BY <1>1, <1>2, <1>3, <2>1, <2>2, <2>7, <2>8, <2>9, <2>10, <2>11, <2>12,
             OvertakenKeeps DEF FlightsShrink
<1> QED BY <1>4, <1>5

-----------------------------------------------------------------------------
(* ConfigSetupModule answers *)

(* A setup is configured: the new version, never superseded yet, is cached.  *)
LEMMA ConfigReturnsKeeps ==
  ASSUME CachesInv, ConfigReturns
  PROVE  CachesInv'
<1>0. PICK p, s, x : p = config.proc /\ s = config.setup /\ x = [val |-> cut + 1, late |-> FALSE, old |-> FALSE]
  OBVIOUS
<1>i. ServiceTyped /\ TablesTyped /\ ToldTyped /\ CurrentKnown /\ EntriesMarked
  BY InvParts
<1>1. p \in Procs /\ s \in Setups /\ config \in ConfigRecords /\ cut \in Nat /\ setups[s].current \in 0..cut
  BY <1>0, <1>i DEF ServiceTyped, ConfigRecords, ConfigReturns, SetupRecords
<1>2. /\ UNCHANGED <<setups, inflight, fut, call>> /\ run' = Overtaken(p, {s}) /\ cut' = cut + 1
      /\ config.at = "running" /\ config' = [config EXCEPT !.at = "returned", !.val = cut + 1]
  BY <1>0 DEF ConfigReturns
<1>3. PICK R : R = {setups[s].current} \ {0}
  OBVIOUS
<1>4. R \subseteq 1..cut /\ 1..cut \subseteq 1..cut' /\ cut' \notin 1..cut /\ cut' \in Nat /\ cut <= cut'
  BY <1>1, <1>2, <1>3
<1>5. /\ told' \in [ToldKinds -> [Procs -> [Setups -> SUBSET (1..cut)]]]
      /\ \A k \in ToldKinds, q \in Procs, t \in Setups :
           told'[k][q][t] = IF q = p /\ t = s /\ k # "setup" THEN told[k][q][t] \cup R ELSE told[k][q][t]
  <2>1. told' = [told EXCEPT !["config"][p][s] = @ \cup R, !["tools"][p][s] = @ \cup R]
    BY <1>0, <1>3 DEF ConfigReturns
  <2>2. told \in [ToldKinds -> [Procs -> [Setups -> SUBSET (1..cut)]]]
    BY <1>i DEF ToldTyped
  <2>3. PICK T : T = [told EXCEPT !["config"][p][s] = @ \cup R]
    OBVIOUS
  <2>k. "config" \in ToldKinds /\ "tools" \in ToldKinds /\ "setup" \in ToldKinds /\ ToldKinds = {"setup", "config", "tools"}
    BY DEF ToldKinds
  <2>4. ASSUME NEW k \in ToldKinds PROVE told[k][p][s] \cup R \in SUBSET (1..cut)
    <3>1. told[k][p][s] \subseteq 1..cut
      BY <2>2, <1>1
    <3> QED BY <3>1, <1>4
  <2>5. T \in [ToldKinds -> [Procs -> [Setups -> SUBSET (1..cut)]]]
    BY <2>2, <2>3, <2>4, <2>k
  <2>5a. ASSUME NEW k \in ToldKinds, NEW q \in Procs, NEW t \in Setups
         PROVE  T[k][q][t] = IF q = p /\ t = s /\ k = "config" THEN told[k][q][t] \cup R ELSE told[k][q][t]
    BY <2>2, <2>3, <2>k, <1>1
  <2>6. told' = [T EXCEPT !["tools"][p][s] = @ \cup R]
    BY <2>1, <2>3
  <2>7. T["tools"][p][s] \cup R \in SUBSET (1..cut)
    BY <2>4, <2>5a, <2>k, <1>1
  <2>8. told' \in [ToldKinds -> [Procs -> [Setups -> SUBSET (1..cut)]]]
    BY <2>5, <2>6, <2>7
  <2>8a. ASSUME NEW k \in ToldKinds, NEW q \in Procs, NEW t \in Setups
         PROVE  told'[k][q][t] = IF q = p /\ t = s /\ k = "tools" THEN T[k][q][t] \cup R ELSE T[k][q][t]
    BY <2>5, <2>6, <2>k, <1>1
  <2>9. ASSUME NEW k \in ToldKinds, NEW q \in Procs, NEW t \in Setups
        PROVE  told'[k][q][t] = IF q = p /\ t = s /\ k # "setup" THEN told[k][q][t] \cup R ELSE told[k][q][t]
    <3>1. T[k][q][t] = IF q = p /\ t = s /\ k = "config" THEN told[k][q][t] \cup R ELSE told[k][q][t]
      BY <2>5a
    <3>2. told'[k][q][t] = IF q = p /\ t = s /\ k = "tools" THEN T[k][q][t] \cup R ELSE T[k][q][t]
      BY <2>8a
    <3>3. k = "setup" \/ k = "config" \/ k = "tools"
      BY <2>k
    <3> QED BY <3>1, <3>2, <3>3
  <2> QED BY <2>8, <2>9
<1>6. /\ Nested(cache') /\ \A k \in CacheKinds, q \in Procs : q # p => cache'[k][q] = cache[k][q]
      /\ \A t \in DOMAIN cache'["tools"][p] : /\ t # s /\ t \in DOMAIN cache["tools"][p]
                                              /\ cache'["tools"][p][t] = cache["tools"][p][t]
      /\ \A t \in DOMAIN cache'["setup"][p] :
           IF t = s THEN cache'["setup"][p][t] = x
           ELSE t \in DOMAIN cache["setup"][p] /\ cache'["setup"][p][t] = cache["setup"][p][t]
  <2>1. PICK T \in Stored(cache["setup"][p], s, x) :
          cache' = [cache EXCEPT !["setup"][p] = T, !["tools"][p] = Drop(@, {s})]
    BY <1>0 DEF ConfigReturns
  <2>k. PICK k \in CacheKinds, l \in CacheKinds : k = "setup" /\ l = "tools"
    BY DEF CacheKinds
  <2>2. PICK C : C = [cache EXCEPT ![k][p] = T]
    OBVIOUS
  <2>3. PICK D : D = Drop(C[l][p], {s})
    OBVIOUS
  <2>4. cache' = [C EXCEPT ![l][p] = D]
    BY <2>1, <2>2, <2>3, <2>k
  <2>5. C = Replaced(cache, k, p, T) /\ cache' = Replaced(C, l, p, D) /\ Nested(cache)
    BY <2>2, <2>4, <1>i DEF Replaced, TablesTyped
  <2>6. /\ Nested(Replaced(cache, k, p, T)) /\ Replaced(cache, k, p, T)[k][p] = T
        /\ \A m \in CacheKinds, q \in Procs : m # k \/ q # p => Replaced(cache, k, p, T)[m][q] = cache[m][q]
    BY <1>1, <2>5, OneTable
  <2>7. /\ Nested(C) /\ C[k][p] = T /\ \A m \in CacheKinds, q \in Procs : m # k \/ q # p => C[m][q] = cache[m][q]
    BY <2>5, <2>6
  <2>8. /\ Nested(Replaced(C, l, p, D)) /\ Replaced(C, l, p, D)[l][p] = D
        /\ \A m \in CacheKinds, q \in Procs : m # l \/ q # p => Replaced(C, l, p, D)[m][q] = C[m][q]
    BY <1>1, <2>7, OneTable
  <2>9. /\ Nested(cache') /\ cache'[l][p] = D
        /\ \A m \in CacheKinds, q \in Procs : m # l \/ q # p => cache'[m][q] = C[m][q]
    BY <2>5, <2>8
  <2>10. C[l][p] = cache[l][p]
    BY <1>1, <2>7, <2>k
  <2>11. /\ DOMAIN D = DOMAIN cache[l][p] \ {s} /\ \A t \in DOMAIN D : D[t] = cache[l][p][t]
    BY <2>3, <2>10 DEF Drop
  <2>12. cache'[k][p] = T
    BY <1>1, <2>7, <2>9, <2>k
  <2>13. /\ T[s] = x /\ \A t \in DOMAIN T \ {s} : t \in DOMAIN cache[k][p] /\ T[t] = cache[k][p][t]
    BY <2>1, <2>k, StoredAdds
  <2>14. \A m \in CacheKinds, q \in Procs : q # p => cache'[m][q] = cache[m][q]
    BY <2>7, <2>9
  <2>15. \A t \in DOMAIN cache'[l][p] : t # s /\ t \in DOMAIN cache[l][p] /\ cache'[l][p][t] = cache[l][p][t]
    BY <2>9, <2>11
  <2>16. \A t \in DOMAIN cache'[k][p] :
           IF t = s THEN cache'[k][p][t] = x ELSE t \in DOMAIN cache[k][p] /\ cache'[k][p][t] = cache[k][p][t]
    BY <2>12, <2>13
  <2> QED BY <2>k, <2>9, <2>14, <2>15, <2>16
<1>7. ServiceTyped'
  <2>1. /\ config' \in ConfigRecords /\ config'.val = cut' /\ config'.setup = s
    <3>1. cut + 1 \in Nat
      BY <1>1
    <3>2. config' \in ConfigRecords
      BY <1>1, <1>2, <3>1 DEF ConfigRecords
    <3>3. config'.val = cut' /\ config'.setup = s
      BY <1>0, <1>1, <1>2 DEF ConfigRecords
    <3> QED BY <3>2, <3>3
  <2>2. setups' \in [Setups -> SetupRecords(cut')]
    <3>1. setups \in [Setups -> SetupRecords(cut)]
      BY <1>i DEF ServiceTyped
    <3>2. \A t \in Setups : setups[t] \in SetupRecords(cut')
      BY <3>1, <1>1, <1>4, MoreVersions
    <3> QED BY <3>1, <3>2, <1>2
  <2>3. wire' \subseteq [of : CacheKinds, proc : Procs, setup : Setups]
    <3>1. PICK lost \in SUBSET CacheKinds : wire' = wire \cup [of : CacheKinds \ lost, proc : Procs \ {p}, setup : {s}]
      BY <1>0 DEF ConfigReturns
    <3>2. [of : CacheKinds \ lost, proc : Procs \ {p}, setup : {s}] \subseteq [of : CacheKinds, proc : Procs, setup : Setups]
      BY <1>1
    <3> QED BY <3>1, <3>2, <1>i DEF ServiceTyped
  <2>4. /\ call' \in [Calls -> CallRecords]
        /\ \A c \in Calls : /\ call'[c].at # "idle" => call'[c].setup \in Setups
                            /\ call'[c].superseded \subseteq 1..cut'
    BY <1>2, <1>4, <1>i DEF ServiceTyped
  <2>5. config'.val <= cut' /\ config'.val # 0
    BY <1>1, <1>2, <2>1
  <2> QED BY <1>1, <1>4, <2>1, <2>2, <2>3, <2>4, <2>5 DEF ServiceTyped
<1>8. ToldTyped'
  <2>1. told' \in [ToldKinds -> [Procs -> [Setups -> SUBSET (1..cut')]]]
    BY <1>4, <1>5
  <2>2. ASSUME NEW q \in Procs, NEW t \in Setups PROVE told'["tools"][q][t] = told'["config"][q][t]
    <3>1. told["tools"][q][t] = told["config"][q][t]
      BY <1>i DEF ToldTyped
    <3> QED BY <3>1, <1>5 DEF ToldKinds
  <2> QED BY <2>1, <2>2 DEF ToldTyped
<1>9. CurrentKnown'
  <2>1. config'.at = "returned" /\ config'.setup = s
    BY <1>0, <1>1, <1>2 DEF ConfigRecords
  <2>2. ASSUME NEW q \in Procs, NEW t \in Setups
        PROVE  /\ setups'[t].current \notin told'["setup"][q][t]
               /\ setups'[t].current \in told'["config"][q][t] => t = s
    <3>1. /\ setups[t].current \notin told["setup"][q][t]
          /\ setups[t].current \notin told["config"][q][t]
      BY <1>2, <1>i DEF CurrentKnown
    <3> QED BY <3>1, <1>2, <1>5 DEF ToldKinds
  <2> QED BY <2>1, <2>2 DEF CurrentKnown
<1>10. EntriesMarked'
  <2>1. ASSUME NEW q \in Procs, NEW t \in DOMAIN cache'["setup"][q] \cap Setups,
               cache'["setup"][q][t].val \in told'["setup"][q][t] \cup told'["config"][q][t]
        PROVE  cache'["setup"][q][t].late
    <3>1. ~(q = p /\ t = s)
      <4> SUFFICES ASSUME q = p, t = s PROVE FALSE
        OBVIOUS
      <4>1. cache'["setup"][q][t].val = cut'
        BY <1>0, <1>2, <1>6
      <4>2. told'["setup"][q][t] \subseteq 1..cut /\ told'["config"][q][t] \subseteq 1..cut
        BY <1>5 DEF ToldKinds
      <4> QED BY <4>1, <4>2, <2>1, <1>4
    <3>2. told'["setup"][q][t] = told["setup"][q][t] /\ told'["config"][q][t] = told["config"][q][t]
      BY <3>1, <1>5 DEF ToldKinds
    <3>3. /\ t \in DOMAIN cache["setup"][q] \cap Setups /\ cache'["setup"][q][t] = cache["setup"][q][t]
      BY <3>1, <1>6 DEF CacheKinds
    <3> QED BY <2>1, <3>2, <3>3, <1>i DEF EntriesMarked
  <2>2. ASSUME NEW q \in Procs, NEW t \in DOMAIN cache'["tools"][q] \cap Setups,
               cache'["tools"][q][t].val \in told'["tools"][q][t]
        PROVE  cache'["tools"][q][t].late
    <3>1. ~(q = p /\ t = s)
      BY <1>6
    <3>2. told'["tools"][q][t] = told["tools"][q][t]
      BY <3>1, <1>5 DEF ToldKinds
    <3>3. /\ t \in DOMAIN cache["tools"][q] \cap Setups /\ cache'["tools"][q][t] = cache["tools"][q][t]
      BY <3>1, <1>6 DEF CacheKinds
    <3> QED BY <2>2, <3>2, <3>3, <1>i DEF EntriesMarked
  <2> QED BY <2>1, <2>2 DEF EntriesMarked
<1>11. TablesTyped'
  <2>1. x \in Entries
    <3>1. cut + 1 \in Nat
      BY <1>1
    <3> QED BY <1>0, <3>1 DEF Entries
  <2>2. ASSUME NEW k \in CacheKinds, NEW q \in Procs, NEW t \in DOMAIN cache'[k][q] PROVE cache'[k][q][t] \in Entries
    <3>1. CASE cache'[k][q][t] = x
      BY <2>1, <3>1
    <3>2. CASE t \in DOMAIN cache[k][q] /\ cache'[k][q][t] = cache[k][q][t]
      BY <3>2, <1>i DEF TablesTyped
    <3> QED BY <3>1, <3>2, <1>6 DEF CacheKinds
  <2> QED BY <2>2, <1>2, <1>6, <1>i DEF TablesTyped, Nested
<1>12. FlightsShrink
  BY <1>2, SameFlights
<1>13. \A q \in Procs : \A t \in Setups \cap DOMAIN inflight'["setup"][q] : told'["setup"][q][t] = told["setup"][q][t]
  BY <1>5 DEF ToldKinds
<1>14. \A k \in ToldKinds, q \in Procs, t \in Setups :
           /\ told[k][q][t] \subseteq told'[k][q][t]
           /\ q # p \/ t \notin {s} => told'[k][q][t] = told[k][q][t]
  <2> SUFFICES ASSUME NEW k \in ToldKinds, NEW q \in Procs, NEW t \in Setups
               PROVE  /\ told[k][q][t] \subseteq told'[k][q][t]
                      /\ q # p \/ t \notin {s} => told'[k][q][t] = told[k][q][t]
    OBVIOUS
  <2>1. told'[k][q][t] = IF q = p /\ t = s /\ k # "setup" THEN told[k][q][t] \cup R ELSE told[k][q][t]
    BY <1>5
  <2> QED BY <2>1
<1>15. {s} \in SUBSET Setups
  BY <1>1
<1> QED BY <1>1, <1>2, <1>7, <1>8, <1>9, <1>10, <1>11, <1>12, <1>13, <1>14, <1>15,
           OvertakenKeeps DEF FlightsShrink

-----------------------------------------------------------------------------
(* Together *)

(* At the start nothing is cached, under way or known to be superseded.     *)
LEMMA CachesInit ==
  ASSUME Init
  PROVE  CachesInv
<1>0. /\ setups = [s \in Setups |-> IF s \in Initially
                                    THEN [versions |-> <<1>>, current |-> 1, visibility |-> "private"]
                                    ELSE NoSetup]
      /\ cut = 1
  BY DEF Init, ServiceInit
<1>1. /\ cache = [k \in CacheKinds |-> [p \in Procs |-> <<>>]]
      /\ inflight = [k \in CacheKinds |-> [p \in Procs |-> <<>>]]
      /\ fut = [k \in CacheKinds |-> [r \in Runs |-> NoFuture]]
      /\ run = [r \in Runs |-> Idle] /\ call = [c \in Calls |-> NoCall] /\ config = NoConfig /\ wire = {}
      /\ told = [k \in ToldKinds |-> [p \in Procs |-> [s \in Setups |-> {}]]]
  BY DEF Init, ToldKinds
<1>i. /\ Idle.at = "idle" /\ Idle.got = 0 /\ Idle.val = 0 /\ Idle.tools = 0
      /\ Idle.bad = [k \in ToldKinds |-> {}]
  BY DEF Idle, ToldKinds
<1>e. DOMAIN <<>> = {}
  OBVIOUS
<1>2. ServiceTyped
  <2>1. setups \in [Setups -> SetupRecords(cut)]
    <3>1. [versions |-> <<1>>, current |-> 1, visibility |-> "private"] \in SetupRecords(1)
      BY DEF SetupRecords, Scopes
    <3>2. NoSetup \in SetupRecords(1)
      BY DEF SetupRecords, NoSetup
    <3> QED BY <1>0, <3>1, <3>2
  <2>2. config \in ConfigRecords /\ config.val = 0 /\ config.at = "idle"
    <3>1. NoConfig.at = "idle" /\ NoConfig.val = 0
      BY DEF NoConfig
    <3>2. NoConfig \in ConfigRecords
      <4>1. PICK p, s : NoConfig = [at |-> "idle", proc |-> p, setup |-> s, val |-> 0] /\ p = Idle.proc /\ s = Idle.setup
        BY DEF NoConfig
      <4> QED BY <4>1, IdleRecord DEF ConfigRecords
    <3> QED BY <1>1, <3>1, <3>2
  <2>3. \A c \in Calls : call[c] = NoCall
    BY <1>1
  <2>4. call \in [Calls -> CallRecords]
    BY <1>1, NoCallRecord
  <2>5. \A c \in Calls : call[c].at = "idle" /\ call[c].superseded = {}
    BY <2>3, NoCallRecord
  <2> QED BY <1>0, <1>1, <2>1, <2>2, <2>4, <2>5 DEF ServiceTyped
<1>3. \A r \in Runs : run[r] = Idle
  BY <1>1
<1>4. RunsTyped
  BY <1>1, <1>3, <1>i, IdleRecord DEF RunsTyped, UnderWay
<1>5. TablesTyped
  <2>1. NoFuture \in Futures
    BY DEF NoFuture, Futures
  <2>2. Nested(cache) /\ Nested(inflight)
    BY <1>1 DEF Nested
  <2>3. \A k \in CacheKinds, p \in Procs : DOMAIN cache[k][p] = {}
    BY <1>1, <1>e
  <2> QED BY <1>1, <2>1, <2>2, <2>3 DEF TablesTyped
<1>6. \A k \in ToldKinds, p \in Procs, s \in Setups : told[k][p][s] = {}
  BY <1>1
<1>7. ToldTyped
  <2>1. told \in [ToldKinds -> [Procs -> [Setups -> SUBSET (1..cut)]]]
    BY <1>1
  <2> QED BY <2>1, <1>6 DEF ToldTyped, ToldKinds
<1>8. CurrentKnown
  BY <1>6 DEF CurrentKnown, ToldKinds
<1>9. EntriesMarked
  BY <1>6 DEF EntriesMarked, ToldKinds
<1>10. Flights
  <2>1. \A k \in CacheKinds, p \in Procs : DOMAIN inflight[k][p] = {}
    BY <1>1, <1>e
  <2> QED BY <2>1 DEF Flights
<1>11. ASSUME NEW r \in Runs PROVE RunTrue(r)
  <2>1. /\ run[r].at = "idle" /\ run[r].bad["setup"] = {} /\ run[r].bad["config"] = {}
        /\ run[r].bad["tools"] = {}
    BY <1>3, <1>i DEF ToldKinds
  <2>2. ~UnderWay(r)
    BY <2>1 DEF UnderWay
  <2> QED BY <2>1, <2>2 DEF RunTrue, RunMarked, ServedMarked, Leads, FuturesOpen, WaitsWell,
             WaitsWellForTools, LeadOf
<1> QED BY <1>2, <1>4, <1>5, <1>7, <1>8, <1>9, <1>10, <1>11 DEF CachesInv

(* Every step of the system keeps the invariant.                            *)
LEMMA CachesStep ==
  ASSUME CachesInv, [Next]_vars
  PROVE  CachesInv'
<1>1. ASSUME NEW r \in Runs, NEW p \in Procs, NEW s \in Served, StartRun(r, p, s)
      PROVE  CachesInv'
  BY <1>1, StartRunKeeps
<1>2. ASSUME NEW r \in Runs, Resolving(r)
      PROVE  CachesInv'
  BY <1>2, AccessDeniedKeeps, SetupHitKeeps, SetupMissKeeps, ReadKeeps, FetchReturnsKeeps,
     FetchFailsKeeps,
     WakeKeeps DEF Resolving
<1>3. ASSUME NEW r \in Runs, Tooling(r)
      PROVE  CachesInv'
  BY <1>3, ToolsHitKeeps, ToolsMissKeeps, BuildReturnsKeeps, BuildFailsKeeps, WakeToolsKeeps
     DEF Tooling
<1>4. ASSUME NEW r \in Runs, CancelRun(r)
      PROVE  CachesInv'
  BY <1>4, CancelRunKeeps
<1>5. ASSUME NEW k \in CacheKinds, NEW p \in Procs, NEW s \in Setups, Expire(k, p, s)
      PROVE  CachesInv'
  BY <1>5, ExpireKeeps
<1>6. ASSUME NEW c \in Calls, NEW kind \in Kinds, NEW s \in Setups, NEW action \in ServiceActions,
             StartCall(c, kind, action, s)
      PROVE  CachesInv'
  BY <1>6, StartCallKeeps
<1>7. ASSUME NEW c \in Calls, Manage(c)
      PROVE  CachesInv'
  BY <1>7, CallFailsKeeps, GoesOnKeeps, WriteKeeps, CallReturnsKeeps DEF Manage
<1>8. ASSUME NEW m \in Modules, ModuleLeaves(m) \/ ModuleReturns(m)
      PROVE  CachesInv'
  BY <1>8, ModuleKeeps
<1>9. CASE ConfigFails \/ \E s \in Setups : ConfigStart(Configured, s)
  BY <1>9, ConfigBeginsKeeps
<1>10. CASE ConfigReturns
  BY <1>10, ConfigReturnsKeeps
<1>11. CASE ConfigCommitted
  BY <1>11, ConfigCommittedKeeps
<1>12. ASSUME NEW msg \in wire, Dispatch(msg)
       PROVE  CachesInv'
  BY <1>12, DispatchKeeps
<1>13. CASE UNCHANGED vars
  <2>1. UNCHANGED <<setups, cut, cache, inflight, fut, run, call, config, wire, told>>
    BY <1>13 DEF vars, service
  <2>2. EntriesShrink
    BY <2>1, SameEntries
  <2>3. ServiceTyped'
    BY <2>1, InvParts DEF ServiceTyped
  <2> QED BY <2>1, <2>2, <2>3, QuietKeeps
<1> QED BY <1>1, <1>2, <1>3, <1>4, <1>5, <1>6, <1>7, <1>8, <1>9, <1>10, <1>11, <1>12, <1>13
           DEF Next

(* Whatever the interleaving of runs, managers, configuration and messages, *)
(* what is known to be superseded is only where a flight that was overtaken  *)
(* left it, and is marked there.                                            *)
THEOREM CachesAlways == Spec => []CachesInv
BY CachesInit, CachesStep, PTL DEF Spec

(* A run of a process that was told is not served what was replaced, but out *)
(* of the cache where an overtaken flight put it (resolve_setup and          *)
(* get_or_build_tool_cache), and no two runs of a process build one setup's  *)
(* tools at a time.                                                         *)
THEOREM FreshAndOnce == Spec => []CachesInOrder
<1>1. ASSUME CachesInv PROVE CachesInOrder
  <2>1. ServedFresh
    BY InvParts, <1>1 DEF ServedFresh, ServedMarked
  <2>2. OneBuilder
    <3> SUFFICES ASSUME NEW r \in Runs, NEW q \in Runs, r # q, run[r].at = "building", run[q].at = "building",
                        run[r].proc = run[q].proc, run[r].setup = run[q].setup
                 PROVE  FALSE
      BY DEF OneBuilder
    <3> QED BY InvParts, <1>1 DEF Leads
  <2> QED BY <2>1, <2>2 DEF CachesInOrder
<1> QED BY <1>1, CachesAlways, PTL

-----------------------------------------------------------------------------
(* A manager changes setups of its own kind only *)

(* A call that has come to its write has passed the gate, or creates.        *)
Gated(N) ==
  N.at = "write" /\ N.action # "create"
  => KindOf[Backing[N.setup]] = N.as \/ (N.action = "delete" /\ N.orphan)

(* One call moves to a record that may write only past the gate.            *)
LEMMA CallMoved ==
  ASSUME CachesInv, GateInv, NEW c \in Calls, NEW N, call' = [call EXCEPT ![c] = N], Gated(N)
  PROVE  GateInv'
<1>1. \A d \in Calls : Gated(call[d])
  BY DEF GateInv, Gated
<1>2. \A d \in Calls : Gated(call'[d])
  BY <1>1, InvParts DEF ServiceTyped
<1> QED BY <1>2 DEF GateInv, Gated

(* KindKnown lets a call on only for its own kind, or for an orphan's deletion. *)
LEMMA ManageGated ==
  ASSUME CachesInv, GateInv, NEW c \in Calls, Manage(c)
  PROVE  GateInv'
<1>0. call[c] \in CallRecords
  BY InvParts DEF ServiceTyped
<1>1. CASE CallFails(c) \/ CallReturns(c)
  <2>1. PICK how \in {"failed", "done"} : call' = [call EXCEPT ![c] = Closed(how)]
    BY <1>1 DEF CallFails, CallReturns
  <2>2. Closed(how).at = how
    BY DEF Closed, NoCall
  <2>3. Gated(Closed(how))
    BY <2>1, <2>2 DEF Gated
  <2> QED BY <2>1, <2>3, CallMoved
<1>2. CASE EnsureKind(c) \/ ReRead(c)
  <2>1. PICK a \in {"kind", "reply"} : call' = [call EXCEPT ![c].at = a]
    BY <1>2 DEF EnsureKind, ReRead
  <2>2. PICK N : N = [call[c] EXCEPT !.at = a]
    OBVIOUS
  <2>3. N.at = a
    BY <1>0, <2>2 DEF CallRecords
  <2>4. Gated(N)
    BY <2>1, <2>3 DEF Gated
  <2> QED BY <2>1, <2>2, <2>4, CallMoved
<1>3. CASE KindKnown(c)
  <2>0. PICK k : k = DiscoverById(Backing[call[c].setup])
    OBVIOUS
  <2>1. PICK a, o : /\ a = IF ~(Passes(c, k) \/ Orphaned(c, k)) THEN "failed"
                             ELSE IF call[c].action \in Writes THEN "write" ELSE "reply"
                    /\ o = Orphaned(c, k)
    OBVIOUS
  <2>2. PICK N : N = [call[c] EXCEPT !.at = a, !.orphan = o]
    OBVIOUS
  <2>3. call' = [call EXCEPT ![c] = N]
    <3>1. call' = [call EXCEPT ![c].at = IF ~(Passes(c, k) \/ Orphaned(c, k)) THEN "failed"
                                          ELSE IF call[c].action \in Writes THEN "write" ELSE "reply",
                              ![c].orphan = Orphaned(c, k)]
      BY <1>3, <2>0 DEF KindKnown
    <3>2. call' = [call EXCEPT ![c].at = a, ![c].orphan = o]
      BY <3>1, <2>1
    <3> QED BY <3>2, <2>2
  <2>4. N.at = a /\ (N.orphan <=> o) /\ N.action = call[c].action /\ N.setup = call[c].setup /\ N.as = call[c].as
    BY <1>0, <2>2 DEF CallRecords
  <2>5. Gated(N)
    <3> SUFFICES ASSUME N.at = "write"
                 PROVE  KindOf[Backing[N.setup]] = N.as \/ (N.action = "delete" /\ N.orphan)
      BY DEF Gated
    <3>1. Passes(c, k) \/ Orphaned(c, k)
      <4>1. a = "write"
        BY <2>4
      <4> QED BY <4>1, <2>1
    <3>2. CASE Orphaned(c, k)
      BY <3>2, <2>1, <2>4 DEF Orphaned
    <3>3. CASE Passes(c, k)
      <4>1. k = call[c].as /\ call[c].as \in Kinds \cup {NoCall.as}
        BY <3>3, <1>0 DEF Passes, CallRecords
      <4>2. NoCall.as \in Kinds
        <5>1. call[c].setup \in Setups
          BY <1>3, InvParts DEF KindKnown, ServiceTyped
        <5>2. KindOf[Backing[call[c].setup]] \in Kinds
          BY <5>1, SetupsAssumption
        <5> QED BY <5>2 DEF NoCall
      <4>3. k # "not_found"
        BY <4>1, <4>2, SetupsAssumption
      <4>4. k = KindOf[Backing[call[c].setup]]
        BY <2>0, <4>3 DEF DiscoverById
      <4> QED BY <4>1, <4>4, <2>4
    <3> QED BY <3>1, <3>2, <3>3
  <2> QED BY <2>3, <2>5, CallMoved
<1>4. CASE Write(c)
  <2>1. PICK a \in {"failed", "reread", "reply"} :
          call' = [call EXCEPT ![c].at = a, ![c].superseded = Superseded(call[c].setup)]
    BY <1>4, WriteMarks
  <2>2. PICK N : N = [call[c] EXCEPT !.at = a, !.superseded = Superseded(call[c].setup)]
    OBVIOUS
  <2>3. N.at = a
    BY <1>0, <2>2 DEF CallRecords
  <2>4. Gated(N)
    BY <2>1, <2>3 DEF Gated
  <2> QED BY <2>1, <2>2, <2>4, CallMoved
<1> QED BY <1>1, <1>2, <1>3, <1>4 DEF Manage

(* Every step of the system keeps the gate.                                 *)
LEMMA GateStep ==
  ASSUME CachesInv, GateInv, [Next]_vars
  PROVE  GateInv'
<1>1. ASSUME NEW c \in Calls, Manage(c)
      PROVE  GateInv'
  BY <1>1, ManageGated
<1>2. ASSUME NEW c \in Calls, NEW kind \in Kinds, NEW s \in Setups, NEW action \in ServiceActions,
             StartCall(c, kind, action, s)
      PROVE  GateInv'
  <2>1. PICK N : N = [NoCall EXCEPT
                !.at = IF action = "create" THEN "write"
                       ELSE IF action = "search" THEN "reply" ELSE "gate",
                !.proc = AgentAt[c], !.as = kind, !.action = action, !.setup = s]
    OBVIOUS
  <2>2. call' = [call EXCEPT ![c] = N]
    BY <1>2, <2>1 DEF StartCall
  <2>3. /\ N.at = (IF action = "create" THEN "write" ELSE IF action = "search" THEN "reply" ELSE "gate")
        /\ N.action = action
    BY <2>1 DEF NoCall
  <2>4. Gated(N)
    BY <2>3 DEF Gated
  <2> QED BY <2>2, <2>4, CallMoved
<1>3. CASE call' = call
  BY <1>3 DEF GateInv
<1>4. ASSUME NEW r \in Runs, (\E p \in Procs, s \in Served : StartRun(r, p, s)) \/ Resolving(r) \/ Tooling(r) \/ CancelRun(r)
      PROVE  call' = call
  BY <1>4 DEF StartRun, Resolving, AccessDenied, SetupHit, SetupMiss, Read, FetchReturns,
     FetchFails, Wake,
     Tooling, ToolsHit, ToolsMiss, BuildReturns, BuildFails, WakeTools, CancelRun
<1>5. ASSUME \/ \E k \in CacheKinds, p \in Procs, s \in Setups : Expire(k, p, s)
             \/ \E m \in Modules : ModuleLeaves(m) \/ ModuleReturns(m)
             \/ \E s \in Setups : ConfigStart(Configured, s)
             \/ ConfigFails \/ ConfigReturns \/ ConfigCommitted
             \/ \E msg \in wire : Dispatch(msg)
             \/ UNCHANGED vars
      PROVE  call' = call
  BY <1>5 DEF Expire, ModuleLeaves, ModuleReturns, ConfigStart, ConfigFails, ConfigReturns,
     ConfigCommitted,
     Dispatch, vars
<1> QED BY <1>1, <1>2, <1>3, <1>4, <1>5 DEF Next

(* The step that changes setups and moves a call is that call's write.      *)
LEMMA WritesOwn ==
  ASSUME CachesInv, GateInv, [Next]_vars, NEW c \in Calls, call[c].at = "write",
         setups[call[c].setup] # NoSetup, setups' # setups, call'[c] # call[c]
  PROVE  \/ KindOf[Backing[call[c].setup]] = call[c].as
         \/ call[c].action = "delete" /\ call[c].orphan
<1>1. PICK d \in Calls : Write(d)
  <2>1. ASSUME NEW r \in Runs, (\E p \in Procs, s \in Served : StartRun(r, p, s)) \/ Resolving(r) \/ Tooling(r) \/ CancelRun(r)
        PROVE  setups' = setups
    BY <2>1 DEF StartRun, Resolving, AccessDenied, SetupHit, SetupMiss, Read, FetchReturns,
       FetchFails, Wake,
       Tooling, ToolsHit, ToolsMiss, BuildReturns, BuildFails, WakeTools, CancelRun, service
  <2>2. ASSUME \/ \E k \in CacheKinds, p \in Procs, s \in Setups : Expire(k, p, s)
               \/ \E m \in Modules : ModuleLeaves(m) \/ ModuleReturns(m)
               \/ \E s \in Setups : ConfigStart(Configured, s)
               \/ ConfigFails \/ ConfigReturns
               \/ \E msg \in wire : Dispatch(msg)
               \/ UNCHANGED vars
        PROVE  setups' = setups
    BY <2>2 DEF Expire, ModuleLeaves, ModuleReturns, Register, Deregister, ConfigStart,
       ConfigFails, ConfigReturns,
       Dispatch, vars, service
  <2>3. CASE ConfigCommitted
    BY <2>3 DEF ConfigCommitted
  <2>4. ASSUME NEW d \in Calls, NEW kind \in Kinds, NEW s \in Setups, NEW action \in ServiceActions,
               StartCall(d, kind, action, s)
        PROVE  setups' = setups
    BY <2>4 DEF StartCall, service
  <2>5. ASSUME NEW d \in Calls, CallFails(d) \/ EnsureKind(d) \/ KindKnown(d) \/ ReRead(d) \/ CallReturns(d)
        PROVE  setups' = setups
    BY <2>5 DEF CallFails, EnsureKind, KindKnown, ReRead, CallReturns, service
  <2> QED BY <2>1, <2>2, <2>3, <2>4, <2>5 DEF Next, Manage
<1>2. d = c
  <2>1. call \in [Calls -> CallRecords]
    BY InvParts DEF ServiceTyped
  <2>2. PICK a : call' = [call EXCEPT ![d].at = a, ![d].superseded = Superseded(call[d].setup)]
    BY <1>1, WriteMarks
  <2>3. call' = [call EXCEPT ![d] = [call[d] EXCEPT !.at = a, !.superseded = Superseded(call[d].setup)]]
    BY <2>2
  <2> QED BY <2>1, <2>3
<1>3. call[c].action # "create"
  BY <1>1, <1>2 DEF Write, CreateSetup
<1> QED BY <1>3 DEF GateInv

(* No call has begun.                                                       *)
LEMMA GateInit ==
  ASSUME Init
  PROVE  GateInv
BY NoCallRecord DEF Init, GateInv

(* A manager changes setups of its own kind only (ensure_kind), but for the *)
(* deletion of a setup whose module was gone when the registry was asked.   *)
THEOREM OwnKindOnly == Spec => NoForeignWrite
<1>1. ASSUME CachesInv, GateInv, [Next]_vars
      PROVE  [\A c \in Calls :
               /\ call[c].at = "write" /\ setups[call[c].setup] # NoSetup
               /\ setups' # setups /\ call'[c] # call[c]
               => \/ KindOf[Backing[call[c].setup]] = call[c].as
                  \/ call[c].action = "delete" /\ call[c].orphan]_vars
  BY <1>1, WritesOwn
<1>2. Spec => []GateInv
  BY CachesAlways, GateInit, GateStep, PTL DEF Spec
<1> QED BY <1>1, <1>2, CachesAlways, PTL DEF Spec, NoForeignWrite
=============================================================================
