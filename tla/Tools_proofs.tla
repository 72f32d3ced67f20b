---------------------------- MODULE Tools_proofs ----------------------------
(* What is proved of the tools an agent has: those it loads over the turns of*)
(* a mission, the runs that pause on the client's, its calls of tool modules,*)
(* the cache its setup's references are resolved into, the schemas its setup *)
(* is shown by, the catalogue it searches, the triggers its inputs go to.    *)
(* Each component first on its own, over its whole next-state relation and   *)
(* for any constants its assumptions admit, and at the end the specification *)
(* of the run that puts them beside each other.                              *)
EXTENDS MCTools, SequenceTheorems, FiniteSetTheorems, FunctionTheorems, TLAPS

-----------------------------------------------------------------------------
(* ToolLoading on its own.                                                   *)

LoadsSpec == ToolsInit /\ [][ToolsNext]_tvars

Live == {"running", "resolving", "persisting"}
TurnRecords == [at : {"idle", "rehydrating", "over"} \cup Live, view : SUBSET Tools, dynamic : SUBSET Tools,
                kits : SUBSET Tools, todo : SUBSET Tools, drop : SUBSET Tools, tool : SUBSET Tools, loads : Nat]
LoadsTyped ==
  /\ declared \subseteq Tools /\ turn \in [Turns -> TurnRecords] /\ lapses \in Nat
  /\ loaded \in [Missions -> SUBSET Tools] /\ promised \in [Missions -> SUBSET Tools]
  /\ shown \in [Missions -> SUBSET Tools]

(* Everything a turn could come to call was shown to its mission.            *)
Seen(r, known) ==
  /\ r.view \cup r.dynamic \cup r.kits \cup r.todo \subseteq known
  /\ r.at = "persisting" => r.tool \subseteq known
AllSeen ==
  /\ \A m \in Missions : declared \cup loaded[m] \subseteq shown[m]
  /\ \A t \in Turns : Seen(turn[t], shown[MissionOf[t]])

(* Where no two turns of a mission overlap, one of them is under way.        *)
Rests(r) == r.at \in {"idle", "over"}
OneTurn ==
  \A t, u \in Turns :
    MissionOf[t] = MissionOf[u] /\ MissionOf[t] \notin overlapped /\ ~Rests(turn[t]) /\ ~Rests(turn[u]) => t = u

(* There a turn drops nothing that is promised, and what it has is one of    *)
(* each module, with all that the mission loaded unless a turn missed some.  *)
OneOfEach(m) == redeclared \/ m \in missed \/ OneEach(declared \cup loaded[m])
Stands(m, r) ==
  /\ r.at = "rehydrating" => r.drop \cap promised[m] = {}
  /\ r.at \notin Live => r.kits = {}
  /\ redeclared \/ m \in missed \/
       /\ r.at = "rehydrating" => declared \subseteq r.view /\ OneEach(declared \cup loaded[m] \cup r.view \cup r.dynamic \cup r.todo)
       /\ r.at \in Live => declared \cup loaded[m] \subseteq r.kits /\ OneEach(r.kits)
       /\ r.at = "resolving" => OneEach(r.kits \cup r.tool)
       /\ r.at = "persisting" => r.tool \subseteq r.kits
AllStand ==
  /\ \A m \in Missions \ overlapped : promised[m] \subseteq loaded[m] /\ OneOfEach(m)
  /\ \A t \in Turns : MissionOf[t] \in overlapped \/ Stands(MissionOf[t], turn[t])

LoadsInv == LoadsTyped /\ AllSeen /\ OneTurn /\ AllStand

-----------------------------------------------------------------------------
(* A step of one turn, over a registry and a setup that stand still.         *)
LEMMA TurnSteps ==
  ASSUME LoadingAssumption, LoadsInv, NEW t \in Turns, NEW m \in Missions, m = MissionOf[t],
         NEW R \in TurnRecords, turn' = [turn EXCEPT ![t] = R],
         UNCHANGED <<declared, redeclared>>, lapses' \in Nat,
         loaded' \in [Missions -> SUBSET Tools], promised' \in [Missions -> SUBSET Tools],
         shown' \in [Missions -> SUBSET Tools],
         \A n \in Missions \ {m} : loaded'[n] = loaded[n] /\ promised'[n] = promised[n],
         \A n \in Missions : shown[n] \subseteq shown'[n],
         loaded'[m] \subseteq shown'[m], Seen(R, shown'[m]),
         overlapped \subseteq overlapped', overlapped' \subseteq overlapped \cup {m},
         missed \subseteq missed', missed' \subseteq missed \cup {m},
         ~Rests(turn[t]) \/ m \in overlapped' \/ \A u \in Turns : MissionOf[u] = m => Rests(turn[u]),
         m \notin overlapped' =>
           /\ promised'[m] \subseteq loaded'[m]
           /\ redeclared \/ m \in missed' \/ OneEach(declared \cup loaded'[m])
           /\ Stands(m, R)'
  PROVE  LoadsInv'
<1>i. LoadsTyped /\ AllSeen /\ OneTurn /\ AllStand
  BY DEF LoadsInv
<1>m. \A u \in Turns : MissionOf[u] \in Missions
  BY DEF LoadingAssumption
<1>1. turn'[t] = R /\ \A u \in Turns \ {t} : turn'[u] = turn[u]
  BY <1>i DEF LoadsTyped
<1>2. LoadsTyped'
  <2>1. turn' \in [Turns -> TurnRecords]
    BY <1>i DEF LoadsTyped
  <2> QED BY <2>1, <1>i DEF LoadsTyped
<1>3. AllSeen'
  <2>1. \A n \in Missions : declared' \cup loaded'[n] \subseteq shown'[n]
    BY <1>i DEF AllSeen
  <2>2. ASSUME NEW u \in Turns PROVE Seen(turn'[u], shown'[MissionOf[u]])
    <3>1. CASE u = t
      BY <3>1, <1>1
    <3>2. CASE u # t
      BY <3>2, <1>1, <1>i, <1>m DEF AllSeen, Seen
    <3> QED BY <3>1, <3>2
  <2> QED BY <2>1, <2>2 DEF AllSeen, Seen
<1>4. OneTurn'
  <2> SUFFICES ASSUME NEW u \in Turns, NEW v \in Turns, MissionOf[u] = MissionOf[v], MissionOf[u] \notin overlapped',
                      ~Rests(turn'[u]), ~Rests(turn'[v])
               PROVE  u = v
    BY DEF OneTurn, Rests
  <2>1. \A x \in Turns \ {t} : Rests(turn'[x]) <=> Rests(turn[x])
    BY <1>1
  <2>2. CASE u # t /\ v # t
    BY <2>1, <2>2, <1>i DEF OneTurn
  <2>3. CASE u = t \/ v = t
    <3>1. MissionOf[u] = m /\ m \notin overlapped' /\ ~Rests(R)
      BY <2>3, <1>1
    <3>2. \A x \in Turns \ {t} : MissionOf[x] = m => Rests(turn[x])
      BY <3>1, <1>i DEF OneTurn
    <3> QED BY <2>1, <2>3, <3>1, <3>2
  <2> QED BY <2>2, <2>3
<1>5. AllStand'
  <2>1. ASSUME NEW n \in Missions, n \notin overlapped'
        PROVE  promised'[n] \subseteq loaded'[n] /\ OneOfEach(n)'
    <3>1. CASE n = m
      BY <2>1, <3>1 DEF OneOfEach, OneEach
    <3>2. CASE n # m
      BY <2>1, <3>2, <1>i DEF AllStand, OneOfEach, OneEach
    <3> QED BY <3>1, <3>2
  <2>2. ASSUME NEW u \in Turns, MissionOf[u] \notin overlapped' PROVE Stands(MissionOf[u], turn[u])'
    <3>1. CASE u = t
      BY <3>1, <2>2, <1>1 DEF Stands
    <3>2. CASE u # t /\ MissionOf[u] # m
      <4>1. /\ loaded'[MissionOf[u]] = loaded[MissionOf[u]] /\ promised'[MissionOf[u]] = promised[MissionOf[u]]
            /\ MissionOf[u] \in missed' <=> MissionOf[u] \in missed
            /\ Stands(MissionOf[u], turn[u]) /\ turn'[u] = turn[u]
        BY <3>2, <2>2, <1>m, <1>1, <1>i DEF AllStand
      <4> QED BY <4>1 DEF Stands, OneEach
    <3>3. CASE u # t /\ MissionOf[u] = m
      <4>1. CASE Rests(turn[u])
        <5>1. turn'[u] = turn[u] /\ turn[u].kits = {} /\ turn[u].at \notin Live
          BY <3>3, <4>1, <2>2, <1>1, <1>i DEF AllStand, Stands, Rests, Live
        <5> QED BY <5>1, <4>1 DEF Stands, Rests, Live
      <4>2. CASE ~Rests(turn[u])
        BY <3>3, <4>2, <2>2, <1>i DEF OneTurn
      <4> QED BY <4>1, <4>2
    <3> QED BY <3>1, <3>2, <3>3
  <2> QED BY <2>1, <2>2 DEF AllStand
<1> QED BY <1>2, <1>3, <1>4, <1>5 DEF LoadsInv

(* A turn starts with the view of a setup and all that its mission loaded.   *)
LEMMA TurnStartsLoads == ASSUME LoadingAssumption, LoadsInv, NEW t \in Turns, TurnStarts(t) PROVE LoadsInv'
<1>i. LoadsTyped /\ AllSeen /\ OneTurn /\ AllStand
  BY DEF LoadsInv
<1>0. PICK m \in Missions : m = MissionOf[t]
  BY DEF LoadingAssumption
<1>1. /\ turn[t].at = "idle" /\ UNCHANGED <<declared, loaded, promised, shown, missed, redeclared>>
      /\ overlapped' = IF Busy(m) # {} THEN overlapped \cup {m} ELSE overlapped
  BY <1>0 DEF TurnStarts
<1>v. PICK V : V = MissionView(t)
  OBVIOUS
<1>w. V = [at |-> "rehydrating", view |-> declared, dynamic |-> {}, kits |-> {}, todo |-> {}, drop |-> {},
           tool |-> {}, loads |-> 0]
  BY <1>v DEF MissionView, Idle
<1>2. PICK todo \in SUBSET loaded[m] : turn' = [turn EXCEPT ![t] = [V EXCEPT !.todo = todo]]
  BY <1>0, <1>v DEF TurnStarts, Goto
<1>3. PICK R : R = [V EXCEPT !.todo = todo]
  OBVIOUS
<1>4. /\ R \in TurnRecords /\ R.at = "rehydrating" /\ R.view = declared /\ R.todo = todo /\ R.dynamic = {}
      /\ R.kits = {} /\ R.drop = {} /\ R.tool = {}
  BY <1>w, <1>3, <1>i DEF TurnRecords, LoadsTyped
<1>5. Seen(R, shown[m])
  BY <1>4, <1>i DEF Seen, AllSeen
<1>6. m \in overlapped' \/ \A u \in Turns : MissionOf[u] = m => Rests(turn[u])
  BY <1>1 DEF Busy, Rests
<1>7. ASSUME m \notin overlapped'
      PROVE  promised[m] \subseteq loaded[m] /\ (redeclared \/ m \in missed \/ OneEach(declared \cup loaded[m])) /\ Stands(m, R)
  <2>1. m \notin overlapped
    BY <1>7, <1>1
  <2>2. promised[m] \subseteq loaded[m] /\ OneOfEach(m)
    BY <2>1, <1>i DEF AllStand
  <2>3. declared \cup loaded[m] \cup R.view \cup R.dynamic \cup R.todo = declared \cup loaded[m]
    BY <1>4
  <2> QED BY <2>2, <2>3, <1>4 DEF OneOfEach, Stands, Live
<1>8. lapses' \in Nat
  BY <1>i DEF TurnStarts, Lapse, LoadsTyped
<1>9. ASSUME m \notin overlapped' PROVE Stands(m, R)'
  BY <1>7, <1>9, <1>1 DEF Stands, OneEach
<1>a. /\ loaded' \in [Missions -> SUBSET Tools] /\ promised' \in [Missions -> SUBSET Tools]
      /\ shown' \in [Missions -> SUBSET Tools] /\ loaded'[m] \subseteq shown'[m]
  BY <1>1, <1>i DEF LoadsTyped, AllSeen
<1> QED BY <1>0, <1>1, <1>2, <1>3, <1>4, <1>5, <1>6, <1>7, <1>8, <1>9, <1>a, TurnSteps

(* One tool of the record is restored, given up for this turn, or refused.   *)
LEMMA RehydratesLoads ==
  ASSUME LoadingAssumption, LoadsInv, NEW t \in Turns, NEW s \in Tools, Rehydrates(t, s) PROVE LoadsInv'
<1>i. LoadsTyped /\ AllSeen /\ OneTurn /\ AllStand
  BY DEF LoadsInv
<1>0. PICK m \in Missions : m = MissionOf[t]
  BY DEF LoadingAssumption
<1>r. turn[t] \in TurnRecords /\ Seen(turn[t], shown[m]) /\ declared \cup loaded[m] \subseteq shown[m]
  BY <1>0, <1>i DEF LoadsTyped, AllSeen
<1>k. m \notin overlapped => promised[m] \subseteq loaded[m] /\ OneOfEach(m) /\ Stands(m, turn[t])
  BY <1>0, <1>i DEF AllStand
<1>1. /\ turn[t].at = "rehydrating" /\ s \in turn[t].todo /\ overlapped' = overlapped /\ missed' = missed
      /\ UNCHANGED <<declared, loaded, shown, redeclared>> /\ lapses' \in Nat
  BY <1>i DEF Rehydrates, Lapse, LoadsTyped
<1>2. PICK R : /\ turn' = [turn EXCEPT ![t] = R] /\ R \in TurnRecords /\ R.at = "rehydrating" /\ R.view = turn[t].view
               /\ R.kits = turn[t].kits /\ R.todo = turn[t].todo \ {s}
               /\ R.dynamic \in {turn[t].dynamic, turn[t].dynamic \cup ({s} \ turn[t].view)}
               /\ \/ R.drop = turn[t].drop /\ promised' = promised
                  \/ R.drop = turn[t].drop \cup {s} /\ promised' = [promised EXCEPT ![m] = @ \ {s}]
  <2> DEFINE r == [turn[t] EXCEPT !.todo = @ \ {s}]
  <2>1. /\ r \in TurnRecords /\ r.at = turn[t].at /\ r.view = turn[t].view /\ r.dynamic = turn[t].dynamic
        /\ r.kits = turn[t].kits /\ r.drop = turn[t].drop /\ r.todo = turn[t].todo \ {s} /\ r.tool = turn[t].tool
    BY <1>r DEF TurnRecords
  <2>2. \/ Goto(t, [r EXCEPT !.dynamic = @ \cup ({s} \ r.view)]) /\ promised' = promised
        \/ Goto(t, [r EXCEPT !.drop = @ \cup {s}]) /\ promised' = [promised EXCEPT ![m] = @ \ {s}]
        \/ Goto(t, [r EXCEPT !.drop = r.drop]) /\ promised' = promised
    BY <1>0 DEF Rehydrates, KeepOnFailure
  <2> HIDE DEF r
  <2>3. CASE Goto(t, [r EXCEPT !.dynamic = @ \cup ({s} \ r.view)]) /\ promised' = promised
    <3>1. PICK R : R = [r EXCEPT !.dynamic = @ \cup ({s} \ r.view)]
      OBVIOUS
    <3>2. /\ R \in TurnRecords /\ R.at = r.at /\ R.view = r.view /\ R.dynamic = r.dynamic \cup ({s} \ r.view)
          /\ R.kits = r.kits /\ R.drop = r.drop /\ R.todo = r.todo
      BY <2>1, <3>1 DEF TurnRecords
    <3> QED BY <1>1, <2>1, <2>3, <3>1, <3>2 DEF Goto
  <2>4. CASE Goto(t, [r EXCEPT !.drop = @ \cup {s}]) /\ promised' = [promised EXCEPT ![m] = @ \ {s}]
    <3>1. PICK R : R = [r EXCEPT !.drop = @ \cup {s}]
      OBVIOUS
    <3>2. /\ R \in TurnRecords /\ R.at = r.at /\ R.view = r.view /\ R.dynamic = r.dynamic
          /\ R.kits = r.kits /\ R.drop = r.drop \cup {s} /\ R.todo = r.todo
      BY <2>1, <3>1 DEF TurnRecords
    <3> QED BY <1>1, <2>1, <2>4, <3>1, <3>2 DEF Goto
  <2>5. CASE Goto(t, [r EXCEPT !.drop = r.drop]) /\ promised' = promised
    <3>1. PICK R : R = [r EXCEPT !.drop = r.drop]
      OBVIOUS
    <3>2. /\ R \in TurnRecords /\ R.at = r.at /\ R.view = r.view /\ R.dynamic = r.dynamic
          /\ R.kits = r.kits /\ R.drop = r.drop /\ R.todo = r.todo
      BY <2>1, <3>1 DEF TurnRecords
    <3> QED BY <1>1, <2>1, <2>5, <3>1, <3>2 DEF Goto
  <2> QED BY <2>2, <2>3, <2>4, <2>5
<1>f. /\ loaded' \in [Missions -> SUBSET Tools] /\ promised' \in [Missions -> SUBSET Tools]
      /\ shown' \in [Missions -> SUBSET Tools] /\ (\A n \in Missions : shown[n] \subseteq shown'[n])
      /\ \A n \in Missions \ {m} : loaded'[n] = loaded[n] /\ promised'[n] = promised[n]
      /\ promised'[m] \subseteq promised[m] /\ (R.drop = turn[t].drop \/ promised'[m] = promised[m] \ {s})
  BY <1>1, <1>2, <1>i DEF LoadsTyped
<1>3. Seen(R, shown'[m]) /\ loaded'[m] \subseteq shown'[m]
  BY <1>1, <1>2, <1>r DEF Seen
<1>4. ASSUME m \notin overlapped'
      PROVE  promised'[m] \subseteq loaded'[m] /\ (redeclared \/ m \in missed' \/ OneEach(declared \cup loaded'[m]))
  BY <1>1, <1>4, <1>k, <1>f DEF OneOfEach
<1>5. ASSUME m \notin overlapped' PROVE Stands(m, R)'
  <2>1. R.drop \cap promised'[m] = {}
    BY <1>1, <1>2, <1>5, <1>k, <1>f DEF Stands
  <2>2. R.kits = {}
    BY <1>1, <1>2, <1>5, <1>k DEF Stands, Live
  <2>3. ASSUME ~redeclared, m \notin missed
        PROVE  declared \subseteq R.view /\ OneEach(declared \cup loaded[m] \cup R.view \cup R.dynamic \cup R.todo)
    BY <2>3, <1>1, <1>2, <1>5, <1>k DEF Stands, OneEach
  <2> QED BY <2>1, <2>2, <2>3, <1>1, <1>2 DEF Stands, Live, OneEach
<1> QED BY <1>0, <1>1, <1>2, <1>3, <1>4, <1>5, <1>f, TurnSteps DEF Rests

(* What was refused leaves the record, or stays when the storage fails.      *)
LEMMA ForgetsLoads ==
  ASSUME LoadingAssumption, LoadsInv, NEW t \in Turns, NEW s \in Tools, Forgets(t, s) PROVE LoadsInv'
<1>i. LoadsTyped /\ AllSeen /\ OneTurn /\ AllStand
  BY DEF LoadsInv
<1>0. PICK m \in Missions : m = MissionOf[t]
  BY DEF LoadingAssumption
<1>r. turn[t] \in TurnRecords /\ Seen(turn[t], shown[m]) /\ declared \cup loaded[m] \subseteq shown[m]
  BY <1>0, <1>i DEF LoadsTyped, AllSeen
<1>k. m \notin overlapped => promised[m] \subseteq loaded[m] /\ OneOfEach(m) /\ Stands(m, turn[t])
  BY <1>0, <1>i DEF AllStand
<1>1. /\ turn[t].at = "rehydrating" /\ s \in turn[t].drop /\ overlapped' = overlapped /\ missed' = missed
      /\ UNCHANGED <<declared, promised, shown, redeclared>> /\ lapses' \in Nat
      /\ loaded' = loaded \/ loaded' = [loaded EXCEPT ![m] = @ \ {s}]
  BY <1>0, <1>i DEF Forgets, Lapse, LoadsTyped
<1>2. PICK R : /\ turn' = [turn EXCEPT ![t] = R] /\ R \in TurnRecords /\ R.at = "rehydrating" /\ R.view = turn[t].view
               /\ R.kits = turn[t].kits /\ R.todo = turn[t].todo /\ R.dynamic = turn[t].dynamic
               /\ R.drop = turn[t].drop \ {s}
  <2>1. PICK R : R = [turn[t] EXCEPT !.drop = @ \ {s}]
    OBVIOUS
  <2>2. /\ R \in TurnRecords /\ R.at = turn[t].at /\ R.view = turn[t].view /\ R.kits = turn[t].kits
        /\ R.todo = turn[t].todo /\ R.dynamic = turn[t].dynamic /\ R.drop = turn[t].drop \ {s}
    BY <1>r, <2>1 DEF TurnRecords
  <2> QED BY <1>1, <2>1, <2>2 DEF Forgets, Goto
<1>f. /\ loaded' \in [Missions -> SUBSET Tools] /\ promised' \in [Missions -> SUBSET Tools]
      /\ shown' \in [Missions -> SUBSET Tools] /\ (\A n \in Missions : shown[n] \subseteq shown'[n])
      /\ \A n \in Missions \ {m} : loaded'[n] = loaded[n] /\ promised'[n] = promised[n]
      /\ loaded'[m] \subseteq loaded[m] /\ loaded[m] \ {s} \subseteq loaded'[m]
  BY <1>1, <1>i DEF LoadsTyped
<1>3. Seen(R, shown'[m]) /\ loaded'[m] \subseteq shown'[m]
  BY <1>1, <1>2, <1>r, <1>f DEF Seen
<1>4. ASSUME m \notin overlapped'
      PROVE  promised'[m] \subseteq loaded'[m] /\ (redeclared \/ m \in missed' \/ OneEach(declared \cup loaded'[m]))
  <2>1. s \notin promised[m]
    BY <1>1, <1>4, <1>k DEF Stands
  <2> QED BY <2>1, <1>1, <1>4, <1>k, <1>f DEF OneOfEach, OneEach
<1>5. ASSUME m \notin overlapped' PROVE Stands(m, R)'
  <2>1. R.drop \cap promised'[m] = {} /\ R.kits = {}
    BY <1>1, <1>2, <1>5, <1>k DEF Stands, Live
  <2>3. ASSUME ~redeclared, m \notin missed
        PROVE  declared \subseteq R.view /\ OneEach(declared \cup loaded'[m] \cup R.view \cup R.dynamic \cup R.todo)
    BY <2>3, <1>1, <1>2, <1>5, <1>k, <1>f DEF Stands, OneEach
  <2> QED BY <2>1, <2>3, <1>1, <1>2 DEF Stands, Live, OneEach
<1> QED BY <1>0, <1>1, <1>2, <1>3, <1>4, <1>5, <1>f, TurnSteps DEF Rests

(* The toolkits of a turn are those of its view and what it restored; a      *)
(* mission whose record it does not cover is counted as missed.              *)
LEMMA InitializedLoads ==
  ASSUME LoadingAssumption, LoadsInv, NEW t \in Turns, Initialized(t) PROVE LoadsInv'
<1>i. LoadsTyped /\ AllSeen /\ OneTurn /\ AllStand
  BY DEF LoadsInv
<1>0. PICK m \in Missions : m = MissionOf[t]
  BY DEF LoadingAssumption
<1>r. turn[t] \in TurnRecords /\ Seen(turn[t], shown[m]) /\ declared \cup loaded[m] \subseteq shown[m]
  BY <1>0, <1>i DEF LoadsTyped, AllSeen
<1>k. m \notin overlapped => promised[m] \subseteq loaded[m] /\ OneOfEach(m) /\ Stands(m, turn[t])
  BY <1>0, <1>i DEF AllStand
<1>1. /\ turn[t].at = "rehydrating" /\ overlapped' = overlapped
      /\ missed' = IF loaded[m] \subseteq turn[t].view \cup turn[t].dynamic THEN missed ELSE missed \cup {m}
      /\ UNCHANGED <<declared, loaded, promised, shown, redeclared>> /\ lapses' \in Nat
  BY <1>0, <1>i DEF Initialized, LoadsTyped
<1>2. PICK R : /\ turn' = [turn EXCEPT ![t] = R] /\ R \in TurnRecords /\ R.at = "running" /\ R.view = turn[t].view
               /\ R.kits = turn[t].view \cup turn[t].dynamic /\ R.todo = turn[t].todo /\ R.dynamic = turn[t].dynamic
  <2>1. PICK R : R = [turn[t] EXCEPT !.at = "running", !.kits = turn[t].view \cup turn[t].dynamic]
    OBVIOUS
  <2>2. /\ R \in TurnRecords /\ R.at = "running" /\ R.view = turn[t].view /\ R.todo = turn[t].todo
        /\ R.kits = turn[t].view \cup turn[t].dynamic /\ R.dynamic = turn[t].dynamic
    BY <1>r, <2>1 DEF TurnRecords, Live
  <2> QED BY <2>1, <2>2 DEF Initialized, Goto
<1>f. /\ loaded' \in [Missions -> SUBSET Tools] /\ promised' \in [Missions -> SUBSET Tools]
      /\ shown' \in [Missions -> SUBSET Tools] /\ (\A n \in Missions : shown[n] \subseteq shown'[n])
      /\ \A n \in Missions \ {m} : loaded'[n] = loaded[n] /\ promised'[n] = promised[n]
  BY <1>1, <1>i DEF LoadsTyped
<1>3. Seen(R, shown'[m]) /\ loaded'[m] \subseteq shown'[m]
  BY <1>1, <1>2, <1>r DEF Seen
<1>4. ASSUME m \notin overlapped'
      PROVE  promised'[m] \subseteq loaded'[m] /\ (redeclared \/ m \in missed' \/ OneEach(declared \cup loaded'[m]))
  BY <1>1, <1>4, <1>k DEF OneOfEach
<1>5. ASSUME m \notin overlapped' PROVE Stands(m, R)'
  <2>3. ASSUME ~redeclared, m \notin missed' PROVE declared \cup loaded[m] \subseteq R.kits /\ OneEach(R.kits)
    BY <2>3, <1>1, <1>2, <1>5, <1>k DEF Stands, OneEach
  <2> QED BY <2>3, <1>1, <1>2 DEF Stands, Live, OneEach
<1> QED BY <1>0, <1>1, <1>2, <1>3, <1>4, <1>5, <1>f, TurnSteps DEF Rests

(* load_manager goes on with a tool of a module that has no toolkit yet.     *)
LEMMA LoadBeginsLoads ==
  ASSUME LoadingAssumption, LoadsInv, NEW t \in Turns, NEW s \in Tools, LoadBegins(t, s) PROVE LoadsInv'
<1>i. LoadsTyped /\ AllSeen /\ OneTurn /\ AllStand
  BY DEF LoadsInv
<1>0. PICK m \in Missions : m = MissionOf[t]
  BY DEF LoadingAssumption
<1>r. turn[t] \in TurnRecords /\ Seen(turn[t], shown[m]) /\ declared \cup loaded[m] \subseteq shown[m]
  BY <1>0, <1>i DEF LoadsTyped, AllSeen
<1>k. m \notin overlapped => promised[m] \subseteq loaded[m] /\ OneOfEach(m) /\ Stands(m, turn[t])
  BY <1>0, <1>i DEF AllStand
<1>1. /\ turn[t].at = "running" /\ overlapped' = overlapped /\ missed' = missed
      /\ UNCHANGED <<declared, loaded, promised, shown, redeclared>> /\ lapses' \in Nat
  BY <1>i DEF LoadBegins, LoadsTyped
<1>2. PICK R : /\ turn' = [turn EXCEPT ![t] = R] /\ R \in TurnRecords /\ R.at \in Live /\ R.view = turn[t].view
               /\ R.kits = turn[t].kits /\ R.todo = turn[t].todo /\ R.dynamic = turn[t].dynamic
               /\ R.at = "resolving" => R.tool = {s} /\ ~KitOf(turn[t], s)
               /\ R.at = "persisting" => R.tool = {s} /\ s \in turn[t].kits
  <2>1. CASE Loadable(turn[t], s)
    <3>1. PICK a : a = (IF s \notin turn[t].kits THEN "resolving" ELSE IF s \notin turn[t].view THEN "persisting" ELSE "running")
      OBVIOUS
    <3>2. PICK R : R = [turn[t] EXCEPT !.at = a, !.tool = {s}, !.loads = @ + 1]
      OBVIOUS
    <3>3. a \in Live /\ (a = "resolving" => ~KitOf(turn[t], s)) /\ (a = "persisting" => s \in turn[t].kits)
      BY <2>1, <3>1 DEF Live, Loadable, Conflict
    <3>4. /\ R \in TurnRecords /\ R.at = a /\ R.view = turn[t].view /\ R.kits = turn[t].kits
          /\ R.todo = turn[t].todo /\ R.dynamic = turn[t].dynamic /\ R.tool = {s}
      <4>n. turn[t].loads \in Nat /\ {s} \in SUBSET Tools
        BY <1>r DEF TurnRecords
      <4>1. PICK T \in SUBSET Tools : T = {s}
        BY <4>n
      <4>5. PICK n \in Nat : n = turn[t].loads + 1
        BY <4>n
      <4>2. PICK A \in {"idle", "rehydrating", "over"} \cup Live : A = a
        BY <3>3
      <4>3. R = [turn[t] EXCEPT !.at = A, !.tool = T, !.loads = n]
        BY <3>2, <4>1, <4>5, <4>2
      <4> QED BY <1>r, <4>1, <4>5, <4>2, <4>3 DEF TurnRecords
    <3>5. turn' = [turn EXCEPT ![t] = R]
      BY <2>1, <3>1, <3>2 DEF LoadBegins, Goto
    <3> QED BY <3>3, <3>4, <3>5
  <2>2. CASE ~Loadable(turn[t], s)
    <3>2. PICK R : R = [turn[t] EXCEPT !.loads = @ + 1]
      OBVIOUS
    <3>4. /\ R \in TurnRecords /\ R.at = "running" /\ R.view = turn[t].view /\ R.kits = turn[t].kits
          /\ R.todo = turn[t].todo /\ R.dynamic = turn[t].dynamic
      BY <1>r, <3>2, <1>1 DEF TurnRecords, Live
    <3>5. turn' = [turn EXCEPT ![t] = R]
      BY <2>2, <3>2 DEF LoadBegins, Goto
    <3> QED BY <3>4, <3>5 DEF Live
  <2> QED BY <2>1, <2>2
<1>f. /\ loaded' \in [Missions -> SUBSET Tools] /\ promised' \in [Missions -> SUBSET Tools]
      /\ shown' \in [Missions -> SUBSET Tools] /\ (\A n \in Missions : shown[n] \subseteq shown'[n])
      /\ \A n \in Missions \ {m} : loaded'[n] = loaded[n] /\ promised'[n] = promised[n]
  BY <1>1, <1>i DEF LoadsTyped
<1>3. Seen(R, shown'[m]) /\ loaded'[m] \subseteq shown'[m]
  BY <1>1, <1>2, <1>r DEF Seen
<1>4. ASSUME m \notin overlapped'
      PROVE  promised'[m] \subseteq loaded'[m] /\ (redeclared \/ m \in missed' \/ OneEach(declared \cup loaded'[m]))
  BY <1>1, <1>4, <1>k DEF OneOfEach
<1>5. ASSUME m \notin overlapped' PROVE Stands(m, R)'
  <2>3. ASSUME ~redeclared, m \notin missed' PROVE declared \cup loaded[m] \subseteq R.kits /\ OneEach(R.kits)
    BY <2>3, <1>1, <1>2, <1>5, <1>k DEF Stands, OneEach, Live
  <2>4. ASSUME ~redeclared, m \notin missed', R.at = "resolving" PROVE OneEach(R.kits \cup R.tool)
    <3>1. OneEach(R.kits) /\ R.tool = {s} /\ \A k \in R.kits : ModuleOf[k] # ModuleOf[s]
      BY <2>3, <2>4, <1>2 DEF KitOf
    <3> QED BY <3>1 DEF OneEach
  <2> QED BY <2>3, <2>4, <1>1, <1>2 DEF Stands, Live, OneEach
<1> QED BY <1>0, <1>1, <1>2, <1>3, <1>4, <1>5, <1>f, TurnSteps DEF Rests

(* The toolkit of a resolved tool is one more of its module only where the   *)
(* turn did not have one.                                                    *)
LEMMA LoadResolvesLoads ==
  ASSUME LoadingAssumption, LoadsInv, NEW t \in Turns, LoadResolves(t) PROVE LoadsInv'
<1>i. LoadsTyped /\ AllSeen /\ OneTurn /\ AllStand
  BY DEF LoadsInv
<1>0. PICK m \in Missions : m = MissionOf[t]
  BY DEF LoadingAssumption
<1>r. turn[t] \in TurnRecords /\ Seen(turn[t], shown[m]) /\ declared \cup loaded[m] \subseteq shown[m]
  BY <1>0, <1>i DEF LoadsTyped, AllSeen
<1>k. m \notin overlapped => promised[m] \subseteq loaded[m] /\ OneOfEach(m) /\ Stands(m, turn[t])
  BY <1>0, <1>i DEF AllStand
<1>1. /\ turn[t].at = "resolving" /\ overlapped' = overlapped /\ missed' = missed
      /\ UNCHANGED <<declared, loaded, promised, redeclared>> /\ lapses' \in Nat
  BY <1>i DEF LoadResolves, Lapse, LoadsTyped
<1>2. PICK R : /\ turn' = [turn EXCEPT ![t] = R] /\ R \in TurnRecords /\ R.view = turn[t].view /\ R.todo = turn[t].todo
               /\ \/ /\ R.at = "persisting" /\ R.kits = turn[t].kits \cup turn[t].tool /\ R.tool = turn[t].tool
                     /\ R.dynamic = turn[t].dynamic \cup (turn[t].tool \ turn[t].view)
                     /\ shown' = [shown EXCEPT ![m] = @ \cup turn[t].tool]
                  \/ /\ R.at = "running" /\ R.kits = turn[t].kits /\ R.dynamic = turn[t].dynamic
                     /\ shown' = shown
  <2> DEFINE r == turn[t]
  <2>1. CASE /\ Goto(t, [r EXCEPT !.at = "persisting", !.dynamic = @ \cup (r.tool \ r.view), !.kits = @ \cup r.tool])
             /\ shown' = [shown EXCEPT ![m] = @ \cup r.tool]
    <3>1. PICK R : R = [r EXCEPT !.at = "persisting", !.dynamic = @ \cup (r.tool \ r.view), !.kits = @ \cup r.tool]
      OBVIOUS
    <3>2. /\ R \in TurnRecords /\ R.at = "persisting" /\ R.view = r.view /\ R.todo = r.todo /\ R.tool = r.tool
          /\ R.kits = r.kits \cup r.tool /\ R.dynamic = r.dynamic \cup (r.tool \ r.view)
      BY <1>r, <3>1 DEF TurnRecords, Live
    <3> QED BY <2>1, <3>1, <3>2 DEF Goto
  <2>2. CASE Goto(t, [r EXCEPT !.at = "running"]) /\ shown' = shown
    <3>1. PICK R : R = [r EXCEPT !.at = "running"]
      OBVIOUS
    <3>2. /\ R \in TurnRecords /\ R.at = "running" /\ R.view = r.view /\ R.todo = r.todo
          /\ R.kits = r.kits /\ R.dynamic = r.dynamic
      BY <1>r, <3>1 DEF TurnRecords, Live
    <3> QED BY <2>2, <3>1, <3>2 DEF Goto
  <2> QED BY <2>1, <2>2, <1>0 DEF LoadResolves
<1>f. /\ loaded' \in [Missions -> SUBSET Tools] /\ promised' \in [Missions -> SUBSET Tools]
      /\ shown' \in [Missions -> SUBSET Tools] /\ (\A n \in Missions : shown[n] \subseteq shown'[n])
      /\ \A n \in Missions \ {m} : loaded'[n] = loaded[n] /\ promised'[n] = promised[n]
      /\ shown[m] \subseteq shown'[m] /\ (R.at = "persisting" => turn[t].tool \subseteq shown'[m])
  <2>1. turn[t].tool \subseteq Tools
    BY <1>r DEF TurnRecords
  <2>2. CASE R.at = "persisting" /\ shown' = [shown EXCEPT ![m] = @ \cup turn[t].tool]
    BY <2>1, <2>2, <1>1, <1>i DEF LoadsTyped
  <2>3. CASE R.at = "running" /\ shown' = shown
    BY <2>3, <1>1, <1>i DEF LoadsTyped
  <2> QED BY <2>2, <2>3, <1>2
<1>3. Seen(R, shown'[m]) /\ loaded'[m] \subseteq shown'[m]
  BY <1>1, <1>2, <1>r, <1>f DEF Seen
<1>4. ASSUME m \notin overlapped'
      PROVE  promised'[m] \subseteq loaded'[m] /\ (redeclared \/ m \in missed' \/ OneEach(declared \cup loaded'[m]))
  BY <1>1, <1>4, <1>k DEF OneOfEach
<1>5. ASSUME m \notin overlapped' PROVE Stands(m, R)'
  <2>3. ASSUME ~redeclared, m \notin missed'
        PROVE  declared \cup loaded[m] \subseteq R.kits /\ OneEach(R.kits) /\ (R.at = "persisting" => R.tool \subseteq R.kits)
    BY <2>3, <1>1, <1>2, <1>5, <1>k DEF Stands, OneEach, Live
  <2> QED BY <2>3, <1>1, <1>2 DEF Stands, Live, OneEach
<1> QED BY <1>0, <1>1, <1>2, <1>3, <1>4, <1>5, <1>f, TurnSteps DEF Rests

(* A load that is stored is promised to the mission.                         *)
LEMMA PersistsLoads ==
  ASSUME LoadingAssumption, LoadsInv, NEW t \in Turns, Persists(t) PROVE LoadsInv'
<1>i. LoadsTyped /\ AllSeen /\ OneTurn /\ AllStand
  BY DEF LoadsInv
<1>0. PICK m \in Missions : m = MissionOf[t]
  BY DEF LoadingAssumption
<1>r. turn[t] \in TurnRecords /\ Seen(turn[t], shown[m]) /\ declared \cup loaded[m] \subseteq shown[m]
  BY <1>0, <1>i DEF LoadsTyped, AllSeen
<1>k. m \notin overlapped => promised[m] \subseteq loaded[m] /\ OneOfEach(m) /\ Stands(m, turn[t])
  BY <1>0, <1>i DEF AllStand
<1>1. /\ turn[t].at = "persisting" /\ overlapped' = overlapped /\ missed' = missed
      /\ UNCHANGED <<declared, shown, redeclared>> /\ lapses' \in Nat
      /\ \/ /\ loaded' = [loaded EXCEPT ![m] = @ \cup turn[t].tool]
            /\ promised' = [promised EXCEPT ![m] = @ \cup turn[t].tool]
         \/ loaded' = loaded /\ promised' = promised
  BY <1>0, <1>i DEF Persists, Saved, Lapse, LoadsTyped
<1>2. PICK R : /\ turn' = [turn EXCEPT ![t] = R] /\ R \in TurnRecords /\ R.at = "running" /\ R.view = turn[t].view
               /\ R.kits = turn[t].kits /\ R.todo = turn[t].todo /\ R.dynamic = turn[t].dynamic
  <2>1. PICK R : R = [turn[t] EXCEPT !.at = "running"]
    OBVIOUS
  <2>2. /\ R \in TurnRecords /\ R.at = "running" /\ R.view = turn[t].view /\ R.kits = turn[t].kits
        /\ R.todo = turn[t].todo /\ R.dynamic = turn[t].dynamic
    BY <1>r, <2>1 DEF TurnRecords, Live
  <2> QED BY <1>1, <2>1, <2>2 DEF Persists, Goto
<1>f. /\ loaded' \in [Missions -> SUBSET Tools] /\ promised' \in [Missions -> SUBSET Tools]
      /\ shown' \in [Missions -> SUBSET Tools] /\ (\A n \in Missions : shown[n] \subseteq shown'[n])
      /\ \A n \in Missions \ {m} : loaded'[n] = loaded[n] /\ promised'[n] = promised[n]
      /\ \/ loaded'[m] = loaded[m] \cup turn[t].tool /\ promised'[m] = promised[m] \cup turn[t].tool
         \/ loaded'[m] = loaded[m] /\ promised'[m] = promised[m]
  BY <1>1, <1>i, <1>r DEF LoadsTyped, TurnRecords
<1>3. Seen(R, shown'[m]) /\ loaded'[m] \subseteq shown'[m]
  BY <1>1, <1>2, <1>r, <1>f DEF Seen
<1>6. ASSUME m \notin overlapped', ~redeclared, m \notin missed
      PROVE  declared \cup loaded'[m] \subseteq R.kits /\ OneEach(R.kits)
  BY <1>6, <1>1, <1>2, <1>k, <1>f DEF Stands, Live
<1>4. ASSUME m \notin overlapped'
      PROVE  promised'[m] \subseteq loaded'[m] /\ (redeclared \/ m \in missed' \/ OneEach(declared \cup loaded'[m]))
  <2>1. promised'[m] \subseteq loaded'[m]
    BY <1>1, <1>4, <1>k, <1>f
  <2> QED BY <2>1, <1>1, <1>4, <1>6 DEF OneEach
<1>5. ASSUME m \notin overlapped' PROVE Stands(m, R)'
  BY <1>5, <1>6, <1>1, <1>2 DEF Stands, Live, OneEach
<1> QED BY <1>0, <1>1, <1>2, <1>3, <1>4, <1>5, <1>f, TurnSteps DEF Rests

(* A turn that is over has no toolkits.                                      *)
LEMMA TurnEndsLoads ==
  ASSUME LoadingAssumption, LoadsInv, NEW t \in Turns, TurnEnds(t) PROVE LoadsInv'
<1>i. LoadsTyped /\ AllSeen /\ OneTurn /\ AllStand
  BY DEF LoadsInv
<1>0. PICK m \in Missions : m = MissionOf[t]
  BY DEF LoadingAssumption
<1>r. turn[t] \in TurnRecords /\ Seen(turn[t], shown[m]) /\ declared \cup loaded[m] \subseteq shown[m]
  BY <1>0, <1>i DEF LoadsTyped, AllSeen
<1>k. m \notin overlapped => promised[m] \subseteq loaded[m] /\ OneOfEach(m) /\ Stands(m, turn[t])
  BY <1>0, <1>i DEF AllStand
<1>1. /\ turn[t].at = "running" /\ overlapped' = overlapped /\ missed' = missed
      /\ UNCHANGED <<declared, loaded, promised, shown, redeclared>> /\ lapses' \in Nat
  BY <1>i DEF TurnEnds, LoadsTyped
<1>2. PICK R : /\ turn' = [turn EXCEPT ![t] = R] /\ R \in TurnRecords /\ R.at = "over" /\ R.view = {} /\ R.kits = {}
               /\ R.todo = {} /\ R.dynamic = {}
  <2>1. PICK R : R = [Idle EXCEPT !.at = "over"]
    OBVIOUS
  <2>2. R \in TurnRecords /\ R.at = "over" /\ R.view = {} /\ R.kits = {} /\ R.todo = {} /\ R.dynamic = {}
    BY <2>1 DEF TurnRecords, Idle
  <2> QED BY <2>1, <2>2 DEF TurnEnds, Goto
<1>f. /\ loaded' \in [Missions -> SUBSET Tools] /\ promised' \in [Missions -> SUBSET Tools]
      /\ shown' \in [Missions -> SUBSET Tools] /\ (\A n \in Missions : shown[n] \subseteq shown'[n])
      /\ \A n \in Missions \ {m} : loaded'[n] = loaded[n] /\ promised'[n] = promised[n]
  BY <1>1, <1>i DEF LoadsTyped
<1>3. Seen(R, shown'[m]) /\ loaded'[m] \subseteq shown'[m]
  BY <1>1, <1>2, <1>r DEF Seen
<1>4. ASSUME m \notin overlapped'
      PROVE  promised'[m] \subseteq loaded'[m] /\ (redeclared \/ m \in missed' \/ OneEach(declared \cup loaded'[m]))
  BY <1>1, <1>4, <1>k DEF OneOfEach
<1>5. ASSUME m \notin overlapped' PROVE Stands(m, R)'
  BY <1>2 DEF Stands, Live
<1> QED BY <1>0, <1>1, <1>2, <1>3, <1>4, <1>5, <1>f, TurnSteps DEF Rests

(* The registry changes, or the agent's setup selects another tool.          *)
LEMMA SetupMoves ==
  ASSUME LoadingAssumption, LoadsInv, NEW s \in Tools, Regranted(s) \/ Redeclared(s) PROVE LoadsInv'
<1>i. LoadsTyped /\ AllSeen /\ OneTurn /\ AllStand
  BY DEF LoadsInv
<1>m. \A t \in Turns : MissionOf[t] \in Missions
  BY DEF LoadingAssumption
<1>1. CASE Regranted(s)
  <2>1. UNCHANGED <<declared, loaded, turn, promised, shown, overlapped, missed, redeclared, lapses>>
    BY <1>1 DEF Regranted
  <2> QED BY <2>1, <1>i DEF LoadsInv, LoadsTyped, AllSeen, OneTurn, AllStand, OneOfEach, Stands
<1>2. CASE Redeclared(s)
  <2>1. /\ UNCHANGED <<loaded, turn, promised, overlapped, missed, lapses>> /\ redeclared'
        /\ declared' = declared \cup {s} /\ shown' = [m \in Missions |-> shown[m] \cup {s}]
    BY <1>2 DEF Redeclared
  <2>2. LoadsTyped'
    BY <2>1, <1>i DEF LoadsTyped
  <2>3. AllSeen'
    BY <2>1, <1>i, <1>m DEF AllSeen, Seen
  <2>4. OneTurn'
    BY <2>1, <1>i DEF OneTurn
  <2>5. AllStand'
    <3>1. \A m \in Missions \ overlapped : promised[m] \subseteq loaded[m]
      BY <1>i DEF AllStand
    <3>2. ASSUME NEW t \in Turns, MissionOf[t] \notin overlapped PROVE Stands(MissionOf[t], turn[t])'
      <4>1. Stands(MissionOf[t], turn[t])
        BY <3>2, <1>i DEF AllStand
      <4> QED BY <4>1, <2>1 DEF Stands
    <3> QED BY <3>1, <3>2, <2>1 DEF AllStand, OneOfEach
  <2> QED BY <2>2, <2>3, <2>4, <2>5 DEF LoadsInv
<1> QED BY <1>1, <1>2

(* Every step of a turn, of the registry and of who changes the agent's      *)
(* setup.                                                                    *)
LEMMA LoadsGoOn == ASSUME LoadingAssumption, LoadsInv, [ToolsNext]_tvars PROVE LoadsInv'
<1>1. ASSUME NEW t \in Turns, TurnStarts(t) \/ Initialized(t) \/ LoadResolves(t) \/ Persists(t) \/ TurnEnds(t)
      PROVE  LoadsInv'
  BY <1>1, TurnStartsLoads, InitializedLoads, LoadResolvesLoads, PersistsLoads, TurnEndsLoads
<1>2. ASSUME NEW t \in Turns, NEW s \in Tools, Rehydrates(t, s) \/ Forgets(t, s) \/ LoadBegins(t, s) PROVE LoadsInv'
  BY <1>2, RehydratesLoads, ForgetsLoads, LoadBeginsLoads
<1>3. ASSUME NEW s \in Tools, Regranted(s) \/ Redeclared(s) PROVE LoadsInv'
  BY <1>3, SetupMoves
<1>4. CASE UNCHANGED tvars
  BY <1>4 DEF tvars, LoadsInv, LoadsTyped, AllSeen, OneTurn, AllStand, OneOfEach, Stands
<1> QED BY <1>1, <1>2, <1>3, <1>4 DEF ToolsNext

(* A setup that declares at most one tool of each module.                    *)
LEMMA LoadsBegin == LoadingAssumption /\ ToolsInit => LoadsInv
<1> SUFFICES ASSUME LoadingAssumption, ToolsInit PROVE LoadsInv
  OBVIOUS
<1>1. /\ declared \subseteq Tools /\ OneEach(declared) /\ overlapped = {} /\ missed = {} /\ lapses = 0
      /\ loaded = [m \in Missions |-> {}] /\ promised = [m \in Missions |-> {}]
      /\ shown = [m \in Missions |-> declared]
  BY DEF ToolsInit, OneEach
<1>2. \A t \in Turns : MissionOf[t] \in Missions
  BY DEF LoadingAssumption
<1>3. PICK I : I = Idle
  OBVIOUS
<1>4. I \in TurnRecords /\ I.at = "idle" /\ I.view = {} /\ I.dynamic = {} /\ I.kits = {} /\ I.todo = {}
  BY <1>3 DEF Idle, TurnRecords
<1>5. turn = [t \in Turns |-> I]
  BY <1>3 DEF ToolsInit
<1>6. LoadsTyped
  BY <1>1, <1>4, <1>5 DEF LoadsTyped
<1>7. AllSeen
  BY <1>1, <1>2, <1>4, <1>5 DEF AllSeen, Seen
<1>8. OneTurn
  BY <1>4, <1>5 DEF OneTurn, Rests
<1>9. AllStand
  <2>1. \A m \in Missions : declared \cup loaded[m] = declared
    BY <1>1
  <2>2. \A m \in Missions : OneOfEach(m)
    BY <2>1, <1>1 DEF OneOfEach
  <2> QED BY <1>1, <2>2, <1>4, <1>5 DEF AllStand, Stands, Live
<1> QED BY <1>6, <1>7, <1>8, <1>9 DEF LoadsInv

(* What holds of the turns gives the three parts of LoadsInOrder.            *)
LEMMA LoadsStand == LoadingAssumption /\ LoadsInv => LoadsInOrder
<1> SUFFICES ASSUME LoadingAssumption, LoadsInv PROVE LoadsInOrder
  OBVIOUS
<1>i. LoadsTyped /\ AllSeen /\ OneTurn /\ AllStand
  BY DEF LoadsInv
<1>1. NoLeak
  BY <1>i DEF NoLeak, AllSeen, Seen
<1>2. LoadsKept
  BY <1>i DEF LoadsKept, AllStand
<1>3. OneToolkitPerModule
  <2> SUFFICES ASSUME ~redeclared, NEW t \in Turns, MissionOf[t] \notin overlapped \cup missed PROVE OneEach(turn[t].kits)
    BY DEF OneToolkitPerModule
  <2>1. Stands(MissionOf[t], turn[t])
    BY <1>i DEF AllStand
  <2> QED BY <2>1 DEF Stands, OneEach
<1> QED BY <1>1, <1>2, <1>3 DEF LoadsInOrder

(* A turn has no tool that was loaded in another mission only; a load that   *)
(* was stored stays until it is revoked or gone; and no two toolkits of one  *)
(* module are before a model, but where LoadsInOrder says so:                *)
(* rehydrate_loaded_tools and load_manager.                                  *)
THEOREM LoadedInOrder == LoadsSpec => []LoadsInOrder
<1>1. ToolsInit => LoadsInv
  BY LoadingAssumption, LoadsBegin
<1>2. LoadsInv /\ [ToolsNext]_tvars => LoadsInv'
  BY LoadingAssumption, LoadsGoOn
<1>3. LoadsInv => LoadsInOrder
  BY LoadingAssumption, LoadsStand
<1> QED BY <1>1, <1>2, <1>3, PTL DEF LoadsSpec

-----------------------------------------------------------------------------
(* PausedRuns on its own.                                                    *)

HitlSpec == HitlInit /\ [][HitlNext]_hvars

PostRecords == [at : {"idle", "loading", "dropping", "partial", "reloading", "driving", "completing", "emitting", "over"},
                results : Nat, whole : BOOLEAN, from : Nat, rounds : Nat]
PausesTyped ==
  /\ pauses \in 0..MaxPauses /\ record \in {0, pauses} /\ awaiting \subseteq 1..pauses
  /\ post \in [Posts -> PostRecords] /\ used \in [Pauses -> Nat]
  /\ \A p \in Pauses : pauses < p => used[p] = 0

(* Where no two turns overlap, one of them is under way.                     *)
OneUnderWay == \A t, u \in UnderWay : t = u

(* What a turn knows of the record: nobody else touches it meanwhile.        *)
Knows(r) ==
  /\ r.at \in {"loading", "dropping"} => r.from = 0
  /\ r.at = "reloading" => record # 0 /\ r.results = record
  /\ r.at \in {"driving", "completing"} /\ r.from # 0 => r.from = record /\ used[record] > 0
  /\ r.at = "emitting" => r.from = record /\ record # 0

(* A pause that is on record and was answered is being resumed.              *)
Resumed ==
  record # 0 /\ record \notin abandoned /\ used[record] > 0 =>
    \E t \in Posts : post[t].at \in {"driving", "completing"} /\ post[t].from = record

PausesInv ==
  crossed \/ (PausesTyped /\ OneUnderWay /\ (\A t \in Posts : Knows(post[t])) /\ Resumed /\ UsedOnce /\ AwaitedIsKept)
-----------------------------------------------------------------------------

(* A step of one turn is a step of the only one that is under way.           *)
LEMMA OneStepsOn ==
  ASSUME post \in [Posts -> PostRecords], OneUnderWay, NEW t \in Posts, NEW R \in PostRecords,
         post' = [post EXCEPT ![t] = R], t \in UnderWay \/ UnderWay = {}
  PROVE  /\ post' \in [Posts -> PostRecords] /\ post'[t] = R /\ OneUnderWay'
         /\ \A u \in Posts \ {t} : post'[u] = post[u] /\ post[u].at \in {"idle", "over"}
<1>1. post'[t] = R /\ \A u \in Posts \ {t} : post'[u] = post[u]
  OBVIOUS
<1>2. \A u \in Posts \ {t} : post[u].at \in {"idle", "over"}
  BY DEF OneUnderWay, UnderWay
<1>3. OneUnderWay'
  <2>1. \A u \in UnderWay' : u = t
    BY <1>1, <1>2 DEF UnderWay
  <2> QED BY <2>1 DEF OneUnderWay
<1> QED BY <1>1, <1>2, <1>3

(* What is left to show of a step of one turn.                               *)
LEMMA PauseSteps ==
  ASSUME PausesTyped, OneUnderWay, \A u \in Posts : Knows(post[u]), NEW t \in Posts, NEW R \in PostRecords,
         post' = [post EXCEPT ![t] = R], t \in UnderWay \/ UnderWay = {},
         pauses' \in 0..MaxPauses, record' \in {0, pauses'}, awaiting' \subseteq 1..pauses',
         used' \in [Pauses -> Nat], \A p \in Pauses : pauses' < p => used'[p] = 0,
         Knows(R)', UsedOnce', AwaitedIsKept',
         record' # 0 /\ record' \notin abandoned' /\ used'[record'] > 0 =>
           R.at \in {"driving", "completing"} /\ R.from = record'
  PROVE  PausesInv'
<1>1. /\ post' \in [Posts -> PostRecords] /\ post'[t] = R /\ OneUnderWay'
      /\ \A u \in Posts \ {t} : post'[u] = post[u] /\ post[u].at \in {"idle", "over"}
  BY OneStepsOn DEF PausesTyped
<1>2. PausesTyped'
  BY <1>1 DEF PausesTyped, Pauses
<1>3. \A u \in Posts : Knows(post[u])'
  <2>1. ASSUME NEW u \in Posts \ {t} PROVE Knows(post[u])'
    BY <1>1 DEF Knows
  <2>2. Knows(post[t])'
    BY <1>1 DEF Knows
  <2> QED BY <2>1, <2>2
<1>4. Resumed'
  BY <1>1 DEF Resumed
<1> QED BY <1>1, <1>2, <1>3, <1>4 DEF PausesInv

(* Who resumes the pause on record is the turn that is under way.            *)
LEMMA OneResumes ==
  ASSUME OneUnderWay, Resumed, NEW t \in Posts, t \in UnderWay \/ UnderWay = {},
         record # 0, record \notin abandoned, used[record] > 0
  PROVE  post[t].at \in {"driving", "completing"} /\ post[t].from = record
<1>1. PICK v \in Posts : post[v].at \in {"driving", "completing"} /\ post[v].from = record
  BY DEF Resumed
<1>2. v \in UnderWay
  BY <1>1 DEF UnderWay
<1> QED BY <1>1, <1>2 DEF OneUnderWay

(* A step that moves the turn and nothing else.                              *)
LEMMA QuietSteps ==
  ASSUME PausesTyped, OneUnderWay, \A u \in Posts : Knows(post[u]), Resumed, UsedOnce, AwaitedIsKept,
         NEW t \in Posts, NEW R \in PostRecords, post' = [post EXCEPT ![t] = R], t \in UnderWay \/ UnderWay = {},
         UNCHANGED <<record, pauses, awaiting, used, abandoned>>, Knows(R),
         post[t].at \in {"driving", "completing"} => R.at \in {"driving", "completing"} /\ R.from = post[t].from
  PROVE  PausesInv'
<1>1. Knows(R)' /\ UsedOnce' /\ AwaitedIsKept'
  BY DEF Knows, UsedOnce, AwaitedIsKept
<1>2. record # 0 /\ record \notin abandoned /\ used[record] > 0 => R.at \in {"driving", "completing"} /\ R.from = record
  BY OneResumes
<1> QED BY <1>1, <1>2, PauseSteps DEF PausesTyped

(* A turn begins alone, or crosses another.                                  *)
LEMMA ArrivesPauses == ASSUME PausesInv, NEW t \in Posts, Arrives(t), ~crossed' PROVE PausesInv'
<1>0. ~crossed
  BY DEF Arrives
<1>i. /\ PausesTyped /\ OneUnderWay /\ (\A u \in Posts : Knows(post[u])) /\ Resumed /\ UsedOnce /\ AwaitedIsKept
  BY <1>0 DEF PausesInv
<1>r. post[t] \in PostRecords /\ Knows(post[t])
  BY <1>i DEF PausesTyped
<1>1. post[t].at = "idle" /\ UNCHANGED <<record, pauses, awaiting, used, abandoned>>
  BY DEF Arrives
<1>2. PICK p, whole, R :
        /\ p \in awaiting \cup {0} /\ whole \in BOOLEAN
        /\ post' = [post EXCEPT ![t] = R] /\ R = [Fresh EXCEPT !.at = "loading", !.results = p, !.whole = whole]
  BY DEF Arrives, Step
<1>p. p \in Nat
  BY <1>2, <1>i DEF PausesTyped
<1>3. R \in PostRecords /\ R.at = "loading" /\ R.from = 0
  BY <1>2, <1>p DEF PostRecords, Fresh
<1>4. post' = [post EXCEPT ![t] = R]
  BY <1>2
<1>5. t \in UnderWay \/ UnderWay = {}
  BY DEF Arrives
<1>6. /\ Knows(R)
      /\ post[t].at \in {"driving", "completing"} => R.at \in {"driving", "completing"} /\ R.from = post[t].from
  BY <1>1, <1>2, <1>3, <1>r DEF Knows
<1> QED BY <1>1, <1>3, <1>4, <1>5, <1>6, <1>i, QuietSteps

(* A turn finds the record its results are for, one to abandon, or none.     *)
LEMMA LoadsPauses == ASSUME PausesInv, NEW t \in Posts, Loads(t), ~crossed' PROVE PausesInv'
<1>0. ~crossed
  BY DEF Loads
<1>i. /\ PausesTyped /\ OneUnderWay /\ (\A u \in Posts : Knows(post[u])) /\ Resumed /\ UsedOnce /\ AwaitedIsKept
  BY <1>0 DEF PausesInv
<1>r. post[t] \in PostRecords /\ Knows(post[t])
  BY <1>i DEF PausesTyped
<1>1. post[t].at = "loading" /\ UNCHANGED <<record, pauses, awaiting, used, abandoned>>
  BY DEF Loads
<1>2. PICK a \in {"reloading", "partial", "dropping", "driving"} :
        /\ post' = [post EXCEPT ![t] = [post[t] EXCEPT !.at = a]]
        /\ a = "reloading" => record # 0 /\ post[t].results = record
  <2>1. CASE Error /\ Step(t, [post[t] EXCEPT !.at = "driving"])
    BY <2>1 DEF Step
  <2>2. PICK mine : mine = (record # 0 /\ post[t].results = record)
    OBVIOUS
  <2>3. PICK a : a = IF mine THEN (IF post[t].whole THEN "reloading" ELSE "partial")
                     ELSE IF record # 0 /\ post[t].results = 0 THEN "dropping" ELSE "driving"
    OBVIOUS
  <2>4. a \in {"reloading", "partial", "dropping", "driving"} /\ (a = "reloading" => record # 0 /\ post[t].results = record)
    BY <2>2, <2>3
  <2>5. CASE Step(t, [post[t] EXCEPT !.at = a])
    BY <2>4, <2>5 DEF Step
  <2> QED BY <2>1, <2>2, <2>3, <2>5 DEF Loads
<1>s. PICK R : R = [post[t] EXCEPT !.at = a]
  OBVIOUS
<1>3. /\ R \in PostRecords /\ R.at = a /\ R.from = post[t].from /\ R.results = post[t].results
  BY <1>r, <1>2, <1>s DEF PostRecords
<1>4. post' = [post EXCEPT ![t] = R]
  BY <1>2, <1>s
<1>5. t \in UnderWay \/ UnderWay = {}
  BY <1>1 DEF UnderWay
<1>6. /\ Knows(R)
      /\ post[t].at \in {"driving", "completing"} => R.at \in {"driving", "completing"} /\ R.from = post[t].from
  BY <1>1, <1>2, <1>3, <1>r DEF Knows
<1> QED BY <1>1, <1>3, <1>4, <1>5, <1>6, <1>i, QuietSteps

(* Results that are not complete end the turn and leave the record.          *)
LEMMA PartialPauses == ASSUME PausesInv, NEW t \in Posts, Partial(t), ~crossed' PROVE PausesInv'
<1>0. ~crossed
  BY DEF Partial
<1>i. /\ PausesTyped /\ OneUnderWay /\ (\A u \in Posts : Knows(post[u])) /\ Resumed /\ UsedOnce /\ AwaitedIsKept
  BY <1>0 DEF PausesInv
<1>r. post[t] \in PostRecords /\ Knows(post[t])
  BY <1>i DEF PausesTyped
<1>1. post[t].at = "partial" /\ UNCHANGED <<record, pauses, awaiting, used, abandoned>>
  BY DEF Partial, KeepPartial
<1>2. PICK R : R = [post[t] EXCEPT !.at = "over"]
  OBVIOUS
<1>3. R \in PostRecords /\ R.at = "over"
  BY <1>r, <1>2 DEF PostRecords
<1>4. post' = [post EXCEPT ![t] = R]
  BY <1>2 DEF Partial, Step
<1>5. t \in UnderWay \/ UnderWay = {}
  BY <1>1 DEF UnderWay
<1>6. /\ Knows(R)
      /\ post[t].at \in {"driving", "completing"} => R.at \in {"driving", "completing"} /\ R.from = post[t].from
  BY <1>1, <1>2, <1>3, <1>r DEF Knows
<1> QED BY <1>1, <1>3, <1>4, <1>5, <1>6, <1>i, QuietSteps

(* A run that came to its end is to be completed.                            *)
LEMMA FinishesPauses == ASSUME PausesInv, NEW t \in Posts, Finishes(t), ~crossed' PROVE PausesInv'
<1>0. ~crossed
  BY DEF Finishes
<1>i. /\ PausesTyped /\ OneUnderWay /\ (\A u \in Posts : Knows(post[u])) /\ Resumed /\ UsedOnce /\ AwaitedIsKept
  BY <1>0 DEF PausesInv
<1>r. post[t] \in PostRecords /\ Knows(post[t])
  BY <1>i DEF PausesTyped
<1>1. post[t].at = "driving" /\ UNCHANGED <<record, pauses, awaiting, used, abandoned>>
  BY DEF Finishes
<1>2. PICK R : R = [post[t] EXCEPT !.at = "completing"]
  OBVIOUS
<1>3. R \in PostRecords /\ R.at = "completing" /\ R.from = post[t].from
  BY <1>r, <1>2 DEF PostRecords
<1>4. post' = [post EXCEPT ![t] = R]
  BY <1>2 DEF Finishes, Step
<1>5. t \in UnderWay \/ UnderWay = {}
  BY <1>1 DEF UnderWay
<1>6. /\ Knows(R)
      /\ post[t].at \in {"driving", "completing"} => R.at \in {"driving", "completing"} /\ R.from = post[t].from
  BY <1>1, <1>2, <1>3, <1>r DEF Knows
<1> QED BY <1>1, <1>3, <1>4, <1>5, <1>6, <1>i, QuietSteps

(* A run is continued in the process: the turn stays the one that knows the  *)
(* record.                                                                   *)
LEMMA ContinuesPauses == ASSUME PausesInv, NEW t \in Posts, Continues(t), ~crossed' PROVE PausesInv'
<1>0. ~crossed
  BY DEF Continues
<1>i. /\ PausesTyped /\ OneUnderWay /\ (\A u \in Posts : Knows(post[u])) /\ Resumed /\ UsedOnce /\ AwaitedIsKept
  BY <1>0 DEF PausesInv
<1>r. post[t] \in PostRecords /\ Knows(post[t])
  BY <1>i DEF PausesTyped
<1>1. post[t].at = "driving" /\ UNCHANGED <<record, pauses, awaiting, used, abandoned>>
  BY DEF Continues
<1>2. PICK a, n, R :
        /\ a \in {"completing", "driving"} /\ n \in Nat
        /\ post' = [post EXCEPT ![t] = R] /\ R = [post[t] EXCEPT !.rounds = n, !.at = a]
  <2>1. PICK a, n : a = (IF post[t].rounds + 1 = MaxRounds THEN "completing" ELSE "driving") /\ n = post[t].rounds + 1
    OBVIOUS
  <2>2. post[t].rounds \in Nat
    BY <1>r DEF PostRecords
  <2>3. a \in {"completing", "driving"} /\ n \in Nat
    BY <2>1, <2>2
  <2>4. post' = [post EXCEPT ![t] = [post[t] EXCEPT !.rounds = n, !.at = a]]
    BY <2>1 DEF Continues, Step
  <2> QED BY <2>3, <2>4
<1>3. R \in PostRecords /\ R.at = a /\ R.from = post[t].from
  BY <1>r, <1>2 DEF PostRecords
<1>4. post' = [post EXCEPT ![t] = R]
  BY <1>2
<1>5. t \in UnderWay \/ UnderWay = {}
  BY <1>1 DEF UnderWay
<1>6. /\ Knows(R)
      /\ post[t].at \in {"driving", "completing"} => R.at \in {"driving", "completing"} /\ R.from = post[t].from
  BY <1>1, <1>2, <1>3, <1>r DEF Knows
<1> QED BY <1>1, <1>3, <1>4, <1>5, <1>6, <1>i, QuietSteps

(* A user message abandons the paused run.                                   *)
LEMMA DropsPauses == ASSUME PausesInv, NEW t \in Posts, Drops(t), ~crossed' PROVE PausesInv'
<1>0. ~crossed
  BY DEF Drops
<1>i. /\ PausesTyped /\ OneUnderWay /\ (\A u \in Posts : Knows(post[u])) /\ Resumed /\ UsedOnce /\ AwaitedIsKept
  BY <1>0 DEF PausesInv
<1>r. post[t] \in PostRecords /\ Knows(post[t])
  BY <1>i DEF PausesTyped
<1>1. post[t].at = "dropping" /\ record' = 0 /\ abandoned' = abandoned \cup awaiting /\ UNCHANGED <<pauses, awaiting, used>>
  BY DEF Drops
<1>2. PICK R : R = [post[t] EXCEPT !.at = "driving"]
  OBVIOUS
<1>3. R \in PostRecords /\ R.at = "driving" /\ R.from = post[t].from
  BY <1>r, <1>2 DEF PostRecords
<1>4. post' = [post EXCEPT ![t] = R]
  BY <1>2 DEF Drops, Step
<1>5. t \in UnderWay \/ UnderWay = {}
  BY <1>1 DEF UnderWay
<1>6. /\ pauses' \in 0..MaxPauses /\ record' \in {0, pauses'} /\ awaiting' \subseteq 1..pauses'
      /\ used' \in [Pauses -> Nat] /\ \A p \in Pauses : pauses' < p => used'[p] = 0
  BY <1>1, <1>i DEF PausesTyped
<1>7. Knows(R)' /\ UsedOnce' /\ AwaitedIsKept'
  BY <1>1, <1>3, <1>r, <1>i DEF Knows, UsedOnce, AwaitedIsKept
<1>r8. record # 0 /\ record \notin abandoned /\ used[record] > 0 =>
         post[t].at \in {"driving", "completing"} /\ post[t].from = record
  BY <1>5, <1>i, OneResumes
<1>8. record' # 0 /\ record' \notin abandoned' /\ used'[record'] > 0 =>
        R.at \in {"driving", "completing"} /\ R.from = record'
  BY <1>1
<1> QED BY <1>1, <1>3, <1>4, <1>5, <1>6, <1>7, <1>8, <1>i, PauseSteps

(* A turn that completes clears the record it knows, or fails to.            *)
LEMMA CompletesPauses == ASSUME PausesInv, NEW t \in Posts, Completes(t), ~crossed' PROVE PausesInv'
<1>0. ~crossed
  BY DEF Completes
<1>i. /\ PausesTyped /\ OneUnderWay /\ (\A u \in Posts : Knows(post[u])) /\ Resumed /\ UsedOnce /\ AwaitedIsKept
  BY <1>0 DEF PausesInv
<1>r. post[t] \in PostRecords /\ Knows(post[t])
  BY <1>i DEF PausesTyped
<1>1. /\ post[t].at = "completing" /\ UNCHANGED <<pauses, awaiting, used, abandoned>>
      /\ record' = IF post[t].from # 0 THEN 0 ELSE record
  BY DEF Completes, ClearDone
<1>2. PICK R : R = [post[t] EXCEPT !.at = "over"]
  OBVIOUS
<1>3. R \in PostRecords /\ R.at = "over"
  BY <1>r, <1>2 DEF PostRecords
<1>4. post' = [post EXCEPT ![t] = R]
  BY <1>2 DEF Completes, Step
<1>5. t \in UnderWay \/ UnderWay = {}
  BY <1>1 DEF UnderWay
<1>6. /\ pauses' \in 0..MaxPauses /\ record' \in {0, pauses'} /\ awaiting' \subseteq 1..pauses'
      /\ used' \in [Pauses -> Nat] /\ \A p \in Pauses : pauses' < p => used'[p] = 0
  BY <1>1, <1>i DEF PausesTyped
<1>7. Knows(R)' /\ UsedOnce' /\ AwaitedIsKept'
  <2>1. Knows(R)' /\ UsedOnce'
    BY <1>1, <1>3, <1>i DEF Knows, UsedOnce
  <2>2. AwaitedIsKept'
    BY <1>1, <1>r, <1>i DEF Knows, AwaitedIsKept
  <2> QED BY <2>1, <2>2
<1>r8. record # 0 /\ record \notin abandoned /\ used[record] > 0 =>
         post[t].at \in {"driving", "completing"} /\ post[t].from = record
  BY <1>5, <1>i, OneResumes
<1>8. record' # 0 /\ record' \notin abandoned' /\ used'[record'] > 0 =>
        R.at \in {"driving", "completing"} /\ R.from = record'
  BY <1>1, <1>r8
<1> QED BY <1>1, <1>3, <1>4, <1>5, <1>6, <1>7, <1>8, <1>i, PauseSteps

(* The client is told what to answer of the run that is on record.           *)
LEMMA EmitsPauses == ASSUME PausesInv, NEW t \in Posts, Emits(t), ~crossed' PROVE PausesInv'
<1>0. ~crossed
  BY DEF Emits
<1>i. /\ PausesTyped /\ OneUnderWay /\ (\A u \in Posts : Knows(post[u])) /\ Resumed /\ UsedOnce /\ AwaitedIsKept
  BY <1>0 DEF PausesInv
<1>r. post[t] \in PostRecords /\ Knows(post[t])
  BY <1>i DEF PausesTyped
<1>1. /\ post[t].at = "emitting" /\ UNCHANGED <<record, pauses, used, abandoned>>
      /\ awaiting' = awaiting \cup {post[t].from} /\ post[t].from = record /\ record # 0
  BY <1>r DEF Emits, Knows
<1>2. PICK R : R = [post[t] EXCEPT !.at = "over"]
  OBVIOUS
<1>3. R \in PostRecords /\ R.at = "over"
  BY <1>r, <1>2 DEF PostRecords
<1>4. post' = [post EXCEPT ![t] = R]
  BY <1>2 DEF Emits, Step
<1>5. t \in UnderWay \/ UnderWay = {}
  BY <1>1 DEF UnderWay
<1>6. /\ pauses' \in 0..MaxPauses /\ record' \in {0, pauses'} /\ awaiting' \subseteq 1..pauses'
      /\ used' \in [Pauses -> Nat] /\ \A p \in Pauses : pauses' < p => used'[p] = 0
  BY <1>1, <1>i DEF PausesTyped
<1>7. Knows(R)' /\ UsedOnce' /\ AwaitedIsKept'
  <2>1. Knows(R)' /\ UsedOnce'
    BY <1>1, <1>3, <1>i DEF Knows, UsedOnce
  <2>2. AwaitedIsKept'
    BY <1>1, <1>i DEF AwaitedIsKept
  <2> QED BY <2>1, <2>2
<1>r8. record # 0 /\ record \notin abandoned /\ used[record] > 0 =>
         post[t].at \in {"driving", "completing"} /\ post[t].from = record
  BY <1>5, <1>i, OneResumes
<1>8. record' # 0 /\ record' \notin abandoned' /\ used'[record'] > 0 =>
        R.at \in {"driving", "completing"} /\ R.from = record'
  BY <1>1, <1>r8
<1> QED BY <1>1, <1>3, <1>4, <1>5, <1>6, <1>7, <1>8, <1>i, PauseSteps

(* A turn that raises leaves the record, and a resumed run counts as         *)
(* abandoned.                                                                *)
LEMMA RaisesPauses == ASSUME PausesInv, NEW t \in Posts, Raises(t), ~crossed' PROVE PausesInv'
<1>0. ~crossed
  BY DEF Raises
<1>i. /\ PausesTyped /\ OneUnderWay /\ (\A u \in Posts : Knows(post[u])) /\ Resumed /\ UsedOnce /\ AwaitedIsKept
  BY <1>0 DEF PausesInv
<1>r. post[t] \in PostRecords /\ Knows(post[t])
  BY <1>i DEF PausesTyped
<1>1. /\ post[t].at \in {"dropping", "driving", "completing", "emitting"} /\ UNCHANGED <<record, pauses, awaiting, used>>
      /\ abandoned' = abandoned \cup {post[t].from}
  BY DEF Raises
<1>2. PICK R : R = [post[t] EXCEPT !.at = "over"]
  OBVIOUS
<1>3. R \in PostRecords /\ R.at = "over"
  BY <1>r, <1>2 DEF PostRecords
<1>4. post' = [post EXCEPT ![t] = R]
  BY <1>2 DEF Raises, Step
<1>5. t \in UnderWay \/ UnderWay = {}
  BY <1>1 DEF UnderWay
<1>6. /\ pauses' \in 0..MaxPauses /\ record' \in {0, pauses'} /\ awaiting' \subseteq 1..pauses'
      /\ used' \in [Pauses -> Nat] /\ \A p \in Pauses : pauses' < p => used'[p] = 0
  BY <1>1, <1>i DEF PausesTyped
<1>7. Knows(R)' /\ UsedOnce' /\ AwaitedIsKept'
  BY <1>1, <1>3, <1>i DEF Knows, UsedOnce, AwaitedIsKept
<1>r8. record # 0 /\ record \notin abandoned /\ used[record] > 0 =>
         post[t].at \in {"driving", "completing"} /\ post[t].from = record
  BY <1>5, <1>i, OneResumes
<1>8. record' # 0 /\ record' \notin abandoned' /\ used'[record'] > 0 =>
        R.at \in {"driving", "completing"} /\ R.from = record'
  BY <1>1, <1>r8
<1> QED BY <1>1, <1>3, <1>4, <1>5, <1>6, <1>7, <1>8, <1>i, PauseSteps

(* A run that pauses again replaces the record.                              *)
LEMMA PausesAgainPauses == ASSUME PausesInv, NEW t \in Posts, PausesAgain(t), ~crossed' PROVE PausesInv'
<1>0. ~crossed
  BY DEF PausesAgain
<1>i. /\ PausesTyped /\ OneUnderWay /\ (\A u \in Posts : Knows(post[u])) /\ Resumed /\ UsedOnce /\ AwaitedIsKept
  BY <1>0 DEF PausesInv
<1>r. post[t] \in PostRecords /\ Knows(post[t])
  BY <1>i DEF PausesTyped
<1>p. pauses \in Nat /\ MaxPauses \in Nat
  BY <1>i, PausesAssumption DEF PausesTyped, PausesAssumption
<1>1. /\ post[t].at = "driving" /\ pauses < MaxPauses /\ pauses' = pauses + 1 /\ record' = pauses + 1
      /\ UNCHANGED <<awaiting, used, abandoned>>
  BY DEF PausesAgain
<1>n. PICK n \in Nat : n = pauses + 1
  BY <1>p
<1>2. PICK R : R = [post[t] EXCEPT !.at = "emitting", !.from = n]
  OBVIOUS
<1>3. R \in PostRecords /\ R.at = "emitting" /\ R.from = pauses + 1
  BY <1>r, <1>n, <1>2 DEF PostRecords
<1>4. post' = [post EXCEPT ![t] = R]
  BY <1>n, <1>2 DEF PausesAgain, Step
<1>5. t \in UnderWay \/ UnderWay = {}
  BY <1>1 DEF UnderWay
<1>6. /\ pauses' \in 0..MaxPauses /\ record' \in {0, pauses'} /\ awaiting' \subseteq 1..pauses'
      /\ used' \in [Pauses -> Nat] /\ \A p \in Pauses : pauses' < p => used'[p] = 0
  <2>1. pauses' \in 0..MaxPauses /\ record' \in {0, pauses'}
    BY <1>1, <1>p
  <2>2. awaiting' \subseteq 1..pauses'
    BY <1>1, <1>p, <1>i DEF PausesTyped
  <2>3. used' \in [Pauses -> Nat] /\ \A p \in Pauses : pauses' < p => used'[p] = 0
    BY <1>1, <1>p, <1>i DEF PausesTyped, Pauses
  <2> QED BY <2>1, <2>2, <2>3
<1>u. used[pauses + 1] = 0
  BY <1>1, <1>p, <1>i DEF PausesTyped, Pauses
<1>7. Knows(R)' /\ UsedOnce' /\ AwaitedIsKept'
  <2>1. Knows(R)' /\ UsedOnce'
    BY <1>1, <1>3, <1>p, <1>i DEF Knows, UsedOnce
  <2>2. ASSUME NEW p \in awaiting \ abandoned PROVE p \in Nat /\ p < pauses + 1
    BY <1>p, <1>i DEF PausesTyped
  <2>3. pauses + 1 \in Pauses
    BY <1>1, <1>p DEF Pauses
  <2>4. AwaitedIsKept'
    BY <1>1, <1>p, <2>2, <2>3 DEF AwaitedIsKept
  <2> QED BY <2>1, <2>4
<1>r8. record # 0 /\ record \notin abandoned /\ used[record] > 0 =>
         post[t].at \in {"driving", "completing"} /\ post[t].from = record
  BY <1>5, <1>i, OneResumes
<1>8. record' # 0 /\ record' \notin abandoned' /\ used'[record'] > 0 =>
        R.at \in {"driving", "completing"} /\ R.from = record'
  BY <1>1, <1>u
<1> QED BY <1>1, <1>3, <1>4, <1>5, <1>6, <1>7, <1>8, <1>i, PauseSteps

(* A resumed run uses the results that were posted for it.                   *)
LEMMA ReloadsPauses == ASSUME PausesInv, NEW t \in Posts, Reloads(t), ~crossed' PROVE PausesInv'
<1>0. ~crossed
  BY DEF Reloads
<1>i. /\ PausesTyped /\ OneUnderWay /\ (\A u \in Posts : Knows(post[u])) /\ Resumed /\ UsedOnce /\ AwaitedIsKept
  BY <1>0 DEF PausesInv
<1>r. post[t] \in PostRecords /\ Knows(post[t])
  BY <1>i DEF PausesTyped
<1>1. /\ post[t].at = "reloading" /\ UNCHANGED <<record, pauses, awaiting, abandoned>>
      /\ record # 0 /\ post[t].results = record /\ record \in Pauses /\ record \in Nat
  <2>1. record # 0 /\ post[t].results = record /\ post[t].at = "reloading"
    BY <1>r DEF Knows, Reloads
  <2>2. record \in Pauses /\ record \in Nat
    BY <2>1, <1>i, PausesAssumption DEF PausesTyped, Pauses, PausesAssumption
  <2> QED BY <2>1, <2>2 DEF Reloads
<1>2. PICK R : R = [post[t] EXCEPT !.at = "driving", !.from = record]
  OBVIOUS
<1>3. R \in PostRecords /\ R.at = "driving" /\ R.from = record
  BY <1>r, <1>1, <1>2 DEF PostRecords
<1>4. post' = [post EXCEPT ![t] = R] /\ used' = [used EXCEPT ![record] = @ + 1]
  BY <1>1, <1>2 DEF Reloads, Step
<1>5. t \in UnderWay \/ UnderWay = {}
  BY <1>1 DEF UnderWay
<1>n. used \in [Pauses -> Nat] /\ used' \in [Pauses -> Nat] /\ used'[record] = used[record] + 1
      /\ \A p \in Pauses \ {record} : used'[p] = used[p]
  BY <1>1, <1>4, <1>i DEF PausesTyped
<1>6. /\ pauses' \in 0..MaxPauses /\ record' \in {0, pauses'} /\ awaiting' \subseteq 1..pauses'
      /\ used' \in [Pauses -> Nat] /\ \A p \in Pauses : pauses' < p => used'[p] = 0
  BY <1>1, <1>n, <1>i DEF PausesTyped
<1>r8. record # 0 /\ record \notin abandoned /\ used[record] > 0 =>
         post[t].at \in {"driving", "completing"} /\ post[t].from = record
  BY <1>5, <1>i, OneResumes
<1>8. record' # 0 /\ record' \notin abandoned' /\ used'[record'] > 0 =>
        R.at \in {"driving", "completing"} /\ R.from = record'
  BY <1>3, <1>1
<1>7. Knows(R)' /\ UsedOnce' /\ AwaitedIsKept'
  <2>1. Knows(R)'
    BY <1>1, <1>3, <1>n DEF Knows
  <2>2. record \in abandoned \/ used[record] = 0
    BY <1>1, <1>r8, <1>n
  <2>3. UsedOnce'
    BY <1>1, <1>n, <2>2, <1>i DEF UsedOnce
  <2>4. AwaitedIsKept'
    BY <1>1, <1>n, <1>i DEF AwaitedIsKept, PausesTyped, Pauses
  <2> QED BY <2>1, <2>3, <2>4
<1> QED BY <1>1, <1>3, <1>4, <1>5, <1>6, <1>7, <1>8, <1>i, PauseSteps

(* Every step of the posts to a thread.                                      *)
LEMMA PausesGoOn == ASSUME PausesInv, [HitlNext]_hvars PROVE PausesInv'
<1>1. ASSUME NEW t \in Posts, \/ Arrives(t) \/ Loads(t) \/ Drops(t) \/ Partial(t) \/ Reloads(t) \/ Continues(t)
                              \/ Finishes(t) \/ Completes(t) \/ PausesAgain(t) \/ Emits(t) \/ Raises(t)
      PROVE  PausesInv'
  <2>1. CASE ~crossed'
    BY <1>1, <2>1, ArrivesPauses, LoadsPauses, DropsPauses, PartialPauses, ReloadsPauses,
       ContinuesPauses,
       FinishesPauses, CompletesPauses, PausesAgainPauses, EmitsPauses, RaisesPauses
  <2> QED BY <2>1 DEF PausesInv
<1>2. CASE UNCHANGED hvars
  BY <1>2 DEF hvars, PausesInv, PausesTyped, OneUnderWay, UnderWay, Knows, Resumed, UsedOnce,
     AwaitedIsKept
<1> QED BY <1>1, <1>2 DEF HitlNext

(* A thread before its first post.                                           *)
LEMMA PausesBegin == HitlInit => PausesInv
<1> SUFFICES ASSUME HitlInit PROVE PausesInv
  OBVIOUS
<1>1. PICK R : R = Fresh
  OBVIOUS
<1>2. R \in PostRecords /\ R.at = "idle"
  BY <1>1 DEF Fresh, PostRecords
<1>3. post = [t \in Posts |-> R] /\ record = 0 /\ pauses = 0 /\ awaiting = {} /\ used = [p \in Pauses |-> 0]
  BY <1>1 DEF HitlInit
<1>4. PausesTyped
  BY <1>2, <1>3, PausesAssumption DEF PausesTyped, PausesAssumption
<1>5. OneUnderWay /\ (\A t \in Posts : Knows(post[t])) /\ Resumed /\ UsedOnce /\ AwaitedIsKept
  BY <1>2, <1>3 DEF OneUnderWay, UnderWay, Knows, Resumed, UsedOnce, AwaitedIsKept
<1> QED BY <1>4, <1>5 DEF PausesInv

(* What the client was told to answer it can answer, and results go into the *)
(* agent once, unless two turns of the thread crossed or a resume raised:    *)
(* handle_agui_input and _drive of the HITL runner.                          *)
THEOREM PausedInOrder == HitlSpec => []PausesInOrder
<1>1. HitlInit => PausesInv
  BY PausesBegin
<1>2. PausesInv /\ [HitlNext]_hvars => PausesInv'
  BY PausesGoOn
<1>3. PausesInv => PausesInOrder
  BY DEF PausesInv, PausesInOrder
<1> QED BY <1>1, <1>2, <1>3, PTL DEF HitlSpec

-----------------------------------------------------------------------------
(* ToolCall on its own.                                                      *)

CallsSpec == CallsInit /\ [][ToolCallNext]_cvars

Remotes == {"none", "running", "abandoned", "returned", "raised", "cancelled", "closed"}
Records == [at : {"idle", "waiting", "relaying", "answered", "left"}, results : Nat, answer : [ok : BOOLEAN, frame : Nat]]
CallsTyped ==
  /\ toolCall \in [ToolCalls -> Records] /\ streamed \in [ToolCalls -> Seq(Kinds)]
  /\ remote \in [ToolCalls -> Remotes]
  /\ agentOut \in Seq(ToolCalls \X Nat)

(* What a wrapper r with frames s under it has taken of them.                *)
NoneFatal(s) == \A k \in DOMAIN s : s[k] # "fatal"
Taken(r, s) ==
  /\ r.at = "idle" => s = <<>> /\ r.results = 0
  /\ r.at = "waiting" => r.results = Len(s) /\ NoneFatal(s)
  /\ r.at = "relaying" => r.results + 1 = Len(s) /\ NoneFatal(s)
(* What it answered.                                                         *)
Told(r, s, over) ==
  /\ r.answer.ok =>
       /\ r.at = "answered" /\ r.results = Len(s) /\ NoneFatal(s)
       /\ r.answer.frame \in DOMAIN s /\ s[r.answer.frame] \in {"output", "event"}
       /\ \A k \in DOMAIN s : r.answer.frame < k => s[k] \in {"mark", "warning", "end"}
  /\ r.at = "answered" /\ ~r.answer.ok /\ over = "returned" => \A k \in DOMAIN s : s[k] # "output"
  /\ r.at \in {"answered", "left"} => over # "running"
  /\ r.at \in {"waiting", "relaying"} => over = "running"
(* The agent's stream: the events of a call in order, each taken before.     *)
Relayed(out) ==
  \A i \in DOMAIN out :
    /\ out[i][2] \in DOMAIN streamed[out[i][1]] /\ streamed[out[i][1]][out[i][2]] = "event"
    /\ toolCall[out[i][1]].at \in {"idle", "waiting", "relaying"} => out[i][2] <= toolCall[out[i][1]].results
    /\ \A j \in 1..i - 1 : out[j][1] = out[i][1] => out[j][2] < out[i][2]

CallsInv ==
  /\ CallsTyped /\ Relayed(agentOut)
  /\ \A c \in ToolCalls : Taken(toolCall[c], streamed[c]) /\ Told(toolCall[c], streamed[c], remote[c])
-----------------------------------------------------------------------------

Open == {"idle", "waiting", "relaying"}

(* A step of one call, which may put one event on the agent's stream.        *)
LEMMA CallSteps ==
  ASSUME CallsInv, NEW c \in ToolCalls, NEW R \in Records, NEW S \in Seq(Kinds), NEW O \in Remotes,
         toolCall' = [toolCall EXCEPT ![c] = R],
         streamed' \in [ToolCalls -> Seq(Kinds)], streamed'[c] = S,
         \A d \in ToolCalls \ {c} : streamed'[d] = streamed[d],
         remote' \in [ToolCalls -> Remotes], remote'[c] = O, \A d \in ToolCalls \ {c} : remote'[d] = remote[d],
         Taken(R, S), Told(R, S, O),
         \A k \in DOMAIN streamed[c] : k \in DOMAIN S /\ S[k] = streamed[c][k],
         R.at \in Open => toolCall[c].at \in Open /\ toolCall[c].results <= R.results,
         NEW n \in Nat,
         \/ agentOut' = agentOut
         \/ /\ agentOut' = Append(agentOut, <<c, n>>) /\ n \in DOMAIN S /\ S[n] = "event"
            /\ R.at \in Open => n <= R.results
            /\ toolCall[c].at \in Open /\ toolCall[c].results < n
  PROVE  CallsInv'
<1>i. /\ CallsTyped /\ Relayed(agentOut)
      /\ \A d \in ToolCalls : Taken(toolCall[d], streamed[d]) /\ Told(toolCall[d], streamed[d], remote[d])
  BY DEF CallsInv
<1>1. /\ toolCall' \in [ToolCalls -> Records] /\ toolCall'[c] = R
      /\ \A d \in ToolCalls \ {c} : toolCall'[d] = toolCall[d]
  BY <1>i DEF CallsTyped
<1>2. <<c, n>> \in ToolCalls \X Nat
  OBVIOUS
<1>3. agentOut' \in Seq(ToolCalls \X Nat)
  <2>1. agentOut \in Seq(ToolCalls \X Nat)
    BY <1>i DEF CallsTyped
  <2>2. Append(agentOut, <<c, n>>) \in Seq(ToolCalls \X Nat)
    BY <2>1, <1>2, AppendProperties
  <2> QED BY <2>1, <2>2
<1>4. CallsTyped'
  BY <1>1, <1>3 DEF CallsTyped
<1>5. \A d \in ToolCalls : Taken(toolCall[d], streamed[d])' /\ Told(toolCall[d], streamed[d], remote[d])'
  <2>1. ASSUME NEW d \in ToolCalls PROVE Taken(toolCall'[d], streamed'[d]) /\ Told(toolCall'[d], streamed'[d], remote'[d])
    <3>1. CASE d = c
      BY <3>1, <1>1
    <3>2. CASE d # c
      BY <3>2, <1>1, <1>i
    <3> QED BY <3>1, <3>2
  <2> QED BY <2>1 DEF Taken, Told, NoneFatal
<1>6. ASSUME NEW i \in DOMAIN agentOut
      PROVE  /\ agentOut[i] \in ToolCalls \X Nat /\ agentOut[i][1] \in ToolCalls /\ agentOut[i][2] \in Nat
             /\ agentOut[i][2] \in DOMAIN streamed'[agentOut[i][1]]
             /\ streamed'[agentOut[i][1]][agentOut[i][2]] = "event"
             /\ toolCall'[agentOut[i][1]].at \in Open => agentOut[i][2] <= toolCall'[agentOut[i][1]].results
             /\ \A j \in 1..i - 1 : agentOut[j][1] = agentOut[i][1] => agentOut[j][2] < agentOut[i][2]
             /\ toolCall[agentOut[i][1]].at \in Open => agentOut[i][2] <= toolCall[agentOut[i][1]].results
  <2>1. agentOut[i] \in ToolCalls \X Nat
    BY <1>i, ElementOfSeq DEF CallsTyped
  <2>2. agentOut[i][1] \in ToolCalls /\ agentOut[i][2] \in Nat
    BY <2>1
  <2>3. /\ agentOut[i][2] \in DOMAIN streamed[agentOut[i][1]] /\ streamed[agentOut[i][1]][agentOut[i][2]] = "event"
        /\ toolCall[agentOut[i][1]].at \in Open => agentOut[i][2] <= toolCall[agentOut[i][1]].results
        /\ \A j \in 1..i - 1 : agentOut[j][1] = agentOut[i][1] => agentOut[j][2] < agentOut[i][2]
    BY <1>i DEF Relayed, Open
  <2>4. CASE agentOut[i][1] = c
    <3>1. toolCall[c].results \in Nat /\ R.results \in Nat
      BY <1>i DEF CallsTyped, Records
    <3> QED BY <2>1, <2>2, <2>3, <2>4, <3>1, <1>1
  <2>5. CASE agentOut[i][1] # c
    BY <2>1, <2>2, <2>3, <2>5, <1>1
  <2> QED BY <2>4, <2>5
<1>7. ASSUME NEW i \in DOMAIN agentOut'
      PROVE  /\ agentOut'[i][2] \in DOMAIN streamed'[agentOut'[i][1]]
             /\ streamed'[agentOut'[i][1]][agentOut'[i][2]] = "event"
             /\ toolCall'[agentOut'[i][1]].at \in Open => agentOut'[i][2] <= toolCall'[agentOut'[i][1]].results
             /\ \A j \in 1..i - 1 : agentOut'[j][1] = agentOut'[i][1] => agentOut'[j][2] < agentOut'[i][2]
  <2>1. CASE agentOut' = agentOut
    BY <2>1, <1>6
  <2>2. CASE agentOut' = Append(agentOut, <<c, n>>)
    <3>1. /\ Len(agentOut) \in Nat /\ DOMAIN agentOut = 1..Len(agentOut) /\ DOMAIN agentOut' = 1..(Len(agentOut) + 1)
          /\ agentOut'[Len(agentOut) + 1] = <<c, n>> /\ \A j \in 1..Len(agentOut) : agentOut'[j] = agentOut[j]
      <4>1. agentOut \in Seq(ToolCalls \X Nat) /\ <<c, n>> \in ToolCalls \X Nat
        BY <1>i DEF CallsTyped
      <4> QED BY <2>2, <4>1, AppendProperties, LenProperties
    <3>2. CASE i \in 1..Len(agentOut)
      <4>1. agentOut'[i] = agentOut[i] /\ i \in DOMAIN agentOut /\ \A j \in 1..i - 1 : agentOut'[j] = agentOut[j]
        <5>1. PICK N \in Nat : N = Len(agentOut)
          BY <3>1
        <5>2. i \in 1..N /\ \A j \in 1..i - 1 : j \in 1..N
          BY <5>1, <3>2
        <5> QED BY <5>1, <5>2, <3>1
      <4> QED BY <4>1, <1>6
    <3>3. CASE i = Len(agentOut) + 1
      <4>1. agentOut'[i] = <<c, n>> /\ agentOut'[i][1] = c /\ agentOut'[i][2] = n
        BY <3>1, <3>3
      <4>2. agentOut' # agentOut
        BY <3>1
      <4>3. /\ n \in DOMAIN S /\ S[n] = "event" /\ (R.at \in Open => n <= R.results)
            /\ toolCall[c].at \in Open /\ toolCall[c].results < n /\ toolCall[c].results \in Nat
        BY <4>2, <1>i DEF CallsTyped, Records
      <4>4. ASSUME NEW j \in 1..i - 1, agentOut'[j][1] = c PROVE agentOut'[j][2] < n
        <5>1. j \in DOMAIN agentOut /\ agentOut'[j] = agentOut[j]
          BY <3>1, <3>3
        <5>2. agentOut[j][2] \in Nat /\ agentOut[j][2] <= toolCall[c].results
          BY <5>1, <4>4, <4>3, <1>6
        <5> QED BY <5>1, <5>2, <4>3
      <4> QED BY <4>1, <4>3, <4>4, <1>1
    <3> QED BY <3>1, <3>2, <3>3
  <2> QED BY <2>1, <2>2
<1>8. Relayed(agentOut)'
  BY <1>7 DEF Relayed, Open
<1> QED BY <1>4, <1>5, <1>8 DEF CallsInv

(* A call begins with no frames.                                             *)
LEMMA CallToolTrue == ASSUME CallsInv, NEW c \in ToolCalls, CallTool(c) PROVE CallsInv'
<1>i. CallsTyped /\ Relayed(agentOut) /\ Taken(toolCall[c], streamed[c]) /\ Told(toolCall[c], streamed[c], remote[c])
  BY DEF CallsInv
<1>r. /\ toolCall[c] \in Records /\ streamed[c] \in Seq(Kinds) /\ remote[c] \in Remotes
      /\ Len(streamed[c]) \in Nat /\ DOMAIN streamed[c] = 1..Len(streamed[c]) /\ toolCall[c].results \in Nat
  BY <1>i, LenProperties DEF CallsTyped, Records
<1>1. /\ toolCall[c].at = "idle" /\ remote' = [remote EXCEPT ![c] = "running"] /\ UNCHANGED <<streamed, agentOut>>
  BY DEF CallTool
<1>2. PICK R : R = [toolCall[c] EXCEPT !.at = "waiting"]
  OBVIOUS
<1>4. R \in Records /\ R.at = "waiting" /\ R.results = toolCall[c].results /\ R.answer = toolCall[c].answer
  BY <1>r, <1>2 DEF Records
<1>5. toolCall' = [toolCall EXCEPT ![c] = R]
  BY <1>2, <1>i DEF CallTool, CallsTyped
<1>3. /\ streamed' \in [ToolCalls -> Seq(Kinds)] /\ remote' \in [ToolCalls -> Remotes]
      /\ streamed'[c] = streamed[c] /\ remote'[c] = "running"
      /\ \A d \in ToolCalls \ {c} : streamed'[d] = streamed[d] /\ remote'[d] = remote[d]
  BY <1>1, <1>i DEF CallsTyped, Remotes
<1>6. Taken(R, streamed[c])
  BY <1>1, <1>4, <1>i DEF Taken, NoneFatal
<1>7. Told(R, streamed[c], "running")
  BY <1>1, <1>4, <1>i DEF Told
<1>8. R.at \in Open => toolCall[c].at \in Open /\ toolCall[c].results <= R.results
  BY <1>1, <1>4, <1>r DEF Open
<1>9. "running" \in Remotes /\ 0 \in Nat
  BY DEF Remotes
<1> QED BY <1>1, <1>3, <1>4, <1>5, <1>6, <1>7, <1>8, <1>9, <1>r, CallSteps

(* A frame comes in: a fatal one ends the call, any other waits to be        *)
(* relayed.                                                                  *)
LEMMA ToolFunctionTrue == ASSUME CallsInv, NEW c \in ToolCalls, NEW kind \in Kinds, ToolFunction(c, kind) PROVE CallsInv'
<1>i. CallsTyped /\ Relayed(agentOut) /\ Taken(toolCall[c], streamed[c]) /\ Told(toolCall[c], streamed[c], remote[c])
  BY DEF CallsInv
<1>r. /\ toolCall[c] \in Records /\ streamed[c] \in Seq(Kinds) /\ remote[c] \in Remotes
      /\ Len(streamed[c]) \in Nat /\ DOMAIN streamed[c] = 1..Len(streamed[c]) /\ toolCall[c].results \in Nat
  BY <1>i, LenProperties DEF CallsTyped, Records
<1>1. /\ toolCall[c].at = "waiting" /\ streamed' = [streamed EXCEPT ![c] = Append(@, kind)] /\ UNCHANGED agentOut
  BY DEF ToolFunction
<1>s. PICK S : S = Append(streamed[c], kind)
  OBVIOUS
<1>n. /\ S \in Seq(Kinds) /\ Len(S) = Len(streamed[c]) + 1 /\ DOMAIN S = 1..Len(streamed[c]) + 1
      /\ S[Len(streamed[c]) + 1] = kind /\ \A k \in 1..Len(streamed[c]) : S[k] = streamed[c][k]
  BY <1>r, <1>s, AppendProperties, LenProperties
<1>k. \A k \in DOMAIN streamed[c] : k \in DOMAIN S /\ S[k] = streamed[c][k]
  BY <1>r, <1>n
<1>c. toolCall[c].results = Len(streamed[c]) /\ NoneFatal(streamed[c]) /\ ~toolCall[c].answer.ok /\ remote[c] = "running"
  BY <1>1, <1>i DEF Taken, Told
<1>a. CASE kind = "fatal"
  <2>1. PICK R : R = [toolCall[c] EXCEPT !.at = "answered", !.answer = Failure(Len(S))]
    OBVIOUS
  <2>2. PICK N \in Nat : N = Len(S)
    BY <1>r, <1>n
  <2>a. PICK A : A = Failure(N)
    OBVIOUS
  <2>b. A \in [ok : BOOLEAN, frame : Nat] /\ A.ok = FALSE
    BY <2>a DEF Failure
  <2>3. R \in Records /\ R.at = "answered" /\ ~R.answer.ok
    BY <1>r, <2>1, <2>2, <2>a, <2>b DEF Records
  <2>4. toolCall' = [toolCall EXCEPT ![c] = R] /\ remote' = [remote EXCEPT ![c] = "abandoned"]
    <3>1. Answers(c, Failure(Len(S))) /\ remote' = [remote EXCEPT ![c] = "abandoned"]
      BY <1>a, <1>1, <1>s, <1>i DEF ToolFunction, AbortsOn, Aborts, CallsTyped
    <3> QED BY <3>1, <2>1, <1>i DEF Answers, CallsTyped
  <2>5. /\ streamed' \in [ToolCalls -> Seq(Kinds)] /\ remote' \in [ToolCalls -> Remotes]
        /\ streamed'[c] = S /\ remote'[c] = "abandoned"
        /\ \A d \in ToolCalls \ {c} : streamed'[d] = streamed[d] /\ remote'[d] = remote[d]
    BY <1>1, <1>s, <1>n, <2>4, <1>i DEF CallsTyped, Remotes
  <2>6. Taken(R, S) /\ Told(R, S, "abandoned")
    BY <2>3 DEF Taken, Told
  <2> QED BY <1>1, <1>n, <1>k, <1>r, <2>3, <2>4, <2>5, <2>6, CallSteps DEF Open, Remotes
<1>b. CASE kind # "fatal"
  <2>1. PICK R : R = [toolCall[c] EXCEPT !.at = "relaying"]
    OBVIOUS
  <2>3. R \in Records /\ R.at = "relaying" /\ ~R.answer.ok /\ R.results = toolCall[c].results
    BY <1>r, <1>c, <2>1 DEF Records
  <2>4. toolCall' = [toolCall EXCEPT ![c] = R] /\ remote' = remote
    BY <1>b, <2>1, <1>i DEF ToolFunction, AbortsOn, Aborts, CallsTyped
  <2>5. /\ streamed' \in [ToolCalls -> Seq(Kinds)] /\ remote' \in [ToolCalls -> Remotes]
        /\ streamed'[c] = S /\ remote'[c] = remote[c]
        /\ \A d \in ToolCalls \ {c} : streamed'[d] = streamed[d] /\ remote'[d] = remote[d]
    BY <1>1, <1>s, <1>n, <2>4, <1>i DEF CallsTyped
  <2>6. NoneFatal(S)
    BY <1>b, <1>c, <1>n, <1>r DEF NoneFatal
  <2>7. Taken(R, S) /\ Told(R, S, remote[c])
    BY <2>3, <2>6, <1>c, <1>n DEF Taken, Told
  <2>8. R.at \in Open => toolCall[c].at \in Open /\ toolCall[c].results <= R.results
    BY <1>1, <2>3, <1>r DEF Open
  <2> QED BY <1>1, <1>n, <1>k, <1>r, <2>3, <2>4, <2>5, <2>7, <2>8, CallSteps
<1> QED BY <1>a, <1>b

(* A custom event goes on the agent's stream behind those before it.         *)
LEMMA RelayTrue == ASSUME CallsInv, NEW c \in ToolCalls, Relay(c) PROVE CallsInv'
<1>i. CallsTyped /\ Relayed(agentOut) /\ Taken(toolCall[c], streamed[c]) /\ Told(toolCall[c], streamed[c], remote[c])
  BY DEF CallsInv
<1>r. /\ toolCall[c] \in Records /\ streamed[c] \in Seq(Kinds) /\ remote[c] \in Remotes
      /\ Len(streamed[c]) \in Nat /\ DOMAIN streamed[c] = 1..Len(streamed[c]) /\ toolCall[c].results \in Nat
  BY <1>i, LenProperties DEF CallsTyped, Records
<1>1. toolCall[c].at = "relaying" /\ UNCHANGED <<streamed, remote>>
  BY DEF Relay
<1>n. PICK n \in Nat : n = Len(streamed[c])
  BY <1>r
<1>2. PICK R : R = [toolCall[c] EXCEPT !.at = "waiting", !.results = n]
  OBVIOUS
<1>4. R \in Records /\ R.at = "waiting" /\ R.results = n /\ R.answer = toolCall[c].answer
  BY <1>r, <1>2 DEF Records
<1>5. toolCall' = [toolCall EXCEPT ![c] = R]
  BY <1>2, <1>n, <1>i DEF Relay, CallsTyped
<1>3. /\ streamed' \in [ToolCalls -> Seq(Kinds)] /\ remote' \in [ToolCalls -> Remotes]
      /\ streamed'[c] = streamed[c] /\ remote'[c] = remote[c]
      /\ \A d \in ToolCalls \ {c} : streamed'[d] = streamed[d] /\ remote'[d] = remote[d]
  BY <1>1, <1>i DEF CallsTyped
<1>c. toolCall[c].results + 1 = n /\ NoneFatal(streamed[c])
  BY <1>1, <1>n, <1>i DEF Taken
<1>6. Taken(R, streamed[c])
  BY <1>4, <1>c, <1>n DEF Taken
<1>7. Told(R, streamed[c], remote[c])
  BY <1>1, <1>4, <1>i DEF Told
<1>8. /\ \/ agentOut' = agentOut
         \/ agentOut' = Append(agentOut, <<c, n>>) /\ streamed[c][n] = "event"
      /\ n \in DOMAIN streamed[c] /\ toolCall[c].results < n
  BY <1>n, <1>c, <1>r DEF Relay
<1>9. toolCall[c].at \in Open /\ toolCall[c].results <= R.results /\ n <= R.results
  BY <1>1, <1>4, <1>8, <1>r DEF Open
<1> QED BY <1>1, <1>n, <1>3, <1>4, <1>5, <1>6, <1>7, <1>8, <1>9, <1>r, CallSteps

(* What the results say, from the last of them.                              *)
LEMMA VerdictIsTrue ==
  ASSUME NEW c \in ToolCalls, streamed[c] \in Seq(Kinds), toolCall[c].results = Len(streamed[c]),
         NEW A \in Verdict(c)
  PROVE  /\ A \in [ok : BOOLEAN, frame : Nat]
         /\ A.ok => /\ A.frame \in DOMAIN streamed[c] /\ streamed[c][A.frame] \in {"output", "event"}
                    /\ \A k \in DOMAIN streamed[c] : A.frame < k => streamed[c][k] \notin {"output", "event"}
         /\ ~A.ok => \A k \in DOMAIN streamed[c] : streamed[c][k] # "output"
<1>r. Len(streamed[c]) \in Nat /\ DOMAIN streamed[c] = 1..Len(streamed[c])
  BY LenProperties
<1>1. PICK spoken : spoken = Results(c, Kinds \ Sentinels)
  OBVIOUS
<1>2. PICK warned : warned = Results(c, {"warning"})
  OBVIOUS
<1>3. /\ spoken \subseteq Nat /\ warned \subseteq Nat
      /\ spoken = {k \in DOMAIN streamed[c] : streamed[c][k] \in {"output", "event"}}
  BY <1>1, <1>2, <1>r DEF Results, Kinds, Sentinels
<1>4. CASE spoken # {}
  <2>1. PICK n \in LastOf(spoken) : A = Success(n)
    BY <1>1, <1>4 DEF Verdict
  <2>2. n \in spoken /\ (\A k \in spoken : k <= n) /\ n \in Nat
    BY <2>1, <1>3 DEF LastOf
  <2>3. A = [ok |-> TRUE, frame |-> n]
    BY <2>1 DEF Success
  <2>4. A \in [ok : BOOLEAN, frame : Nat] /\ A.ok = TRUE /\ A.frame = n
    BY <2>2, <2>3
  <2>5. n \in DOMAIN streamed[c] /\ streamed[c][n] \in {"output", "event"}
    BY <2>2, <1>3
  <2>6. ASSUME NEW k \in DOMAIN streamed[c], n < k PROVE streamed[c][k] \notin {"output", "event"}
    BY <2>2, <2>6, <1>3, <1>r
  <2> QED BY <2>4, <2>5, <2>6
<1>5. CASE spoken = {}
  <2>1. PICK n \in Nat : A = Failure(n)
    BY <1>1, <1>2, <1>3, <1>5 DEF Verdict, LastOf, NoAnswer
  <2>2. A \in [ok : BOOLEAN, frame : Nat] /\ A.ok = FALSE
    BY <2>1 DEF Failure
  <2> QED BY <2>2, <1>3, <1>5
<1> QED BY <1>4, <1>5

(* The answer of a call that returned is the last thing said in its own      *)
(* voice, or its last warning.                                               *)
LEMMA DrainedTrue == ASSUME CallsInv, NEW c \in ToolCalls, Drained(c) PROVE CallsInv'
<1>i. CallsTyped /\ Relayed(agentOut) /\ Taken(toolCall[c], streamed[c]) /\ Told(toolCall[c], streamed[c], remote[c])
  BY DEF CallsInv
<1>r. /\ toolCall[c] \in Records /\ streamed[c] \in Seq(Kinds) /\ remote[c] \in Remotes
      /\ Len(streamed[c]) \in Nat /\ DOMAIN streamed[c] = 1..Len(streamed[c]) /\ toolCall[c].results \in Nat
  BY <1>i, LenProperties DEF CallsTyped, Records
<1>1. PICK A \in Verdict(c) : Answers(c, A)
  BY DEF Drained
<1>0. toolCall[c].at = "waiting" /\ remote' = [remote EXCEPT ![c] = "returned"] /\ UNCHANGED <<streamed, agentOut>>
  BY DEF Drained
<1>c. toolCall[c].results = Len(streamed[c]) /\ NoneFatal(streamed[c])
  BY <1>0, <1>i DEF Taken
<1>a. /\ A \in [ok : BOOLEAN, frame : Nat]
      /\ A.ok => /\ A.frame \in DOMAIN streamed[c] /\ streamed[c][A.frame] \in {"output", "event"}
                 /\ \A k \in DOMAIN streamed[c] : A.frame < k => streamed[c][k] \notin {"output", "event"}
      /\ ~A.ok => \A k \in DOMAIN streamed[c] : streamed[c][k] # "output"
  BY <1>r, <1>c, VerdictIsTrue
<1>2. PICK R : R = [toolCall[c] EXCEPT !.at = "answered", !.answer = A]
  OBVIOUS
<1>4. R \in Records /\ R.at = "answered" /\ R.results = toolCall[c].results /\ R.answer = A
  BY <1>r, <1>a, <1>2 DEF Records
<1>5. toolCall' = [toolCall EXCEPT ![c] = R]
  BY <1>2, <1>1, <1>i DEF Answers, CallsTyped
<1>3. /\ streamed' \in [ToolCalls -> Seq(Kinds)] /\ remote' \in [ToolCalls -> Remotes]
      /\ streamed'[c] = streamed[c] /\ remote'[c] = "returned"
      /\ \A d \in ToolCalls \ {c} : streamed'[d] = streamed[d] /\ remote'[d] = remote[d]
  BY <1>0, <1>i DEF CallsTyped, Remotes
<1>k. \A k \in DOMAIN streamed[c] : streamed[c][k] \in Kinds
  BY <1>r, ElementOfSeq
<1>6. Taken(R, streamed[c])
  BY <1>4 DEF Taken
<1>7. Told(R, streamed[c], "returned")
  BY <1>4, <1>a, <1>c, <1>k DEF Told, NoneFatal, Kinds
<1> QED BY <1>0, <1>3, <1>4, <1>5, <1>6, <1>7, <1>r, CallSteps DEF Open, Remotes

(* A call that raised is answered with no frame.                             *)
LEMMA CallRaisesTrue == ASSUME CallsInv, NEW c \in ToolCalls, CallRaises(c) PROVE CallsInv'
<1>i. CallsTyped /\ Relayed(agentOut) /\ Taken(toolCall[c], streamed[c]) /\ Told(toolCall[c], streamed[c], remote[c])
  BY DEF CallsInv
<1>r. /\ toolCall[c] \in Records /\ streamed[c] \in Seq(Kinds) /\ remote[c] \in Remotes
      /\ Len(streamed[c]) \in Nat /\ DOMAIN streamed[c] = 1..Len(streamed[c]) /\ toolCall[c].results \in Nat
  BY <1>i, LenProperties DEF CallsTyped, Records
<1>1. PICK A : A = NoAnswer /\ Answers(c, A)
  BY DEF CallRaises
<1>0. toolCall[c].at = "waiting" /\ remote' = [remote EXCEPT ![c] = "raised"] /\ UNCHANGED <<streamed, agentOut>>
  BY DEF CallRaises
<1>a. A \in [ok : BOOLEAN, frame : Nat] /\ A.ok = FALSE
  BY <1>1 DEF NoAnswer, Failure
<1>2. PICK R : R = [toolCall[c] EXCEPT !.at = "answered", !.answer = A]
  OBVIOUS
<1>4. R \in Records /\ R.at = "answered" /\ R.results = toolCall[c].results /\ R.answer = A
  BY <1>r, <1>a, <1>2 DEF Records
<1>5. toolCall' = [toolCall EXCEPT ![c] = R]
  BY <1>2, <1>1, <1>i DEF Answers, CallsTyped
<1>3. /\ streamed' \in [ToolCalls -> Seq(Kinds)] /\ remote' \in [ToolCalls -> Remotes]
      /\ streamed'[c] = streamed[c] /\ remote'[c] = "raised"
      /\ \A d \in ToolCalls \ {c} : streamed'[d] = streamed[d] /\ remote'[d] = remote[d]
  BY <1>0, <1>i DEF CallsTyped, Remotes
<1>6. Taken(R, streamed[c]) /\ Told(R, streamed[c], "raised")
  BY <1>4, <1>a DEF Taken, Told
<1> QED BY <1>0, <1>3, <1>4, <1>5, <1>6, <1>r, CallSteps DEF Open, Remotes

(* A call that is cancelled says no more, unless it was let go.              *)
LEMMA CancelledTrue == ASSUME CallsInv, NEW c \in ToolCalls, Cancelled(c) PROVE CallsInv'
<1>i. CallsTyped /\ Relayed(agentOut) /\ Taken(toolCall[c], streamed[c]) /\ Told(toolCall[c], streamed[c], remote[c])
  BY DEF CallsInv
<1>r. /\ toolCall[c] \in Records /\ streamed[c] \in Seq(Kinds) /\ remote[c] \in Remotes
      /\ Len(streamed[c]) \in Nat /\ DOMAIN streamed[c] = 1..Len(streamed[c]) /\ toolCall[c].results \in Nat
  BY <1>i, LenProperties DEF CallsTyped, Records
<1>0. toolCall[c].at \in {"waiting", "relaying"} /\ UNCHANGED streamed
  BY DEF Cancelled
<1>o. PICK O \in {"cancelled", "abandoned"} : remote' = [remote EXCEPT ![c] = O]
  <2>1. PICK O : O = IF toolCall[c].at = "waiting" THEN "cancelled" ELSE "abandoned"
    OBVIOUS
  <2> QED BY <2>1 DEF Cancelled
<1>c. ~toolCall[c].answer.ok
  BY <1>0, <1>i DEF Told
<1>2. PICK R : /\ toolCall' = [toolCall EXCEPT ![c] = R] /\ R \in Records /\ R.at \in {"answered", "left"} /\ ~R.answer.ok
  <2>1. CASE Answers(c, NoAnswer)
    <3>a. PICK A : A = NoAnswer
      OBVIOUS
    <3>b. A \in [ok : BOOLEAN, frame : Nat] /\ A.ok = FALSE
      BY <3>a DEF NoAnswer, Failure
    <3>1. PICK R : R = [toolCall[c] EXCEPT !.at = "answered", !.answer = A]
      OBVIOUS
    <3>2. R \in Records /\ R.at = "answered" /\ ~R.answer.ok
      BY <1>r, <3>b, <3>1 DEF Records
    <3> QED BY <2>1, <3>a, <3>1, <3>2, <1>i DEF Answers, CallsTyped
  <2>2. CASE toolCall' = [toolCall EXCEPT ![c].at = "left"]
    <3>1. PICK R : R = [toolCall[c] EXCEPT !.at = "left"]
      OBVIOUS
    <3>2. R \in Records /\ R.at = "left" /\ ~R.answer.ok
      BY <1>r, <1>c, <3>1 DEF Records
    <3> QED BY <2>2, <3>1, <3>2, <1>i DEF CallsTyped
  <2> QED BY <2>1, <2>2 DEF Cancelled
<1>3. /\ streamed' \in [ToolCalls -> Seq(Kinds)] /\ remote' \in [ToolCalls -> Remotes]
      /\ streamed'[c] = streamed[c] /\ remote'[c] = O
      /\ \A d \in ToolCalls \ {c} : streamed'[d] = streamed[d] /\ remote'[d] = remote[d]
  BY <1>0, <1>o, <1>i DEF CallsTyped, Remotes
<1>6. Taken(R, streamed[c]) /\ Told(R, streamed[c], O)
  BY <1>2, <1>o DEF Taken, Told
<1>n. PICK n \in Nat : n = Len(streamed[c])
  BY <1>r
<1>8. \/ agentOut' = agentOut
      \/ /\ agentOut' = Append(agentOut, <<c, n>>) /\ streamed[c][n] = "event"
         /\ n \in DOMAIN streamed[c] /\ toolCall[c].results < n
  <2>1. toolCall[c].at = "relaying" => toolCall[c].results + 1 = n
    BY <1>n, <1>i DEF Taken
  <2> QED BY <2>1, <1>n, <1>r DEF Cancelled
<1> QED BY <1>0, <1>2, <1>3, <1>6, <1>8, <1>o, <1>r, CallSteps DEF Open, Remotes

(* The remote call is cleaned up when nobody waits for it.                   *)
LEMMA CollectsTrue == ASSUME CallsInv, NEW c \in ToolCalls, Collects(c) PROVE CallsInv'
<1>i. CallsTyped /\ Relayed(agentOut) /\ Taken(toolCall[c], streamed[c]) /\ Told(toolCall[c], streamed[c], remote[c])
  BY DEF CallsInv
<1>r. /\ toolCall[c] \in Records /\ streamed[c] \in Seq(Kinds) /\ remote[c] \in Remotes
      /\ Len(streamed[c]) \in Nat /\ DOMAIN streamed[c] = 1..Len(streamed[c]) /\ toolCall[c].results \in Nat
  BY <1>i, LenProperties DEF CallsTyped, Records
<1>1. remote[c] = "abandoned" /\ remote' = [remote EXCEPT ![c] = "closed"] /\ UNCHANGED <<toolCall, streamed, agentOut>>
  BY DEF Collects
<1>2. PICK R \in Records : R = toolCall[c]
  BY <1>r
<1>5. toolCall' = [toolCall EXCEPT ![c] = R]
  BY <1>1, <1>2, <1>i DEF CallsTyped
<1>3. /\ streamed' \in [ToolCalls -> Seq(Kinds)] /\ remote' \in [ToolCalls -> Remotes]
      /\ streamed'[c] = streamed[c] /\ remote'[c] = "closed"
      /\ \A d \in ToolCalls \ {c} : streamed'[d] = streamed[d] /\ remote'[d] = remote[d]
  BY <1>1, <1>i DEF CallsTyped, Remotes
<1>6. Taken(R, streamed[c]) /\ Told(R, streamed[c], "closed")
  BY <1>1, <1>2, <1>i DEF Told
<1>8. R.at \in Open => toolCall[c].at \in Open /\ toolCall[c].results <= R.results
  BY <1>2, <1>r
<1>9. "closed" \in Remotes /\ 0 \in Nat
  BY DEF Remotes
<1> QED BY <1>1, <1>2, <1>3, <1>5, <1>6, <1>8, <1>9, <1>r, CallSteps

(* Every step of an agent's tool calls.                                      *)
LEMMA CallsGoOn == ASSUME CallsInv, [ToolCallNext]_cvars PROVE CallsInv'
<1>1. ASSUME NEW c \in ToolCalls,
             CallTool(c) \/ Relay(c) \/ Drained(c) \/ CallRaises(c) \/ Cancelled(c) \/ Collects(c)
      PROVE  CallsInv'
  BY <1>1, CallToolTrue, RelayTrue, DrainedTrue, CallRaisesTrue, CancelledTrue, CollectsTrue
<1>2. ASSUME NEW c \in ToolCalls, NEW kind \in Kinds, ToolFunction(c, kind) PROVE CallsInv'
  BY <1>2, ToolFunctionTrue
<1>3. CASE UNCHANGED cvars
  BY <1>3 DEF cvars, CallsInv, CallsTyped, Relayed, Taken, Told, NoneFatal
<1> QED BY <1>1, <1>2, <1>3 DEF ToolCallNext

(* Before any call.                                                          *)
LEMMA CallsBegin == CallsInit => CallsInv
<1> SUFFICES ASSUME CallsInit PROVE CallsInv
  OBVIOUS
<1>1. PICK A : A = NoAnswer
  OBVIOUS
<1>2. A \in [ok : BOOLEAN, frame : Nat] /\ A.ok = FALSE
  BY <1>1 DEF NoAnswer, Failure
<1>3. PICK R : R = [at |-> "idle", results |-> 0, answer |-> A]
  OBVIOUS
<1>4. R \in Records /\ R.at = "idle" /\ R.results = 0 /\ ~R.answer.ok
  BY <1>2, <1>3 DEF Records
<1>5. /\ toolCall = [c \in ToolCalls |-> R] /\ streamed = [c \in ToolCalls |-> <<>>]
      /\ remote = [c \in ToolCalls |-> "none"] /\ agentOut = <<>>
  BY <1>1, <1>3 DEF CallsInit
<1>6. CallsTyped
  BY <1>4, <1>5, EmptySeq DEF CallsTyped, Remotes
<1>7. Relayed(agentOut)
  BY <1>5 DEF Relayed
<1>8. \A c \in ToolCalls : Taken(toolCall[c], streamed[c]) /\ Told(toolCall[c], streamed[c], remote[c])
  BY <1>4, <1>5 DEF Taken, Told
<1> QED BY <1>6, <1>7, <1>8 DEF CallsInv

(* What holds of the calls gives what AnswersAreTrue says.                   *)
LEMMA AnswersStand == CallsInv => AnswersAreTrue
<1> SUFFICES ASSUME CallsInv, NEW c \in ToolCalls
             PROVE  /\ toolCall[c].answer.ok =>
                         /\ toolCall[c].results = Len(streamed[c]) /\ ~Contains(streamed[c], "fatal")
                         /\ streamed[c][toolCall[c].answer.frame] \in {"output", "event"}
                         /\ \A k \in toolCall[c].answer.frame + 1..Len(streamed[c]) : streamed[c][k] \in {"mark", "warning", "end"}
                    /\ toolCall[c].at = "answered" /\ ~toolCall[c].answer.ok /\ remote[c] = "returned" =>
                         ~Contains(streamed[c], "output")
                    /\ \A i \in DOMAIN agentOut : agentOut[i][1] = c =>
                         /\ streamed[c][agentOut[i][2]] = "event"
                         /\ \A j \in 1..i - 1 : agentOut[j][1] = c => agentOut[j][2] < agentOut[i][2]
                    /\ toolCall[c].at \in {"answered", "left"} => remote[c] # "running"
  BY DEF AnswersAreTrue
<1>i. CallsTyped /\ Relayed(agentOut) /\ Told(toolCall[c], streamed[c], remote[c])
  BY DEF CallsInv
<1>r. /\ Len(streamed[c]) \in Nat /\ DOMAIN streamed[c] = 1..Len(streamed[c]) /\ toolCall[c].answer.frame \in Nat
  BY <1>i, LenProperties DEF CallsTyped, Records
<1>1. ASSUME toolCall[c].answer.ok
      PROVE  /\ toolCall[c].results = Len(streamed[c]) /\ ~Contains(streamed[c], "fatal")
             /\ streamed[c][toolCall[c].answer.frame] \in {"output", "event"}
             /\ \A k \in toolCall[c].answer.frame + 1..Len(streamed[c]) : streamed[c][k] \in {"mark", "warning", "end"}
  <2>1. \A k \in toolCall[c].answer.frame + 1..Len(streamed[c]) : k \in DOMAIN streamed[c] /\ toolCall[c].answer.frame < k
    BY <1>r
  <2> QED BY <1>1, <2>1, <1>i, <1>r DEF Told, NoneFatal, Contains
<1>2. ASSUME toolCall[c].at = "answered", ~toolCall[c].answer.ok, remote[c] = "returned" PROVE ~Contains(streamed[c], "output")
  BY <1>2, <1>i, <1>r DEF Told, Contains
<1>3. ASSUME NEW i \in DOMAIN agentOut, agentOut[i][1] = c
      PROVE  /\ streamed[c][agentOut[i][2]] = "event"
             /\ \A j \in 1..i - 1 : agentOut[j][1] = c => agentOut[j][2] < agentOut[i][2]
  BY <1>3, <1>i DEF Relayed
<1>4. toolCall[c].at \in {"answered", "left"} => remote[c] # "running"
  BY <1>i DEF Told
<1> QED BY <1>1, <1>2, <1>3, <1>4

(* A call is answered as successful only when all its frames were taken,     *)
(* none was fatal, and with the last one in the tool's own voice; the        *)
(* agent's stream has the events of a call in order: the wrapper of          *)
(* ModuleToolkit and the tool function under it.                             *)
THEOREM AnsweredTruly == CallsSpec => []AnswersAreTrue
<1>1. CallsInit => CallsInv
  BY CallsBegin
<1>2. CallsInv /\ [ToolCallNext]_cvars => CallsInv'
  BY CallsGoOn
<1>3. CallsInv => AnswersAreTrue
  BY AnswersStand
<1> QED BY <1>1, <1>2, <1>3, PTL DEF CallsSpec

-----------------------------------------------------------------------------
(* ToolSelection on its own.                                                 *)

SelectionSpec == SelectionInit /\ [][SelectionNext]_svars

Catalogue == {ExtractTools(C) : C \in Catalogues}
SelectionTyped ==
  /\ build \in [at : {"none", "top", "nested", "built"}, registry : BOOLEAN]
  /\ ref \in [Refs -> {"idle", "asking", "done"}]
  /\ advertised \in [Known -> Catalogues] /\ seen \in [Known -> SUBSET Catalogue]

(* An answer that brought tools brought those its module advertised in this  *)
(* build, some of which its entry asks for.                                  *)
Grounded(a) ==
  /\ a.ref \in Refs /\ a.entry \in selected[a.ref] /\ ref[a.ref] \in {"asking", "done"}
  /\ a.tools # {} =>
       a.entry.setup \in Known /\ a.tools \in seen[a.entry.setup] /\ Matching(a.entry, a.tools) # {}
AnsweredIn(A, s, C) == \E a \in A : a.tools # {} /\ a.entry.setup = s /\ a.tools = C

(* What is resolved, and what the cache holds, was answered in this build;   *)
(* and what a reference that is done was answered is in the cache.           *)
Table(A, f) == \A s \in DOMAIN f : AnsweredIn(A, s, f[s])
Founded ==
  /\ \A s \in Known : ExtractTools(advertised[s]) \in seen[s]
  /\ \A a \in answers : Grounded(a)
  /\ Table(answers, resolved) /\ Table(answers, tools)
  /\ \A a \in answers : a.tools # {} /\ ref[a.ref] = "done" => a.entry.setup \in DOMAIN tools
LevelsDone ==
  /\ build.at \in {"nested", "built"} => \A r \in Refs \ Nested : ref[r] = "done"
  /\ build.at = "built" => \A r \in Nested : ref[r] = "done"

BuildInv == SelectionTyped /\ (build.registry => Founded /\ LevelsDone)
-----------------------------------------------------------------------------
(* A build starts from an empty table where there is a registry to ask.      *)
LEMMA StartBuildFounds ==
  ASSUME BuildInv, NEW asks \in BOOLEAN, NEW table, asks => table = <<>>, StartBuild(asks, table)
  PROVE  BuildInv'
<1>i. SelectionTyped
  BY DEF BuildInv
<1>1. /\ build' = [at |-> "top", registry |-> asks] /\ resolved' = table /\ ref' = [r \in Refs |-> "idle"]
      /\ answers' = {} /\ tools' = <<>> /\ seen' = [s \in Known |-> {ExtractTools(advertised[s])}]
      /\ UNCHANGED <<selected, advertised>>
  BY DEF StartBuild
<1>2. SelectionTyped'
  BY <1>1, <1>i DEF SelectionTyped, Catalogue
<1>3. build'.at = "top" /\ build'.registry = asks /\ DOMAIN tools' = {}
  BY <1>1
<1>4. ASSUME asks PROVE Founded'
  <2>1. DOMAIN resolved' = {}
    BY <1>1, <1>4
  <2> QED BY <2>1, <1>1, <1>3 DEF Founded, Table
<1>5. LevelsDone'
  BY <1>3 DEF LevelsDone
<1> QED BY <1>2, <1>3, <1>4, <1>5 DEF BuildInv

(* What is added to the cache was answered, if what is resolved was.         *)
LEMMA AddedIsAnswered ==
  ASSUME NEW A, NEW B, A \subseteq B, NEW r, NEW table, Table(B, table), Table(A, tools), tools' = Added(r, table)
  PROVE  Table(B, tools') /\ DOMAIN tools' = DOMAIN tools \cup (Setups(r) \cap DOMAIN table)
<1>1. DOMAIN tools' = DOMAIN tools \cup (Setups(r) \cap DOMAIN table)
  BY DEF Added
<1>2. ASSUME NEW s \in DOMAIN tools' PROVE AnsweredIn(B, s, tools'[s])
  <2>1. CASE s \in Setups(r) \cap DOMAIN table
    <3>1. tools'[s] = table[s]
      BY <2>1 DEF Added
    <3> QED BY <2>1, <3>1 DEF Table
  <2>2. CASE s \notin Setups(r) \cap DOMAIN table
    <3>1. tools'[s] = tools[s] /\ s \in DOMAIN tools
      BY <2>2, <1>1 DEF Added
    <3>2. AnsweredIn(A, s, tools[s])
      BY <3>1 DEF Table
    <3> QED BY <3>1, <3>2 DEF AnsweredIn
  <2> QED BY <2>1, <2>2
<1> QED BY <1>1, <1>2 DEF Table

(* A reference asks, or takes over what others had resolved.                 *)
LEMMA CollectFounds == ASSUME BuildInv, NEW r \in Refs, Collect(r) PROVE BuildInv'
<1>i. SelectionTyped /\ (build.registry => Founded /\ LevelsDone)
  BY DEF BuildInv
<1>1. /\ ref[r] = "idle" /\ UNCHANGED <<selected, advertised, resolved, build, answers, seen>>
      /\ \/ ref' = [ref EXCEPT ![r] = "asking"] /\ tools' = tools
         \/ ref' = [ref EXCEPT ![r] = "done"] /\ tools' = Added(r, resolved)
  BY DEF Collect
<1>2. SelectionTyped'
  BY <1>1, <1>i DEF SelectionTyped
<1>3. ASSUME build.registry PROVE Founded'
  <2>1. Founded
    BY <1>3, <1>i
  <2>2. \A a \in answers : a.ref # r
    BY <1>1, <2>1 DEF Founded, Grounded
  <2>3. \A a \in answers : a.ref \in Refs /\ ref'[a.ref] = ref[a.ref]
    BY <1>1, <1>i, <2>1, <2>2 DEF SelectionTyped, Founded, Grounded
  <2>4. \A a \in answers : Grounded(a)'
    BY <1>1, <2>1, <2>3 DEF Founded, Grounded, Matching
  <2>5. DOMAIN tools \subseteq DOMAIN tools' /\ Table(answers, tools')
    BY <1>1, <2>1, AddedIsAnswered DEF Founded
  <2>6. Table(answers', tools') /\ Table(answers', resolved')
    BY <1>1, <2>1, <2>5 DEF Founded
  <2>8. \A a \in answers' : a.tools # {} /\ ref'[a.ref] = "done" => a.entry.setup \in DOMAIN tools'
    BY <1>1, <2>1, <2>3, <2>5 DEF Founded
  <2>9. \A s \in Known : ExtractTools(advertised[s])' \in seen'[s]
    BY <1>1, <2>1 DEF Founded, ExtractTools
  <2> QED BY <1>1, <2>4, <2>6, <2>8, <2>9 DEF Founded
<1>4. ASSUME build.registry PROVE LevelsDone'
  BY <1>1, <1>4, <1>i DEF LevelsDone, SelectionTyped
<1> QED BY <1>1, <1>2, <1>3, <1>4 DEF BuildInv

(* One entry is answered: with the catalogue its module advertises, or with  *)
(* nothing.                                                                  *)
LEMMA ResolveSingleFounds ==
  ASSUME BuildInv, NEW r \in Refs, NEW e \in selected[r], ResolveSingle(r, e) PROVE BuildInv'
<1>i. SelectionTyped /\ (build.registry => Founded /\ LevelsDone)
  BY DEF BuildInv
<1>1. PICK C : /\ answers' = answers \cup {[ref |-> r, entry |-> e, tools |-> C]}
               /\ C = {} \/ (e.setup \in Known /\ C = Offered(e, ExtractTools(advertised[e.setup])))
  BY DEF ResolveSingle
<1>2. PICK new : new = [ref |-> r, entry |-> e, tools |-> C]
  OBVIOUS
<1>3. /\ answers' = answers \cup {new} /\ new.ref = r /\ new.entry = e /\ new.tools = C
      /\ ref[r] = "asking" /\ UNCHANGED <<selected, advertised, resolved, build, ref, tools, seen>>
  BY <1>1, <1>2 DEF ResolveSingle
<1>4. SelectionTyped'
  BY <1>3, <1>i DEF SelectionTyped
<1>5. ASSUME build.registry PROVE Founded'
  <2>1. Founded
    BY <1>5, <1>i
  <2>2. C # {} => e.setup \in Known /\ C \in seen[e.setup] /\ Matching(e, C) # {}
    BY <1>1, <2>1 DEF Founded, Offered
  <2>3. Grounded(new)
    BY <1>3, <2>2 DEF Grounded
  <2>4. \A a \in answers' : Grounded(a)'
    BY <1>3, <2>1, <2>3 DEF Founded, Grounded, Matching
  <2>5. Table(answers', tools') /\ Table(answers', resolved')
    BY <1>3, <2>1 DEF Founded, Table, AnsweredIn
  <2>6. \A a \in answers' : a.tools # {} /\ ref'[a.ref] = "done" => a.entry.setup \in DOMAIN tools'
    BY <1>3, <2>1 DEF Founded
  <2>7. \A s \in Known : ExtractTools(advertised[s])' \in seen'[s]
    BY <1>3, <2>1 DEF Founded, ExtractTools
  <2> QED BY <2>4, <2>5, <2>6, <2>7 DEF Founded
<1>6. ASSUME build.registry PROVE LevelsDone'
  BY <1>3, <1>6, <1>i DEF LevelsDone
<1> QED BY <1>3, <1>4, <1>5, <1>6 DEF BuildInv

(* A reference is done: of each setup that was answered it puts one answer   *)
(* in the table and in the cache.                                            *)
LEMMA ResolvedFounds == ASSUME BuildInv, NEW r \in Refs, Resolved(r) PROVE BuildInv'
<1>i. SelectionTyped /\ (build.registry => Founded /\ LevelsDone)
  BY DEF BuildInv
<1>1. PICK pick \in [{a.entry.setup : a \in Answered(r)} -> Answered(r)] :
        /\ \A s \in DOMAIN pick : pick[s].entry.setup = s
        /\ resolved' = [s \in DOMAIN resolved \cup DOMAIN pick |->
                          IF s \in DOMAIN pick THEN pick[s].tools ELSE resolved[s]]
  BY DEF Resolved
<1>2. /\ tools' = Added(r, resolved') /\ ref' = [ref EXCEPT ![r] = "done"] /\ ref[r] = "asking"
      /\ UNCHANGED <<selected, advertised, build, answers, seen>>
  BY DEF Resolved
<1>3. SelectionTyped'
  BY <1>2, <1>i DEF SelectionTyped
<1>4. ASSUME build.registry PROVE Founded'
  <2>1. Founded
    BY <1>4, <1>i
  <2>2. DOMAIN resolved' = DOMAIN resolved \cup DOMAIN pick /\ DOMAIN pick = {a.entry.setup : a \in Answered(r)}
    BY <1>1
  <2>3. Table(answers, resolved')
    <3>1. ASSUME NEW s \in DOMAIN resolved' PROVE AnsweredIn(answers, s, resolved'[s])
      <4>1. CASE s \in DOMAIN pick
        <5>1. resolved'[s] = pick[s].tools /\ pick[s] \in Answered(r) /\ pick[s].entry.setup = s
          BY <1>1, <4>1, <2>2
        <5> QED BY <5>1 DEF Answered, AnsweredIn
      <4>2. CASE s \notin DOMAIN pick
        <5>1. resolved'[s] = resolved[s] /\ s \in DOMAIN resolved
          BY <1>1, <4>2, <2>2
        <5> QED BY <5>1, <2>1 DEF Founded, Table
      <4> QED BY <4>1, <4>2
    <3> QED BY <3>1 DEF Table
  <2>4. Table(answers, tools') /\ DOMAIN tools' = DOMAIN tools \cup (Setups(r) \cap DOMAIN resolved')
    BY <1>2, <2>1, <2>3, AddedIsAnswered DEF Founded
  <2>5. \A a \in answers : ref'[a.ref] = IF a.ref = r THEN "done" ELSE ref[a.ref]
    BY <1>2, <1>i, <2>1 DEF SelectionTyped, Founded, Grounded
  <2>6. \A a \in answers : Grounded(a)'
    BY <1>2, <2>1, <2>5 DEF Founded, Grounded, Matching
  <2>7. ASSUME NEW a \in answers, a.tools # {}, ref'[a.ref] = "done" PROVE a.entry.setup \in DOMAIN tools'
    <3>1. CASE a.ref = r
      <4>1. a \in Answered(r) /\ a.entry \in selected[r]
        BY <2>7, <3>1, <2>1 DEF Answered, Founded, Grounded
      <4>2. a.entry.setup \in DOMAIN pick /\ a.entry.setup \in Setups(r)
        BY <4>1, <2>2 DEF Setups
      <4> QED BY <4>2, <2>2, <2>4
    <3>2. CASE a.ref # r
      BY <2>7, <3>2, <2>5, <2>4, <2>1 DEF Founded
    <3> QED BY <3>1, <3>2
  <2>8. \A s \in Known : ExtractTools(advertised[s])' \in seen'[s]
    BY <1>2, <2>1 DEF Founded, ExtractTools
  <2>9. answers' = answers
    BY <1>2
  <2> QED BY <2>9, <2>3, <2>4, <2>6, <2>7, <2>8 DEF Founded
<1>5. ASSUME build.registry PROVE LevelsDone'
  BY <1>2, <1>5, <1>i DEF LevelsDone, SelectionTyped
<1> QED BY <1>2, <1>3, <1>4, <1>5 DEF BuildInv

(* A level is left when all its references are done.                         *)
LEMMA DescendFounds == ASSUME BuildInv, Descend PROVE BuildInv'
<1>i. SelectionTyped /\ (build.registry => Founded /\ LevelsDone)
  BY DEF BuildInv
<1>1. PICK b \in {"nested", "built"} :
        /\ build' = [build EXCEPT !.at = b] /\ b = IF build.at = "top" THEN "nested" ELSE "built"
        /\ build.at \in {"top", "nested"}
  BY DEF Descend
<1>2. /\ build' \in [at : {"none", "top", "nested", "built"}, registry : BOOLEAN]
      /\ build'.at = b /\ build'.registry = build.registry
  BY <1>1, <1>i DEF SelectionTyped
<1>3. (\A r \in Level : ref[r] = "done") /\ UNCHANGED <<selected, advertised, resolved, ref, answers, tools, seen>>
  BY DEF Descend
<1>4. SelectionTyped'
  BY <1>2, <1>3, <1>i DEF SelectionTyped
<1>5. ASSUME build.registry PROVE Founded'
  BY <1>3, <1>5, <1>i DEF Founded, Grounded, Matching, Table, AnsweredIn, ExtractTools
<1>6. ASSUME build.registry PROVE LevelsDone'
  BY <1>1, <1>2, <1>3, <1>6, <1>i DEF LevelsDone, Level
<1> QED BY <1>2, <1>4, <1>5, <1>6 DEF BuildInv

(* A module that is deployed anew has one more catalogue it advertised.      *)
LEMMA RedeployFounds == ASSUME BuildInv, NEW s \in Known, Redeploy(s) PROVE BuildInv'
<1>i. SelectionTyped /\ (build.registry => Founded /\ LevelsDone)
  BY DEF BuildInv
<1>1. PICK C \in Catalogues :
        /\ advertised' = [advertised EXCEPT ![s] = C]
        /\ seen' = [seen EXCEPT ![s] = @ \cup {ExtractTools(C)}]
  BY DEF Redeploy
<1>2. UNCHANGED <<selected, resolved, build, ref, answers, tools>>
  BY DEF Redeploy
<1>3. PICK S \in SUBSET Catalogue : S = seen[s] \cup {ExtractTools(C)}
  BY <1>i DEF SelectionTyped, Catalogue
<1>4. /\ advertised'[s] = C /\ \A x \in Known \ {s} : advertised'[x] = advertised[x]
      /\ seen' = [seen EXCEPT ![s] = S] /\ seen'[s] = S /\ \A x \in Known \ {s} : seen'[x] = seen[x]
  BY <1>1, <1>3, <1>i DEF SelectionTyped
<1>5. SelectionTyped'
  BY <1>1, <1>2, <1>4, <1>i DEF SelectionTyped, Catalogue, ExtractTools
<1>6. ASSUME build.registry PROVE Founded'
  <2>1. Founded
    BY <1>6, <1>i
  <2>2. \A x \in Known : seen[x] \subseteq seen'[x]
    BY <1>3, <1>4
  <2>3. \A a \in answers : Grounded(a)'
    BY <1>2, <2>1, <2>2 DEF Founded, Grounded, Matching
  <2>4. \A x \in Known : ExtractTools(advertised[x])' \in seen'[x]
    BY <1>3, <1>4, <2>1 DEF Founded, ExtractTools
  <2> QED BY <1>2, <2>1, <2>3, <2>4 DEF Founded, Table, AnsweredIn
<1>7. ASSUME build.registry PROVE LevelsDone'
  BY <1>2, <1>7, <1>i DEF LevelsDone
<1> QED BY <1>2, <1>5, <1>6, <1>7 DEF BuildInv

(* Every step of a build, of the modules it asks, and of who starts it.      *)
LEMMA BuildGoesOn == ASSUME BuildInv, [SelectionNext]_svars PROVE BuildInv'
<1>1. CASE UNCHANGED svars
  BY <1>1 DEF svars, BuildInv, SelectionTyped, Founded, LevelsDone, Grounded, Matching, Table,
     AnsweredIn, ExtractTools, Catalogue
<1>2. ASSUME NEW asks \in BOOLEAN, BuildToolCache(asks) \/ ResolveTools(asks) PROVE BuildInv'
  <2>1. PICK table : StartBuild(asks, table) /\ (asks => table = <<>>)
    BY <1>2 DEF BuildToolCache, ResolveTools, Cleared
  <2> QED BY <2>1, StartBuildFounds
<1>3. ASSUME NEW r \in Refs, Collect(r) \/ Resolved(r) \/ \E e \in selected[r] : ResolveSingle(r, e) PROVE BuildInv'
  BY <1>3, CollectFounds, ResolvedFounds, ResolveSingleFounds
<1> QED BY <1>1, <1>2, <1>3, DescendFounds, RedeployFounds DEF SelectionNext

(* Before any build.                                                         *)
LEMMA BuildBegins == SelectionInit => BuildInv
<1> SUFFICES ASSUME SelectionInit PROVE BuildInv
  OBVIOUS
<1>1. /\ build = [at |-> "none", registry |-> FALSE] /\ ref = [r \in Refs |-> "idle"]
      /\ advertised \in [Known -> Catalogues] /\ seen = [s \in Known |-> {}]
  BY DEF SelectionInit, NoBuild
<1>2. SelectionTyped
  BY <1>1 DEF SelectionTyped
<1>3. build.registry = FALSE
  BY <1>1
<1> QED BY <1>2, <1>3 DEF BuildInv

(* What holds of a build gives, once it is through, what BuiltAfresh says.   *)
LEMMA BuildEndsFresh == ASSUME SelectionAssumption, BuildInv PROVE BuiltAfresh
<1> SUFFICES ASSUME build.at = "built", build.registry
             PROVE  /\ DOMAIN tools = {a.entry.setup : a \in UNION {Answered(r) : r \in Refs}}
                    /\ \A s \in DOMAIN tools :
                         /\ tools[s] \in seen[s]
                         /\ \E e \in UNION {selected[r] : r \in Refs} : e.setup = s /\ Matching(e, tools[s]) # {}
  BY DEF BuiltAfresh
<1>1. Founded /\ \A r \in Refs : ref[r] = "done"
  BY SelectionAssumption DEF SelectionAssumption, BuildInv, LevelsDone
<1>2. ASSUME NEW s \in DOMAIN tools
      PROVE  \E a \in answers : /\ a.ref \in Refs /\ a \in Answered(a.ref) /\ a.entry.setup = s
                                /\ tools[s] \in seen[s]
                                /\ a.entry \in selected[a.ref] /\ Matching(a.entry, tools[s]) # {}
  <2>1. PICK a \in answers : a.tools # {} /\ a.entry.setup = s /\ a.tools = tools[s]
    BY <1>1 DEF Founded, Table, AnsweredIn
  <2>2. Grounded(a)
    BY <1>1 DEF Founded
  <2> QED BY <2>1, <2>2 DEF Grounded, Answered
<1>3. ASSUME NEW r \in Refs, NEW a \in Answered(r) PROVE a.entry.setup \in DOMAIN tools
  BY <1>1 DEF Founded, Answered
<1>4. DOMAIN tools = {a.entry.setup : a \in UNION {Answered(r) : r \in Refs}}
  <2>1. ASSUME NEW s \in DOMAIN tools PROVE s \in {a.entry.setup : a \in UNION {Answered(r) : r \in Refs}}
    BY <1>2
  <2>2. ASSUME NEW s \in {a.entry.setup : a \in UNION {Answered(r) : r \in Refs}} PROVE s \in DOMAIN tools
    BY <1>3
  <2> QED BY <2>1, <2>2
<1>5. ASSUME NEW s \in DOMAIN tools
      PROVE  /\ tools[s] \in seen[s]
             /\ \E e \in UNION {selected[r] : r \in Refs} : e.setup = s /\ Matching(e, tools[s]) # {}
  <2>1. PICK a \in answers : /\ a.ref \in Refs /\ a.entry.setup = s /\ tools[s] \in seen[s]
                             /\ a.entry \in selected[a.ref] /\ Matching(a.entry, tools[s]) # {}
    BY <1>2
  <2>2. a.entry \in UNION {selected[r] : r \in Refs}
    BY <2>1
  <2> QED BY <2>1, <2>2
<1> QED BY <1>4, <1>5

(* A build that had a registry to ask leaves in the tool cache exactly what  *)
(* some reference resolved in it, advertised while it ran, and nothing that  *)
(* resolved_tools held before: SetupModel.build_tool_cache.                  *)
THEOREM BuildsAfresh == SelectionSpec => []BuiltAfresh
<1>1. SelectionInit => BuildInv
  BY BuildBegins
<1>2. BuildInv /\ [SelectionNext]_svars => BuildInv'
  BY BuildGoesOn
<1>3. BuildInv => BuiltAfresh
  BY SelectionAssumption, BuildEndsFresh
<1> QED BY <1>1, <1>2, <1>3, PTL DEF SelectionSpec

-----------------------------------------------------------------------------
(* SetupSchema on its own.                                                   *)

SchemaSpec == SchemaInit /\ [][SchemaNext]_mvars

(* The class stays as it was declared, and so do the models data is read     *)
(* with.                                                                     *)
Declared == [k \in Keys |-> Static]
CleanEntries == {[for |-> x, model |-> Model(x, Declared)] : x \in DataFilters}
ClassStands ==
  /\ ownField = [k \in Keys |-> [value |-> Static, dynamic |-> TRUE]]
  /\ clean \in Seq(CleanEntries)

(* What a request shows of a fetcher: what it had, or nothing if it failed.  *)
Shows(R, k) == R.got[k] \in IF k \in R.failed THEN {Static} ELSE R.seen[k]

(* A request under way: the fields before the next one are done, the keys of *)
(* the next that were not asked and those of later fields stand as declared. *)
Refreshes ==
  [at : {"refreshing"}, for : SchemaFilters, next : 1..(NumFields + 1), got : [Keys -> Nat],
   asked : SUBSET Keys, seen : [Keys -> SUBSET Nat], failed : SUBSET Keys]
UpToDate(R) ==
  /\ \A k \in Keys : provider[k] \in R.seen[k]
  /\ \A f \in Fields \ Excluded(R.for) : \A k \in Reachable(f) : f < R.next => Shows(R, k)
  /\ \A k \in R.asked : Shows(R, k)
  /\ \A f \in Fields : \A k \in KeysOf(f) :
       R.next < f \/ (R.next = f /\ k \notin R.asked) => R.got[k] = Static /\ k \notin R.failed

(* A request that was answered shows its fields, and what their fetchers had.*)
ShownTruly(R) ==
  /\ DOMAIN R.got = Fields \ Excluded(R.for)
  /\ \A f \in DOMAIN R.got : \A k \in Reachable(f) :
       R.got[f][k] \in IF k \in R.failed THEN {Static} ELSE R.seen[k]
RequestStands(R) ==
  \/ R.at = "idle"
  \/ (R.at = "refreshing" /\ R \in Refreshes /\ UpToDate(R))
  \/ (R.at = "answered" /\ ShownTruly(R))

SchemaInv ==
  /\ ClassStands /\ provider \in [Keys -> Nat] /\ shifts \in Nat
  /\ DOMAIN request = Requests /\ \A r \in Requests : RequestStands(request[r])

-----------------------------------------------------------------------------
(* What a schema can show of a field are keys, of that field only.           *)
LEMMA KeysAreOfAField ==
  ASSUME SchemaAssumption, NEW f \in Fields
  PROVE  /\ Reachable(f) \subseteq KeysOf(f) /\ KeysOf(f) \subseteq Keys
         /\ \A g \in Fields : \A k \in KeysOf(g) : k \in KeysOf(f) => g = f
<1>1. Reachable(f) \subseteq KeysOf(f)
  BY DEF Reachable, KeysOf
<1>2. KeysOf(f) \subseteq Keys
  <2>1. PICK A : A = UNION {Own[g] : g \in Fields}
    OBVIOUS
  <2>2. PICK B : B = UNION {UNION Inner[g] : g \in Fields}
    OBVIOUS
  <2>3. Own[f] \subseteq A /\ UNION Inner[f] \subseteq B
    BY <2>1, <2>2
  <2>4. Keys = A \cup B
    BY <2>1, <2>2 DEF Keys
  <2> QED BY <2>3, <2>4 DEF KeysOf
<1>3. \A g \in Fields : \A k \in KeysOf(g) : k \in KeysOf(f) => g = f
  BY SchemaAssumption DEF SchemaAssumption, KeysOf
<1> QED BY <1>1, <1>2, <1>3

(* While the class is as declared, every fetcher a schema can show is asked. *)
LEMMA AllAreAsked ==
  ASSUME SchemaAssumption, SchemaInv, NEW f \in Fields PROVE Refreshable(f) = Reachable(f)
<1>1. Own[f] \cup UNION Inner[f] \subseteq Keys
  BY KeysAreOfAField DEF KeysOf
<1>2. Own[f] \cup RefreshAnnotation(f) \subseteq Keys
  BY <1>1 DEF RefreshAnnotation
<1>3. \A k \in Keys : ownField[k].dynamic
  BY DEF SchemaInv, ClassStands
<1>4. Refreshable(f) = Own[f] \cup RefreshAnnotation(f)
  BY <1>2, <1>3 DEF Refreshable
<1>5. Shape[f] = "plain" => UNION Inner[f] = {}
  BY SchemaAssumption DEF SchemaAssumption
<1>6. CASE Shape[f] = "plain"
  BY <1>4, <1>5, <1>6 DEF RefreshAnnotation, Reachable, KeysOf
<1>7. CASE Shape[f] = "container of union"
  BY <1>4, <1>7 DEF RefreshAnnotation, Reachable
<1>8. CASE Shape[f] \notin {"plain", "container of union"}
  BY <1>4, <1>8 DEF RefreshAnnotation, Reachable, KeysOf
<1> QED BY <1>6, <1>7, <1>8

(* A schema is for the fields that are not excluded: what SetupModel itself  *)
(* has is among them.                                                        *)
LEMMA FieldsAreThose ==
  ASSUME SchemaAssumption, NEW x PROVE FieldsOf(x) = Fields \ Excluded(x)
<1>1. Inherited \subseteq Fields
  BY SchemaAssumption DEF SchemaAssumption
<1> QED BY <1>1 DEF FieldsOf, RemoveExcluded

(* A step of one request, over a class and fetchers that stand still.        *)
LEMMA RequestSteps ==
  ASSUME SchemaInv, NEW r \in Requests, NEW R, request' = [request EXCEPT ![r] = R],
         UNCHANGED <<provider, ownField, clean>>, shifts' \in Nat, RequestStands(R)
  PROVE  SchemaInv'
<1>1. DOMAIN request' = Requests /\ request'[r] = R
      /\ \A q \in Requests : q # r => request'[q] = request[q]
  BY DEF SchemaInv
<1>2. \A x : RequestStands(x) => RequestStands(x)'
  BY DEF RequestStands, ShownTruly, UpToDate, Shows
<1>3. \A q \in Requests : RequestStands(request'[q])
  BY <1>1 DEF SchemaInv
<1>4. \A q \in Requests : RequestStands(request[q])'
  BY <1>2, <1>3
<1>5. ClassStands'
  BY DEF SchemaInv, ClassStands
<1> QED BY <1>1, <1>4, <1>5 DEF SchemaInv

(* A step of the class, over requests and fetchers that stand still.         *)
LEMMA ClassSteps ==
  ASSUME SchemaInv, ClassStands', UNCHANGED <<provider, request>>, shifts' \in Nat
  PROVE  SchemaInv'
<1>1. \A x : RequestStands(x) => RequestStands(x)'
  BY DEF RequestStands, ShownTruly, UpToDate, Shows
<1>2. \A q \in Requests : RequestStands(request[q])
  BY DEF SchemaInv
<1>3. \A q \in Requests : RequestStands(request[q])'
  BY <1>1, <1>2
<1> QED BY <1>3 DEF SchemaInv

(* A model that is not there yet is made of what the class declares.         *)
LEMMA CleanModelIsDeclared ==
  ASSUME SchemaAssumption, SchemaInv, NEW x \in DataFilters, GetCleanModel(x) PROVE SchemaInv'
<1>1. AsDeclared = Declared
  BY DEF SchemaInv, ClassStands, AsDeclared, Declared
<1>2. PICK e : e = [for |-> x, model |-> Model(x, Declared)]
  OBVIOUS
<1>3. e \in CleanEntries
  BY <1>2 DEF CleanEntries
<1>4. PICK room : room = IF Len(clean) >= CleanMax THEN Tail(clean) ELSE clean
  OBVIOUS
<1>5. clean' = Append(room, e)
  BY <1>1, <1>2, <1>4 DEF GetCleanModel, Remember
<1>6. clean \in Seq(CleanEntries)
  BY DEF SchemaInv, ClassStands
<1>7. room \in Seq(CleanEntries)
  <2>1. CASE Len(clean) >= CleanMax
    <3>1. clean # <<>>
      BY <2>1, SchemaAssumption DEF SchemaAssumption
    <3> QED BY <1>4, <1>6, <2>1, <3>1
  <2>2. CASE ~(Len(clean) >= CleanMax)
    BY <1>4, <1>6, <2>2
  <2> QED BY <2>1, <2>2
<1>8. clean' \in Seq(CleanEntries)
  BY <1>3, <1>5, <1>7
<1>9. CleanEntries' = CleanEntries /\ ownField' = ownField
  BY DEF GetCleanModel, CleanEntries
<1>10. ClassStands'
  BY <1>8, <1>9 DEF SchemaInv, ClassStands
<1>11. UNCHANGED <<provider, request>> /\ shifts' \in Nat
  BY DEF GetCleanModel, SchemaInv
<1> QED BY <1>10, <1>11, ClassSteps

(* An emptied cache shows nothing that is not declared.                      *)
LEMMA CacheIsCleared == ASSUME SchemaInv, ClearCleanModelCache PROVE SchemaInv'
<1>1. ClassStands'
  <2>1. clean' = <<>> /\ ownField' = ownField
    BY DEF ClearCleanModelCache
  <2>2. <<>> \in Seq(CleanEntries)'
    OBVIOUS
  <2> QED BY <2>1, <2>2 DEF SchemaInv, ClassStands
<1>2. UNCHANGED <<provider, request>> /\ shifts' \in Nat
  BY DEF ClearCleanModelCache, Shifts, SchemaInv
<1> QED BY <1>1, <1>2, ClassSteps

(* A request begins with what the class declares, and before any field.      *)
LEMMA ForceBegins ==
  ASSUME SchemaAssumption, SchemaInv, NEW r \in Requests, NEW x \in SchemaFilters,
         ForceCleanModel(r, x)
  PROVE  SchemaInv'
<1>1. AsDeclared = Declared
  BY DEF SchemaInv, ClassStands, AsDeclared, Declared
<1>2. PICK s : s = [k \in Keys |-> {provider[k]}]
  OBVIOUS
<1>3. s \in [Keys -> SUBSET Nat] /\ \A k \in Keys : provider[k] \in s[k]
  BY <1>2 DEF SchemaInv
<1>4. PICK R : R = [at |-> "refreshing", for |-> x, next |-> 1, got |-> Declared,
                    asked |-> {}, seen |-> s, failed |-> {}]
  OBVIOUS
<1>5. request' = [request EXCEPT ![r] = R]
  BY <1>1, <1>2, <1>4 DEF ForceCleanModel
<1>6. Declared \in [Keys -> Nat] /\ \A k \in Keys : Declared[k] = Static
  BY DEF Declared, Static
<1>7. NumFields \in Nat
  BY SchemaAssumption DEF SchemaAssumption
<1>8. R \in Refreshes
  <2>1. 1 \in 1..(NumFields + 1)
    BY <1>7
  <2> QED BY <2>1, <1>3, <1>4, <1>6 DEF Refreshes
<1>9. R.next = 1 /\ R.asked = {} /\ R.failed = {} /\ R.seen = s /\ R.got = Declared
      /\ R.at = "refreshing"
  BY <1>4
<1>10. \A f \in Fields : f \in Nat /\ ~(f < 1)
  BY <1>7 DEF Fields
<1>11. \A f \in Fields : KeysOf(f) \subseteq Keys
  BY SchemaAssumption, KeysAreOfAField
<1>12. UpToDate(R)
  BY <1>3, <1>6, <1>9, <1>10, <1>11 DEF UpToDate
<1>13. RequestStands(R)
  BY <1>8, <1>9, <1>12 DEF RequestStands
<1>14. UNCHANGED <<provider, ownField, clean>> /\ shifts' \in Nat
  BY DEF ForceCleanModel, SchemaInv
<1> QED BY <1>5, <1>13, <1>14, RequestSteps

(* One fetcher of the next field was asked, for the first time: no other     *)
(* field is its own, and of the others nothing changed.                      *)
LEMMA AskedStands ==
  ASSUME SchemaAssumption, NEW R \in Refreshes, UpToDate(R), NEW k \in Keys, R.next \in Fields,
         k \in KeysOf(R.next), NEW N \in Refreshes, N.for = R.for, N.next = R.next,
         N.seen = R.seen, N.asked = R.asked \cup {k}, Shows(N, k),
         \A j \in Keys : j # k => N.got[j] = R.got[j] /\ (j \in N.failed <=> j \in R.failed)
  PROVE  RequestStands(N)
<1>1. PICK g : g = R.next
  OBVIOUS
<1>2. g \in Fields /\ \A f \in Fields : k \in KeysOf(f) => f = g
  BY <1>1, SchemaAssumption, KeysAreOfAField
<1>3. \A f \in Fields : f \in Nat
  BY SchemaAssumption DEF SchemaAssumption, Fields
<1>4. \A f \in Fields : KeysOf(f) \subseteq Keys /\ Reachable(f) \subseteq KeysOf(f)
  BY SchemaAssumption, KeysAreOfAField
<1>5. \A f \in Fields : \A j \in KeysOf(f) : f < g \/ g < f => j # k
  BY <1>2, <1>3
<1>6. R.asked \subseteq Keys
  BY DEF Refreshes
<1>7. \A j \in Keys : j # k /\ Shows(R, j) => Shows(N, j)
  BY DEF Shows
<1>8. \A j \in Keys : provider[j] \in N.seen[j]
  BY DEF UpToDate
<1>9. \A f \in Fields \ Excluded(N.for) : \A j \in Reachable(f) : f < N.next => Shows(N, j)
  BY <1>1, <1>4, <1>5, <1>7 DEF UpToDate
<1>10. \A j \in N.asked : Shows(N, j)
  BY <1>6, <1>7 DEF UpToDate
<1>11. \A f \in Fields : \A j \in KeysOf(f) :
         N.next < f \/ (N.next = f /\ j \notin N.asked) => N.got[j] = Static /\ j \notin N.failed
  <2>1. SUFFICES ASSUME NEW f \in Fields, NEW j \in KeysOf(f),
                        N.next < f \/ (N.next = f /\ j \notin N.asked)
                 PROVE  N.got[j] = Static /\ j \notin N.failed
    OBVIOUS
  <2>2. j # k /\ j \in Keys /\ (R.next < f \/ (R.next = f /\ j \notin R.asked))
    BY <1>1, <1>4, <1>5, <2>1
  <2>3. R.got[j] = Static /\ j \notin R.failed
    BY <2>2 DEF UpToDate
  <2> QED BY <2>2, <2>3
<1>12. N.at = "refreshing"
  BY DEF Refreshes
<1> QED BY <1>8, <1>9, <1>10, <1>11, <1>12 DEF RequestStands, UpToDate

(* A fetcher answers, or fails and leaves what is declared.                  *)
LEMMA ResolveOneIsTrue ==
  ASSUME SchemaAssumption, SchemaInv, NEW r \in Requests, NEW k \in Keys, ResolveOne(r, k)
  PROVE  SchemaInv'
<1>1. PICK R : R = request[r]
  OBVIOUS
<1>2. R \in Refreshes /\ UpToDate(R)
  BY <1>1 DEF SchemaInv, RequestStands, ResolveOne
<1>3. R.next \in Fields /\ k \in Reachable(R.next) /\ k \notin R.asked
  <2>1. R.next \in Fields /\ k \in Refreshable(R.next) /\ k \notin R.asked
    BY <1>1 DEF ResolveOne
  <2>2. Refreshable(R.next) = Reachable(R.next)
    BY <2>1, SchemaAssumption, AllAreAsked
  <2> QED BY <2>1, <2>2
<1>4. k \in KeysOf(R.next)
  BY <1>3, SchemaAssumption, KeysAreOfAField
<1>5. R.got[k] = Static /\ k \notin R.failed
  BY <1>2, <1>3, <1>4 DEF UpToDate
<1>6. provider[k] \in Nat /\ provider[k] \in R.seen[k]
  BY <1>2 DEF SchemaInv, UpToDate
<1>7. UNCHANGED <<provider, ownField, clean>> /\ shifts' \in Nat
  BY DEF ResolveOne, OnCopy, Shifts, SchemaInv
<1>8. R.got \in [Keys -> Nat] /\ R.asked \in SUBSET Keys /\ R.failed \in SUBSET Keys
  BY <1>2 DEF Refreshes
<1>9. PICK asked : asked = R.asked \cup {k}
  OBVIOUS
<1>10. CASE request' = [request EXCEPT ![r].got[k] = provider[k], ![r].asked = @ \cup {k}]
  <2>1. PICK G : G = [R.got EXCEPT ![k] = provider[k]]
    OBVIOUS
  <2>2. PICK N : N = [R EXCEPT !.got = G, !.asked = asked]
    OBVIOUS
  <2>3. request' = [request EXCEPT ![r] = N]
    BY <1>1, <1>9, <1>10, <2>1, <2>2 DEF SchemaInv
  <2>4. G \in [Keys -> Nat] /\ G[k] = provider[k] /\ \A j \in Keys : j # k => G[j] = R.got[j]
    BY <1>6, <1>8, <2>1
  <2>5. N \in Refreshes
    BY <1>2, <1>8, <1>9, <2>2, <2>4 DEF Refreshes
  <2>6. /\ N.for = R.for /\ N.next = R.next /\ N.got = G /\ N.asked = asked
        /\ N.seen = R.seen /\ N.failed = R.failed
    BY <1>2, <2>2 DEF Refreshes
  <2>7. Shows(N, k)
    BY <1>5, <1>6, <2>4, <2>6 DEF Shows
  <2>8. \A j \in Keys : j # k => N.got[j] = R.got[j] /\ (j \in N.failed <=> j \in R.failed)
    BY <2>4, <2>6
  <2>9. N.asked = R.asked \cup {k}
    BY <1>9, <2>6
  <2>10. RequestStands(N)
    BY <1>2, <1>3, <1>4, <2>5, <2>6, <2>7, <2>8, <2>9, SchemaAssumption, AskedStands
  <2> QED BY <1>7, <2>3, <2>10, RequestSteps
<1>11. CASE request' = [request EXCEPT ![r].asked = @ \cup {k}, ![r].failed = @ \cup {k}]
  <2>1. PICK F : F = R.failed \cup {k}
    OBVIOUS
  <2>2. PICK N : N = [R EXCEPT !.asked = asked, !.failed = F]
    OBVIOUS
  <2>3. request' = [request EXCEPT ![r] = N]
    BY <1>1, <1>9, <1>11, <2>1, <2>2 DEF SchemaInv
  <2>4. F \in SUBSET Keys /\ k \in F /\ \A j : j # k => (j \in F <=> j \in R.failed)
    BY <1>8, <2>1
  <2>5. N \in Refreshes
    BY <1>2, <1>8, <1>9, <2>2, <2>4 DEF Refreshes
  <2>6. /\ N.for = R.for /\ N.next = R.next /\ N.got = R.got /\ N.asked = asked
        /\ N.seen = R.seen /\ N.failed = F
    BY <1>2, <2>2 DEF Refreshes
  <2>7. Shows(N, k)
    BY <1>5, <2>4, <2>6 DEF Shows
  <2>8. \A j \in Keys : j # k => N.got[j] = R.got[j] /\ (j \in N.failed <=> j \in R.failed)
    BY <2>4, <2>6
  <2>9. N.asked = R.asked \cup {k}
    BY <1>9, <2>6
  <2>10. RequestStands(N)
    BY <1>2, <1>3, <1>4, <2>5, <2>6, <2>7, <2>8, <2>9, SchemaAssumption, AskedStands
  <2> QED BY <1>7, <2>3, <2>10, RequestSteps
<1> QED BY <1>10, <1>11 DEF ResolveOne

(* The next field is done when all its fetchers were asked, or none is to be.*)
LEMMA NextFieldIsTrue ==
  ASSUME SchemaAssumption, SchemaInv, NEW r \in Requests, NextField(r) PROVE SchemaInv'
<1>1. PICK R : R = request[r]
  OBVIOUS
<1>2. R \in Refreshes /\ UpToDate(R)
  BY <1>1 DEF SchemaInv, RequestStands, NextField
<1>3. PICK g : g = R.next
  OBVIOUS
<1>4. g \in Fields /\ (g \in Excluded(R.for) \/ Reachable(g) \subseteq R.asked)
  <2>1. g \in Fields /\ (g \in Excluded(R.for) \/ Refreshable(g) \subseteq R.asked)
    BY <1>1, <1>3 DEF NextField
  <2>2. Refreshable(g) = Reachable(g)
    BY <2>1, SchemaAssumption, AllAreAsked
  <2> QED BY <2>1, <2>2
<1>5. \A f \in Fields : f \in Nat
  BY SchemaAssumption DEF SchemaAssumption, Fields
<1>6. g + 1 \in 1..(NumFields + 1)
  BY <1>4, SchemaAssumption DEF SchemaAssumption, Fields
<1>7. PICK n : n = g + 1
  OBVIOUS
<1>8. PICK N : N = [R EXCEPT !.next = n, !.asked = {}]
  OBVIOUS
<1>9. request' = [request EXCEPT ![r] = N]
  BY <1>1, <1>3, <1>7, <1>8 DEF NextField, SchemaInv
<1>10. N \in Refreshes
  BY <1>2, <1>6, <1>7, <1>8 DEF Refreshes
<1>11. /\ N.at = "refreshing" /\ N.for = R.for /\ N.next = n /\ N.got = R.got /\ N.asked = {}
       /\ N.seen = R.seen /\ N.failed = R.failed
  BY <1>2, <1>8 DEF Refreshes
<1>12. \A j : Shows(N, j) <=> Shows(R, j)
  BY <1>11 DEF Shows
<1>13. \A f \in Fields : (f < n <=> f < g \/ f = g) /\ (n < f \/ n = f => g < f)
  BY <1>4, <1>5, <1>7
<1>14. \A f \in Fields \ Excluded(N.for) : \A j \in Reachable(f) : f < N.next => Shows(N, j)
  BY <1>2, <1>3, <1>4, <1>11, <1>12, <1>13 DEF UpToDate
<1>15. \A f \in Fields : \A j \in KeysOf(f) :
         N.next < f \/ (N.next = f /\ j \notin N.asked) => N.got[j] = Static /\ j \notin N.failed
  BY <1>2, <1>3, <1>11, <1>13 DEF UpToDate
<1>16. \A j \in Keys : provider[j] \in N.seen[j]
  BY <1>2, <1>11 DEF UpToDate
<1>17. RequestStands(N)
  BY <1>10, <1>11, <1>14, <1>15, <1>16 DEF RequestStands, UpToDate
<1>18. UNCHANGED <<provider, ownField, clean>> /\ shifts' \in Nat
  BY DEF NextField, SchemaInv
<1> QED BY <1>9, <1>17, <1>18, RequestSteps

(* The answer has the fields the schema is for, each with what it was given. *)
LEMMA AnswerIsTrue ==
  ASSUME SchemaAssumption, SchemaInv, NEW r \in Requests, Answer(r) PROVE SchemaInv'
<1>1. PICK R : R = request[r]
  OBVIOUS
<1>2. R \in Refreshes /\ UpToDate(R) /\ R.next = NumFields + 1
  BY <1>1 DEF SchemaInv, RequestStands, Answer
<1>3. PICK M : M = Model(R.for, R.got)
  OBVIOUS
<1>4. PICK N : N = [R EXCEPT !.at = "answered", !.got = M]
  OBVIOUS
<1>5. request' = [request EXCEPT ![r] = N]
  BY <1>1, <1>3, <1>4 DEF Answer, SchemaInv
<1>6. /\ N.at = "answered" /\ N.for = R.for /\ N.got = M
      /\ N.seen = R.seen /\ N.failed = R.failed
  BY <1>2, <1>4 DEF Refreshes
<1>7. FieldsOf(R.for) = Fields \ Excluded(R.for)
  BY SchemaAssumption, FieldsAreThose
<1>8. M = [f \in Fields \ Excluded(R.for) |-> [k \in KeysOf(f) |-> R.got[k]]]
  BY <1>3, <1>7 DEF Model
<1>9. \A f \in Fields : Reachable(f) \subseteq KeysOf(f)
  BY SchemaAssumption, KeysAreOfAField
<1>10. \A f \in Fields \ Excluded(R.for) : \A k \in Reachable(f) : M[f][k] = R.got[k]
  BY <1>8, <1>9
<1>11. \A f \in Fields : f < R.next
  BY <1>2, SchemaAssumption DEF SchemaAssumption, Fields
<1>12. \A f \in Fields \ Excluded(R.for) : \A k \in Reachable(f) : Shows(R, k)
  BY <1>2, <1>11 DEF UpToDate
<1>13. DOMAIN M = Fields \ Excluded(R.for)
  BY <1>8
<1>14. ShownTruly(N)
  BY <1>6, <1>10, <1>12, <1>13 DEF ShownTruly, Shows
<1>15. RequestStands(N)
  BY <1>6, <1>14 DEF RequestStands
<1>16. UNCHANGED <<provider, ownField, clean>> /\ shifts' \in Nat
  BY DEF Answer, NotCached, SchemaInv
<1> QED BY <1>5, <1>15, <1>16, RequestSteps

(* What a fetcher would answer now joins what it had while a request is      *)
(* served; what was answered stands.                                         *)
LEMMA ShiftIsSeen ==
  ASSUME SchemaAssumption, SchemaInv, NEW k \in Keys, ProviderShifts(k) PROVE SchemaInv'
<1>1. PICK v : v = provider[k] + 1
  OBVIOUS
<1>2. v \in Nat /\ provider' = [provider EXCEPT ![k] = v]
  BY <1>1 DEF SchemaInv, ProviderShifts
<1>3. provider' \in [Keys -> Nat] /\ provider'[k] = v /\ \A j \in Keys : j # k => provider'[j] = provider[j]
  BY <1>2 DEF SchemaInv
<1>4. DOMAIN request' = Requests
  BY DEF ProviderShifts
<1>5. ASSUME NEW r \in Requests PROVE RequestStands(request[r])'
  <2>1. PICK R : R = request[r]
    OBVIOUS
  <2>2. RequestStands(R)
    BY <2>1 DEF SchemaInv
  <2>3. PICK N : N = request'[r]
    OBVIOUS
  <2>4. CASE R.at # "refreshing"
    <3>1. N = R
      BY <2>1, <2>3, <2>4 DEF ProviderShifts
    <3>2. R.at = "idle" \/ (R.at = "answered" /\ ShownTruly(R))
      BY <2>2, <2>4 DEF RequestStands
    <3>3. N.at = "idle" \/ (N.at = "answered" /\ ShownTruly(N))
      BY <3>1, <3>2
    <3> QED BY <2>3, <3>3 DEF RequestStands, ShownTruly
  <2>5. CASE R.at = "refreshing"
    <3>1. R \in Refreshes /\ UpToDate(R)
      BY <2>2, <2>5 DEF RequestStands
    <3>2. PICK S : S = [R.seen EXCEPT ![k] = @ \cup {v}]
      OBVIOUS
    <3>3. N = [R EXCEPT !.seen = S]
      BY <1>3, <2>1, <2>3, <2>5, <3>2 DEF ProviderShifts
    <3>4. R.seen \in [Keys -> SUBSET Nat]
      BY <3>1 DEF Refreshes
    <3>5. S \in [Keys -> SUBSET Nat] /\ v \in S[k] /\ \A j \in Keys : R.seen[j] \subseteq S[j]
      BY <1>2, <3>2, <3>4
    <3>6. N \in Refreshes
      BY <3>1, <3>3, <3>5 DEF Refreshes
    <3>7. /\ N.at = "refreshing" /\ N.for = R.for /\ N.next = R.next /\ N.got = R.got
          /\ N.asked = R.asked /\ N.seen = S /\ N.failed = R.failed
      BY <3>1, <3>3 DEF Refreshes
    <3>8. \A j \in Keys : Shows(R, j) => Shows(N, j)
      BY <3>5, <3>7 DEF Shows
    <3>9. \A j \in Keys : provider'[j] \in N.seen[j]
      BY <1>3, <3>1, <3>5, <3>7 DEF UpToDate
    <3>10. \A f \in Fields : Reachable(f) \subseteq Keys
      BY SchemaAssumption, KeysAreOfAField
    <3>11. \A f \in Fields \ Excluded(N.for) : \A j \in Reachable(f) : f < N.next => Shows(N, j)
      BY <3>1, <3>7, <3>8, <3>10 DEF UpToDate
    <3>12. \A j \in N.asked : Shows(N, j)
      BY <3>1, <3>7, <3>8 DEF UpToDate, Refreshes
    <3>13. \A f \in Fields : \A j \in KeysOf(f) :
             N.next < f \/ (N.next = f /\ j \notin N.asked) => N.got[j] = Static /\ j \notin N.failed
      BY <3>1, <3>7 DEF UpToDate
    <3>14. UpToDate(N)'
      BY <3>9, <3>11, <3>12, <3>13 DEF UpToDate, Shows
    <3> QED BY <2>3, <3>6, <3>7, <3>14 DEF RequestStands
  <2> QED BY <2>4, <2>5
<1>6. ClassStands' /\ shifts' \in Nat
  BY DEF ProviderShifts, Shifts, SchemaInv, ClassStands
<1> QED BY <1>3, <1>4, <1>5, <1>6 DEF SchemaInv

(* Each step of the schemas keeps the invariant.                             *)
LEMMA SchemasGoOn == ASSUME SchemaAssumption, SchemaInv, [SchemaNext]_mvars PROVE SchemaInv'
<1>1. CASE UNCHANGED mvars
  <2>1. UNCHANGED <<provider, request>> /\ shifts' \in Nat
    BY <1>1 DEF mvars, SchemaInv
  <2>2. ClassStands'
    BY <1>1 DEF mvars, SchemaInv, ClassStands
  <2> QED BY <2>1, <2>2, ClassSteps
<1> QED BY <1>1, SchemaAssumption, CleanModelIsDeclared, CacheIsCleared, ForceBegins,
           ResolveOneIsTrue, NextFieldIsTrue, AnswerIsTrue, ShiftIsSeen DEF SchemaNext

(* At first no model was derived, and no request was made.                  *)
LEMMA SchemasBegin == SchemaInit => SchemaInv
<1> SUFFICES ASSUME SchemaInit PROVE SchemaInv
  OBVIOUS
<1>1. ClassStands
  <2>1. <<>> \in Seq(CleanEntries)
    OBVIOUS
  <2> QED BY <2>1 DEF SchemaInit, ClassStands
<1>2. \A r \in Requests : RequestStands(request[r])
  BY DEF SchemaInit, RequestStands
<1>3. provider \in [Keys -> Nat] /\ shifts \in Nat /\ DOMAIN request = Requests
  BY DEF SchemaInit
<1> QED BY <1>1, <1>2, <1>3 DEF SchemaInv

(* The invariant is what the property asks, and more.                       *)
LEMMA SchemasStand == SchemaAssumption /\ SchemaInv => SchemasAreTrue
<1> SUFFICES ASSUME SchemaAssumption, SchemaInv PROVE SchemasAreTrue
  OBVIOUS
<1>1. ASSUME NEW r \in Requests, request[r].at = "answered" PROVE ShownTruly(request[r])
  BY <1>1 DEF SchemaInv, RequestStands
<1>2. ASSUME NEW i \in DOMAIN clean
      PROVE  /\ DOMAIN clean[i].model = Fields \ Excluded(clean[i].for)
             /\ \A f \in DOMAIN clean[i].model : \A k \in KeysOf(f) : clean[i].model[f][k] = Static
  <2>1. clean[i] \in CleanEntries
    BY <1>2 DEF SchemaInv, ClassStands
  <2>2. PICK x \in DataFilters : clean[i] = [for |-> x, model |-> Model(x, Declared)]
    BY <2>1 DEF CleanEntries
  <2>3. clean[i].for = x /\ clean[i].model = Model(x, Declared)
    BY <2>2
  <2>4. FieldsOf(x) = Fields \ Excluded(x)
    BY SchemaAssumption, FieldsAreThose
  <2>5. clean[i].model = [f \in Fields \ Excluded(x) |-> [k \in KeysOf(f) |-> Declared[k]]]
    BY <2>3, <2>4 DEF Model
  <2>6. \A f \in Fields : \A k \in KeysOf(f) : Declared[k] = Static
    BY SchemaAssumption, KeysAreOfAField DEF Declared
  <2> QED BY <2>3, <2>5, <2>6
<1> QED BY <1>1, <1>2 DEF SchemasAreTrue, ShownTruly

(* For every setup class, however its fields are marked, nested and marked   *)
(* dynamic, and any number of requests that are served over changing and     *)
(* failing fetchers, a schema shows what it is for and what its fetchers had,*)
(* and the models data is read with show what the class declares             *)
(* (setup_types.py:38).                                                      *)
THEOREM ShowsTruly == SchemaSpec => []SchemasAreTrue
<1>1. SchemaInit => SchemaInv
  BY SchemasBegin
<1>2. SchemaInv /\ [SchemaNext]_mvars => SchemaInv'
  BY SchemaAssumption, SchemasGoOn
<1>3. SchemaInv => SchemasAreTrue
  BY SchemaAssumption, SchemasStand
<1> QED BY <1>1, <1>2, <1>3, PTL DEF SchemaSpec

-----------------------------------------------------------------------------
(* Ranking: sorting a finite set of numbers.                                 *)

(* A number that is in the set has a rank, and a larger one a larger rank.   *)
LEMMA RanksRise ==
  ASSUME NEW S, IsFiniteSet(S), S \subseteq Nat
  PROVE  /\ Cardinality(S) \in Nat
         /\ \A x \in S : x \in Nat /\ Rank(S, x) \in Nat /\ Rank(S, x) \in 1..Cardinality(S)
         /\ \A x, y \in S : x < y => Rank(S, x) < Rank(S, y)
<1>1. Cardinality(S) \in Nat
  BY FS_CardinalityType
<1>2. ASSUME NEW x \in S PROVE Rank(S, x) \in 1..Cardinality(S)
  <2> DEFINE L == {y \in S : y <= x}
  <2>1. IsFiniteSet(L) /\ Cardinality(L) <= Cardinality(S)
    BY FS_Subset
  <2>2. Cardinality(L) \in Nat
    BY <2>1, FS_CardinalityType
  <2>3. L # {}
    OBVIOUS
  <2>4. Cardinality(L) # 0
    BY <2>1, <2>3, FS_EmptySet
  <2>5. Rank(S, x) = Cardinality(L)
    BY DEF Rank
  <2> QED BY <1>1, <2>1, <2>2, <2>4, <2>5
<1>2a. \A x \in S : x \in Nat /\ Rank(S, x) \in Nat
  <2> DEFINE n == Cardinality(S)
  <2>1. n \in Nat /\ \A x \in S : Rank(S, x) \in 1..n
    BY <1>1, <1>2
  <2> HIDE DEF n
  <2> QED BY <2>1
<1>3. ASSUME NEW x \in S, NEW y \in S, x < y PROVE Rank(S, x) < Rank(S, y)
  <2> DEFINE L == {z \in S : z <= x}
             M == {z \in S : z <= y}
  <2>1. IsFiniteSet(M) /\ IsFiniteSet(L)
    BY FS_Subset
  <2>2a. x \in Nat /\ y \in Nat
    BY <1>2a
  <2>2b. \A z \in S : z <= x => z <= y
    <3>1. \A z \in S : z \in Nat
      BY <1>2a
    <3> QED BY <1>3, <2>2a, <3>1
  <2>2. L \subseteq M
    BY <2>2b
  <2>2c. y \in M /\ y \notin L
    BY <1>3, <2>2a
  <2>3. Cardinality(L) <= Cardinality(M) /\ Cardinality(L) # Cardinality(M)
    BY <2>1, <2>2, <2>2c, FS_Subset
  <2>4. Cardinality(L) \in Nat /\ Cardinality(M) \in Nat
    BY <2>1, FS_CardinalityType
  <2>5. Rank(S, x) = Cardinality(L) /\ Rank(S, y) = Cardinality(M)
    BY DEF Rank
  <2> QED BY <2>3, <2>4, <2>5
<1> QED BY <1>1, <1>2, <1>2a, <1>3

(* Two members of one rank are one.                                         *)
LEMMA RanksDiffer ==
  ASSUME NEW S, IsFiniteSet(S), S \subseteq Nat, NEW x \in S, NEW y \in S, Rank(S, x) = Rank(S, y)
  PROVE  x = y
<1>1. x \in Nat /\ y \in Nat /\ Rank(S, x) \in Nat
  BY RanksRise
<1>2. x < y => Rank(S, x) < Rank(S, y)
  BY RanksRise
<1>3. y < x => Rank(S, y) < Rank(S, x)
  BY RanksRise
<1> QED BY <1>1, <1>2, <1>3

(* Every rank up to the size of the set is taken.                            *)
LEMMA RanksAreAll ==
  ASSUME NEW S, IsFiniteSet(S), S \subseteq Nat, NEW k \in 1..Cardinality(S)
  PROVE  \E x \in S : Rank(S, x) = k
<1> DEFINE n == Cardinality(S)
           f == [x \in S |-> Rank(S, x)]
<1>1. n \in Nat
  BY FS_CardinalityType
<1>2. f \in [S -> 1..n]
  BY RanksRise
<1>3. \A x, y \in S : f[x] = f[y] => x = y
  BY RanksDiffer
<1>4. IsFiniteSet(1..n) /\ Cardinality(1..n) = n
  BY <1>1, FS_Interval
<1> HIDE DEF f
<1>5. f \in Injection(S, 1..n)
  BY <1>2, <1>3, Fun_IsInj
<1>6. f \in Surjection(S, 1..n)
  <2>1. Cardinality(S) = Cardinality(1..n)
    BY <1>4
  <2> HIDE DEF n
  <2> QED BY <1>4, <1>5, <2>1, FS_Injection
<1>7. \E x \in S : f[x] = k
  <2> HIDE DEF n
  <2>1. k \in 1..n
    BY DEF n
  <2>2. \A t \in 1..n : \E x \in S : f[x] = t
    BY <1>6, Fun_SurjectionProperties
  <2> QED BY <2>1, <2>2
<1> QED BY <1>7 DEF f

(* Ranked lists the members, each once, in ascending order.                  *)
LEMMA RankedSorts ==
  ASSUME NEW S, IsFiniteSet(S), S \subseteq Nat
  PROVE  /\ Cardinality(S) \in Nat
         /\ Ranked(S) \in [1..Cardinality(S) -> S]
         /\ Ranked(S) \in Seq(S) /\ Len(Ranked(S)) = Cardinality(S)
         /\ \A x \in S : Rank(S, x) \in 1..Cardinality(S) /\ Ranked(S)[Rank(S, x)] = x
         /\ \A k \in 1..Cardinality(S) : Rank(S, Ranked(S)[k]) = k
         /\ \A i, j \in 1..Cardinality(S) : i < j => Ranked(S)[i] < Ranked(S)[j]
<1> DEFINE n == Cardinality(S)
<1>1. n \in Nat
  BY FS_CardinalityType
<1>2. ASSUME NEW k \in 1..n PROVE Ranked(S)[k] \in S /\ Rank(S, Ranked(S)[k]) = k
  <2>1. \E x \in S : Rank(S, x) = k
    BY RanksAreAll
  <2>2. Ranked(S)[k] = CHOOSE x \in S : Rank(S, x) = k
    BY DEF Ranked
  <2> QED BY <2>1, <2>2
<1>3. Ranked(S) \in [1..n -> S]
  BY <1>2 DEF Ranked
<1>4. ASSUME NEW x \in S, NEW y \in S, Rank(S, x) = Rank(S, y) PROVE x = y
  BY <1>4, RanksDiffer
<1>5. ASSUME NEW x \in S PROVE Rank(S, x) \in 1..n /\ Ranked(S)[Rank(S, x)] = x
  <2>1. Rank(S, x) \in 1..n
    BY RanksRise
  <2> HIDE DEF n
  <2> QED BY <1>2, <1>4, <2>1
<1>6. ASSUME NEW i \in 1..n, NEW j \in 1..n, i < j PROVE Ranked(S)[i] < Ranked(S)[j]
  <2>1. PICK x \in S : x = Ranked(S)[i] /\ Rank(S, x) = i
    BY <1>2
  <2>2. PICK y \in S : y = Ranked(S)[j] /\ Rank(S, y) = j
    BY <1>2
  <2>3. x \in Nat /\ y \in Nat /\ i \in Nat /\ j \in Nat
    BY <1>1
  <2>4a. y < x => Rank(S, y) < Rank(S, x)
    BY RanksRise
  <2>4. ~(y < x) /\ x # y
    BY <1>6, <2>1, <2>2, <2>3, <2>4a
  <2> QED BY <2>1, <2>2, <2>3, <2>4
<1>7. Ranked(S) \in Seq(S) /\ Len(Ranked(S)) = n
  <2> HIDE DEF n
  <2> QED BY <1>1, <1>3
<1> QED BY <1>1, <1>2, <1>3, <1>5, <1>6, <1>7

(* All the numbers from 1 to n rank as themselves.                           *)
LEMMA RankedInterval ==
  ASSUME NEW n \in Nat
  PROVE  /\ IsFiniteSet(1..n) /\ Cardinality(1..n) = n
         /\ \A k \in 1..n : Ranked(1..n)[k] = k
<1>1. IsFiniteSet(1..n) /\ Cardinality(1..n) = n
  BY FS_Interval
<1>2. ASSUME NEW k \in 1..n PROVE Rank(1..n, k) = k
  <2>1. {y \in 1..n : y <= k} = 1..k
    OBVIOUS
  <2>2. Cardinality(1..k) = k
    BY FS_Interval
  <2> QED BY <2>1, <2>2 DEF Rank
<1>3. \A x \in 1..n : Ranked(1..n)[Rank(1..n, x)] = x
  BY <1>1, RankedSorts
<1> QED BY <1>1, <1>2, <1>3

(* At picks the elements of s at the places, each place once and in order;   *)
(* all places give s again.                                                  *)
LEMMA AtPicks ==
  ASSUME NEW T, NEW s \in Seq(T), NEW P \in SUBSET (1..Len(s))
  PROVE  /\ IsFiniteSet(P) /\ P \subseteq Nat /\ Cardinality(P) \in Nat
         /\ At(s, P) \in Seq(T) /\ Len(At(s, P)) = Cardinality(P)
         /\ \A k \in 1..Cardinality(P) : Ranked(P)[k] \in P /\ At(s, P)[k] = s[Ranked(P)[k]]
         /\ \A i \in P : Rank(P, i) \in 1..Cardinality(P) /\ At(s, P)[Rank(P, i)] = s[i]
         /\ P = 1..Len(s) => At(s, P) = s
<1>1. Len(s) \in Nat
  OBVIOUS
<1>2. IsFiniteSet(P) /\ P \subseteq Nat
  <2>1. IsFiniteSet(1..Len(s))
    BY <1>1, FS_Interval
  <2>2. P \subseteq Nat
    BY <1>1
  <2>3. IsFiniteSet(P)
    BY <2>1, FS_Subset
  <2> QED BY <2>2, <2>3
<1>3. PICK n \in Nat : n = Cardinality(P)
  BY <1>2, FS_CardinalityType
<1>4. /\ \A k \in 1..n : Ranked(P)[k] \in P
      /\ \A i \in P : Rank(P, i) \in 1..n /\ Ranked(P)[Rank(P, i)] = i
  <2>1. Ranked(P) \in [1..n -> P]
    BY <1>2, <1>3, RankedSorts
  <2>2. \A i \in P : Rank(P, i) \in 1..n /\ Ranked(P)[Rank(P, i)] = i
    BY <1>2, <1>3, RankedSorts
  <2> QED BY <2>1, <2>2
<1>5. At(s, P) = [k \in 1..n |-> s[Ranked(P)[k]]]
  BY <1>3 DEF At
<1>6. \A k \in 1..n : At(s, P)[k] = s[Ranked(P)[k]]
  BY <1>5
<1>7. \A i \in P : At(s, P)[Rank(P, i)] = s[i]
  BY <1>4, <1>6
<1>8. At(s, P) \in [1..n -> T]
  <2>1. \A i \in P : s[i] \in T
    BY <1>1
  <2>2. \A k \in 1..n : s[Ranked(P)[k]] \in T
    BY <1>4, <2>1
  <2> QED BY <1>5, <2>2
<1>9. At(s, P) \in Seq(T) /\ Len(At(s, P)) = n
  BY <1>8
<1>10. ASSUME P = 1..Len(s) PROVE At(s, P) = s
  <2>1. n = Len(s) /\ \A k \in 1..n : Ranked(P)[k] = k
    BY <1>1, <1>3, <1>10, RankedInterval
  <2>2. \A k \in 1..n : At(s, P)[k] = s[k]
    BY <1>6, <2>1
  <2> QED BY <1>9, <2>1, <2>2, SeqEqual
<1> QED BY <1>2, <1>3, <1>6, <1>7, <1>9, <1>10, <1>4

(* A number above all others takes the place behind them.                    *)
LEMMA RankedGrows ==
  ASSUME NEW S, IsFiniteSet(S), S \subseteq Nat, NEW x \in Nat, \A y \in S : y < x
  PROVE  /\ Cardinality(S \cup {x}) = Cardinality(S) + 1
         /\ \A k \in 1..Cardinality(S) : Ranked(S \cup {x})[k] = Ranked(S)[k]
<1> DEFINE L == S \cup {x}
<1>1. IsFiniteSet(L) /\ L \subseteq Nat /\ Cardinality(L) = Cardinality(S) + 1
  <2>1. x \notin S
    OBVIOUS
  <2>2. IsFiniteSet(L) /\ Cardinality(L) = Cardinality(S) + 1
    BY <2>1, FS_AddElement
  <2> QED BY <2>2
<1>2. ASSUME NEW y \in S PROVE Rank(L, y) = Rank(S, y)
  <2>1. y \in Nat /\ ~(x <= y)
    OBVIOUS
  <2>2. {z \in L : z <= y} = {z \in S : z <= y}
    BY <2>1
  <2> QED BY <2>2 DEF Rank
<1> HIDE DEF L
<1>3. ASSUME NEW k \in 1..Cardinality(S) PROVE Ranked(L)[k] = Ranked(S)[k]
  <2>1. PICK y \in S : y = Ranked(S)[k] /\ Rank(S, y) = k
    BY RankedSorts
  <2>2. Rank(L, y) = k /\ y \in L
    BY <1>2, <2>1 DEF L
  <2>3. Ranked(L)[Rank(L, y)] = y
    BY <1>1, <2>2, RankedSorts
  <2> QED BY <2>1, <2>2, <2>3
<1> QED BY <1>1, <1>3 DEF L

-----------------------------------------------------------------------------
(* TriggerDiscovery on its own.                                              *)

DiscoverySpec == DiscoveryInit /\ [][DiscoveryNext]_tdvars

Classes == [handler : Files \cup Builtin, copy : Nat]
RunRecords == [at : {"idle", "prepared", "handled", "refused"}, handlers : Seq(Classes),
               input : Inputs \cup {0}, to : Classes \cup {NoHandler}]
Has(classes, f) == \E i \in DOMAIN classes : classes[i].handler = f

(* What is in sys.modules was executed to its end, so its class is known.    *)
ImportedIsKnown ==
  /\ registered \in Seq(Classes) /\ imported \subseteq Files /\ discoveries \in Nat
  /\ \A f \in imported : Has(registered, f)
  /\ \A f \in Files : results[f] => f \in imported

(* A run has each class once, and its input went where it fits.              *)
Dispatched(R) ==
  /\ R \in RunRecords /\ IsInjective(R.handlers)
  /\ R.at = "handled" =>
       /\ Protocol[R.to.handler] = IsA[R.input].protocol
       /\ Format[R.to.handler] \in IsA[R.input].formats
  /\ R.at = "refused" => \A i \in DOMAIN R.handlers : ~Fits(R.handlers[i], R.input)
DiscoveryInv == ImportedIsKnown /\ DOMAIN run = Runs /\ \A r \in Runs : Dispatched(run[r])

(* Registering handlers gives a class for each of them.                      *)
LEMMA RegistersEach ==
  ASSUME DiscoveryAssumption, NEW H \in SUBSET (Files \cup Builtin), NEW n \in Nat
  PROVE  /\ RegisterTrigger(H, n) \in Seq(Classes)
         /\ \A f \in H : Has(RegisterTrigger(H, n), f)
<1>1. IsFiniteSet(H) /\ H \subseteq Nat
  BY FS_Subset DEF DiscoveryAssumption
<1> DEFINE c == Cardinality(H)
           q == RegisterTrigger(H, n)
<1>2. c \in Nat /\ \A k \in 1..c : Ranked(H)[k] \in H
  <2>1. c \in Nat
    BY <1>1, RankedSorts
  <2>2. Ranked(H) \in [1..c -> H]
    BY <1>1, RankedSorts
  <2> HIDE DEF c
  <2> QED BY <2>1, <2>2
<1>3. q = [i \in 1..c |-> Class(Ranked(H)[i], n)]
  BY DEF RegisterTrigger
<1>4. \A k \in 1..c : Class(Ranked(H)[k], n) \in Classes /\ Class(Ranked(H)[k], n).handler = Ranked(H)[k]
  BY <1>2 DEF Class, Classes
<1>5. ASSUME NEW f \in H PROVE Has(q, f)
  <2>1. Rank(H, f) \in 1..c /\ Ranked(H)[Rank(H, f)] = f
    BY <1>1, RankedSorts
  <2> HIDE DEF c, q
  <2>2. q[Rank(H, f)].handler = f /\ Rank(H, f) \in DOMAIN q
    BY <1>3, <1>4, <2>1
  <2> QED BY <2>2 DEF Has
<1>6. q \in Seq(Classes)
  <2> HIDE DEF c, q
  <2>1. q \in [1..c -> Classes]
    BY <1>3, <1>4
  <2> QED BY <1>2, <2>1
<1> QED BY <1>5, <1>6

(* What was registered stays registered, behind and before other classes.    *)
LEMMA RegisteredStay ==
  ASSUME NEW a \in Seq(Classes), NEW b \in Seq(Classes), NEW f
  PROVE  /\ a \o b \in Seq(Classes)
         /\ Has(a, f) => Has(a \o b, f)
         /\ Has(b, f) => Has(a \o b, f)
<1>1. /\ a \o b \in Seq(Classes) /\ Len(a \o b) = Len(a) + Len(b)
      /\ \A i \in 1..Len(a) : (a \o b)[i] = a[i]
      /\ \A i \in 1..Len(b) : (a \o b)[Len(a) + i] = b[i]
  OBVIOUS
<1>2. DOMAIN a = 1..Len(a) /\ DOMAIN b = 1..Len(b) /\ DOMAIN (a \o b) = 1..(Len(a) + Len(b))
  BY <1>1
<1>3. Len(a) \in Nat /\ Len(b) \in Nat
  BY LenProperties
<1>4. ASSUME NEW i \in DOMAIN a, a[i].handler = f PROVE Has(a \o b, f)
  <2>1. i \in DOMAIN (a \o b) /\ (a \o b)[i] = a[i]
    BY <1>1, <1>2, <1>3
  <2> QED BY <1>4, <2>1 DEF Has
<1>5. ASSUME NEW i \in DOMAIN b, b[i].handler = f PROVE Has(a \o b, f)
  <2>1. Len(a) + i \in DOMAIN (a \o b) /\ (a \o b)[Len(a) + i] = b[i]
    BY <1>1, <1>2, <1>3
  <2> QED BY <1>5, <2>1 DEF Has
<1> QED BY <1>1, <1>4, <1>5 DEF Has

(* A discovery leaves in sys.modules what it executed to the end, and        *)
(* reports nothing else that it had not found there.                         *)
LEMMA DiscoverModulesKnows ==
  ASSUME DiscoveryAssumption, ImportedIsKnown, DiscoverModules
  PROVE  ImportedIsKnown'
<1>1. PICK found \in Found : \E outcome \in [Files -> Outcomes] :
       LET wanted == Wanted(found)
           executed == wanted \ imported
           failed == {f \in executed : outcome[f] # "ok"}
           fresh == {f \in executed : outcome[f] # "early"}
       IN /\ imported' = imported \cup (executed \ failed) \cup PoppedOnFailure(failed)
          /\ registered' = registered \o RegisterTrigger(fresh, discoveries + 1)
                                      \o RegisterTrigger(Builtin, 0)
          /\ results' = [f \in Files |-> f \in wanted \ failed]
  BY DEF DiscoverModules
<1>2. PICK outcome \in [Files -> Outcomes] :
       LET wanted == Wanted(found)
           executed == wanted \ imported
           failed == {f \in executed : outcome[f] # "ok"}
           fresh == {f \in executed : outcome[f] # "early"}
       IN /\ imported' = imported \cup (executed \ failed) \cup PoppedOnFailure(failed)
          /\ registered' = registered \o RegisterTrigger(fresh, discoveries + 1)
                                      \o RegisterTrigger(Builtin, 0)
          /\ results' = [f \in Files |-> f \in wanted \ failed]
  BY <1>1
<1> DEFINE wanted == Wanted(found)
           executed == wanted \ imported
           failed == {f \in executed : outcome[f] # "ok"}
           fresh == {f \in executed : outcome[f] # "early"}
           q == RegisterTrigger(fresh, discoveries + 1)
           z == RegisterTrigger(Builtin, 0)
<1>3. /\ imported' = imported \cup (executed \ failed)
      /\ registered' = registered \o q \o z
      /\ results' = [f \in Files |-> f \in wanted \ failed]
  BY <1>2 DEF PoppedOnFailure
<1>4. wanted \subseteq Files /\ fresh \subseteq Files \cup Builtin
  BY DEF Wanted
<1>5. registered \in Seq(Classes) /\ discoveries \in Nat /\ discoveries' \in Nat
  BY DEF ImportedIsKnown, DiscoverModules
<1>6. q \in Seq(Classes) /\ \A f \in fresh : Has(q, f)
  <2>1. PICK n \in Nat : n = discoveries + 1
    BY <1>5
  <2>2. PICK H \in SUBSET (Files \cup Builtin) : H = fresh
    BY <1>4
  <2>3. q = RegisterTrigger(H, n)
    BY <2>1, <2>2
  <2> HIDE DEF q, fresh
  <2> QED BY <2>2, <2>3, RegistersEach
<1>7. z \in Seq(Classes)
  BY RegistersEach
<1>8. executed \ failed \subseteq fresh
  BY DEF Outcomes
<1> HIDE DEF q, z, failed, fresh, executed, wanted
<1>9. registered \o q \in Seq(Classes) /\ (registered \o q) \o z \in Seq(Classes)
  BY <1>5, <1>6, <1>7, RegisteredStay
<1>10. \A f : Has(registered, f) \/ Has(q, f) => Has(registered \o q, f)
  BY <1>5, <1>6, RegisteredStay
<1>11. \A f : Has(registered \o q, f) => Has((registered \o q) \o z, f)
  BY <1>7, <1>9, RegisteredStay
<1>12. \A f \in imported' : Has(registered, f) \/ Has(q, f)
  BY <1>3, <1>6, <1>8 DEF ImportedIsKnown
<1>13. \A f \in imported' : Has(registered, f)'
  BY <1>3, <1>10, <1>11, <1>12 DEF Has
<1>14. imported' \subseteq Files
  BY <1>3, <1>4 DEF ImportedIsKnown, executed
<1>15. \A f \in Files : results'[f] => f \in imported'
  BY <1>3 DEF executed
<1>16. registered' \in Seq(Classes)
  BY <1>3, <1>9
<1> QED BY <1>5, <1>13, <1>14, <1>15, <1>16 DEF ImportedIsKnown, Has

(* The invariant stays when one run does what leaves it well dispatched.     *)
LEMMA RunSteps ==
  ASSUME DiscoveryInv, NEW r \in Runs, NEW R, Dispatched(R), run' = [run EXCEPT ![r] = R],
         UNCHANGED <<imported, registered, results, discoveries>>
  PROVE  DiscoveryInv'
<1>1. ImportedIsKnown'
  BY DEF DiscoveryInv, ImportedIsKnown, Has
<1>2. DOMAIN run' = Runs /\ \A s \in Runs : run'[s] = IF s = r THEN R ELSE run[s]
  BY DEF DiscoveryInv
<1>3. \A s \in Runs : Dispatched(run'[s])
  BY <1>2 DEF DiscoveryInv
<1> QED BY <1>1, <1>2, <1>3 DEF DiscoveryInv, Dispatched

(* A run is given one instance of each registered class.                     *)
LEMMA InitHandlersOnce ==
  ASSUME DiscoveryInv, NEW r \in Runs, InitHandlers(r)
  PROVE  DiscoveryInv'
<1>1. PICK h \in EachOnce : run' = [run EXCEPT ![r].at = "prepared", ![r].handlers = h]
  BY DEF InitHandlers
<1>2. PICK R : R = run[r]
  OBVIOUS
<1>3. R \in RunRecords
  BY <1>2 DEF DiscoveryInv, Dispatched
<1>4. PICK N : N = [R EXCEPT !.at = "prepared", !.handlers = h]
  OBVIOUS
<1>5. run' = [run EXCEPT ![r] = N]
  BY <1>1, <1>2, <1>4
<1>6. registered \in Seq(Classes)
  BY DEF DiscoveryInv, ImportedIsKnown
<1>7. ToSet(registered) \subseteq Classes /\ IsFiniteSet(ToSet(registered))
  <2>1. \A i \in DOMAIN registered : registered[i] \in Classes
    BY <1>6
  <2>2. DOMAIN registered = 1..Len(registered) /\ Len(registered) \in Nat
    BY <1>6
  <2>3. IsFiniteSet(DOMAIN registered)
    BY <2>2, FS_Interval
  <2>4. IsFiniteSet({registered[i] : i \in DOMAIN registered})
    <3> DEFINE f == [i \in DOMAIN registered |-> registered[i]]
               S == {registered[i] : i \in DOMAIN registered}
    <3>1. f \in [DOMAIN registered -> S] /\ \A t \in S : \E i \in DOMAIN registered : f[i] = t
      OBVIOUS
    <3> HIDE DEF f, S
    <3>2. f \in Surjection(DOMAIN registered, S)
      BY <3>1, Fun_IsSurj
    <3>3. IsFiniteSet(S)
      BY <2>3, <3>2, FS_Surjection
    <3> QED BY <3>3 DEF S
  <2> QED BY <2>1, <2>4 DEF ToSet
<1>8. h \in [1..Cardinality(ToSet(registered)) -> ToSet(registered)] /\ \A i, j \in DOMAIN h : i # j => h[i] # h[j]
  BY DEF EachOnce, SetToSeqs
<1>9. h \in Seq(Classes) /\ IsInjective(h)
  <2>1. PICK c \in Nat : c = Cardinality(ToSet(registered))
    BY <1>7, FS_CardinalityType
  <2>2. h \in [1..c -> Classes]
    BY <1>7, <1>8, <2>1
  <2>3. IsInjective(h)
    BY <1>8 DEF IsInjective
  <2> QED BY <2>1, <2>2, <2>3
<1>10. N \in RunRecords /\ N.at = "prepared" /\ N.handlers = h
  BY <1>3, <1>4, <1>9 DEF RunRecords
<1>11. Dispatched(N)
  BY <1>9, <1>10 DEF Dispatched
<1> QED BY <1>5, <1>11, RunSteps DEF InitHandlers

(* An input goes to a handler that fits, or is refused when there is none.   *)
LEMMA GetTriggerFits ==
  ASSUME DiscoveryInv, NEW r \in Runs, NEW x \in Inputs, GetTrigger(r, x)
  PROVE  DiscoveryInv'
<1>1. PICK R : R = run[r]
  OBVIOUS
<1>2. R \in RunRecords /\ IsInjective(R.handlers)
  BY <1>1 DEF DiscoveryInv, Dispatched
<1>3. UNCHANGED <<imported, registered, results, discoveries>>
  BY DEF GetTrigger
<1>4. ASSUME {i \in DOMAIN R.handlers : Fits(R.handlers[i], x)} = {},
             run' = [run EXCEPT ![r].at = "refused", ![r].input = x]
      PROVE  DiscoveryInv'
  <2>1. PICK N : N = [R EXCEPT !.at = "refused", !.input = x]
    OBVIOUS
  <2>2. run' = [run EXCEPT ![r] = N]
    BY <1>1, <1>4, <2>1
  <2>3. N \in RunRecords /\ N.at = "refused" /\ N.input = x /\ N.handlers = R.handlers
    BY <1>2, <2>1 DEF RunRecords
  <2>4. \A i \in DOMAIN N.handlers : ~Fits(N.handlers[i], N.input)
    BY <1>4, <2>3
  <2>5. Dispatched(N)
    BY <1>2, <2>3, <2>4 DEF Dispatched
  <2> QED BY <1>3, <2>2, <2>5, RunSteps
<1>5. ASSUME NEW i \in DOMAIN R.handlers, Fits(R.handlers[i], x),
             run' = [run EXCEPT ![r].at = "handled", ![r].input = x, ![r].to = R.handlers[i]]
      PROVE  DiscoveryInv'
  <2>1. PICK N : N = [R EXCEPT !.at = "handled", !.input = x, !.to = R.handlers[i]]
    OBVIOUS
  <2>2. run' = [run EXCEPT ![r] = N]
    BY <1>1, <1>5, <2>1
  <2>3. R.handlers[i] \in Classes
    BY <1>2, <1>5 DEF RunRecords
  <2>4. N \in RunRecords /\ N.at = "handled" /\ N.input = x /\ N.handlers = R.handlers /\ N.to = R.handlers[i]
    BY <1>2, <2>1, <2>3 DEF RunRecords
  <2>5. Dispatched(N)
    BY <1>2, <1>5, <2>4 DEF Dispatched, Fits, Takes
  <2> QED BY <1>3, <2>2, <2>5, RunSteps
<1> QED BY <1>1, <1>4, <1>5 DEF GetTrigger

(* What follows a run is a run that has nothing yet.                         *)
LEMMA RunEndsAnew ==
  ASSUME DiscoveryInv, NEW r \in Runs, RunEnds(r)
  PROVE  DiscoveryInv'
<1>1. PICK N : N = [at |-> "idle", handlers |-> <<>>, input |-> 0, to |-> NoHandler]
  OBVIOUS
<1>2. N \in RunRecords /\ N.at = "idle" /\ N.handlers = <<>>
  BY <1>1 DEF RunRecords
<1>3. Dispatched(N)
  BY <1>2 DEF Dispatched, IsInjective
<1>4. run' = [run EXCEPT ![r] = N]
  BY <1>1 DEF RunEnds
<1> QED BY <1>3, <1>4, RunSteps DEF RunEnds

(* At first nothing was imported, and no run has handlers.                  *)
LEMMA DiscoveryBegins == DiscoveryInit => DiscoveryInv
<1> SUFFICES ASSUME DiscoveryInit PROVE DiscoveryInv
  OBVIOUS
<1>1. PICK N : N = [at |-> "idle", handlers |-> <<>>, input |-> 0, to |-> NoHandler]
  OBVIOUS
<1>2. N \in RunRecords /\ N.at = "idle" /\ N.handlers = <<>>
  BY <1>1 DEF RunRecords
<1>3. Dispatched(N)
  BY <1>2 DEF Dispatched, IsInjective
<1>4. DOMAIN run = Runs /\ \A r \in Runs : run[r] = N
  BY <1>1 DEF DiscoveryInit
<1>5. ImportedIsKnown
  BY DEF DiscoveryInit, ImportedIsKnown
<1> QED BY <1>3, <1>4, <1>5 DEF DiscoveryInv

(* Every step of the discovery and of the runs keeps the invariant.          *)
LEMMA DiscoveryGoesOn ==
  ASSUME DiscoveryAssumption, DiscoveryInv, [DiscoveryNext]_tdvars PROVE DiscoveryInv'
<1>1. CASE DiscoverModules
  <2>1. ImportedIsKnown'
    BY <1>1, DiscoverModulesKnows DEF DiscoveryInv
  <2>2. UNCHANGED run
    BY <1>1 DEF DiscoverModules
  <2> QED BY <2>1, <2>2 DEF DiscoveryInv, Dispatched
<1>2. CASE UNCHANGED tdvars
  BY <1>2 DEF tdvars, DiscoveryInv, ImportedIsKnown, Has, Dispatched
<1>3. CASE \E r \in Runs : InitHandlers(r) \/ RunEnds(r) \/ \E x \in Inputs : GetTrigger(r, x)
  BY <1>3, InitHandlersOnce, GetTriggerFits, RunEndsAnew
<1> QED BY <1>1, <1>2, <1>3 DEF DiscoveryNext

(* However often discoveries are repeated, whatever files fail in whichever  *)
(* of them: a file that is reported has its class, and an input goes to a    *)
(* handler made for it or is refused for want of one                         *)
(* (package_discover.py:278, 347).                                           *)
THEOREM DispatchedToItsOwn == DiscoverySpec => []HandlersAnswer
<1>1. DiscoveryInit => DiscoveryInv
  BY DiscoveryBegins
<1>2. DiscoveryInv /\ [DiscoveryNext]_tdvars => DiscoveryInv'
  BY DiscoveryAssumption, DiscoveryGoesOn
<1>3. DiscoveryInv => HandlersAnswer
  <2> SUFFICES ASSUME DiscoveryInv PROVE HandlersAnswer
    OBVIOUS
  <2>1. \A f \in Files : results[f] => \E i \in DOMAIN registered : registered[i].handler = f
    BY DEF DiscoveryInv, ImportedIsKnown, Has
  <2>2. \A r \in Runs : Dispatched(run[r])
    BY DEF DiscoveryInv
  <2> QED BY <2>1, <2>2 DEF HandlersAnswer, Dispatched, Fits, Takes
<1> QED BY <1>1, <1>2, <1>3, PTL DEF DiscoverySpec

-----------------------------------------------------------------------------
(* CatalogSearch on its own.                                                 *)

SearchSpec == SearchInit /\ [][SearchNext]_qvars

(* What a search comes to: of the catalogue l the setups in M, in the order  *)
(* of their names or as they were added.                                     *)
Picked(l, M, byName) ==
  IF byName THEN Ranked({l[i] : i \in {j \in DOMAIN l : l[j] \in M}})
            ELSE At(l, {i \in DOMAIN l : l[i] \in M})
Eligible == {s \in Listings : listing[s] \in Filters}
Leads(s, t) == Len(s) <= Len(t) /\ \A i \in 1..Len(s) : t[i] = s[i]

Row == Listings \X {"ready"}
SearchTyped ==
  /\ listed \in Seq(Listings) /\ IsInjective(listed) /\ listing \in [Listings -> States]
  /\ query \in [cap : 1..MaxResults, byName : BOOLEAN, grpc : BOOLEAN, drift : BOOLEAN]
  /\ pager \in [at : {"paging", "done", "failed"}, offset : Nat, rows : Seq(Row), truncated : BOOLEAN]
  /\ relists \in Nat /\ sought \subseteq Listings

(* Nothing is shown of a filter the service would drop.                      *)
NothingShown == pager.rows = <<>> /\ ~pager.truncated /\ pager.at # "done"

(* Otherwise, while no row moves, what was shown is how the result begins    *)
(* (H is that result, p the pager), up to where the pager is, and there is   *)
(* more when it was said so; who is done has what there was.                 *)
ShownIsLead(H, p) ==
  /\ Len(p.rows) <= Len(H) /\ \A i \in 1..Len(p.rows) : p.rows[i][1] = H[i]
  /\ p.at # "done" => Len(p.rows) = p.offset
  /\ p.truncated => p.offset < Len(H)
  /\ p.at = "done" =>
       ~p.truncated /\ (query.cap < MaxResults => sought \subseteq {p.rows[i][1] : i \in DOMAIN p.rows})
AllThere ==
  /\ \A s \in ToSet(listed) : listing[s] # "versionless"
  /\ sought \subseteq ToSet(listed) \cap Eligible
SearchInv ==
  /\ SearchTyped
  /\ query.drift => NothingShown
  /\ calm /\ ~query.drift => AllThere /\ ShownIsLead(Picked(listed, Eligible, query.byName), pager)

(* A search finds each of them once, and nothing else.                       *)
LEMMA PickedAre ==
  ASSUME CatalogAssumption, NEW l \in Seq(Listings), IsInjective(l), NEW M, NEW b \in BOOLEAN
  PROVE  /\ Picked(l, M, b) \in Seq(Listings) /\ Len(Picked(l, M, b)) \in Nat
         /\ \A i, j \in 1..Len(Picked(l, M, b)) : Picked(l, M, b)[i] = Picked(l, M, b)[j] => i = j
         /\ \A i \in 1..Len(Picked(l, M, b)) : Picked(l, M, b)[i] \in M \cap Listings
         /\ \A s \in ToSet(l) \cap M : \E i \in 1..Len(Picked(l, M, b)) : Picked(l, M, b)[i] = s
<1>1. DOMAIN l = 1..Len(l) /\ Len(l) \in Nat /\ \A i \in DOMAIN l : l[i] \in Listings
  OBVIOUS
<1>2. PICK P : P = {i \in DOMAIN l : l[i] \in M}
  OBVIOUS
<1>3. P \subseteq 1..Len(l) /\ P \subseteq Nat
  BY <1>1, <1>2
<1>4. CASE b
  <2>1. PICK S : S = {l[i] : i \in P}
    OBVIOUS
  <2>2. S \subseteq M \cap Listings
    BY <1>1, <1>2, <2>1
  <2>3. IsFiniteSet(S) /\ S \subseteq Nat
    BY <2>2, FS_Subset DEF CatalogAssumption
  <2>4. Picked(l, M, b) = Ranked(S)
    BY <1>2, <1>4, <2>1 DEF Picked
  <2>5. PICK c \in Nat : c = Cardinality(S)
    BY <2>3, FS_CardinalityType
  <2>6. /\ Ranked(S) \in Seq(S) /\ Len(Ranked(S)) = c
        /\ \A x \in S : Rank(S, x) \in 1..c /\ Ranked(S)[Rank(S, x)] = x
        /\ \A k \in 1..c : Rank(S, Ranked(S)[k]) = k
    BY <2>3, <2>5, RankedSorts
  <2>7. Ranked(S) \in Seq(Listings)
    BY <2>2, <2>6, SeqMonotonic
  <2>8. \A i, j \in 1..c : Ranked(S)[i] = Ranked(S)[j] => i = j
    BY <2>6
  <2>9. \A i \in 1..c : Ranked(S)[i] \in M \cap Listings
    <3>1. \A i \in 1..c : Ranked(S)[i] \in S
      BY <2>5, <2>6
    <3> QED BY <2>2, <3>1
  <2>10. ToSet(l) \cap M \subseteq S
    BY <1>2, <2>1 DEF ToSet
  <2>11. \A s \in ToSet(l) \cap M : \E i \in 1..c : Ranked(S)[i] = s
    BY <2>6, <2>10
  <2> QED BY <2>4, <2>5, <2>6, <2>7, <2>8, <2>9, <2>11
<1>5. CASE ~b
  <2>1. Picked(l, M, b) = At(l, P)
    BY <1>2, <1>5 DEF Picked
  <2>2. PICK c \in Nat : c = Cardinality(P)
    BY <1>3, AtPicks
  <2>3. /\ IsFiniteSet(P) /\ At(l, P) \in Seq(Listings) /\ Len(At(l, P)) = c
        /\ \A k \in 1..c : Ranked(P)[k] \in P /\ At(l, P)[k] = l[Ranked(P)[k]]
        /\ \A i \in P : Rank(P, i) \in 1..c /\ At(l, P)[Rank(P, i)] = l[i]
    BY <1>3, <2>2, AtPicks
  <2>4. \A k \in 1..c : Rank(P, Ranked(P)[k]) = k
    BY <1>3, <2>2, <2>3, RankedSorts
  <2>5. ASSUME NEW i \in 1..c, NEW j \in 1..c, At(l, P)[i] = At(l, P)[j] PROVE i = j
    <3>1. Ranked(P)[i] \in DOMAIN l /\ Ranked(P)[j] \in DOMAIN l /\ l[Ranked(P)[i]] = l[Ranked(P)[j]]
      BY <1>2, <2>3, <2>5
    <3>2. Ranked(P)[i] = Ranked(P)[j]
      BY <3>1 DEF IsInjective
    <3> QED BY <2>4, <3>2
  <2>6. \A i \in 1..c : At(l, P)[i] \in M \cap Listings
    BY <1>1, <1>2, <2>3
  <2>7. \A s \in ToSet(l) \cap M : \E i \in P : l[i] = s
    BY <1>2 DEF ToSet
  <2>8. \A s \in ToSet(l) \cap M : \E i \in 1..c : At(l, P)[i] = s
    BY <2>3, <2>7
  <2> QED BY <2>1, <2>2, <2>3, <2>5, <2>6, <2>8
<1> QED BY <1>4, <1>5

(* What a search finds is in the catalogue.                                  *)
LEMMA PickedListed ==
  ASSUME CatalogAssumption, NEW l \in Seq(Listings), IsInjective(l), NEW M, NEW b \in BOOLEAN
  PROVE  \A i \in 1..Len(Picked(l, M, b)) : Picked(l, M, b)[i] \in ToSet(l)
<1> DEFINE K == M \cap ToSet(l)
<1>1. {i \in DOMAIN l : l[i] \in M} = {i \in DOMAIN l : l[i] \in K}
  BY DEF ToSet
<1>2. Picked(l, M, b) = Picked(l, K, b)
  BY <1>1 DEF Picked
<1>3. \A i \in 1..Len(Picked(l, K, b)) : Picked(l, K, b)[i] \in K
  <2> HIDE DEF K
  <2> QED BY PickedAre
<1> QED BY <1>2, <1>3

(* What is not listed makes no difference.                                   *)
LEMMA PickedSame ==
  ASSUME NEW l, NEW M, NEW N, NEW b, \A x \in ToSet(l) : x \in M <=> x \in N
  PROVE  Picked(l, M, b) = Picked(l, N, b)
<1>1. {i \in DOMAIN l : l[i] \in M} = {i \in DOMAIN l : l[i] \in N}
  BY DEF ToSet
<1> QED BY <1>1 DEF Picked

(* A setup that is added at the end, and does not come before others by its  *)
(* name, leaves the results before it where they were.                       *)
LEMMA PickedGrows ==
  ASSUME CatalogAssumption, NEW l \in Seq(Listings), NEW s \in Listings, s \notin ToSet(l), NEW M, NEW N,
         \A x \in ToSet(l) : x \in M <=> x \in N, NEW b \in BOOLEAN, b => s \notin N
  PROVE  Leads(Picked(l, M, b), Picked(Append(l, s), N, b))
<1> DEFINE m == Append(l, s)
           n == Len(l)
           P == {i \in DOMAIN l : l[i] \in M}
           Q == {i \in DOMAIN m : m[i] \in N}
<1>1. /\ DOMAIN l = 1..n /\ n \in Nat /\ m \in Seq(Listings) /\ DOMAIN m = 1..(n + 1) /\ Len(m) = n + 1
      /\ m[n + 1] = s /\ \A i \in 1..n : m[i] = l[i]
  OBVIOUS
<1>2. \A i \in 1..n : l[i] \in M <=> m[i] \in N
  BY <1>1 DEF ToSet
<1>3. P \subseteq 1..n
  BY <1>1
<1> HIDE DEF m, n
<1>4. Q = IF s \in N THEN P \cup {n + 1} ELSE P
  <2>1. \A i \in 1..n : i \in Q <=> i \in P
    BY <1>1, <1>2
  <2>2. n + 1 \in Q <=> s \in N
    BY <1>1
  <2>3. Q \subseteq 1..(n + 1)
    BY <1>1
  <2>4. 1..(n + 1) = (1..n) \cup {n + 1} /\ n + 1 \notin 1..n
    BY <1>1
  <2> HIDE DEF P, Q
  <2>5. P \subseteq Q /\ Q \subseteq P \cup {n + 1}
    BY <1>3, <2>1, <2>3, <2>4
  <2>6. n + 1 \in Q => Q = P \cup {n + 1}
    BY <2>5
  <2>7. n + 1 \notin Q => Q = P
    BY <2>5
  <2> QED BY <2>2, <2>6, <2>7
<1> HIDE DEF P, Q
<1>5. CASE b
  <2>1. Q = P
    BY <1>4, <1>5
  <2>2. {l[i] : i \in P} = {m[i] : i \in Q}
    BY <1>1, <1>3, <2>1
  <2>3. Picked(l, M, b) = Ranked({l[i] : i \in P}) /\ Picked(m, N, b) = Ranked({m[i] : i \in Q})
    BY <1>5 DEF Picked, P, Q
  <2>4. Picked(l, M, b) = Picked(m, N, b)
    BY <2>2, <2>3
  <2>5. PICK S : S = {l[i] : i \in P}
    OBVIOUS
  <2>6. S \subseteq Listings
    BY <1>1, <1>3, <2>5
  <2>7. IsFiniteSet(S) /\ S \subseteq Nat
    BY <2>6, FS_Subset DEF CatalogAssumption
  <2>8. Len(Ranked(S)) \in Nat
    BY <2>7, RankedSorts
  <2>9. PICK R : R = Ranked(S)
    OBVIOUS
  <2>10. Picked(l, M, b) = R /\ Picked(Append(l, s), N, b) = R /\ Len(R) \in Nat
    BY <2>3, <2>4, <2>5, <2>8, <2>9 DEF m
  <2> QED BY <2>10 DEF Leads
<1>6. CASE ~b
  <2>1. Picked(l, M, b) = At(l, P) /\ Picked(m, N, b) = At(m, Q)
    BY <1>6 DEF Picked, P, Q
  <2>2. P \subseteq 1..Len(l) /\ Q \subseteq 1..Len(m)
    BY <1>1, <1>3 DEF Q, n
  <2>3. PICK c \in Nat : c = Cardinality(P)
    BY <2>2, AtPicks
  <2>4. /\ IsFiniteSet(P) /\ P \subseteq Nat /\ Len(At(l, P)) = c
        /\ \A k \in 1..c : Ranked(P)[k] \in P /\ At(l, P)[k] = l[Ranked(P)[k]]
    BY <2>2, <2>3, AtPicks
  <2>5. PICK d \in Nat : d = Cardinality(Q)
    BY <1>1, <2>2, AtPicks
  <2>6. Len(At(m, Q)) = d /\ \A k \in 1..d : At(m, Q)[k] = m[Ranked(Q)[k]]
    BY <1>1, <2>2, <2>5, AtPicks
  <2>7. c <= d /\ \A k \in 1..c : Ranked(Q)[k] = Ranked(P)[k]
    <3>1. CASE s \in N
      <4>1. Q = P \cup {n + 1} /\ n + 1 \in Nat /\ \A y \in P : y < n + 1
        BY <1>1, <1>3, <1>4, <3>1
      <4>2. PICK x \in Nat : x = n + 1
        BY <4>1
      <4>3. Q = P \cup {x} /\ \A y \in P : y < x
        BY <4>1, <4>2
      <4>4. /\ Cardinality(P \cup {x}) = Cardinality(P) + 1
            /\ \A k \in 1..Cardinality(P) : Ranked(P \cup {x})[k] = Ranked(P)[k]
        BY <2>4, <4>3, RankedGrows
      <4>5. d = c + 1 /\ \A k \in 1..c : Ranked(Q)[k] = Ranked(P)[k]
        BY <2>3, <2>5, <4>3, <4>4
      <4> QED BY <4>5
    <3>2. CASE s \notin N
      BY <1>4, <2>3, <2>5, <3>2
    <3> QED BY <3>1, <3>2
  <2>8. ASSUME NEW k \in 1..c PROVE At(m, Q)[k] = At(l, P)[k]
    <3>1. k \in 1..d /\ Ranked(P)[k] \in P
      BY <2>4, <2>7
    <3>2. m[Ranked(P)[k]] = l[Ranked(P)[k]]
      BY <1>1, <1>3, <3>1
    <3> QED BY <2>4, <2>6, <2>7, <3>1, <3>2
  <2> QED BY <2>1, <2>4, <2>6, <2>7, <2>8 DEF Leads, m
<1> QED BY <1>5, <1>6

(* What search_setups filters and sorts is the same, where the filter counts.*)
LEMMA HitsArePicked ==
  ASSUME SearchTyped, ~query.drift
  PROVE  Hits = Picked(listed, Eligible, query.byName)
<1>1. \A i \in DOMAIN listed : listed[i] \in Listings
  BY DEF SearchTyped
<1>2. \A i \in DOMAIN listed : Matches(listed[i]) <=> listed[i] \in Eligible
  BY <1>1 DEF Matches, Eligible
<1>3. {i \in DOMAIN listed : Matches(listed[i])} = {i \in DOMAIN listed : listed[i] \in Eligible}
  BY <1>2
<1> QED BY <1>3 DEF Hits, Picked

(* A page is what lies behind its offset, up to its limit.                   *)
Cut(H, limit, offset) ==
  LET upto == IF offset + limit < Len(H) THEN offset + limit ELSE Len(H)
  IN [k \in 1..(upto - offset) |-> H[offset + k]]
Fitting(H, limit, offset) ==
  IF offset + limit < Len(H) THEN limit ELSE IF offset <= Len(H) THEN Len(H) - offset ELSE 0

\* A page holds the hits from its offset on, as many as fit.
LEMMA PageIsCut ==
  ASSUME NEW T, NEW H \in Seq(T), NEW limit \in Nat, NEW offset \in Nat
  PROVE  /\ Cut(H, limit, offset) \in Seq(T) /\ Len(Cut(H, limit, offset)) = Fitting(H, limit, offset)
         /\ \A k \in 1..Fitting(H, limit, offset) :
              offset + k \in 1..Len(H) /\ Cut(H, limit, offset)[k] = H[offset + k]
<1>1. Len(H) \in Nat /\ \A k \in 1..Len(H) : H[k] \in T
  OBVIOUS
<1>2. PICK n : n = Fitting(H, limit, offset)
  OBVIOUS
<1>3. (n \in Nat /\ offset + n <= Len(H)) \/ n = 0
  BY <1>1, <1>2 DEF Fitting
<1>4. n \in Nat
  BY <1>3
<1>5. PICK upto : upto = IF offset + limit < Len(H) THEN offset + limit ELSE Len(H)
  OBVIOUS
<1>6. 1..(upto - offset) = 1..n
  BY <1>1, <1>2, <1>5 DEF Fitting
<1>7. \A k \in 1..n : offset + k \in 1..Len(H)
  BY <1>1, <1>3, <1>4
<1>8. Cut(H, limit, offset) = [k \in 1..n |-> H[offset + k]]
  BY <1>5, <1>6 DEF Cut
<1>9. PICK page : page = Cut(H, limit, offset)
  OBVIOUS
<1>10. page \in [1..n -> T] /\ \A k \in 1..n : page[k] = H[offset + k]
  BY <1>1, <1>7, <1>8, <1>9
<1>11. page \in Seq(T) /\ Len(page) = n
  <2>1. page \in [1..n -> T]
    BY <1>10
  <2> QED BY <1>4, <2>1
<1> QED BY <1>2, <1>7, <1>9, <1>10, <1>11

(* The same of one place on the page.                                       *)
LEMMA CutAt ==
  ASSUME NEW T, NEW H \in Seq(T), NEW limit \in Nat, NEW offset \in Nat, NEW k \in 1..Fitting(H, limit, offset)
  PROVE  offset + k \in 1..Len(H) /\ Cut(H, limit, offset)[k] = H[offset + k]
BY PageIsCut

(* The pager stands as before when results are only added behind.            *)
LEMMA LeadStays ==
  ASSUME NEW H, NEW J, Len(H) \in Nat, Len(J) \in Nat, Leads(H, J), SearchTyped, ShownIsLead(H, pager)
  PROVE  ShownIsLead(J, pager)
<1>1. Len(pager.rows) \in Nat /\ pager.offset \in Nat
  BY DEF SearchTyped
<1>2. Len(pager.rows) <= Len(J) /\ \A i \in 1..Len(pager.rows) : pager.rows[i][1] = J[i]
  <2>1. \A i \in 1..Len(pager.rows) : i \in 1..Len(H)
    BY <1>1 DEF ShownIsLead
  <2> QED BY <1>1, <2>1 DEF Leads, ShownIsLead
<1>3. pager.truncated => pager.offset < Len(J)
  BY <1>1 DEF Leads, ShownIsLead
<1> QED BY <1>2, <1>3 DEF ShownIsLead

(* A relist leaves the rows in their place, or it is known that it did not.  *)
LEMMA AddSetupKeeps ==
  ASSUME CatalogAssumption, SearchInv, NEW s \in Listings, NEW state \in States, AddSetup(s, state)
  PROVE  SearchInv'
<1>1. SearchTyped
  BY DEF SearchInv
<1>2. /\ listed' = IF s \in ToSet(listed) THEN listed ELSE Append(listed, s)
      /\ listing' = [listing EXCEPT ![s] = state]
      /\ UNCHANGED <<query, pager, sought>> /\ relists' = relists + 1
  BY DEF AddSetup, Relists
<1>3. listed' \in Seq(Listings) /\ IsInjective(listed')
  <2>1. CASE s \in ToSet(listed)
    BY <1>1, <1>2, <2>1 DEF SearchTyped
  <2>2. CASE s \notin ToSet(listed)
    <3>1. PICK l : l = listed
      OBVIOUS
    <3>2. l \in Seq(Listings) /\ listed' = Append(l, s) /\ \A i \in DOMAIN l : l[i] # s
      BY <1>1, <1>2, <2>2, <3>1 DEF SearchTyped, ToSet
    <3>3. \A i, j \in DOMAIN l : l[i] = l[j] => i = j
      BY <1>1, <3>1 DEF SearchTyped, IsInjective
    <3>4. /\ Append(l, s) \in Seq(Listings) /\ DOMAIN Append(l, s) = 1..(Len(l) + 1) /\ Len(l) \in Nat
          /\ Append(l, s)[Len(l) + 1] = s /\ DOMAIN l = 1..Len(l)
          /\ \A i \in DOMAIN l : Append(l, s)[i] = l[i]
      BY <3>2
    <3>5. \A i \in 1..(Len(l) + 1) : i \in DOMAIN l \/ i = Len(l) + 1
      BY <3>4
    <3>6. IsInjective(Append(l, s))
      BY <3>2, <3>3, <3>4, <3>5 DEF IsInjective
    <3> QED BY <3>2, <3>4, <3>6
  <2> QED BY <2>1, <2>2
<1>4. SearchTyped'
  BY <1>1, <1>2, <1>3 DEF SearchTyped
<1>5. (query.drift => NothingShown)'
  BY <1>2 DEF SearchInv, NothingShown
<1>6. ASSUME calm', ~query.drift PROVE AllThere' /\ ShownIsLead(Picked(listed, Eligible, query.byName), pager)'
  <2>1. /\ calm /\ state # "versionless"
        /\ s \in ToSet(listed) => (state \in Filters) = (listing[s] \in Filters)
        /\ s \notin ToSet(listed) => ~query.byName \/ state \notin Filters
    BY <1>6 DEF AddSetup
  <2>2. AllThere /\ ShownIsLead(Picked(listed, Eligible, query.byName), pager)
    BY <1>6, <2>1 DEF SearchInv
  <2>3. \A x \in Listings : listing'[x] = IF x = s THEN state ELSE listing[x]
    BY <1>1, <1>2 DEF SearchTyped
  <2>4. ToSet(listed) \subseteq Listings
    BY <1>1 DEF SearchTyped, ToSet
  <2>5. \A x \in ToSet(listed) : x \in Eligible <=> x \in Eligible'
    BY <2>1, <2>3, <2>4 DEF Eligible
  <2>6. ToSet(listed') = ToSet(listed) \cup {s}
    <3>1. CASE s \in ToSet(listed)
      BY <1>2, <3>1
    <3>2. CASE s \notin ToSet(listed)
      <4>1. PICK l : l = listed
        OBVIOUS
      <4>2. l \in Seq(Listings)
        BY <1>1, <4>1 DEF SearchTyped
      <4>3. /\ DOMAIN Append(l, s) = (DOMAIN l) \cup {Len(l) + 1} /\ Append(l, s)[Len(l) + 1] = s
            /\ \A i \in DOMAIN l : Append(l, s)[i] = l[i]
        BY <4>2
      <4>4. ToSet(Append(l, s)) = ToSet(l) \cup {s}
        BY <4>3 DEF ToSet
      <4> QED BY <1>2, <3>2, <4>1, <4>4
    <3> QED BY <3>1, <3>2
  <2>7. AllThere'
    <3>1. \A x \in ToSet(listed') : listing'[x] # "versionless"
      BY <2>1, <2>2, <2>3, <2>4, <2>6 DEF AllThere
    <3>2. sought \subseteq ToSet(listed') \cap Eligible'
      BY <2>2, <2>5, <2>6 DEF AllThere
    <3> QED BY <1>2, <3>1, <3>2 DEF AllThere
  <2>8. PICK H : H = Picked(listed, Eligible, query.byName)
    OBVIOUS
  <2>9. PICK J : J = Picked(listed', Eligible', query.byName)
    OBVIOUS
  <2>10. query.byName \in BOOLEAN /\ query' = query /\ listed \in Seq(Listings) /\ IsInjective(listed)
    BY <1>1, <1>2 DEF SearchTyped
  <2>11. Len(H) \in Nat /\ Len(J) \in Nat
    BY <1>3, <2>8, <2>9, <2>10, PickedAre
  <2>12. Leads(H, J)
    <3>1. CASE s \in ToSet(listed)
      <4>1. H = J
        BY <1>2, <2>5, <2>8, <2>9, <3>1, PickedSame
      <4> QED BY <2>11, <4>1 DEF Leads
    <3>2. CASE s \notin ToSet(listed)
      <4>1. query.byName => s \notin Eligible'
        BY <2>1, <2>3, <3>2 DEF Eligible
      <4>2. listed' = Append(listed, s)
        BY <1>2, <3>2
      <4> QED BY <2>5, <2>8, <2>9, <2>10, <3>2, <4>1, <4>2, PickedGrows
    <3> QED BY <3>1, <3>2
  <2>13. ShownIsLead(J, pager)
    BY <1>1, <2>2, <2>8, <2>11, <2>12, LeadStays
  <2>14. ShownIsLead(J, pager)'
    BY <1>2, <2>9, <2>13 DEF ShownIsLead
  <2> QED BY <2>7, <2>9, <2>10, <2>14
<1> QED BY <1>2, <1>4, <1>5, <1>6 DEF SearchInv

(* A request that fails shows nothing.                                       *)
LEMMA SearchFailsKeeps ==
  ASSUME SearchInv, SearchFails PROVE SearchInv'
<1>1. /\ pager.at = "paging" /\ pager' = [pager EXCEPT !.at = "failed"]
      /\ UNCHANGED <<listed, listing, query, sought, calm>>
  BY DEF SearchFails
<1>2. SearchTyped /\ relists' \in Nat
  BY DEF SearchInv, SearchTyped, SearchFails, Relists
<1>3. /\ pager'.rows = pager.rows /\ pager'.truncated = pager.truncated /\ pager'.offset = pager.offset
      /\ pager'.at = "failed"
      /\ pager' \in [at : {"paging", "done", "failed"}, offset : Nat, rows : Seq(Row), truncated : BOOLEAN]
  BY <1>1, <1>2 DEF SearchTyped
<1>4. SearchTyped'
  BY <1>1, <1>2, <1>3 DEF SearchTyped
<1>5. (query.drift => NothingShown)'
  BY <1>1, <1>3 DEF SearchInv, NothingShown
<1>6. ASSUME calm, ~query.drift PROVE AllThere' /\ ShownIsLead(Picked(listed, Eligible, query.byName), pager)'
  <2>1. PICK H : H = Picked(listed, Eligible, query.byName)
    OBVIOUS
  <2>2. H = Picked(listed, Eligible, query.byName)'
    BY <1>1, <2>1 DEF Eligible
  <2>3. ShownIsLead(H, pager) /\ AllThere
    BY <1>6, <2>1 DEF SearchInv
  <2>4. ShownIsLead(H, pager)'
    BY <1>1, <1>3, <2>3 DEF ShownIsLead
  <2>5. AllThere'
    BY <1>1, <2>3 DEF AllThere, Eligible
  <2>6. ShownIsLead(Picked(listed, Eligible, query.byName), pager)'
    BY <2>2, <2>4 DEF ShownIsLead
  <2> QED BY <2>5, <2>6
<1> QED BY <1>1, <1>4, <1>5, <1>6 DEF SearchInv

(* A page whose setups all have a version is shown as it is, and what is not *)
(* shown of it is only what is beyond the cap.                               *)
LEMMA SearchActionKeeps ==
  ASSUME CatalogAssumption, SearchInv, SearchAction PROVE SearchInv'
<1>1. SearchTyped /\ ~query.drift /\ pager.at = "paging"
  BY DEF SearchInv, SearchAction, EncodeEnum
<1>2. PICK H : H = Picked(listed, Eligible, query.byName)
  OBVIOUS
<1>3. Hits = H
  BY <1>1, <1>2, HitsArePicked
<1>4. /\ H \in Seq(Listings) /\ Len(H) \in Nat
      /\ \A i \in 1..Len(H) : H[i] \in Eligible \cap Listings
      /\ \A s \in ToSet(listed) \cap Eligible : \E i \in 1..Len(H) : H[i] = s
  <2>1. query.byName \in BOOLEAN /\ listed \in Seq(Listings) /\ IsInjective(listed)
    BY <1>1 DEF SearchTyped
  <2> QED BY <1>2, <2>1, PickedAre
<1>5. PICK cap : cap = query.cap
  OBVIOUS
<1>6. PICK probe : probe = Probe
  OBVIOUS
<1>7. PICK offset : offset = pager.offset
  OBVIOUS
<1>8. cap \in 1..MaxResults /\ cap \in Nat /\ cap >= 1 /\ offset \in Nat /\ MaxResults \in Nat
  BY <1>1, <1>5, <1>7 DEF SearchTyped, CatalogAssumption
<1>9. probe \in Nat /\ probe = IF cap + 1 < MaxResults THEN cap + 1 ELSE MaxResults
  BY <1>5, <1>6, <1>8 DEF Probe
<1>10. PICK page : page = SearchSetups(probe, offset)
  OBVIOUS
<1>11. /\ page \in Seq(Listings)
       /\ Len(page) = Fitting(H, probe, offset)
       /\ \A k \in 1..Len(page) : offset + k \in 1..Len(H) /\ page[k] = H[offset + k]
  <2>1. page = Cut(H, probe, offset)
    BY <1>3, <1>10 DEF SearchSetups, Cut
  <2>2. H \in Seq(Listings) /\ probe \in Nat /\ offset \in Nat
    BY <1>4, <1>8, <1>9
  <2>3. /\ Cut(H, probe, offset) \in Seq(Listings)
        /\ Len(Cut(H, probe, offset)) = Fitting(H, probe, offset)
        /\ \A k \in 1..Fitting(H, probe, offset) :
             offset + k \in 1..Len(H) /\ Cut(H, probe, offset)[k] = H[offset + k]
    <3>1. Cut(H, probe, offset) \in Seq(Listings)
      BY <2>2, PageIsCut
    <3>2. Len(Cut(H, probe, offset)) = Fitting(H, probe, offset)
      BY <2>2, PageIsCut
    <3>3. ASSUME NEW k \in 1..Fitting(H, probe, offset)
          PROVE  offset + k \in 1..Len(H) /\ Cut(H, probe, offset)[k] = H[offset + k]
      BY <2>2, <3>3, CutAt
    <3> QED BY <3>1, <3>2, <3>3
  <2> QED BY <2>1, <2>3
<1>12. PICK P : P = {k \in DOMAIN page : Usable(page[k])}
  OBVIOUS
<1>13. PICK usable : usable = At(page, P)
  OBVIOUS
<1>14. P \subseteq 1..Len(page) /\ Len(page) \in Nat
  BY <1>11, <1>12
<1>15. PICK n \in Nat : n = Cardinality(P)
  BY <1>11, <1>14, AtPicks
<1>16. /\ usable \in Seq(Listings) /\ Len(usable) = n
       /\ \A k \in 1..n : Ranked(P)[k] \in P /\ usable[k] = page[Ranked(P)[k]]
       /\ P = 1..Len(page) => usable = page
  BY <1>11, <1>13, <1>14, <1>15, AtPicks
<1>17. \A k \in 1..n : usable[k] \in Listings /\ listing[usable[k]] = "ready"
  <2>1. \A k \in P : page[k] \in Eligible \cap Listings /\ listing[page[k]] # "versionless"
    BY <1>4, <1>11, <1>12, <1>14 DEF Usable
  <2>2. \A k \in P : page[k] \in Listings /\ listing[page[k]] = "ready"
    BY <2>1 DEF Eligible, Filters
  <2> QED BY <1>16, <2>2
<1>18. PICK rows : rows = IF Len(usable) > cap THEN SubSeq(usable, 1, cap) ELSE usable
  OBVIOUS
<1>19. PICK m \in Nat : m = IF n > cap THEN cap ELSE n
  BY <1>8
<1>20. rows \in Seq(Listings) /\ Len(rows) = m /\ \A k \in 1..m : k \in 1..n /\ rows[k] = usable[k]
  <2>1. CASE n > cap
    <3>1. rows = SubSeq(usable, 1, cap) /\ m = cap
      BY <1>16, <1>18, <1>19, <2>1
    <3>2. 1 \in 1..(Len(usable) + 1) /\ cap \in 0..Len(usable)
      BY <1>8, <1>16, <2>1
    <3>3. rows \in Seq(Listings) /\ Len(rows) = cap /\ \A k \in 1..cap : rows[k] = usable[k]
      BY <1>8, <1>16, <3>1, <3>2
    <3>4. \A k \in 1..m : k \in 1..n
      BY <1>8, <2>1, <3>1
    <3> QED BY <3>1, <3>3, <3>4
  <2>2. CASE ~(n > cap)
    BY <1>16, <1>18, <1>19, <2>2
  <2> QED BY <2>1, <2>2
<1>21. PICK told : told = [i \in DOMAIN rows |-> <<rows[i], listing[rows[i]]>>]
  OBVIOUS
<1>22. /\ told \in Seq(Row) /\ Len(told) = m
       /\ \A k \in 1..m : told[k][1] = usable[k]
  <2>1. DOMAIN rows = 1..m
    BY <1>20
  <2>2. \A k \in 1..m : <<rows[k], listing[rows[k]]>> \in Row
    BY <1>17, <1>20 DEF Row
  <2>3. told \in [1..m -> Row]
    BY <1>21, <2>1, <2>2
  <2>4. \A k \in 1..m : told[k][1] = usable[k]
    BY <1>20, <1>21, <2>1
  <2> QED BY <2>3, <2>4
<1>23. PICK N : N = pager'
  OBVIOUS
<1>24. /\ N = [at |-> IF n > cap THEN "paging" ELSE "done", offset |-> offset + cap,
               rows |-> pager.rows \o told, truncated |-> n > cap]
       /\ UNCHANGED <<listed, listing, query, sought, calm, relists>>
  <2>1. page = SearchSetups(Probe, pager.offset)
    BY <1>6, <1>7, <1>10
  <2>2. /\ pager' = [at |-> IF Len(usable) > cap THEN "paging" ELSE "done", offset |-> offset + cap,
                     rows |-> pager.rows \o told, truncated |-> Len(usable) > cap]
        /\ UNCHANGED <<listed, listing, query, sought, calm, relists>>
    BY <1>5, <1>7, <1>12, <1>13, <1>18, <1>21, <2>1 DEF SearchAction
  <2> QED BY <1>16, <1>23, <2>2
<1>25. pager.rows \in Seq(Row) /\ pager.rows \o told \in Seq(Row)
  BY <1>1, <1>22 DEF SearchTyped
<1>26. N \in [at : {"paging", "done", "failed"}, offset : Nat, rows : Seq(Row), truncated : BOOLEAN]
  BY <1>8, <1>24, <1>25
<1>27. SearchTyped'
  BY <1>1, <1>23, <1>24, <1>26 DEF SearchTyped
<1>28. ASSUME calm PROVE AllThere' /\ ShownIsLead(Picked(listed, Eligible, query.byName), pager)'
  <2>1. AllThere /\ ShownIsLead(H, pager)
    BY <1>1, <1>2, <1>28 DEF SearchInv
  <2>2. AllThere'
    BY <1>24, <2>1 DEF AllThere, Eligible
  <2>3. usable = page /\ n = Len(page)
    <3>1. \A s \in Eligible \cap Listings : s \in ToSet(listed) => Usable(s)
      BY <2>1 DEF AllThere, Usable
    <3>2. \A i \in 1..Len(H) : H[i] \in ToSet(listed)
      <4>1. query.byName \in BOOLEAN /\ listed \in Seq(Listings) /\ IsInjective(listed)
        BY <1>1 DEF SearchTyped
      <4> QED BY <1>2, <4>1, PickedListed
    <3>3. \A k \in 1..Len(page) : Usable(page[k])
      BY <1>4, <1>11, <3>1, <3>2
    <3>4. P = 1..Len(page)
      BY <1>11, <1>12, <3>3
    <3>5. usable = page
      BY <1>16, <3>4
    <3>6. n = Len(usable)
      BY <1>16
    <3> QED BY <3>5, <3>6
  <2>4. PICK c \in Nat : c = Len(pager.rows)
    BY <1>25
  <2>5. offset = c /\ c <= Len(H) /\ \A i \in 1..c : pager.rows[i][1] = H[i]
    BY <1>1, <1>7, <2>1, <2>4 DEF ShownIsLead
  <2>6. /\ Len(N.rows) = c + m /\ \A i \in 1..c : N.rows[i] = pager.rows[i]
        /\ \A k \in 1..m : N.rows[c + k] = told[k]
    <3>1. PICK R : R = pager.rows
      OBVIOUS
    <3>2. R \in Seq(Row) /\ told \in Seq(Row) /\ Len(R) = c /\ Len(told) = m
      BY <1>22, <1>25, <2>4, <3>1
    <3>3. N.rows = R \o told
      BY <1>24, <3>1
    <3>4. /\ Len(R \o told) = Len(R) + Len(told) /\ \A i \in 1..Len(R) : (R \o told)[i] = R[i]
          /\ \A k \in 1..Len(told) : (R \o told)[Len(R) + k] = told[k]
      BY <3>2
    <3>5. /\ Len(R \o told) = c + m /\ \A i \in 1..c : (R \o told)[i] = R[i]
          /\ \A k \in 1..m : (R \o told)[c + k] = told[k]
      BY <3>2, <3>4
    <3> QED BY <3>1, <3>3, <3>5
  <2>7. N.rows \in Seq(Row)
    <3>1. N.rows = pager.rows \o told
      BY <1>24
    <3> QED BY <1>25, <3>1
  <2>8. ASSUME NEW k \in 1..m PROVE c + k \in 1..Len(H) /\ N.rows[c + k][1] = H[c + k]
    <3>1. N.rows[c + k] = told[k] /\ told[k][1] = usable[k]
      BY <1>22, <2>6
    <3>2. k \in 1..Len(page) /\ usable[k] = page[k]
      BY <1>20, <2>3
    <3>3. offset + k \in 1..Len(H) /\ page[k] = H[offset + k]
      BY <1>11, <3>2
    <3> QED BY <2>5, <3>1, <3>2, <3>3
  <2>9. c + m <= Len(H)
    <3>1. CASE m = 0
      BY <2>5, <3>1
    <3>2. CASE m # 0
      <4>1. m \in 1..m
        BY <3>2
      <4> QED BY <1>4, <2>8, <4>1
    <3> QED BY <3>1, <3>2
  <2>10. \A i \in 1..(c + m) : N.rows[i][1] = H[i]
    <3>1. TAKE i \in 1..(c + m)
    <3>2. CASE i \in 1..c
      BY <2>5, <2>6, <3>2
    <3>3. CASE i \notin 1..c
      <4>1. i - c \in 1..m /\ c + (i - c) = i
        BY <3>3
      <4> QED BY <2>8, <4>1
    <3> QED BY <3>2, <3>3
  <2>11. ShownIsLead(H, N) => ShownIsLead(Picked(listed, Eligible, query.byName), pager)'
    <3>1. H = Picked(listed, Eligible, query.byName)'
      BY <1>2, <1>24 DEF Eligible
    <3>2. ShownIsLead(H, N) => ShownIsLead(H, pager)'
      BY <1>23, <1>24 DEF ShownIsLead
    <3>3. ShownIsLead(H, pager)' => ShownIsLead(Picked(listed, Eligible, query.byName), pager)'
      BY <3>1 DEF ShownIsLead
    <3> QED BY <3>2, <3>3
  <2>12. CASE n > cap
    <3>1. m = cap /\ N.at = "paging" /\ N.offset = c + cap
      BY <1>19, <1>24, <2>5, <2>12
    <3>2. n \in 1..Len(page)
      BY <1>8, <2>3, <2>12
    <3>3. c + n \in 1..Len(H)
      BY <1>11, <2>5, <3>2
    <3>4. N.offset < Len(H)
      BY <1>4, <1>8, <2>12, <3>1, <3>3
    <3>5. ShownIsLead(H, N)
      BY <2>6, <2>9, <2>10, <3>1, <3>4 DEF ShownIsLead
    <3> QED BY <2>2, <2>11, <3>5
  <2>13. CASE ~(n > cap)
    <3>1. m = n /\ N.at = "done" /\ ~N.truncated
      BY <1>19, <1>24, <2>13
    <3>2. ASSUME cap < MaxResults PROVE sought \subseteq {N.rows[i][1] : i \in DOMAIN N.rows}
      <4>1. probe = cap + 1
        BY <1>8, <1>9, <3>2
      <4>2. c + n = Len(H)
        BY <1>4, <1>8, <1>11, <2>3, <2>5, <2>13, <4>1 DEF Fitting
      <4>3. \A i \in 1..Len(H) : i \in DOMAIN N.rows /\ N.rows[i][1] = H[i]
        BY <2>6, <2>7, <2>10, <3>1, <4>2
      <4>4. \A s \in sought : \E i \in 1..Len(H) : H[i] = s
        BY <1>4, <2>1 DEF AllThere
      <4> QED BY <4>3, <4>4
    <3>3. ShownIsLead(H, N)
      BY <1>5, <2>6, <2>9, <2>10, <3>1, <3>2 DEF ShownIsLead
    <3> QED BY <2>2, <2>11, <3>3
  <2> QED BY <2>12, <2>13
<1> QED BY <1>1, <1>24, <1>27, <1>28 DEF SearchInv

(* At first no page was asked for.                                         *)
LEMMA SearchBegins == CatalogAssumption /\ SearchInit => SearchInv
<1> SUFFICES ASSUME CatalogAssumption, SearchInit PROVE SearchInv
  OBVIOUS
<1>1. PICK S \in SUBSET Listings : listed \in SetToSeqs(S)
  BY DEF SearchInit
<1>2. IsFiniteSet(S)
  BY FS_Subset DEF CatalogAssumption
<1>3. PICK c \in Nat : c = Cardinality(S)
  BY <1>2, FS_CardinalityType
<1>4. listed \in [1..c -> S] /\ \A i, j \in 1..c : i # j => listed[i] # listed[j]
  BY <1>1, <1>3 DEF SetToSeqs
<1>5. listed \in Seq(Listings) /\ DOMAIN listed = 1..c
  <2>1. listed \in [1..c -> Listings]
    BY <1>4
  <2> QED BY <2>1
<1>6. IsInjective(listed)
  BY <1>4, <1>5 DEF IsInjective
<1>7. pager = [at |-> "paging", offset |-> 0, rows |-> <<>>, truncated |-> FALSE]
  BY DEF SearchInit
<1>8. ToSet(listed) \subseteq Listings
  BY <1>5 DEF ToSet
<1>9. sought \subseteq ToSet(listed) \cap Eligible /\ sought \subseteq Listings
  BY <1>8 DEF SearchInit, Eligible, Filters
<1>10. SearchTyped
  BY <1>5, <1>6, <1>7, <1>9 DEF SearchInit, SearchTyped
<1>11. query.drift => NothingShown
  BY <1>7 DEF NothingShown
<1>12. PICK H : H = Picked(listed, Eligible, query.byName)
  OBVIOUS
<1>13. Len(H) \in Nat
  <2>1. query.byName \in BOOLEAN
    BY <1>10 DEF SearchTyped
  <2> QED BY <1>5, <1>6, <1>12, <2>1, PickedAre
<1>14. ShownIsLead(H, pager)
  BY <1>7, <1>13 DEF ShownIsLead
<1>15. calm => AllThere
  BY <1>9 DEF SearchInit, AllThere
<1> QED BY <1>10, <1>11, <1>12, <1>14, <1>15 DEF SearchInv

(* The invariant is what the property asks of the pages, and more.           *)
LEMMA SearchStands == CatalogAssumption /\ SearchInv => PagesAreTrue
<1> SUFFICES ASSUME CatalogAssumption, SearchInv PROVE PagesAreTrue
  OBVIOUS
<1>1. SearchTyped
  BY DEF SearchInv
<1>2. pager.rows \in Seq(Row) /\ DOMAIN pager.rows = 1..Len(pager.rows) /\ Len(pager.rows) \in Nat
  BY <1>1 DEF SearchTyped
<1>3. \A i \in DOMAIN pager.rows : pager.rows[i][2] = "ready"
  <2>1. \A i \in DOMAIN pager.rows : pager.rows[i] \in Row
    BY <1>2
  <2> QED BY <2>1 DEF Row
<1>4. ASSUME query.drift, calm
      PROVE  /\ \A i, j \in DOMAIN pager.rows : pager.rows[i][1] = pager.rows[j][1] => i = j
             /\ ~pager.truncated /\ pager.at # "done"
  BY <1>4 DEF SearchInv, NothingShown
<1>5. ASSUME ~query.drift, calm
      PROVE  /\ \A i, j \in DOMAIN pager.rows : pager.rows[i][1] = pager.rows[j][1] => i = j
             /\ pager.truncated => SearchSetups(1, pager.offset) # <<>>
             /\ pager.at = "done" /\ query.cap < MaxResults
                => sought \subseteq {pager.rows[i][1] : i \in DOMAIN pager.rows}
  <2>1. PICK H : H = Picked(listed, Eligible, query.byName)
    OBVIOUS
  <2>2. Hits = H
    BY <1>1, <1>5, <2>1, HitsArePicked
  <2>3. query.byName \in BOOLEAN /\ listed \in Seq(Listings) /\ IsInjective(listed)
    BY <1>1 DEF SearchTyped
  <2>4. H \in Seq(Listings) /\ Len(H) \in Nat /\ \A i, j \in 1..Len(H) : H[i] = H[j] => i = j
    BY <2>1, <2>3, PickedAre
  <2>5. ShownIsLead(H, pager)
    BY <1>5, <2>1 DEF SearchInv
  <2>6. \A i \in DOMAIN pager.rows : i \in 1..Len(H) /\ pager.rows[i][1] = H[i]
    BY <1>2, <2>4, <2>5 DEF ShownIsLead
  <2>7. ASSUME pager.truncated PROVE SearchSetups(1, pager.offset) # <<>>
    <3>1. PICK offset \in Nat : offset = pager.offset
      BY <1>1 DEF SearchTyped
    <3>2. offset < Len(H)
      BY <2>5, <2>7, <3>1 DEF ShownIsLead
    <3>3. PICK page : page = SearchSetups(1, offset)
      OBVIOUS
    <3>4. PICK limit \in Nat : limit = 1
      OBVIOUS
    <3>5. page = Cut(H, limit, offset)
      BY <2>2, <3>3, <3>4 DEF SearchSetups, Cut
    <3>6. Len(page) = Fitting(H, limit, offset)
      BY <2>4, <3>5, PageIsCut
    <3>7. Len(page) # 0
      BY <2>4, <3>2, <3>4, <3>6 DEF Fitting
    <3> QED BY <3>1, <3>3, <3>7
  <2>8. \A i, j \in DOMAIN pager.rows : pager.rows[i][1] = pager.rows[j][1] => i = j
    BY <2>4, <2>6
  <2>9. pager.at = "done" /\ query.cap < MaxResults
        => sought \subseteq {pager.rows[i][1] : i \in DOMAIN pager.rows}
    BY <2>5 DEF ShownIsLead
  <2> QED BY <2>7, <2>8, <2>9
<1> QED BY <1>3, <1>4, <1>5 DEF PagesAreTrue

(* For any catalogue, page size and order, over any relists and failures: an *)
(* agent is shown setups it may use, and while no row moves each of them     *)
(* once, none left out, and more where it was told that there is more        *)
(* (action.py:96, default_registry.py:225).                                  *)
THEOREM PagedTruly == SearchSpec => []PagesAreTrue
<1>1. SearchInit => SearchInv
  BY CatalogAssumption, SearchBegins
<1>2. SearchInv /\ [SearchNext]_qvars => SearchInv'
  <2> SUFFICES ASSUME SearchInv, [SearchNext]_qvars PROVE SearchInv'
    OBVIOUS
  <2>1. CASE \E s \in Listings, state \in States : AddSetup(s, state)
    BY <2>1, CatalogAssumption, AddSetupKeeps
  <2>2. CASE SearchAction
    BY <2>2, CatalogAssumption, SearchActionKeeps
  <2>3. CASE SearchFails
    BY <2>3, SearchFailsKeeps
  <2>4. CASE UNCHANGED qvars
    BY <2>4 DEF qvars, SearchInv, SearchTyped, NothingShown, AllThere, ShownIsLead, Eligible
  <2> QED BY <2>1, <2>2, <2>3, <2>4 DEF SearchNext
<1>3. SearchInv => PagesAreTrue
  BY CatalogAssumption, SearchStands
<1> QED BY <1>1, <1>2, <1>3, PTL DEF SearchSpec

-----------------------------------------------------------------------------
(* The run that composes them takes no step that its sides do not take.      *)
LEMMA SidesAreComponents ==
  Spec => LoadsSpec /\ HitlSpec /\ CallsSpec /\ SelectionSpec /\ SchemaSpec /\ DiscoverySpec /\ SearchSpec
<1> DEFINE vs == <<side, tvars, hvars, svars, mvars, tdvars, qvars, cvars>>
<1>1. Init => ToolsInit /\ HitlInit /\ CallsInit /\ SelectionInit /\ SchemaInit /\ DiscoveryInit /\ SearchInit
  BY DEF Init
<1>2. [Next]_vs => [ToolsNext]_tvars
  BY DEF Next
<1>3. [Next]_vs => [HitlNext]_hvars
  BY DEF Next
<1>4. [Next]_vs => [ToolCallNext]_cvars
  BY DEF Next
<1>5. [Next]_vs => [SelectionNext]_svars
  BY DEF Next
<1>6. [Next]_vs => [SchemaNext]_mvars
  BY DEF Next
<1>7. [Next]_vs => [DiscoveryNext]_tdvars
  BY DEF Next
<1>8. [Next]_vs => [SearchNext]_qvars
  BY DEF Next
<1> QED BY <1>1, <1>2, <1>3, <1>4, <1>5, <1>6, <1>7, <1>8, PTL DEF Spec, LoadsSpec, HitlSpec, CallsSpec,
           SelectionSpec, SchemaSpec, DiscoverySpec, SearchSpec

(* In the run that composes them, and for any constants, tools are loaded,   *)
(* paused for, called, selected, shown and searched for, and triggers are    *)
(* found and given their inputs, as the seven properties say.                *)
THEOREM ToolsInOrder ==
  Spec => [](/\ LoadsInOrder /\ PausesInOrder /\ AnswersAreTrue /\ BuiltAfresh /\ SchemasAreTrue
             /\ HandlersAnswer /\ PagesAreTrue)
BY SidesAreComponents, LoadedInOrder, PausedInOrder, AnsweredTruly, BuildsAfresh, ShowsTruly,
   DispatchedToItsOwn, PagedTruly, PTL
=============================================================================
