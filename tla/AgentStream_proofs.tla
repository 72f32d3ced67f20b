-------------------------- MODULE AgentStream_proofs --------------------------
(***************************************************************************)
(* For any members, tools and bounds: no run of a turn is ever shown       *)
(* speaking and reasoning at once, and no two open sequences share an id   *)
(* (OneVoice); the client's screen is what the adapter takes it for        *)
(* (ScreenTruly); and what is sent is a stream that the protocol accepts   *)
(* (SpeaksAgui).                                                           *)
(*                                                                         *)
(* The first: the ids given so far are 1..next, so a sequence that is      *)
(* opened takes an id no open one has; and every handler that opens a      *)
(* sequence of a run has first closed the run's other one.  Both are       *)
(* facts about the adapter alone (Voices), kept by each of its operators.  *)
(*                                                                         *)
(* The others: what is still to be sent leads the client's screen, one     *)
(* accepted event after the other, to a screen with exactly what the       *)
(* adapter has open (Leads).  Each operator of the adapter keeps that, so  *)
(* each handler does; a send takes one event off and shows it.  That the   *)
(* phase of the run allows an event, that a member has nothing open before *)
(* it starts and that nothing is open when the run ends relate the adapter *)
(* to Agno's runs and to the loop of the runner (TurnStands, Phased).      *)
(***************************************************************************)
EXTENDS AgentStream, SequenceTheorems, FiniteSetTheorems, FunctionTheorems, TLAPS

\* The fields of the adapter, so that EXCEPT has its meaning.
IsAdapter(a) ==
    a = [open |-> a.open, subagents |-> a.subagents, active |-> a.active,
         completed |-> a.completed, closed |-> a.closed, paused |-> a.paused,
         next |-> a.next, out |-> a.out]

\* Ids are 1..next, an empty slot is NoSeq, and OneVoicePerRun holds of the tables.
Tables(open, next) ==
    /\ next \in Nat
    /\ open \in [Kinds -> [Keys -> [id : Nat, meta : Keys]]]
    /\ \A kind \in Kinds, k \in Keys :
          open[kind][k] # NoSeq => open[kind][k].id \in 1..next
    /\ \A k \in Keys : open["text"][k] = NoSeq \/ open["reasoning"][k] = NoSeq
    /\ \A kind1, kind2 \in Kinds : \A k1, k2 \in Keys :
          open[kind1][k1] # NoSeq /\ open[kind2][k2] # NoSeq /\ open[kind1][k1].id = open[kind2][k2].id
             => kind1 = kind2 /\ k1 = k2

Voices(a) == IsAdapter(a) /\ Tables(a.open, a.next)

Good(a) == Voices(a) /\ a.active \in Keys

VoiceInv == Good(adapter)

\* An adapter that differs in no table keeps them.
SameTables(a, b) == IsAdapter(b) /\ b.open = a.open /\ b.next = a.next

\* Voices speaks of no other field of the adapter.
LEMMA SameVoices ==
    ASSUME NEW a, NEW b, Voices(a), SameTables(a, b)
    PROVE  Voices(b)
BY DEF Voices, SameTables

\* A change of `out` alone, of the sub-agents alone: what Emit, Pop and CloseSubagents do.
LEMMA OutOnly ==
    ASSUME NEW a, NEW x, IsAdapter(a)
    PROVE  SameTables(a, [a EXCEPT !.out = x]) /\ [a EXCEPT !.out = x].active = a.active
BY DEF IsAdapter, SameTables

\* Emit adds to `out` and to nothing else.
LEMMA EmitOnlyOut ==
    ASSUME NEW a, NEW es, IsAdapter(a)
    PROVE  SameTables(a, Emit(a, es)) /\ Emit(a, es).active = a.active
<1> DEFINE y == a.out \o es
<1>1. Emit(a, es) = [a EXCEPT !.out = y]
  BY DEF Emit
<1>2. SameTables(a, [a EXCEPT !.out = y]) /\ [a EXCEPT !.out = y].active = a.active
  <2> HIDE DEF y
  <2> QED
    BY OutOnly
<1> HIDE DEF y
<1> QED
  BY <1>1, <1>2

\* Pop takes from `out` and from nothing else.
LEMMA PopOnlyOut ==
    ASSUME NEW a, IsAdapter(a)
    PROVE  SameTables(a, Pop(a)) /\ Pop(a).active = a.active
<1> DEFINE y == Tail(a.out)
<1>1. Pop(a) = [a EXCEPT !.out = y]
  BY DEF Pop
<1>2. SameTables(a, [a EXCEPT !.out = y]) /\ [a EXCEPT !.out = y].active = a.active
  <2> HIDE DEF y
  <2> QED
    BY OutOnly
<1> HIDE DEF y
<1> QED
  BY <1>1, <1>2

\* A slot set to NoSeq disturbs no table.
LEMMA CloseKeeps ==
    ASSUME NEW a, Voices(a), NEW kind \in Kinds, NEW k \in Keys
    PROVE  /\ Voices(Close(a, kind, k)) /\ Close(a, kind, k).active = a.active
           /\ Close(a, kind, k).open[kind][k] = NoSeq
           /\ \A other \in Kinds : a.open[other][k] = NoSeq => Close(a, kind, k).open[other][k] = NoSeq
<1>1. CASE k \notin OpenKeys(a, kind)
  BY <1>1 DEF Close, OpenKeys
<1>2. CASE k \in OpenKeys(a, kind)
  <2> DEFINE b == Emit(a, <<ClosingEvent(a, kind, k)>>)
             c == [b EXCEPT !.open[kind][k] = NoSeq]
  <2>1. Close(a, kind, k) = c
    BY <1>2 DEF Close
  <2>2. SameTables(a, b) /\ b.active = a.active
    BY EmitOnlyOut DEF Voices
  <2>3. /\ IsAdapter(c) /\ c.next = a.next /\ c.active = a.active
        /\ c.open = [a.open EXCEPT ![kind][k] = NoSeq]
    BY <2>2 DEF SameTables, IsAdapter
  <2> HIDE DEF b, c
  <2>4. Tables([a.open EXCEPT ![kind][k] = NoSeq], a.next)
    <3>1. NoSeq \in [id : Nat, meta : Keys]
      BY DEF NoSeq, Keys
    <3>2. /\ [a.open EXCEPT ![kind][k] = NoSeq] \in [Kinds -> [Keys -> [id : Nat, meta : Keys]]]
          /\ \A kind1 \in Kinds, k1 \in Keys :
                [a.open EXCEPT ![kind][k] = NoSeq][kind1][k1]
                   = IF kind1 = kind /\ k1 = k THEN NoSeq ELSE a.open[kind1][k1]
      BY <3>1 DEF Voices, Tables
    <3> QED
      BY <3>2 DEF Voices, Tables, Kinds
  <2>5. c.open[kind][k] = NoSeq
    BY <2>3 DEF Voices, Tables
  <2>6. \A other \in Kinds : a.open[other][k] = NoSeq => c.open[other][k] = NoSeq
    BY <2>3 DEF Voices, Tables
  <2> QED
    BY <2>1, <2>3, <2>4, <2>5, <2>6 DEF Voices
<1> QED
  BY <1>1, <1>2

\* Every slot of one kind set to NoSeq disturbs no table.
LEMMA CloseAllKeeps ==
    ASSUME NEW a, Voices(a), NEW kind \in Kinds
    PROVE  Voices(CloseAll(a, kind)) /\ CloseAll(a, kind).active = a.active
<1> DEFINE ks == SetToSeq(OpenKeys(a, kind))
           b == Emit(a, [i \in DOMAIN ks |-> ClosingEvent(a, kind, ks[i])])
           none == [k \in Keys |-> NoSeq]
           c == [b EXCEPT !.open[kind] = none]
<1>1. CloseAll(a, kind) = c
  BY DEF CloseAll
<1>2. SameTables(a, b) /\ b.active = a.active
  BY EmitOnlyOut DEF Voices
<1>3. /\ IsAdapter(c) /\ c.next = a.next /\ c.active = a.active
      /\ c.open = [a.open EXCEPT ![kind] = none]
  BY <1>2 DEF SameTables, IsAdapter
<1> HIDE DEF b, c, ks
<1>4. Tables([a.open EXCEPT ![kind] = none], a.next)
  <2>1. NoSeq \in [id : Nat, meta : Keys]
    BY DEF NoSeq, Keys
  <2>2. /\ [a.open EXCEPT ![kind] = none] \in [Kinds -> [Keys -> [id : Nat, meta : Keys]]]
        /\ \A kind1 \in Kinds, k1 \in Keys :
              [a.open EXCEPT ![kind] = none][kind1][k1]
                 = IF kind1 = kind THEN NoSeq ELSE a.open[kind1][k1]
    BY <2>1 DEF Voices, Tables
  <2> QED
    BY <2>2 DEF Voices, Tables, Kinds
<1> QED
  BY <1>1, <1>3, <1>4 DEF Voices

\* Nor does closing both kinds and the delegations.
LEMMA CloseEverythingKeeps ==
    ASSUME NEW a, Voices(a)
    PROVE  Voices(CloseEverything(a)) /\ CloseEverything(a).active = a.active
<1> DEFINE b == CloseAll(CloseAll(a, "text"), "reasoning")
           ms == Reverse(b.subagents)
           c == Emit(b, [i \in DOMAIN ms |-> [type |-> "agent_finished", run |-> ms[i]]])
           d == [c EXCEPT !.subagents = <<>>]
<1>1. Voices(CloseAll(a, "text")) /\ CloseAll(a, "text").active = a.active
  BY CloseAllKeeps DEF Kinds
<1>2. Voices(b) /\ b.active = a.active
  <2>1. "reasoning" \in Kinds
    BY DEF Kinds
  <2> QED
    BY <1>1, <2>1, CloseAllKeeps
<1>3. CloseEverything(a) = d
  BY DEF CloseEverything, CloseSubagents
<1>4. SameTables(b, c) /\ c.active = b.active
  <2> HIDE DEF b
  <2> QED
    BY <1>2, EmitOnlyOut DEF Voices
<1> HIDE DEF b, c
<1>5. SameTables(b, d) /\ d.active = b.active
  BY <1>4 DEF SameTables, IsAdapter
<1> QED
  BY <1>2, <1>3, <1>5, SameVoices

\* A sequence opened for a run that has none open takes the next id.
LEMMA OpenKeeps ==
    ASSUME NEW a, Voices(a), NEW kind \in Kinds, NEW k \in Keys, NEW r \in Keys,
           \A other \in Kinds : a.open[other][k] = NoSeq
    PROVE  Voices(Open(a, kind, k, r)) /\ Open(a, kind, k, r).active = a.active
<1> DEFINE id == a.next + 1
           seq == [id |-> id, meta |-> r]
           b == Emit(a, <<[type |-> "open", kind |-> kind, id |-> id, by |-> Owner(a, k)]>>)
           opened == [b.open EXCEPT ![kind][k] = seq]
           c == [b EXCEPT !.open = opened, !.next = id]
<1>1. Open(a, kind, k, r) = c
  BY DEF Open
<1>2. SameTables(a, b) /\ b.active = a.active
  BY EmitOnlyOut DEF Voices
<1>3. /\ IsAdapter(c) /\ c.next = id /\ c.active = a.active
      /\ c.open = [a.open EXCEPT ![kind][k] = seq]
  <2>0. IsAdapter(b)
    BY <1>2 DEF SameTables
  <2>1. b.open = a.open
    BY <1>2 DEF SameTables
  <2>2. opened = [a.open EXCEPT ![kind][k] = seq]
    BY <2>1
  <2> DEFINE d == [b EXCEPT !.open = opened]
             e == [d EXCEPT !.next = id]
  <2>3. c = e
    OBVIOUS
  <2> HIDE DEF opened, b, c, id, seq
  <2>4. IsAdapter(d) /\ d.open = opened /\ d.active = b.active
    BY <2>0 DEF IsAdapter
  <2> HIDE DEF d
  <2>5. IsAdapter(e) /\ e.open = d.open /\ e.next = id /\ e.active = d.active
    BY <2>4 DEF IsAdapter
  <2> HIDE DEF e
  <2> QED
    BY <1>2, <2>2, <2>3, <2>4, <2>5
<1> HIDE DEF b, c
<1>4. a.next \in Nat
  BY DEF Voices, Tables
<1>5. id \in Nat /\ seq \in [id : Nat, meta : Keys] /\ seq # NoSeq /\ seq.id = id
  BY <1>4 DEF NoSeq
<1>6. Tables([a.open EXCEPT ![kind][k] = seq], id)
  <2> DEFINE open == [a.open EXCEPT ![kind][k] = seq]
  <2>1. /\ open \in [Kinds -> [Keys -> [id : Nat, meta : Keys]]]
        /\ \A kind1 \in Kinds, k1 \in Keys :
              open[kind1][k1] = IF kind1 = kind /\ k1 = k THEN seq ELSE a.open[kind1][k1]
    BY <1>5 DEF Voices, Tables
  <2> HIDE DEF open
  <2>2. \A kind1 \in Kinds, k1 \in Keys : a.open[kind1][k1] # NoSeq => a.open[kind1][k1].id \in 1..a.next
    BY DEF Voices, Tables
  <2> HIDE DEF seq
  <2>3. ASSUME NEW kind1 \in Kinds, NEW k1 \in Keys, open[kind1][k1] # NoSeq
        PROVE  open[kind1][k1].id \in 1..id
    <3>1. CASE kind1 = kind /\ k1 = k
      BY <1>4, <1>5, <2>1, <3>1
    <3>2. CASE ~(kind1 = kind /\ k1 = k)
      <4>1. open[kind1][k1] = a.open[kind1][k1]
        BY <2>1, <3>2
      <4>2. a.open[kind1][k1].id \in 1..a.next
        BY <2>2, <2>3, <4>1
      <4> QED
        BY <1>4, <4>1, <4>2
    <3> QED
      BY <3>1, <3>2
  <2>4. \A k1 \in Keys : open["text"][k1] = NoSeq \/ open["reasoning"][k1] = NoSeq
    BY <2>1 DEF Voices, Tables, Kinds
  <2>5. ASSUME NEW kind1 \in Kinds, NEW kind2 \in Kinds, NEW k1 \in Keys, NEW k2 \in Keys,
               open[kind1][k1] # NoSeq, open[kind2][k2] # NoSeq, open[kind1][k1].id = open[kind2][k2].id
        PROVE  kind1 = kind2 /\ k1 = k2
    <3>1. ASSUME NEW kind3 \in Kinds, NEW k3 \in Keys, a.open[kind3][k3] # NoSeq
          PROVE  a.open[kind3][k3].id # id
      BY <1>4, <2>2, <3>1
    <3>2. a.open[kind1][k1] # NoSeq /\ a.open[kind2][k2] # NoSeq /\ a.open[kind1][k1].id = a.open[kind2][k2].id
             => kind1 = kind2 /\ k1 = k2
      BY DEF Voices, Tables
    <3>3. /\ open[kind1][k1] = IF kind1 = kind /\ k1 = k THEN seq ELSE a.open[kind1][k1]
          /\ open[kind2][k2] = IF kind2 = kind /\ k2 = k THEN seq ELSE a.open[kind2][k2]
      BY <2>1
    <3>4. seq.id = id
      BY <1>5
    <3> HIDE DEF id
    <3> QED
      BY <2>5, <3>1, <3>2, <3>3, <3>4
  <2>6. id \in Nat
    BY <1>5
  <2>7. Tables(open, id)
    <3> HIDE DEF id
    <3> QED
      BY <2>1, <2>3, <2>4, <2>5, <2>6 DEF Tables
  <2> QED
    BY <2>7 DEF open
<1> QED
  BY <1>1, <1>3, <1>6 DEF Voices

\* A piece of content leaves one voice per run.
LEMMA ProcessKeeps ==
    ASSUME NEW a, Voices(a), NEW kind \in Kinds, NEW k \in Keys, NEW r \in Keys, NEW content
    PROVE  Voices(Process(a, kind, k, r, content)) /\ Process(a, kind, k, r, content).active = a.active
<1> DEFINE b == Close(a, Other(kind), k)
           c == IF k \in OpenKeys(b, kind) THEN b ELSE Open(b, kind, k, r)
<1>1. Other(kind) \in Kinds /\ Kinds = {kind, Other(kind)}
  BY DEF Other, Kinds
<1>2. Voices(b) /\ b.active = a.active /\ b.open[Other(kind)][k] = NoSeq
  BY <1>1, CloseKeeps
<1> HIDE DEF b
<1>3. Voices(c) /\ c.active = a.active
  <2>1. CASE k \in OpenKeys(b, kind)
    BY <1>2, <2>1
  <2>2. CASE k \notin OpenKeys(b, kind)
    <3>1. \A other \in Kinds : b.open[other][k] = NoSeq
      BY <1>1, <1>2, <2>2 DEF OpenKeys
    <3> QED
      BY <1>2, <2>2, <3>1, OpenKeeps
  <2> QED
    BY <2>1, <2>2
<1> HIDE DEF c
<1>4. Voices(Say(c, kind, k)) /\ Say(c, kind, k).active = a.active
  BY <1>3, EmitOnlyOut, SameVoices DEF Say, Voices
<1>5. Voices(Close(a, kind, k)) /\ Close(a, kind, k).active = a.active
  BY CloseKeeps
<1> QED
  BY <1>4, <1>5 DEF Process, b, c

-----------------------------------------------------------------------------
(* The same facts about Good, and the fields that are in no table. *)

\* The operators that sequences are made of keep the adapter good.
LEMMA GoodBasic ==
    ASSUME NEW a, Good(a), NEW kind \in Kinds, NEW k \in Keys
    PROVE  /\ \A es : Good(Emit(a, es))
           /\ Good(Pop(a))
           /\ Good(Close(a, kind, k))
           /\ Good(CloseAll(a, kind))
           /\ Good(CloseEverything(a))
<1>1. \A es : Good(Emit(a, es))
  BY EmitOnlyOut, SameVoices DEF Good, Voices
<1>2. Good(Pop(a))
  BY PopOnlyOut, SameVoices DEF Good, Voices
<1>3. Good(Close(a, kind, k)) /\ Good(CloseAll(a, kind)) /\ Good(CloseEverything(a))
  BY CloseKeeps, CloseAllKeeps, CloseEverythingKeeps DEF Good
<1> QED
  BY <1>1, <1>2, <1>3

\* So does a change of the fields that are no table.
LEMMA GoodFields ==
    ASSUME NEW a, Good(a), NEW x, NEW active \in Keys
    PROVE  /\ Good([a EXCEPT !.subagents = x])
           /\ Good([a EXCEPT !.active = active])
           /\ Good([a EXCEPT !.completed = x])
           /\ Good([a EXCEPT !.closed = x])
           /\ Good([a EXCEPT !.paused = x])
<1>1. Good([a EXCEPT !.subagents = x])
  <2>1. SameTables(a, [a EXCEPT !.subagents = x]) /\ [a EXCEPT !.subagents = x].active = a.active
    BY DEF Good, Voices, IsAdapter, SameTables
  <2> QED
    BY <2>1, SameVoices DEF Good
<1>2. Good([a EXCEPT !.active = active])
  <2>1. SameTables(a, [a EXCEPT !.active = active]) /\ [a EXCEPT !.active = active].active = active
    BY DEF Good, Voices, IsAdapter, SameTables
  <2> QED
    BY <2>1, SameVoices DEF Good
<1>3. Good([a EXCEPT !.completed = x])
  <2>1. SameTables(a, [a EXCEPT !.completed = x]) /\ [a EXCEPT !.completed = x].active = a.active
    BY DEF Good, Voices, IsAdapter, SameTables
  <2> QED
    BY <2>1, SameVoices DEF Good
<1>4. Good([a EXCEPT !.closed = x])
  <2>1. SameTables(a, [a EXCEPT !.closed = x]) /\ [a EXCEPT !.closed = x].active = a.active
    BY DEF Good, Voices, IsAdapter, SameTables
  <2> QED
    BY <2>1, SameVoices DEF Good
<1>5. Good([a EXCEPT !.paused = x])
  <2>1. SameTables(a, [a EXCEPT !.paused = x]) /\ [a EXCEPT !.paused = x].active = a.active
    BY DEF Good, Voices, IsAdapter, SameTables
  <2> QED
    BY <2>1, SameVoices DEF Good
<1> QED
  BY <1>1, <1>2, <1>3, <1>4, <1>5

\* Both sequences of a run closed.
LEMMA GoodQuiet ==
    ASSUME NEW a, Good(a), NEW kind1 \in Kinds, NEW kind2 \in Kinds, NEW k \in Keys
    PROVE  Good(Close(Close(a, kind1, k), kind2, k))
BY GoodBasic

\* A new adapter is good.
LEMMA GoodNew ==
    ASSUME NEW n \in Nat
    PROVE  Good(NewAdapter(n))
<1> DEFINE a == NewAdapter(n)
<1>1. IsAdapter(a) /\ a.next = n /\ a.active = Nobody
      /\ a.open = [kind \in Kinds |-> [k \in Keys |-> NoSeq]]
  BY DEF NewAdapter, IsAdapter
<1> HIDE DEF a
<1>2. NoSeq \in [id : Nat, meta : Keys] /\ Nobody \in Keys
  BY DEF NoSeq, Keys
<1>3. \A kind \in Kinds, k \in Keys : a.open[kind][k] = NoSeq
  BY <1>1
<1>4. Tables(a.open, a.next)
  BY <1>1, <1>2, <1>3 DEF Tables, Kinds
<1> QED
  BY <1>1, <1>2, <1>4 DEF Good, Voices, a

\* A member that leaves keeps the adapter good, whether its delegation is in flight or not.
LEMMA GoodLeave ==
    ASSUME Good(adapter), NEW m \in Keys, NEW type
    PROVE  Good(Leave(m, type))
<1> DEFINE a == Close(Close(adapter, "text", m), "reasoning", m)
           b == Emit(a, <<[type |-> type, run |-> m]>>)
           rest == Popped(b.subagents, m)
<1>1. Good(a)
  BY GoodQuiet DEF Kinds
<1> HIDE DEF a
<1>2. Good(b)
  BY <1>1, GoodBasic DEF Kinds, Keys
<1>3. Leave(m, type) = IF m \notin Range(a.subagents) THEN a ELSE [b EXCEPT !.subagents = rest]
  BY DEF Leave, a
<1> HIDE DEF b, rest
<1>4. Good([b EXCEPT !.subagents = rest])
  BY <1>2, GoodFields DEF Keys
<1> QED
  BY <1>1, <1>3, <1>4

\* An error of the whole run keeps it good.
LEMMA GoodFailed ==
    ASSUME Good(adapter)
    PROVE  Good(FailedWhole)
BY GoodBasic DEF FailedWhole, Kinds, Keys

\* The end of a call is no sequence.
LEMMA GoodEndCall ==
    ASSUME Good(adapter), NEW k, NEW t
    PROVE  Good(EndCall(k, t))
<1> DEFINE b == Emit(adapter, <<ToolEvents(adapter, t, k).end>>)
           x == b.closed \cup {t}
<1>1. Good(b)
  BY GoodBasic DEF Kinds, Keys
<1>2. EndCall(k, t) = [b EXCEPT !.closed = x]
  BY DEF EndCall
<1> HIDE DEF b, x
<1>3. Good([b EXCEPT !.closed = x])
  BY <1>1, GoodFields DEF Keys
<1> QED
  BY <1>2, <1>3

\* One step, action by action.
LEMMA VoiceStep == VoiceInv /\ [Next]_vars => VoiceInv'
<1> SUFFICES ASSUME VoiceInv, [Next]_vars
             PROVE  Good(adapter')
  BY DEF VoiceInv
<1> USE DEF VoiceInv
<1>1. CASE Send
  BY <1>1, GoodBasic DEF Send, Kinds, Keys
<1>2. CASE Runner
  <2>1. CASE StreamEnds
    BY <2>1, GoodBasic DEF StreamEnds, Kinds, Keys
  <2>2. CASE AutoContinue
    <3>1. adapter.next \in Nat
      BY DEF Good, Voices, Tables
    <3> QED
      BY <2>2, <3>1, GoodNew DEF AutoContinue
  <2>3. CASE LimitReached
    BY <2>3, GoodBasic DEF LimitReached, Kinds, Keys
  <2>4. CASE AwaitTools \/ Return
    BY <2>4 DEF AwaitTools, Return
  <2> QED
    BY <1>2, <2>1, <2>2, <2>3, <2>4 DEF Runner
<1>3. CASE RunStarted
  <2> DEFINE a == [adapter EXCEPT !.active = Top]
  <2>1. Good(a)
    BY GoodFields DEF Keys, Runs
  <2>2. \A es : Good(Emit(a, es))
    <3> HIDE DEF a
    <3> QED
      BY <2>1, GoodBasic DEF Kinds, Keys
  <2> QED
    BY <1>3, <2>2 DEF RunStarted
<1>4. CASE AgnoStops
  <2>1. CASE RunCompleted
    <3> DEFINE a == CloseEverything(adapter)
               b == [a EXCEPT !.completed = a.completed \cup {Top}]
               c == [b EXCEPT !.active = Nobody]
               es == <<[type |-> "run_finished", run |-> "agno"]>>
    <3>1. Good(a)
      BY GoodBasic DEF Kinds, Keys
    <3>2. [a EXCEPT !.completed = a.completed \cup {Top}, !.active = Nobody] = c
      OBVIOUS
    <3>3. adapter' = adapter \/ adapter' = Emit(c, es)
      BY <2>1, <3>2 DEF RunCompleted
    <3> HIDE DEF a, es
    <3>4. Good(b)
      BY <3>1, GoodFields DEF Keys
    <3> HIDE DEF b
    <3>5. Good(c)
      BY <3>4, GoodFields DEF Keys
    <3> HIDE DEF c
    <3> QED
      BY <3>3, <3>5, GoodBasic DEF Kinds, Keys
  <2>2. CASE RunFailed
    BY <2>2, GoodFailed DEF RunFailed
  <2>3. ASSUME NEW E \in SUBSET External, RunPaused(E)
        PROVE  Good(adapter')
    <3> DEFINE a == CloseAll(CloseAll(adapter, "reasoning"), "text")
               ts == SetToSeq(E)
               made == [i \in 1..2 * Len(ts) |->
                          LET e == ToolEvents(a, ts[(i + 1) \div 2], Nobody)
                          IN IF i % 2 = 1 THEN e.start ELSE e.end]
               b == Emit(a, made)
               c == [b EXCEPT !.paused = TRUE]
               x == b.closed \cup E
               d == [c EXCEPT !.closed = x]
    <3>1. Good(CloseAll(adapter, "reasoning"))
      BY GoodBasic DEF Kinds, Keys
    <3>2. Good(a)
      BY <3>1, GoodBasic DEF Kinds, Keys
    <3>3. adapter' = [b EXCEPT !.paused = TRUE, !.closed = b.closed \cup E]
      BY <2>3 DEF RunPaused
    <3> HIDE DEF a, made
    <3>4. Good(b)
      BY <3>2, GoodBasic DEF Kinds, Keys
    <3>5. adapter' = d
      BY <3>3
    <3> HIDE DEF b, x
    <3>6. Good(c)
      BY <3>4, GoodFields DEF Keys
    <3> HIDE DEF c
    <3>7. Good(d)
      BY <3>6, GoodFields DEF Keys
    <3> QED
      BY <3>5, <3>7
  <2> QED
    BY <1>4, <2>1, <2>2, <2>3 DEF AgnoStops
<1>5. ASSUME NEW r \in Runs, NEW k \in KeysOf(r), Speaks(r, k)
      PROVE  Good(adapter')
  <2>1. k \in Keys /\ r \in Keys /\ "text" \in Kinds /\ "reasoning" \in Kinds
    BY DEF KeysOf, Good, Keys, Runs, Kinds
  <2>2. ASSUME NEW reasoning, NEW text, RunContent(r, k, reasoning, text)
        PROVE  Good(adapter')
    <3>1. Good(Process(adapter, "reasoning", k, r, reasoning))
      BY <2>1, ProcessKeeps DEF Good
    <3>2. Good(Process(Process(adapter, "reasoning", k, r, reasoning), "text", k, r, text))
      BY <2>1, <3>1, ProcessKeeps DEF Good
    <3> QED
      BY <2>2, <3>2 DEF RunContent
  <2>3. CASE ReasoningStep(r, k)
    <3>1. Good(Process(adapter, "reasoning", k, r, "some"))
      BY <2>1, ProcessKeeps DEF Good
    <3> QED
      BY <2>3, <3>1 DEF ReasoningStep
  <2>4. CASE ReasoningStarted(r, k)
    <3> DEFINE a == Close(adapter, "text", k)
    <3>1. Voices(a) /\ a.active = adapter.active /\ a.open["text"][k] = NoSeq
      BY <2>1, CloseKeeps DEF Good
    <3>2. adapter.open["reasoning"][k] = NoSeq
      BY <2>1, <2>4 DEF ReasoningStarted, OpenKeys
    <3>3. a.open["reasoning"][k] = NoSeq
      BY <2>1, <3>2, CloseKeeps DEF Good
    <3> HIDE DEF a
    <3>4. \A other \in Kinds : a.open[other][k] = NoSeq
      BY <3>1, <3>3 DEF Kinds
    <3>5. Good(Open(a, "reasoning", k, r))
      BY <2>1, <3>1, <3>4, OpenKeeps DEF Good
    <3> QED
      BY <2>4, <3>5 DEF ReasoningStarted, a
  <2>5. CASE ReasoningDelta(r, k)
    BY <2>1, <2>5, GoodBasic DEF ReasoningDelta, Say
  <2>6. CASE ReasoningCompleted(r, k)
    BY <2>1, <2>6, GoodBasic DEF ReasoningCompleted
  <2>7. ASSUME NEW t \in ServerTools, ToolStarted(r, k, t)
        PROVE  Good(adapter')
    <3> DEFINE a == Close(Close(adapter, "reasoning", k), "text", k)
    <3>1. Good(a)
      BY <2>1, GoodQuiet
    <3>2. adapter' = Emit(a, <<ToolEvents(a, t, k).start>>)
      BY <2>7 DEF ToolStarted
    <3> HIDE DEF a
    <3> QED
      BY <2>1, <3>1, <3>2, GoodBasic
  <2>8. ASSUME NEW t \in ServerTools, ToolCompleted(r, k, t) \/ ToolFailed(r, k, t)
        PROVE  Good(adapter')
    BY <2>8, GoodEndCall DEF ToolCompleted, ToolFailed
  <2> QED
    BY <1>5, <2>2, <2>3, <2>4, <2>5, <2>6, <2>7, <2>8 DEF Speaks
<1>6. ASSUME NEW m \in Members, MemberStep(m)
      PROVE  Good(adapter')
  <2>1. m \in Keys /\ "text" \in Kinds /\ "reasoning" \in Kinds
    BY DEF Keys, Runs, Kinds
  <2>2. ASSUME NEW p \in Runs, MemberStarted(m, p)
        PROVE  Good(adapter')
    <3> DEFINE a == Close(Close(adapter, "text", p), "reasoning", p)
               b == Emit(a, <<[type |-> "agent_started", run |-> m, parent |-> Owner(a, p)]>>)
               x == Append(b.subagents, m)
    <3>1. adapter' = [b EXCEPT !.subagents = x]
      BY <2>2 DEF MemberStarted
    <3>2. Good(a)
      BY <2>1, GoodQuiet DEF Keys
    <3> HIDE DEF a
    <3>3. Good(b)
      BY <2>1, <3>2, GoodBasic
    <3> HIDE DEF b, x
    <3>4. Good([b EXCEPT !.subagents = x])
      BY <2>1, <3>3, GoodFields
    <3> QED
      BY <3>1, <3>4
  <2>3. CASE MemberCompleted(m)
    BY <2>1, <2>3, GoodLeave DEF MemberCompleted
  <2>4. CASE MemberFailed(m)
    BY <2>1, <2>4, GoodLeave, GoodFailed DEF MemberFailed
  <2> QED
    BY <1>6, <2>2, <2>3, <2>4 DEF MemberStep
<1>7. CASE UNCHANGED vars
  BY <1>7 DEF vars
<1> QED
  BY <1>1, <1>2, <1>3, <1>4, <1>5, <1>6, <1>7 DEF Next

\* However Agno interleaves the events of its runs, no run is shown speaking and reasoning at
\* once, and no two open sequences share an id: AgnoStreamAdapter, whatever the members and tools.
THEOREM OneVoice == Spec => []OneVoicePerRun
<1>1. Init => VoiceInv
  <2> SUFFICES ASSUME Init
               PROVE  Good(adapter)
    BY DEF VoiceInv
  <2>1. Good(NewAdapter(0))
    BY GoodNew
  <2>2. \A es : Good(Emit(NewAdapter(0), es))
    BY <2>1, GoodBasic DEF Kinds, Keys
  <2> QED
    BY <2>1, <2>2 DEF Init
<1>2. VoiceInv => OneVoicePerRun
  BY DEF VoiceInv, Good, Voices, Tables, OneVoicePerRun, OpenKeys
<1> QED
  BY <1>1, <1>2, VoiceStep, PTL DEF Spec

-----------------------------------------------------------------------------
(* What the client will see of what is still to be sent: a screen is led by  *)
(* a burst of events to another one, each of them an event that the protocol *)
(* accepts where it comes.                                                   *)

Phases == {"idle", "running", "over"}
Speakers == Members \cup {Nobody}

Event ==
    [type : {"open", "delta", "close"}, kind : Kinds, id : Ids, by : Speakers]
    \cup [type : {"agent_started"}, run : Members, parent : Speakers]
    \cup [type : {"agent_finished", "agent_error"}, run : Members]
    \cup [type : {"tool_start", "tool_end"}, tool : Tools, by : Speakers]
    \cup [type : {"run_started", "run_finished"}, run : RunIds \ {"none"}]
    \cup [type : {"run_error"}]

Screen(phase, open, agents, inCall) ==
    [phase |-> phase, open |-> open, agents |-> agents, calls |-> inCall]
OnScreen == Screen(client.phase, client.open, client.agents, client.calls)

\* A member that goes on after an in-process continue may fail, and end the run before its time.
UnderWay(phase) == phase = "running" \/ (MembersContinue /\ phase = "over")

Utterance(e) == [kind |-> e.kind, id |-> e.id, by |-> e.by]

Accepts(w, e) ==
    /\ e.type = "run_started" => w.phase = "idle"
    /\ e.type # "run_started" => UnderWay(w.phase)
    /\ e.type \in {"run_finished", "run_error"} => w.open = {} /\ w.agents = {}
    /\ e.type = "open" => e.by \in w.agents \cup {Nobody} /\ \A s \in w.open : s.id # e.id
    /\ e.type \in {"delta", "close"} =>
          Utterance(e) \in w.open /\ \A s \in w.open : s.id = e.id => s = Utterance(e)
    /\ e.type = "agent_started" => e.run \notin w.agents /\ e.parent \in w.agents \cup {Nobody}
    /\ e.type \in {"agent_finished", "agent_error"} =>
          e.run \in w.agents /\ \A s \in w.open : s.by # e.run
    /\ e.type = "tool_start" => e.tool \notin w.calls /\ e.by \in w.agents \cup {Nobody}
    /\ e.type = "tool_end" => e.tool \in w.calls

\* As Receive, of what the protocol is about.
Take(w, e) ==
    Screen(IF e.type = "run_started" THEN "running"
           ELSE IF e.type \in {"run_finished", "run_error"} THEN "over" ELSE w.phase,
           IF e.type = "open" THEN w.open \cup {Utterance(e)}
           ELSE IF e.type = "close" THEN {s \in w.open : s.kind # e.kind \/ s.id # e.id} ELSE w.open,
           IF e.type = "agent_started" THEN w.agents \cup {e.run}
           ELSE IF e.type \in {"agent_finished", "agent_error"} THEN w.agents \ {e.run} ELSE w.agents,
           IF e.type = "tool_start" THEN w.calls \cup {e.tool}
           ELSE IF e.type = "tool_end" THEN w.calls \ {e.tool} ELSE w.calls)

Led(u, burst, v) ==
    /\ burst \in Seq(Event)
    /\ \E ws : /\ ws[0] = u /\ ws[Len(burst)] = v
               /\ \A i \in 1..Len(burst) : Accepts(ws[i-1], burst[i]) /\ ws[i] = Take(ws[i-1], burst[i])

\* Nothing to send leads nowhere else.
LEMMA LedNowhere ==
    ASSUME NEW u, NEW v
    PROVE  Led(u, <<>>, u) /\ (Led(u, <<>>, v) => v = u)
<1>1. Len(<<>>) = 0 /\ <<>> \in Seq(Event)
  OBVIOUS
<1>2. Led(u, <<>>, v) => v = u
  BY <1>1 DEF Led
<1>3. Led(u, <<>>, u)
  <2> DEFINE ws == [i \in {0} |-> u]
  <2>1. ws[0] = u
    OBVIOUS
  <2> HIDE DEF ws
  <2>2. \A i \in 1..Len(<<>>) : Accepts(ws[i-1], <<>>[i]) /\ ws[i] = Take(ws[i-1], <<>>[i])
    BY <1>1
  <2> QED
    BY <1>1, <2>1, <2>2 DEF Led
<1> QED
  BY <1>2, <1>3

\* One event that is accepted.
LEMMA LedOne ==
    ASSUME NEW u, NEW e \in Event, Accepts(u, e)
    PROVE  Led(u, <<e>>, Take(u, e))
<1> DEFINE v == Take(u, e)
           ws == [i \in {0, 1} |-> IF i = 0 THEN u ELSE v]
<1>1. ws[0] = u /\ ws[1] = v
  OBVIOUS
<1>2. v = Take(u, e)
  OBVIOUS
<1> HIDE DEF ws, v
<1>3. Len(<<e>>) = 1 /\ <<e>> \in Seq(Event) /\ <<e>>[1] = e
  OBVIOUS
<1>4. \A i \in 1..1 : i = 1 /\ i - 1 = 0
  OBVIOUS
<1>5. \A i \in 1..Len(<<e>>) : Accepts(ws[i-1], <<e>>[i]) /\ ws[i] = Take(ws[i-1], <<e>>[i])
  BY <1>1, <1>2, <1>3, <1>4
<1>6. ws[Len(<<e>>)] = v
  BY <1>1, <1>3
<1>7. Led(u, <<e>>, v)
  BY <1>1, <1>3, <1>5, <1>6 DEF Led
<1> QED
  BY <1>2, <1>7

\* One burst after the other.
LEMMA LedJoin ==
    ASSUME NEW u, NEW v, NEW w, NEW s, NEW t, Led(u, s, v), Led(v, t, w)
    PROVE  Led(u, s \o t, w)
<1>1. s \in Seq(Event) /\ t \in Seq(Event)
  BY DEF Led
<1>2. PICK f : /\ f[0] = u /\ f[Len(s)] = v
               /\ \A i \in 1..Len(s) : Accepts(f[i-1], s[i]) /\ f[i] = Take(f[i-1], s[i])
  BY DEF Led
<1>3. PICK g : /\ g[0] = v /\ g[Len(t)] = w
               /\ \A i \in 1..Len(t) : Accepts(g[i-1], t[i]) /\ g[i] = Take(g[i-1], t[i])
  BY DEF Led
<1> DEFINE n == Len(s)
           m == Len(t)
           h == [i \in 0..(n + m) |-> IF i <= n THEN f[i] ELSE g[i - n]]
           st == s \o t
<1>4. n \in Nat /\ m \in Nat
  BY <1>1, LenProperties
<1>5. /\ st \in Seq(Event) /\ Len(st) = n + m
      /\ \A i \in 1..n : st[i] = s[i]
      /\ \A i \in 1..m : st[n + i] = t[i]
  BY <1>1, <1>4
<1>6. /\ \A i \in 0..n : h[i] = f[i]
      /\ \A i \in 0..m : h[n + i] = g[i]
  <2>1. \A i \in 0..n : h[i] = f[i]
    BY <1>4
  <2>2. ASSUME NEW i \in 0..m
        PROVE  h[n + i] = g[i]
    <3>1. CASE i = 0
      BY <1>2, <1>3, <1>4, <2>1, <3>1
    <3>2. CASE i # 0
      <4>1. n + i \in 0..(n + m) /\ ~(n + i <= n) /\ (n + i) - n = i
        BY <1>4, <3>2
      <4> QED
        BY <4>1
    <3> QED
      BY <3>1, <3>2
  <2> QED
    BY <2>1, <2>2
<1> HIDE DEF st, h, n, m
<1>7. ASSUME NEW i \in 1..(n + m)
      PROVE  Accepts(h[i-1], st[i]) /\ h[i] = Take(h[i-1], st[i])
  <2>1. CASE i \in 1..n
    <3>1. i \in 0..n /\ i - 1 \in 0..n
      BY <1>4, <2>1
    <3>2. h[i] = f[i] /\ h[i-1] = f[i-1] /\ st[i] = s[i]
      BY <1>5, <1>6, <2>1, <3>1
    <3>3. Accepts(f[i-1], s[i]) /\ f[i] = Take(f[i-1], s[i])
      BY <1>2, <2>1 DEF n
    <3> QED
      BY <3>2, <3>3
  <2>2. CASE i \notin 1..n
    <3>1. PICK j \in 1..m : i = n + j
      <4>1. i - n \in 1..m /\ i = n + (i - n)
        BY <1>4, <2>2
      <4> QED
        BY <4>1
    <3>2. j \in 0..m /\ j - 1 \in 0..m /\ i - 1 = n + (j - 1)
      BY <1>4, <3>1
    <3>3. h[i] = g[j] /\ h[i-1] = g[j-1] /\ st[i] = t[j]
      BY <1>5, <1>6, <3>1, <3>2
    <3>4. Accepts(g[j-1], t[j]) /\ g[j] = Take(g[j-1], t[j])
      BY <1>3 DEF m
    <3> QED
      BY <3>3, <3>4
  <2> QED
    BY <2>1, <2>2
<1>8. h[0] = u /\ h[n + m] = w
  <2>1. h[0] = f[0] /\ h[n + m] = g[m]
    BY <1>4, <1>6
  <2> QED
    BY <1>2, <1>3, <2>1 DEF m
<1>9. Led(u, st, w)
  BY <1>5, <1>7, <1>8 DEF Led
<1> QED
  BY <1>9 DEF st

\* What is sent first is accepted, and the rest leads on from there.
LEMMA LedPop ==
    ASSUME NEW u, NEW v, NEW s, Led(u, s, v), s # <<>>
    PROVE  Head(s) \in Event /\ Accepts(u, Head(s)) /\ Led(Take(u, Head(s)), Tail(s), v)
<1>1. s \in Seq(Event)
  BY DEF Led
<1>2. PICK f : /\ f[0] = u /\ f[Len(s)] = v
               /\ \A i \in 1..Len(s) : Accepts(f[i-1], s[i]) /\ f[i] = Take(f[i-1], s[i])
  BY DEF Led
<1> DEFINE n == Len(s)
           rest == Tail(s)
           g == [i \in 0..(n - 1) |-> f[i + 1]]
<1>3. n \in Nat /\ n # 0
  BY <1>1, EmptySeq, LenProperties
<1>4. /\ rest \in Seq(Event) /\ Len(rest) = n - 1 /\ Head(s) = s[1] /\ Head(s) \in Event
      /\ \A i \in 1..(n - 1) : rest[i] = s[i + 1]
  <2>1. /\ rest \in Seq(Event) /\ Len(rest) = n - 1 /\ Head(s) \in Event
        /\ \A i \in 1..Len(rest) : rest[i] = s[i + 1]
    BY <1>1, HeadTailProperties
  <2> QED
    BY <1>1, <2>1
<1>5. \A i \in 0..(n - 1) : g[i] = f[i + 1]
  OBVIOUS
<1> HIDE DEF rest, g
<1>6. ASSUME NEW i \in 1..(n - 1)
      PROVE  Accepts(g[i-1], rest[i]) /\ g[i] = Take(g[i-1], rest[i])
  <2>1. i \in 0..(n - 1) /\ i - 1 \in 0..(n - 1) /\ (i - 1) + 1 = i /\ i + 1 \in 1..n /\ (i + 1) - 1 = i
    BY <1>3
  <2>2. g[i] = f[i + 1] /\ g[i-1] = f[i] /\ rest[i] = s[i + 1]
    BY <1>4, <1>5, <2>1
  <2>3. Accepts(f[i], s[i + 1]) /\ f[i + 1] = Take(f[i], s[i + 1])
    BY <1>2, <2>1
  <2> QED
    BY <2>2, <2>3
<1>7. Accepts(u, Head(s)) /\ f[1] = Take(u, Head(s))
  <2>1. 1 \in 1..n /\ 1 - 1 = 0
    BY <1>3
  <2> QED
    BY <1>2, <1>4, <2>1
<1>8. g[0] = f[1] /\ g[n - 1] = v
  <2>1. 0 \in 0..(n - 1) /\ n - 1 \in 0..(n - 1) /\ 0 + 1 = 1 /\ (n - 1) + 1 = n
    BY <1>3
  <2> QED
    BY <1>2, <1>5, <2>1
<1>9. Led(Take(u, Head(s)), rest, v)
  BY <1>4, <1>6, <1>7, <1>8 DEF Led
<1> QED
  BY <1>4, <1>7, <1>9 DEF rest

-----------------------------------------------------------------------------
(* What the adapter has open is what the client will see, once it was sent   *)
(* what is in `out`.  Each of the adapter's operators keeps that.            *)

Sequences(a) ==
    UNION {{[kind |-> kind, id |-> a.open[kind][k].id, by |-> Owner(a, k)] :
               k \in OpenKeys(a, kind)} : kind \in Kinds}

Delegated(a) == a.subagents \in Seq(Members) /\ IsInjective(a.subagents)

Believed(a, phase, inCall) == Screen(phase, Sequences(a), Range(a.subagents), inCall)

Leads(u, a, phase, inCall) ==
    /\ Voices(a) /\ Delegated(a) /\ a.next <= MaxIds
    /\ Led(u, a.out, Believed(a, phase, inCall))

\* What no operator on sequences or delegations touches.
Same(a, b) == b.active = a.active /\ b.completed = a.completed /\ b.closed = a.closed /\ b.paused = a.paused

\* What is open, by slot.
LEMMA SequencesAre ==
    ASSUME NEW a, NEW s
    PROVE  s \in Sequences(a) <=>
              \E kind \in Kinds, k \in Keys :
                 a.open[kind][k] # NoSeq /\ s = [kind |-> kind, id |-> a.open[kind][k].id, by |-> Owner(a, k)]
BY DEF Sequences, OpenKeys

\* A sequence belongs to Nobody or to a delegation that is in flight, and to a member only when
\* it is its own.
LEMMA OwnersSpeak ==
    ASSUME StreamAssumption, NEW a, Delegated(a), NEW k \in Keys
    PROVE  /\ Range(a.subagents) \subseteq Members
           /\ Owner(a, k) \in Range(a.subagents) \cup {Nobody} /\ Owner(a, k) \in Speakers
           /\ \A m \in Members : Owner(a, k) = m <=> k = m /\ m \in Range(a.subagents)
<1>1. Range(a.subagents) \subseteq Members
  <2>1. DOMAIN a.subagents = 1..Len(a.subagents) /\ \A i \in DOMAIN a.subagents : a.subagents[i] \in Members
    BY DEF Delegated
  <2> QED
    BY <2>1 DEF Range
<1>2. \A m \in Members : m # Nobody
  BY DEF StreamAssumption, Runs
<1> QED
  BY <1>1, <1>2 DEF Owner, Speakers

\* No two sequences share an id, and a slot's own is the one with the slot's id.
LEMMA SequencesDiffer ==
    ASSUME NEW a, Voices(a)
    PROVE  \A kind \in Kinds, k \in Keys :
              a.open[kind][k] # NoSeq =>
                 \A s \in Sequences(a) :
                    s.id = a.open[kind][k].id =>
                       s = [kind |-> kind, id |-> a.open[kind][k].id, by |-> Owner(a, k)]
<1> SUFFICES ASSUME NEW kind \in Kinds, NEW k \in Keys, a.open[kind][k] # NoSeq, NEW s \in Sequences(a),
                    s.id = a.open[kind][k].id
             PROVE  s = [kind |-> kind, id |-> a.open[kind][k].id, by |-> Owner(a, k)]
  OBVIOUS
<1>1. PICK kind1 \in Kinds, k1 \in Keys :
         a.open[kind1][k1] # NoSeq /\ s = [kind |-> kind1, id |-> a.open[kind1][k1].id, by |-> Owner(a, k1)]
  BY SequencesAre
<1>2. kind1 = kind /\ k1 = k
  BY <1>1 DEF Voices, Tables
<1> QED
  BY <1>1, <1>2

\* The ids in use are among those given.
LEMMA IdsGiven ==
    ASSUME StreamAssumption, NEW a, Voices(a), a.next <= MaxIds
    PROVE  /\ a.next \in Nat
           /\ \A kind \in Kinds, k \in Keys : a.open[kind][k] # NoSeq => a.open[kind][k].id \in Ids
           /\ \A s \in Sequences(a) : s.id \in 1..a.next
<1>1. a.next \in Nat /\ MaxIds \in Nat
  BY DEF Voices, Tables, StreamAssumption
<1>2. \A kind \in Kinds, k \in Keys : a.open[kind][k] # NoSeq => a.open[kind][k].id \in 1..a.next
  BY DEF Voices, Tables
<1>3. \A i \in 1..a.next : i \in Ids
  BY <1>1 DEF Ids
<1>4. \A s \in Sequences(a) : s.id \in 1..a.next
  BY <1>2, SequencesAre
<1> QED
  BY <1>1, <1>2, <1>3, <1>4

\* A step of the adapter that sends one more event.
LEMMA LeadsOn ==
    ASSUME NEW u, NEW a, NEW b, NEW e \in Event, NEW p, NEW q, NEW C, NEW D, Leads(u, a, p, C),
           b.out = a.out \o <<e>>, Voices(b), Delegated(b), b.next <= MaxIds,
           Accepts(Believed(a, p, C), e), Take(Believed(a, p, C), e) = Believed(b, q, D)
    PROVE  Leads(u, b, q, D)
<1>1. Led(Believed(a, p, C), <<e>>, Believed(b, q, D))
  BY LedOne
<1>2. Led(u, a.out \o <<e>>, Believed(b, q, D))
  BY <1>1, LedJoin DEF Leads
<1> QED
  BY <1>2 DEF Leads

\* What Emit does to an adapter.
LEMMA EmitIs ==
    ASSUME NEW a, IsAdapter(a), NEW es
    PROVE  LET b == Emit(a, es)
           IN /\ IsAdapter(b) /\ b.out = a.out \o es /\ b.open = a.open /\ b.subagents = a.subagents
              /\ b.next = a.next /\ Same(a, b)
<1> DEFINE y == a.out \o es
           b == [a EXCEPT !.out = y]
<1>1. Emit(a, es) = b
  BY DEF Emit
<1>2. y = a.out \o es
  OBVIOUS
<1> HIDE DEF y
<1>3. /\ IsAdapter(b) /\ b.out = y /\ b.open = a.open /\ b.subagents = a.subagents
      /\ b.next = a.next /\ Same(a, b)
  BY DEF IsAdapter, Same
<1> HIDE DEF b
<1> QED
  BY <1>1, <1>2, <1>3

\* _close_content.
LEMMA LeadsClose ==
    ASSUME StreamAssumption, NEW u, NEW a, NEW p, NEW C, Leads(u, a, p, C), UnderWay(p),
           NEW kind \in Kinds, NEW k \in Keys
    PROVE  LET b == Close(a, kind, k)
           IN /\ Leads(u, b, p, C) /\ Same(a, b) /\ b.subagents = a.subagents /\ b.next = a.next
              /\ \A kind1 \in Kinds, k1 \in Keys :
                    b.open[kind1][k1] = IF kind1 = kind /\ k1 = k THEN NoSeq ELSE a.open[kind1][k1]
<1> DEFINE b == Close(a, kind, k)
<1>t. Voices(a) /\ Delegated(a) /\ a.next <= MaxIds /\ IsAdapter(a)
  BY DEF Leads, Voices
<1>1. CASE k \notin OpenKeys(a, kind)
  <2>1. b = a /\ a.open[kind][k] = NoSeq
    BY <1>1 DEF Close, OpenKeys
  <2> QED
    BY <2>1 DEF Same
<1>2. CASE k \in OpenKeys(a, kind)
  <2> DEFINE e == ClosingEvent(a, kind, k)
             c == Emit(a, <<e>>)
             d == [c EXCEPT !.open[kind][k] = NoSeq]
  <2>1. b = d
    BY <1>2 DEF Close
  <2>2. /\ IsAdapter(c) /\ c.out = a.out \o <<e>> /\ c.open = a.open /\ c.subagents = a.subagents
        /\ c.next = a.next /\ Same(a, c)
    BY <1>t, EmitIs
  <2> HIDE DEF c
  <2>3. /\ d.out = c.out /\ d.open = [c.open EXCEPT ![kind][k] = NoSeq] /\ d.subagents = c.subagents
        /\ d.next = c.next /\ Same(c, d)
    BY <2>2 DEF IsAdapter, Same
  <2> HIDE DEF b, d
  <2>4. /\ b.out = a.out \o <<e>> /\ b.open = [a.open EXCEPT ![kind][k] = NoSeq] /\ b.subagents = a.subagents
        /\ b.next = a.next /\ Same(a, b)
    BY <2>1, <2>2, <2>3 DEF Same
  <2>5. \A kind1 \in Kinds, k1 \in Keys :
           b.open[kind1][k1] = IF kind1 = kind /\ k1 = k THEN NoSeq ELSE a.open[kind1][k1]
    BY <1>t, <2>4 DEF Voices, Tables
  <2>6. Voices(b) /\ Delegated(b) /\ b.next <= MaxIds
    BY <1>t, <2>4, CloseKeeps DEF b, Delegated
  <2>7. a.open[kind][k] # NoSeq
    BY <1>2 DEF OpenKeys
  <2>8. e = [type |-> "close", kind |-> kind, id |-> a.open[kind][k].id, by |-> Owner(a, k)]
    BY DEF ClosingEvent
  <2> DEFINE s == [kind |-> kind, id |-> a.open[kind][k].id, by |-> Owner(a, k)]
  <2>9. e.type = "close" /\ e.kind = kind /\ e.id = a.open[kind][k].id /\ Utterance(e) = s
    BY <2>8 DEF Utterance
  <2>10. e \in Event
    <3>1. a.open[kind][k].id \in Ids /\ Owner(a, k) \in Speakers
      BY <1>t, <2>7, IdsGiven, OwnersSpeak
    <3> QED
      BY <2>8, <3>1 DEF Event
  <2>11. s \in Sequences(a) /\ \A x \in Sequences(a) : x.id = a.open[kind][k].id => x = s
    <3>1. s \in Sequences(a)
      BY <2>7, SequencesAre
    <3> QED
      BY <1>t, <2>7, <3>1, SequencesDiffer
  <2>12. Accepts(Believed(a, p, C), e)
    BY <2>9, <2>11 DEF Accepts, Believed, Screen
  <2>13. {x \in Sequences(a) : x.kind # kind \/ x.id # a.open[kind][k].id} = Sequences(b)
    <3>1. ASSUME NEW x \in Sequences(a), x.kind # kind \/ x.id # a.open[kind][k].id
          PROVE  x \in Sequences(b)
      <4>1. PICK kind1 \in Kinds, k1 \in Keys :
               a.open[kind1][k1] # NoSeq /\ x = [kind |-> kind1, id |-> a.open[kind1][k1].id, by |-> Owner(a, k1)]
        BY SequencesAre
      <4>2. b.open[kind1][k1] = a.open[kind1][k1] /\ Owner(b, k1) = Owner(a, k1)
        BY <2>4, <2>5, <3>1, <4>1 DEF Owner
      <4> QED
        BY <4>1, <4>2, SequencesAre
    <3>2. ASSUME NEW x \in Sequences(b)
          PROVE  x \in Sequences(a) /\ (x.kind # kind \/ x.id # a.open[kind][k].id)
      <4>1. PICK kind1 \in Kinds, k1 \in Keys :
               b.open[kind1][k1] # NoSeq /\ x = [kind |-> kind1, id |-> b.open[kind1][k1].id, by |-> Owner(b, k1)]
        BY SequencesAre
      <4>2. ~(kind1 = kind /\ k1 = k) /\ b.open[kind1][k1] = a.open[kind1][k1] /\ Owner(b, k1) = Owner(a, k1)
        BY <2>4, <2>5, <4>1 DEF Owner
      <4>3. x \in Sequences(a)
        BY <4>1, <4>2, SequencesAre
      <4>4. a.open[kind1][k1].id # a.open[kind][k].id
        BY <1>t, <2>7, <4>1, <4>2 DEF Voices, Tables
      <4> QED
        BY <4>1, <4>2, <4>3, <4>4
    <3> QED
      BY <3>1, <3>2
  <2>14. Take(Believed(a, p, C), e) = Believed(b, p, C)
    BY <2>4, <2>9, <2>13 DEF Take, Believed, Screen
  <2>15. Leads(u, b, p, C)
    BY <2>4, <2>6, <2>10, <2>12, <2>14, LeadsOn
  <2> QED
    BY <2>4, <2>5, <2>15 DEF b
<1> QED
  BY <1>1, <1>2

\* A sequence of its own, for a run that has none.
LEMMA LeadsOpen ==
    ASSUME StreamAssumption, NEW u, NEW a, NEW p, NEW C, Leads(u, a, p, C), UnderWay(p),
           NEW kind \in Kinds, NEW k \in Keys, NEW r \in Keys, a.next < MaxIds,
           \A other \in Kinds : a.open[other][k] = NoSeq
    PROVE  LET b == Open(a, kind, k, r)
           IN /\ Leads(u, b, p, C) /\ Same(a, b) /\ b.subagents = a.subagents
              /\ b.next = a.next + 1 /\ b.open[kind][k] # NoSeq
              /\ \A kind1 \in Kinds, k1 \in Keys :
                    ~(kind1 = kind /\ k1 = k) => b.open[kind1][k1] = a.open[kind1][k1]
<1> DEFINE b == Open(a, kind, k, r)
           id == a.next + 1
           slot == [id |-> id, meta |-> r]
           e == [type |-> "open", kind |-> kind, id |-> id, by |-> Owner(a, k)]
           c == Emit(a, <<e>>)
           d == [c EXCEPT !.open[kind][k] = slot]
           f == [d EXCEPT !.next = id]
<1>t. Voices(a) /\ Delegated(a) /\ a.next <= MaxIds /\ IsAdapter(a) /\ a.next \in Nat /\ MaxIds \in Nat
  BY DEF Leads, Voices, Tables, StreamAssumption
<1>1. b = f
  BY DEF Open
<1>2. /\ IsAdapter(c) /\ c.out = a.out \o <<e>> /\ c.open = a.open /\ c.subagents = a.subagents
      /\ c.next = a.next /\ Same(a, c)
  BY <1>t, EmitIs
<1>7. e.type = "open" /\ e.kind = kind /\ e.id = id /\ e.by = Owner(a, k)
      /\ Utterance(e) = [kind |-> kind, id |-> id, by |-> Owner(a, k)]
  BY DEF Utterance
<1>8. id \in Ids /\ id \in Nat /\ slot # NoSeq /\ slot.id = id
  BY <1>t DEF Ids, NoSeq
<1>9. Owner(a, k) \in Speakers /\ Owner(a, k) \in Range(a.subagents) \cup {Nobody}
  BY <1>t, OwnersSpeak
<1>10. e \in Event
  BY <1>8, <1>9 DEF Event
<1> HIDE DEF c, slot
<1>3. /\ IsAdapter(d) /\ d.out = c.out /\ d.open = [c.open EXCEPT ![kind][k] = slot] /\ d.subagents = c.subagents
      /\ Same(c, d)
  <2> DEFINE table == [c.open EXCEPT ![kind][k] = slot]
  <2>1. d = [c EXCEPT !.open = table]
    OBVIOUS
  <2> HIDE DEF d, table
  <2>2. IsAdapter(c)
    BY <1>2
  <2>3. IsAdapter(d) /\ d.out = c.out /\ d.open = table /\ d.subagents = c.subagents /\ Same(c, d)
    BY <2>1, <2>2 DEF IsAdapter, Same
  <2> QED
    BY <2>3 DEF table
<1> HIDE DEF d
<1>4. f.out = d.out /\ f.open = d.open /\ f.subagents = d.subagents /\ f.next = id /\ Same(d, f)
  BY <1>3 DEF IsAdapter, Same
<1> HIDE DEF f, b, e
<1>5. /\ b.out = a.out \o <<e>> /\ b.open = [a.open EXCEPT ![kind][k] = slot] /\ b.subagents = a.subagents
      /\ b.next = id /\ Same(a, b)
  BY <1>1, <1>2, <1>3, <1>4 DEF Same
<1>6. \A kind1 \in Kinds, k1 \in Keys :
         b.open[kind1][k1] = IF kind1 = kind /\ k1 = k THEN slot ELSE a.open[kind1][k1]
  BY <1>t, <1>5 DEF Voices, Tables
<1>11. Voices(b) /\ Delegated(b) /\ b.next <= MaxIds
  <2>1. Voices(b)
    BY <1>t, OpenKeeps DEF b
  <2> QED
    BY <1>t, <1>5, <2>1 DEF Delegated
<1>12. \A s \in Sequences(a) : s.id # id
  BY <1>t, IdsGiven
<1>13. Accepts(Believed(a, p, C), e)
  BY <1>7, <1>9, <1>12 DEF Accepts, Believed, Screen
<1>14. Sequences(a) \cup {Utterance(e)} = Sequences(b)
  <2> DEFINE s == [kind |-> kind, id |-> id, by |-> Owner(a, k)]
  <2>1. \A k1 \in Keys : Owner(b, k1) = Owner(a, k1)
    BY <1>5 DEF Owner
  <2>2. ASSUME NEW x \in Sequences(a)
        PROVE  x \in Sequences(b)
    <3>1. PICK kind1 \in Kinds, k1 \in Keys :
             a.open[kind1][k1] # NoSeq /\ x = [kind |-> kind1, id |-> a.open[kind1][k1].id, by |-> Owner(a, k1)]
      BY SequencesAre
    <3>2. ~(kind1 = kind /\ k1 = k)
      BY <3>1
    <3> QED
      BY <1>6, <2>1, <3>1, <3>2, SequencesAre
  <2>3. s \in Sequences(b)
    <3>1. b.open[kind][k] # NoSeq /\ b.open[kind][k].id = id
      BY <1>6, <1>8
    <3> QED
      BY <2>1, <3>1, SequencesAre
  <2>4. ASSUME NEW x \in Sequences(b)
        PROVE  x \in Sequences(a) \/ x = s
    <3>1. PICK kind1 \in Kinds, k1 \in Keys :
             b.open[kind1][k1] # NoSeq /\ x = [kind |-> kind1, id |-> b.open[kind1][k1].id, by |-> Owner(b, k1)]
      BY SequencesAre
    <3>2. CASE kind1 = kind /\ k1 = k
      BY <1>6, <1>8, <2>1, <3>1, <3>2
    <3>3. CASE ~(kind1 = kind /\ k1 = k)
      BY <1>6, <2>1, <3>1, <3>3, SequencesAre
    <3> QED
      BY <3>2, <3>3
  <2> QED
    BY <1>7, <2>2, <2>3, <2>4
<1>15. Take(Believed(a, p, C), e) = Believed(b, p, C)
  BY <1>5, <1>7, <1>14 DEF Take, Believed, Screen
<1>16. Leads(u, b, p, C)
  BY <1>5, <1>10, <1>11, <1>13, <1>15, LeadsOn
<1>17. b.open[kind][k] # NoSeq /\ b.next = a.next + 1
  BY <1>5, <1>6, <1>8
<1> QED
  BY <1>5, <1>6, <1>16, <1>17 DEF b

\* A piece of a sequence that is open.
LEMMA LeadsSay ==
    ASSUME StreamAssumption, NEW u, NEW a, NEW p, NEW C, Leads(u, a, p, C), UnderWay(p),
           NEW kind \in Kinds, NEW k \in Keys, a.open[kind][k] # NoSeq
    PROVE  LET b == Say(a, kind, k)
           IN Leads(u, b, p, C) /\ Same(a, b) /\ b.subagents = a.subagents /\ b.next = a.next /\ b.open = a.open
<1> DEFINE b == Say(a, kind, k)
           e == [type |-> "delta", kind |-> kind, id |-> a.open[kind][k].id, by |-> Owner(a, k)]
           s == [kind |-> kind, id |-> a.open[kind][k].id, by |-> Owner(a, k)]
<1>t. Voices(a) /\ Delegated(a) /\ a.next <= MaxIds /\ IsAdapter(a)
  BY DEF Leads, Voices
<1>1. /\ IsAdapter(b) /\ b.out = a.out \o <<e>> /\ b.open = a.open /\ b.subagents = a.subagents
      /\ b.next = a.next /\ Same(a, b)
  BY <1>t, EmitIs DEF Say
<1>2. e.type = "delta" /\ e.id = a.open[kind][k].id /\ Utterance(e) = s
  BY DEF Utterance
<1>3. e \in Event
  <2>1. a.open[kind][k].id \in Ids /\ Owner(a, k) \in Speakers
    BY <1>t, IdsGiven, OwnersSpeak
  <2> QED
    BY <2>1 DEF Event
<1> HIDE DEF b, e
<1>4. s \in Sequences(a) /\ \A x \in Sequences(a) : x.id = a.open[kind][k].id => x = s
  <2>1. s \in Sequences(a)
    BY SequencesAre
  <2> QED
    BY <1>t, <2>1, SequencesDiffer
<1>5. Accepts(Believed(a, p, C), e)
  BY <1>2, <1>4 DEF Accepts, Believed, Screen
<1>6. Sequences(b) = Sequences(a)
  BY <1>1 DEF Sequences, OpenKeys, Owner
<1>7. Take(Believed(a, p, C), e) = Believed(b, p, C)
  BY <1>1, <1>2, <1>6 DEF Take, Believed, Screen
<1>8. Voices(b) /\ Delegated(b) /\ b.next <= MaxIds
  BY <1>t, <1>1 DEF Voices, Delegated
<1>9. Leads(u, b, p, C)
  BY <1>1, <1>3, <1>5, <1>7, <1>8, LeadsOn
<1> QED
  BY <1>1, <1>9 DEF b

\* _process_text_content, _process_reasoning_content: within the bound they keep what the client
\* will see, and nothing is open after them that was not, but for the run's own.
LEMMA LeadsProcess ==
    ASSUME StreamAssumption, NEW u, NEW a, NEW p, NEW C, Leads(u, a, p, C), UnderWay(p),
           NEW kind \in Kinds, NEW k \in Keys, NEW r \in Keys, NEW content,
           Process(a, kind, k, r, content).next <= MaxIds
    PROVE  LET b == Process(a, kind, k, r, content)
           IN /\ Leads(u, b, p, C) /\ Same(a, b) /\ b.subagents = a.subagents
              /\ \A kind1 \in Kinds, k1 \in Keys : k1 # k => b.open[kind1][k1] = a.open[kind1][k1]
<1> DEFINE b == Close(a, Other(kind), k)
           c == IF k \in OpenKeys(b, kind) THEN b ELSE Open(b, kind, k, r)
<1>0. Other(kind) \in Kinds /\ Kinds = {kind, Other(kind)} /\ kind # Other(kind)
  BY DEF Other, Kinds
<1>1. CASE content = "absent"
  BY <1>1 DEF Process, Same
<1>2. CASE content = "empty"
  <2>1. Process(a, kind, k, r, content) = Close(a, kind, k)
    BY <1>2 DEF Process
  <2> QED
    BY <2>1, LeadsClose
<1>3. CASE content # "absent" /\ content # "empty"
  <2>1. /\ Leads(u, b, p, C) /\ Same(a, b) /\ b.subagents = a.subagents /\ b.next = a.next
        /\ \A kind1 \in Kinds, k1 \in Keys :
              b.open[kind1][k1] = IF kind1 = Other(kind) /\ k1 = k THEN NoSeq ELSE a.open[kind1][k1]
    <3>1. Other(kind) \in Kinds
      BY <1>0
    <3> QED
      BY <3>1, LeadsClose
  <2>2. Process(a, kind, k, r, content) = Say(c, kind, k)
    BY <1>3 DEF Process
  <2> HIDE DEF b
  <2>3. c.next <= MaxIds
    <3>1. c.next = Say(c, kind, k).next
      <4> HIDE DEF c
      <4>1. c.next = Emit(c, <<[type |-> "delta", kind |-> kind, id |-> c.open[kind][k].id, by |-> Owner(c, k)]>>).next
        BY DEF Emit
      <4> QED
        BY <4>1 DEF Say
    <3> QED
      BY <2>2, <3>1
  <2>4. /\ Leads(u, c, p, C) /\ Same(b, c) /\ c.subagents = b.subagents /\ c.open[kind][k] # NoSeq
        /\ \A kind1 \in Kinds, k1 \in Keys : k1 # k => c.open[kind1][k1] = b.open[kind1][k1]
    <3>1. CASE k \in OpenKeys(b, kind)
      BY <2>1, <3>1 DEF OpenKeys, Same
    <3>2. CASE k \notin OpenKeys(b, kind)
      <4>1. \A other \in Kinds : b.open[other][k] = NoSeq
        BY <1>0, <2>1, <3>2 DEF OpenKeys
      <4>2. c = Open(b, kind, k, r)
        BY <3>2
      <4>3. b.next < MaxIds
        <5>1. c.next = b.next + 1
          <6>1. IsAdapter(b)
            BY <2>1 DEF Leads, Voices
          <6> HIDE DEF c
          <6>2. c = [Emit(b, <<[type |-> "open", kind |-> kind, id |-> b.next + 1, by |-> Owner(b, k)]>>)
                        EXCEPT !.open[kind][k] = [id |-> b.next + 1, meta |-> r], !.next = b.next + 1]
            BY <4>2 DEF Open
          <6> QED
            BY <6>1, <6>2 DEF IsAdapter, Emit
        <5>2. b.next \in Nat /\ MaxIds \in Nat
          BY <2>1 DEF Leads, Voices, Tables, StreamAssumption
        <5> HIDE DEF c
        <5> QED
          BY <2>3, <5>1, <5>2
      <4> HIDE DEF c
      <4>4. LET d == Open(b, kind, k, r)
            IN /\ Leads(u, d, p, C) /\ Same(b, d) /\ d.subagents = b.subagents
               /\ d.next = b.next + 1 /\ d.open[kind][k] # NoSeq
               /\ \A kind1 \in Kinds, k1 \in Keys :
                     ~(kind1 = kind /\ k1 = k) => d.open[kind1][k1] = b.open[kind1][k1]
        BY <2>1, <4>1, <4>3, LeadsOpen
      <4> QED
        BY <4>2, <4>4
    <3> QED
      BY <3>1, <3>2
  <2> HIDE DEF c
  <2>5. /\ Leads(u, Say(c, kind, k), p, C) /\ Same(c, Say(c, kind, k))
        /\ Say(c, kind, k).subagents = c.subagents /\ Say(c, kind, k).open = c.open
    BY <2>4, LeadsSay
  <2>6. \A kind1 \in Kinds, k1 \in Keys : k1 # k => Say(c, kind, k).open[kind1][k1] = a.open[kind1][k1]
    BY <2>1, <2>4, <2>5
  <2> QED
    BY <2>1, <2>2, <2>4, <2>5, <2>6 DEF Same
<1> QED
  BY <1>1, <1>2, <1>3

-----------------------------------------------------------------------------
(* The bursts.                                                               *)

ClosedUp(a) == a.subagents = <<>> /\ \A kind \in Kinds, k \in Keys : a.open[kind][k] = NoSeq

\* A finite set listed: each of its elements once.
LEMMA Listed ==
    ASSUME NEW S, IsFiniteSet(S)
    PROVE  \E n \in Nat : /\ SetToSeq(S) \in [1..n -> S] /\ (n = 0 <=> S = {})
                          /\ \A i, j \in 1..n : SetToSeq(S)[i] = SetToSeq(S)[j] => i = j
                          /\ \A x \in S : \E i \in 1..n : SetToSeq(S)[i] = x
<1>1. PICK n \in Nat : ExistsBijection(1..n, S)
  BY FS_NatBijection
<1>2. n = Cardinality(S)
  BY <1>1, FS_CountingElements
<1>3. PICK f : f \in Bijection(1..n, S)
  BY <1>1, Fun_ExistsBij
<1>4. f \in [1..n -> S] /\ IsInjective(f)
  BY <1>3, Fun_BijectionProperties DEF IsInjective
<1> DEFINE g == SetToSeq(S)
<1>5. g \in [1..n -> S] /\ IsInjective(g)
  BY <1>2, <1>4 DEF SetToSeq
<1>6. \A i, j \in 1..n : g[i] = g[j] => i = j
  BY <1>5 DEF IsInjective
<1>7. g \in Surjection(1..n, S)
  <2>1. g \in Injection(1..n, S)
    BY <1>5, <1>6, Fun_IsInj
  <2>2. IsFiniteSet(1..n) /\ Cardinality(1..n) = n
    BY FS_Interval
  <2> HIDE DEF g
  <2> QED
    BY <1>2, <2>1, <2>2, FS_Injection
<1>8. \A x \in S : \E i \in 1..n : g[i] = x
  BY <1>7, Fun_SurjectionProperties
<1>9. n = 0 <=> S = {}
  <2>1. S = {} => n = 0
    BY <1>2, FS_EmptySet
  <2>2. n = 0 => S = {}
    <3>1. n = 0 => 1..n = {}
      OBVIOUS
    <3> QED
      BY <1>8, <3>1
  <2> QED
    BY <2>1, <2>2
<1> QED
  BY <1>5, <1>6, <1>8, <1>9

\* _close_all_reasoning, _close_all_text.
LEMMA LeadsCloseAll ==
    ASSUME StreamAssumption, NEW u, NEW a, NEW p, NEW C, Leads(u, a, p, C), NEW kind \in Kinds,
           UnderWay(p) \/ OpenKeys(a, kind) = {}
    PROVE  LET b == CloseAll(a, kind)
           IN /\ Leads(u, b, p, C) /\ Same(a, b) /\ b.subagents = a.subagents /\ b.next = a.next
              /\ \A kind1 \in Kinds, k1 \in Keys :
                    b.open[kind1][k1] = IF kind1 = kind THEN NoSeq ELSE a.open[kind1][k1]
<1> DEFINE S == OpenKeys(a, kind)
           ks == SetToSeq(S)
           es == [i \in DOMAIN ks |-> ClosingEvent(a, kind, ks[i])]
           c == Emit(a, es)
           none == [k \in Keys |-> NoSeq]
           table == [c.open EXCEPT ![kind] = none]
           b == CloseAll(a, kind)
<1>t. Voices(a) /\ Delegated(a) /\ a.next <= MaxIds /\ IsAdapter(a)
  BY DEF Leads, Voices
<1>1. b = [c EXCEPT !.open = table]
  BY DEF CloseAll
<1>2. /\ IsAdapter(c) /\ c.out = a.out \o es /\ c.open = a.open /\ c.subagents = a.subagents
      /\ c.next = a.next /\ Same(a, c)
  <2> HIDE DEF es
  <2> QED
    BY <1>t, EmitIs
<1>3. Voices(b)
  BY <1>t, CloseAllKeeps
<1>4. table = [a.open EXCEPT ![kind] = none]
  BY <1>2
<1>5. none = [k \in Keys |-> NoSeq] /\ es = [i \in DOMAIN ks |-> ClosingEvent(a, kind, ks[i])]
  OBVIOUS
<1> HIDE DEF b, c, table, es, none
<1>6. /\ b.out = a.out \o es /\ b.open = [a.open EXCEPT ![kind] = none] /\ b.subagents = a.subagents
      /\ b.next = a.next /\ Same(a, b)
  BY <1>1, <1>2, <1>4 DEF IsAdapter, Same
<1>7. \A kind1 \in Kinds, k1 \in Keys :
         b.open[kind1][k1] = IF kind1 = kind THEN NoSeq ELSE a.open[kind1][k1]
  BY <1>t, <1>5, <1>6 DEF Voices, Tables
<1>8. Delegated(b) /\ b.next <= MaxIds
  BY <1>t, <1>6 DEF Delegated
<1>9. IsFiniteSet(S)
  <2>0. IsFiniteSet({Top}) /\ IsFiniteSet({Nobody}) /\ {Top, Nobody} = {Top} \cup {Nobody}
    BY FS_Singleton
  <2>0a. IsFiniteSet({Top} \cup {Nobody})
    BY <2>0, FS_Union
  <2>1. IsFiniteSet(Members) /\ IsFiniteSet({Top, Nobody})
    BY <2>0, <2>0a DEF StreamAssumption
  <2>2. IsFiniteSet(Members \cup {Top, Nobody})
    BY <2>1, FS_Union
  <2>3. S \subseteq Members \cup {Top, Nobody}
    BY DEF OpenKeys, Keys, Runs
  <2> QED
    BY <2>2, <2>3, FS_Subset
<1>10. PICK n \in Nat : /\ ks \in [1..n -> S] /\ (n = 0 <=> S = {})
                        /\ \A i, j \in 1..n : ks[i] = ks[j] => i = j
                        /\ \A x \in S : \E i \in 1..n : ks[i] = x
  BY <1>9, Listed
<1> HIDE DEF ks
<1>11. \A k \in S : k \in Keys /\ a.open[kind][k] # NoSeq
  BY DEF OpenKeys
<1>12. \A k \in Keys : a.open[kind][k] # NoSeq => k \in S
  BY DEF OpenKeys
<1> HIDE DEF S
<1> DEFINE id(i) == a.open[kind][ks[i]].id
           own(i) == [kind |-> kind, id |-> id(i), by |-> Owner(a, ks[i])]
           Left(i) == {s \in Sequences(a) : \A j \in 1..i : s.kind # kind \/ s.id # id(j)}
<1>13. \A i \in 1..n : ks[i] \in S /\ ks[i] \in Keys /\ a.open[kind][ks[i]] # NoSeq
  BY <1>10, <1>11
<1>14. \A i \in 1..n : es[i] = [type |-> "close", kind |-> kind, id |-> id(i), by |-> Owner(a, ks[i])]
  BY <1>5, <1>10 DEF ClosingEvent
<1>15. \A i \in 1..n : es[i] \in Event /\ es[i].type = "close" /\ es[i].kind = kind /\ es[i].id = id(i)
                      /\ Utterance(es[i]) = own(i)
  <2> SUFFICES ASSUME NEW i \in 1..n
               PROVE  es[i] \in Event /\ es[i].type = "close" /\ es[i].kind = kind /\ es[i].id = id(i)
                      /\ Utterance(es[i]) = own(i)
    OBVIOUS
  <2>1. id(i) \in Ids /\ Owner(a, ks[i]) \in Speakers
    BY <1>t, <1>13, IdsGiven, OwnersSpeak
  <2>2. es[i] = [type |-> "close", kind |-> kind, id |-> id(i), by |-> Owner(a, ks[i])]
    BY <1>14
  <2>3. es[i] \in Event
    BY <2>1, <2>2 DEF Event
  <2> QED
    BY <2>2, <2>3 DEF Utterance
<1>16. es \in Seq(Event) /\ Len(es) = n
  <2>1. DOMAIN ks = 1..n
    BY <1>10
  <2>2. es \in [1..n -> Event]
    BY <1>5, <1>15, <2>1
  <2> QED
    BY <2>2
<1>17. Left(0) = Sequences(a)
  OBVIOUS
<1>18. \A i \in 1..n : Left(i) = {s \in Left(i-1) : s.kind # kind \/ s.id # id(i)}
  <2> SUFFICES ASSUME NEW i \in 1..n
               PROVE  Left(i) = {s \in Left(i-1) : s.kind # kind \/ s.id # id(i)}
    OBVIOUS
  <2>1. 1..i = (1..(i-1)) \cup {i}
    OBVIOUS
  <2> HIDE DEF id
  <2> QED
    BY <2>1
<1>19. Left(n) = Sequences(b)
  <2>1. \A k \in Keys : Owner(b, k) = Owner(a, k)
    BY <1>6 DEF Owner
  <2>2. ASSUME NEW s \in Left(n)
        PROVE  s \in Sequences(b)
    <3>1. PICK kind1 \in Kinds, k1 \in Keys :
             a.open[kind1][k1] # NoSeq /\ s = [kind |-> kind1, id |-> a.open[kind1][k1].id, by |-> Owner(a, k1)]
      BY SequencesAre
    <3>2. kind1 # kind
      <4>1. SUFFICES ASSUME kind1 = kind
                     PROVE  FALSE
        OBVIOUS
      <4>2. PICK i \in 1..n : ks[i] = k1
        BY <1>10, <1>12, <3>1, <4>1
      <4> QED
        BY <3>1, <4>1, <4>2
    <3> QED
      BY <1>7, <2>1, <3>1, <3>2, SequencesAre
  <2>3. ASSUME NEW s \in Sequences(b)
        PROVE  s \in Left(n)
    <3>1. PICK kind1 \in Kinds, k1 \in Keys :
             b.open[kind1][k1] # NoSeq /\ s = [kind |-> kind1, id |-> b.open[kind1][k1].id, by |-> Owner(b, k1)]
      BY SequencesAre
    <3>2. kind1 # kind /\ b.open[kind1][k1] = a.open[kind1][k1] /\ s.kind # kind
      BY <1>7, <3>1
    <3>3. s \in Sequences(a)
      BY <2>1, <3>1, <3>2, SequencesAre
    <3> QED
      BY <3>2, <3>3
  <2> QED
    BY <2>2, <2>3
<1>20. \A i \in 1..n : own(i) \in Left(i-1) /\ \A s \in Left(i-1) : s.id = id(i) => s = own(i)
  <2> SUFFICES ASSUME NEW i \in 1..n
               PROVE  own(i) \in Left(i-1) /\ \A s \in Left(i-1) : s.id = id(i) => s = own(i)
    OBVIOUS
  <2>1. own(i) \in Sequences(a)
    BY <1>13, SequencesAre
  <2>2. \A s \in Sequences(a) : s.id = id(i) => s = own(i)
    BY <1>t, <1>13, SequencesDiffer
  <2>3. ASSUME NEW j \in 1..(i-1)
        PROVE  own(i).id # id(j)
    <3>1. j \in 1..n /\ j # i
      OBVIOUS
    <3>2. ks[j] # ks[i]
      BY <1>10, <3>1
    <3>3. id(i) # id(j)
      BY <1>t, <1>13, <3>1, <3>2 DEF Voices, Tables
    <3> QED
      BY <3>3
  <2> QED
    BY <2>1, <2>2, <2>3
<1> HIDE DEF id, own, Left
<1> DEFINE ws == [i \in 0..n |-> Screen(p, Left(i), Range(a.subagents), C)]
<1>21. \A i \in 0..n : ws[i] = Screen(p, Left(i), Range(a.subagents), C)
  OBVIOUS
<1> HIDE DEF ws
<1>22. ASSUME NEW i \in 1..n
       PROVE  Accepts(ws[i-1], es[i]) /\ ws[i] = Take(ws[i-1], es[i])
  <2>1. i \in 0..n /\ i - 1 \in 0..n
    OBVIOUS
  <2>2. ws[i] = Screen(p, Left(i), Range(a.subagents), C)
    BY <1>21, <2>1
  <2>3. ws[i-1] = Screen(p, Left(i-1), Range(a.subagents), C)
    BY <1>21, <2>1
  <2>4. UnderWay(p)
    <3>1. n # 0
      OBVIOUS
    <3> QED
      BY <1>10, <3>1 DEF S
  <2>5. es[i].type = "close" /\ es[i].kind = kind /\ es[i].id = id(i) /\ Utterance(es[i]) = own(i)
    BY <1>15
  <2>6. own(i) \in Left(i-1) /\ \A s \in Left(i-1) : s.id = id(i) => s = own(i)
    BY <1>20
  <2>7. Left(i) = {s \in Left(i-1) : s.kind # kind \/ s.id # id(i)}
    BY <1>18
  <2>8. Accepts(ws[i-1], es[i])
    BY <2>3, <2>4, <2>5, <2>6 DEF Accepts, Screen
  <2>9. Take(ws[i-1], es[i]) = ws[i]
    BY <2>2, <2>3, <2>5, <2>7 DEF Take, Screen
  <2> QED
    BY <2>8, <2>9
<1>23. ws[0] = Believed(a, p, C) /\ ws[n] = Believed(b, p, C)
  <2>1. ws[0] = Screen(p, Left(0), Range(a.subagents), C) /\ ws[n] = Screen(p, Left(n), Range(a.subagents), C)
    BY <1>21
  <2> QED
    BY <1>6, <1>17, <1>19, <2>1 DEF Believed
<1>24. Led(Believed(a, p, C), es, Believed(b, p, C))
  BY <1>16, <1>22, <1>23 DEF Led
<1>25. Leads(u, b, p, C)
  <2>1. Led(u, a.out \o es, Believed(b, p, C))
    BY <1>24, LedJoin DEF Leads
  <2> QED
    BY <1>3, <1>6, <1>8, <2>1 DEF Leads
<1> QED
  BY <1>6, <1>7, <1>25 DEF b

\* _close_subagents, once nothing is being said.
LEMMA LeadsCloseSubagents ==
    ASSUME StreamAssumption, NEW u, NEW a, NEW p, NEW C, Leads(u, a, p, C),
           \A kind \in Kinds, k \in Keys : a.open[kind][k] = NoSeq,
           UnderWay(p) \/ a.subagents = <<>>
    PROVE  LET b == CloseSubagents(a)
           IN /\ Leads(u, b, p, C) /\ Same(a, b) /\ b.subagents = <<>> /\ b.next = a.next /\ b.open = a.open
<1> DEFINE subs == a.subagents
           n == Len(subs)
           ms == Reverse(subs)
           es == [i \in DOMAIN ms |-> [type |-> "agent_finished", run |-> ms[i]]]
           c == Emit(a, es)
           b == CloseSubagents(a)
<1>t. Voices(a) /\ Delegated(a) /\ a.next <= MaxIds /\ IsAdapter(a)
  BY DEF Leads, Voices
<1>1. b = [c EXCEPT !.subagents = <<>>]
  BY DEF CloseSubagents
<1>2. /\ IsAdapter(c) /\ c.out = a.out \o es /\ c.open = a.open /\ c.subagents = a.subagents
      /\ c.next = a.next /\ Same(a, c)
  <2> HIDE DEF es
  <2> QED
    BY <1>t, EmitIs
<1>3. es = [i \in DOMAIN ms |-> [type |-> "agent_finished", run |-> ms[i]]]
  OBVIOUS
<1> HIDE DEF b, c, es
<1>4. /\ IsAdapter(b) /\ b.out = a.out \o es /\ b.open = a.open /\ b.subagents = <<>>
      /\ b.next = a.next /\ Same(a, b)
  BY <1>1, <1>2 DEF IsAdapter, Same
<1>5. Voices(b) /\ Delegated(b) /\ b.next <= MaxIds
  <2>1. Voices(b)
    BY <1>t, <1>4 DEF Voices
  <2>2. <<>> \in Seq(Members) /\ IsInjective(<<>>)
    BY DEF IsInjective
  <2> QED
    BY <1>t, <1>4, <2>1, <2>2 DEF Delegated
<1>6. Sequences(a) = {} /\ Sequences(b) = {}
  BY <1>4, SequencesAre
<1>7. subs \in Seq(Members) /\ n \in Nat /\ DOMAIN subs = 1..n
      /\ \A i, j \in 1..n : subs[i] = subs[j] => i = j
  <2>1. subs \in Seq(Members) /\ n \in Nat /\ DOMAIN subs = 1..n
    BY <1>t DEF Delegated
  <2>2. IsInjective(subs)
    BY <1>t DEF Delegated
  <2> QED
    BY <2>1, <2>2 DEF IsInjective
<1>8. ms = [i \in 1..n |-> subs[(n - i) + 1]]
  BY DEF Reverse
<1> HIDE DEF ms, n, subs
<1>9. \A i \in 1..n : (n - i) + 1 \in 1..n /\ ms[i] = subs[(n - i) + 1] /\ ms[i] \in Members
  BY <1>7, <1>8
<1>10. DOMAIN ms = 1..n
  BY <1>8
<1>11. \A i \in 1..n : es[i] = [type |-> "agent_finished", run |-> ms[i]]
  BY <1>3, <1>10
<1>12. \A i \in 1..n : es[i] \in Event /\ es[i].type = "agent_finished" /\ es[i].run = ms[i]
  <2> SUFFICES ASSUME NEW i \in 1..n
               PROVE  es[i] \in Event /\ es[i].type = "agent_finished" /\ es[i].run = ms[i]
    OBVIOUS
  <2>1. ms[i] \in Members /\ es[i] = [type |-> "agent_finished", run |-> ms[i]]
    BY <1>9, <1>11
  <2>2. es[i] \in [type : {"agent_finished", "agent_error"}, run : Members]
    BY <2>1
  <2>3. es[i] \in Event
    BY <2>2 DEF Event
  <2> QED
    BY <2>1, <2>3
<1>13. es \in Seq(Event) /\ Len(es) = n
  <2>1. es \in [1..n -> Event]
    BY <1>3, <1>10, <1>12
  <2> QED
    BY <1>7, <2>1
<1> DEFINE Left(i) == {subs[j] : j \in 1..(n - i)}
           ws == [i \in 0..n |-> Screen(p, {}, Left(i), C)]
<1>14. \A i \in 0..n : ws[i] = Screen(p, {}, Left(i), C)
  OBVIOUS
<1> HIDE DEF ws
<1>15. ASSUME NEW i \in 1..n
       PROVE  ms[i] \in Left(i-1) /\ Left(i) = Left(i-1) \ {ms[i]}
  <2> DEFINE j == (n - i) + 1
  <2>1. j \in 1..n /\ 1..(n - (i - 1)) = (1..(n - i)) \cup {j} /\ j \notin 1..(n - i) /\ 1..(n - i) \subseteq 1..n
    BY <1>7
  <2>2. ms[i] = subs[j]
    BY <1>9
  <2> HIDE DEF j
  <2>3. \A l \in 1..(n - i) : subs[l] # subs[j]
    BY <1>7, <2>1
  <2> QED
    BY <2>1, <2>2, <2>3
<1>16. ASSUME NEW i \in 1..n
       PROVE  Accepts(ws[i-1], es[i]) /\ ws[i] = Take(ws[i-1], es[i])
  <2>1. i \in 0..n /\ i - 1 \in 0..n
    BY <1>7
  <2>2. ws[i] = Screen(p, {}, Left(i), C)
    BY <1>14, <2>1
  <2>3. ws[i-1] = Screen(p, {}, Left(i-1), C)
    BY <1>14, <2>1
  <2>4. UnderWay(p)
    <3>1. n # 0
      BY <1>7
    <3>2. subs # <<>>
      BY <1>7, <3>1 DEF n
    <3> QED
      BY <3>2 DEF subs
  <2>5. es[i].type = "agent_finished" /\ es[i].run = ms[i]
    BY <1>12
  <2>6. ms[i] \in Left(i-1) /\ Left(i) = Left(i-1) \ {ms[i]}
    BY <1>15
  <2> HIDE DEF Left
  <2>7. Accepts(ws[i-1], es[i])
    BY <2>3, <2>4, <2>5, <2>6 DEF Accepts, Screen
  <2>8. Take(ws[i-1], es[i]) = ws[i]
    BY <2>2, <2>3, <2>5, <2>6 DEF Take, Screen
  <2> QED
    BY <2>7, <2>8
<1>17. Left(0) = Range(a.subagents) /\ Left(n) = Range(b.subagents)
  <2>1. Left(0) = Range(subs)
    BY <1>7 DEF Range
  <2>2. Left(n) = {}
    BY <1>7
  <2>3. Range(<<>>) = {}
    BY DEF Range
  <2> QED
    BY <1>4, <2>1, <2>2, <2>3 DEF subs
<1>18. ws[0] = Believed(a, p, C) /\ ws[n] = Believed(b, p, C)
  <2> HIDE DEF Left
  <2>0. 0 \in 0..n /\ n \in 0..n
    BY <1>7
  <2>1. ws[0] = Screen(p, {}, Left(0), C) /\ ws[n] = Screen(p, {}, Left(n), C)
    BY <1>14, <2>0
  <2> QED
    BY <1>6, <1>17, <2>1 DEF Believed
<1>19. Led(Believed(a, p, C), es, Believed(b, p, C))
  BY <1>13, <1>16, <1>18 DEF Led
<1>20. Leads(u, b, p, C)
  <2>1. Led(u, a.out \o es, Believed(b, p, C))
    BY <1>19, LedJoin DEF Leads
  <2> QED
    BY <1>4, <1>5, <2>1 DEF Leads
<1> QED
  BY <1>4, <1>20 DEF b

\* flush, and what the end of a run closes.
LEMMA LeadsCloseEverything ==
    ASSUME StreamAssumption, NEW u, NEW a, NEW p, NEW C, Leads(u, a, p, C), UnderWay(p) \/ ClosedUp(a)
    PROVE  LET b == CloseEverything(a)
           IN Leads(u, b, p, C) /\ Same(a, b) /\ b.next = a.next /\ ClosedUp(b)
<1> DEFINE b == CloseAll(a, "text")
           c == CloseAll(b, "reasoning")
           d == CloseSubagents(c)
<1>1. Kinds = {"text", "reasoning"} /\ "text" \in Kinds /\ "reasoning" \in Kinds
  BY DEF Kinds
<1>2. UnderWay(p) \/ OpenKeys(a, "text") = {}
  BY <1>1 DEF ClosedUp, OpenKeys
<1>3. /\ Leads(u, b, p, C) /\ Same(a, b) /\ b.subagents = a.subagents /\ b.next = a.next
      /\ \A kind1 \in Kinds, k1 \in Keys :
            b.open[kind1][k1] = IF kind1 = "text" THEN NoSeq ELSE a.open[kind1][k1]
  BY <1>1, <1>2, LeadsCloseAll
<1> HIDE DEF b
<1>4. UnderWay(p) \/ OpenKeys(b, "reasoning") = {}
  BY <1>1, <1>3 DEF ClosedUp, OpenKeys
<1>5. /\ Leads(u, c, p, C) /\ Same(b, c) /\ c.subagents = b.subagents /\ c.next = b.next
      /\ \A kind1 \in Kinds, k1 \in Keys :
            c.open[kind1][k1] = IF kind1 = "reasoning" THEN NoSeq ELSE b.open[kind1][k1]
  <2>1. Leads(u, b, p, C) /\ "reasoning" \in Kinds
    BY <1>1, <1>3
  <2> QED
    BY <1>4, <2>1, LeadsCloseAll
<1> HIDE DEF c
<1>6. \A kind \in Kinds, k \in Keys : c.open[kind][k] = NoSeq
  BY <1>1, <1>3, <1>5
<1>7. UnderWay(p) \/ c.subagents = <<>>
  BY <1>3, <1>5 DEF ClosedUp
<1>8. Leads(u, d, p, C) /\ Same(c, d) /\ d.subagents = <<>> /\ d.next = c.next /\ d.open = c.open
  BY <1>5, <1>6, <1>7, LeadsCloseSubagents
<1>9. CloseEverything(a) = d
  BY DEF CloseEverything, b, c
<1> HIDE DEF d
<1> QED
  BY <1>3, <1>5, <1>6, <1>8, <1>9 DEF Same, ClosedUp

-----------------------------------------------------------------------------
(* Delegations, calls and the events of the run itself.                      *)

\* A delegation that is over is taken out, the others stay in their order.
LEMMA PoppedIs ==
    ASSUME NEW S, NEW s \in Seq(S), IsInjective(s), NEW m \in Range(s)
    PROVE  Popped(s, m) \in Seq(S) /\ IsInjective(Popped(s, m)) /\ Range(Popped(s, m)) = Range(s) \ {m}
<1> DEFINE n == Len(s)
           i == CHOOSE j \in DOMAIN s : s[j] = m
           t == Popped(s, m)
<1>1. n \in Nat /\ DOMAIN s = 1..n
  OBVIOUS
<1>2. i \in 1..n /\ s[i] = m
  BY <1>1 DEF Range
<1>3. \A j, k \in 1..n : s[j] = s[k] => j = k
  BY <1>1 DEF IsInjective
<1>4. t = SubSeq(s, 1, i-1) \o SubSeq(s, i+1, n)
  BY DEF Popped, RemoveAt
<1> HIDE DEF i, t, n
<1>5. /\ SubSeq(s, 1, i-1) \in Seq(S) /\ Len(SubSeq(s, 1, i-1)) = i-1
      /\ \A j \in 1..(i-1) : SubSeq(s, 1, i-1)[j] = s[j]
  <2>1. n = Len(s)
    BY DEF n
  <2> QED
    BY <1>1, <1>2, <2>1
<1>6. /\ SubSeq(s, i+1, n) \in Seq(S) /\ Len(SubSeq(s, i+1, n)) = n-i
      /\ \A j \in 1..(n-i) : SubSeq(s, i+1, n)[j] = s[i+j]
  <2>1. n = Len(s)
    BY DEF n
  <2>2. \A j \in 1..(n-i) : i+1+j-1 = i+j
    BY <1>1, <1>2
  <2>3. /\ SubSeq(s, i+1, n) \in Seq(S) /\ Len(SubSeq(s, i+1, n)) = n-i
        /\ \A j \in 1..(n-i) : SubSeq(s, i+1, n)[j] = s[i+1+j-1]
    <3>1. i+1 \in 1..(n+1) /\ n \in i..n /\ i \in Nat
      BY <1>1, <1>2
    <3>2. \A x \in Nat \ {0} : \A y \in Nat : y <= n /\ x <= y+1 =>
             /\ SubSeq(s, x, y) \in Seq(S) /\ Len(SubSeq(s, x, y)) = y-x+1
             /\ \A j \in 1..(y-x+1) : SubSeq(s, x, y)[j] = s[x+j-1]
      BY <2>1
    <3> QED
      BY <1>1, <3>1, <3>2
  <2> QED
    BY <2>2, <2>3
<1>7. t \in Seq(S) /\ Len(t) = n-1 /\ \A j \in 1..(n-1) : t[j] = IF j < i THEN s[j] ELSE s[j+1]
  <2>1. t \in Seq(S) /\ Len(t) = n-1
    BY <1>1, <1>2, <1>4, <1>5, <1>6
  <2>2. ASSUME NEW j \in 1..(n-1)
        PROVE  t[j] = IF j < i THEN s[j] ELSE s[j+1]
    <3>1. CASE j < i
      BY <1>1, <1>2, <1>4, <1>5, <1>6, <3>1
    <3>2. CASE ~(j < i)
      <4>1. j - (i-1) \in 1..(n-i) /\ i + (j - (i-1)) = j+1
        BY <1>1, <1>2, <3>2
      <4>2. t[j] = SubSeq(s, i+1, n)[j - (i-1)]
        <5> DEFINE x == SubSeq(s, 1, i-1)
                   y == SubSeq(s, i+1, n)
        <5>1. x \in Seq(S) /\ Len(x) = i-1 /\ y \in Seq(S) /\ Len(y) = n-i /\ t = x \o y
          BY <1>4, <1>5, <1>6
        <5> HIDE DEF x, y
        <5>2. \A l \in 1..(i-1)+(n-i) : t[l] = IF l <= i-1 THEN x[l] ELSE y[l - (i-1)]
          BY <5>1, ConcatProperties
        <5>3. j \in 1..(i-1)+(n-i) /\ ~(j <= i-1)
          BY <1>1, <1>2, <3>2
        <5>4. t[j] = y[j - (i-1)]
          BY <5>2, <5>3
        <5> QED
          BY <5>4 DEF y
      <4> QED
        BY <1>6, <3>2, <4>1, <4>2
    <3> QED
      BY <3>1, <3>2
  <2> QED
    BY <2>1, <2>2
<1>8. DOMAIN t = 1..(n-1)
  BY <1>7
<1>9. IsInjective(t)
  <2>1. ASSUME NEW j \in 1..(n-1), NEW k \in 1..(n-1), t[j] = t[k]
        PROVE  j = k
    <3>1. \A l \in 1..(n-1) : \E x \in 1..n : t[l] = s[x] /\ x = IF l < i THEN l ELSE l+1
      <4> SUFFICES ASSUME NEW l \in 1..(n-1)
                   PROVE  \E x \in 1..n : t[l] = s[x] /\ x = IF l < i THEN l ELSE l+1
        OBVIOUS
      <4>1. l \in 1..n /\ l+1 \in 1..n
        BY <1>1
      <4> QED
        BY <1>7, <4>1
    <3>2. PICK x \in 1..n : t[j] = s[x] /\ x = IF j < i THEN j ELSE j+1
      BY <3>1
    <3>3. PICK y \in 1..n : t[k] = s[y] /\ y = IF k < i THEN k ELSE k+1
      BY <3>1
    <3>4. x = y
      BY <1>3, <2>1, <3>2, <3>3
    <3> QED
      BY <1>1, <1>2, <3>2, <3>3, <3>4
  <2> QED
    BY <1>8, <2>1 DEF IsInjective
<1>10. Range(t) = Range(s) \ {m}
  <2>1. ASSUME NEW j \in 1..(n-1)
        PROVE  t[j] \in Range(s) /\ t[j] # m
    <3>1. CASE j < i
      <4>1. j \in 1..n /\ j # i /\ t[j] = s[j]
        BY <1>1, <1>2, <1>7, <3>1
      <4> QED
        BY <1>1, <1>2, <1>3, <4>1 DEF Range
    <3>2. CASE ~(j < i)
      <4>1. j+1 \in 1..n /\ j+1 # i /\ t[j] = s[j+1]
        BY <1>1, <1>2, <1>7, <3>2
      <4> QED
        BY <1>1, <1>2, <1>3, <4>1 DEF Range
    <3> QED
      BY <3>1, <3>2
  <2>2. ASSUME NEW k \in 1..n, s[k] # m
        PROVE  s[k] \in Range(t)
    <3>1. CASE k < i
      <4>1. k \in 1..(n-1) /\ t[k] = s[k]
        BY <1>1, <1>2, <1>7, <3>1
      <4> QED
        BY <1>8, <4>1 DEF Range
    <3>2. CASE ~(k < i)
      <4>1. k # i
        BY <1>2, <2>2
      <4>2. k-1 \in 1..(n-1) /\ ~(k-1 < i) /\ (k-1)+1 = k
        BY <1>1, <1>2, <3>2, <4>1
      <4>3. t[k-1] = s[k]
        BY <1>7, <4>2
      <4> QED
        BY <1>8, <4>2, <4>3 DEF Range
    <3> QED
      BY <3>1, <3>2
  <2>3. \A x \in Range(t) : x \in Range(s) /\ x # m
    BY <1>8, <2>1 DEF Range
  <2>4. \A x \in Range(s) : x # m => x \in Range(t)
    BY <1>1, <2>2 DEF Range
  <2> QED
    BY <2>3, <2>4
<1> QED
  BY <1>7, <1>9, <1>10 DEF t

\* A change of the fields that no operator on sequences touches.
LEMMA LeadsField ==
    ASSUME NEW u, NEW a, NEW b, NEW p, NEW C, Leads(u, a, p, C), IsAdapter(b),
           b.out = a.out, b.open = a.open, b.subagents = a.subagents, b.next = a.next
    PROVE  Leads(u, b, p, C)
<1>1. Sequences(b) = Sequences(a)
  BY DEF Sequences, OpenKeys, Owner
<1>2. Believed(b, p, C) = Believed(a, p, C)
  BY <1>1 DEF Believed
<1>3. Voices(b) /\ Delegated(b)
  BY DEF Leads, Voices, Delegated
<1> QED
  BY <1>2, <1>3 DEF Leads

\* An event that changes no table.
LEMMA LeadsEmit ==
    ASSUME NEW u, NEW a, NEW e \in Event, NEW p, NEW q, NEW C, NEW D, Leads(u, a, p, C),
           Accepts(Believed(a, p, C), e), Take(Believed(a, p, C), e) = Believed(a, q, D)
    PROVE  LET b == Emit(a, <<e>>)
           IN /\ Leads(u, b, q, D) /\ IsAdapter(b) /\ Same(a, b) /\ b.subagents = a.subagents
              /\ b.next = a.next /\ b.open = a.open
<1> DEFINE b == Emit(a, <<e>>)
<1>1. IsAdapter(a) /\ Voices(a) /\ Delegated(a) /\ a.next <= MaxIds
  BY DEF Leads, Voices
<1>2. /\ IsAdapter(b) /\ b.out = a.out \o <<e>> /\ b.open = a.open /\ b.subagents = a.subagents
      /\ b.next = a.next /\ Same(a, b)
  BY <1>1, EmitIs
<1> HIDE DEF b
<1>3. Sequences(b) = Sequences(a)
  BY <1>2 DEF Sequences, OpenKeys, Owner
<1>4. Believed(b, q, D) = Believed(a, q, D)
  BY <1>2, <1>3 DEF Believed
<1>5. Voices(b) /\ Delegated(b) /\ b.next <= MaxIds
  BY <1>1, <1>2 DEF Voices, Delegated
<1>6. Leads(u, b, q, D)
  BY <1>2, <1>4, <1>5, LeadsOn
<1> QED
  BY <1>2, <1>6 DEF b

\* RUN_STARTED, RUN_FINISHED and RUN_ERROR.
LEMMA LeadsRun ==
    ASSUME NEW u, NEW a, NEW p, NEW C, Leads(u, a, p, C), NEW run \in RunIds \ {"none"}
    PROVE  /\ p = "idle" => Leads(u, Emit(a, <<[type |-> "run_started", run |-> run]>>), "running", C)
           /\ UnderWay(p) /\ ClosedUp(a) =>
                 /\ Leads(u, Emit(a, <<[type |-> "run_finished", run |-> run]>>), "over", C)
                 /\ Leads(u, Emit(a, <<[type |-> "run_error"]>>), "over", C)
<1> DEFINE s == [type |-> "run_started", run |-> run]
           f == [type |-> "run_finished", run |-> run]
           x == [type |-> "run_error"]
<1>1. s.type = "run_started" /\ f.type = "run_finished" /\ x.type = "run_error"
  OBVIOUS
<1>2. s \in Event /\ f \in Event /\ x \in Event
  <2>1. /\ s \in [type : {"run_started", "run_finished"}, run : RunIds \ {"none"}]
        /\ f \in [type : {"run_started", "run_finished"}, run : RunIds \ {"none"}]
        /\ x \in [type : {"run_error"}]
    OBVIOUS
  <2> HIDE DEF s, f, x
  <2> QED
    BY <2>1 DEF Event
<1> HIDE DEF s, f, x
<1>3. ASSUME p = "idle"
      PROVE  Leads(u, Emit(a, <<s>>), "running", C)
  <2>1. Accepts(Believed(a, p, C), s)
    BY <1>1, <1>3 DEF Accepts, Believed, Screen
  <2>2. Take(Believed(a, p, C), s) = Believed(a, "running", C)
    BY <1>1 DEF Take, Believed, Screen
  <2> QED
    BY <1>2, <2>1, <2>2, LeadsEmit
<1>4. ASSUME UnderWay(p), ClosedUp(a), NEW e \in {f, x}
      PROVE  Leads(u, Emit(a, <<e>>), "over", C)
  <2>1. Sequences(a) = {}
    BY <1>4, SequencesAre DEF ClosedUp
  <2>2. Range(a.subagents) = {}
    BY <1>4 DEF ClosedUp, Range
  <2>3. e.type \in {"run_finished", "run_error"} /\ e \in Event
    BY <1>1, <1>2
  <2>4. Accepts(Believed(a, p, C), e)
    BY <1>4, <2>1, <2>2, <2>3 DEF Accepts, Believed, Screen
  <2>5. Take(Believed(a, p, C), e) = Believed(a, "over", C)
    BY <2>3 DEF Take, Believed, Screen
  <2> QED
    BY <2>3, <2>4, <2>5, LeadsEmit
<1>5. p = "idle" => Leads(u, Emit(a, <<s>>), "running", C)
  BY <1>3
<1>6. UnderWay(p) /\ ClosedUp(a) => Leads(u, Emit(a, <<f>>), "over", C) /\ Leads(u, Emit(a, <<x>>), "over", C)
  BY <1>4
<1> QED
  BY <1>5, <1>6 DEF s, f, x

\* TOOL_CALL_START and TOOL_CALL_END.
LEMMA LeadsCall ==
    ASSUME StreamAssumption, NEW u, NEW a, NEW p, NEW C, Leads(u, a, p, C), UnderWay(p),
           NEW t \in Tools, NEW k \in Keys
    PROVE  /\ t \notin C => Leads(u, Emit(a, <<ToolEvents(a, t, k).start>>), p, C \cup {t})
           /\ t \in C => Leads(u, Emit(a, <<ToolEvents(a, t, k).end>>), p, C \ {t})
<1> DEFINE s == ToolEvents(a, t, k).start
           f == ToolEvents(a, t, k).end
<1>1. /\ s = [type |-> "tool_start", tool |-> t, by |-> Owner(a, k)]
      /\ f = [type |-> "tool_end", tool |-> t, by |-> Owner(a, k)]
  BY DEF ToolEvents
<1>2. Owner(a, k) \in Range(a.subagents) \cup {Nobody} /\ Owner(a, k) \in Speakers
  BY OwnersSpeak DEF Leads
<1>3. s.type = "tool_start" /\ s.tool = t /\ s.by = Owner(a, k) /\ f.type = "tool_end" /\ f.tool = t
  BY <1>1
<1>4. s \in Event /\ f \in Event
  BY <1>1, <1>2 DEF Event
<1> HIDE DEF s, f
<1>5. ASSUME t \notin C
      PROVE  Leads(u, Emit(a, <<s>>), p, C \cup {t})
  <2>1. Accepts(Believed(a, p, C), s)
    BY <1>2, <1>3, <1>5 DEF Accepts, Believed, Screen
  <2>2. Take(Believed(a, p, C), s) = Believed(a, p, C \cup {t})
    BY <1>3 DEF Take, Believed, Screen
  <2> QED
    BY <1>4, <2>1, <2>2, LeadsEmit
<1>6. ASSUME t \in C
      PROVE  Leads(u, Emit(a, <<f>>), p, C \ {t})
  <2>1. Accepts(Believed(a, p, C), f)
    BY <1>3, <1>6 DEF Accepts, Believed, Screen
  <2>2. Take(Believed(a, p, C), f) = Believed(a, p, C \ {t})
    BY <1>3 DEF Take, Believed, Screen
  <2> QED
    BY <1>4, <2>1, <2>2, LeadsEmit
<1> QED
  BY <1>5, <1>6 DEF s, f

-----------------------------------------------------------------------------
(* The handlers that do several of these.                                    *)

\* What MemberStarted does to the adapter, once the parent's sequences are closed.
Joined(a, m, k) ==
    [Emit(a, <<[type |-> "agent_started", run |-> m, parent |-> Owner(a, k)]>>) EXCEPT !.subagents = Append(@, m)]

\* SUBAGENT_STARTED.
LEMMA LeadsMember ==
    ASSUME StreamAssumption, NEW u, NEW a, NEW p, NEW C, Leads(u, a, p, C), UnderWay(p),
           NEW m \in Members, m \notin Range(a.subagents), NEW k \in Keys,
           \A kind \in Kinds : a.open[kind][m] = NoSeq
    PROVE  LET b == Joined(a, m, k)
           IN /\ Leads(u, b, p, C) /\ Same(a, b) /\ b.next = a.next /\ b.open = a.open
              /\ Range(b.subagents) = Range(a.subagents) \cup {m}
<1> DEFINE e == [type |-> "agent_started", run |-> m, parent |-> Owner(a, k)]
           c == Emit(a, <<e>>)
           subs == Append(a.subagents, m)
           b == [c EXCEPT !.subagents = subs]
<1>t. Voices(a) /\ Delegated(a) /\ a.next <= MaxIds /\ IsAdapter(a)
  BY DEF Leads, Voices
<1>1. /\ IsAdapter(c) /\ c.out = a.out \o <<e>> /\ c.open = a.open /\ c.subagents = a.subagents
      /\ c.next = a.next /\ Same(a, c)
  <2> HIDE DEF e
  <2> QED
    BY <1>t, EmitIs
<1>2. Joined(a, m, k) = b
  BY <1>1 DEF Joined
<1>3. e.type = "agent_started" /\ e.run = m /\ e.parent = Owner(a, k)
  OBVIOUS
<1>4. Owner(a, k) \in Range(a.subagents) \cup {Nobody} /\ Owner(a, k) \in Speakers
  BY <1>t, OwnersSpeak
<1>5. e \in Event
  BY <1>4 DEF Event
<1>6. subs \in Seq(Members) /\ IsInjective(subs) /\ Range(subs) = Range(a.subagents) \cup {m}
  <2> DEFINE s == a.subagents
             n == Len(s)
  <2>1. s \in Seq(Members) /\ n \in Nat /\ DOMAIN s = 1..n /\ IsInjective(s)
    BY <1>t DEF Delegated
  <2>2. /\ subs \in Seq(Members) /\ DOMAIN subs = 1..(n+1)
        /\ \A i \in 1..n : subs[i] = s[i]
        /\ subs[n+1] = m
    BY <2>1
  <2> HIDE DEF subs, s, n
  <2>3. \A i \in 1..n : s[i] # m /\ s[i] \in Range(s)
    BY <2>1 DEF Range, s
  <2>4. \A i \in 1..(n+1) : i \in 1..n \/ i = n+1
    BY <2>1
  <2>5. n+1 \in 1..(n+1) /\ 1..n \subseteq 1..(n+1)
    BY <2>1
  <2>6. IsInjective(subs)
    <3>1. \A i, j \in 1..n : s[i] = s[j] => i = j
      BY <2>1 DEF IsInjective
    <3>2. \A i, j \in 1..(n+1) : subs[i] = subs[j] => i = j
      BY <2>2, <2>3, <2>4, <3>1
    <3> QED
      BY <2>2, <3>2 DEF IsInjective
  <2>7. Range(subs) = Range(s) \cup {m}
    BY <2>1, <2>2, <2>4, <2>5 DEF Range
  <2> QED
    BY <2>2, <2>6, <2>7 DEF s
<1> HIDE DEF b, c, e, subs
<1>7. /\ IsAdapter(b) /\ b.out = a.out \o <<e>> /\ b.open = a.open /\ b.subagents = subs
      /\ b.next = a.next /\ Same(a, b)
  BY <1>1 DEF IsAdapter, Same, b
<1>8. Voices(b) /\ Delegated(b) /\ b.next <= MaxIds
  BY <1>t, <1>6, <1>7 DEF Voices, Delegated
<1>9. Accepts(Believed(a, p, C), e)
  BY <1>3, <1>4 DEF Accepts, Believed, Screen
<1>10. Sequences(b) = Sequences(a)
  <2>1. ASSUME NEW kind \in Kinds, NEW k1 \in Keys, a.open[kind][k1] # NoSeq
        PROVE  Owner(b, k1) = Owner(a, k1)
    <3>1. k1 # m
      BY <2>1
    <3> QED
      BY <1>6, <1>7, <3>1 DEF Owner
  <2>2. \A s : s \in Sequences(b) <=> s \in Sequences(a)
    BY <1>7, <2>1, SequencesAre
  <2> QED
    BY <2>2
<1>11. Take(Believed(a, p, C), e) = Believed(b, p, C)
  BY <1>3, <1>6, <1>7, <1>10 DEF Take, Believed, Screen
<1>12. Leads(u, b, p, C)
  BY <1>5, <1>7, <1>8, <1>9, <1>11, LeadsOn
<1> QED
  BY <1>2, <1>6, <1>7, <1>12 DEF b, c, e

\* SUBAGENT_FINISHED or SUBAGENT_ERROR, after what the member was saying.
LEMMA LeadsLeave ==
    ASSUME StreamAssumption, NEW u, NEW p, NEW C, Leads(u, adapter, p, C), UnderWay(p),
           NEW m \in Members, NEW type \in {"agent_finished", "agent_error"}
    PROVE  LET b == Leave(m, type)
           IN /\ Leads(u, b, p, C) /\ Same(adapter, b) /\ b.next = adapter.next
              /\ Range(b.subagents) = Range(adapter.subagents) \ {m}
              /\ \A kind1 \in Kinds, k1 \in Keys : b.open[kind1][k1] # NoSeq => adapter.open[kind1][k1] # NoSeq
<1> DEFINE a0 == Close(adapter, "text", m)
           a == Close(a0, "reasoning", m)
           e == [type |-> type, run |-> m]
           c == Emit(a, <<e>>)
           subs == Popped(a.subagents, m)
           b == [c EXCEPT !.subagents = subs]
<1>0. m \in Keys /\ "text" \in Kinds /\ "reasoning" \in Kinds /\ Kinds = {"text", "reasoning"}
  BY DEF Keys, Runs, Kinds
<1>1. /\ Leads(u, a0, p, C) /\ Same(adapter, a0) /\ a0.subagents = adapter.subagents /\ a0.next = adapter.next
      /\ \A kind1 \in Kinds, k1 \in Keys :
            a0.open[kind1][k1] = IF kind1 = "text" /\ k1 = m THEN NoSeq ELSE adapter.open[kind1][k1]
  BY <1>0, LeadsClose
<1> HIDE DEF a0
<1>2. /\ Leads(u, a, p, C) /\ Same(a0, a) /\ a.subagents = a0.subagents /\ a.next = a0.next
      /\ \A kind1 \in Kinds, k1 \in Keys :
            a.open[kind1][k1] = IF kind1 = "reasoning" /\ k1 = m THEN NoSeq ELSE a0.open[kind1][k1]
  BY <1>0, <1>1, LeadsClose
<1>3. Leave(m, type) = IF m \notin Range(a.subagents) THEN a ELSE [c EXCEPT !.subagents = Popped(@, m)]
  BY DEF Leave, a, a0
<1> HIDE DEF a
<1>4. /\ Same(adapter, a) /\ a.next = adapter.next /\ a.subagents = adapter.subagents
      /\ \A kind1 \in Kinds, k1 \in Keys : a.open[kind1][k1] # NoSeq => k1 # m /\ adapter.open[kind1][k1] # NoSeq
  BY <1>0, <1>1, <1>2 DEF Same
<1>5. CASE m \notin Range(a.subagents)
  BY <1>2, <1>3, <1>4, <1>5
<1>6. CASE m \in Range(a.subagents)
  <2>t. Voices(a) /\ Delegated(a) /\ a.next <= MaxIds /\ IsAdapter(a)
    BY <1>2 DEF Leads, Voices
  <2>1. /\ IsAdapter(c) /\ c.out = a.out \o <<e>> /\ c.open = a.open /\ c.subagents = a.subagents
        /\ c.next = a.next /\ Same(a, c)
    <3> HIDE DEF e
    <3> QED
      BY <2>t, EmitIs
  <2>2. Leave(m, type) = b
    BY <1>3, <1>6, <2>1
  <2>3. e.type = type /\ e.run = m
    OBVIOUS
  <2>4. e \in Event
    BY DEF Event
  <2>5. subs \in Seq(Members) /\ IsInjective(subs) /\ Range(subs) = Range(a.subagents) \ {m}
    BY <1>6, <2>t, PoppedIs DEF Delegated
  <2> HIDE DEF b, c, e, subs
  <2>6. /\ IsAdapter(b) /\ b.out = a.out \o <<e>> /\ b.open = a.open /\ b.subagents = subs
        /\ b.next = a.next /\ Same(a, b)
    BY <2>1 DEF IsAdapter, Same, b
  <2>7. Voices(b) /\ Delegated(b) /\ b.next <= MaxIds
    BY <2>t, <2>5, <2>6 DEF Voices, Delegated
  <2>8. \A s \in Sequences(a) : s.by # m
    <3> SUFFICES ASSUME NEW s \in Sequences(a)
                 PROVE  s.by # m
      OBVIOUS
    <3>1. PICK kind1 \in Kinds, k1 \in Keys :
             a.open[kind1][k1] # NoSeq /\ s = [kind |-> kind1, id |-> a.open[kind1][k1].id, by |-> Owner(a, k1)]
      BY SequencesAre
    <3>2. k1 # m
      BY <1>4, <3>1
    <3>3. Owner(a, k1) # m
      BY <2>t, <3>2, OwnersSpeak
    <3> QED
      BY <3>1, <3>3
  <2>9. Accepts(Believed(a, p, C), e)
    BY <1>6, <2>3, <2>8 DEF Accepts, Believed, Screen
  <2>10. Sequences(b) = Sequences(a)
    <3>1. ASSUME NEW kind \in Kinds, NEW k1 \in Keys, a.open[kind][k1] # NoSeq
          PROVE  Owner(b, k1) = Owner(a, k1)
      <4>1. k1 # m
        BY <1>4, <3>1
      <4> QED
        BY <2>5, <2>6, <4>1 DEF Owner
    <3>2. \A s : s \in Sequences(b) <=> s \in Sequences(a)
      BY <2>6, <3>1, SequencesAre
    <3> QED
      BY <3>2
  <2>11. Take(Believed(a, p, C), e) = Believed(b, p, C)
    BY <2>3, <2>5, <2>6, <2>10 DEF Take, Believed, Screen
  <2>12. Leads(u, b, p, C)
    BY <1>2, <2>4, <2>6, <2>7, <2>9, <2>11, LeadsOn
  <2> QED
    BY <1>4, <2>2, <2>5, <2>6, <2>12 DEF Same
<1> QED
  BY <1>5, <1>6

\* _handle_tool_call_completed.
LEMMA LeadsEndCall ==
    ASSUME StreamAssumption, NEW u, NEW p, NEW C, Leads(u, adapter, p, C), UnderWay(p),
           NEW k \in Keys, NEW t \in Tools, t \in C
    PROVE  LET b == EndCall(k, t)
           IN /\ Leads(u, b, p, C \ {t}) /\ b.subagents = adapter.subagents /\ b.next = adapter.next
              /\ b.open = adapter.open /\ b.active = adapter.active /\ b.completed = adapter.completed
              /\ b.paused = adapter.paused /\ b.closed = adapter.closed \cup {t}
<1> DEFINE es == <<ToolEvents(adapter, t, k).end>>
           c == Emit(adapter, es)
           more == c.closed \cup {t}
           b == [c EXCEPT !.closed = more]
<1>1. EndCall(k, t) = b
  BY DEF EndCall
<1>2. Leads(u, c, p, C \ {t})
  BY LeadsCall
<1>3. IsAdapter(adapter)
  BY DEF Leads, Voices
<1> HIDE DEF es
<1>4. /\ IsAdapter(c) /\ c.open = adapter.open /\ c.subagents = adapter.subagents
      /\ c.next = adapter.next /\ Same(adapter, c)
  BY <1>3, EmitIs
<1>5. more = c.closed \cup {t}
  OBVIOUS
<1> HIDE DEF c, more
<1>6. /\ IsAdapter(b) /\ b.out = c.out /\ b.open = c.open /\ b.subagents = c.subagents /\ b.next = c.next
      /\ b.active = c.active /\ b.completed = c.completed /\ b.paused = c.paused /\ b.closed = more
  BY <1>4 DEF IsAdapter
<1> HIDE DEF b
<1>7. Leads(u, b, p, C \ {t})
  BY <1>2, <1>6, LeadsField
<1> QED
  BY <1>1, <1>4, <1>5, <1>6, <1>7 DEF Same

\* Even and odd places of a burst of pairs.
LEMMA Halves ==
    ASSUME NEW n \in Nat, NEW i \in 1..2*n
    PROVE  /\ (i + 1) \div 2 \in 1..n
           /\ i % 2 = 1 => (i - 1) % 2 # 1
           /\ i % 2 # 1 => (i - 1) % 2 = 1 /\ ((i - 1) + 1) \div 2 = (i + 1) \div 2
OBVIOUS

\* The start and the end that are made up for each call a paused run waits for.
LEMMA LeadsPause ==
    ASSUME StreamAssumption, NEW u, NEW a, NEW p, NEW C, Leads(u, a, p, C), UnderWay(p),
           NEW E \in SUBSET External, E \cap C = {}
    PROVE  LET ts == SetToSeq(E)
               made == [i \in 1..2 * Len(ts) |->
                          LET e == ToolEvents(a, ts[(i + 1) \div 2], Nobody)
                          IN IF i % 2 = 1 THEN e.start ELSE e.end]
           IN Leads(u, Emit(a, made), p, C)
<1> DEFINE ts == SetToSeq(E)
           made == [i \in 1..2 * Len(ts) |->
                      LET e == ToolEvents(a, ts[(i + 1) \div 2], Nobody)
                      IN IF i % 2 = 1 THEN e.start ELSE e.end]
           b == Emit(a, made)
<1>t. Voices(a) /\ Delegated(a) /\ a.next <= MaxIds /\ IsAdapter(a)
  BY DEF Leads, Voices
<1>1. IsFiniteSet(E)
  BY FS_Subset DEF StreamAssumption
<1>2. PICK n \in Nat : ts \in [1..n -> E]
  BY <1>1, Listed
<1> HIDE DEF ts
<1>3. Len(ts) = n
  BY <1>2
<1>4. made = [i \in 1..2*n |-> IF i % 2 = 1 THEN ToolEvents(a, ts[(i + 1) \div 2], Nobody).start
                               ELSE ToolEvents(a, ts[(i + 1) \div 2], Nobody).end]
  BY <1>3
<1> HIDE DEF made
<1>5. Nobody \in Keys /\ Owner(a, Nobody) = Nobody
  BY DEF Keys, Owner
<1> DEFINE half(i) == ts[(i + 1) \div 2]
<1>6. ASSUME NEW i \in 1..2*n
      PROVE  /\ half(i) \in E /\ half(i) \in Tools /\ half(i) \notin C
             /\ made[i] = [type |-> IF i % 2 = 1 THEN "tool_start" ELSE "tool_end", tool |-> half(i), by |-> Nobody]
             /\ made[i] \in Event
  <2>1. (i + 1) \div 2 \in 1..n
    BY Halves
  <2>2. half(i) \in E
    BY <1>2, <2>1
  <2>3. half(i) \in Tools /\ half(i) \notin C
    BY <2>2 DEF Tools
  <2>4. made[i] = IF i % 2 = 1 THEN ToolEvents(a, half(i), Nobody).start ELSE ToolEvents(a, half(i), Nobody).end
    BY <1>4
  <2>5. /\ ToolEvents(a, half(i), Nobody).start = [type |-> "tool_start", tool |-> half(i), by |-> Nobody]
        /\ ToolEvents(a, half(i), Nobody).end = [type |-> "tool_end", tool |-> half(i), by |-> Nobody]
    BY <1>5 DEF ToolEvents
  <2> HIDE DEF half
  <2>6. made[i] = [type |-> IF i % 2 = 1 THEN "tool_start" ELSE "tool_end", tool |-> half(i), by |-> Nobody]
    BY <2>4, <2>5
  <2>7. made[i] \in [type : {"tool_start", "tool_end"}, tool : Tools, by : Speakers]
    BY <2>3, <2>6 DEF Speakers
  <2>8. made[i] \in Event
    BY <2>7 DEF Event
  <2> QED
    BY <2>2, <2>3, <2>6, <2>8
<1>7. 2*n \in Nat /\ made \in Seq(Event) /\ Len(made) = 2*n
  <2>1. 2*n \in Nat
    OBVIOUS
  <2>2. DOMAIN made = 1..2*n /\ made = [i \in 1..2*n |-> made[i]]
    BY <1>4
  <2>3. \A i \in 1..2*n : made[i] \in Event
    BY <1>6
  <2>4. made \in [1..2*n -> Event]
    BY <2>2, <2>3
  <2> DEFINE m == 2*n
  <2> HIDE DEF m
  <2>5. m \in Nat /\ made \in [1..m -> Event]
    BY <2>1, <2>4 DEF m
  <2>6. made \in Seq(Event) /\ Len(made) = m
    BY <2>5
  <2> QED
    BY <2>1, <2>6 DEF m
<1> DEFINE ws == [i \in 0..2*n |-> Believed(a, p, IF i % 2 = 1 THEN C \cup {half(i)} ELSE C)]
<1>8. \A i \in 0..2*n : ws[i] = Believed(a, p, IF i % 2 = 1 THEN C \cup {half(i)} ELSE C)
  OBVIOUS
<1> HIDE DEF ws
<1>9. ASSUME NEW i \in 1..2*n
      PROVE  Accepts(ws[i-1], made[i]) /\ ws[i] = Take(ws[i-1], made[i])
  <2>1. i \in 0..2*n /\ i - 1 \in 0..2*n
    OBVIOUS
  <2>2. ws[i] = Believed(a, p, IF i % 2 = 1 THEN C \cup {half(i)} ELSE C)
    BY <1>8, <2>1
  <2>3. ws[i-1] = Believed(a, p, IF (i-1) % 2 = 1 THEN C \cup {half(i-1)} ELSE C)
    BY <1>8, <2>1
  <2>4. half(i) \notin C
        /\ made[i] = [type |-> IF i % 2 = 1 THEN "tool_start" ELSE "tool_end", tool |-> half(i), by |-> Nobody]
    BY <1>6
  <2>5. CASE i % 2 = 1
    <3>1. (i - 1) % 2 # 1
      BY <2>5, Halves
    <3>2. made[i].type = "tool_start" /\ made[i].tool = half(i) /\ made[i].by = Nobody
      BY <2>4, <2>5
    <3>3. ws[i-1] = Believed(a, p, C) /\ ws[i] = Believed(a, p, C \cup {half(i)})
      BY <2>2, <2>3, <2>5, <3>1
    <3> HIDE DEF half
    <3>4. Accepts(ws[i-1], made[i])
      BY <2>4, <3>2, <3>3 DEF Accepts, Believed, Screen
    <3>5. Take(ws[i-1], made[i]) = ws[i]
      BY <3>2, <3>3 DEF Take, Believed, Screen
    <3> QED
      BY <3>4, <3>5
  <2>6. CASE i % 2 # 1
    <3>1. (i - 1) % 2 = 1 /\ half(i-1) = half(i)
      BY <2>6, Halves
    <3>2. made[i].type = "tool_end" /\ made[i].tool = half(i)
      BY <2>4, <2>6
    <3>3. ws[i-1] = Believed(a, p, C \cup {half(i)}) /\ ws[i] = Believed(a, p, C)
      BY <2>2, <2>3, <2>6, <3>1
    <3> DEFINE D == C \cup {half(i)}
    <3> HIDE DEF half
    <3>4. half(i) \in D /\ D \ {half(i)} = C
      BY <2>4
    <3>5. ws[i-1] = Believed(a, p, D)
      BY <3>3
    <3> HIDE DEF D
    <3>6. Accepts(ws[i-1], made[i])
      BY <3>2, <3>4, <3>5 DEF Accepts, Believed, Screen
    <3>7. Take(ws[i-1], made[i]) = ws[i]
      BY <3>2, <3>3, <3>4, <3>5 DEF Take, Believed, Screen
    <3> QED
      BY <3>6, <3>7
  <2> QED
    BY <2>5, <2>6
<1>10. ws[0] = Believed(a, p, C) /\ ws[2*n] = Believed(a, p, C)
  <2>1. 0 \in 0..2*n /\ 2*n \in 0..2*n /\ 0 % 2 # 1 /\ (2*n) % 2 # 1
    OBVIOUS
  <2> QED
    BY <1>8, <2>1
<1>11. Led(Believed(a, p, C), made, Believed(a, p, C))
  BY <1>7, <1>9, <1>10 DEF Led
<1>12. /\ IsAdapter(b) /\ b.out = a.out \o made /\ b.open = a.open /\ b.subagents = a.subagents
       /\ b.next = a.next
  BY <1>t, EmitIs
<1> HIDE DEF b
<1>13. Sequences(b) = Sequences(a) /\ Believed(b, p, C) = Believed(a, p, C)
  <2>1. Sequences(b) = Sequences(a)
    BY <1>12 DEF Sequences, OpenKeys, Owner
  <2> QED
    BY <1>12, <2>1 DEF Believed
<1>14. Led(u, a.out \o made, Believed(a, p, C))
  BY <1>11, LedJoin DEF Leads
<1>15. Leads(u, b, p, C)
  BY <1>t, <1>12, <1>13, <1>14 DEF Leads, Voices, Delegated
<1> QED
  BY <1>15 DEF b, made, ts

\* A handler gives ids and never takes one back.
LEMMA ProcessGives ==
    ASSUME NEW a, Voices(a), NEW kind \in Kinds, NEW k \in Keys, NEW r \in Keys, NEW content
    PROVE  a.next <= Process(a, kind, k, r, content).next
<1> DEFINE b == Close(a, Other(kind), k)
           c == IF k \in OpenKeys(b, kind) THEN b ELSE Open(b, kind, k, r)
<1>0. Other(kind) \in Kinds /\ Kinds = {kind, Other(kind)}
  BY DEF Other, Kinds
<1>1. ASSUME NEW other \in Kinds
      PROVE  Close(a, other, k).next = a.next
  <2>1. CASE k \notin OpenKeys(a, other)
    BY <2>1 DEF Close
  <2>2. CASE k \in OpenKeys(a, other)
    <3> DEFINE es == <<ClosingEvent(a, other, k)>>
               d == Emit(a, es)
               table == [d.open EXCEPT ![other][k] = NoSeq]
    <3>1. Close(a, other, k) = [d EXCEPT !.open = table]
      BY <2>2 DEF Close
    <3> HIDE DEF es
    <3>2. IsAdapter(d) /\ d.next = a.next
      BY EmitIs DEF Voices
    <3> HIDE DEF d, table
    <3> QED
      BY <3>1, <3>2 DEF IsAdapter
  <2> QED
    BY <2>1, <2>2
<1>2. a.next \in Nat
  BY DEF Voices, Tables
<1>3. Voices(b) /\ b.next = a.next /\ b.open[Other(kind)][k] = NoSeq
  BY <1>0, <1>1, CloseKeeps
<1> HIDE DEF b
<1>4. a.next <= c.next /\ IsAdapter(c)
  <2>1. CASE k \in OpenKeys(b, kind)
    BY <1>2, <1>3, <2>1 DEF Voices
  <2>2. CASE k \notin OpenKeys(b, kind)
    <3> DEFINE es == <<[type |-> "open", kind |-> kind, id |-> b.next + 1, by |-> Owner(b, k)]>>
               d == Emit(b, es)
               table == [d.open EXCEPT ![kind][k] = [id |-> b.next + 1, meta |-> r]]
    <3>1. c = [d EXCEPT !.open = table, !.next = b.next + 1]
      BY <2>2 DEF Open
    <3> HIDE DEF es, c
    <3>2. IsAdapter(d)
      BY <1>3, EmitIs DEF Voices
    <3> HIDE DEF d, table
    <3>3. c.next = b.next + 1 /\ IsAdapter(c)
      BY <3>1, <3>2 DEF IsAdapter
    <3> QED
      BY <1>2, <1>3, <3>3
  <2> QED
    BY <2>1, <2>2
<1> HIDE DEF c
<1>5. Say(c, kind, k).next = c.next
  <2> DEFINE es == <<[type |-> "delta", kind |-> kind, id |-> c.open[kind][k].id, by |-> Owner(c, k)]>>
  <2>1. Say(c, kind, k) = Emit(c, es)
    BY DEF Say
  <2> HIDE DEF es
  <2> QED
    BY <1>4, <2>1, EmitIs
<1>6. \/ Process(a, kind, k, r, content) = a
      \/ Process(a, kind, k, r, content) = Close(a, kind, k)
      \/ Process(a, kind, k, r, content) = Say(c, kind, k)
  BY DEF Process, b, c
<1> QED
  BY <1>1, <1>2, <1>4, <1>5, <1>6

-----------------------------------------------------------------------------
(* The invariant of a turn.                                                  *)

InCall == {t \in Tools : calls[t] = "open"}

TurnTyped ==
    /\ agno \in [Runs -> {"idle", "live", "over"}] /\ calls \in [Tools -> {"idle", "open", "closed"}]
    /\ mixin \in RunIds /\ drive \in {"streaming", "flushed", "ending", "done"}
    /\ adapter.active \in {Top, Nobody}

\* Members are at work only while the top run is.
Together == agno[Top] = "live" \/ \A m \in Members : agno[m] = agno[Top]

\* Who has a sequence or a delegation open has begun.
Begun ==
    /\ \A m \in Members, kind \in Kinds : adapter.open[kind][m] # NoSeq => agno[m] # "idle"
    /\ \A m \in Range(adapter.subagents) : agno[m] # "idle"
    /\ adapter.active = Top => agno[Top] # "idle"

\* What is over has nothing open.
AtRest ==
    /\ drive # "streaming" \/ agno[Top] = "over" => ClosedUp(adapter)
    /\ Top \in adapter.completed => agno[Top] = "over" /\ adapter.active # Top
    /\ drive = "done" => adapter.out = <<>>
    /\ drive = "flushed" => adapter.paused \/ agno[Top] = "over"

\* A member at work is a delegation in flight, if members do not outlive a pause.
Delegating ==
    /\ adapter.paused => agno[Top] = "live"
    /\ MembersContinue \/ \A m \in Members :
          agno[m] = "live" => m \in Range(adapter.subagents) /\ ~adapter.paused

ClosedCalls == adapter.closed = {t \in Tools : calls[t] = "closed"}

\* The phase that the client will be in follows the top run.
Phased(p) ==
    /\ drive \in {"streaming", "flushed"} =>
          /\ agno[Top] = "idle" => p = "idle"
          /\ agno[Top] = "live" => UnderWay(p)
          /\ agno[Top] = "over" => p = "over"
    /\ drive \in {"ending", "done"} => p = "over"

TurnStands == TurnTyped /\ Together /\ Begun /\ AtRest /\ Delegating /\ ClosedCalls

ScreenInv ==
    /\ TurnStands
    /\ \E p \in Phases : Leads(OnScreen, adapter, p, InCall) /\ Phased(p)

\* A run is announced under the id that the mixin keeps, and finished under it unless it waits.
Named ==
    /\ client.phase = "idle" => client.finished = "none"
    /\ client.phase # "idle" => mixin = client.started /\ mixin # "none"
    /\ client.finished \in {"none", client.started} \/ (drive = "done" /\ adapter.paused)

IsClient(c) ==
    c = [phase |-> c.phase, open |-> c.open, agents |-> c.agents, calls |-> c.calls,
         started |-> c.started, finished |-> c.finished, last |-> c.last]

ClientTyped == IsClient(client)

TurnInv == ScreenInv /\ Named /\ ClientTyped

\* A run that speaks does so while the top run is under way.
LEMMA SpeakersAtWork ==
    ASSUME StreamAssumption, TurnStands, NEW r \in Runs, Live(r)
    PROVE  drive = "streaming" /\ agno[Top] = "live" /\ ~adapter.paused /\ adapter.out = <<>>
BY DEF TurnStands, TurnTyped, Together, Live, Streaming, Runs

\* A handler of what a run says, which leaves the runs as they are.
LEMMA SpeaksKeeps ==
    ASSUME StreamAssumption, TurnStands, NEW p \in Phases, Phased(p), NEW r \in Runs, Live(r),
           UNCHANGED <<agno, drive, mixin, client>>, calls' \in [Tools -> {"idle", "open", "closed"}],
           Leads(OnScreen, adapter', p, InCall'),
           adapter'.subagents = adapter.subagents, adapter'.active = adapter.active,
           adapter'.completed = adapter.completed, adapter'.paused = adapter.paused, ClosedCalls',
           \A m \in Members, kind \in Kinds : adapter'.open[kind][m] # NoSeq => agno[m] # "idle"
    PROVE  ScreenInv'
<1>1. drive = "streaming" /\ agno[Top] = "live" /\ ~adapter.paused
  BY SpeakersAtWork
<1>2. TurnTyped' /\ Together'
  BY DEF TurnStands, TurnTyped, Together
<1>3. Begun'
  BY DEF TurnStands, Begun
<1>4. AtRest'
  BY <1>1 DEF TurnStands, AtRest
<1>5. Delegating'
  BY DEF TurnStands, Delegating
<1>6. Phased(p)'
  BY DEF Phased
<1>7. OnScreen' = OnScreen
  BY DEF OnScreen
<1> QED
  BY <1>2, <1>3, <1>4, <1>5, <1>6, <1>7 DEF ScreenInv, TurnStands

\* Whatever a run says, reasons or calls keeps the screen in step.
LEMMA SpeaksStep ==
    ASSUME StreamAssumption, ScreenInv, NEW r \in Runs, NEW k \in KeysOf(r), Speaks(r, k)
    PROVE  ScreenInv'
<1>1. PICK p \in Phases : Leads(OnScreen, adapter, p, InCall) /\ Phased(p)
  BY DEF ScreenInv
<1>2. TurnStands /\ Live(r)
  BY DEF ScreenInv, Speaks, RunContent, ReasoningStep, ReasoningStarted, ReasoningDelta, ReasoningCompleted,
         ToolStarted, ToolCompleted, ToolFailed
<1>3. drive = "streaming" /\ agno[Top] = "live" /\ UnderWay(p)
  BY <1>1, <1>2, SpeakersAtWork DEF Phased
<1>4. k \in Keys /\ r \in Keys /\ "text" \in Kinds /\ "reasoning" \in Kinds
  BY <1>2 DEF KeysOf, TurnStands, TurnTyped, Keys, Runs, Kinds
<1>5. \A m \in Members : k = m => agno[m] # "idle"
  <2>1. CASE r = Top
    BY <2>1, <1>2 DEF KeysOf, TurnStands, TurnTyped, StreamAssumption, Runs
  <2>2. CASE r # Top
    BY <2>2, <1>2 DEF KeysOf, Live
  <2> QED
    BY <2>1, <2>2
<1>6. \A m \in Members, kind \in Kinds : adapter.open[kind][m] # NoSeq => agno[m] # "idle"
  BY <1>2 DEF TurnStands, Begun
<1>7. \A m \in Members : m \in Keys
  BY DEF Keys, Runs
<1>8. calls \in [Tools -> {"idle", "open", "closed"}] /\ ClosedCalls
  BY <1>2 DEF TurnStands, TurnTyped
\* The sequences of the others are left alone.
<1> DEFINE Fits(b) == \A kind \in Kinds, k1 \in Keys : k1 # k /\ b.open[kind][k1] # NoSeq => adapter.open[kind][k1] # NoSeq
<1>9. ASSUME calls' = calls, UNCHANGED <<agno, drive, mixin, client>>, Leads(OnScreen, adapter', p, InCall),
             adapter'.subagents = adapter.subagents, Same(adapter, adapter'), Fits(adapter')
      PROVE  ScreenInv'
  <2>1. InCall' = InCall /\ ClosedCalls'
    BY <1>8, <1>9 DEF InCall, ClosedCalls, Same
  <2>2. \A m \in Members, kind \in Kinds : adapter'.open[kind][m] # NoSeq => agno[m] # "idle"
    BY <1>5, <1>6, <1>7, <1>9
  <2> QED
    BY <1>1, <1>2, <1>8, <1>9, <2>1, <2>2, SpeaksKeeps DEF Same
<1>10. ASSUME NEW reasoning, NEW text, RunContent(r, k, reasoning, text)
       PROVE  ScreenInv'
  <2> DEFINE b == Process(adapter, "reasoning", k, r, reasoning)
             c == Process(b, "text", k, r, text)
  <2>1. adapter' = c /\ c.next <= MaxIds /\ UNCHANGED <<agno, calls, drive, mixin, client>>
    BY <1>10 DEF RunContent
  <2>2. b.next <= c.next
    <3>1. Voices(b)
      BY <1>1, <1>4, ProcessKeeps DEF Leads
    <3> HIDE DEF b
    <3> QED
      BY <1>4, <3>1, ProcessGives
  <2>3. b.next <= MaxIds
    <3>1. Voices(b) /\ Voices(c)
      BY <1>1, <1>4, ProcessKeeps DEF Leads
    <3>2. b.next \in Nat /\ c.next \in Nat /\ MaxIds \in Nat
      BY <3>1 DEF Voices, Tables, StreamAssumption
    <3> HIDE DEF b, c
    <3> QED
      BY <2>1, <2>2, <3>2
  <2>4. /\ Leads(OnScreen, b, p, InCall) /\ Same(adapter, b) /\ b.subagents = adapter.subagents
        /\ \A kind1 \in Kinds, k1 \in Keys : k1 # k => b.open[kind1][k1] = adapter.open[kind1][k1]
    BY <1>1, <1>3, <1>4, <2>3, LeadsProcess
  <2> HIDE DEF b
  <2>5. /\ Leads(OnScreen, c, p, InCall) /\ Same(b, c) /\ c.subagents = b.subagents
        /\ \A kind1 \in Kinds, k1 \in Keys : k1 # k => c.open[kind1][k1] = b.open[kind1][k1]
    BY <1>3, <1>4, <2>1, <2>4, LeadsProcess
  <2> HIDE DEF c
  <2>6. Fits(c) /\ Same(adapter, c)
    BY <2>4, <2>5 DEF Same
  <2> HIDE DEF Fits
  <2> QED
    BY <1>9, <2>1, <2>4, <2>5, <2>6
<1>11. CASE ReasoningStep(r, k)
  <2> DEFINE b == Process(adapter, "reasoning", k, r, "some")
  <2>1. adapter' = b /\ b.next <= MaxIds /\ UNCHANGED <<agno, calls, drive, mixin, client>>
    BY <1>11 DEF ReasoningStep
  <2>2. /\ Leads(OnScreen, b, p, InCall) /\ Same(adapter, b) /\ b.subagents = adapter.subagents
        /\ \A kind1 \in Kinds, k1 \in Keys : k1 # k => b.open[kind1][k1] = adapter.open[kind1][k1]
    BY <1>1, <1>3, <1>4, <2>1, LeadsProcess
  <2> HIDE DEF b
  <2>3. Fits(b)
    BY <2>2
  <2> HIDE DEF Fits
  <2> QED
    BY <1>9, <2>1, <2>2, <2>3
<1>12. CASE ReasoningStarted(r, k)
  <2> DEFINE a == Close(adapter, "text", k)
  <2>1. /\ Leads(OnScreen, a, p, InCall) /\ Same(adapter, a) /\ a.subagents = adapter.subagents
        /\ a.next = adapter.next
        /\ \A kind1 \in Kinds, k1 \in Keys :
              a.open[kind1][k1] = IF kind1 = "text" /\ k1 = k THEN NoSeq ELSE adapter.open[kind1][k1]
    BY <1>1, <1>3, <1>4, LeadsClose
  <2> DEFINE b == Open(a, "reasoning", k, r)
  <2>2. adapter' = b /\ adapter.next < MaxIds /\ k \notin OpenKeys(adapter, "reasoning")
        /\ UNCHANGED <<agno, calls, drive, mixin, client>>
    BY <1>12 DEF ReasoningStarted
  <2> HIDE DEF a
  <2>3. \A other \in Kinds : a.open[other][k] = NoSeq
    <3>1. adapter.open["reasoning"][k] = NoSeq
      BY <1>4, <2>2 DEF OpenKeys
    <3>2. a.open["text"][k] = NoSeq /\ a.open["reasoning"][k] = NoSeq
      BY <1>4, <2>1, <3>1
    <3> QED
      BY <3>2 DEF Kinds
  <2>4. a.next < MaxIds
    BY <2>2, <2>1
  <2>5. /\ Leads(OnScreen, b, p, InCall) /\ Same(a, b) /\ b.subagents = a.subagents
        /\ \A kind1 \in Kinds, k1 \in Keys :
              ~(kind1 = "reasoning" /\ k1 = k) => b.open[kind1][k1] = a.open[kind1][k1]
    BY <1>3, <1>4, <2>1, <2>3, <2>4, LeadsOpen
  <2> HIDE DEF b
  <2>6. Fits(b) /\ Same(adapter, b)
    BY <2>1, <2>5 DEF Same
  <2> HIDE DEF Fits
  <2> QED
    BY <1>9, <2>2, <2>1, <2>5, <2>6
<1>13. CASE ReasoningDelta(r, k)
  <2> DEFINE b == Say(adapter, "reasoning", k)
  <2>1. adapter' = b /\ adapter.open["reasoning"][k] # NoSeq /\ UNCHANGED <<agno, calls, drive, mixin, client>>
    BY <1>13 DEF ReasoningDelta, OpenKeys
  <2>2. Leads(OnScreen, b, p, InCall) /\ Same(adapter, b) /\ b.subagents = adapter.subagents /\ b.open = adapter.open
    BY <1>1, <1>3, <1>4, <2>1, LeadsSay
  <2> HIDE DEF b
  <2>3. Fits(b)
    BY <2>2
  <2> HIDE DEF Fits
  <2> QED
    BY <1>9, <2>1, <2>2, <2>3
<1>14. CASE ReasoningCompleted(r, k)
  <2> DEFINE b == Close(adapter, "reasoning", k)
  <2>1. adapter' = b /\ UNCHANGED <<agno, calls, drive, mixin, client>>
    BY <1>14 DEF ReasoningCompleted
  <2>2. /\ Leads(OnScreen, b, p, InCall) /\ Same(adapter, b) /\ b.subagents = adapter.subagents
        /\ \A kind1 \in Kinds, k1 \in Keys :
              b.open[kind1][k1] = IF kind1 = "reasoning" /\ k1 = k THEN NoSeq ELSE adapter.open[kind1][k1]
    BY <1>1, <1>3, <1>4, LeadsClose
  <2> HIDE DEF b
  <2>3. Fits(b)
    BY <2>2
  <2> HIDE DEF Fits
  <2> QED
    BY <1>9, <2>1, <2>2, <2>3
<1>15. ASSUME NEW t \in ServerTools, ToolStarted(r, k, t)
       PROVE  ScreenInv'
  <2> DEFINE a0 == Close(adapter, "reasoning", k)
             a == Close(a0, "text", k)
             b == Emit(a, <<ToolEvents(a, t, k).start>>)
  <2>1. /\ adapter' = b /\ calls[t] = "idle" /\ calls' = [calls EXCEPT ![t] = "open"]
        /\ UNCHANGED <<agno, drive, mixin, client>> /\ t \in Tools
    BY <1>15 DEF ToolStarted, Tools
  <2>2. /\ Leads(OnScreen, a0, p, InCall) /\ Same(adapter, a0) /\ a0.subagents = adapter.subagents
        /\ \A kind1 \in Kinds, k1 \in Keys :
              a0.open[kind1][k1] = IF kind1 = "reasoning" /\ k1 = k THEN NoSeq ELSE adapter.open[kind1][k1]
    BY <1>1, <1>3, <1>4, LeadsClose
  <2> HIDE DEF a0
  <2>3. /\ Leads(OnScreen, a, p, InCall) /\ Same(a0, a) /\ a.subagents = a0.subagents
        /\ \A kind1 \in Kinds, k1 \in Keys :
              a.open[kind1][k1] = IF kind1 = "text" /\ k1 = k THEN NoSeq ELSE a0.open[kind1][k1]
    BY <1>3, <1>4, <2>2, LeadsClose
  <2> HIDE DEF a
  <2>4. t \notin InCall /\ InCall' = InCall \cup {t}
    BY <1>8, <2>1 DEF InCall
  <2>5. Leads(OnScreen, b, p, InCall')
    BY <1>3, <1>4, <2>1, <2>3, <2>4, LeadsCall
  <2>6. b.open = a.open /\ b.subagents = a.subagents /\ Same(a, b)
    <3> DEFINE es == <<ToolEvents(a, t, k).start>>
    <3>1. IsAdapter(a) /\ b = Emit(a, es)
      BY <2>3 DEF Leads, Voices
    <3> HIDE DEF es
    <3> QED
      BY <3>1, EmitIs
  <2> HIDE DEF b
  <2>7. \A m \in Members, kind \in Kinds : adapter'.open[kind][m] # NoSeq => agno[m] # "idle"
    BY <1>6, <1>7, <2>1, <2>2, <2>3, <2>6
  <2>8. ClosedCalls' /\ calls' \in [Tools -> {"idle", "open", "closed"}]
    <3>1. adapter'.closed = adapter.closed
      BY <2>1, <2>2, <2>3, <2>6 DEF Same
    <3>2. calls' \in [Tools -> {"idle", "open", "closed"}]
      BY <1>8, <2>1
    <3>3. \A x \in Tools : calls'[x] = "closed" <=> calls[x] = "closed"
      BY <1>8, <2>1
    <3> QED
      BY <1>8, <3>1, <3>2, <3>3 DEF ClosedCalls
  <2>9. /\ adapter'.subagents = adapter.subagents /\ adapter'.active = adapter.active
        /\ adapter'.completed = adapter.completed /\ adapter'.paused = adapter.paused
    BY <2>1, <2>2, <2>3, <2>6 DEF Same
  <2> QED
    BY <1>1, <1>2, <2>1, <2>5, <2>7, <2>8, <2>9, SpeaksKeeps
<1>16. ASSUME NEW t \in ServerTools, ToolCompleted(r, k, t) \/ ToolFailed(r, k, t)
       PROVE  ScreenInv'
  <2>1. /\ calls' = [calls EXCEPT ![t] = "closed"] /\ UNCHANGED <<agno, drive, mixin, client>> /\ t \in Tools
        /\ \/ calls[t] = "open" /\ adapter' = EndCall(k, t)
           \/ calls[t] = "closed" /\ adapter' = adapter
    BY <1>8, <1>16 DEF ToolCompleted, ToolFailed, Tools, ClosedCalls
  <2>2. CASE calls[t] = "closed" /\ adapter' = adapter
    <3>1. calls' = calls
      BY <1>8, <2>1, <2>2
    <3>2. Same(adapter, adapter') /\ Fits(adapter')
      BY <2>2 DEF Same
    <3> HIDE DEF Fits
    <3> QED
      BY <1>1, <1>9, <2>1, <2>2, <3>1, <3>2
  <2>3. CASE calls[t] = "open" /\ adapter' = EndCall(k, t)
    <3> DEFINE b == EndCall(k, t)
    <3>1. t \in InCall /\ InCall' = InCall \ {t}
      BY <1>8, <2>1, <2>3 DEF InCall
    <3>2. /\ Leads(OnScreen, b, p, InCall') /\ b.subagents = adapter.subagents
          /\ b.open = adapter.open /\ b.active = adapter.active /\ b.completed = adapter.completed
          /\ b.paused = adapter.paused /\ b.closed = adapter.closed \cup {t}
      BY <1>1, <1>3, <1>4, <2>1, <3>1, LeadsEndCall
    <3> HIDE DEF b
    <3>3. adapter' = b
      BY <2>3 DEF b
    <3>4. ClosedCalls' /\ calls' \in [Tools -> {"idle", "open", "closed"}]
      <4>1. calls' \in [Tools -> {"idle", "open", "closed"}]
        BY <1>8, <2>1
      <4>2. \A x \in Tools : calls'[x] = "closed" <=> calls[x] = "closed" \/ x = t
        BY <1>8, <2>1
      <4> QED
        BY <1>8, <2>1, <3>2, <3>3, <4>1, <4>2 DEF ClosedCalls
    <3>5. \A m \in Members, kind \in Kinds : adapter'.open[kind][m] # NoSeq => agno[m] # "idle"
      BY <1>6, <3>2, <3>3
    <3> QED
      BY <1>1, <1>2, <2>1, <3>2, <3>3, <3>4, <3>5, SpeaksKeeps
  <2> QED
    BY <2>1, <2>2, <2>3
<1> QED
  BY <1>10, <1>11, <1>12, <1>13, <1>14, <1>15, <1>16 DEF Speaks

-----------------------------------------------------------------------------
(* The runner's send, and the client's screen.                               *)

\* What the mixin makes of an event.
LEMMA ShownIs ==
    ASSUME NEW e \in Event
    PROVE  /\ e.type \in {"run_started", "run_finished"} =>
                 e.run \in RunIds \ {"none"} /\ Shown(e) = [type |-> e.type, run |-> RunIdOf(e)]
           /\ e.type \notin {"run_started", "run_finished"} => Shown(e) = e
<1>1. ASSUME e.type \in {"run_started", "run_finished"}
      PROVE  e.run \in RunIds \ {"none"} /\ Shown(e) = [type |-> e.type, run |-> RunIdOf(e)]
  <2>1. e \in [type : {"run_started", "run_finished"}, run : RunIds \ {"none"}]
    BY <1>1 DEF Event
  <2>2. e = [type |-> e.type, run |-> e.run] /\ e.run \in RunIds \ {"none"}
    BY <2>1
  <2> DEFINE id == RunIdOf(e)
  <2>3. Shown(e) = [e EXCEPT !.run = id]
    BY <1>1 DEF Shown
  <2>4. id = RunIdOf(e)
    OBVIOUS
  <2> HIDE DEF id
  <2> QED
    BY <2>2, <2>3, <2>4
<1>2. e.type \notin {"run_started", "run_finished"} => Shown(e) = e
  BY DEF Shown
<1> QED
  BY <1>1, <1>2

\* What the client makes of an event.
Taken(c, e, d) ==
    /\ IsClient(d)
    /\ Screen(d.phase, d.open, d.agents, d.calls) = Take(Screen(c.phase, c.open, c.agents, c.calls), e)
    /\ d.phase = IF e.type = "run_started" THEN "running"
                 ELSE IF e.type \in {"run_finished", "run_error"} THEN "over" ELSE c.phase
    /\ d.open = IF e.type = "open" THEN c.open \cup {Utterance(e)}
                ELSE IF e.type = "close" THEN {s \in c.open : s.kind # e.kind \/ s.id # e.id} ELSE c.open
    /\ d.agents = IF e.type = "agent_started" THEN c.agents \cup {e.run}
                  ELSE IF e.type \in {"agent_finished", "agent_error"} THEN c.agents \ {e.run} ELSE c.agents
    /\ d.calls = IF e.type = "tool_start" THEN c.calls \cup {e.tool}
                 ELSE IF e.type = "tool_end" THEN c.calls \ {e.tool} ELSE c.calls
    /\ d.started = IF e.type = "run_started" THEN e.run ELSE c.started
    /\ d.finished = IF e.type = "run_finished" THEN e.run ELSE c.finished
    /\ d.last = e

\* What Receive is, field by field.
LEMMA ReceiveIs ==
    ASSUME NEW c, NEW e, IsClient(c)
    PROVE  Taken(c, e, Receive(c, e))
<1> DEFINE phase == IF e.type = "run_started" THEN "running"
                    ELSE IF e.type \in {"run_finished", "run_error"} THEN "over" ELSE c.phase
           open == IF e.type = "open" THEN c.open \cup {Utterance(e)}
                   ELSE IF e.type = "close" THEN {s \in c.open : s.kind # e.kind \/ s.id # e.id} ELSE c.open
           agents == IF e.type = "agent_started" THEN c.agents \cup {e.run}
                     ELSE IF e.type \in {"agent_finished", "agent_error"} THEN c.agents \ {e.run} ELSE c.agents
           inCall == IF e.type = "tool_start" THEN c.calls \cup {e.tool}
                     ELSE IF e.type = "tool_end" THEN c.calls \ {e.tool} ELSE c.calls
           started == IF e.type = "run_started" THEN e.run ELSE c.started
           finished == IF e.type = "run_finished" THEN e.run ELSE c.finished
           d == Receive(c, e)
<1>1. d = [c EXCEPT !.phase = phase, !.open = open, !.agents = agents, !.calls = inCall,
                    !.started = started, !.finished = finished, !.last = e]
  BY DEF Receive, Utterance
<1>2. Screen(phase, open, agents, inCall) = Take(Screen(c.phase, c.open, c.agents, c.calls), e)
  BY DEF Take, Screen
<1> HIDE DEF d, phase, open, agents, inCall, started, finished
<1>3. d = [phase |-> phase, open |-> open, agents |-> agents, calls |-> inCall,
           started |-> started, finished |-> finished, last |-> e]
  BY <1>1 DEF IsClient
<1>4. /\ d.phase = phase /\ d.open = open /\ d.agents = agents /\ d.calls = inCall
      /\ d.started = started /\ d.finished = finished /\ d.last = e
  BY <1>3
<1>5. IsClient(d)
  BY <1>3, <1>4 DEF IsClient
<1>6. Screen(d.phase, d.open, d.agents, d.calls) = Take(Screen(c.phase, c.open, c.agents, c.calls), e)
  BY <1>2, <1>4
<1> QED
  BY <1>4, <1>5, <1>6 DEF Taken, d, phase, open, agents, inCall, started, finished

\* The sending of one event shows it, and it is one that the protocol accepts.
LEMMA SendShows ==
    ASSUME StreamAssumption, TurnInv, Send
    PROVE  LET e == Head(adapter.out)
           IN /\ e \in Event /\ Accepts(OnScreen, e) /\ OnScreen' = Take(OnScreen, e) /\ ClientTyped'
              /\ client' = Receive(client, Shown(e))
<1> DEFINE e == Head(adapter.out)
           f == Shown(e)
<1>1. e \in Event /\ Accepts(OnScreen, e)
  <2>1. PICK p \in Phases : Led(OnScreen, adapter.out, Believed(adapter, p, InCall))
    BY DEF TurnInv, ScreenInv, Leads
  <2>2. adapter.out # <<>>
    BY DEF Send
  <2> QED
    BY <2>1, <2>2, LedPop
<1>2. client' = Receive(client, f)
  BY DEF Send
<1>3. \/ f = e
      \/ e.type \in {"run_started", "run_finished"} /\ f = [type |-> e.type, run |-> RunIdOf(e)]
  BY <1>1, ShownIs
<1> HIDE DEF e, f
<1>4. Take(OnScreen, f) = Take(OnScreen, e)
  <2>1. CASE f = e
    BY <2>1
  <2>2. CASE e.type \in {"run_started", "run_finished"} /\ f = [type |-> e.type, run |-> RunIdOf(e)]
    <3>1. f.type = e.type
      BY <2>2
    <3> QED
      BY <2>2, <3>1 DEF Take
  <2> QED
    BY <1>3, <2>1, <2>2
<1>5. ClientTyped' /\ OnScreen' = Take(OnScreen, f)
  <2>1. ClientTyped
    BY DEF TurnInv
  <2>2. Taken(client, f, client')
    BY <1>2, <2>1, ReceiveIs DEF ClientTyped
  <2> QED
    BY <2>2 DEF OnScreen, ClientTyped, Taken
<1> QED
  BY <1>1, <1>2, <1>4, <1>5 DEF e, f

\* A send shows the client the next event of the burst, and keeps the names.
LEMMA SendStep ==
    ASSUME StreamAssumption, TurnInv, Send
    PROVE  TurnInv'
<1> DEFINE e == Head(adapter.out)
<1>1. e \in Event /\ Accepts(OnScreen, e) /\ OnScreen' = Take(OnScreen, e) /\ ClientTyped'
  BY SendShows
<1>2. PICK p \in Phases : Leads(OnScreen, adapter, p, InCall) /\ Phased(p)
  BY DEF TurnInv, ScreenInv
<1>3. TurnStands /\ Named /\ ClientTyped /\ adapter.out # <<>> /\ adapter' = Pop(adapter)
      /\ mixin' = (IF e.type = "run_started" THEN RunIdOf(e) ELSE mixin)
      /\ client' = Receive(client, Shown(e))
      /\ UNCHANGED <<agno, parent, calls, drive, rounds, pending>>
  BY DEF TurnInv, ScreenInv, Send
<1>4. drive # "done"
  BY <1>3 DEF TurnStands, AtRest
<1>5. /\ IsAdapter(adapter') /\ adapter'.out = Tail(adapter.out) /\ adapter'.open = adapter.open
      /\ adapter'.subagents = adapter.subagents /\ adapter'.next = adapter.next /\ Same(adapter, adapter')
  <2> DEFINE y == Tail(adapter.out)
             b == [adapter EXCEPT !.out = y]
  <2>1. adapter' = b /\ y = Tail(adapter.out)
    BY <1>3 DEF Pop
  <2>2. IsAdapter(adapter)
    BY <1>2 DEF Leads, Voices
  <2> HIDE DEF y
  <2>3. /\ IsAdapter(b) /\ b.out = y /\ b.open = adapter.open
        /\ b.subagents = adapter.subagents /\ b.next = adapter.next /\ Same(adapter, b)
    BY <2>2 DEF IsAdapter, Same
  <2> HIDE DEF b
  <2> QED
    BY <2>1, <2>3
<1>6. Leads(OnScreen', adapter', p, InCall')
  <2>1. Led(OnScreen', adapter'.out, Believed(adapter, p, InCall))
    BY <1>1, <1>2, <1>3, <1>5, LedPop DEF Leads
  <2>2. Believed(adapter', p, InCall') = Believed(adapter, p, InCall)
    <3>1. Sequences(adapter') = Sequences(adapter)
      BY <1>5 DEF Sequences, OpenKeys, Owner
    <3>2. InCall' = InCall
      BY <1>3 DEF InCall
    <3> QED
      BY <1>5, <3>1, <3>2 DEF Believed
  <2>3. Voices(adapter') /\ Delegated(adapter') /\ adapter'.next <= MaxIds
    BY <1>2, <1>5 DEF Leads, Voices, Delegated
  <2> QED
    BY <2>1, <2>2, <2>3 DEF Leads
<1>7. mixin \in RunIds /\ (e.type = "run_started" => RunIdOf(e) \in RunIds \ {"none"})
  <2>1. mixin \in RunIds
    BY <1>3 DEF TurnStands, TurnTyped
  <2>2. e.type = "run_started" => e.run \in RunIds \ {"none"}
    BY <1>1, ShownIs
  <2> QED
    BY <2>1, <2>2 DEF RunIdOf
<1>8. TurnStands'
  <2>1. TurnTyped'
    BY <1>3, <1>5, <1>7 DEF TurnStands, TurnTyped, Same
  <2>2. Together' /\ Begun'
    BY <1>3, <1>5 DEF TurnStands, Together, Begun, Same
  <2>3. AtRest'
    BY <1>3, <1>4, <1>5 DEF TurnStands, AtRest, ClosedUp, Same
  <2>4. Delegating' /\ ClosedCalls'
    BY <1>3, <1>5 DEF TurnStands, Delegating, ClosedCalls, Same
  <2> QED
    BY <2>1, <2>2, <2>3, <2>4 DEF TurnStands
<1>9. Phased(p)'
  BY <1>2, <1>3 DEF Phased
<1>10. Named'
  <2>1. client.finished \in {"none", client.started}
    BY <1>3, <1>4 DEF Named
  <2>2. OnScreen.phase = client.phase
    BY DEF OnScreen, Screen
  <2>3. CASE e.type = "run_started"
    <3>1. client.phase = "idle" /\ client.finished = "none"
      BY <1>1, <1>3, <2>2, <2>3 DEF Accepts, Named
    <3> DEFINE f == Shown(e)
    <3>2. f = [type |-> "run_started", run |-> RunIdOf(e)]
      BY <1>1, <2>3, ShownIs
    <3>3. f.type = "run_started" /\ f.run = RunIdOf(e)
      BY <3>2
    <3>4. client' = Receive(client, f)
      BY <1>3
    <3> HIDE DEF f, e
    <3>s. Taken(client, f, client')
      BY <1>3, <3>4, ReceiveIs DEF ClientTyped
    <3>5. client'.phase = "running" /\ client'.started = RunIdOf(e) /\ client'.finished = client.finished
      BY <3>3, <3>s DEF Taken
    <3> QED
      BY <1>3, <1>7, <2>3, <3>1, <3>5 DEF Named
  <2>4. CASE e.type # "run_started"
    <3>1. UnderWay(client.phase)
      BY <1>1, <2>2, <2>4 DEF Accepts
    <3>2. client.phase # "idle" /\ mixin = client.started /\ mixin # "none"
      BY <1>3, <3>1 DEF UnderWay, Named
    <3> DEFINE f == Shown(e)
    <3>3. f.type = e.type /\ (e.type = "run_finished" => f.run = mixin)
      <4>1. CASE e.type = "run_finished"
        <5>1. f = [type |-> e.type, run |-> RunIdOf(e)]
          BY <1>1, <4>1, ShownIs
        <5> HIDE DEF f, e
        <5> QED
          BY <3>2, <5>1 DEF RunIdOf
      <4>2. CASE e.type # "run_finished"
        BY <1>1, <2>4, <4>2, ShownIs
      <4> QED
        BY <4>1, <4>2
    <3>4. client' = Receive(client, f)
      BY <1>3
    <3> HIDE DEF f, e
    <3>s. Taken(client, f, client')
      BY <1>3, <3>4, ReceiveIs DEF ClientTyped
    <3>5. /\ client'.phase = "over" \/ client'.phase = client.phase
          /\ client'.started = client.started
          /\ client'.finished = (IF e.type = "run_finished" THEN mixin ELSE client.finished)
      BY <2>4, <3>3, <3>s DEF Taken
    <3> QED
      BY <1>3, <2>1, <2>4, <3>2, <3>5 DEF Named
  <2> QED
    BY <2>3, <2>4
<1> HIDE DEF e
<1> QED
  BY <1>1, <1>2, <1>6, <1>8, <1>9, <1>10 DEF TurnInv, ScreenInv

\* A step that sends nothing keeps what the client was told.
LEMMA UnsentNamed ==
    ASSUME Named, ClientTyped, drive # "done", UNCHANGED <<mixin, client>>
    PROVE  Named' /\ ClientTyped'
BY DEF Named, ClientTyped

-----------------------------------------------------------------------------
(* The runner's other steps.                                                 *)

\* What is closed up leads nowhere but to a screen with nothing on it.
LEMMA BelievedNothing ==
    ASSUME NEW a, ClosedUp(a), NEW phase, NEW C
    PROVE  Sequences(a) = {} /\ Range(a.subagents) = {} /\ Believed(a, phase, C) = Screen(phase, {}, {}, C)
<1>1. Sequences(a) = {}
  BY SequencesAre DEF ClosedUp
<1>2. Range(a.subagents) = {}
  BY DEF ClosedUp, Range
<1> QED
  BY <1>1, <1>2 DEF Believed

Fresh(a) ==
    ClosedUp(a) /\ a.active = Nobody /\ a.completed = {} /\ a.closed = {} /\ a.paused = FALSE /\ a.out = <<>>

\* An adapter of a continued turn leads on from a screen with nothing on it.
LEMMA NewLeads ==
    ASSUME StreamAssumption, NEW phase, NEW C, NEW n \in Nat, n <= MaxIds
    PROVE  Leads(Screen(phase, {}, {}, C), NewAdapter(n), phase, C) /\ Fresh(NewAdapter(n))
<1> DEFINE a == NewAdapter(n)
           u == Screen(phase, {}, {}, C)
<1>1. Voices(a)
  <2>1. NoSeq \in [id : Nat, meta : Keys]
    BY DEF NoSeq, Keys
  <2>2. IsAdapter(a) /\ a.next = n /\ a.open = [kind \in Kinds |-> [k \in Keys |-> NoSeq]]
    BY DEF NewAdapter, IsAdapter
  <2> HIDE DEF a
  <2>3. Tables(a.open, a.next)
    BY <2>1, <2>2 DEF Tables, Kinds
  <2> QED
    BY <2>2, <2>3 DEF Voices
<1>2. /\ ClosedUp(a) /\ a.active = Nobody /\ a.completed = {} /\ a.closed = {} /\ a.paused = FALSE
      /\ a.out = <<>> /\ a.next = n
  BY DEF NewAdapter, ClosedUp
<1>u. u = Screen(phase, {}, {}, C)
  OBVIOUS
<1> HIDE DEF a, u
<1>3. Delegated(a)
  <2>1. <<>> \in Seq(Members) /\ IsInjective(<<>>)
    BY DEF IsInjective
  <2> QED
    BY <1>2, <2>1 DEF Delegated, ClosedUp
<1>4. Led(u, a.out, Believed(a, phase, C))
  BY <1>2, <1>u, BelievedNothing, LedNowhere
<1>5. Leads(u, a, phase, C)
  BY <1>1, <1>2, <1>3, <1>4 DEF Leads
<1> QED
  BY <1>2, <1>5, <1>u DEF a, Fresh

\* Nothing is left to send: the screen is what the adapter believes.
LEMMA AllSent ==
    ASSUME NEW p, NEW C, Leads(OnScreen, adapter, p, C), adapter.out = <<>>
    PROVE  OnScreen = Believed(adapter, p, C)
BY LedNowhere DEF Leads

\* The flush at the end of a stream: everything is closed, if it was not yet.
LEMMA StreamEndsStep ==
    ASSUME StreamAssumption, TurnInv, StreamEnds
    PROVE  TurnInv'
<1>1. PICK p \in Phases : Leads(OnScreen, adapter, p, InCall) /\ Phased(p)
  BY DEF TurnInv, ScreenInv
<1>2. TurnStands /\ Named /\ ClientTyped
  BY DEF TurnInv, ScreenInv
<1> DEFINE b == CloseEverything(adapter)
<1>3. /\ adapter' = b /\ drive = "streaming" /\ drive' = "flushed" /\ adapter.out = <<>>
      /\ agno[Top] = "over" \/ adapter.paused
      /\ UNCHANGED <<agno, parent, calls, rounds, pending, mixin, client>>
  BY DEF StreamEnds
<1>4. UnderWay(p) \/ ClosedUp(adapter)
  BY <1>1, <1>2, <1>3 DEF TurnStands, AtRest, Delegating, Phased
<1>5. Leads(OnScreen, b, p, InCall) /\ Same(adapter, b) /\ ClosedUp(b)
  BY <1>1, <1>4, LeadsCloseEverything
<1> HIDE DEF b
<1>6. OnScreen' = OnScreen /\ InCall' = InCall
  BY <1>3 DEF OnScreen, InCall
<1>7. Phased(p)'
  BY <1>1, <1>3 DEF Phased
<1>8. TurnStands'
  <2>1. TurnTyped' /\ Together'
    BY <1>2, <1>3, <1>5 DEF TurnStands, TurnTyped, Together, Same
  <2>2. Begun'
    <3>1. \A m \in Members, kind \in Kinds : b.open[kind][m] = NoSeq
      BY <1>5 DEF ClosedUp, Keys, Runs
    <3>2. Range(b.subagents) = {}
      BY <1>5, BelievedNothing
    <3> QED
      BY <1>2, <1>3, <1>5, <3>1, <3>2 DEF TurnStands, Begun, Same
  <2>3. AtRest'
    BY <1>2, <1>3, <1>5 DEF TurnStands, AtRest, Same
  <2>4. Delegating'
    <3>1. ASSUME ~MembersContinue, NEW m \in Members, agno[m] = "live"
          PROVE  FALSE
      <4>1. m \in Range(adapter.subagents) /\ ~adapter.paused
        BY <1>2, <3>1 DEF TurnStands, Delegating
      <4>2. ClosedUp(adapter)
        BY <1>2, <1>3, <4>1 DEF TurnStands, AtRest
      <4> QED
        BY <4>1, <4>2, BelievedNothing
    <3> QED
      BY <1>2, <1>3, <1>5, <3>1 DEF TurnStands, Delegating, Same
  <2>5. ClosedCalls'
    BY <1>2, <1>3, <1>5 DEF TurnStands, ClosedCalls, Same
  <2> QED
    BY <2>1, <2>2, <2>3, <2>4, <2>5 DEF TurnStands
<1>9. Named' /\ ClientTyped'
  BY <1>2, <1>3, UnsentNamed
<1>10. Leads(OnScreen', adapter', p, InCall')
  BY <1>3, <1>5, <1>6
<1> QED
  BY <1>7, <1>8, <1>9, <1>10 DEF TurnInv, ScreenInv

\* An in-process continue finds everything closed and begins with a new adapter.
LEMMA AutoContinueStep ==
    ASSUME StreamAssumption, TurnInv, AutoContinue
    PROVE  TurnInv'
<1>1. PICK p \in Phases : Leads(OnScreen, adapter, p, InCall) /\ Phased(p)
  BY DEF TurnInv, ScreenInv
<1>2. TurnStands /\ Named /\ ClientTyped
  BY DEF TurnInv, ScreenInv
<1> DEFINE b == NewAdapter(adapter.next)
<1>3. /\ adapter' = b /\ drive = "flushed" /\ drive' = "streaming" /\ adapter.out = <<>> /\ adapter.paused
      /\ calls' = [t \in Tools |-> IF calls[t] = "open" THEN "open" ELSE "idle"]
      /\ UNCHANGED <<agno, parent, mixin, client>>
  BY DEF AutoContinue, Flushed, OnlyLoads
<1>4. ClosedUp(adapter) /\ agno[Top] = "live"
  BY <1>2, <1>3 DEF TurnStands, AtRest, Delegating
<1>5. OnScreen' = OnScreen /\ InCall' = InCall
  BY <1>3 DEF OnScreen, InCall
<1>6. /\ Leads(OnScreen, b, p, InCall) /\ ClosedUp(b) /\ b.active = Nobody /\ b.completed = {}
      /\ b.closed = {} /\ b.paused = FALSE
  <2>1. OnScreen = Screen(p, {}, {}, InCall)
    BY <1>1, <1>3, <1>4, AllSent, BelievedNothing
  <2>2. adapter.next \in Nat /\ adapter.next <= MaxIds
    BY <1>1 DEF Leads, Voices, Tables
  <2> DEFINE n == adapter.next
             calling == InCall
  <2>3. Leads(Screen(p, {}, {}, calling), NewAdapter(n), p, calling) /\ Fresh(NewAdapter(n))
    <3>1. n \in Nat /\ n <= MaxIds
      BY <2>2
    <3> HIDE DEF n, calling
    <3> QED
      BY <3>1, NewLeads
  <2> QED
    BY <2>1, <2>3 DEF Fresh
<1> HIDE DEF b
<1>7. Phased(p)'
  BY <1>1, <1>3 DEF Phased
<1>8. TurnStands'
  <2>1. TurnTyped' /\ Together'
    BY <1>2, <1>3, <1>6 DEF TurnStands, TurnTyped, Together
  <2>2. Begun'
    <3>1. \A m \in Members, kind \in Kinds : b.open[kind][m] = NoSeq
      BY <1>6 DEF ClosedUp, Keys, Runs
    <3>2. Range(b.subagents) = {}
      BY <1>6, BelievedNothing
    <3> QED
      BY <1>3, <1>4, <1>6, <3>1, <3>2 DEF Begun
  <2>3. AtRest'
    BY <1>3, <1>4, <1>6 DEF AtRest
  <2>4. Delegating'
    BY <1>2, <1>3, <1>6 DEF TurnStands, Delegating
  <2>5. ClosedCalls'
    BY <1>3, <1>6 DEF ClosedCalls
  <2> QED
    BY <2>1, <2>2, <2>3, <2>4, <2>5 DEF TurnStands
<1>9. Named' /\ ClientTyped'
  BY <1>2, <1>3, UnsentNamed
<1>10. Leads(OnScreen', adapter', p, InCall')
  BY <1>3, <1>5, <1>6
<1> QED
  BY <1>7, <1>8, <1>9, <1>10 DEF TurnInv, ScreenInv

\* The limit on continues ends the run with an error.
LEMMA LimitReachedStep ==
    ASSUME StreamAssumption, TurnInv, LimitReached
    PROVE  TurnInv'
<1>1. PICK p \in Phases : Leads(OnScreen, adapter, p, InCall) /\ Phased(p)
  BY DEF TurnInv, ScreenInv
<1>2. TurnStands /\ Named /\ ClientTyped
  BY DEF TurnInv, ScreenInv
<1> DEFINE b == Emit(adapter, <<[type |-> "run_error"]>>)
<1>3. /\ adapter' = b /\ drive = "flushed" /\ drive' = "ending" /\ adapter.paused
      /\ UNCHANGED <<agno, parent, calls, rounds, pending, mixin, client>>
  BY DEF LimitReached, Flushed, OnlyLoads
<1>4. ClosedUp(adapter) /\ UnderWay(p)
  BY <1>1, <1>2, <1>3 DEF TurnStands, AtRest, Delegating, Phased
<1>5. Leads(OnScreen, b, "over", InCall) /\ "over" \in Phases
  <2>1. "input" \in RunIds \ {"none"}
    BY DEF RunIds
  <2> QED
    BY <1>1, <1>4, <2>1, LeadsRun DEF Phases
<1>6. Same(adapter, b) /\ b.open = adapter.open /\ b.subagents = adapter.subagents
  <2> DEFINE es == <<[type |-> "run_error"]>>
  <2>1. IsAdapter(adapter) /\ b = Emit(adapter, es)
    BY <1>1 DEF Leads, Voices
  <2> HIDE DEF es
  <2> QED
    BY <2>1, EmitIs
<1> HIDE DEF b
<1>7. OnScreen' = OnScreen /\ InCall' = InCall
  BY <1>3 DEF OnScreen, InCall
<1>8. Phased("over")'
  BY <1>3 DEF Phased
<1>9. TurnStands'
  <2>1. TurnTyped' /\ Together' /\ Begun'
    BY <1>2, <1>3, <1>6 DEF TurnStands, TurnTyped, Together, Begun, Same
  <2>2. AtRest'
    BY <1>2, <1>3, <1>4, <1>6 DEF TurnStands, AtRest, ClosedUp, Same
  <2>3. Delegating' /\ ClosedCalls'
    BY <1>2, <1>3, <1>6 DEF TurnStands, Delegating, ClosedCalls, Same
  <2> QED
    BY <2>1, <2>2, <2>3 DEF TurnStands
<1>10. Named' /\ ClientTyped'
  BY <1>2, <1>3, UnsentNamed
<1>11. Leads(OnScreen', adapter', "over", InCall')
  BY <1>3, <1>5, <1>7
<1> QED
  BY <1>5, <1>8, <1>9, <1>10, <1>11 DEF TurnInv, ScreenInv

\* A turn that awaits tools ends the run past the adapter, with nothing open.
LEMMA AwaitToolsStep ==
    ASSUME StreamAssumption, TurnInv, AwaitTools
    PROVE  TurnInv'
<1>1. PICK p \in Phases : Leads(OnScreen, adapter, p, InCall) /\ Phased(p)
  BY DEF TurnInv, ScreenInv
<1>2. TurnStands /\ Named /\ ClientTyped
  BY DEF TurnInv, ScreenInv
<1> DEFINE e == [type |-> "run_finished", run |-> "agno"]
<1>3. /\ client' = Receive(client, e) /\ drive = "flushed" /\ drive' = "done" /\ adapter.paused
      /\ adapter.out = <<>> /\ UNCHANGED <<agno, parent, calls, adapter, rounds, mixin>>
  BY DEF AwaitTools, Flushed
<1>4. ClosedUp(adapter) /\ UnderWay(p)
  BY <1>1, <1>2, <1>3 DEF TurnStands, AtRest, Delegating, Phased
<1>5. e.type = "run_finished"
  OBVIOUS
<1> HIDE DEF e
<1>6. Taken(client, e, client')
  BY <1>2, <1>3, ReceiveIs DEF ClientTyped
<1>7. OnScreen = Screen(p, {}, {}, InCall)
  BY <1>1, <1>3, <1>4, AllSent, BelievedNothing
<1>8. client.phase = p
  BY <1>7 DEF OnScreen, Screen
<1>9. OnScreen' = Screen("over", {}, {}, InCall)
  <2>1. OnScreen' = Take(OnScreen, e)
    BY <1>6 DEF OnScreen, Taken
  <2> QED
    BY <1>5, <1>7, <2>1 DEF Take, Screen
<1>10. InCall' = InCall /\ "over" \in Phases
  BY <1>3 DEF InCall, Phases
<1>11. Leads(OnScreen', adapter', "over", InCall')
  <2>1. OnScreen' = Believed(adapter, "over", InCall)
    BY <1>4, <1>9, BelievedNothing
  <2>2. Led(OnScreen', adapter.out, Believed(adapter, "over", InCall))
    BY <1>3, <2>1, LedNowhere
  <2> QED
    BY <1>1, <1>3, <1>10, <2>2 DEF Leads
<1>12. Phased("over")'
  BY <1>3 DEF Phased
<1>13. TurnStands'
  <2>1. TurnTyped' /\ Together' /\ Begun'
    BY <1>2, <1>3 DEF TurnStands, TurnTyped, Together, Begun
  <2>2. AtRest'
    BY <1>2, <1>3, <1>4 DEF TurnStands, AtRest
  <2>3. Delegating' /\ ClosedCalls'
    BY <1>2, <1>3 DEF TurnStands, Delegating, ClosedCalls
  <2> QED
    BY <2>1, <2>2, <2>3 DEF TurnStands
<1>14. Named' /\ ClientTyped'
  <2>1. client.phase # "idle"
    BY <1>4, <1>8 DEF UnderWay
  <2>2. client'.phase = "over" /\ client'.started = client.started
    BY <1>5, <1>6 DEF Taken
  <2>3. ClientTyped'
    BY <1>6 DEF Taken, ClientTyped
  <2> QED
    BY <1>2, <1>3, <2>1, <2>2, <2>3 DEF Named
<1> QED
  BY <1>10, <1>11, <1>12, <1>13, <1>14 DEF TurnInv, ScreenInv

\* A turn returns when its run is over.
LEMMA ReturnStep ==
    ASSUME StreamAssumption, TurnInv, Return
    PROVE  TurnInv'
<1>1. PICK p \in Phases : Leads(OnScreen, adapter, p, InCall) /\ Phased(p)
  BY DEF TurnInv, ScreenInv
<1>2. TurnStands /\ Named /\ ClientTyped
  BY DEF TurnInv, ScreenInv
<1>3. /\ drive = "ending" \/ (drive = "flushed" /\ ~adapter.paused)
      /\ adapter.out = <<>> /\ drive' = "done"
      /\ UNCHANGED <<agno, parent, calls, adapter, rounds, pending, mixin, client>>
  BY DEF Return
<1>4. p = "over"
  BY <1>1, <1>2, <1>3 DEF TurnStands, AtRest, Phased
<1>5. OnScreen' = OnScreen /\ InCall' = InCall
  BY <1>3 DEF OnScreen, InCall
<1>6. Phased(p)'
  BY <1>3, <1>4 DEF Phased
<1>7. TurnStands'
  <2>1. TurnTyped' /\ Together' /\ Begun'
    BY <1>2, <1>3 DEF TurnStands, TurnTyped, Together, Begun
  <2>2. AtRest'
    BY <1>2, <1>3 DEF TurnStands, AtRest
  <2>3. Delegating' /\ ClosedCalls'
    BY <1>2, <1>3 DEF TurnStands, Delegating, ClosedCalls
  <2> QED
    BY <2>1, <2>2, <2>3 DEF TurnStands
<1>8. Named' /\ ClientTyped'
  BY <1>2, <1>3, UnsentNamed
<1>9. Leads(OnScreen', adapter', p, InCall')
  BY <1>1, <1>3, <1>5
<1> QED
  BY <1>6, <1>7, <1>8, <1>9 DEF TurnInv, ScreenInv

-----------------------------------------------------------------------------
(* Agno's other steps.                                                       *)

\* A run that starts, goes on or ends leaves the rest of a turn's invariant to the adapter.
LEMMA AgnoStep ==
    ASSUME TurnInv, drive = "streaming", UNCHANGED <<drive, mixin, client>>,
           TurnStands', NEW p \in Phases, Leads(OnScreen, adapter', p, InCall'), Phased(p)'
    PROVE  TurnInv'
<1>1. Named' /\ ClientTyped'
  BY UnsentNamed DEF TurnInv
<1>2. OnScreen' = OnScreen
  BY DEF OnScreen
<1> QED
  BY <1>1, <1>2 DEF TurnInv, ScreenInv

\* The top run is announced once.
LEMMA RunStartedStep ==
    ASSUME StreamAssumption, TurnInv, RunStarted
    PROVE  TurnInv'
<1>1. PICK p \in Phases : Leads(OnScreen, adapter, p, InCall) /\ Phased(p)
  BY DEF TurnInv, ScreenInv
<1>2. TurnStands
  BY DEF TurnInv, ScreenInv
<1>3. /\ drive = "streaming" /\ ~adapter.paused
      /\ agno[Top] = "idle" \/ (agno[Top] = "live" /\ adapter.active = Top)
      /\ agno' = [agno EXCEPT ![Top] = "live"]
      /\ UNCHANGED <<parent, calls, drive, rounds, pending, mixin, client>>
  BY DEF RunStarted, Streaming
<1>4. InCall' = InCall
  BY <1>3 DEF InCall
<1>5. /\ Top \in Runs /\ agno \in [Runs -> {"idle", "live", "over"}]
      /\ \A m \in Members : m \in Runs /\ m # Top
  BY <1>2 DEF TurnStands, TurnTyped, Runs, StreamAssumption
<1>6. CASE adapter.active = Top
  <2>1. agno[Top] = "live" /\ adapter' = adapter
    BY <1>2, <1>3, <1>6 DEF TurnStands, Begun, RunStarted
  <2>2. agno' = agno
    BY <1>3, <1>5, <2>1
  <2>3. TurnTyped' /\ Together' /\ Begun'
    BY <1>2, <1>3, <2>1, <2>2 DEF TurnStands, TurnTyped, Together, Begun
  <2>4. AtRest'
    BY <1>2, <1>3, <2>1, <2>2 DEF TurnStands, AtRest
  <2>5. Delegating' /\ ClosedCalls'
    BY <1>2, <1>3, <2>1, <2>2 DEF TurnStands, Delegating, ClosedCalls
  <2>6. TurnStands'
    BY <2>3, <2>4, <2>5 DEF TurnStands
  <2>7. Phased(p)' /\ Leads(OnScreen, adapter', p, InCall')
    BY <1>1, <1>3, <1>4, <2>1, <2>2 DEF Phased
  <2> QED
    BY <1>3, <2>6, <2>7, AgnoStep
<1>7. CASE adapter.active # Top
  <2> DEFINE a == [adapter EXCEPT !.active = Top]
             es == <<[type |-> "run_started", run |-> "agno"]>>
             b == Emit(a, es)
  <2>1. agno[Top] = "idle" /\ adapter' = b
    BY <1>3, <1>7 DEF RunStarted
  <2>2. /\ IsAdapter(a) /\ a.active = Top /\ a.out = adapter.out /\ a.open = adapter.open
        /\ a.subagents = adapter.subagents /\ a.next = adapter.next /\ a.completed = adapter.completed
        /\ a.closed = adapter.closed /\ a.paused = adapter.paused
    BY <1>1 DEF Leads, Voices, IsAdapter
  <2> HIDE DEF a
  <2>3. Leads(OnScreen, a, p, InCall)
    BY <1>1, <2>2, LeadsField
  <2>4. p = "idle" /\ "running" \in Phases /\ "agno" \in RunIds \ {"none"}
    BY <1>1, <1>3, <2>1 DEF Phased, Phases, RunIds
  <2>5. Leads(OnScreen, b, "running", InCall)
    BY <2>3, <2>4, LeadsRun
  <2>6. b.open = a.open /\ b.subagents = a.subagents /\ Same(a, b)
    <3> HIDE DEF es
    <3> QED
      BY <2>2, EmitIs
  <2> HIDE DEF b, es
  <2>7. agno'[Top] = "live" /\ \A m \in Members : agno'[m] = agno[m]
    BY <1>3, <1>5
  <2>8. TurnTyped' /\ Together'
    BY <1>2, <1>3, <1>5, <2>1, <2>2, <2>6, <2>7 DEF TurnStands, TurnTyped, Together, Same
  <2>9. Begun'
    <3>1. Range(adapter.subagents) \subseteq Members
      <4>1. Delegated(adapter)
        BY <1>1 DEF Leads
      <4>2. Top \in Keys
        BY DEF Keys, Runs
      <4> QED
        BY <4>1, <4>2, OwnersSpeak
    <3> QED
      BY <1>2, <2>1, <2>2, <2>6, <2>7, <3>1 DEF TurnStands, Begun, Same
  <2>10. AtRest'
    BY <1>2, <1>3, <2>1, <2>2, <2>6, <2>7 DEF TurnStands, AtRest, Same
  <2>11. Delegating' /\ ClosedCalls'
    BY <1>2, <1>3, <2>1, <2>2, <2>6, <2>7 DEF TurnStands, Delegating, ClosedCalls, Same
  <2>12. TurnStands'
    BY <2>8, <2>9, <2>10, <2>11 DEF TurnStands
  <2>13. Phased("running")'
    BY <1>3, <2>7 DEF Phased, UnderWay
  <2> QED
    BY <1>3, <1>4, <2>1, <2>4, <2>5, <2>12, <2>13, AgnoStep
<1> QED
  BY <1>6, <1>7

\* A run that speaks, delegates or ends does so while the top run is under way.
LEMMA LiveUnderWay ==
    ASSUME StreamAssumption, TurnInv, NEW r \in Runs, Live(r)
    PROVE  /\ drive = "streaming" /\ agno[Top] = "live" /\ ~adapter.paused
           /\ \E p \in Phases : Leads(OnScreen, adapter, p, InCall) /\ Phased(p) /\ UnderWay(p)
<1>1. PICK p \in Phases : Leads(OnScreen, adapter, p, InCall) /\ Phased(p)
  BY DEF TurnInv, ScreenInv
<1>2. drive = "streaming" /\ agno[Top] = "live" /\ ~adapter.paused
  BY SpeakersAtWork DEF TurnInv, ScreenInv
<1> QED
  BY <1>1, <1>2 DEF Phased

\* A member had nothing open before it started: what is open is of who has begun.
LEMMA MemberStartedStep ==
    ASSUME StreamAssumption, TurnInv, NEW m \in Members, NEW r \in Runs, MemberStarted(m, r)
    PROVE  TurnInv'
<1>1. Live(r) /\ agno[m] = "idle" /\ agno[r] = "live" /\ agno' = [agno EXCEPT ![m] = "live"]
      /\ UNCHANGED <<calls, drive, rounds, pending, mixin, client>>
  BY DEF MemberStarted, Live
<1>2. drive = "streaming" /\ agno[Top] = "live" /\ ~adapter.paused
  BY <1>1, LiveUnderWay
<1>3. PICK p \in Phases : Leads(OnScreen, adapter, p, InCall) /\ Phased(p) /\ UnderWay(p)
  BY <1>1, LiveUnderWay
<1>4. TurnStands
  BY DEF TurnInv, ScreenInv
<1>5. /\ r \in Keys /\ m \in Keys /\ m # r /\ m # Top /\ "text" \in Kinds /\ "reasoning" \in Kinds
      /\ m \in Runs /\ Top \in Runs
  BY <1>1, <1>2 DEF Keys, Runs, Kinds
<1>6. m \notin Range(adapter.subagents) /\ \A kind \in Kinds : adapter.open[kind][m] = NoSeq
  BY <1>1, <1>4 DEF TurnStands, Begun
<1> DEFINE a0 == Close(adapter, "text", r)
           a == Close(a0, "reasoning", r)
           b == Joined(a, m, r)
<1>7. adapter' = b
  BY DEF MemberStarted, Joined
<1>8. /\ Leads(OnScreen, a0, p, InCall) /\ Same(adapter, a0) /\ a0.subagents = adapter.subagents
      /\ \A kind1 \in Kinds, k1 \in Keys :
            a0.open[kind1][k1] = IF kind1 = "text" /\ k1 = r THEN NoSeq ELSE adapter.open[kind1][k1]
  BY <1>3, <1>5, LeadsClose
<1> HIDE DEF a0
<1>9. /\ Leads(OnScreen, a, p, InCall) /\ Same(a0, a) /\ a.subagents = a0.subagents
      /\ \A kind1 \in Kinds, k1 \in Keys :
            a.open[kind1][k1] = IF kind1 = "reasoning" /\ k1 = r THEN NoSeq ELSE a0.open[kind1][k1]
  BY <1>3, <1>5, <1>8, LeadsClose
<1> HIDE DEF a
<1>10. m \notin Range(a.subagents) /\ \A kind \in Kinds : a.open[kind][m] = NoSeq
  BY <1>5, <1>6, <1>8, <1>9
<1>11. /\ Leads(OnScreen, b, p, InCall) /\ Same(a, b) /\ b.open = a.open
       /\ Range(b.subagents) = Range(a.subagents) \cup {m}
  BY <1>3, <1>5, <1>9, <1>10, LeadsMember
<1> HIDE DEF b
<1>12. agno \in [Runs -> {"idle", "live", "over"}]
  BY <1>4 DEF TurnStands, TurnTyped
<1>13. agno'[m] = "live" /\ \A x \in Runs : x # m => agno'[x] = agno[x]
  BY <1>1, <1>5, <1>12
<1>14. InCall' = InCall
  BY <1>1 DEF InCall
<1>15. TurnTyped' /\ Together'
  BY <1>1, <1>2, <1>4, <1>5, <1>7, <1>8, <1>9, <1>11, <1>12, <1>13 DEF TurnStands, TurnTyped, Together, Same
<1>16. Begun'
  <2>1. \A x \in Members, kind \in Kinds : b.open[kind][x] # NoSeq => adapter.open[kind][x] # NoSeq
    <3>1. \A x \in Members : x \in Keys
      BY DEF Keys, Runs
    <3> QED
      BY <1>8, <1>9, <1>11, <3>1
  <2>2. \A x \in Range(b.subagents) : x = m \/ x \in Range(adapter.subagents)
    BY <1>8, <1>9, <1>11
  <2>3. \A x \in Runs : agno[x] # "idle" => agno'[x] # "idle"
    BY <1>1, <1>13
  <2>4. \A x \in Members : x \in Runs
    BY DEF Runs
  <2>5. Range(adapter.subagents) \subseteq Members
    <3>1. Delegated(adapter)
      BY <1>3 DEF Leads
    <3> QED
      BY <1>5, <3>1, OwnersSpeak
  <2> QED
    BY <1>2, <1>4, <1>5, <1>7, <1>13, <2>1, <2>2, <2>3, <2>4, <2>5 DEF TurnStands, Begun
<1>17. AtRest'
  BY <1>1, <1>2, <1>4, <1>5, <1>7, <1>8, <1>9, <1>11, <1>13 DEF TurnStands, AtRest, Same
<1>18. Delegating'
  <2>1. adapter'.paused = adapter.paused
    BY <1>7, <1>8, <1>9, <1>11 DEF Same
  <2>2. \A x \in Members : x \in Runs
    BY DEF Runs
  <2>3. ASSUME ~MembersContinue, NEW x \in Members, agno'[x] = "live"
        PROVE  x \in Range(b.subagents)
    BY <1>4, <1>8, <1>9, <1>11, <1>13, <2>2, <2>3 DEF TurnStands, Delegating
  <2> QED
    BY <1>2, <1>7, <2>1, <2>3 DEF Delegating
<1>19. ClosedCalls'
  BY <1>1, <1>4, <1>7, <1>8, <1>9, <1>11 DEF TurnStands, ClosedCalls, Same
<1>20. TurnStands'
  BY <1>15, <1>16, <1>17, <1>18, <1>19 DEF TurnStands
<1>21. Phased(p)'
  BY <1>1, <1>2, <1>3, <1>5, <1>13 DEF Phased
<1> QED
  BY <1>1, <1>2, <1>7, <1>11, <1>14, <1>20, <1>21, AgnoStep

\* A member leaves, whether it completed or failed.
LEMMA MemberLeavesStep ==
    ASSUME StreamAssumption, TurnInv, NEW m \in Members, Live(m), NEW type \in {"agent_finished", "agent_error"},
           agno' = [agno EXCEPT ![m] = "over"], adapter' = Leave(m, type),
           UNCHANGED <<calls, drive, mixin, client>>
    PROVE  TurnInv'
<1>1. m \in Runs /\ Top \in Runs /\ m # Top /\ Top \in Keys /\ \A x \in Members : x \in Runs /\ x \in Keys
  BY DEF Runs, Keys, StreamAssumption
<1>2. drive = "streaming" /\ agno[Top] = "live" /\ ~adapter.paused
  BY <1>1, LiveUnderWay
<1>3. PICK p \in Phases : Leads(OnScreen, adapter, p, InCall) /\ Phased(p) /\ UnderWay(p)
  BY <1>1, LiveUnderWay
<1>4. TurnStands /\ agno \in [Runs -> {"idle", "live", "over"}]
  BY DEF TurnInv, ScreenInv, TurnStands, TurnTyped
<1> DEFINE b == Leave(m, type)
<1>5. /\ Leads(OnScreen, b, p, InCall) /\ Same(adapter, b)
      /\ Range(b.subagents) = Range(adapter.subagents) \ {m}
      /\ \A kind1 \in Kinds, k1 \in Keys : b.open[kind1][k1] # NoSeq => adapter.open[kind1][k1] # NoSeq
  BY <1>3, LeadsLeave
<1> HIDE DEF b
<1>6. adapter' = b
  BY DEF b
<1>7. agno'[m] = "over" /\ \A x \in Runs : x # m => agno'[x] = agno[x]
  BY <1>1, <1>4
<1>8. InCall' = InCall
  BY DEF InCall
<1>9. TurnTyped' /\ Together'
  BY <1>1, <1>2, <1>4, <1>5, <1>6, <1>7 DEF TurnStands, TurnTyped, Together, Same
<1>10. Begun'
  <2>1. Range(adapter.subagents) \subseteq Members
    <3>1. Delegated(adapter)
      BY <1>3 DEF Leads
    <3> QED
      BY <1>1, <3>1, OwnersSpeak
  <2>2. \A x \in Runs : agno[x] # "idle" => agno'[x] # "idle"
    BY <1>7
  <2> QED
    BY <1>1, <1>2, <1>4, <1>5, <1>6, <1>7, <2>1, <2>2 DEF TurnStands, Begun, Same
<1>11. AtRest'
  BY <1>1, <1>2, <1>4, <1>5, <1>6, <1>7 DEF TurnStands, AtRest, Same
<1>12. Delegating'
  <2>1. adapter'.paused = adapter.paused
    BY <1>5, <1>6 DEF Same
  <2>2. ASSUME ~MembersContinue, NEW x \in Members, agno'[x] = "live"
        PROVE  x \in Range(b.subagents)
    <3>1. x # m /\ agno[x] = "live"
      BY <1>1, <1>7, <2>2
    <3> QED
      BY <1>4, <1>5, <2>2, <3>1 DEF TurnStands, Delegating
  <2> QED
    BY <1>2, <1>6, <2>1, <2>2 DEF Delegating
<1>13. ClosedCalls'
  BY <1>4, <1>5, <1>6 DEF TurnStands, ClosedCalls, Same
<1>14. TurnStands'
  BY <1>9, <1>10, <1>11, <1>12, <1>13 DEF TurnStands
<1>15. Phased(p)'
  BY <1>1, <1>2, <1>3, <1>7 DEF Phased
<1> QED
  BY <1>2, <1>5, <1>6, <1>8, <1>14, <1>15, AgnoStep

\* What FailedWhole does.
LEMMA FailedWholeLeads ==
    ASSUME StreamAssumption, NEW u, NEW p, NEW C, Leads(u, adapter, p, C), UnderWay(p)
    PROVE  Leads(u, FailedWhole, "over", C) /\ Same(adapter, FailedWhole) /\ ClosedUp(FailedWhole)
<1> DEFINE a == CloseEverything(adapter)
           es == <<[type |-> "run_error"]>>
           b == Emit(a, es)
<1>1. FailedWhole = b
  BY DEF FailedWhole
<1>2. Leads(u, a, p, C) /\ Same(adapter, a) /\ ClosedUp(a)
  BY LeadsCloseEverything
<1> HIDE DEF a
<1>3. Leads(u, b, "over", C)
  <2>1. "input" \in RunIds \ {"none"}
    BY DEF RunIds
  <2> QED
    BY <1>2, <2>1, LeadsRun
<1>4. b.open = a.open /\ b.subagents = a.subagents /\ Same(a, b)
  <2>1. IsAdapter(a)
    BY <1>2 DEF Leads, Voices
  <2> HIDE DEF es
  <2> QED
    BY <2>1, EmitIs
<1> HIDE DEF b, es
<1> QED
  BY <1>1, <1>2, <1>3, <1>4 DEF Same, ClosedUp

\* The top run ends, and with it all of them.
LEMMA EndsStep ==
    ASSUME StreamAssumption, TurnInv, drive = "streaming", agno' = [r \in Runs |-> "over"],
           UNCHANGED <<calls, drive, mixin, client>>,
           Leads(OnScreen, adapter', "over", InCall), ClosedUp(adapter'), adapter'.paused = FALSE,
           adapter'.active \in {Top, Nobody}, adapter'.closed = adapter.closed,
           Top \in adapter'.completed => adapter'.active # Top
    PROVE  TurnInv'
<1>1. Top \in Runs /\ \A x \in Members : x \in Runs /\ x \in Keys
  BY DEF Runs, Keys
<1>2. TurnStands
  BY DEF TurnInv, ScreenInv
<1>3. \A x \in Runs : agno'[x] = "over"
  OBVIOUS
<1>4. agno' \in [Runs -> {"idle", "live", "over"}]
  OBVIOUS
<1>5. InCall' = InCall /\ "over" \in Phases
  BY DEF InCall, Phases
<1>6. TurnTyped' /\ Together'
  BY <1>1, <1>2, <1>3, <1>4 DEF TurnStands, TurnTyped, Together
<1>7. Begun'
  <2>1. Range(adapter'.subagents) = {}
    BY BelievedNothing
  <2>2. \A x \in Members, kind \in Kinds : adapter'.open[kind][x] = NoSeq
    BY <1>1 DEF ClosedUp
  <2> QED
    BY <1>1, <1>3, <2>1, <2>2 DEF Begun
<1>8. AtRest'
  BY <1>1, <1>3 DEF AtRest
<1>9. Delegating'
  BY <1>1, <1>3 DEF Delegating
<1>10. ClosedCalls'
  BY <1>2 DEF TurnStands, ClosedCalls
<1>11. TurnStands'
  BY <1>6, <1>7, <1>8, <1>9, <1>10 DEF TurnStands
<1>12. Phased("over")'
  BY <1>1, <1>3 DEF Phased
<1> QED
  BY <1>5, <1>11, <1>12, AgnoStep

\* A failed run closes everything before RUN_ERROR.
LEMMA RunFailedStep ==
    ASSUME StreamAssumption, TurnInv, RunFailed
    PROVE  TurnInv'
<1>1. Live(Top) /\ Top \in Runs /\ agno' = [r \in Runs |-> "over"] /\ adapter' = FailedWhole
      /\ UNCHANGED <<parent, calls, drive, rounds, pending, mixin, client>>
  BY DEF RunFailed, Runs
<1>2. drive = "streaming" /\ agno[Top] = "live" /\ ~adapter.paused
  BY <1>1, LiveUnderWay
<1>3. PICK p \in Phases : Leads(OnScreen, adapter, p, InCall) /\ Phased(p) /\ UnderWay(p)
  BY <1>1, LiveUnderWay
<1>4. Leads(OnScreen, FailedWhole, "over", InCall) /\ Same(adapter, FailedWhole) /\ ClosedUp(FailedWhole)
  BY <1>3, FailedWholeLeads
<1>5. /\ adapter'.active \in {Top, Nobody} /\ adapter'.closed = adapter.closed
      /\ adapter'.completed = adapter.completed /\ adapter'.active = adapter.active
      /\ adapter'.paused = adapter.paused
  BY <1>1, <1>4 DEF Same, TurnInv, ScreenInv, TurnStands, TurnTyped
<1>6. Top \in adapter'.completed => adapter'.active # Top
  BY <1>5 DEF TurnInv, ScreenInv, TurnStands, AtRest
<1>7. adapter'.paused = FALSE
  BY <1>2, <1>5
<1> QED
  BY <1>1, <1>2, <1>4, <1>5, <1>6, <1>7, EndsStep

\* A run completes once; whatever its members had open is closed before RUN_FINISHED.
LEMMA RunCompletedStep ==
    ASSUME StreamAssumption, TurnInv, RunCompleted
    PROVE  TurnInv'
<1>1. /\ Live(Top) \/ (Streaming /\ Top \in adapter.completed)
      /\ agno' = [r \in Runs |-> "over"]
      /\ UNCHANGED <<parent, calls, drive, rounds, pending, mixin, client>>
  BY DEF RunCompleted
<1>2. drive = "streaming" /\ ~adapter.paused /\ Top \in Runs
  BY <1>1 DEF Live, Streaming, Runs
<1>3. TurnStands /\ adapter.active \in {Top, Nobody}
  BY DEF TurnInv, ScreenInv, TurnStands, TurnTyped
<1>4. CASE Top \in adapter.completed
  <2>1. agno[Top] = "over" /\ adapter.active # Top /\ ClosedUp(adapter) /\ adapter' = adapter
    BY <1>3, <1>4 DEF TurnStands, AtRest, RunCompleted
  <2>2. PICK p \in Phases : Leads(OnScreen, adapter, p, InCall) /\ Phased(p)
    BY DEF TurnInv, ScreenInv
  <2>3. p = "over"
    BY <1>2, <2>1, <2>2 DEF Phased
  <2>4. adapter'.paused = FALSE
    BY <1>2, <2>1
  <2> QED
    BY <1>1, <1>2, <1>3, <2>1, <2>2, <2>3, <2>4, EndsStep
<1>5. CASE Top \notin adapter.completed
  <2>1. Live(Top)
    BY <1>1, <1>5
  <2>2. PICK p \in Phases : Leads(OnScreen, adapter, p, InCall) /\ Phased(p) /\ UnderWay(p)
    BY <1>2, <2>1, LiveUnderWay
  <2> DEFINE a == CloseEverything(adapter)
             done == a.completed \cup {Top}
             c0 == [a EXCEPT !.completed = done]
             c == [c0 EXCEPT !.active = Nobody]
             es == <<[type |-> "run_finished", run |-> "agno"]>>
             b == Emit(c, es)
  <2>3. adapter' = b
    BY <1>5 DEF RunCompleted
  <2>4. Leads(OnScreen, a, p, InCall) /\ Same(adapter, a) /\ ClosedUp(a)
    BY <2>2, LeadsCloseEverything
  <2> HIDE DEF a, done
  <2>5. /\ IsAdapter(c) /\ c.out = a.out /\ c.open = a.open /\ c.subagents = a.subagents
        /\ c.next = a.next /\ c.active = Nobody /\ c.closed = a.closed /\ c.paused = a.paused
    <3>1. IsAdapter(a)
      BY <2>4 DEF Leads, Voices
    <3>2. /\ IsAdapter(c0) /\ c0.out = a.out /\ c0.open = a.open /\ c0.subagents = a.subagents
          /\ c0.next = a.next /\ c0.closed = a.closed /\ c0.paused = a.paused
      BY <3>1 DEF IsAdapter
    <3> HIDE DEF c0
    <3> QED
      BY <3>2 DEF IsAdapter
  <2> HIDE DEF c
  <2>6. Leads(OnScreen, c, p, InCall) /\ ClosedUp(c)
    BY <2>4, <2>5, LeadsField DEF ClosedUp
  <2>7. Leads(OnScreen, b, "over", InCall)
    <3>1. "agno" \in RunIds \ {"none"}
      BY DEF RunIds
    <3> QED
      BY <2>2, <2>6, <3>1, LeadsRun
  <2>8. b.open = c.open /\ b.subagents = c.subagents /\ Same(c, b)
    <3> HIDE DEF es
    <3> QED
      BY <2>5, EmitIs
  <2> HIDE DEF b
  <2>9. ClosedUp(b) /\ b.active = Nobody /\ b.closed = adapter.closed /\ b.paused = adapter.paused
    BY <2>4, <2>5, <2>6, <2>8 DEF Same, ClosedUp
  <2>10. adapter'.paused = FALSE /\ Nobody # Top
    BY <1>2, <2>3, <2>9 DEF StreamAssumption, Runs
  <2> QED
    BY <1>1, <1>2, <2>3, <2>7, <2>9, <2>10, EndsStep
<1> QED
  BY <1>4, <1>5

\* A member that fails leaves; one that outlived a pause ends the run for all.
LEMMA MemberFailedStep ==
    ASSUME StreamAssumption, TurnInv, NEW m \in Members, MemberFailed(m)
    PROVE  TurnInv'
<1>1. Live(m) /\ agno' = [agno EXCEPT ![m] = "over"]
      /\ UNCHANGED <<parent, calls, drive, rounds, pending, mixin, client>>
  BY DEF MemberFailed
<1>2. m \in Runs /\ Top \in Runs /\ m # Top /\ \A x \in Members : x \in Runs /\ x \in Keys
  BY DEF Runs, Keys, StreamAssumption
<1>3. CASE m \in Range(adapter.subagents)
  <2>1. adapter' = Leave(m, "agent_error")
    BY <1>3 DEF MemberFailed
  <2> QED
    BY <1>1, <2>1, MemberLeavesStep
<1>4. CASE m \notin Range(adapter.subagents)
  <2>1. drive = "streaming" /\ agno[Top] = "live" /\ ~adapter.paused
    BY <1>1, <1>2, LiveUnderWay
  <2>2. PICK p \in Phases : Leads(OnScreen, adapter, p, InCall) /\ Phased(p) /\ UnderWay(p)
    BY <1>1, <1>2, LiveUnderWay
  <2>3. TurnStands /\ agno \in [Runs -> {"idle", "live", "over"}]
    BY DEF TurnInv, ScreenInv, TurnStands, TurnTyped
  <2>4. MembersContinue
    BY <1>1, <1>4, <2>3 DEF TurnStands, Delegating, Live
  <2> DEFINE b == FailedWhole
  <2>5. adapter' = b
    BY <1>4 DEF MemberFailed
  <2>6. Leads(OnScreen, b, "over", InCall) /\ Same(adapter, b) /\ ClosedUp(b)
    BY <2>2, FailedWholeLeads
  <2> HIDE DEF b
  <2>7. agno'[m] = "over" /\ \A x \in Runs : x # m => agno'[x] = agno[x]
    BY <1>1, <1>2, <2>3
  <2>8. TurnTyped' /\ Together'
    BY <1>1, <1>2, <2>1, <2>3, <2>5, <2>6, <2>7 DEF TurnStands, TurnTyped, Together, Same
  <2>9. Begun'
    <3>1. Range(adapter'.subagents) = {}
      BY <2>5, <2>6, BelievedNothing
    <3>2. \A x \in Members, kind \in Kinds : adapter'.open[kind][x] = NoSeq
      BY <1>2, <2>5, <2>6 DEF ClosedUp
    <3> QED
      BY <1>2, <2>1, <2>7, <3>1, <3>2 DEF Begun
  <2>10. AtRest'
    BY <1>1, <1>2, <2>1, <2>3, <2>5, <2>6, <2>7 DEF TurnStands, AtRest, Same
  <2>11. Delegating' /\ ClosedCalls'
    BY <1>1, <1>2, <2>1, <2>3, <2>4, <2>5, <2>6, <2>7 DEF TurnStands, Delegating, ClosedCalls, Same
  <2>12. TurnStands'
    BY <2>8, <2>9, <2>10, <2>11 DEF TurnStands
  <2>13. Phased("over")' /\ "over" \in Phases /\ InCall' = InCall
    BY <1>1, <1>2, <2>1, <2>4, <2>7 DEF Phased, UnderWay, Phases, InCall
  <2> QED
    BY <1>1, <2>1, <2>5, <2>6, <2>12, <2>13, AgnoStep
<1> QED
  BY <1>3, <1>4

\* A pause closes the sequences and makes up the calls it waits for.
LEMMA RunPausedStep ==
    ASSUME StreamAssumption, TurnInv, NEW E \in SUBSET External, RunPaused(E)
    PROVE  TurnInv'
<1> DEFINE a0 == CloseAll(adapter, "reasoning")
           a == CloseAll(a0, "text")
           ts == SetToSeq(E)
           made == [i \in 1..2 * Len(ts) |->
                      LET e == ToolEvents(a, ts[(i + 1) \div 2], Nobody)
                      IN IF i % 2 = 1 THEN e.start ELSE e.end]
           c == Emit(a, made)
           more == c.closed \cup E
           paused == TRUE
           c0 == [c EXCEPT !.paused = paused]
           b == [c0 EXCEPT !.closed = more]
<1>1. /\ Live(Top) /\ Top \in Runs /\ adapter' = b /\ \A t \in E : calls[t] = "idle"
      /\ agno' = [r \in Runs |-> IF r # Top /\ agno[r] = "live" /\ ~MembersContinue THEN "over" ELSE agno[r]]
      /\ calls' = [t \in Tools |-> IF t \in E THEN "closed" ELSE calls[t]]
      /\ UNCHANGED <<parent, drive, rounds, mixin, client>>
  BY DEF RunPaused, Runs
<1>2. drive = "streaming" /\ agno[Top] = "live" /\ ~adapter.paused
  BY <1>1, LiveUnderWay
<1>3. PICK p \in Phases : Leads(OnScreen, adapter, p, InCall) /\ Phased(p) /\ UnderWay(p)
  BY <1>1, LiveUnderWay
<1>4. /\ TurnStands /\ agno \in [Runs -> {"idle", "live", "over"}]
      /\ calls \in [Tools -> {"idle", "open", "closed"}] /\ ClosedCalls
  BY DEF TurnInv, ScreenInv, TurnStands, TurnTyped
<1>5. "text" \in Kinds /\ "reasoning" \in Kinds /\ E \subseteq Tools
      /\ \A x \in Members : x \in Runs /\ x \in Keys /\ x # Top
  BY DEF Kinds, Tools, Runs, Keys, StreamAssumption
<1>6. InCall' = InCall /\ E \cap InCall = {}
  BY <1>1, <1>4, <1>5 DEF InCall
<1>7. /\ Leads(OnScreen, a0, p, InCall) /\ Same(adapter, a0) /\ a0.subagents = adapter.subagents
      /\ \A kind1 \in Kinds, k1 \in Keys :
            a0.open[kind1][k1] = IF kind1 = "reasoning" THEN NoSeq ELSE adapter.open[kind1][k1]
  BY <1>3, <1>5, LeadsCloseAll
<1> HIDE DEF a0
<1>8. /\ Leads(OnScreen, a, p, InCall) /\ Same(a0, a) /\ a.subagents = a0.subagents
      /\ \A kind1 \in Kinds, k1 \in Keys :
            a.open[kind1][k1] = IF kind1 = "text" THEN NoSeq ELSE a0.open[kind1][k1]
  BY <1>3, <1>5, <1>7, LeadsCloseAll
<1> HIDE DEF a
<1>9. Leads(OnScreen, c, p, InCall)
  BY <1>3, <1>6, <1>8, LeadsPause
<1>10. IsAdapter(c) /\ c.open = a.open /\ c.subagents = a.subagents /\ Same(a, c)
  <2>1. IsAdapter(a)
    BY <1>8 DEF Leads, Voices
  <2> HIDE DEF made
  <2> QED
    BY <2>1, EmitIs
<1> HIDE DEF c
<1>11. /\ IsAdapter(b) /\ b.out = c.out /\ b.open = c.open /\ b.subagents = c.subagents /\ b.next = c.next
       /\ b.active = c.active /\ b.completed = c.completed /\ b.paused = TRUE /\ b.closed = c.closed \cup E
  <2>1. more = c.closed \cup E /\ paused = TRUE
    OBVIOUS
  <2> HIDE DEF more, paused
  <2>2. /\ IsAdapter(b) /\ b.out = c.out /\ b.open = c.open /\ b.subagents = c.subagents /\ b.next = c.next
        /\ b.active = c.active /\ b.completed = c.completed /\ b.paused = paused /\ b.closed = more
    <3>1. /\ IsAdapter(c0) /\ c0.out = c.out /\ c0.open = c.open /\ c0.subagents = c.subagents
          /\ c0.next = c.next /\ c0.active = c.active /\ c0.completed = c.completed /\ c0.paused = paused
      BY <1>10 DEF IsAdapter
    <3> HIDE DEF c0
    <3> QED
      BY <3>1 DEF IsAdapter
  <2> QED
    BY <2>1, <2>2
<1> HIDE DEF b
<1>12. Leads(OnScreen, b, p, InCall)
  BY <1>9, <1>11, LeadsField
<1>13. \A x \in Runs : agno'[x] = IF x # Top /\ agno[x] = "live" /\ ~MembersContinue THEN "over" ELSE agno[x]
  BY <1>1
<1>14. TurnTyped' /\ Together'
  <2>1. agno' \in [Runs -> {"idle", "live", "over"}] /\ calls' \in [Tools -> {"idle", "open", "closed"}]
    BY <1>1, <1>4
  <2>2. adapter'.active = adapter.active /\ agno'[Top] = "live"
    BY <1>1, <1>2, <1>7, <1>8, <1>10, <1>11, <1>13 DEF Same
  <2> QED
    BY <1>1, <1>4, <2>1, <2>2 DEF TurnStands, TurnTyped, Together
<1>15. Begun'
  <2>1. \A x \in Members, kind \in Kinds : b.open[kind][x] # NoSeq => adapter.open[kind][x] # NoSeq
    BY <1>5, <1>7, <1>8, <1>10, <1>11
  <2>2. b.subagents = adapter.subagents
    BY <1>7, <1>8, <1>10, <1>11
  <2>3. \A x \in Runs : agno[x] # "idle" => agno'[x] # "idle"
    BY <1>13
  <2>4. Range(adapter.subagents) \subseteq Members
    <3>1. Delegated(adapter) /\ Top \in Keys
      BY <1>3 DEF Leads, Keys, Runs
    <3> QED
      BY <3>1, OwnersSpeak
  <2> QED
    BY <1>1, <1>2, <1>4, <1>5, <2>1, <2>2, <2>3, <2>4 DEF TurnStands, Begun
<1>16. AtRest'
  <2>1. agno'[Top] = "live" /\ adapter'.completed = adapter.completed
    BY <1>1, <1>2, <1>7, <1>8, <1>10, <1>11, <1>13 DEF Same
  <2> QED
    BY <1>1, <1>2, <1>4, <2>1 DEF TurnStands, AtRest
<1>17. Delegating'
  <2>1. agno'[Top] = "live"
    BY <1>1, <1>2, <1>13
  <2>2. MembersContinue \/ \A x \in Members : agno'[x] # "live"
    BY <1>5, <1>13
  <2> QED
    BY <2>1, <2>2 DEF Delegating
<1>18. ClosedCalls'
  <2>1. adapter'.closed = adapter.closed \cup E
    BY <1>1, <1>7, <1>8, <1>10, <1>11 DEF Same
  <2>2. \A t \in Tools : calls'[t] = "closed" <=> calls[t] = "closed" \/ t \in E
    BY <1>1
  <2> QED
    BY <1>4, <1>5, <2>1, <2>2 DEF ClosedCalls
<1>19. TurnStands'
  BY <1>14, <1>15, <1>16, <1>17, <1>18 DEF TurnStands
<1>20. Phased(p)'
  BY <1>1, <1>2, <1>3, <1>13 DEF Phased
<1> QED
  BY <1>1, <1>2, <1>6, <1>12, <1>19, <1>20, AgnoStep

-----------------------------------------------------------------------------
(* The invariant of a turn holds, and what it says of the screen.            *)

\* Two events one after the other.
LEMMA OneThenTwo ==
    ASSUME NEW x, NEW y
    PROVE  <<x>> \o <<y>> = <<x, y>>
<1> DEFINE S == {x, y}
           s == <<x>> \o <<y>>
           t == <<x, y>>
<1>1. s \in Seq(S) /\ t \in Seq(S)
  OBVIOUS
<1>2. Len(s) = 2 /\ s[1] = x /\ s[2] = y
  OBVIOUS
<1>3. Len(t) = 2 /\ t[1] = x /\ t[2] = y
  OBVIOUS
<1> HIDE DEF S, s, t
<1>4. \A i \in 1..2 : s[i] = t[i]
  BY <1>2, <1>3
<1>5. s = t
  BY <1>1, <1>2, <1>3, <1>4, SeqEqual
<1> QED
  BY <1>5 DEF s, t

\* What RUN_STARTED and RUN_ERROR by themselves do to a new adapter.
LEMMA EmitTwice ==
    ASSUME NEW a, IsAdapter(a), a.out = <<>>, NEW x, NEW y
    PROVE  Emit(a, <<x, y>>) = Emit(Emit(a, <<x>>), <<y>>)
<1> DEFINE b == Emit(a, <<x>>)
           c == Emit(a, <<x, y>>)
           d == Emit(b, <<y>>)
<1>1. /\ IsAdapter(b) /\ b.out = <<x>> /\ b.open = a.open /\ b.subagents = a.subagents
      /\ b.next = a.next /\ Same(a, b)
  <2> DEFINE es == <<x>>
  <2>1. <<>> \o es = <<x>>
    OBVIOUS
  <2>2. b = Emit(a, es)
    OBVIOUS
  <2> HIDE DEF es, b
  <2> QED
    BY <2>1, <2>2, EmitIs
<1>2. /\ IsAdapter(c) /\ c.out = <<x, y>> /\ c.open = a.open /\ c.subagents = a.subagents
      /\ c.next = a.next /\ Same(a, c)
  <2> DEFINE es == <<x, y>>
  <2>1. <<>> \o es = <<x, y>>
    OBVIOUS
  <2>2. c = Emit(a, es)
    OBVIOUS
  <2> HIDE DEF es, c
  <2> QED
    BY <2>1, <2>2, EmitIs
<1> HIDE DEF b
<1>3. /\ IsAdapter(d) /\ d.out = <<x, y>> /\ d.open = b.open /\ d.subagents = b.subagents
      /\ d.next = b.next /\ Same(b, d)
  <2> DEFINE es == <<y>>
  <2>1. <<x>> \o es = <<x, y>>
    BY OneThenTwo
  <2>2. d = Emit(b, es)
    OBVIOUS
  <2> HIDE DEF es, d
  <2> QED
    BY <1>1, <2>1, <2>2, EmitIs
<1> HIDE DEF c, d
<1>4. c = d
  BY <1>1, <1>2, <1>3 DEF IsAdapter, Same
<1> QED
  BY <1>4 DEF b, c, d

\* Each of the three turns begins with a screen that its first burst leads on from.
LEMMA TurnInit ==
    ASSUME StreamAssumption, Init
    PROVE  TurnInv
<1> DEFINE a == NewAdapter(0)
           start == RunStartedBy("input")
           error == [type |-> "run_error"]
           u == Screen("idle", {}, {}, {})
<1>1. /\ agno \in [Runs -> {"idle", "live", "over"}] /\ calls = [t \in Tools |-> "idle"]
      /\ \A m \in Members : agno[m] = "idle"
      /\ client = [phase |-> "idle", open |-> {}, agents |-> {}, calls |-> {},
                   started |-> "none", finished |-> "none", last |-> [type |-> "none"]]
      /\ mixin \in {"none", "input"} /\ drive \in {"streaming", "ending"}
  <2>1. \A m \in Members : m \in Runs /\ m # Top
    BY DEF StreamAssumption, Runs
  <2> QED
    BY <2>1 DEF Init, Idle
<1>2. OnScreen = u /\ IsClient(client) /\ InCall = {}
  <2>1. OnScreen = u
    BY <1>1 DEF OnScreen
  <2>2. IsClient(client)
    BY <1>1 DEF IsClient
  <2>3. InCall = {}
    BY <1>1 DEF InCall
  <2> QED
    BY <2>1, <2>2, <2>3
<1>3. Leads(u, a, "idle", {}) /\ Fresh(a)
  <2>1. 0 \in Nat /\ 0 <= MaxIds
    BY DEF StreamAssumption
  <2> QED
    BY <2>1, NewLeads
<1>4. {"idle", "running", "over"} = Phases /\ "input" \in RunIds \ {"none"} /\ Top \in Runs /\ Nobody # Top
  BY DEF Phases, RunIds, Runs, StreamAssumption
<1>5. IsAdapter(a)
  BY <1>3 DEF Leads, Voices
<1> HIDE DEF u, a
<1> DEFINE b == Emit(a, <<start>>)
           c == Emit(b, <<error>>)
<1>6. b.open = a.open /\ b.subagents = a.subagents /\ Same(a, b) /\ IsAdapter(b)
  <2> DEFINE es == <<start>>
  <2>1. b = Emit(a, es)
    OBVIOUS
  <2> HIDE DEF es, b
  <2> QED
    BY <1>5, <2>1, EmitIs
<1>7. Leads(u, b, "running", {})
  BY <1>3, <1>4, LeadsRun DEF RunStartedBy
<1> HIDE DEF b
<1>8. c.open = b.open /\ c.subagents = b.subagents /\ Same(b, c)
  <2> DEFINE es == <<error>>
  <2>1. c = Emit(b, es)
    OBVIOUS
  <2> HIDE DEF es, c
  <2> QED
    BY <1>6, <2>1, EmitIs
<1>9. Leads(u, c, "over", {})
  <2>1. ClosedUp(b) /\ UnderWay("running")
    BY <1>3, <1>6 DEF ClosedUp, Fresh, UnderWay
  <2> QED
    BY <1>4, <1>7, <2>1, LeadsRun
<1> HIDE DEF c
<1>10. Named /\ ClientTyped
  BY <1>1, <1>2 DEF Named, ClientTyped
\* Each of the three turns begins with an adapter that is fresh but for `out`.
<1>11. ASSUME adapter.open = a.open, adapter.subagents = a.subagents, Same(a, adapter), agno[Top] # "over"
       PROVE  TurnStands
  <2>1. ClosedUp(adapter)
    BY <1>3, <1>11 DEF Fresh, ClosedUp
  <2>2. Range(adapter.subagents) = {}
    BY <2>1, BelievedNothing
  <2>3. TurnTyped
    <3>1. calls \in [Tools -> {"idle", "open", "closed"}]
      BY <1>1
    <3>2. mixin \in RunIds
      BY <1>1 DEF RunIds
    <3> QED
      BY <1>1, <1>3, <1>11, <3>1, <3>2 DEF TurnTyped, Fresh, Same
  <2>4. agno[Top] \in {"idle", "live"}
    BY <1>1, <1>4, <1>11
  <2>5. Together
    BY <1>1, <2>4 DEF Together
  <2>6. Begun
    <3>1. \A m \in Members, kind \in Kinds : adapter.open[kind][m] = NoSeq
      BY <2>1 DEF ClosedUp, Keys, Runs
    <3> QED
      BY <1>3, <1>4, <1>11, <2>2, <3>1 DEF Begun, Fresh, Same
  <2>7. AtRest
    BY <1>1, <1>3, <1>11, <2>1 DEF AtRest, Fresh, Same
  <2>8. Delegating
    BY <1>1, <1>3, <1>11 DEF Delegating, Fresh, Same
  <2>9. ClosedCalls
    BY <1>1, <1>3, <1>11 DEF ClosedCalls, Fresh, Same
  <2> QED
    BY <2>3, <2>5, <2>6, <2>7, <2>8, <2>9 DEF TurnStands
<1>12. CASE agno = Idle /\ drive = "streaming" /\ adapter = a
  <2>1. agno[Top] = "idle"
    BY <1>4, <1>12 DEF Idle
  <2>2. Phased("idle")
    BY <1>12, <2>1 DEF Phased
  <2>3. TurnStands
    BY <1>11, <1>12, <2>1 DEF Same
  <2> QED
    BY <1>2, <1>3, <1>4, <1>10, <1>12, <2>2, <2>3 DEF TurnInv, ScreenInv
<1>13. CASE agno = [Idle EXCEPT ![Top] = "live"] /\ drive = "streaming" /\ adapter = b
  <2>1. agno[Top] = "live"
    BY <1>4, <1>13 DEF Idle
  <2>2. Phased("running")
    BY <1>13, <2>1 DEF Phased, UnderWay
  <2>3. TurnStands
    BY <1>6, <1>11, <1>13, <2>1
  <2> QED
    BY <1>2, <1>4, <1>7, <1>10, <1>13, <2>2, <2>3 DEF TurnInv, ScreenInv
<1>14. CASE agno = Idle /\ drive = "ending" /\ adapter = c
  <2>1. agno[Top] = "idle"
    BY <1>4, <1>14 DEF Idle
  <2>2. Phased("over")
    BY <1>14, <2>1 DEF Phased
  <2>3. Same(a, c) /\ c.open = a.open /\ c.subagents = a.subagents
    BY <1>6, <1>8 DEF Same
  <2>4. TurnStands
    BY <1>11, <1>14, <2>1, <2>3
  <2> QED
    BY <1>2, <1>4, <1>9, <1>10, <1>14, <2>2, <2>4 DEF TurnInv, ScreenInv
<1>15. Emit(a, <<start, error>>) = c
  BY <1>3, <1>5, EmitTwice DEF Fresh, b, c
<1> QED
  BY <1>12, <1>13, <1>14, <1>15 DEF Init, a, b

\* Every step of a turn keeps its invariant.
LEMMA TurnStep ==
    ASSUME StreamAssumption, TurnInv, [Next]_vars
    PROVE  TurnInv'
<1>1. CASE Send
  BY <1>1, SendStep
<1>2. CASE Runner
  BY <1>2, StreamEndsStep, AutoContinueStep, LimitReachedStep, AwaitToolsStep, ReturnStep DEF Runner
<1>3. CASE RunStarted
  BY <1>3, RunStartedStep
<1>4. CASE AgnoStops
  BY <1>4, RunCompletedStep, RunFailedStep, RunPausedStep DEF AgnoStops
<1>5. ASSUME NEW r \in Runs, NEW k \in KeysOf(r), Speaks(r, k)
      PROVE  TurnInv'
  <2>1. ScreenInv /\ Named /\ ClientTyped
    BY DEF TurnInv
  <2>2. ScreenInv'
    BY <1>5, <2>1, SpeaksStep
  <2>3. drive # "done" /\ UNCHANGED <<mixin, client>>
    BY <1>5 DEF Speaks, RunContent, ReasoningStep, ReasoningStarted, ReasoningDelta, ReasoningCompleted,
                ToolStarted, ToolCompleted, ToolFailed, Live, Streaming
  <2> QED
    BY <2>1, <2>2, <2>3, UnsentNamed DEF TurnInv
<1>6. ASSUME NEW m \in Members, MemberStep(m)
      PROVE  TurnInv'
  <2>1. CASE \E r \in Runs : MemberStarted(m, r)
    BY <2>1, MemberStartedStep
  <2>2. CASE MemberCompleted(m)
    <3>1. Live(m) /\ agno' = [agno EXCEPT ![m] = "over"] /\ adapter' = Leave(m, "agent_finished")
          /\ UNCHANGED <<calls, drive, mixin, client>>
      BY <2>2 DEF MemberCompleted
    <3> QED
      BY <3>1, MemberLeavesStep
  <2>3. CASE MemberFailed(m)
    BY <2>3, MemberFailedStep
  <2> QED
    BY <1>6, <2>1, <2>2, <2>3 DEF MemberStep
<1>7. CASE UNCHANGED vars
  <2>1. PICK p \in Phases : Leads(OnScreen, adapter, p, InCall) /\ Phased(p)
    BY DEF TurnInv, ScreenInv
  <2>2. Leads(OnScreen, adapter, p, InCall)' /\ Phased(p)'
    BY <1>7, <2>1 DEF vars, OnScreen, InCall, Phased
  <2>3. (TurnTyped /\ Together /\ Begun)'
    BY <1>7 DEF vars, TurnInv, ScreenInv, TurnStands, TurnTyped, Together, Begun
  <2>4. (AtRest /\ Delegating /\ ClosedCalls)'
    BY <1>7 DEF vars, TurnInv, ScreenInv, TurnStands, AtRest, Delegating, ClosedCalls
  <2>5. Named' /\ ClientTyped'
    BY <1>7 DEF vars, TurnInv, Named, ClientTyped
  <2> QED
    BY <2>2, <2>3, <2>4, <2>5 DEF TurnInv, ScreenInv, TurnStands
<1> QED
  BY <1>1, <1>2, <1>3, <1>4, <1>5, <1>6, <1>7 DEF Next

\* The invariant of a turn, for any members, tools and bounds: what is still to be sent leads the
\* client's screen, by events the protocol accepts, to what the adapter believes is open; and who
\* has something open is at work.
THEOREM TurnStandsAlways == Spec => []TurnInv
<1>1. Init => TurnInv
  BY StreamAssumption, TurnInit
<1>2. TurnInv /\ [Next]_vars => TurnInv'
  BY StreamAssumption, TurnStep
<1> QED
  BY <1>1, <1>2, PTL DEF Spec

\* Between two raw events the client's screen shows what the adapter believes open, attributed as
\* the adapter would attribute its end; and a turn that returns has told the client that its run is
\* over and has left nothing open.
THEOREM ScreenTruly == Spec => []ScreenIsTrue
<1>1. TurnInv => ScreenIsTrue
  <2> SUFFICES ASSUME TurnInv
               PROVE  ScreenIsTrue
    OBVIOUS
  <2>1. PICK p \in Phases : Leads(OnScreen, adapter, p, InCall) /\ Phased(p)
    BY DEF TurnInv, ScreenInv
  <2>2. ASSUME adapter.out = <<>>
        PROVE  client.agents = Range(adapter.subagents) /\ client.open = Sequences(adapter) /\ client.phase = p
    <3>1. OnScreen = Believed(adapter, p, InCall)
      BY <2>1, <2>2, AllSent
    <3> QED
      BY <3>1 DEF OnScreen, Believed, Screen
  <2>3. ScreenMatchesAdapter
    BY <2>2 DEF ScreenMatchesAdapter, Sequences
  <2>4. ASSUME drive = "done"
        PROVE  /\ client.phase = "over" /\ client.open = {} /\ client.agents = {}
               /\ adapter.paused \/ client.finished \in {"none", client.started}
    <3>1. adapter.out = <<>> /\ ClosedUp(adapter) /\ p = "over"
      BY <2>1, <2>4 DEF TurnInv, ScreenInv, TurnStands, AtRest, Phased
    <3>2. Sequences(adapter) = {} /\ Range(adapter.subagents) = {}
      BY <3>1, BelievedNothing
    <3> QED
      BY <2>2, <2>4, <3>1, <3>2 DEF TurnInv, Named
  <2> QED
    BY <2>3, <2>4 DEF ScreenIsTrue, EndsCleanly
<1> QED
  BY <1>1, TurnStandsAlways, PTL

-----------------------------------------------------------------------------
(* What the client is sent is a stream that the protocol accepts.            *)

\* The fields of an event.
LEMMA EventIs ==
    ASSUME NEW e \in Event
    PROVE  /\ e.type \in {"open", "delta", "close"} =>
                 /\ e.kind \in Kinds /\ e.id \in Ids /\ e.by \in Speakers
                 /\ e = [type |-> e.type, kind |-> e.kind, id |-> e.id, by |-> e.by]
           /\ e.type = "agent_started" =>
                 /\ e.run \in Members /\ e.parent \in Speakers
                 /\ e = [type |-> "agent_started", run |-> e.run, parent |-> e.parent]
           /\ e.type \in {"agent_finished", "agent_error"} =>
                 e.run \in Members /\ e = [type |-> e.type, run |-> e.run]
           /\ e.type \in {"tool_start", "tool_end"} =>
                 /\ e.tool \in Tools /\ e.by \in Speakers
                 /\ e = [type |-> e.type, tool |-> e.tool, by |-> e.by]
           /\ e.type = "run_error" => e = [type |-> "run_error"]
           /\ e.type \in {"open", "delta", "close", "agent_started", "agent_finished", "agent_error",
                          "tool_start", "tool_end", "run_started", "run_finished", "run_error"}
<1>1. CASE e \in [type : {"open", "delta", "close"}, kind : Kinds, id : Ids, by : Speakers]
  <2>1. /\ e = [type |-> e.type, kind |-> e.kind, id |-> e.id, by |-> e.by]
        /\ e.type \in {"open", "delta", "close"} /\ e.kind \in Kinds /\ e.id \in Ids /\ e.by \in Speakers
    BY <1>1
  <2> QED
    BY <2>1
<1>2. CASE e \in [type : {"agent_started"}, run : Members, parent : Speakers]
  <2>1. e.type = "agent_started" /\ e.run \in Members /\ e.parent \in Speakers
        /\ e = [type |-> e.type, run |-> e.run, parent |-> e.parent]
    BY <1>2
  <2> QED
    BY <2>1
<1>3. CASE e \in [type : {"agent_finished", "agent_error"}, run : Members]
  <2>1. e.type \in {"agent_finished", "agent_error"} /\ e.run \in Members /\ e = [type |-> e.type, run |-> e.run]
    BY <1>3
  <2> QED
    BY <2>1
<1>4. CASE e \in [type : {"tool_start", "tool_end"}, tool : Tools, by : Speakers]
  <2>1. e.type \in {"tool_start", "tool_end"} /\ e.tool \in Tools /\ e.by \in Speakers
        /\ e = [type |-> e.type, tool |-> e.tool, by |-> e.by]
    BY <1>4
  <2> QED
    BY <2>1
<1>5. CASE e \in [type : {"run_started", "run_finished"}, run : RunIds \ {"none"}]
  <2>1. e.type \in {"run_started", "run_finished"}
    BY <1>5
  <2> QED
    BY <2>1
<1>6. CASE e \in [type : {"run_error"}]
  <2>1. e.type = "run_error" /\ e = [type |-> e.type]
    BY <1>6
  <2> QED
    BY <2>1
<1> QED
  BY <1>1, <1>2, <1>3, <1>4, <1>5, <1>6 DEF Event

\* A client that takes an event the protocol accepts takes a step of the protocol.
LEMMA TakesAgui ==
    ASSUME NEW e \in Event, ~MembersContinue, Accepts(OnScreen, e), NEW f, Taken(client, f, client'),
           e.type \in {"run_started", "run_finished"} => f.type = e.type /\ f \in [type : {e.type}, run : RunIds],
           e.type \notin {"run_started", "run_finished"} => f = e
    PROVE  Agui!Next
<1> DEFINE o == client.open
           o1 == client'.open
           ag == client.agents
           ag1 == client'.agents
           cl == client.calls
           cl1 == client'.calls
           ph == client.phase
           ph1 == client'.phase
<1>0. OnScreen.phase = ph /\ OnScreen.open = o /\ OnScreen.agents = ag /\ OnScreen.calls = cl
  BY DEF OnScreen, Screen
<1>1. /\ e.type = "run_started" => ph = "idle"
      /\ e.type # "run_started" => ph = "running"
      /\ e.type \in {"run_finished", "run_error"} => o = {} /\ ag = {}
      /\ e.type = "open" => e.by \in ag \cup {Nobody} /\ \A s \in o : s.id # e.id
      /\ e.type \in {"delta", "close"} =>
            Utterance(e) \in o /\ \A s \in o : s.id = e.id => s = Utterance(e)
      /\ e.type = "agent_started" => e.run \notin ag /\ e.parent \in ag \cup {Nobody}
      /\ e.type \in {"agent_finished", "agent_error"} => e.run \in ag /\ \A s \in o : s.by # e.run
      /\ e.type = "tool_start" => e.tool \notin cl /\ e.by \in ag \cup {Nobody}
      /\ e.type = "tool_end" => e.tool \in cl
  BY <1>0 DEF Accepts, UnderWay
<1>2. /\ ph1 = IF f.type = "run_started" THEN "running"
               ELSE IF f.type \in {"run_finished", "run_error"} THEN "over" ELSE ph
      /\ o1 = IF f.type = "open" THEN o \cup {Utterance(f)}
              ELSE IF f.type = "close" THEN {s \in o : s.kind # f.kind \/ s.id # f.id} ELSE o
      /\ ag1 = IF f.type = "agent_started" THEN ag \cup {f.run}
               ELSE IF f.type \in {"agent_finished", "agent_error"} THEN ag \ {f.run} ELSE ag
      /\ cl1 = IF f.type = "tool_start" THEN cl \cup {f.tool}
               ELSE IF f.type = "tool_end" THEN cl \ {f.tool} ELSE cl
      /\ client'.last = f
  BY DEF Taken
<1> HIDE DEF o, o1, ag, ag1, cl, cl1, ph, ph1
<1>3. CASE e.type = "run_started"
  <2>1. f.type = "run_started" /\ f \in [type : {"run_started"}, run : RunIds]
    BY <1>3
  <2>2. ph = "idle" /\ ph1 = "running" /\ o1 = o /\ ag1 = ag /\ cl1 = cl
    BY <1>1, <1>2, <1>3, <2>1
  <2> QED
    BY <1>2, <2>1, <2>2 DEF o, o1, ag, ag1, cl, cl1, ph, ph1, Agui!Next, Agui!Started
<1>4. CASE e.type = "run_finished"
  <2>1. f.type = "run_finished" /\ f \in [type : {"run_finished"}, run : RunIds]
    BY <1>4
  <2>2. ph = "running" /\ ph1 = "over" /\ o = {} /\ ag = {} /\ o1 = o /\ ag1 = ag /\ cl1 = cl
    BY <1>1, <1>2, <1>4, <2>1
  <2> QED
    BY <1>2, <2>1, <2>2 DEF o, o1, ag, ag1, cl, cl1, ph, ph1, Agui!Next, Agui!Finished
<1>5. CASE e.type = "run_error"
  <2>1. f = [type |-> "run_error"] /\ f.type = "run_error"
    BY <1>5, EventIs
  <2>2. ph = "running" /\ ph1 = "over" /\ o = {} /\ ag = {} /\ o1 = o /\ ag1 = ag /\ cl1 = cl
    BY <1>1, <1>2, <1>5, <2>1
  <2> QED
    BY <1>2, <2>1, <2>2 DEF o, o1, ag, ag1, cl, cl1, ph, ph1, Agui!Next, Agui!Failed
<1>6. CASE e.type = "open"
  <2>1. f = e /\ e.kind \in Kinds /\ e.id \in Ids /\ e.by \in Speakers
        /\ e = [type |-> "open", kind |-> e.kind, id |-> e.id, by |-> e.by]
    BY <1>6, EventIs
  <2>2. ph = "running" /\ ph1 = ph /\ e.by \in ag \cup {Nobody} /\ (\A s \in o : s.id # e.id)
        /\ o1 = o \cup {Utterance(e)} /\ ag1 = ag /\ cl1 = cl
    BY <1>1, <1>2, <1>6, <2>1
  <2>3. Agui!Opened(e.kind, e.id, e.by)
    BY <1>2, <2>1, <2>2 DEF o, o1, ag, ag1, cl, cl1, ph, ph1, Agui!Opened, Utterance
  <2> QED
    BY <2>1, <2>3 DEF Agui!Next, Agui!Speakers, Speakers
<1>7. CASE e.type = "delta"
  <2> DEFINE s == Utterance(e)
  <2>1. f = e /\ e = [type |-> "delta", kind |-> e.kind, id |-> e.id, by |-> e.by]
    BY <1>7, EventIs
  <2>2. s.kind = e.kind /\ s.id = e.id /\ s.by = e.by
    BY DEF Utterance
  <2>3. ph = "running" /\ ph1 = ph /\ s \in o /\ o1 = o /\ ag1 = ag /\ cl1 = cl
    BY <1>1, <1>2, <1>7, <2>1
  <2> HIDE DEF s
  <2>4. Agui!Said(s)
    BY <1>2, <2>1, <2>2, <2>3 DEF o, o1, ag, ag1, cl, cl1, ph, ph1, Agui!Said
  <2> QED
    BY <2>3, <2>4 DEF o, Agui!Next
<1>8. CASE e.type = "close"
  <2> DEFINE s == Utterance(e)
  <2>1. f = e /\ e = [type |-> "close", kind |-> e.kind, id |-> e.id, by |-> e.by]
    BY <1>8, EventIs
  <2>2. s.kind = e.kind /\ s.id = e.id /\ s.by = e.by
    BY DEF Utterance
  <2>3. ph = "running" /\ ph1 = ph /\ s \in o /\ (\A x \in o : x.id = e.id => x = s)
        /\ o1 = {x \in o : x.kind # e.kind \/ x.id # e.id} /\ ag1 = ag /\ cl1 = cl
    BY <1>1, <1>2, <1>8, <2>1
  <2> HIDE DEF s
  <2>4. o1 = o \ {s}
    BY <2>2, <2>3
  <2>5. Agui!Closed(s)
    BY <1>2, <2>1, <2>2, <2>3, <2>4 DEF o, o1, ag, ag1, cl, cl1, ph, ph1, Agui!Closed
  <2> QED
    BY <2>3, <2>5 DEF o, Agui!Next
<1>9. CASE e.type = "agent_started"
  <2>1. f = e /\ e.run \in Members /\ e.parent \in Speakers
        /\ e = [type |-> "agent_started", run |-> e.run, parent |-> e.parent]
    BY <1>9, EventIs
  <2>2. ph = "running" /\ ph1 = ph /\ e.run \notin ag /\ e.parent \in ag \cup {Nobody}
        /\ o1 = o /\ ag1 = ag \cup {e.run} /\ cl1 = cl
    BY <1>1, <1>2, <1>9, <2>1
  <2>3. Agui!AgentStarted(e.run, e.parent)
    BY <1>2, <2>1, <2>2 DEF o, o1, ag, ag1, cl, cl1, ph, ph1, Agui!AgentStarted
  <2> QED
    BY <2>1, <2>3 DEF Agui!Next, Agui!Speakers, Speakers
<1>10. CASE e.type \in {"agent_finished", "agent_error"}
  <2>1. f = e /\ e.run \in Members /\ e = [type |-> e.type, run |-> e.run]
    BY <1>10, EventIs
  <2>2. ph = "running" /\ ph1 = ph /\ e.run \in ag /\ (\A s \in o : s.by # e.run)
        /\ o1 = o /\ ag1 = ag \ {e.run} /\ cl1 = cl
    BY <1>1, <1>2, <1>10, <2>1
  <2>3. e \in [type : {"agent_finished", "agent_error"}, run : {e.run}]
    BY <1>10, <2>1
  <2>4. Agui!AgentEnded(e.run)
    BY <1>2, <2>1, <2>2, <2>3 DEF o, o1, ag, ag1, cl, cl1, ph, ph1, Agui!AgentEnded
  <2> QED
    BY <2>1, <2>4 DEF Agui!Next
<1>11. CASE e.type = "tool_start"
  <2>1. f = e /\ e.tool \in Tools /\ e.by \in Speakers
        /\ e = [type |-> "tool_start", tool |-> e.tool, by |-> e.by]
    BY <1>11, EventIs
  <2>2. ph = "running" /\ ph1 = ph /\ e.tool \notin cl /\ e.by \in ag \cup {Nobody}
        /\ o1 = o /\ ag1 = ag /\ cl1 = cl \cup {e.tool}
    BY <1>1, <1>2, <1>11, <2>1
  <2>3. Agui!CallStarted(e.tool, e.by)
    BY <1>2, <2>1, <2>2 DEF o, o1, ag, ag1, cl, cl1, ph, ph1, Agui!CallStarted
  <2> QED
    BY <2>1, <2>3 DEF Agui!Next, Agui!Speakers, Speakers
<1>12. CASE e.type = "tool_end"
  <2>1. f = e /\ e.tool \in Tools /\ e.by \in Speakers
        /\ e = [type |-> "tool_end", tool |-> e.tool, by |-> e.by]
    BY <1>12, EventIs
  <2>2. ph = "running" /\ ph1 = ph /\ e.tool \in cl /\ o1 = o /\ ag1 = ag /\ cl1 = cl \ {e.tool}
    BY <1>1, <1>2, <1>12, <2>1
  <2>3. e \in [type : {"tool_end"}, tool : {e.tool}, by : Agui!Speakers]
    BY <2>1 DEF Agui!Speakers, Speakers
  <2>4. Agui!CallEnded(e.tool)
    BY <1>2, <2>1, <2>2, <2>3 DEF o, o1, ag, ag1, cl, cl1, ph, ph1, Agui!CallEnded
  <2> QED
    BY <2>1, <2>4 DEF Agui!Next
<1> QED
  BY <1>3, <1>4, <1>5, <1>6, <1>7, <1>8, <1>9, <1>10, <1>11, <1>12, EventIs

\* Only the runner's sends and the notice of a wait are seen by the client.
LEMMA OnlySends ==
    ASSUME [Next]_vars
    PROVE  Send \/ AwaitTools \/ client' = client
<1>1. Runner => AwaitTools \/ client' = client
  BY DEF Runner, StreamEnds, AutoContinue, LimitReached, Return
<1>2. RunStarted \/ AgnoStops => client' = client
  BY DEF RunStarted, AgnoStops, RunCompleted, RunFailed, RunPaused
<1>3. ASSUME NEW r \in Runs, NEW k \in KeysOf(r), Speaks(r, k)
      PROVE  client' = client
  BY <1>3 DEF Speaks, RunContent, ReasoningStep, ReasoningStarted, ReasoningDelta, ReasoningCompleted,
         ToolStarted, ToolCompleted, ToolFailed
<1>4. \A m \in Members : MemberStep(m) => client' = client
  BY DEF MemberStep, MemberStarted, MemberCompleted, MemberFailed
<1>5. UNCHANGED vars => client' = client
  BY DEF vars
<1> QED
  BY <1>1, <1>2, <1>3, <1>4, <1>5 DEF Next

\* What the client is sent is a stream that the protocol accepts, for any members, tools and
\* bounds, when a member does not outlive a pause of its team.
THEOREM SpeaksAgui ==
    ASSUME ~MembersContinue
    PROVE  Spec => ImplementsAgui
<1>1. Init => Agui!Init
  <2> SUFFICES ASSUME Init
               PROVE  Agui!Init
    OBVIOUS
  <2>1. client = [phase |-> "idle", open |-> {}, agents |-> {}, calls |-> {},
                  started |-> "none", finished |-> "none", last |-> [type |-> "none"]]
    BY DEF Init
  <2> QED
    BY <2>1 DEF Agui!Init
<1>2. TurnInv /\ [Next]_vars => [Agui!Next]_(Agui!vars)
  <2> SUFFICES ASSUME TurnInv, [Next]_vars
               PROVE  [Agui!Next]_(Agui!vars)
    OBVIOUS
  <2>1. CASE Send
    <3> DEFINE e == Head(adapter.out)
               f == Shown(e)
    <3>1. e \in Event /\ Accepts(OnScreen, e) /\ client' = Receive(client, f)
      BY <2>1, StreamAssumption, SendShows
    <3>2. mixin \in RunIds /\ IsClient(client)
      BY DEF TurnInv, ScreenInv, TurnStands, TurnTyped, ClientTyped
    <3>3. ASSUME e.type \in {"run_started", "run_finished"}
          PROVE  f.type = e.type /\ f \in [type : {e.type}, run : RunIds]
      <4>1. e.run \in RunIds \ {"none"} /\ f = [type |-> e.type, run |-> RunIdOf(e)]
        BY <3>1, <3>3, ShownIs
      <4>2. RunIdOf(e) \in RunIds
        BY <3>2, <4>1 DEF RunIdOf
      <4> HIDE DEF e, f
      <4> QED
        BY <4>1, <4>2
    <3>4. e.type \notin {"run_started", "run_finished"} => f = e
      BY <3>1, ShownIs
    <3> HIDE DEF e, f
    <3>5. Taken(client, f, client')
      BY <3>1, <3>2, ReceiveIs
    <3>6. Agui!Next
      BY <3>1, <3>3, <3>4, <3>5, TakesAgui
    <3> QED
      BY <3>6
  <2>2. CASE AwaitTools
    <3> DEFINE e == [type |-> "run_finished", run |-> "agno"]
    <3>1. client' = Receive(client, e) /\ drive = "flushed" /\ adapter.paused /\ adapter.out = <<>>
      BY <2>2 DEF AwaitTools, Flushed
    <3>2. IsClient(client)
      BY DEF TurnInv, ClientTyped
    <3>3. e.type = "run_finished" /\ e \in [type : {"run_finished"}, run : RunIds]
          /\ e \in [type : {"run_started", "run_finished"}, run : RunIds \ {"none"}]
      BY DEF RunIds
    <3> HIDE DEF e
    <3>4. Taken(client, e, client')
      BY <3>1, <3>2, ReceiveIs
    <3>5. Accepts(OnScreen, e)
      <4>1. PICK p \in Phases : Leads(OnScreen, adapter, p, InCall) /\ Phased(p)
        BY DEF TurnInv, ScreenInv
      <4>2. ClosedUp(adapter) /\ UnderWay(p)
        BY <3>1, <4>1 DEF TurnInv, ScreenInv, TurnStands, AtRest, Delegating, Phased
      <4>3. OnScreen = Screen(p, {}, {}, InCall)
        BY <3>1, <4>1, <4>2, AllSent, BelievedNothing
      <4>4. OnScreen.phase = p /\ OnScreen.open = {} /\ OnScreen.agents = {}
        BY <4>3 DEF Screen
      <4> QED
        BY <3>3, <4>2, <4>4 DEF Accepts
    <3>6. e \in Event
      BY <3>3 DEF Event
    <3>7. Agui!Next
      BY <3>3, <3>4, <3>5, <3>6, TakesAgui
    <3> QED
      BY <3>7
  <2>3. CASE client' = client
    BY <2>3 DEF Agui!vars
  <2> QED
    BY <2>1, <2>2, <2>3, OnlySends
<1> QED
  BY <1>1, <1>2, TurnStandsAlways, PTL DEF Spec, ImplementsAgui, Agui!Spec
=============================================================================
